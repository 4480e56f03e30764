----------------------------- MODULE Publication -----------------------------
(***************************************************************************)
(* The commands that publish a file or a package, side by side in one      *)
(* directory, with somebody else at work there and crashes at any step.    *)
(***************************************************************************)
EXTENDS OutputFile, PackagePublish

vars == <<parentVars, outputVars, packageVars>>

Init == ParentInit /\ OutputInit /\ PackageInit

Next ==
  \/ \E w \in Writers : WriterStep(w) /\ UNCHANGED packageVars
  \/ \E p \in Publishers : PublisherStep(p) /\ UNCHANGED outputVars
  \/ EditSource /\ UNCHANGED outputVars
  \/ Somebody /\ UNCHANGED <<outputVars, packageVars>>

Spec == Init /\ [][Next]_vars

-----------------------------------------------------------------------------
(* What a reader may find under a public name, now or after a crash.       *)
Outputs == UNION {image[d].output \cup {output[d]} : d \in Dirs}
Packages == UNION {image[d].package \cup {package[d]} : d \in Dirs}

(* Whatever stands under the public name of an output or a package, at any *)
(* moment and after a crash at any moment, is whole and on disk: the data  *)
(* is synced before the rename (run.py:308, platform_package_v0_2.py:1606).*)
PublishedIsWhole ==
  \A i \in (Outputs \cup Packages) \ {NoEntry} : inode[i].data = "whole" /\ inode[i].synced

(* An output whose command returned survives a machine crash, under a name *)
(* that led to it when the command checked its parent: the parent is       *)
(* synced last, and a parent that the command created, when it made it     *)
(* (run.py:157, run.py:346).  Excepted: a parent that another command      *)
(* created and has not synced, because it has yet to, was killed, or could *)
(* not.  Nobody else ever syncs it, so that such an output may be lost.    *)
SuccessSurvives ==
  \A w \in Writers : pc[w] = "returned" =>
    /\ NoEntry \notin image[fd[w]].output
    /\ NoDir \in atImage => maker \in Writers \ {w}

(* An output that replaces an earlier one has its mode, as soon as its     *)
(* command returned (run.py:343).  Excepted: a second command that read    *)
(* the mode in the window before the first restored it.                    *)
Earlier(i) == i \in {Old, Foreign}
ModeKept ==
  \A w \in Writers : pc[w] = "returned" /\ ~window =>
    /\ Earlier(seen[w].entry) => inode[w].mode = "shared"
    /\ \A v \in Writers : seen[w].entry = v /\ Earlier(seen[v].entry) => inode[w].mode = "shared"

(* A standing package is never replaced, by whatever command or race, and  *)
(* an entry that somebody put in the place of a temporary one is published *)
(* or left alone, but never deleted (platform_package_v0_2.py:848, :934;   *)
(* run.py:353).  Excepted: one that was put there after the command had    *)
(* looked at the name for the last time, since a name cannot be removed on *)
(* condition of what it stands for (platform_package_v0_2.py:917).  A      *)
(* crash may undo a rename.                                                *)
OthersAreLeftAlone ==
  [][\/ MachineCrash
     \/ /\ \A d \in Dirs : package[d] # NoEntry => package'[d] = package[d]
        /\ \A c \in Commands : private[c] = Foreign /\ private'[c] # Foreign =>
             \/ Foreign \in {output'[fd[c]], package'[fd[c]]}
             \/ c \in late]_vars

(* A command that raised has left no temporary entry, unless a call of its *)
(* cleanup failed too (run.py:352, platform_package_v0_2.py:984 and :1655);*)
(* what stays then has no public name.  A package command that raised      *)
(* either published nothing and left no file, or published what it         *)
(* checked; one that returned published its package.                       *)
FailureCleansUp ==
  /\ \A c \in Commands : pc[c] = "raised" => private[c] # c
  /\ \A c \in Commands : pc[c] = "uncleaned" => c \notin Outputs \cup Packages
  /\ \A p \in Publishers : pc[p] = "raised" =>
       \/ Present(tree[p]) \ {Root} = {}
       \/ CheckPackage(tree[p], recheck[p])
  /\ \A p \in Publishers : pc[p] = "returned" => p \in Packages

(* The files of a published package are versions that stood in the         *)
(* repository at one moment, although they are read one after the other:   *)
(* the self-check reads them again (platform_package_v0_2.py:1610).        *)
(* Excepted: a file was edited after it was read and edited back before it *)
(* was read again, which a comparison of contents cannot see.              *)
PackageCoexisted ==
  \A p \in Publishers : p \in Packages =>
    /\ tree[p] = ExpectedTree(collected[p])
    /\ collected[p] \in stood \/ p \in restored

StagedTree(s) ==
  [q \in Paths |->
     CASE q = Extra -> Missing
       [] q \in {Root, "conformance", "data", "kaggle", "schemas"} -> Entry("directory", "executable", <<>>)
       [] q = RunConformance -> Entry("file", "executable", <<0>>)
       [] OTHER -> Entry("file", "plain", ContentOf(q, s))]
Modes == {"plain", "executable", "private"}
Entries ==
  {Missing} \cup {Entry(kind, mode, <<>>) : kind \in {"directory", "link"}, mode \in Modes}
  \cup {[Entry("file", mode, content) EXCEPT !.links = n] :
          mode \in Modes, n \in {1, 2},
          content \in {Edited, Longer, <<0>>, <<1>>, [i \in DOMAIN ReadOrder |-> 1]}}
ExactCheck ==
  LET one == [f \in SourceFiles |-> 1]
      honest == StagedTree(one)
  IN /\ CheckPackage(honest, one)
     /\ \A q, r \in Paths : \A a, b \in Entries :
          LET t == [honest EXCEPT ![q] = a, ![r] = b]
          IN t # honest => ~CheckPackage(t, one)

(* The check accepts the tree that a command stages, and no other: not one *)
(* with up to two entries of any other kind, mode, link count or content.  *)
CheckIsExact == (\E p \in Publishers : pc[p] = "start") => ExactCheck
=============================================================================
