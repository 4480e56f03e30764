--------------------------- MODULE PackagePublish ---------------------------
(***************************************************************************)
(* write_v0_2_package and check_v0_2_package of                            *)
(* bench/engine/platform_package_v0_2.py.  A package is a closed world: a  *)
(* tree of directories and files with one allowed shape.                   *)
(***************************************************************************)
EXTENDS OutputParent

CONSTANTS
  Versions,   \* contents a source file may have
  Editable,   \* bound: the source files that are edited
  Beside,     \* bound: the sets of commands beside which they are edited
  MaxEdits,   \* bound: edits of them
  EditCost    \* bound: what they cost of MaxForeign

VARIABLES
  source,     \* per source file of the repository, its version
  collected,  \* per publisher, the versions read by _expected_package
  recheck,    \* per publisher, those read again for the self-check
  tree,       \* per publisher, the entries of its staging directory
  edits,      \* edits so far
  stood,      \* history: the versions that stood at one moment
  restored    \* history: publishers that had read a file which was edited
              \* and then edited back before they read it again

readings == <<source, collected, recheck, edits, stood, restored>>
packageVars == <<readings, tree>>

Root == "."
Fixture == "conformance/scorer-v0.2.json"
Items == "data/public_s2_items.jsonl"
Scoring == "kaggle/_scoring.py"
ItemSchema == "schemas/aleph-bench-item.schema.json"
PackageSchema == "schemas/aleph-bench-platform-package.schema.json"
ResultSchema == "schemas/aleph-bench-result.schema.json"
RunConformance == "kaggle/run_conformance.py"
Checksums == "checksums.sha256"
Manifest == "package-manifest.json"
Extra == "an unexpected name"
SourceFiles == {Fixture, Items, Scoring, ItemSchema, PackageSchema, ResultSchema}
Artifacts == SourceFiles \cup {RunConformance}
AllowedFiles == Artifacts \cup {Checksums, Manifest}
Paths == AllowedFiles \cup {Root, "conformance", "data", "kaggle", "schemas", Extra}

ReadOrder == <<Fixture, Items, Scoring, ItemSchema, PackageSchema, ResultSchema>>
WriteOrder == <<Fixture, Items, Scoring, RunConformance, ItemSchema, PackageSchema,
                ResultSchema, Checksums, Manifest>>
RemoveOrder == <<Checksums, "conformance", "data", "kaggle", Manifest, "schemas">>

ParentOf(f) == CASE f = Fixture -> "conformance"
                 [] f = Items -> "data"
                 [] f \in {Scoring, RunConformance} -> "kaggle"
                 [] f \in {ItemSchema, PackageSchema, ResultSchema} -> "schemas"
                 [] OTHER -> Root
ExpectedDirectories == {ParentOf(f) : f \in AllowedFiles} \ {Root}

(* An entry; content is a tuple so that any two contents can be compared.  *)
Entry(kind, mode, content) == [kind |-> kind, mode |-> mode, links |-> 1, content |-> content]
Missing == Entry("none", "none", <<>>)
Edited == <<-1>>
Longer == <<-2>>    \* more bytes than the expected file has
Present(t) == {q \in Paths : t[q].kind # "none"}

(* The content of a file when the sources have versions s: the manifest    *)
(* and the checksums hold the digests of all.                              *)
ContentOf(f, s) == CASE f \in SourceFiles -> <<s[f]>>
                     [] f = RunConformance -> <<0>>
                     [] OTHER -> [i \in DOMAIN ReadOrder |-> s[ReadOrder[i]]]

-----------------------------------------------------------------------------
(* check_v0_2_package, of a tree t against sources of versions s.          *)

(* Mutated ExpectedMode: the one executable is forgotten.                  *)
NeverExecutable(q) == IF q \in AllowedFiles THEN "plain" ELSE "executable"
ExpectedMode(q) ==
  IF q \in AllowedFiles \ {RunConformance} THEN "plain" ELSE "executable"

RegularFiles(t) == {f \in AllowedFiles : t[f].kind = "file"}

LayoutErrors(t) ==
  \/ t[Root].kind # "directory" \/ t[Root].mode # "executable"
  \/ Cardinality(Present(t) \ {Root}) > Cardinality(AllowedFiles \cup ExpectedDirectories)
  \/ \E q \in Present(t) \ {Root} :
       \/ t[q].kind = "link"
       \/ t[q].kind = "directory" /\ (q \notin ExpectedDirectories \/ t[q].mode # ExpectedMode(q))
       \/ t[q].kind = "file" /\ (q \notin AllowedFiles \/ t[q].links # 1
                                  \/ t[q].mode # ExpectedMode(q))
  \/ \E d \in ExpectedDirectories : t[d].kind # "directory"

(* _read_file_at: one link, and not more bytes than expected.              *)
Readable(t, f) ==
  /\ t[f].kind = "file" /\ t[f].links = 1 /\ t[ParentOf(f)].kind = "directory"
  /\ t[f].content # Longer

FileErrors(t, s) ==
  \E f \in AllowedFiles :
    f \notin RegularFiles(t) \/ ~Readable(t, f) \/ t[f].content # ContentOf(f, s)

(* A digest is modelled by what it is a digest of.                         *)
TreeDigest(t) == {<<q, t[q].kind, t[q].mode, t[q].content>> : q \in Present(t)}
ExpectedTree(s) ==
  [q \in Paths |->
     CASE q \in AllowedFiles -> Entry("file", ExpectedMode(q), ContentOf(q, s))
       [] q \in ExpectedDirectories \cup {Root} -> Entry("directory", "executable", <<>>)
       [] OTHER -> Missing]

CheckPackage(t, s) ==
  /\ ~LayoutErrors(t) /\ ~FileErrors(t, s)
  /\ TreeDigest(t) = TreeDigest(ExpectedTree(s))

-----------------------------------------------------------------------------
(* write_v0_2_package.                                                     *)

Frozen == 1         \* the version of the dataset that _load_v0_2_items accepts
ASSUME SourceAssumption ==
  Frozen \in Versions /\ Versions \subseteq Nat \ {0} /\ Editable \subseteq SourceFiles

Unread == [f \in SourceFiles |-> 0]
PackageInit ==
  /\ source = [f \in SourceFiles |-> Frozen] /\ stood = {source}
  /\ collected = [p \in Publishers |-> Unread] /\ recheck = [p \in Publishers |-> Unread]
  /\ tree = [p \in Publishers |-> [q \in Paths |-> Missing]]
  /\ edits = 0 /\ restored = {}

(* Publisher p has read f and has not read it again.                       *)
ReadOnce(p, f) == collected[p][f] # 0 /\ recheck[p][f] = 0

(* Somebody edits a source file, perhaps back to what it was.              *)
EditSource ==
  /\ \E p \in Publishers : Running(p)
  /\ {c \in Commands : pc[c] # "absent"} \in Beside
  /\ edits < MaxEdits /\ edits' = edits + 1
  /\ foreign' = IF edits = 0 THEN foreign + EditCost ELSE foreign
  /\ foreign' <= MaxForeign
  /\ \E f \in Editable, v \in Versions :
       /\ v # source[f]
       /\ source' = [source EXCEPT ![f] = v]
       /\ restored' = restored \cup {p \in Publishers : ReadOnce(p, f) /\ collected[p][f] = v}
  /\ stood' = stood \cup {source'}
  /\ UNCHANGED <<at, atImage, output, package, image, private, inode, fd, pc, historyVars,
                 collected, recheck, tree>>

OpenPackageParent(p) ==
  /\ pc[p] = "start"
  /\ fd' = [fd EXCEPT ![p] = at]
  /\ Go(p, IF at = NoDir THEN "raised" ELSE "absence")
  /\ UNCHANGED <<at, atImage, output, package, image, private, inode, foreign, historyVars, packageVars>>

EnsureAbsent(p) ==
  /\ pc[p] = "absence"
  /\ Go(p, IF package[fd[p]] = NoEntry THEN "read" ELSE "raised")
  /\ UNCHANGED <<at, atImage, output, package, image, private, inode, fd, foreign, historyVars, packageVars>>

(* _expected_package reads the source files one after the other; this is   *)
(* the i-th.                                                               *)
ReadsNext(reads, i) ==
  /\ reads[ReadOrder[i]] = 0
  /\ \A j \in 1..(i - 1) : reads[ReadOrder[j]] # 0

(* What comes after it: a dataset that is not the frozen one is refused.   *)
AfterReading(i, again, refused, done) ==
  IF ReadOrder[i] = Items /\ source[Items] # Frozen THEN refused
  ELSE IF i = Len(ReadOrder) THEN done ELSE again

Collect(p) ==
  /\ pc[p] = "read"
  /\ \E i \in DOMAIN ReadOrder :
       /\ ReadsNext(collected[p], i)
       /\ collected' = [collected EXCEPT ![p][ReadOrder[i]] = source[ReadOrder[i]]]
       /\ Go(p, AfterReading(i, "read", "raised", "mkdir"))
  /\ UNCHANGED <<at, atImage, output, package, image, private, inode, fd, foreign, historyVars,
                 source, recheck, tree, edits, stood, restored>>

(* mkdir under a random name, mode 0700.                                   *)
CreateStaging(p) ==
  /\ pc[p] = "mkdir"
  /\ private' = [private EXCEPT ![p] = p]
  /\ inode' = [inode EXCEPT ![p] = [NewInode("private") EXCEPT !.kind = "directory"]]
  /\ tree' = [tree EXCEPT ![p][Root] = Entry("directory", "private", <<>>)]
  /\ Go(p, "retain")
  /\ UNCHANGED <<at, atImage, output, package, image, fd, foreign, historyVars, readings>>

(* The new entry is inspected and opened; one of another user is refused.  *)
(* An error is followed by the cleanup if the directory is open by then;   *)
(* if not, it stays, and the command says so.                              *)
RetainStaging(p) ==
  /\ pc[p] = "retain"
  /\ \/ private[p] = p /\ \E next \in {"stage", "clean"} : Go(p, next)
     \/ Go(p, "uncleaned")
  /\ UNCHANGED <<at, atImage, output, package, image, private, inode, fd, foreign, historyVars, packageVars>>

(* The tree after the first n files.                                       *)
Staged(p, n) ==
  LET files == {WriteOrder[i] : i \in 1..n}
  IN [q \in Paths |->
        CASE q = RunConformance /\ q \in files -> Entry("file", "executable", ContentOf(q, collected[p]))
          [] q \in files \ {RunConformance} -> Entry("file", "plain", ContentOf(q, collected[p]))
          [] q # Root /\ \E f \in files : ParentOf(f) = q -> Entry("directory", "executable", <<>>)
          [] OTHER -> tree[p][q]]

(* _write_file_at for one file after the other, each synced with the       *)
(* directory that holds it; nobody else sees them.                         *)
StageFiles(p) ==
  /\ pc[p] = "stage"
  /\ \E n \in 0..Len(WriteOrder) :
       /\ tree' = [tree EXCEPT ![p] = Staged(p, n)]
       /\ Go(p, IF n = Len(WriteOrder) THEN "seal" ELSE "clean")
  /\ UNCHANGED <<at, atImage, output, package, image, private, inode, fd, foreign, historyVars, readings>>

(* Mutated Seal: the staging directory itself is not synced.               *)
SealUnsynced(p) ==
  /\ pc[p] = "seal"
  /\ tree' = [tree EXCEPT ![p][Root].mode = "executable"]
  /\ inode' = [inode EXCEPT ![p] = [inode[p] EXCEPT !.mode = "shared", !.data = "whole"]]
  /\ Go(p, "recheck")
  /\ UNCHANGED <<at, atImage, output, package, image, private, fd, foreign, historyVars, readings>>

(* fchmod 0755 and fsync of the staging directory.                         *)
Seal(p) ==
  /\ pc[p] = "seal"
  /\ tree' = [tree EXCEPT ![p][Root].mode = "executable"]
  /\ inode' = [inode EXCEPT ![p] = [inode[p] EXCEPT !.mode = "shared", !.data = "whole", !.synced = TRUE]]
  /\ Go(p, "recheck")
  /\ UNCHANGED <<at, atImage, output, package, image, private, fd, foreign, historyVars, readings>>

(* Mutated SelfCheck: against what the files were staged from.             *)
CheckAgainstCollected(p) ==
  /\ pc[p] = "recheck"
  /\ recheck' = [recheck EXCEPT ![p] = collected[p]]
  /\ Go(p, IF CheckPackage(tree[p], recheck'[p]) THEN "revalidate" ELSE "clean")
  /\ UNCHANGED <<at, atImage, output, package, image, private, inode, fd, foreign, historyVars,
                 source, collected, tree, edits, stood, restored>>

(* The self-check reads the source files again, one after the other, then  *)
(* the staged tree.                                                        *)
SelfCheck(p) ==
  /\ pc[p] = "recheck"
  /\ \E i \in DOMAIN ReadOrder :
       /\ ReadsNext(recheck[p], i)
       /\ recheck' = [recheck EXCEPT ![p][ReadOrder[i]] = source[ReadOrder[i]]]
       /\ Go(p, AfterReading(i, "recheck", "clean",
                   IF CheckPackage(tree[p], recheck'[p]) THEN "revalidate" ELSE "clean"))
  /\ UNCHANGED <<at, atImage, output, package, image, private, inode, fd, foreign, historyVars,
                 source, collected, tree, edits, stood, restored>>

RevalidateBefore(p) ==
  /\ pc[p] = "revalidate"
  /\ Go(p, IF StillThere(p) THEN "identify" ELSE "clean")
  /\ UNCHANGED <<at, atImage, output, package, image, private, inode, fd, foreign, historyVars, packageVars>>

(* _require_staging_identity.                                              *)
IdentifyStaging(p) ==
  /\ pc[p] = "identify"
  /\ Go(p, IF private[p] = p THEN "rename" ELSE "clean")
  /\ UNCHANGED <<at, atImage, output, package, image, private, inode, fd, foreign, historyVars, packageVars>>

(* Mutated Publish: a plain rename, which replaces.                        *)
PublishOver(p) ==
  /\ pc[p] = "rename"
  /\ package' = [package EXCEPT ![fd[p]] = private[p]]
  /\ image' = [image EXCEPT ![fd[p]].package = @ \cup {private[p]}]
  /\ private' = [private EXCEPT ![p] = NoEntry]
  /\ Go(p, "published")
  /\ UNCHANGED <<at, atImage, output, inode, fd, foreign, historyVars, packageVars>>

(* The rename that refuses to replace, of whatever bears the private name. *)
(* The parent directory is not synced after it.                            *)
Publish(p) ==
  /\ pc[p] = "rename"
  /\ IF package[fd[p]] # NoEntry
     THEN Go(p, "clean") /\ UNCHANGED <<package, image, private>>
     ELSE /\ package' = [package EXCEPT ![fd[p]] = private[p]]
          /\ image' = [image EXCEPT ![fd[p]].package = @ \cup {private[p]}]
          /\ private' = [private EXCEPT ![p] = NoEntry]
          /\ Go(p, "published")
  /\ UNCHANGED <<at, atImage, output, inode, fd, foreign, historyVars, packageVars>>

(* After the rename nothing is cleaned up, whatever is found.              *)
CheckPublished(p) ==
  /\ pc[p] = "published"
  /\ Go(p, IF package[fd[p]] = p THEN "revalidate after" ELSE "raised")
  /\ UNCHANGED <<at, atImage, output, package, image, private, inode, fd, foreign, historyVars, packageVars>>

RevalidateAfter(p) ==
  /\ pc[p] = "revalidate after"
  /\ Go(p, IF StillThere(p) THEN "returned" ELSE "raised")
  /\ UNCHANGED <<at, atImage, output, package, image, private, inode, fd, foreign, historyVars, packageVars>>

(* Any other call raises: before mkdir nothing is there, after the rename  *)
(* nothing is cleaned up.                                                  *)
PublisherFails(p) ==
  /\ \/ pc[p] \in {"start", "absence", "read", "mkdir"} /\ Go(p, "raised")
     \/ pc[p] \in {"seal", "recheck", "revalidate", "identify", "rename"} /\ Go(p, "clean")
     \/ pc[p] \in {"published", "revalidate after"} /\ Go(p, "raised")
  /\ UNCHANGED <<at, atImage, output, package, image, private, inode, fd, foreign, historyVars, packageVars>>

-----------------------------------------------------------------------------
(* _cleanup_staging_directory.  Whatever fails in it, the command raises   *)
(* and says that the cleanup failed: "uncleaned".                          *)

(* The name must still stand for the staging directory.  Mode 0700 either  *)
(* way, also when the look at it fails.                                    *)
IdentifyForCleanup(p) ==
  /\ pc[p] = "clean"
  /\ inode' = [inode EXCEPT ![p].mode = "private"]
  /\ tree' = [tree EXCEPT ![p][Root].mode = "private"]
  /\ \/ private[p] = p /\ Go(p, "empty")
     \/ Go(p, "uncleaned")
  /\ UNCHANGED <<at, atImage, output, package, image, private, fd, foreign, historyVars, readings>>

(* The tree without the first n entries of the staging directory.          *)
Removed(t, n) ==
  [q \in Paths |-> IF \E i \in 1..n : RemoveOrder[i] \in {q, ParentOf(q)} THEN Missing ELSE t[q]]

(* Entry after entry; what is left when one cannot be removed stays.       *)
RemoveContents(p) ==
  /\ pc[p] = "empty"
  /\ \E n \in 0..Len(RemoveOrder) :
       /\ tree' = [tree EXCEPT ![p] = Removed(@, n)]
       /\ Go(p, IF n = Len(RemoveOrder) THEN "remove" ELSE "uncleaned")
  /\ UNCHANGED <<at, atImage, output, package, image, private, inode, fd, foreign, historyVars, readings>>

(* Mutated LookAgain: the name is not looked at again.                     *)
RemoveByName(p) ==
  /\ pc[p] = "remove" /\ Go(p, "rmdir")
  /\ UNCHANGED <<at, atImage, output, package, image, private, inode, fd, foreign, historyVars, packageVars>>

(* The directory itself goes last, if the name still stands for it.        *)
LookAgain(p) ==
  /\ pc[p] = "remove"
  /\ Go(p, IF private[p] = p THEN "rmdir" ELSE "uncleaned")
  /\ UNCHANGED <<at, atImage, output, package, image, private, inode, fd, foreign, historyVars, packageVars>>

(* Mutated RemoveStaging: only the contents are removed.                   *)
LeaveStaging(p) ==
  /\ pc[p] = "rmdir" /\ Go(p, "raised")
  /\ UNCHANGED <<at, atImage, output, package, image, private, inode, fd, foreign, historyVars, packageVars>>

(* rmdir takes whatever the name stands for by now.                        *)
RemoveStaging(p) ==
  /\ pc[p] = "rmdir"
  /\ private' = [private EXCEPT ![p] = NoEntry]
  /\ Go(p, "raised")
  /\ UNCHANGED <<at, atImage, output, package, image, inode, fd, foreign, historyVars, packageVars>>

(* fchmod, the second look or rmdir fails.                                 *)
CleanupFails(p) ==
  /\ pc[p] \in {"clean", "remove", "rmdir"} /\ Go(p, "uncleaned")
  /\ UNCHANGED <<at, atImage, output, package, image, private, inode, fd, foreign, historyVars, packageVars>>

PublisherStep(p) ==
  \/ OpenPackageParent(p) \/ EnsureAbsent(p) \/ Collect(p)
  \/ CreateStaging(p) \/ RetainStaging(p)
  \/ StageFiles(p) \/ Seal(p) \/ SelfCheck(p)
  \/ RevalidateBefore(p) \/ IdentifyStaging(p) \/ Publish(p)
  \/ CheckPublished(p) \/ RevalidateAfter(p) \/ PublisherFails(p)
  \/ IdentifyForCleanup(p) \/ RemoveContents(p) \/ LookAgain(p) \/ RemoveStaging(p)
  \/ CleanupFails(p)
=============================================================================
