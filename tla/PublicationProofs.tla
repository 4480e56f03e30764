--------------------------- MODULE PublicationProofs ---------------------------
(***************************************************************************)
(* What the temporary name, the sync before the rename and the rename that *)
(* refuses to replace are for: what stands under a public name is whole,   *)
(* nobody else's entry is replaced or deleted, what a command returned     *)
(* survives and keeps its mode, what it failed to do is cleaned up, and a  *)
(* package holds files that stood together, for any number of commands,    *)
(* directories, edits and interventions.                                   *)
(***************************************************************************)
EXTENDS Publication, FiniteSetTheorems, TLAPS

Names == Inodes \cup {NoEntry}
Kinds == {"file", "link", "directory"}
InodeModes == {"private", "shared"}
InodeRecords ==
  [kind : Kinds, mode : InodeModes, data : {"none", "partial", "whole"},
   synced : BOOLEAN, changes : Nat]
Snapshots == [entry : Inodes, mode : InodeModes, changes : Nat]

(* Where a command has no private name yet, where it may give its inode a  *)
(* public one, and where the inode has none.                               *)
Before == {"absent", "start", "made", "inspect", "create", "absence", "read", "mkdir"}
Finished == {"revalidate", "reinspect", "replace", "recheck", "identify", "rename"}
Hidden ==
  Before \cup Finished
  \cup {"write", "fsync", "unwind", "unlink", "retain", "stage", "seal",
        "clean", "empty", "remove", "rmdir", "uncleaned"}
Labels ==
  Hidden \cup {"restore", "sync", "returned", "raised", "published", "revalidate after", "dead"}
Parentless == {"absent", "start", "made", "raised", "dead"}

Images == [Dirs -> [output : SUBSET Names, package : SUBSET Names]]
ImageOf(d) == image[d].output \cup image[d].package

PubType ==
  /\ at \in Dirs \cup {NoDir} /\ atImage \subseteq Dirs \cup {NoDir}
  /\ output \in [Dirs -> Names] /\ package \in [Dirs -> Names]
  /\ image \in Images
  /\ private \in [Commands -> Names]
  /\ inode \in [Inodes -> InodeRecords]
  /\ fd \in [Commands -> Dirs \cup {NoDir}]
  /\ pc \in [Commands -> Labels]
  /\ seen \in [Writers -> Snapshots \cup {Nothing}]
  /\ \A c \in Commands : pc[c] \notin Parentless => fd[c] \in Dirs
  /\ \A w \in Writers : pc[w] = "restore" => seen[w] # Nothing

Named(i) ==
  \E d \in Dirs : i \in ImageOf(d) \cup {output[d], package[d]}
Whole(i) == inode[i].data = "whole" /\ inode[i].synced

(* A random name stands for the inode of its command, or for what somebody *)
(* put in its place; and before the command made it, for nothing.          *)
PrivateIsOwn ==
  \A c \in Commands : /\ private[c] \in {NoEntry, c, Foreign}
                      /\ pc[c] \in Before => private[c] = NoEntry

(* An inode gets its public name after it is whole.                        *)
HiddenIsUnnamed == \A c \in Commands : pc[c] \in Hidden => ~Named(c)
FinishedIsWhole ==
  /\ \A c \in Commands : /\ pc[c] = "fsync" => inode[c].data = "whole"
                         /\ pc[c] \in Finished => Whole(c)
  /\ Whole(Old) /\ Whole(Foreign)
NamedIsWhole == \A i \in Inodes : Named(i) => Whole(i)

PubInv == PubType /\ PrivateIsOwn /\ HiddenIsUnnamed /\ FinishedIsWhole /\ NamedIsWhole

-----------------------------------------------------------------------------
LEMMA InodeFacts ==
  /\ NoEntry \notin Inodes
  /\ Old \in Inodes /\ Foreign \in Inodes /\ Commands \subseteq Inodes
  /\ \A c \in Commands : c # Old /\ c # Foreign
BY ParentAssumption DEF Inodes

LEMMA InitPublication == Init => PubInv
<1> SUFFICES ASSUME Init PROVE PubInv
  OBVIOUS
<1> USE InodeFacts DEF Init, ParentInit, OutputInit
<1>1. PubType
  <2>1. at \in Dirs \cup {NoDir} /\ atImage \subseteq Dirs \cup {NoDir}
    BY ParentAssumption
  <2>2. output \in [Dirs -> Names] /\ package \in [Dirs -> Names]
    BY DEF Names
  <2>3. image \in Images
    <3>1. \A d \in Dirs : {output[d]} \in SUBSET Names /\ {package[d]} \in SUBSET Names
      BY <2>2
    <3> QED
      BY <3>1 DEF Images
  <2>4. inode \in [Inodes -> InodeRecords]
    BY DEF InodeRecords, NewInode, Kinds, InodeModes
  <2>5. pc \in [Commands -> Labels] /\ \A c \in Commands : pc[c] \in {"absent", "start"}
    <3>1. PICK live \in Together :
            pc = [c \in Commands |-> IF c \in live THEN "start" ELSE "absent"]
      BY DEF Init, ParentInit
    <3> QED
      BY <3>1 DEF Labels, Hidden, Before
  <2>6. \A c \in Commands : pc[c] \in Parentless /\ pc[c] # "restore"
    BY <2>5 DEF Parentless
  <2>7. /\ private \in [Commands -> Names] /\ fd \in [Commands -> Dirs \cup {NoDir}]
        /\ seen \in [Writers -> Snapshots \cup {Nothing}]
    BY DEF Names
  <2> QED
    BY <2>1, <2>2, <2>3, <2>4, <2>5, <2>6, <2>7 DEF PubType, Commands
<1>2. PrivateIsOwn
  BY DEF PrivateIsOwn
<1>3. \A i \in Inodes : Named(i) => i = Old
  <2>1. \A d \in Dirs : output[d] \in {NoEntry, Old} /\ package[d] = NoEntry
    OBVIOUS
  <2>2. \A d \in Dirs : image[d].output = {output[d]} /\ image[d].package = {package[d]}
    OBVIOUS
  <2> QED
    BY <2>1, <2>2 DEF Named, ImageOf
<1>4. Whole(Old) /\ Whole(Foreign)
  BY DEF Whole, NewInode
<1>5. \A c \in Commands : pc[c] \in {"absent", "start"}
  <2>1. PICK live \in Together :
          pc = [c \in Commands |-> IF c \in live THEN "start" ELSE "absent"]
    BY DEF Init, ParentInit
  <2> QED
    BY <2>1
<1> QED
  BY <1>1, <1>2, <1>3, <1>4, <1>5 DEF PubInv, HiddenIsUnnamed, FinishedIsWhole, NamedIsWhole,
     Finished

-----------------------------------------------------------------------------
(* A step of command c that publishes nothing: it works on its own inode   *)
(* and its own name.                                                       *)
LEMMA OwnStep ==
  ASSUME PubInv, PubType', NEW c \in Commands,
         UNCHANGED <<output, package, image>>,
         \A v \in Commands \ {c} : private'[v] = private[v] /\ pc'[v] = pc[v],
         \A i \in Inodes \ {c} : inode'[i] = inode[i],
         private'[c] \in {NoEntry, c, private[c]},
         pc'[c] \in Before => pc[c] \in Before /\ private'[c] = private[c],
         pc'[c] \in Hidden => pc[c] \in Hidden,
         pc'[c] = "fsync" => inode'[c].data = "whole",
         pc'[c] \in Finished => Whole(c)',
         pc[c] \in Hidden \/ (Whole(c) => Whole(c)')
  PROVE  PubInv'
<1> USE InodeFacts DEF PubInv
<1>1. \A i \in Inodes : Named(i)' <=> Named(i)
  BY DEF Named, ImageOf
<1>2. PrivateIsOwn'
  BY DEF PrivateIsOwn
<1>3. HiddenIsUnnamed'
  BY <1>1 DEF HiddenIsUnnamed
<1>4. \A i \in Inodes \ {c} : Whole(i)' <=> Whole(i)
  BY DEF Whole
<1>5. FinishedIsWhole'
  BY <1>4 DEF FinishedIsWhole, Finished
<1>6. NamedIsWhole'
  BY <1>1, <1>4 DEF NamedIsWhole, HiddenIsUnnamed
<1> QED
  BY <1>2, <1>3, <1>5, <1>6

(* A step that changes no inode and no name, and moves c on.               *)
LEMMA MoveStep ==
  ASSUME PubInv, PubType', NEW c \in Commands,
         UNCHANGED <<output, package, image, private, inode>>,
         \A v \in Commands \ {c} : pc'[v] = pc[v],
         pc'[c] \in Before => pc[c] \in Before,
         pc'[c] \in Hidden => pc[c] \in Hidden,
         pc'[c] # "fsync",
         pc'[c] \in Finished => pc[c] \in Finished
  PROVE  PubInv'
<1>1. Whole(c)' <=> Whole(c)
  BY DEF Whole
<1>2. pc[c] \in Finished => Whole(c)
  BY DEF PubInv, FinishedIsWhole
<1> QED
  BY <1>1, <1>2, OwnStep

(* The types that no step of a command c disturbs but by its own entries.  *)
LEMMA TypeStep ==
  ASSUME PubType, NEW c \in Commands, NEW l \in Labels,
         pc' = [pc EXCEPT ![c] = l],
         fd' \in [Commands -> Dirs \cup {NoDir}],
         \A v \in Commands \ {c} : fd'[v] = fd[v],
         l \in Parentless \/ fd'[c] \in Dirs,
         at' \in Dirs \cup {NoDir}, atImage' \subseteq Dirs \cup {NoDir},
         output' \in [Dirs -> Names], package' \in [Dirs -> Names],
         image' \in Images,
         private' \in [Commands -> Names], inode' \in [Inodes -> InodeRecords],
         seen' \in [Writers -> Snapshots \cup {Nothing}],
         \A v \in Writers \ {c} : seen'[v] = seen[v],
         l # "restore" \/ seen'[c] # Nothing
  PROVE  PubType' /\ pc'[c] = l /\ \A v \in Commands \ {c} : pc'[v] = pc[v]
<1>1. pc' \in [Commands -> Labels] /\ pc'[c] = l /\ \A v \in Commands \ {c} : pc'[v] = pc[v]
  BY DEF PubType
<1>2. \A v \in Commands : pc'[v] \notin Parentless => fd'[v] \in Dirs
  BY <1>1 DEF PubType
<1>3. \A w \in Writers : pc'[w] = "restore" => seen'[w] # Nothing
  BY <1>1 DEF PubType, Commands
<1> QED
  BY <1>1, <1>2, <1>3 DEF PubType

-----------------------------------------------------------------------------
(* The steps of a writer.                                                  *)
LEMMA WriterMoves ==
  ASSUME PubInv, NEW w \in Writers,
         MakeParent(w) \/ SyncHolder(w) \/ OpenParent(w) \/ Inspect(w)
         \/ Revalidate(w) \/ Reinspect(w) \/ WriterFails(w) \/ UnwindFails(w)
  PROVE  PubInv'
<1> DEFINE Moves(l) ==
      /\ pc' = [pc EXCEPT ![w] = l]
      /\ l \in Labels \ {"restore", "fsync"}
      /\ l \in Parentless \/ fd'[w] \in Dirs
      /\ l \in Before => pc[w] \in Before
      /\ l \in Hidden => pc[w] \in Hidden
      /\ l \in Finished => pc[w] \in Finished
<1> USE InodeFacts
<1>1. w \in Commands /\ PubType
  BY DEF Commands, PubInv
<1>2. /\ UNCHANGED <<output, package, image, private, inode>>
      /\ \E l \in Labels : Moves(l)
      /\ at' \in Dirs \cup {NoDir} /\ atImage' \subseteq Dirs \cup {NoDir}
      /\ fd' \in [Commands -> Dirs \cup {NoDir}]
      /\ \A v \in Commands \ {w} : fd'[v] = fd[v]
      /\ seen' \in [Writers -> Snapshots \cup {Nothing}]
      /\ \A v \in Writers \ {w} : seen'[v] = seen[v]
  <2> USE <1>1 DEF Go, outputVars, Labels, Hidden, Before, Finished, Parentless, PubType
  <2>1. CASE MakeParent(w)
    <3>1. Moves("made") /\ "made" \in Labels
      BY <2>1 DEF MakeParent
    <3> QED
      BY <2>1, <3>1, ParentAssumption DEF MakeParent
  <2>2. CASE SyncHolder(w)
    <3>1. Moves("start") /\ "start" \in Labels
      BY <2>2 DEF SyncHolder
    <3> QED
      BY <2>2, <3>1 DEF SyncHolder
  <2>3. CASE OpenParent(w)
    <3>1. fd'[w] \in Dirs
      BY <2>3 DEF OpenParent
    <3>2. Moves("inspect") /\ "inspect" \in Labels
      BY <2>3, <3>1 DEF OpenParent
    <3> QED
      BY <2>3, <3>2 DEF OpenParent
  <2>4. CASE Inspect(w)
    <3>1. fd[w] \in Dirs /\ pc[w] = "inspect"
      BY <2>4 DEF Inspect
    <3>2. Snapshot(w) \in Snapshots \cup {Nothing}
      <4>1. output[fd[w]] \in Names
        BY <3>1
      <4>2. CASE output[fd[w]] = NoEntry
        BY <4>2 DEF Snapshot
      <4>3. CASE output[fd[w]] \in Inodes
        <5>1. inode[output[fd[w]]].mode \in InodeModes /\ inode[output[fd[w]]].changes \in Nat
          BY <4>3 DEF InodeRecords
        <5> QED
          BY <4>3, <5>1 DEF Snapshot, Snapshots
      <4> QED
        BY <4>1, <4>2, <4>3 DEF Names
    <3>3. seen' = seen \/ seen' = [seen EXCEPT ![w] = Snapshot(w)]
      BY <2>4 DEF Inspect
    <3>4. \E l \in {"raised", "create"} : Moves(l)
      BY <2>4, <3>1 DEF Inspect
    <3>5. seen' \in [Writers -> Snapshots \cup {Nothing}] /\ \A v \in Writers \ {w} : seen'[v] = seen[v]
      BY <3>2, <3>3
    <3>6. \E l \in Labels : Moves(l)
      BY <3>4
    <3>7. UNCHANGED <<output, package, image, private, inode, at, atImage, fd>>
      BY <2>4 DEF Inspect
    <3> QED
      BY <3>5, <3>6, <3>7
  <2>5. CASE Revalidate(w)
    <3>1. fd[w] \in Dirs /\ pc[w] = "revalidate"
      BY <2>5 DEF Revalidate
    <3>2. \E l \in {"unwind", "reinspect"} : Moves(l)
      BY <2>5, <3>1 DEF Revalidate
    <3> QED
      BY <2>5, <3>2 DEF Revalidate
  <2>6. CASE Reinspect(w)
    <3>1. fd[w] \in Dirs /\ pc[w] = "reinspect"
      BY <2>6 DEF Reinspect
    <3>2. \E l \in {"unwind", "replace"} : Moves(l)
      BY <2>6, <3>1 DEF Reinspect
    <3> QED
      BY <2>6, <3>2 DEF Reinspect
  <2>7. CASE WriterFails(w)
    <3>1. UNCHANGED <<output, package, image, private, inode, at, atImage, fd, seen>>
      BY <2>7 DEF WriterFails
    <3>2. CASE pc' = [pc EXCEPT ![w] = "raised"]
      <4>1. Moves("raised") /\ "raised" \in Labels
        BY <3>2
      <4> QED
        BY <3>1, <4>1
    <3>3. CASE pc' = [pc EXCEPT ![w] = "unwind"]
                 /\ pc[w] \in {"write", "fsync", "revalidate", "reinspect", "replace"}
      <4>1. Moves("unwind") /\ "unwind" \in Labels
        BY <3>1, <3>3
      <4> QED
        BY <3>1, <4>1
    <3> QED
      BY <2>7, <3>2, <3>3 DEF WriterFails
  <2>8. CASE UnwindFails(w)
    <3>1. fd[w] \in Dirs /\ fd' = fd
      BY <2>8 DEF UnwindFails
    <3>2. Moves("uncleaned") /\ "uncleaned" \in Labels
      BY <2>8, <3>1 DEF UnwindFails
    <3> QED
      BY <2>8, <3>2 DEF UnwindFails
  <2> QED
    BY <2>1, <2>2, <2>3, <2>4, <2>5, <2>6, <2>7, <2>8
<1>3. PICK l \in Labels : Moves(l)
  BY <1>2
<1>4. PubType' /\ pc'[w] = l /\ \A v \in Commands \ {w} : pc'[v] = pc[v]
  BY <1>1, <1>2, <1>3, TypeStep DEF PubType
<1> QED
  BY <1>1, <1>2, <1>3, <1>4, MoveStep

(* Changing one inode.                                                     *)
LEMMA InodeStep ==
  ASSUME inode \in [Inodes -> InodeRecords], NEW c \in Inodes, NEW r \in InodeRecords,
         inode' = [inode EXCEPT ![c] = r]
  PROVE  /\ inode' \in [Inodes -> InodeRecords] /\ inode'[c] = r
         /\ \A i \in Inodes \ {c} : inode'[i] = inode[i]
OBVIOUS

(* A change of mode, kind or times leaves the data whole and synced.       *)
LEMMA MetadataChange ==
  ASSUME NEW r \in InodeRecords, NEW m \in InodeModes, NEW k \in Kinds
  PROVE  LET moded == [r EXCEPT !.mode = m, !.changes = @ + 1]
             kinded == [r EXCEPT !.changes = @ + 1, !.kind = k]
             chmod == [r EXCEPT !.mode = m]
         IN \A s \in {moded, kinded, chmod} :
              s \in InodeRecords /\ s.data = r.data /\ s.synced = r.synced
<1>1. r.changes + 1 \in Nat
  BY DEF InodeRecords
<1> QED
  BY <1>1 DEF InodeRecords

LEMMA WriterWorks ==
  ASSUME PubInv, NEW w \in Writers,
         CreateTemporary(w) \/ WriteTemporary(w) \/ SyncTemporary(w) \/ RestoreMode(w)
         \/ Unwind(w) \/ Unlink(w)
  PROVE  PubInv'
<1> DEFINE Works(l) ==
      /\ pc' = [pc EXCEPT ![w] = l]
      /\ l \in Labels \ {"restore"}
      /\ fd[w] \in Dirs
      /\ l \in Before => pc[w] \in Before /\ private'[w] = private[w]
      /\ l \in Hidden => pc[w] \in Hidden
      /\ l = "fsync" => inode'[w].data = "whole"
      /\ l \in Finished => Whole(w)'
      /\ pc[w] \in Hidden \/ (Whole(w) => Whole(w)')
<1> USE InodeFacts
<1>1. w \in Commands /\ w \in Inodes /\ PubType /\ inode[w] \in InodeRecords
  BY DEF Commands, Inodes, PubInv, PubType
<1>2. /\ UNCHANGED <<output, package, image, at, atImage, fd, seen>>
      /\ \E l \in Labels : Works(l)
      /\ inode' \in [Inodes -> InodeRecords]
      /\ \A i \in Inodes \ {w} : inode'[i] = inode[i]
      /\ private' \in [Commands -> Names]
      /\ private'[w] \in {NoEntry, w, private[w]}
      /\ \A v \in Commands \ {w} : private'[v] = private[v]
  <2> USE <1>1 DEF Go, outputVars, Labels, Hidden, Before, Finished, PubType
  <2>1. CASE CreateTemporary(w)
    <3>1. NewInode("private") \in InodeRecords
      BY DEF NewInode, InodeRecords, Kinds, InodeModes
    <3>2. fd[w] \in Dirs
      BY <2>1 DEF CreateTemporary, Parentless
    <3>3. Works("write") /\ "write" \in Labels
      BY <2>1, <3>2 DEF CreateTemporary
    <3> QED
      BY <2>1, <3>1, <3>3 DEF CreateTemporary, Names
  <2>2. CASE WriteTemporary(w)
    <3>1. inode' = [inode EXCEPT ![w].data = "whole"]
          /\ inode'[w] = [inode[w] EXCEPT !.data = "whole"] /\ inode'[w].data = "whole"
      BY <2>2 DEF WriteTemporary, InodeRecords
    <3>2. fd[w] \in Dirs
      BY <2>2 DEF WriteTemporary, Parentless
    <3>3. Works("fsync") /\ "fsync" \in Labels
      BY <2>2, <3>1, <3>2 DEF WriteTemporary
    <3>4. [inode[w] EXCEPT !.data = "whole"] \in InodeRecords
      BY DEF InodeRecords
    <3>5. inode' \in [Inodes -> InodeRecords] /\ \A i \in Inodes \ {w} : inode'[i] = inode[i]
      BY <3>1, <3>4, InodeStep
    <3>6. UNCHANGED <<output, package, image, private, at, atImage, fd, seen>>
      BY <2>2 DEF WriteTemporary
    <3> QED
      BY <3>3, <3>5, <3>6
  <2>3. CASE SyncTemporary(w)
    <3>1. inode[w].data = "whole" /\ inode' = [inode EXCEPT ![w].synced = TRUE]
      BY <2>3 DEF SyncTemporary, PubInv, FinishedIsWhole
    <3>2. Whole(w)'
      BY <3>1 DEF Whole, InodeRecords
    <3>3. fd[w] \in Dirs
      BY <2>3 DEF SyncTemporary, Parentless
    <3>4. Works("revalidate") /\ "revalidate" \in Labels
      BY <2>3, <3>2, <3>3 DEF SyncTemporary
    <3>5. [inode[w] EXCEPT !.synced = TRUE] \in InodeRecords
      BY DEF InodeRecords
    <3>6. inode' \in [Inodes -> InodeRecords] /\ \A i \in Inodes \ {w} : inode'[i] = inode[i]
      BY <3>1, <3>5, InodeStep
    <3>7. UNCHANGED <<output, package, image, private, at, atImage, fd, seen>>
      BY <2>3 DEF SyncTemporary
    <3> QED
      BY <3>4, <3>6, <3>7
  <2>4. CASE Unwind(w)
    <3>1. fd[w] \in Dirs /\ UNCHANGED <<output, package, image, private, inode, at, atImage, fd, seen>>
      BY <2>4 DEF Unwind, Parentless
    <3>2. Whole(w)' <=> Whole(w)
      BY <3>1 DEF Whole
    <3>3. \E l \in {"unlink", "raised"} : pc' = [pc EXCEPT ![w] = l]
      BY <2>4 DEF Unwind
    <3>4. pc[w] = "unwind"
      BY <2>4 DEF Unwind
    <3>5. \E l \in Labels : Works(l)
      BY <3>1, <3>2, <3>3, <3>4
    <3> QED
      BY <3>1, <3>5
  <2>5. CASE RestoreMode(w)
    <3>1. seen[w].mode \in InodeModes
      <4>1. seen[w] \in Snapshots
        BY <2>5 DEF RestoreMode
      <4> QED
        BY <4>1 DEF Snapshots
    <3> DEFINE rewritten ==
                 [inode[w] EXCEPT !.mode = seen[w].mode, !.changes = @ + 1]
    <3>2. inode' = [inode EXCEPT ![w] = rewritten]
      BY <2>5 DEF RestoreMode
    <3>3. "file" \in Kinds
      BY DEF Kinds
    <3>4. rewritten \in InodeRecords /\ rewritten.data = inode[w].data
          /\ rewritten.synced = inode[w].synced
      BY <3>1, <3>3, MetadataChange
    <3> HIDE DEF rewritten
    <3>6. inode' \in [Inodes -> InodeRecords] /\ \A i \in Inodes \ {w} : inode'[i] = inode[i]
          /\ inode'[w] = rewritten
      BY <3>2, <3>4, InodeStep
    <3>7. Whole(w) => Whole(w)'
      BY <3>4, <3>6 DEF Whole
    <3>8. fd[w] \in Dirs
      BY <2>5 DEF RestoreMode, Parentless
    <3>9. Works("sync") /\ "sync" \in Labels
      BY <2>5, <3>7, <3>8 DEF RestoreMode
    <3>10. UNCHANGED <<output, package, image, private, at, atImage, fd, seen>>
      BY <2>5 DEF RestoreMode
    <3> QED
      BY <3>6, <3>9, <3>10
  <2>6. CASE Unlink(w)
    <3>1. fd[w] \in Dirs
      BY <2>6 DEF Unlink, Parentless
    <3>2. Works("raised") /\ "raised" \in Labels
      BY <2>6, <3>1 DEF Unlink, Whole
    <3> QED
      BY <2>6, <3>2 DEF Unlink, Names
  <2> QED
    BY <2>1, <2>2, <2>3, <2>4, <2>5, <2>6
<1>3. PICK l \in Labels : Works(l)
  BY <1>2
<1>4. PubType' /\ pc'[w] = l /\ \A v \in Commands \ {w} : pc'[v] = pc[v]
  BY <1>1, <1>2, <1>3, TypeStep DEF PubType
<1> QED
  BY <1>1, <1>2, <1>3, <1>4, OwnStep

(* A step that gives to a public name what the private name stands for, or *)
(* takes names away.                                                       *)
LEMMA NameStep ==
  ASSUME PubInv, PubType', NEW c \in Commands, UNCHANGED inode,
         \A v \in Commands \ {c} : private'[v] = private[v] /\ pc'[v] = pc[v],
         private'[c] \in {NoEntry, private[c]},
         pc'[c] \notin Hidden \cup Finished,
         \A i \in Inodes : ~Named(i) /\ Named(i)' => i = private[c] /\ pc[c] \in Finished
  PROVE  PubInv'
<1> USE InodeFacts DEF PubInv
<1>1. PrivateIsOwn'
  BY DEF PrivateIsOwn, Hidden
<1>2. HiddenIsUnnamed'
  BY DEF HiddenIsUnnamed, PrivateIsOwn
<1>3. \A i \in Inodes : Whole(i)' <=> Whole(i)
  BY DEF Whole
<1>4. FinishedIsWhole'
  BY <1>3 DEF FinishedIsWhole, Hidden
<1>5. pc[c] \in Finished => private[c] \in {NoEntry, c, Foreign} /\ Whole(c) /\ Whole(Foreign)
  BY DEF FinishedIsWhole, PrivateIsOwn
<1>6. NamedIsWhole'
  BY <1>3, <1>5 DEF NamedIsWhole
<1> QED
  BY <1>1, <1>2, <1>4, <1>6

(* The image of a directory after one of its names got one more meaning.   *)
LEMMA OutputImage ==
  ASSUME image \in Images, NEW d \in Dirs, NEW n \in Names,
         image' = [image EXCEPT ![d].output = @ \cup {n}]
  PROVE  image' \in Images /\ \A e \in Dirs : ImageOf(e)' \subseteq ImageOf(e) \cup {n}
<1>1. image[d].output \cup {n} \in SUBSET Names
  BY DEF Images
<1> QED
  BY <1>1 DEF Images, ImageOf

LEMMA PackageImage ==
  ASSUME image \in Images, NEW d \in Dirs, NEW n \in Names,
         image' = [image EXCEPT ![d].package = @ \cup {n}]
  PROVE  image' \in Images /\ \A e \in Dirs : ImageOf(e)' \subseteq ImageOf(e) \cup {n}
<1>1. image[d].package \cup {n} \in SUBSET Names
  BY DEF Images
<1> QED
  BY <1>1 DEF Images, ImageOf

LEMMA SyncedImage ==
  ASSUME image \in Images, NEW d \in Dirs, NEW n \in Names,
         image' = [image EXCEPT ![d].output = {n}]
  PROVE  image' \in Images /\ \A e \in Dirs : ImageOf(e)' \subseteq ImageOf(e) \cup (IF e = d THEN {n} ELSE {})
<1>1. {n} \in SUBSET Names
  OBVIOUS
<1> QED
  BY <1>1 DEF Images, ImageOf

LEMMA WriterPublishes ==
  ASSUME PubInv, NEW w \in Writers, Replace(w) \/ SyncParent(w) PROVE PubInv'
<1> USE InodeFacts
<1>1. w \in Commands /\ PubType /\ private[w] \in Names /\ output \in [Dirs -> Names]
  BY DEF Commands, PubInv, PubType
<1>2. CASE Replace(w)
  <2>1. pc[w] = "replace" /\ fd[w] \in Dirs
    BY <1>1, <1>2 DEF Replace, PubType, Parentless
  <2>2. /\ output' = [output EXCEPT ![fd[w]] = private[w]]
        /\ image' = [image EXCEPT ![fd[w]].output = @ \cup {private[w]}]
        /\ private' = [private EXCEPT ![w] = NoEntry]
        /\ UNCHANGED <<at, atImage, package, inode, fd, seen>>
    BY <1>2 DEF Replace, outputVars
  <2>3. PICK l \in {"sync", "restore"} :
          pc' = [pc EXCEPT ![w] = l] /\ (l = "restore" => seen[w] # Nothing)
    BY <1>2 DEF Replace, Go
  <2>4. l \in Labels \ (Hidden \cup Finished)
    BY DEF Labels, Hidden, Before, Finished
  <2>5. private' \in [Commands -> Names] /\ private'[w] = NoEntry
        /\ \A v \in Commands \ {w} : private'[v] = private[v]
    BY <1>1, <2>2 DEF PubType, Names
  <2>6. PubType' /\ pc'[w] = l /\ \A v \in Commands \ {w} : pc'[v] = pc[v]
    <3>1. output' \in [Dirs -> Names] /\ image' \in Images
      BY <1>1, <2>1, <2>2, OutputImage DEF PubType
    <3>2. /\ UNCHANGED <<at, atImage, package, inode, fd, seen>>
          /\ at \in Dirs \cup {NoDir} /\ atImage \subseteq Dirs \cup {NoDir}
          /\ package \in [Dirs -> Names] /\ inode \in [Inodes -> InodeRecords]
          /\ fd \in [Commands -> Dirs \cup {NoDir}]
          /\ seen \in [Writers -> Snapshots \cup {Nothing}]
      BY <1>1, <2>2 DEF PubType
    <3> QED
      BY <1>1, <2>1, <2>3, <2>4, <2>5, <3>1, <3>2, TypeStep
  <2>7. \A e \in Dirs : output'[e] \in {output[e], private[w]}
    BY <1>1, <2>1, <2>2
  <2>8. image' \in Images /\ \A e \in Dirs : ImageOf(e)' \subseteq ImageOf(e) \cup {private[w]}
    BY <1>1, <2>1, <2>2, OutputImage DEF PubType
  <2>9. \A i \in Inodes : ~Named(i) /\ Named(i)' => i = private[w] /\ pc[w] \in Finished
    BY <2>1, <2>2, <2>7, <2>8 DEF Named, Finished
  <2> QED
    BY <1>1, <2>2, <2>4, <2>5, <2>6, <2>9, NameStep
<1>3. CASE SyncParent(w)
  <2>1. pc[w] = "sync" /\ fd[w] \in Dirs
    BY <1>1, <1>3 DEF SyncParent, PubType, Parentless
  <2>2. /\ image' = [image EXCEPT ![fd[w]].output = {output[fd[w]]}]
        /\ pc' = [pc EXCEPT ![w] = "returned"]
        /\ UNCHANGED <<at, atImage, output, package, private, inode, fd, seen>>
    BY <1>3 DEF SyncParent, Go, outputVars
  <2>3. "returned" \in Labels \ (Hidden \cup Finished) /\ output[fd[w]] \in Names
    BY <1>1, <2>1 DEF Labels, Hidden, Before, Finished
  <2>4. image' \in Images
        /\ \A e \in Dirs : ImageOf(e)' \subseteq ImageOf(e) \cup {output[e]}
    BY <1>1, <2>1, <2>2, <2>3, SyncedImage DEF PubType
  <2>5. PubType' /\ pc'[w] = "returned" /\ \A v \in Commands \ {w} : pc'[v] = pc[v]
    <3>1. /\ at \in Dirs \cup {NoDir} /\ atImage \subseteq Dirs \cup {NoDir}
          /\ output \in [Dirs -> Names] /\ package \in [Dirs -> Names]
          /\ private \in [Commands -> Names] /\ inode \in [Inodes -> InodeRecords]
          /\ fd \in [Commands -> Dirs \cup {NoDir}]
          /\ seen \in [Writers -> Snapshots \cup {Nothing}]
      BY <1>1 DEF PubType
    <3> QED
      BY <1>1, <2>1, <2>2, <2>3, <2>4, <3>1, TypeStep
  <2>6. \A i \in Inodes : ~Named(i) /\ Named(i)' => i = private[w] /\ pc[w] \in Finished
    <3>1. ASSUME NEW i \in Inodes, Named(i)' PROVE Named(i)
      BY <2>2, <2>4, <3>1 DEF Named
    <3> QED
      BY <3>1
  <2>7. "returned" \notin Hidden \cup Finished /\ UNCHANGED <<private, inode>>
    BY <2>2, <2>3
  <2> QED
    <3>1. private'[w] = private[w] /\ \A v \in Commands \ {w} : private'[v] = private[v]
      BY <2>7
    <3>2. private'[w] \in {NoEntry, private[w]} /\ inode' = inode
      BY <2>7
    <3>3. pc'[w] \notin Hidden \cup Finished
      BY <2>5, <2>7
    <3> QED
      BY <1>1, <2>5, <2>6, <3>1, <3>2, <3>3, NameStep
<1> QED
  BY <1>2, <1>3

-----------------------------------------------------------------------------
(* The steps of a publisher.                                               *)
LEMMA PublisherMoves ==
  ASSUME PubInv, NEW p \in Publishers, UNCHANGED outputVars,
         \/ OpenPackageParent(p) \/ EnsureAbsent(p) \/ Collect(p) \/ StageFiles(p)
         \/ SelfCheck(p) \/ RevalidateBefore(p) \/ IdentifyStaging(p)
         \/ CheckPublished(p) \/ RevalidateAfter(p) \/ PublisherFails(p)
         \/ RetainStaging(p) \/ RemoveContents(p) \/ LookAgain(p) \/ CleanupFails(p)
  PROVE  PubInv'
<1> DEFINE Moves(l) ==
      /\ pc' = [pc EXCEPT ![p] = l]
      /\ l \in Labels \ {"restore", "fsync"}
      /\ l \in Parentless \/ fd'[p] \in Dirs
      /\ l \in Before => pc[p] \in Before
      /\ l \in Hidden => pc[p] \in Hidden
      /\ l \in Finished => pc[p] \in Finished
<1> USE InodeFacts
<1>1. p \in Commands /\ PubType
  BY DEF Commands, PubInv
<1>2. /\ UNCHANGED <<output, package, image, private, inode, at, atImage, seen>>
      /\ \E l \in Labels : Moves(l)
      /\ fd' \in [Commands -> Dirs \cup {NoDir}]
      /\ \A v \in Commands \ {p} : fd'[v] = fd[v]
  <2> USE <1>1 DEF Go, outputVars, Labels, Hidden, Before, Finished, Parentless, PubType
  <2>1. CASE OpenPackageParent(p)
    <3>1. CASE at = NoDir
      <4>1. Moves("raised") /\ "raised" \in Labels
        BY <2>1, <3>1 DEF OpenPackageParent
      <4> QED
        BY <2>1, <4>1 DEF OpenPackageParent
    <3>2. CASE at # NoDir
      <4>1. fd'[p] \in Dirs
        BY <2>1, <3>2 DEF OpenPackageParent
      <4>2. Moves("absence") /\ "absence" \in Labels
        BY <2>1, <3>2, <4>1 DEF OpenPackageParent
      <4> QED
        BY <2>1, <4>2 DEF OpenPackageParent
    <3> QED
      BY <3>1, <3>2
  <2>2. CASE Collect(p)
    <3>1. fd[p] \in Dirs /\ pc[p] = "read"
      BY <2>2 DEF Collect
    <3>2. UNCHANGED <<output, package, image, private, inode, at, atImage, fd>>
      BY <2>2 DEF Collect
    <3>3. \E l \in {"read", "mkdir", "raised"} : pc' = [pc EXCEPT ![p] = l]
      BY <2>2 DEF Collect, AfterReading
    <3>4. \E l \in Labels : Moves(l)
      BY <3>1, <3>2, <3>3
    <3> QED
      BY <3>2, <3>4
  <2>3. CASE SelfCheck(p)
    <3>1. fd[p] \in Dirs /\ pc[p] = "recheck"
      BY <2>3 DEF SelfCheck
    <3>2. UNCHANGED <<output, package, image, private, inode, at, atImage, fd>>
      BY <2>3 DEF SelfCheck
    <3>3. \E l \in {"recheck", "revalidate", "clean"} : pc' = [pc EXCEPT ![p] = l]
      BY <2>3 DEF SelfCheck, AfterReading
    <3>4. \E l \in Labels : Moves(l)
      BY <3>1, <3>2, <3>3
    <3> QED
      BY <3>2, <3>4
  <2>4. CASE EnsureAbsent(p)
    <3>1. fd[p] \in Dirs /\ pc[p] = "absence"
      BY <2>4 DEF EnsureAbsent
    <3>2. UNCHANGED <<output, package, image, private, inode, at, atImage, fd>>
      BY <2>4 DEF EnsureAbsent, packageVars
    <3>3. \E l \in {"read", "raised"} : pc' = [pc EXCEPT ![p] = l]
      BY <2>4 DEF EnsureAbsent
    <3>4. \E l \in Labels : Moves(l)
      BY <3>1, <3>2, <3>3
    <3> QED
      BY <3>2, <3>4
  <2>5. CASE StageFiles(p)
    <3>1. fd[p] \in Dirs /\ pc[p] = "stage"
      BY <2>5 DEF StageFiles
    <3>2. UNCHANGED <<output, package, image, private, inode, at, atImage, fd>>
      BY <2>5 DEF StageFiles, packageVars
    <3>3. \E l \in {"seal", "clean"} : pc' = [pc EXCEPT ![p] = l]
      BY <2>5 DEF StageFiles
    <3>4. \E l \in Labels : Moves(l)
      BY <3>1, <3>2, <3>3
    <3> QED
      BY <3>2, <3>4
  <2>6. CASE RevalidateBefore(p)
    <3>1. fd[p] \in Dirs /\ pc[p] = "revalidate"
      BY <2>6 DEF RevalidateBefore
    <3>2. UNCHANGED <<output, package, image, private, inode, at, atImage, fd>>
      BY <2>6 DEF RevalidateBefore, packageVars
    <3>3. \E l \in {"identify", "clean"} : pc' = [pc EXCEPT ![p] = l]
      BY <2>6 DEF RevalidateBefore
    <3>4. \E l \in Labels : Moves(l)
      BY <3>1, <3>2, <3>3
    <3> QED
      BY <3>2, <3>4
  <2>7. CASE IdentifyStaging(p)
    <3>1. fd[p] \in Dirs /\ pc[p] = "identify"
      BY <2>7 DEF IdentifyStaging
    <3>2. UNCHANGED <<output, package, image, private, inode, at, atImage, fd>>
      BY <2>7 DEF IdentifyStaging, packageVars
    <3>3. \E l \in {"rename", "clean"} : pc' = [pc EXCEPT ![p] = l]
      BY <2>7 DEF IdentifyStaging
    <3>4. \E l \in Labels : Moves(l)
      BY <3>1, <3>2, <3>3
    <3> QED
      BY <3>2, <3>4
  <2>8. CASE CheckPublished(p)
    <3>1. fd[p] \in Dirs /\ pc[p] = "published"
      BY <2>8 DEF CheckPublished
    <3>2. UNCHANGED <<output, package, image, private, inode, at, atImage, fd>>
      BY <2>8 DEF CheckPublished, packageVars
    <3>3. \E l \in {"revalidate after", "raised"} : pc' = [pc EXCEPT ![p] = l]
      BY <2>8 DEF CheckPublished
    <3>4. \E l \in Labels : Moves(l)
      BY <3>1, <3>2, <3>3
    <3> QED
      BY <3>2, <3>4
  <2>9. CASE RevalidateAfter(p)
    <3>1. fd[p] \in Dirs /\ pc[p] = "revalidate after"
      BY <2>9 DEF RevalidateAfter
    <3>2. UNCHANGED <<output, package, image, private, inode, at, atImage, fd>>
      BY <2>9 DEF RevalidateAfter, packageVars
    <3>3. \E l \in {"returned", "raised"} : pc' = [pc EXCEPT ![p] = l]
      BY <2>9 DEF RevalidateAfter
    <3>4. \E l \in Labels : Moves(l)
      BY <3>1, <3>2, <3>3
    <3> QED
      BY <3>2, <3>4
  <2>10. CASE RemoveContents(p)
    <3>1. fd[p] \in Dirs /\ pc[p] = "empty"
      BY <2>10 DEF RemoveContents
    <3>2. UNCHANGED <<output, package, image, private, inode, at, atImage, fd>>
      BY <2>10 DEF RemoveContents, packageVars
    <3>3. \E l \in {"remove", "uncleaned"} : pc' = [pc EXCEPT ![p] = l]
      BY <2>10 DEF RemoveContents
    <3>4. \E l \in Labels : Moves(l)
      BY <3>1, <3>2, <3>3
    <3> QED
      BY <3>2, <3>4
  <2>11. CASE RetainStaging(p)
    <3>1. fd[p] \in Dirs /\ pc[p] = "retain"
      BY <2>11 DEF RetainStaging
    <3>2. UNCHANGED <<output, package, image, private, inode, at, atImage, fd>>
      BY <2>11 DEF RetainStaging, packageVars
    <3>3. \E l \in {"stage", "clean", "uncleaned"} : pc' = [pc EXCEPT ![p] = l]
      BY <2>11 DEF RetainStaging
    <3>4. \E l \in Labels : Moves(l)
      BY <3>1, <3>2, <3>3
    <3> QED
      BY <3>2, <3>4
  <2>12. CASE LookAgain(p)
    <3>1. fd[p] \in Dirs /\ pc[p] = "remove"
      BY <2>12 DEF LookAgain
    <3>2. UNCHANGED <<output, package, image, private, inode, at, atImage, fd>>
      BY <2>12 DEF LookAgain, packageVars
    <3>3. \E l \in {"rmdir", "uncleaned"} : pc' = [pc EXCEPT ![p] = l]
      BY <2>12 DEF LookAgain
    <3>4. \E l \in Labels : Moves(l)
      BY <3>1, <3>2, <3>3
    <3> QED
      BY <3>2, <3>4
  <2>13. CASE CleanupFails(p)
    <3>1. fd[p] \in Dirs /\ pc[p] \in {"clean", "remove", "rmdir"}
      BY <2>13 DEF CleanupFails
    <3>2. UNCHANGED <<output, package, image, private, inode, at, atImage, fd>>
      BY <2>13 DEF CleanupFails, packageVars
    <3>3. \E l \in {"uncleaned"} : pc' = [pc EXCEPT ![p] = l]
      BY <2>13 DEF CleanupFails
    <3>4. \E l \in Labels : Moves(l)
      BY <3>1, <3>2, <3>3
    <3> QED
      BY <3>2, <3>4
  <2>14. CASE PublisherFails(p)
    <3>1. UNCHANGED <<output, package, image, private, inode, at, atImage, fd>>
      BY <2>14 DEF PublisherFails, packageVars
    <3>2. CASE pc' = [pc EXCEPT ![p] = "raised"]
      <4>1. Moves("raised") /\ "raised" \in Labels
        BY <3>2
      <4> QED
        BY <3>1, <4>1
    <3>3. CASE pc' = [pc EXCEPT ![p] = "clean"]
                 /\ pc[p] \in {"seal", "recheck", "revalidate", "identify", "rename"}
      <4>1. Moves("clean") /\ "clean" \in Labels
        BY <3>1, <3>3
      <4> QED
        BY <3>1, <4>1
    <3> QED
      BY <2>14, <3>2, <3>3 DEF PublisherFails
  <2> QED
    BY <2>1, <2>2, <2>3, <2>4, <2>5, <2>6, <2>7, <2>8, <2>9, <2>10, <2>11, <2>12, <2>13, <2>14
<1>3. PICK l \in Labels : Moves(l)
  BY <1>2
<1>4. PubType' /\ pc'[p] = l /\ \A v \in Commands \ {p} : pc'[v] = pc[v]
  BY <1>1, <1>2, <1>3, TypeStep DEF PubType
<1> QED
  BY <1>1, <1>2, <1>3, <1>4, MoveStep

LEMMA PublisherWorks ==
  ASSUME PubInv, NEW p \in Publishers, UNCHANGED outputVars,
         CreateStaging(p) \/ Seal(p) \/ IdentifyForCleanup(p) \/ RemoveStaging(p)
  PROVE  PubInv'
<1> DEFINE Works(l) ==
      /\ pc' = [pc EXCEPT ![p] = l]
      /\ l \in Labels \ {"restore", "fsync"}
      /\ fd[p] \in Dirs
      /\ l \notin Before
      /\ l \in Hidden => pc[p] \in Hidden
      /\ l \in Finished => Whole(p)'
      /\ pc[p] \in Hidden \/ (Whole(p) => Whole(p)')
<1> USE InodeFacts
<1>1. p \in Commands /\ p \in Inodes /\ PubType /\ inode[p] \in InodeRecords
  BY DEF Commands, Inodes, PubInv, PubType
<1>2. /\ UNCHANGED <<output, package, image, at, atImage, fd, seen>>
      /\ \E l \in Labels : Works(l)
      /\ inode' \in [Inodes -> InodeRecords]
      /\ \A i \in Inodes \ {p} : inode'[i] = inode[i]
      /\ private' \in [Commands -> Names]
      /\ private'[p] \in {NoEntry, p, private[p]}
      /\ \A v \in Commands \ {p} : private'[v] = private[v]
  <2> USE <1>1 DEF Go, outputVars, Labels, Hidden, Before, Finished, PubType
  <2>1. CASE CreateStaging(p)
    <3> DEFINE made == [NewInode("private") EXCEPT !.kind = "directory"]
    <3>1. made \in InodeRecords
      BY DEF NewInode, InodeRecords, Kinds, InodeModes
    <3>2. inode' = [inode EXCEPT ![p] = made]
      BY <2>1 DEF CreateStaging
    <3> HIDE DEF made
    <3>3. inode' \in [Inodes -> InodeRecords] /\ \A i \in Inodes \ {p} : inode'[i] = inode[i]
      BY <3>1, <3>2, InodeStep
    <3>4. fd[p] \in Dirs
      BY <2>1 DEF CreateStaging, Parentless
    <3>5. Works("retain") /\ "retain" \in Labels
      BY <2>1, <3>4 DEF CreateStaging
    <3> QED
      BY <2>1, <3>3, <3>5 DEF CreateStaging, Names
  <2>2. CASE Seal(p)
    <3> DEFINE sealed ==
                 [inode[p] EXCEPT !.mode = "shared", !.data = "whole", !.synced = TRUE]
    <3>1. sealed \in InodeRecords /\ sealed.data = "whole" /\ sealed.synced
      BY DEF InodeRecords, InodeModes
    <3>2. inode' = [inode EXCEPT ![p] = sealed]
      BY <2>2 DEF Seal
    <3> HIDE DEF sealed
    <3>3. inode' \in [Inodes -> InodeRecords] /\ inode'[p] = sealed
          /\ \A i \in Inodes \ {p} : inode'[i] = inode[i]
      BY <3>1, <3>2, InodeStep
    <3>4. Whole(p)'
      BY <3>1, <3>3 DEF Whole
    <3>5. fd[p] \in Dirs
      BY <2>2 DEF Seal, Parentless
    <3>6. Works("recheck") /\ "recheck" \in Labels
      BY <2>2, <3>4, <3>5 DEF Seal
    <3> QED
      BY <2>2, <3>3, <3>6 DEF Seal
  <2>3. CASE IdentifyForCleanup(p)
    <3> DEFINE closed == [inode[p] EXCEPT !.mode = "private"]
    <3>1. closed \in InodeRecords /\ closed.data = inode[p].data
          /\ closed.synced = inode[p].synced
      BY DEF InodeRecords, InodeModes
    <3>2. inode' = [inode EXCEPT ![p] = closed]
      BY <2>3 DEF IdentifyForCleanup
    <3> HIDE DEF closed
    <3>3. inode' \in [Inodes -> InodeRecords] /\ inode'[p] = closed
          /\ \A i \in Inodes \ {p} : inode'[i] = inode[i]
      BY <3>1, <3>2, InodeStep
    <3>4. Whole(p) => Whole(p)'
      BY <3>1, <3>3 DEF Whole
    <3>5. fd[p] \in Dirs
      BY <2>3 DEF IdentifyForCleanup, Parentless
    <3>6. \E l \in {"empty", "uncleaned"} : pc' = [pc EXCEPT ![p] = l]
      BY <2>3 DEF IdentifyForCleanup
    <3>7. pc[p] = "clean"
      BY <2>3 DEF IdentifyForCleanup
    <3>8. PICK l \in {"empty", "uncleaned"} : pc' = [pc EXCEPT ![p] = l]
      BY <3>6
    <3>9. Works(l) /\ l \in Labels
      BY <3>4, <3>5, <3>7, <3>8
    <3> QED
      BY <2>3, <3>3, <3>9 DEF IdentifyForCleanup
  <2>4. CASE RemoveStaging(p)
    <3>1. fd[p] \in Dirs
      BY <2>4 DEF RemoveStaging, Parentless
    <3>2. pc' = [pc EXCEPT ![p] = "raised"]
      BY <2>4 DEF RemoveStaging
    <3>3. UNCHANGED <<output, package, image, inode, at, atImage, fd, seen>>
      BY <2>4 DEF RemoveStaging
    <3>4. Whole(p)' <=> Whole(p)
      BY <3>3 DEF Whole
    <3>5. \E l \in Labels : Works(l)
      BY <3>1, <3>2, <3>4
    <3>6. private' = [private EXCEPT ![p] = NoEntry]
      BY <2>4 DEF RemoveStaging
    <3> QED
      BY <3>3, <3>5, <3>6 DEF Names
  <2> QED
    BY <2>1, <2>2, <2>3, <2>4
<1>3. PICK l \in Labels : Works(l)
  BY <1>2
<1>4. PubType' /\ pc'[p] = l /\ \A v \in Commands \ {p} : pc'[v] = pc[v]
  BY <1>1, <1>2, <1>3, TypeStep DEF PubType
<1> QED
  BY <1>1, <1>2, <1>3, <1>4, OwnStep

LEMMA PublisherPublishes ==
  ASSUME PubInv, NEW p \in Publishers, UNCHANGED outputVars, Publish(p) PROVE PubInv'
<1> USE InodeFacts
<1>1. p \in Commands /\ PubType /\ private[p] \in Names /\ package \in [Dirs -> Names]
      /\ pc[p] = "rename" /\ fd[p] \in Dirs
  BY DEF Commands, PubInv, PubType, Publish, Parentless
<1>2. /\ at \in Dirs \cup {NoDir} /\ atImage \subseteq Dirs \cup {NoDir}
      /\ output \in [Dirs -> Names] /\ inode \in [Inodes -> InodeRecords]
      /\ image \in Images /\ private \in [Commands -> Names]
      /\ fd \in [Commands -> Dirs \cup {NoDir}]
      /\ seen \in [Writers -> Snapshots \cup {Nothing}]
  BY <1>1 DEF PubType
<1>3. UNCHANGED <<at, atImage, output, inode, fd, seen>>
  BY DEF Publish, outputVars
<1>4. CASE package[fd[p]] # NoEntry
  <2>1. pc' = [pc EXCEPT ![p] = "clean"] /\ UNCHANGED <<package, image, private>>
    BY <1>4 DEF Publish, Go
  <2>2. /\ "clean" \in Labels \ (Finished \cup Before \cup {"restore", "fsync"})
        /\ "rename" \in Hidden
    BY DEF Labels, Hidden, Before, Finished
  <2>3. PubType' /\ pc'[p] = "clean" /\ \A v \in Commands \ {p} : pc'[v] = pc[v]
    BY <1>1, <1>2, <1>3, <2>1, <2>2, TypeStep
  <2> QED
    BY <1>1, <1>3, <2>1, <2>2, <2>3, MoveStep
<1>5. CASE package[fd[p]] = NoEntry
  <2>1. /\ package' = [package EXCEPT ![fd[p]] = private[p]]
        /\ image' = [image EXCEPT ![fd[p]].package = @ \cup {private[p]}]
        /\ private' = [private EXCEPT ![p] = NoEntry]
        /\ pc' = [pc EXCEPT ![p] = "published"]
    BY <1>5 DEF Publish, Go
  <2>2. "published" \in Labels \ (Hidden \cup Finished \cup {"restore"})
    BY DEF Labels, Hidden, Before, Finished
  <2>3. private' \in [Commands -> Names] /\ private'[p] = NoEntry
        /\ \A v \in Commands \ {p} : private'[v] = private[v]
    BY <1>1, <1>2, <2>1 DEF Names
  <2>4. image' \in Images /\ \A e \in Dirs : ImageOf(e)' \subseteq ImageOf(e) \cup {private[p]}
    BY <1>1, <1>2, <2>1, PackageImage
  <2>5. package' \in [Dirs -> Names] /\ \A e \in Dirs : package'[e] \in {package[e], private[p]}
    BY <1>1, <2>1
  <2>6. PubType' /\ pc'[p] = "published" /\ \A v \in Commands \ {p} : pc'[v] = pc[v]
    BY <1>1, <1>2, <1>3, <2>1, <2>2, <2>3, <2>4, <2>5, TypeStep
  <2>7. \A i \in Inodes : ~Named(i) /\ Named(i)' => i = private[p] /\ pc[p] \in Finished
    BY <1>1, <1>3, <2>4, <2>5 DEF Named, Finished
  <2> QED
    BY <1>1, <1>3, <2>2, <2>3, <2>6, <2>7, NameStep
<1> QED
  BY <1>4, <1>5

-----------------------------------------------------------------------------
(* The steps of somebody else, and crashes.                                *)
LEMMA FrameStep ==
  ASSUME PubInv, at' \in Dirs \cup {NoDir}, atImage' \subseteq Dirs \cup {NoDir},
         UNCHANGED <<output, package, image, private, inode, fd, pc, seen>>
  PROVE  PubInv'
<1>1. \A i \in Inodes : (Named(i)' <=> Named(i)) /\ (Whole(i)' <=> Whole(i))
  BY DEF Named, ImageOf, Whole
<1>2. PubType'
  BY DEF PubInv, PubType
<1>3. PrivateIsOwn'
  BY DEF PubInv, PrivateIsOwn
<1>4. HiddenIsUnnamed' /\ FinishedIsWhole' /\ NamedIsWhole'
  BY <1>1, InodeFacts DEF PubInv, HiddenIsUnnamed, FinishedIsWhole, NamedIsWhole
<1> QED
  BY <1>2, <1>3, <1>4 DEF PubInv

(* A public name that comes to stand for what somebody else made.          *)
LEMMA ForeignStep ==
  ASSUME PubInv, PubType', UNCHANGED <<private, pc>>,
         \A i \in Inodes : inode'[i].data = inode[i].data /\ inode'[i].synced = inode[i].synced,
         \A i \in Inodes : ~Named(i) /\ Named(i)' => i = Foreign
  PROVE  PubInv'
<1> USE InodeFacts DEF PubInv
<1>1. \A i \in Inodes : Whole(i)' <=> Whole(i)
  BY DEF Whole
<1>2. PrivateIsOwn'
  BY DEF PrivateIsOwn
<1>3. HiddenIsUnnamed'
  BY DEF HiddenIsUnnamed
<1>4. FinishedIsWhole'
  BY <1>1 DEF FinishedIsWhole
<1>5. NamedIsWhole'
  BY <1>1 DEF NamedIsWhole, FinishedIsWhole
<1> QED
  BY <1>2, <1>3, <1>4, <1>5

LEMMA SetOutputKeeps ==
  ASSUME PubInv, at \in Dirs, NEW i \in Inodes, NEW kind \in Kinds, SetOutput(i, kind),
         i = output[at] \/ i = Foreign,
         UNCHANGED <<at, atImage, package, private, fd, pc, seen>>
  PROVE  PubInv'
<1> USE InodeFacts
<1>1. PubType /\ inode \in [Inodes -> InodeRecords] /\ image \in Images
      /\ output \in [Dirs -> Names] /\ i \in Names /\ inode[i] \in InodeRecords
  BY DEF PubInv, PubType, Names
<1> DEFINE changed == [inode[i] EXCEPT !.changes = @ + 1, !.kind = kind]
<1>2. inode[i].mode \in InodeModes
  BY <1>1 DEF InodeRecords
<1>3. changed \in InodeRecords /\ changed.data = inode[i].data /\ changed.synced = inode[i].synced
  BY <1>1, <1>2, MetadataChange
<1>4. inode' = [inode EXCEPT ![i] = changed]
  BY DEF SetOutput
<1> HIDE DEF changed
<1>5. inode' \in [Inodes -> InodeRecords] /\ inode'[i] = changed
      /\ \A j \in Inodes \ {i} : inode'[j] = inode[j]
  BY <1>1, <1>3, <1>4, InodeStep
<1>6. \A j \in Inodes : inode'[j].data = inode[j].data /\ inode'[j].synced = inode[j].synced
  BY <1>3, <1>5
<1>7. output' \in [Dirs -> Names] /\ \A e \in Dirs : output'[e] \in {output[e], i}
  BY <1>1 DEF SetOutput
<1>8. image' \in Images /\ \A e \in Dirs : ImageOf(e)' \subseteq ImageOf(e) \cup {i}
  BY <1>1, OutputImage DEF SetOutput
<1>9. PubType'
  BY <1>1, <1>5, <1>7, <1>8 DEF PubType
<1>10. \A j \in Inodes : ~Named(j) /\ Named(j)' => j = Foreign
  <2>1. ASSUME NEW j \in Inodes, ~Named(j), Named(j)' PROVE j = i
    BY <2>1, <1>7, <1>8 DEF Named
  <2>2. i = output[at] => Named(i)
    BY DEF Named
  <2> QED
    BY <2>1, <2>2
<1> QED
  BY <1>6, <1>9, <1>10, ForeignStep

LEMMA SomebodyKeeps ==
  ASSUME PubInv, UNCHANGED outputVars, Somebody \/ EditSource PROVE PubInv'
<1> USE InodeFacts
<1>1. PubType /\ seen' = seen
  BY DEF PubInv, outputVars
<1>2. CASE SwapParent
  <2>1. \E d \in Dirs : at' = d /\ atImage' = {d}
    BY <1>2 DEF SwapParent
  <2>2. UNCHANGED <<output, package, image, private, inode, fd, pc>>
    BY <1>2 DEF SwapParent
  <2> QED
    BY <1>1, <2>1, <2>2, FrameStep
<1>3. CASE EditSource
  <2>1. UNCHANGED <<at, atImage, output, package, image, private, inode, fd, pc>>
    BY <1>3 DEF EditSource
  <2> QED
    BY <1>1, <2>1, FrameStep DEF PubType
<1>4. CASE TouchOutput
  <2>1. at \in Dirs /\ UNCHANGED <<at, atImage, package, private, fd, pc, seen>>
    BY <1>1, <1>4 DEF TouchOutput, PubType
  <2>2. CASE output[at] \in Inodes /\ SetOutput(output[at], inode[output[at]].kind)
    <3>1. inode[output[at]].kind \in Kinds
      BY <1>1, <2>2 DEF PubType, InodeRecords
    <3> QED
      BY <2>1, <2>2, <3>1, SetOutputKeeps
  <2>3. CASE \E kind \in {"file", "link"} : SetOutput(Foreign, kind)
    BY <2>1, <2>3, SetOutputKeeps DEF Kinds
  <2> QED
    BY <1>4, <2>2, <2>3 DEF TouchOutput
<1>5. CASE TakePackage
  <2>1. at \in Dirs /\ UNCHANGED <<at, atImage, output, private, inode, fd, pc, seen>>
        /\ package' = [package EXCEPT ![at] = Foreign]
        /\ image' = [image EXCEPT ![at].package = @ \cup {Foreign}]
    BY <1>1, <1>5 DEF TakePackage, PubType
  <2>2. package' \in [Dirs -> Names] /\ \A e \in Dirs : package'[e] \in {package[e], Foreign}
    BY <1>1, <2>1 DEF PubType, Names
  <2>3. image' \in Images /\ \A e \in Dirs : ImageOf(e)' \subseteq ImageOf(e) \cup {Foreign}
    BY <1>1, <2>1, PackageImage DEF PubType, Names
  <2>4. PubType'
    BY <1>1, <2>1, <2>2, <2>3 DEF PubType
  <2>5. \A i \in Inodes : ~Named(i) /\ Named(i)' => i = Foreign
    BY <2>1, <2>2, <2>3 DEF Named
  <2> QED
    BY <2>1, <2>4, <2>5, ForeignStep
<1>6. CASE \E c \in Commands : SwapPrivate(c)
  <2>1. PICK c \in Commands : SwapPrivate(c)
    BY <1>6
  <2>2. private[c] = c /\ private' = [private EXCEPT ![c] = Foreign]
        /\ UNCHANGED <<at, atImage, output, package, image, inode, fd, pc, seen>>
    BY <1>1, <2>1 DEF SwapPrivate
  <2>3. PubType'
    BY <1>1, <2>2 DEF PubType, Names
  <2>4. \A i \in Inodes : (Named(i)' <=> Named(i)) /\ (Whole(i)' <=> Whole(i))
    BY <2>2 DEF Named, ImageOf, Whole
  <2>5. PrivateIsOwn'
    <3>1. private' \in [Commands -> Names] /\ private'[c] = Foreign
          /\ \A v \in Commands \ {c} : private'[v] = private[v]
      BY <1>1, <2>2 DEF PubType, Names
    <3>2. pc[c] \notin Before
      BY <2>2 DEF PubInv, PrivateIsOwn
    <3> QED
      BY <2>2, <3>1, <3>2 DEF PubInv, PrivateIsOwn
  <2>6. HiddenIsUnnamed' /\ FinishedIsWhole' /\ NamedIsWhole'
    BY <2>2, <2>4 DEF PubInv, HiddenIsUnnamed, FinishedIsWhole, NamedIsWhole
  <2> QED
    BY <2>3, <2>5, <2>6 DEF PubInv
<1>7. CASE \E c \in Commands : Kill(c)
  <2>1. PICK c \in Commands : Kill(c)
    BY <1>7
  <2>2. pc' = [pc EXCEPT ![c] = "dead"]
        /\ UNCHANGED <<at, atImage, output, package, image, private, inode, fd, seen>>
    BY <1>1, <2>1 DEF Kill, Go
  <2>3. "dead" \in Labels \ (Hidden \cup Finished \cup {"restore", "fsync"})
        /\ "dead" \in Parentless /\ "dead" \notin Before
    BY DEF Labels, Hidden, Before, Finished, Parentless
  <2>4. /\ at \in Dirs \cup {NoDir} /\ atImage \subseteq Dirs \cup {NoDir}
        /\ output \in [Dirs -> Names] /\ package \in [Dirs -> Names] /\ image \in Images
        /\ private \in [Commands -> Names] /\ inode \in [Inodes -> InodeRecords]
        /\ fd \in [Commands -> Dirs \cup {NoDir}]
        /\ seen \in [Writers -> Snapshots \cup {Nothing}]
    BY <1>1 DEF PubType
  <2>5. PubType' /\ pc'[c] = "dead" /\ \A v \in Commands \ {c} : pc'[v] = pc[v]
    BY <1>1, <2>2, <2>3, <2>4, TypeStep
  <2> QED
    BY <2>2, <2>3, <2>5, MoveStep
<1>8. CASE MachineCrash
  <2>1. /\ at' \in Dirs \cup {NoDir} /\ atImage' \subseteq Dirs \cup {NoDir}
        /\ output' \in [Dirs -> Names] /\ package' \in [Dirs -> Names]
        /\ \A d \in Dirs : output'[d] \in image[d].output /\ package'[d] \in image[d].package
        /\ image' = [d \in Dirs |-> [output |-> {output'[d]}, package |-> {package'[d]}]]
        /\ UNCHANGED <<private, fd, seen>>
    BY <1>1, <1>8 DEF MachineCrash, PubType, Names
  <2>2. /\ inode' = [i \in Inodes |-> IF inode[i].synced THEN inode[i]
                                      ELSE [inode[i] EXCEPT !.data = "partial"]]
        /\ pc' = [c \in Commands |-> IF pc[c] = "absent" THEN "absent" ELSE "dead"]
    BY <1>8 DEF MachineCrash
  <2>3. inode' \in [Inodes -> InodeRecords]
        /\ \A i \in Inodes : Whole(i) => Whole(i)'
    <3>1. \A i \in Inodes : [inode[i] EXCEPT !.data = "partial"] \in InodeRecords
      BY <1>1 DEF PubType, InodeRecords
    <3> QED
      BY <1>1, <2>2, <3>1 DEF PubType, Whole
  <2>4. image' \in Images
        /\ \A d \in Dirs : ImageOf(d)' = {output'[d], package'[d]}
    <3>1. \A d \in Dirs : {output'[d]} \in SUBSET Names /\ {package'[d]} \in SUBSET Names
      BY <2>1
    <3> QED
      BY <2>1, <3>1 DEF Images, ImageOf
  <2>5. \A c \in Commands : pc'[c] \in {"absent", "dead"} /\ (pc'[c] = "absent" => pc[c] = "absent")
    BY <2>2
  <2>6. pc' \in [Commands -> Labels]
    BY <2>2 DEF Labels, Hidden, Before
  <2>7. PubType'
    BY <1>1, <2>1, <2>3, <2>4, <2>5, <2>6 DEF PubType, Parentless, Commands
  <2>8. \A i \in Inodes : ~(~Named(i) /\ Named(i)')
    <3>1. ASSUME NEW i \in Inodes, Named(i)' PROVE Named(i)
      BY <2>1, <2>4, <3>1 DEF Named, ImageOf
    <3> QED
      BY <3>1
  <2>9. PrivateIsOwn'
    BY <2>1, <2>5 DEF PubInv, PrivateIsOwn, Before
  <2>10. HiddenIsUnnamed' /\ FinishedIsWhole' /\ NamedIsWhole'
    BY <2>3, <2>5, <2>8 DEF PubInv, HiddenIsUnnamed, FinishedIsWhole, NamedIsWhole,
       Hidden, Before, Finished
  <2> QED
    BY <2>7, <2>9, <2>10 DEF PubInv
<1> QED
  BY <1>2, <1>3, <1>4, <1>5, <1>6, <1>7, <1>8 DEF Somebody

-----------------------------------------------------------------------------
(* All of it holds of the two commands, side by side, with somebody else   *)
(* at work and crashes at any step.                                        *)
LEMMA NextPublication == ASSUME PubInv, [Next]_vars PROVE PubInv'
<1>1. CASE \E w \in Writers : WriterStep(w) /\ UNCHANGED packageVars
  BY <1>1, WriterMoves, WriterWorks, WriterPublishes DEF WriterStep
<1>2. CASE \E p \in Publishers : PublisherStep(p) /\ UNCHANGED outputVars
  BY <1>2, PublisherMoves, PublisherWorks, PublisherPublishes DEF PublisherStep
<1>3. CASE (EditSource \/ Somebody) /\ UNCHANGED outputVars
  BY <1>3, SomebodyKeeps
<1>4. CASE UNCHANGED vars
  BY <1>4, FrameStep DEF vars, parentVars, outputVars, PubInv, PubType
<1> QED
  BY <1>1, <1>2, <1>3, <1>4 DEF Next

THEOREM PublicationInvariant == Spec => []PubInv
  BY InitPublication, NextPublication, PTL DEF Spec

(* Whatever stands under a public name is whole (run.py:308,               *)
(* platform_package_v0_2.py:1606): it got its name after it was synced.    *)
THEOREM PublishedIsWholeProved == Spec => []PublishedIsWhole
<1>1. ASSUME PubInv PROVE PublishedIsWhole
  <2> SUFFICES ASSUME NEW i \in (Outputs \cup Packages) \ {NoEntry}
               PROVE  inode[i].data = "whole" /\ inode[i].synced
    BY DEF PublishedIsWhole
  <2>1. PICK d \in Dirs : i \in ImageOf(d) \cup {output[d], package[d]}
    BY DEF Outputs, Packages, ImageOf
  <2>2. ImageOf(d) \subseteq Names /\ output[d] \in Names /\ package[d] \in Names
    BY <1>1 DEF PubInv, PubType, Images, ImageOf
  <2>3. i \in Inodes
    BY <2>1, <2>2 DEF Names
  <2> QED
    BY <1>1, <2>1, <2>3 DEF PubInv, NamedIsWhole, Named, Whole
<1> QED
  BY <1>1, PublicationInvariant, PTL

-----------------------------------------------------------------------------
(* What a step of a command leaves alone of the other commands, and of     *)
(* somebody else, of all.                                                  *)
OthersStay(c) ==
  /\ \A v \in Commands \ {c} :
       pc'[v] = pc[v] /\ private'[v] = private[v] /\ fd'[v] = fd[v]
  /\ \A i \in Inodes \ {c} : inode'[i] = inode[i]

LEMMA WriterAlone ==
  ASSUME PubType, NEW w \in Writers, WriterStep(w)
  PROVE  w \in Commands /\ OthersStay(w) /\ UNCHANGED package
<1>1. w \in Commands /\ DOMAIN pc = Commands /\ DOMAIN fd = Commands
      /\ DOMAIN private = Commands /\ DOMAIN inode = Inodes
  BY DEF Commands, PubType
<1> USE <1>1 DEF OthersStay, Go
<1>2. CASE MakeParent(w) \/ SyncHolder(w) \/ OpenParent(w) \/ Inspect(w)
  BY <1>2 DEF MakeParent, SyncHolder, OpenParent, Inspect
<1>3. CASE CreateTemporary(w) \/ WriteTemporary(w) \/ SyncTemporary(w)
  BY <1>3 DEF CreateTemporary, WriteTemporary, SyncTemporary
<1>4. CASE Revalidate(w) \/ Reinspect(w) \/ Replace(w) \/ RestoreMode(w)
  BY <1>4 DEF Revalidate, Reinspect, Replace, RestoreMode
<1>5. CASE SyncParent(w) \/ WriterFails(w)
  BY <1>5 DEF SyncParent, WriterFails
<1>6. CASE Unwind(w) \/ Unlink(w) \/ UnwindFails(w)
  BY <1>6 DEF Unwind, Unlink, UnwindFails
<1> QED
  BY <1>2, <1>3, <1>4, <1>5, <1>6 DEF WriterStep

LEMMA PublisherAlone ==
  ASSUME PubType, NEW p \in Publishers, PublisherStep(p)
  PROVE  p \in Commands /\ OthersStay(p) /\ UNCHANGED <<at, atImage, output>>
<1>1. p \in Commands /\ DOMAIN pc = Commands /\ DOMAIN fd = Commands
      /\ DOMAIN private = Commands /\ DOMAIN inode = Inodes
  BY DEF Commands, PubType
<1> USE <1>1 DEF OthersStay, Go
<1>2. CASE OpenPackageParent(p) \/ EnsureAbsent(p) \/ Collect(p)
  BY <1>2 DEF OpenPackageParent, EnsureAbsent, Collect
<1>3. CASE CreateStaging(p) \/ StageFiles(p) \/ Seal(p)
  BY <1>3 DEF CreateStaging, StageFiles, Seal
<1>4. CASE SelfCheck(p) \/ RevalidateBefore(p) \/ IdentifyStaging(p)
  BY <1>4 DEF SelfCheck, RevalidateBefore, IdentifyStaging
<1>5. CASE Publish(p) \/ CheckPublished(p) \/ RevalidateAfter(p) \/ PublisherFails(p)
  BY <1>5 DEF Publish, CheckPublished, RevalidateAfter, PublisherFails
<1>6. CASE IdentifyForCleanup(p) \/ RemoveContents(p) \/ RemoveStaging(p)
  BY <1>6 DEF IdentifyForCleanup, RemoveContents, RemoveStaging
<1>7. CASE RetainStaging(p) \/ LookAgain(p) \/ CleanupFails(p)
  BY <1>7 DEF RetainStaging, LookAgain, CleanupFails
<1> QED
  BY <1>2, <1>3, <1>4, <1>5, <1>6, <1>7 DEF PublisherStep

-----------------------------------------------------------------------------
(* What a name that is about to be removed stands for was found to be the  *)
(* command's own; if it is not any more, it was replaced after that.       *)
LateIsKnown ==
  \A c \in Commands : pc[c] \in {"unlink", "rmdir"} /\ private[c] = Foreign => c \in late

LEMMA NextLate ==
  ASSUME PubInv, LateIsKnown, [Next]_vars
  PROVE  LateIsKnown'
<1> USE InodeFacts DEF LateIsKnown
<1>1. PubType /\ DOMAIN pc = Commands /\ DOMAIN private = Commands
  BY DEF PubInv, PubType
<1>2. ASSUME NEW w \in Writers, WriterStep(w) PROVE LateIsKnown'
  <2>1. /\ w \in Commands /\ w # Foreign
        /\ \A v \in Commands \ {w} : pc'[v] = pc[v] /\ private'[v] = private[v]
    BY <1>1, <1>2, WriterAlone DEF OthersStay
  <2>2. late' = late
    BY <1>2 DEF WriterStep, MakeParent, SyncHolder, OpenParent, Inspect, CreateTemporary,
       WriteTemporary, SyncTemporary, Revalidate, Reinspect, Replace, RestoreMode, SyncParent,
       WriterFails, Unwind, Unlink, UnwindFails, historyVars
  <2>3. pc'[w] \in {"unlink", "rmdir"} => private'[w] = w
    <3> USE <1>1, <2>1 DEF Go
    <3>1. CASE MakeParent(w) \/ SyncHolder(w) \/ OpenParent(w) \/ Inspect(w)
      BY <3>1 DEF MakeParent, SyncHolder, OpenParent, Inspect
    <3>2. CASE CreateTemporary(w) \/ WriteTemporary(w) \/ SyncTemporary(w)
      BY <3>2 DEF CreateTemporary, WriteTemporary, SyncTemporary
    <3>3. CASE Revalidate(w) \/ Reinspect(w) \/ Replace(w) \/ RestoreMode(w)
      BY <3>3 DEF Revalidate, Reinspect, Replace, RestoreMode
    <3>4. CASE SyncParent(w) \/ WriterFails(w)
      BY <3>4 DEF SyncParent, WriterFails
    <3>5. CASE Unwind(w) \/ Unlink(w) \/ UnwindFails(w)
      BY <3>5 DEF Unwind, Unlink, UnwindFails
    <3> QED
      BY <1>2, <3>1, <3>2, <3>3, <3>4, <3>5 DEF WriterStep
  <2> QED
    BY <2>1, <2>2, <2>3
<1>3. ASSUME NEW p \in Publishers, PublisherStep(p) PROVE LateIsKnown'
  <2>1. /\ p \in Commands /\ p # Foreign
        /\ \A v \in Commands \ {p} : pc'[v] = pc[v] /\ private'[v] = private[v]
    BY <1>1, <1>3, PublisherAlone DEF OthersStay
  <2>2. late' = late
    BY <1>3 DEF PublisherStep, OpenPackageParent, EnsureAbsent, Collect, CreateStaging,
       RetainStaging, StageFiles, Seal, SelfCheck, RevalidateBefore, IdentifyStaging, Publish,
       CheckPublished, RevalidateAfter, PublisherFails, IdentifyForCleanup, RemoveContents,
       LookAgain, RemoveStaging, CleanupFails, historyVars
  <2>3. pc'[p] \in {"unlink", "rmdir"} => private'[p] = p
    <3> USE <1>1, <2>1 DEF Go
    <3>1. CASE OpenPackageParent(p) \/ EnsureAbsent(p) \/ PublisherFails(p)
      BY <3>1 DEF OpenPackageParent, EnsureAbsent, PublisherFails
    <3>2. CASE Collect(p) \/ SelfCheck(p)
      BY <3>2 DEF Collect, SelfCheck, AfterReading
    <3>3. CASE CreateStaging(p) \/ RetainStaging(p) \/ StageFiles(p) \/ Seal(p)
      BY <3>3 DEF CreateStaging, RetainStaging, StageFiles, Seal
    <3>4. CASE RevalidateBefore(p) \/ IdentifyStaging(p) \/ Publish(p)
      BY <3>4 DEF RevalidateBefore, IdentifyStaging, Publish
    <3>5. CASE CheckPublished(p) \/ RevalidateAfter(p)
      BY <3>5 DEF CheckPublished, RevalidateAfter
    <3>6. CASE IdentifyForCleanup(p) \/ RemoveContents(p)
      BY <3>6 DEF IdentifyForCleanup, RemoveContents
    <3>7. CASE LookAgain(p) \/ RemoveStaging(p) \/ CleanupFails(p)
      BY <3>7 DEF LookAgain, RemoveStaging, CleanupFails
    <3> QED
      BY <1>3, <3>1, <3>2, <3>3, <3>4, <3>5, <3>6, <3>7 DEF PublisherStep
  <2> QED
    BY <2>1, <2>2, <2>3
<1>4. ASSUME NEW c \in Commands, SwapPrivate(c) PROVE LateIsKnown'
  <2>1. /\ pc' = pc /\ private' = [private EXCEPT ![c] = Foreign]
        /\ late \subseteq late' /\ (pc[c] \in {"unlink", "rmdir"} => c \in late')
    BY <1>4 DEF SwapPrivate
  <2> QED
    BY <1>1, <2>1
<1>5. ASSUME NEW c \in Commands, Kill(c) PROVE LateIsKnown'
  <2>1. late' = late /\ private' = private /\ \A v \in Commands : pc'[v] \in {pc[v], "dead"}
    BY <1>1, <1>5 DEF Kill, Go, historyVars
  <2> QED
    BY <2>1
<1>6. CASE MachineCrash
  BY <1>1, <1>6 DEF MachineCrash
<1>7. CASE EditSource \/ SwapParent \/ TouchOutput \/ TakePackage \/ UNCHANGED vars
  <2>1. UNCHANGED <<pc, private, late>>
    BY <1>7 DEF EditSource, SwapParent, TouchOutput, TakePackage, vars, parentVars, historyVars
  <2> QED
    BY <2>1
<1> QED
  BY <1>2, <1>3, <1>4, <1>5, <1>6, <1>7 DEF Next, Somebody

(* A step that replaces no package and takes no name from somebody else.   *)
LeavesAlone ==
  /\ \A d \in Dirs : package[d] # NoEntry => package'[d] = package[d]
  /\ \A c \in Commands : private[c] = Foreign /\ private'[c] # Foreign =>
       \/ Foreign \in {output'[fd[c]], package'[fd[c]]}
       \/ c \in late

LEMMA WriterLeavesAlone ==
  ASSUME PubInv, LateIsKnown, NEW w \in Writers, WriterStep(w), UNCHANGED packageVars PROVE LeavesAlone
<1> USE InodeFacts DEF LeavesAlone
<1>1. w \in Commands /\ PubType
  BY DEF Commands, PubInv
<1>2. CASE UNCHANGED <<package, private>>
  BY <1>2
<1>3. CASE CreateTemporary(w)
  <2>1. private[w] = NoEntry
    BY <1>1, <1>3 DEF CreateTemporary, PubInv, PrivateIsOwn, Before
  <2> QED
    BY <1>1, <1>3, <2>1 DEF CreateTemporary, PubType
<1>4. CASE Replace(w)
  <2>1. fd[w] \in Dirs
    BY <1>1, <1>4 DEF Replace, PubType, Parentless
  <2> QED
    BY <1>1, <1>4, <2>1 DEF Replace, PubType
<1>5. CASE Unlink(w)
  BY <1>1, <1>5 DEF Unlink, PubType, LateIsKnown
<1> QED
  BY <1>2, <1>3, <1>4, <1>5 DEF WriterStep, MakeParent, SyncHolder, OpenParent, Inspect,
     WriteTemporary, SyncTemporary, Revalidate, Reinspect, RestoreMode, SyncParent,
     WriterFails, Unwind, UnwindFails

LEMMA PublisherLeavesAlone ==
  ASSUME PubInv, LateIsKnown, NEW p \in Publishers, PublisherStep(p) PROVE LeavesAlone
<1> USE InodeFacts DEF LeavesAlone
<1>1. p \in Commands /\ PubType
  BY DEF Commands, PubInv
<1>2. CASE UNCHANGED <<package, private>>
  BY <1>2
<1>3. CASE CreateStaging(p)
  <2>1. private[p] = NoEntry
    BY <1>1, <1>3 DEF CreateStaging, PubInv, PrivateIsOwn, Before
  <2> QED
    BY <1>1, <1>3, <2>1 DEF CreateStaging, PubType
<1>4. CASE Publish(p)
  <2>1. fd[p] \in Dirs
    BY <1>1, <1>4 DEF Publish, PubType, Parentless
  <2> QED
    BY <1>1, <1>4, <2>1 DEF Publish, PubType
<1>5. CASE RemoveStaging(p)
  BY <1>1, <1>5 DEF RemoveStaging, PubType, LateIsKnown
<1> QED
  BY <1>2, <1>3, <1>4, <1>5 DEF PublisherStep, OpenPackageParent, EnsureAbsent, Collect,
     RetainStaging, StageFiles, Seal, SelfCheck, RevalidateBefore, IdentifyStaging,
     CheckPublished, RevalidateAfter, PublisherFails, IdentifyForCleanup, RemoveContents,
     LookAgain, CleanupFails, packageVars

(* The rename refuses to replace, and a name is looked at before it is     *)
(* removed (platform_package_v0_2.py:848, :934; run.py:353): an entry of   *)
(* somebody else is deleted only if it came between that look and the      *)
(* removal.                                                                *)
THEOREM OthersAreLeftAloneProved == Spec => OthersAreLeftAlone
<1>1. ASSUME PubInv, LateIsKnown, [Next]_vars PROVE [MachineCrash \/ LeavesAlone]_vars
  <2>1. CASE \E w \in Writers : WriterStep(w) /\ UNCHANGED packageVars
    BY <1>1, <2>1, WriterLeavesAlone
  <2>2. CASE \E p \in Publishers : PublisherStep(p) /\ UNCHANGED outputVars
    BY <1>1, <2>2, PublisherLeavesAlone
  <2>3. CASE EditSource \/ SwapParent \/ TouchOutput \/ \E c \in Commands : Kill(c)
    BY <1>1, <2>3 DEF EditSource, SwapParent, TouchOutput, Kill, LeavesAlone
  <2>4. CASE TakePackage
    BY <1>1, <2>4 DEF TakePackage, LeavesAlone, PubInv, PubType
  <2>5. CASE \E c \in Commands : SwapPrivate(c)
    BY <1>1, <2>5 DEF SwapPrivate, LeavesAlone, PubInv, PubType
  <2> QED
    BY <1>1, <2>1, <2>2, <2>3, <2>4, <2>5 DEF Next, Somebody
<1>2. Init => LateIsKnown
  <2> SUFFICES ASSUME Init PROVE LateIsKnown
    OBVIOUS
  <2>1. \A c \in Commands : private[c] = NoEntry
    BY DEF Init, ParentInit
  <2> QED
    BY <2>1, InodeFacts DEF LateIsKnown
<1>3. PubInv /\ LateIsKnown /\ [Next]_vars => LateIsKnown'
  BY NextLate
<1> QED
  BY <1>1, <1>2, <1>3, PublicationInvariant, PTL DEF Spec, OthersAreLeftAlone, LeavesAlone

-----------------------------------------------------------------------------
(* A command's random name stands for its inode only while it is at work,  *)
(* and for something until a writer has used it up.                        *)
Held == {"write", "fsync", "unwind", "unlink", "revalidate", "reinspect", "replace",
         "retain", "stage", "seal", "recheck", "identify", "rename",
         "clean", "empty", "remove", "rmdir", "uncleaned", "dead"}
Made == {"write", "fsync", "revalidate", "reinspect", "replace"}

PrivateHeld == \A c \in Commands : private[c] = c => pc[c] \in Held
PrivateStands == \A w \in Writers : pc[w] \in Made => private[w] # NoEntry

LEMMA NextPrivate ==
  ASSUME PubInv, PrivateHeld, PrivateStands, [Next]_vars
  PROVE  PrivateHeld' /\ PrivateStands'
<1> USE InodeFacts DEF PrivateHeld, PrivateStands
<1>1. PubType /\ DOMAIN pc = Commands /\ DOMAIN private = Commands
      /\ Writers \subseteq Commands /\ \A w \in Writers : w \notin Publishers
  BY ParentAssumption DEF PubInv, PubType, Commands
<1>2. ASSUME NEW w \in Writers, WriterStep(w)
      PROVE  PrivateHeld' /\ PrivateStands'
  <2>1. w \in Commands /\ w # NoEntry
        /\ \A v \in Commands \ {w} : pc'[v] = pc[v] /\ private'[v] = private[v]
    BY <1>1, <1>2, WriterAlone DEF OthersStay
  <2>2. /\ private'[w] = w => pc'[w] \in Held
        /\ pc'[w] \in Made => private'[w] # NoEntry
    <3> USE <1>1, <2>1 DEF Go, Held, Made
    <3>1. CASE MakeParent(w) \/ SyncHolder(w) \/ OpenParent(w) \/ Inspect(w)
      <4>1. private[w] # w
        BY <3>1 DEF MakeParent, SyncHolder, OpenParent, Inspect
      <4> QED
        BY <3>1, <4>1 DEF MakeParent, SyncHolder, OpenParent, Inspect
    <3>2. CASE CreateTemporary(w) \/ WriteTemporary(w) \/ SyncTemporary(w)
      BY <3>2 DEF CreateTemporary, WriteTemporary, SyncTemporary
    <3>3. CASE Revalidate(w) \/ Reinspect(w) \/ Replace(w) \/ RestoreMode(w)
      BY <3>3 DEF Revalidate, Reinspect, Replace, RestoreMode
    <3>4. CASE SyncParent(w) \/ WriterFails(w)
      BY <3>4 DEF SyncParent, WriterFails
    <3>5. CASE Unwind(w) \/ Unlink(w) \/ UnwindFails(w)
      BY <3>5 DEF Unwind, Unlink, UnwindFails
    <3> QED
      BY <1>2, <3>1, <3>2, <3>3, <3>4, <3>5 DEF WriterStep
  <2> QED
    BY <1>1, <2>1, <2>2
<1>3. ASSUME NEW p \in Publishers, PublisherStep(p)
      PROVE  PrivateHeld' /\ PrivateStands'
  <2>1. p \in Commands /\ p # NoEntry /\ p \notin Writers
        /\ \A v \in Commands \ {p} : pc'[v] = pc[v] /\ private'[v] = private[v]
    BY <1>1, <1>3, PublisherAlone DEF OthersStay
  <2>2. private'[p] = p => pc'[p] \in Held
    <3> USE <1>1, <2>1 DEF Go, Held
    <3>1. CASE OpenPackageParent(p) \/ EnsureAbsent(p) \/ PublisherFails(p)
      BY <3>1 DEF OpenPackageParent, EnsureAbsent, PublisherFails
    <3>2. CASE Collect(p) \/ SelfCheck(p)
      BY <3>2 DEF Collect, SelfCheck, AfterReading
    <3>3. CASE CreateStaging(p) \/ RetainStaging(p) \/ StageFiles(p) \/ Seal(p)
      BY <3>3 DEF CreateStaging, RetainStaging, StageFiles, Seal
    <3>4. CASE RevalidateBefore(p) \/ IdentifyStaging(p) \/ Publish(p)
      BY <3>4 DEF RevalidateBefore, IdentifyStaging, Publish
    <3>5. CASE CheckPublished(p) \/ RevalidateAfter(p)
      BY <3>5 DEF CheckPublished, RevalidateAfter
    <3>6. CASE IdentifyForCleanup(p) \/ RemoveContents(p)
      BY <3>6 DEF IdentifyForCleanup, RemoveContents
    <3>7. CASE LookAgain(p) \/ RemoveStaging(p) \/ CleanupFails(p)
      BY <3>7 DEF LookAgain, RemoveStaging, CleanupFails
    <3> QED
      BY <1>3, <3>1, <3>2, <3>3, <3>4, <3>5, <3>6, <3>7 DEF PublisherStep
  <2> QED
    BY <1>1, <2>1, <2>2
<1>4. ASSUME NEW c \in Commands, SwapPrivate(c)
      PROVE  PrivateHeld' /\ PrivateStands'
  BY <1>1, <1>4 DEF SwapPrivate
<1>5. ASSUME NEW c \in Commands, Kill(c)
      PROVE  PrivateHeld' /\ PrivateStands'
  BY <1>1, <1>5 DEF Kill, Go, Held, Made
<1>6. CASE MachineCrash
  BY <1>1, <1>6 DEF MachineCrash, Held, Made
<1>7. CASE EditSource \/ SwapParent \/ TouchOutput \/ TakePackage \/ UNCHANGED vars
  BY <1>7 DEF EditSource, SwapParent, TouchOutput, TakePackage, vars, parentVars
<1> QED
  BY <1>2, <1>3, <1>4, <1>5, <1>6, <1>7 DEF Next, Somebody

-----------------------------------------------------------------------------
(* An output that was published stands, now and, once its writer synced    *)
(* the parent, after a crash.                                              *)
OutputStands ==
  /\ \A d \in Dirs : output[d] \in image[d].output
  /\ \A w \in Writers : pc[w] \in {"restore", "sync"} => output[fd[w]] # NoEntry
  /\ \A w \in Writers : pc[w] = "returned" => NoEntry \notin image[fd[w]].output

(* A name is not taken from an output.                                     *)
OutputsStay ==
  \A d \in Dirs :
    /\ output[d] # NoEntry => output'[d] # NoEntry
    /\ output'[d] \in image'[d].output
    /\ NoEntry \notin image[d].output => NoEntry \notin image'[d].output

LEMMA StayingOutputs ==
  ASSUME PubInv, OutputStands, OutputsStay,
         \A w \in Writers : pc'[w] \in {"restore", "sync"} =>
           pc[w] \in {"restore", "sync"} /\ fd'[w] = fd[w],
         \A w \in Writers : pc'[w] = "returned" => pc[w] = "returned" /\ fd'[w] = fd[w]
  PROVE  OutputStands'
<1>1. \A w \in Writers : pc[w] \in {"restore", "sync", "returned"} => fd[w] \in Dirs
  BY DEF PubInv, PubType, Parentless, Commands
<1> QED
  BY <1>1 DEF OutputStands, OutputsStay

(* A name given to an output.                                              *)
LEMMA GivenOutput ==
  ASSUME PubInv, OutputStands, NEW d \in Dirs, NEW n \in Inodes,
         output' = [output EXCEPT ![d] = n],
         image' = [image EXCEPT ![d].output = @ \cup {n}]
  PROVE  OutputsStay /\ output'[d] # NoEntry
<1> USE InodeFacts
<1>1. output \in [Dirs -> Names] /\ image \in [Dirs -> [output : SUBSET Names, package : SUBSET Names]]
  BY DEF PubInv, PubType, Images
<1>2. n # NoEntry
  OBVIOUS
<1>3. output'[d] = n /\ image'[d].output = image[d].output \cup {n}
  BY <1>1
<1>4. \A e \in Dirs \ {d} : output'[e] = output[e] /\ image'[e] = image[e]
  BY <1>1
<1> QED
  BY <1>2, <1>3, <1>4 DEF OutputsStay, OutputStands

LEMMA NextStands ==
  ASSUME PubInv, PrivateStands, OutputStands, [Next]_vars
  PROVE  OutputStands'
<1> USE InodeFacts
<1>1. PubType /\ DOMAIN pc = Commands /\ DOMAIN fd = Commands
      /\ Writers \subseteq Commands /\ \A w \in Writers : w \notin Publishers
  BY ParentAssumption DEF PubInv, PubType, Commands
<1>2. UNCHANGED <<output, image>> => OutputsStay
  BY DEF OutputStands, OutputsStay
<1>3. ASSUME NEW w \in Writers, WriterStep(w)
      PROVE  OutputStands'
  <2>1. w \in Commands
        /\ \A v \in Writers \ {w} : pc'[v] = pc[v] /\ fd'[v] = fd[v]
    BY <1>1, <1>3, WriterAlone DEF OthersStay
  <2>2. CASE Replace(w)
    <3>1. private[w] \in Inodes /\ fd[w] \in Dirs
      <4>1. pc[w] = "replace"
        BY <2>2 DEF Replace
      <4>2. private[w] \in Names
        BY <1>1, <2>1 DEF PubType
      <4> QED
        BY <1>1, <2>1, <4>1, <4>2 DEF PrivateStands, Made, Names, PubType, Parentless
    <3>2. OutputsStay /\ output'[fd[w]] # NoEntry
      BY <2>2, <3>1, GivenOutput DEF Replace
    <3>3. pc'[w] \in {"restore", "sync"} /\ fd' = fd
      BY <1>1, <2>1, <2>2 DEF Replace, Go
    <3>4. \A v \in Writers : pc[v] \in {"restore", "sync", "returned"} => fd[v] \in Dirs
      BY <1>1 DEF PubType, Parentless
    <3> QED
      BY <2>1, <3>2, <3>3, <3>4 DEF OutputStands, OutputsStay
  <2>3. CASE SyncParent(w)
    <3>1. pc[w] = "sync" /\ fd[w] \in Dirs /\ output[fd[w]] # NoEntry
      BY <1>1, <2>1, <2>3 DEF SyncParent, PubType, Parentless, OutputStands
    <3>2. image \in [Dirs -> [output : SUBSET Names, package : SUBSET Names]]
      BY <1>1 DEF PubType, Images
    <3>3. /\ image'[fd[w]].output = {output[fd[w]]}
          /\ \A e \in Dirs \ {fd[w]} : image'[e] = image[e]
          /\ UNCHANGED <<output, fd>>
      BY <2>3, <3>1, <3>2 DEF SyncParent
    <3>4. OutputsStay /\ NoEntry \notin image'[fd[w]].output
      BY <3>1, <3>3 DEF OutputsStay, OutputStands
    <3>5. pc'[w] = "returned"
      BY <1>1, <2>1, <2>3 DEF SyncParent, Go
    <3>6. \A v \in Writers : pc[v] \in {"restore", "sync", "returned"} => fd[v] \in Dirs
      BY <1>1 DEF PubType, Parentless
    <3> QED
      BY <2>1, <3>3, <3>4, <3>5, <3>6 DEF OutputStands, OutputsStay
  <2>4. CASE ~Replace(w) /\ ~SyncParent(w)
    <3>1. /\ UNCHANGED <<output, image>>
          /\ pc'[w] \in {"restore", "sync"} => pc[w] \in {"restore", "sync"} /\ fd' = fd
          /\ pc'[w] # "returned"
      <4> USE <1>1, <2>1, <2>4 DEF Go
      <4>1. CASE MakeParent(w) \/ SyncHolder(w) \/ OpenParent(w) \/ Inspect(w)
        BY <4>1 DEF MakeParent, SyncHolder, OpenParent, Inspect
      <4>2. CASE CreateTemporary(w) \/ WriteTemporary(w) \/ SyncTemporary(w)
        BY <4>2 DEF CreateTemporary, WriteTemporary, SyncTemporary
      <4>3. CASE Revalidate(w) \/ Reinspect(w) \/ RestoreMode(w)
        BY <4>3 DEF Revalidate, Reinspect, RestoreMode
      <4>4. CASE WriterFails(w) \/ Unwind(w) \/ Unlink(w) \/ UnwindFails(w)
        BY <4>4 DEF WriterFails, Unwind, Unlink, UnwindFails
      <4> QED
        BY <1>3, <4>1, <4>2, <4>3, <4>4 DEF WriterStep
    <3> QED
      BY <1>2, <2>1, <3>1, StayingOutputs
  <2> QED
    BY <2>2, <2>3, <2>4
<1>4. ASSUME NEW p \in Publishers, PublisherStep(p)
      PROVE  OutputStands'
  <2>1. \A v \in Writers : pc'[v] = pc[v] /\ fd'[v] = fd[v]
    BY <1>1, <1>4, PublisherAlone DEF OthersStay
  <2>2. output' = output /\ \A d \in Dirs : image'[d].output = image[d].output
    <3>1. image \in [Dirs -> [output : SUBSET Names, package : SUBSET Names]]
      BY <1>1 DEF PubType, Images
    <3>2. CASE Publish(p)
      BY <3>1, <3>2 DEF Publish
    <3> QED
      BY <1>4, <3>2 DEF PublisherStep, OpenPackageParent, EnsureAbsent, Collect,
         CreateStaging, RetainStaging, StageFiles, Seal, SelfCheck, RevalidateBefore,
         IdentifyStaging, CheckPublished, RevalidateAfter, PublisherFails, IdentifyForCleanup,
         RemoveContents, LookAgain, RemoveStaging, CleanupFails
  <2>3. OutputsStay
    BY <2>2 DEF OutputStands, OutputsStay
  <2> QED
    BY <2>1, <2>3, StayingOutputs
<1>5. CASE TouchOutput
  <2>1. at \in Dirs /\ UNCHANGED <<pc, fd>>
    BY <1>1, <1>5 DEF TouchOutput, PubType
  <2>2. PICK i \in Inodes : output' = [output EXCEPT ![at] = i]
                           /\ image' = [image EXCEPT ![at].output = @ \cup {i}]
    BY <1>5 DEF TouchOutput, SetOutput
  <2> QED
    BY <2>1, <2>2, GivenOutput, StayingOutputs
<1>6. CASE TakePackage
  <2>1. image \in [Dirs -> [output : SUBSET Names, package : SUBSET Names]]
    BY <1>1 DEF PubType, Images
  <2>2. output' = output /\ \A d \in Dirs : image'[d].output = image[d].output
    BY <1>6, <2>1 DEF TakePackage
  <2>3. OutputsStay /\ UNCHANGED <<pc, fd>>
    BY <1>6, <2>2 DEF OutputStands, OutputsStay, TakePackage
  <2> QED
    BY <2>3, StayingOutputs
<1>7. CASE MachineCrash
  <2>1. \A w \in Writers : pc'[w] \in {"absent", "dead"}
    BY <1>1, <1>7 DEF MachineCrash
  <2>2. \A d \in Dirs : image'[d].output = {output'[d]}
    BY <1>7 DEF MachineCrash
  <2> QED
    BY <2>1, <2>2 DEF OutputStands
<1>8. ASSUME NEW c \in Commands, SwapPrivate(c) \/ Kill(c)
      PROVE  OutputStands'
  <2>1. UNCHANGED <<output, image, fd>> /\ \A v \in Writers : pc'[v] \in {pc[v], "dead"}
    BY <1>1, <1>8 DEF SwapPrivate, Kill, Go
  <2> QED
    BY <1>2, <2>1, StayingOutputs
<1>9. CASE EditSource \/ SwapParent \/ UNCHANGED vars
  <2>1. UNCHANGED <<output, image, fd, pc>>
    BY <1>9 DEF EditSource, SwapParent, vars, parentVars
  <2> QED
    BY <1>2, <2>1, StayingOutputs
<1> QED
  BY <1>3, <1>4, <1>5, <1>6, <1>7, <1>8, <1>9 DEF Next, Somebody

-----------------------------------------------------------------------------
(* Only where one command made the parent and did not sync the directory   *)
(* that holds it may the path lead nowhere after a crash.                  *)
Outside == {"absent", "start", "raised", "dead"}
ParentMissing == at = NoDir => \A c \in Commands : pc[c] \in Outside
ParentStands ==
  /\ NoDir \in atImage /\ at # NoDir => maker # NoEntry
  /\ maker # NoEntry => maker \in Writers /\ pc[maker] \in {"made", "raised", "dead"}

LEMMA NextParent ==
  ASSUME PubInv, ParentMissing, ParentStands, [Next]_vars
  PROVE  ParentMissing' /\ ParentStands'
<1> USE DEF ParentMissing, ParentStands
<1>1. /\ PubType /\ DOMAIN pc = Commands /\ Writers \subseteq Commands
      /\ NoDir \notin Dirs /\ Home \in Dirs /\ \A w \in Writers : w \notin Publishers
      /\ \A w \in Writers : w # NoEntry
  BY ParentAssumption, InodeFacts DEF PubInv, PubType, Commands
<1>2. ASSUME NEW w \in Writers, WriterStep(w)
      PROVE  ParentMissing' /\ ParentStands'
  <2>1. w \in Commands /\ \A v \in Commands \ {w} : pc'[v] = pc[v]
    BY <1>1, <1>2, WriterAlone DEF OthersStay
  <2>2. CASE MakeParent(w)
    <3>1. pc'[w] = "made" /\ at' # NoDir /\ maker' = w
      BY <1>1, <2>1, <2>2 DEF MakeParent, Go
    <3> QED
      BY <1>1, <3>1
  <2>3. CASE SyncHolder(w)
    <3>1. at # NoDir /\ at' = at /\ atImage' = {at} /\ maker' = NoEntry
      BY <2>1, <2>3 DEF SyncHolder, Outside
    <3> QED
      BY <3>1
  <2>4. CASE WriterFails(w)
    <3>1. /\ UNCHANGED <<at, atImage, maker>>
          /\ pc[w] \notin {"raised", "dead"}
          /\ pc'[w] \in {"raised", "unwind"}
          /\ pc'[w] = "unwind" => pc[w] \notin {"start", "made", "raised", "dead"}
      BY <1>1, <2>1, <2>4 DEF WriterFails, Go, historyVars
    <3>2. at = NoDir => pc'[w] = "raised"
      BY <2>1, <2>4, <3>1 DEF WriterFails, Outside
    <3>3. maker = w => pc'[w] = "raised"
      <4>1. maker = w => pc[w] \in {"made", "raised", "dead"}
        BY <1>1
      <4> QED
        BY <3>1, <4>1
    <3> QED
      BY <1>1, <2>1, <3>1, <3>2, <3>3 DEF Outside
  <2>5. CASE ~MakeParent(w) /\ ~SyncHolder(w) /\ ~WriterFails(w)
    <3>1. /\ UNCHANGED <<at, atImage, maker>> /\ at # NoDir
          /\ pc[w] \notin {"made", "raised", "dead"}
      <4> USE <1>1, <2>1, <2>5 DEF Outside, historyVars
      <4>1. CASE OpenParent(w) \/ Inspect(w)
        BY <4>1 DEF OpenParent, Inspect
      <4>2. CASE CreateTemporary(w) \/ WriteTemporary(w) \/ SyncTemporary(w)
        BY <4>2 DEF CreateTemporary, WriteTemporary, SyncTemporary
      <4>3. CASE Revalidate(w) \/ Reinspect(w) \/ Replace(w) \/ RestoreMode(w)
        BY <4>3 DEF Revalidate, Reinspect, Replace, RestoreMode
      <4>4. CASE SyncParent(w) \/ Unwind(w) \/ Unlink(w) \/ UnwindFails(w)
        BY <4>4 DEF SyncParent, Unwind, Unlink, UnwindFails
      <4> QED
        BY <1>2, <4>1, <4>2, <4>3, <4>4 DEF WriterStep
    <3>2. \A v \in Writers : pc[v] \in {"made", "raised", "dead"} => pc'[v] = pc[v]
      BY <1>1, <2>1, <3>1
    <3> QED
      BY <3>1, <3>2
  <2> QED
    BY <2>2, <2>3, <2>4, <2>5
<1>3. ASSUME NEW p \in Publishers, PublisherStep(p)
      PROVE  ParentMissing' /\ ParentStands'
  <2>1. /\ p \in Commands /\ UNCHANGED <<at, atImage>>
        /\ \A v \in Commands \ {p} : pc'[v] = pc[v]
        /\ \A v \in Writers : pc'[v] = pc[v]
    BY <1>1, <1>3, PublisherAlone DEF OthersStay
  <2>2. at = NoDir => pc'[p] \in Outside
    <3> USE <1>1, <2>1 DEF Outside
    <3>1. CASE OpenPackageParent(p)
      BY <3>1 DEF OpenPackageParent, Go
    <3>2. CASE PublisherFails(p)
      BY <3>2 DEF PublisherFails, Go
    <3> QED
      BY <1>3, <3>1, <3>2 DEF PublisherStep, EnsureAbsent, Collect,
         CreateStaging, RetainStaging, StageFiles, Seal, SelfCheck, RevalidateBefore,
         IdentifyStaging, Publish, CheckPublished, RevalidateAfter, IdentifyForCleanup,
         RemoveContents, LookAgain, RemoveStaging, CleanupFails
  <2>3. maker' = maker
    BY <1>3 DEF PublisherStep, OpenPackageParent, EnsureAbsent, Collect, CreateStaging,
       RetainStaging, StageFiles, Seal, SelfCheck, RevalidateBefore, IdentifyStaging, Publish,
       CheckPublished, RevalidateAfter, PublisherFails, IdentifyForCleanup, RemoveContents,
       LookAgain, RemoveStaging, CleanupFails, historyVars
  <2> QED
    BY <2>1, <2>2, <2>3
<1>4. ASSUME NEW c \in Commands, Kill(c)
      PROVE  ParentMissing' /\ ParentStands'
  BY <1>1, <1>4 DEF Kill, Go, Outside, historyVars
<1>5. CASE SwapParent
  <2>1. at' # NoDir /\ atImage' = {at'} /\ maker' = NoEntry
    BY <1>1, <1>5 DEF SwapParent
  <2> QED
    BY <2>1
<1>6. CASE MachineCrash
  <2>1. /\ atImage' = {at'} /\ maker' = NoEntry
        /\ \A c \in Commands : pc'[c] \in {"absent", "dead"}
    BY <1>6 DEF MachineCrash
  <2> QED
    BY <2>1 DEF Outside
<1>7. CASE EditSource \/ TouchOutput \/ TakePackage \/ UNCHANGED vars
           \/ \E c \in Commands : SwapPrivate(c)
  <2>1. UNCHANGED <<at, atImage, pc, maker>>
    BY <1>7 DEF EditSource, TouchOutput, TakePackage, SwapPrivate, vars, parentVars, historyVars
  <2> QED
    BY <2>1
<1> QED
  BY <1>2, <1>3, <1>4, <1>5, <1>6, <1>7 DEF Next, Somebody

SurvivalInv ==
  PubInv /\ PrivateHeld /\ PrivateStands /\ OutputStands /\ ParentMissing /\ ParentStands

LEMMA SurvivalInvariant == Spec => []SurvivalInv
<1>1. Init => SurvivalInv
  <2> SUFFICES ASSUME Init PROVE SurvivalInv
    OBVIOUS
  <2>1. \A c \in Commands : pc[c] \in {"absent", "start"} /\ private[c] = NoEntry
    <3>1. PICK live \in Together :
            pc = [c \in Commands |-> IF c \in live THEN "start" ELSE "absent"]
      BY DEF Init, ParentInit
    <3> QED
      BY <3>1 DEF Init, ParentInit
  <2>2. PrivateHeld /\ PrivateStands
    BY <2>1, InodeFacts DEF PrivateHeld, PrivateStands, Held, Made, Commands
  <2>3. OutputStands
    BY <2>1 DEF OutputStands, Init, ParentInit, Commands
  <2>4. ParentMissing /\ ParentStands
    BY <2>1 DEF ParentMissing, ParentStands, Outside, Init, ParentInit
  <2> QED
    BY <2>2, <2>3, <2>4, InitPublication DEF SurvivalInv
<1>2. SurvivalInv /\ [Next]_vars => SurvivalInv'
  BY NextPublication, NextPrivate, NextStands, NextParent DEF SurvivalInv
<1> QED
  BY <1>1, <1>2, PTL DEF Spec

(* What a writer reported as written stands after a machine crash, under a *)
(* path that exists (run.py:157, run.py:346): the parent is synced last,   *)
(* and so is the directory that holds a parent the writer made.  Only a    *)
(* parent that another command made and did not sync may be lost with it.  *)
THEOREM SuccessSurvivesProved == Spec => []SuccessSurvives
<1>1. SurvivalInv => SuccessSurvives
  <2> SUFFICES ASSUME SurvivalInv, NEW w \in Writers, pc[w] = "returned"
               PROVE  /\ NoEntry \notin image[fd[w]].output
                      /\ NoDir \in atImage => maker \in Writers \ {w}
    BY DEF SuccessSurvives
  <2>1. NoEntry \notin image[fd[w]].output
    BY DEF SurvivalInv, OutputStands
  <2>2. at # NoDir
    BY DEF SurvivalInv, ParentMissing, Outside, Commands
  <2> QED
    BY <2>1, <2>2 DEF SurvivalInv, ParentStands
<1> QED
  BY <1>1, SurvivalInvariant, PTL

-----------------------------------------------------------------------------
(* The mode of an earlier output goes from what was inspected to what      *)
(* replaces it, and on to what replaces that, but for the window in which  *)
(* the new output still has the mode of a temporary file.                  *)
Uninspected == {"absent", "start", "made", "inspect"}

EarlierShared == inode[Old].mode = "shared" /\ inode[Foreign].mode = "shared"
SeenShared ==
  \A w \in Writers : seen[w] # Nothing /\ Earlier(seen[w].entry) => seen[w].mode = "shared"
ModeRestored ==
  \A w \in Writers : pc[w] \in {"sync", "returned"} /\ seen[w] # Nothing =>
    inode[w].mode = seen[w].mode
ModePassedOn ==
  ~window => \A w, v \in Writers : seen[w].entry = v =>
    pc[v] \notin Uninspected /\ (Earlier(seen[v].entry) => seen[w].mode = "shared")
ModeFollows == EarlierShared /\ SeenShared /\ ModeRestored /\ ModePassedOn

(* Steps that inspect nothing and change no mode.                          *)
LEMMA ModesStay ==
  ASSUME PubInv, ModeFollows, UNCHANGED <<seen, window>>,
         \A i \in Inodes : inode'[i].mode = inode[i].mode,
         \A w \in Writers :
           /\ pc'[w] \in {"sync", "returned"} /\ seen[w] # Nothing =>
                pc[w] \in {"sync", "returned"}
           /\ pc'[w] \in Uninspected => pc[w] \in Uninspected
  PROVE  ModeFollows'
<1>1. \A w \in Writers : inode'[w].mode = inode[w].mode
  BY DEF Inodes, Commands
<1>2. EarlierShared' /\ SeenShared'
  BY InodeFacts DEF ModeFollows, EarlierShared, SeenShared, Earlier
<1>3. ModeRestored'
  BY <1>1 DEF ModeFollows, ModeRestored
<1>4. ModePassedOn'
  BY DEF ModeFollows, ModePassedOn, Earlier
<1> QED
  BY <1>2, <1>3, <1>4 DEF ModeFollows

LEMMA InspectKeepsModes ==
  ASSUME PubInv, ModeFollows, NEW w \in Writers, Inspect(w)
  PROVE  ModeFollows'
<1> USE InodeFacts
<1>1. /\ w \in Commands /\ PubType /\ pc[w] = "inspect" /\ UNCHANGED inode
      /\ \A v \in Writers \ {w} : pc'[v] = pc[v]
      /\ pc'[w] \in {"raised", "create"}
  BY DEF Inspect, Go, PubInv, PubType, Commands
<1>2. CASE Irregular(w)
  <2>1. UNCHANGED <<seen, window>>
    BY <1>2 DEF Inspect, outputVars
  <2> QED
    BY <1>1, <2>1, ModesStay DEF Uninspected
<1>3. CASE ~Irregular(w)
  <2> DEFINE found == output[fd[w]]
  <2>1. /\ seen' = [seen EXCEPT ![w] = Snapshot(w)]
        /\ window' = \/ window
                     \/ \E v \in Writers : found = v /\ pc[v] \notin {"returned", "sync"}
    BY <1>3 DEF Inspect
  <2>2. seen'[w] = Snapshot(w) /\ \A v \in Writers \ {w} : seen'[v] = seen[v]
    BY <1>1, <2>1 DEF PubType
  <2>3. found \in Names
    BY <1>1 DEF PubType, Parentless
  <2>4. /\ Snapshot(w).entry = found
        /\ found # NoEntry => Snapshot(w).mode = inode[found].mode
        /\ found = NoEntry => Snapshot(w) = Nothing
    BY DEF Snapshot, Nothing
  <2>5. EarlierShared' /\ EarlierShared
    BY <1>1 DEF ModeFollows, EarlierShared
  <2>6. SeenShared'
    <3>1. Earlier(found) => found # NoEntry /\ inode[found].mode = "shared"
      BY <2>5 DEF Earlier, EarlierShared
    <3> QED
      BY <2>2, <2>4, <3>1 DEF ModeFollows, SeenShared, Earlier
  <2>7. ModeRestored'
    <3>1. pc'[w] \notin {"sync", "returned"}
      BY <1>1
    <3> QED
      BY <1>1, <2>2, <3>1 DEF ModeFollows, ModeRestored
  <2>8. ASSUME ~window', NEW u \in Writers, NEW v \in Writers, seen'[u].entry = v
        PROVE  /\ pc'[v] \notin Uninspected
               /\ Earlier(seen'[v].entry) => seen'[u].mode = "shared"
    <3>1. ~window
      BY <2>1, <2>8
    <3>2. CASE u # w
      <4>1. seen[u].entry = v /\ v # w
        BY <1>1, <2>2, <2>8, <3>1, <3>2 DEF ModeFollows, ModePassedOn, Uninspected
      <4> QED
        BY <1>1, <2>2, <3>1, <3>2, <4>1 DEF ModeFollows, ModePassedOn, Earlier
    <3>3. CASE u = w
      <4>1. v = found /\ pc[v] \in {"returned", "sync"} /\ v # w
        BY <1>1, <2>1, <2>2, <2>4, <2>8, <3>3
      <4>2. pc'[v] \notin Uninspected /\ seen'[v] = seen[v] /\ v # NoEntry
        BY <1>1, <2>2, <4>1 DEF Uninspected, Inodes, Commands
      <4>3. ASSUME Earlier(seen[v].entry) PROVE inode[v].mode = "shared"
        <5>1. seen[v] # Nothing
          BY <4>3 DEF Earlier, Nothing
        <5> QED
          BY <4>1, <4>3, <5>1 DEF ModeFollows, ModeRestored, SeenShared
      <4> QED
        BY <2>2, <2>4, <3>3, <4>1, <4>2, <4>3 DEF Earlier
    <3> QED
      BY <3>2, <3>3
  <2> QED
    BY <2>5, <2>6, <2>7, <2>8 DEF ModeFollows, ModePassedOn
<1> QED
  BY <1>2, <1>3

LEMMA NextModes ==
  ASSUME PubInv, ModeFollows, [Next]_vars
  PROVE  ModeFollows'
<1> USE InodeFacts
<1>1. /\ PubType /\ DOMAIN pc = Commands /\ Writers \subseteq Commands /\ Writers \subseteq Inodes
      /\ \A w \in Writers : w \notin Publishers
  BY ParentAssumption DEF PubInv, PubType, Commands, Inodes
<1>2. ASSUME NEW w \in Writers, WriterStep(w)
      PROVE  ModeFollows'
  <2>1. /\ w \in Commands
        /\ \A v \in Writers \ {w} : pc'[v] = pc[v]
        /\ \A i \in Inodes \ {w} : inode'[i] = inode[i]
    BY <1>1, <1>2, WriterAlone DEF OthersStay
  <2>2. CASE Inspect(w)
    BY <2>2, InspectKeepsModes
  <2>3. CASE ~Inspect(w)
    <3>1. /\ UNCHANGED <<seen, window>>
          /\ pc'[w] \in Uninspected => pc[w] \in Uninspected
          /\ pc'[w] \in {"sync", "returned"} /\ seen[w] # Nothing =>
               inode'[w].mode = seen[w].mode
      <4> USE <1>1, <2>1, <2>3 DEF Go, Uninspected, outputVars
      <4>1. CASE MakeParent(w) \/ SyncHolder(w) \/ OpenParent(w)
        BY <4>1 DEF MakeParent, SyncHolder, OpenParent
      <4>2. CASE CreateTemporary(w) \/ WriteTemporary(w) \/ SyncTemporary(w) \/ WriterFails(w)
        BY <4>2 DEF CreateTemporary, WriteTemporary, SyncTemporary, WriterFails
      <4>3. CASE \/ Revalidate(w) \/ Reinspect(w) \/ Unwind(w) \/ Unlink(w)
                 \/ UnwindFails(w)
        BY <4>3 DEF Revalidate, Reinspect, Unwind, Unlink, UnwindFails
      <4>4. CASE Replace(w)
        BY <4>4 DEF Replace
      <4>5. CASE RestoreMode(w)
        <5>1. inode'[w].mode = seen[w].mode
          <6>1. inode' = [inode EXCEPT ![w] = [inode[w] EXCEPT !.mode = seen[w].mode,
                                                               !.changes = @ + 1]]
            BY <4>5 DEF RestoreMode
          <6>2. inode[w] \in InodeRecords /\ DOMAIN inode = Inodes
            BY DEF PubType
          <6> QED
            BY <6>1, <6>2 DEF InodeRecords
        <5> QED
          BY <4>5, <5>1 DEF RestoreMode
      <4>6. CASE SyncParent(w)
        BY <4>6 DEF SyncParent, ModeFollows, ModeRestored
      <4> QED
        BY <1>2, <4>1, <4>2, <4>3, <4>4, <4>5, <4>6 DEF WriterStep
    <3>2. EarlierShared' /\ SeenShared'
      BY <2>1, <3>1 DEF ModeFollows, EarlierShared, SeenShared, Earlier
    <3>3. ModeRestored'
      BY <1>1, <2>1, <3>1 DEF ModeFollows, ModeRestored
    <3>4. ModePassedOn'
      BY <2>1, <3>1 DEF ModeFollows, ModePassedOn, Earlier
    <3> QED
      BY <3>2, <3>3, <3>4 DEF ModeFollows
  <2> QED
    BY <2>2, <2>3
<1>3. ASSUME NEW p \in Publishers, PublisherStep(p), UNCHANGED outputVars
      PROVE  ModeFollows'
  <2>1. /\ p \in Commands
        /\ \A v \in Writers : pc'[v] = pc[v] /\ inode'[v] = inode[v]
        /\ \A i \in Inodes \ {p} : inode'[i] = inode[i]
    BY <1>1, <1>3, PublisherAlone DEF OthersStay
  <2>2. UNCHANGED <<seen, window>>
    BY <1>3 DEF outputVars
  <2>3. EarlierShared' /\ SeenShared'
    BY <2>1, <2>2 DEF ModeFollows, EarlierShared, SeenShared, Earlier
  <2>4. ModeRestored'
    BY <2>1, <2>2 DEF ModeFollows, ModeRestored
  <2>5. ModePassedOn'
    BY <2>1, <2>2 DEF ModeFollows, ModePassedOn, Earlier
  <2> QED
    BY <2>3, <2>4, <2>5 DEF ModeFollows
<1>4. ASSUME EditSource \/ Somebody, UNCHANGED outputVars
      PROVE  ModeFollows'
  <2>1. UNCHANGED <<seen, window>>
    BY <1>4 DEF outputVars
  <2>2. DOMAIN inode = Inodes /\ \A i \in Inodes : inode[i] \in InodeRecords
    BY <1>1 DEF PubType
  <2>3. CASE TouchOutput
    <3>1. UNCHANGED pc
      BY <2>3 DEF TouchOutput
    <3>2. PICK i \in Inodes, kind \in Kinds :
            inode' = [inode EXCEPT ![i] = [inode[i] EXCEPT !.changes = @ + 1, !.kind = kind]]
      BY <2>2, <2>3 DEF TouchOutput, SetOutput, InodeRecords, Kinds
    <3>3. \A j \in Inodes : inode'[j].mode = inode[j].mode
      BY <2>2, <3>2 DEF InodeRecords
    <3> QED
      BY <2>1, <3>1, <3>3, ModesStay
  <2>4. CASE MachineCrash
    <3>1. \A j \in Inodes : inode'[j].mode = inode[j].mode
      BY <2>2, <2>4 DEF MachineCrash, InodeRecords
    <3>2. \A w \in Writers : pc'[w] \in {"absent", "dead"} /\ (pc'[w] = "absent" => pc[w] = "absent")
      BY <1>1, <2>4 DEF MachineCrash
    <3> QED
      BY <2>1, <3>1, <3>2, ModesStay DEF Uninspected
  <2>5. CASE EditSource \/ SwapParent \/ TakePackage \/ \E c \in Commands : SwapPrivate(c)
    <3>1. UNCHANGED <<pc, inode>>
      BY <2>5 DEF EditSource, SwapParent, TakePackage, SwapPrivate
    <3> QED
      BY <2>1, <3>1, ModesStay
  <2>6. CASE \E c \in Commands : Kill(c)
    <3>1. UNCHANGED inode /\ \A w \in Writers : pc'[w] \in {pc[w], "dead"}
      BY <1>1, <2>6 DEF Kill, Go
    <3> QED
      BY <2>1, <3>1, ModesStay DEF Uninspected
  <2> QED
    BY <1>4, <2>3, <2>4, <2>5, <2>6 DEF Somebody
<1>5. CASE UNCHANGED vars
  BY <1>5, ModesStay DEF vars, parentVars, outputVars
<1> QED
  BY <1>2, <1>3, <1>4, <1>5 DEF Next

(* An output that replaces an earlier one has its mode as soon as its      *)
(* command returned (run.py:343), and so has one that replaces that.       *)
THEOREM ModeKeptProved == Spec => []ModeKept
<1>1. Init => ModeFollows
  <2> SUFFICES ASSUME Init PROVE ModeFollows
    OBVIOUS
  <2>1. PubInv
    BY InitPublication
  <2>2. EarlierShared
    BY InodeFacts DEF EarlierShared, Init, ParentInit, NewInode
  <2>3. \A w \in Writers : seen[w] = Nothing /\ seen[w].entry = NoEntry
    BY DEF Init, OutputInit, Nothing
  <2>4. \A v \in Writers : v # NoEntry
    BY InodeFacts DEF Inodes, Commands
  <2>5. SeenShared /\ ModeRestored /\ ModePassedOn
    BY <2>3, <2>4 DEF SeenShared, ModeRestored, ModePassedOn
  <2> QED
    BY <2>2, <2>5 DEF ModeFollows
<1>2. PubInv /\ ModeFollows /\ [Next]_vars => ModeFollows'
  BY NextModes
<1>3. ASSUME PubInv, ModeFollows PROVE ModeKept
  <2>1. SUFFICES ASSUME NEW w \in Writers, pc[w] = "returned", ~window
                 PROVE  /\ Earlier(seen[w].entry) => inode[w].mode = "shared"
                        /\ \A v \in Writers : seen[w].entry = v /\ Earlier(seen[v].entry) =>
                             inode[w].mode = "shared"
    BY DEF ModeKept
  <2>2. seen[w].entry # NoEntry => inode[w].mode = seen[w].mode
    BY <1>3, <2>1 DEF ModeFollows, ModeRestored, Nothing
  <2>3. Earlier(seen[w].entry) => seen[w] # Nothing /\ seen[w].entry # NoEntry
    BY InodeFacts DEF Earlier, Nothing
  <2>4. \A v \in Writers : v # NoEntry
    BY InodeFacts DEF Inodes, Commands
  <2> QED
    BY <1>3, <2>1, <2>2, <2>3, <2>4 DEF ModeFollows, SeenShared, ModePassedOn
<1> QED
  BY <1>1, <1>2, <1>3, PublicationInvariant, PTL DEF Spec

-----------------------------------------------------------------------------
(* The packages a reader may find: a crash can take one away, and only its *)
(* own command can add one.                                                *)
LEMMA PackageSteps ==
  ASSUME PubInv, [Next]_vars
  PROVE  /\ MachineCrash \/ \A i \in Inodes : i \in Packages => i \in Packages'
         /\ \A p \in Publishers : p \in Packages' => p \in Packages \/ Publish(p)
<1> USE InodeFacts
<1> DEFINE Grow == \A d \in Dirs : /\ image[d].package \subseteq image'[d].package
                                   /\ package[d] \in {NoEntry, package'[d]}
           Same == \A d \in Dirs : /\ image[d].package = image'[d].package
                                   /\ package[d] = package'[d]
<1>1. /\ PubType /\ package \in [Dirs -> Names]
      /\ image \in [Dirs -> [output : SUBSET Names, package : SUBSET Names]]
      /\ \A p \in Publishers : p \in Inodes /\ p # NoEntry /\ p # Foreign
  BY DEF PubInv, PubType, Images, Commands, Inodes
<1>2. Grow => \A i \in Inodes : i \in Packages => i \in Packages'
  BY DEF Packages
<1>3. Same => /\ \A i \in Inodes : i \in Packages => i \in Packages'
              /\ \A p \in Publishers : p \in Packages' => p \in Packages
  BY DEF Packages
<1>4. ASSUME NEW w \in Writers, WriterStep(w) PROVE Same
  <2>1. w \in Commands /\ package' = package
    BY <1>1, <1>4, WriterAlone
  <2>2. CASE Replace(w) \/ SyncParent(w)
    <3>1. fd[w] \in Dirs
      BY <1>1, <2>1, <2>2 DEF Replace, SyncParent, PubType, Parentless
    <3>2. ASSUME NEW names, image' = [image EXCEPT ![fd[w]].output = names] PROVE Same
      BY <1>1, <2>1, <3>1, <3>2
    <3>3. CASE Replace(w)
      BY <3>2, <3>3 DEF Replace
    <3>4. CASE SyncParent(w)
      BY <3>2, <3>4 DEF SyncParent
    <3> QED
      BY <2>2, <3>3, <3>4
  <2>3. CASE ~(Replace(w) \/ SyncParent(w))
    <3>1. image' = image
      BY <1>4, <2>3 DEF WriterStep, MakeParent, SyncHolder, OpenParent, Inspect, CreateTemporary,
         WriteTemporary, SyncTemporary, Revalidate, Reinspect, RestoreMode,
         WriterFails, Unwind, Unlink, UnwindFails
    <3> QED
      BY <2>1, <3>1
  <2> QED
    BY <2>2, <2>3
<1>5. ASSUME NEW p \in Publishers, PublisherStep(p)
      PROVE  Same \/ (Grow /\ Publish(p)
                      /\ \A q \in Publishers \ {p} : q \in Packages' => q \in Packages)
  <2>1. CASE ~Publish(p)
    <3>1. UNCHANGED <<image, package>>
      BY <1>5, <2>1 DEF PublisherStep, OpenPackageParent, EnsureAbsent, Collect,
         CreateStaging, RetainStaging, StageFiles, Seal, SelfCheck, RevalidateBefore,
         IdentifyStaging, CheckPublished, RevalidateAfter, PublisherFails, IdentifyForCleanup,
         RemoveContents, LookAgain, RemoveStaging, CleanupFails
    <3> QED
      BY <3>1
  <2>2. CASE Publish(p)
    <3>1. fd[p] \in Dirs /\ p \in Commands
      BY <1>1, <2>2 DEF Publish, PubType, Parentless, Commands
    <3>2. CASE package[fd[p]] # NoEntry
      BY <2>2, <3>2 DEF Publish
    <3>3. CASE package[fd[p]] = NoEntry
      <4>1. /\ package' = [package EXCEPT ![fd[p]] = private[p]]
            /\ image' = [image EXCEPT ![fd[p]].package = @ \cup {private[p]}]
        BY <2>2, <3>3 DEF Publish
      <4>2. private[p] \in {NoEntry, p, Foreign}
        BY <3>1 DEF PubInv, PrivateIsOwn
      <4>3. \A d \in Dirs : /\ package'[d] \in {package[d], private[p]}
                            /\ image'[d].package \subseteq image[d].package \cup {private[p]}
        BY <1>1, <3>1, <4>1
      <4>4. Grow
        BY <1>1, <3>1, <3>3, <4>1
      <4>5. \A q \in Publishers \ {p} : q \in Packages' => q \in Packages
        BY <1>1, <4>2, <4>3 DEF Packages
      <4> QED
        BY <2>2, <4>4, <4>5
    <3> QED
      BY <3>2, <3>3
  <2> QED
    BY <2>1, <2>2
<1>6. CASE TouchOutput
  <2>1. at \in Dirs /\ package' = package
    BY <1>1, <1>6 DEF TouchOutput, PubType
  <2>2. \E i \in Inodes : image' = [image EXCEPT ![at].output = @ \cup {i}]
    BY <1>6 DEF TouchOutput, SetOutput
  <2>3. Same
    BY <1>1, <2>1, <2>2
  <2> QED
    BY <1>3, <2>3
<1>7. CASE TakePackage
  <2>1. /\ at \in Dirs /\ package[at] = NoEntry
        /\ package' = [package EXCEPT ![at] = Foreign]
        /\ image' = [image EXCEPT ![at].package = @ \cup {Foreign}]
    BY <1>1, <1>7 DEF TakePackage, PubType
  <2>2. Grow
    BY <1>1, <2>1
  <2>3. \A d \in Dirs : /\ package'[d] \in {package[d], Foreign}
                        /\ image'[d].package \subseteq image[d].package \cup {Foreign}
    BY <1>1, <2>1
  <2>4. \A p \in Publishers : p \in Packages' => p \in Packages
    BY <1>1, <2>3 DEF Packages
  <2> QED
    BY <1>2, <2>2, <2>4
<1>8. CASE MachineCrash
  <2>1. \A d \in Dirs : package'[d] \in image[d].package
    BY <1>8 DEF MachineCrash
  <2>2. \A d \in Dirs : image'[d].package = {package'[d]}
    BY <1>8 DEF MachineCrash
  <2>3. \A p \in Publishers : p \in Packages' => p \in Packages
    BY <2>1, <2>2 DEF Packages
  <2> QED
    BY <1>8, <2>3
<1>9. CASE \/ EditSource \/ SwapParent \/ UNCHANGED vars
           \/ \E c \in Commands : SwapPrivate(c) \/ Kill(c)
  <2>1. Same
    BY <1>9 DEF EditSource, SwapParent, SwapPrivate, Kill, vars, parentVars
  <2> QED
    BY <1>3, <2>1
<1>10. CASE \E w \in Writers : WriterStep(w)
  BY <1>3, <1>4, <1>10
<1>11. CASE \E p \in Publishers : PublisherStep(p)
  BY <1>2, <1>3, <1>5, <1>11
<1> QED
  BY <1>6, <1>7, <1>8, <1>9, <1>10, <1>11 DEF Next, Somebody

-----------------------------------------------------------------------------
(* The names of a package.                                                 *)
LEMMA PathFacts ==
  /\ Paths = AllowedFiles \cup ExpectedDirectories \cup {Root, Extra}
  /\ ExpectedDirectories = {"conformance", "data", "kaggle", "schemas"}
  /\ AllowedFiles = SourceFiles \cup {RunConformance, Checksums, Manifest}
  /\ AllowedFiles \cap (ExpectedDirectories \cup {Root, Extra}) = {}
  /\ ExpectedDirectories \cap {Root, Extra} = {} /\ Root # Extra
  /\ SourceFiles \cap {RunConformance, Checksums, Manifest} = {}
  /\ RunConformance \notin {Checksums, Manifest}
<1> USE DEF Fixture, Items, Scoring, ItemSchema, PackageSchema, ResultSchema,
            RunConformance, Checksums, Manifest
<1>1. AllowedFiles = SourceFiles \cup {RunConformance, Checksums, Manifest}
  BY DEF AllowedFiles, Artifacts
<1>2. /\ ParentOf(Fixture) = "conformance" /\ ParentOf(Items) = "data"
      /\ ParentOf(Scoring) = "kaggle" /\ ParentOf(RunConformance) = "kaggle"
      /\ ParentOf(ItemSchema) = "schemas" /\ ParentOf(PackageSchema) = "schemas"
      /\ ParentOf(ResultSchema) = "schemas"
      /\ ParentOf(Checksums) = Root /\ ParentOf(Manifest) = Root
  BY DEF ParentOf
<1>3. AllowedFiles = {Fixture, Items, Scoring, ItemSchema, PackageSchema, ResultSchema,
                      RunConformance, Checksums, Manifest}
  BY <1>1 DEF SourceFiles
<1>4. {ParentOf(f) : f \in AllowedFiles} = {"conformance", "data", "kaggle", "schemas", Root}
  <2> HIDE DEF Fixture, Items, Scoring, ItemSchema, PackageSchema, ResultSchema,
               RunConformance, Checksums, Manifest
  <2> QED
    BY <1>2, <1>3
<1>5. ExpectedDirectories = {"conformance", "data", "kaggle", "schemas"}
  BY <1>4 DEF ExpectedDirectories, Root
<1>6. /\ AllowedFiles \cap (ExpectedDirectories \cup {Root, Extra}) = {}
      /\ ExpectedDirectories \cap {Root, Extra} = {} /\ Root # Extra
  BY <1>3, <1>5 DEF Root, Extra
<1>7. /\ SourceFiles \cap {RunConformance, Checksums, Manifest} = {}
      /\ RunConformance \notin {Checksums, Manifest}
  BY DEF SourceFiles
<1>8. Paths = AllowedFiles \cup ExpectedDirectories \cup {Root, Extra}
  BY <1>5 DEF Paths
<1> QED
  BY <1>1, <1>5, <1>6, <1>7, <1>8

(* The six files that are read, in the order in which they are.            *)
LEMMA ReadFacts ==
  /\ Len(ReadOrder) = 6 /\ DOMAIN ReadOrder = 1..6
  /\ \A i \in 1..6 : ReadOrder[i] \in SourceFiles
  /\ \A f \in SourceFiles : \E i \in 1..6 : ReadOrder[i] = f
<1>1. Len(ReadOrder) = 6 /\ DOMAIN ReadOrder = 1..6
  BY DEF ReadOrder
<1>2. /\ ReadOrder[1] = Fixture /\ ReadOrder[2] = Items /\ ReadOrder[3] = Scoring
      /\ ReadOrder[4] = ItemSchema /\ ReadOrder[5] = PackageSchema
      /\ ReadOrder[6] = ResultSchema
  BY DEF ReadOrder
<1>3. \A i \in 1..6 : ReadOrder[i] \in SourceFiles
  <2>1. \A i \in 1..6 : i = 1 \/ i = 2 \/ i = 3 \/ i = 4 \/ i = 5 \/ i = 6
    OBVIOUS
  <2> QED
    BY <1>2, <2>1 DEF SourceFiles
<1>4. \A f \in SourceFiles : \E i \in 1..6 : ReadOrder[i] = f
  <2>1. 1 \in 1..6 /\ 2 \in 1..6 /\ 3 \in 1..6 /\ 4 \in 1..6 /\ 5 \in 1..6 /\ 6 \in 1..6
    OBVIOUS
  <2> QED
    BY <1>2, <2>1 DEF SourceFiles
<1> QED
  BY <1>1, <1>3, <1>4

-----------------------------------------------------------------------------
(* What a package command has in its staging directory.                    *)
NoTree == [q \in Paths |-> Missing]
Opened == [NoTree EXCEPT ![Root] = Entry("directory", "private", <<>>)]
Emptied(t) == Present(t) \ {Root} = {}

Unstaged == {"absent", "start", "absence", "read", "mkdir"}
Checked == {"revalidate", "identify", "rename", "published", "revalidate after", "returned"}

TreeFits(p) ==
  /\ DOMAIN tree[p] = Paths /\ tree[p][Extra] = Missing
  /\ pc[p] \in Unstaged => tree[p] = NoTree
  /\ pc[p] \in {"retain", "stage"} => tree[p] = Opened
  /\ pc[p] \in {"remove", "rmdir"} => Emptied(tree[p])
  /\ pc[p] \in Checked => CheckPackage(tree[p], recheck[p])
  /\ pc[p] \in {"revalidate after", "returned"} => p \in Packages
  /\ pc[p] = "raised" => Emptied(tree[p]) \/ CheckPackage(tree[p], recheck[p])

TreesFit ==
  /\ DOMAIN tree = Publishers /\ DOMAIN recheck = Publishers
  /\ \A p \in Publishers : TreeFits(p)

LEMMA EmptyTrees ==
  /\ Emptied(NoTree)
  /\ DOMAIN NoTree = Paths /\ NoTree[Extra] = Missing
  /\ DOMAIN Opened = Paths /\ Opened[Extra] = Missing
<1>1. Root \in Paths /\ Extra \in Paths /\ Root # Extra
  BY PathFacts
<1> QED
  BY <1>1 DEF Emptied, NoTree, Opened, Present, Missing, Entry

(* Everything but an unexpected name is removed by name.                   *)
LEMMA EmptiedTree ==
  ASSUME NEW t, t[Extra] = Missing
  PROVE  Emptied(Removed(t, Len(RemoveOrder)))
<1> DEFINE left == Removed(t, Len(RemoveOrder))
<1>1. /\ Len(RemoveOrder) = 6 /\ RemoveOrder[1] = Checksums /\ RemoveOrder[2] = "conformance"
      /\ RemoveOrder[3] = "data" /\ RemoveOrder[4] = "kaggle" /\ RemoveOrder[5] = Manifest
      /\ RemoveOrder[6] = "schemas"
  BY DEF RemoveOrder
<1>2. \A q \in ExpectedDirectories \cup {Checksums, Manifest} :
        \E i \in 1..6 : RemoveOrder[i] = q
  <2>1. 1 \in 1..6 /\ 2 \in 1..6 /\ 3 \in 1..6 /\ 4 \in 1..6 /\ 5 \in 1..6 /\ 6 \in 1..6
    OBVIOUS
  <2> QED
    BY <1>1, <2>1, PathFacts
<1>3. \A f \in SourceFiles \cup {RunConformance} : ParentOf(f) \in ExpectedDirectories
  <2> USE DEF Fixture, Items, Scoring, ItemSchema, PackageSchema, ResultSchema, RunConformance
  <2>1. \A f \in SourceFiles \cup {RunConformance} :
          ParentOf(f) \in {"conformance", "data", "kaggle", "schemas"}
    BY DEF ParentOf, SourceFiles
  <2> QED
    BY <2>1, PathFacts
<1>4. \A q \in Paths \ {Root, Extra} : \E i \in 1..6 : RemoveOrder[i] \in {q, ParentOf(q)}
  BY <1>2, <1>3, PathFacts
<1>5. left = [q \in Paths |-> IF \E i \in 1..6 : RemoveOrder[i] \in {q, ParentOf(q)}
                              THEN Missing ELSE t[q]]
  BY <1>1 DEF Removed
<1>6. \A q \in Paths \ {Root} : left[q] = Missing
  BY <1>4, <1>5
<1> HIDE DEF left
<1>7. Emptied(left)
  BY <1>6 DEF Emptied, Present, Missing, Entry
<1> QED
  BY <1>7 DEF left

(* No step brings an unexpected name into a staging directory.             *)
LEMMA StagedShape ==
  ASSUME NEW p, NEW n \in 0..Len(WriteOrder), tree[p][Extra] = Missing
  PROVE  DOMAIN Staged(p, n) = Paths /\ Staged(p, n)[Extra] = Missing
<1> DEFINE files == {WriteOrder[i] : i \in 1..n}
<1>1. files \subseteq AllowedFiles
  <2>1. /\ Len(WriteOrder) = 9
        /\ WriteOrder[1] = Fixture /\ WriteOrder[2] = Items /\ WriteOrder[3] = Scoring
        /\ WriteOrder[4] = RunConformance /\ WriteOrder[5] = ItemSchema
        /\ WriteOrder[6] = PackageSchema /\ WriteOrder[7] = ResultSchema
        /\ WriteOrder[8] = Checksums /\ WriteOrder[9] = Manifest
    BY DEF WriteOrder
  <2>2. \A i \in 1..n : \/ i = 1 \/ i = 2 \/ i = 3 \/ i = 4 \/ i = 5 \/ i = 6
                          \/ i = 7 \/ i = 8 \/ i = 9
    BY <2>1
  <2>3. \A i \in 1..n : WriteOrder[i] \in AllowedFiles
    BY <2>1, <2>2, PathFacts DEF SourceFiles
  <2> QED
    BY <2>3
<1>2. \A f \in AllowedFiles : ParentOf(f) \in ExpectedDirectories \cup {Root}
  BY DEF ExpectedDirectories
<1>3. Extra \notin files /\ Extra # RunConformance /\ \A f \in files : ParentOf(f) # Extra
  BY <1>1, <1>2, PathFacts
<1>4. Staged(p, n) = [q \in Paths |->
        CASE q = RunConformance /\ q \in files -> Entry("file", "executable", ContentOf(q, collected[p]))
          [] q \in files \ {RunConformance} -> Entry("file", "plain", ContentOf(q, collected[p]))
          [] q # Root /\ \E f \in files : ParentOf(f) = q -> Entry("directory", "executable", <<>>)
          [] OTHER -> tree[p][q]]
  BY DEF Staged
<1> HIDE DEF files
<1>5. Extra \in Paths
  BY PathFacts
<1> QED
  BY <1>3, <1>4, <1>5

LEMMA SameTree ==
  ASSUME NEW p \in Publishers, TreeFits(p),
         tree'[p] = tree[p], recheck'[p] = recheck[p], pc'[p] = pc[p],
         p \in Packages => p \in Packages'
  PROVE  TreeFits(p)'
BY DEF TreeFits

LEMMA PackageNamed == \A d \in Dirs : package[d] \in Packages
BY DEF Packages

LEMMA PublisherTree ==
  ASSUME PubType, TreesFit, NEW p \in Publishers, PublisherStep(p),
         p \in Packages => p \in Packages'
  PROVE  TreeFits(p)'
<1>1. /\ p \in Commands /\ DOMAIN pc = Commands
      /\ DOMAIN tree = Publishers /\ DOMAIN recheck = Publishers /\ TreeFits(p)
  BY DEF PubType, Commands, TreesFit
<1> USE <1>1 DEF TreeFits, Go, Unstaged, Checked, packageVars, readings
<1>2. CASE OpenPackageParent(p)
  BY <1>2, EmptyTrees DEF OpenPackageParent
<1>3. CASE EnsureAbsent(p)
  BY <1>3, EmptyTrees DEF EnsureAbsent
<1>4. CASE Collect(p)
  <2>1. /\ UNCHANGED <<tree, recheck>> /\ pc[p] = "read"
        /\ pc'[p] \in {"read", "mkdir", "raised"}
    BY <1>4 DEF Collect, AfterReading
  <2> QED
    BY <2>1, EmptyTrees
<1>5. CASE CreateStaging(p)
  <2>1. tree'[p] = Opened /\ pc'[p] = "retain"
    BY <1>5 DEF CreateStaging, NoTree, Opened
  <2> QED
    BY <2>1, EmptyTrees
<1>6. CASE StageFiles(p)
  <2>1. PICK n \in 0..Len(WriteOrder) : tree' = [tree EXCEPT ![p] = Staged(p, n)]
    BY <1>6 DEF StageFiles
  <2>2. DOMAIN tree'[p] = Paths /\ tree'[p][Extra] = Missing
    BY <2>1, StagedShape
  <2>3. pc'[p] \in {"seal", "clean"}
    BY <1>6 DEF StageFiles
  <2> QED
    BY <2>2, <2>3
<1>15. CASE Seal(p)
  <2>1. tree'[p] = [tree[p] EXCEPT ![Root].mode = "executable"] /\ pc'[p] = "recheck"
    BY <1>15 DEF Seal
  <2>2. DOMAIN tree'[p] = Paths /\ tree'[p][Extra] = Missing
    BY <2>1, PathFacts
  <2> QED
    BY <2>1, <2>2
<1>7. CASE SelfCheck(p)
  <2>1. /\ tree' = tree /\ pc[p] = "recheck"
        /\ pc'[p] \in {"recheck", "revalidate", "clean"}
        /\ pc'[p] = "revalidate" => CheckPackage(tree[p], recheck'[p])
    BY <1>7 DEF SelfCheck, AfterReading
  <2>2. pc'[p] = "revalidate" => CheckPackage(tree'[p], recheck'[p])
    BY <2>1
  <2> QED
    BY <2>1, <2>2
<1>8. CASE RevalidateBefore(p) \/ IdentifyStaging(p)
  BY <1>8 DEF RevalidateBefore, IdentifyStaging
<1>9. CASE Publish(p)
  BY <1>9 DEF Publish
<1>10. CASE CheckPublished(p)
  <2>1. pc'[p] = "revalidate after" => p \in Packages
    <3>1. fd[p] \in Dirs
      BY <1>10 DEF CheckPublished, PubType, Parentless
    <3>2. package[fd[p]] \in Packages
      BY <3>1, PackageNamed
    <3>3. pc'[p] = "revalidate after" => package[fd[p]] = p
      BY <1>10 DEF CheckPublished
    <3> QED
      BY <3>2, <3>3
  <2> QED
    BY <1>10, <2>1 DEF CheckPublished
<1>11. CASE RevalidateAfter(p)
  BY <1>11 DEF RevalidateAfter
<1>12. CASE IdentifyForCleanup(p)
  <2>1. /\ tree'[p] = [tree[p] EXCEPT ![Root].mode = "private"]
        /\ pc'[p] \in {"empty", "uncleaned"}
    BY <1>12 DEF IdentifyForCleanup
  <2>2. DOMAIN tree'[p] = Paths /\ tree'[p][Extra] = Missing
    BY <2>1, PathFacts
  <2> QED
    BY <2>1, <2>2
<1>13. CASE RemoveContents(p)
  <2>1. PICK n \in 0..Len(RemoveOrder) :
          /\ tree'[p] = Removed(tree[p], n)
          /\ pc'[p] = IF n = Len(RemoveOrder) THEN "remove" ELSE "uncleaned"
    BY <1>13 DEF RemoveContents
  <2>2. DOMAIN tree'[p] = Paths /\ tree'[p][Extra] = Missing
    BY <2>1, PathFacts DEF Removed
  <2>3. pc'[p] = "remove" => Emptied(tree'[p])
    BY <2>1, EmptiedTree
  <2> QED
    BY <2>1, <2>2, <2>3
<1>14. CASE RemoveStaging(p)
  BY <1>14 DEF RemoveStaging
<1>16. CASE RetainStaging(p)
  BY <1>16 DEF RetainStaging
<1>17. CASE PublisherFails(p)
  BY <1>17, EmptyTrees DEF PublisherFails
<1>18. CASE LookAgain(p) \/ CleanupFails(p)
  BY <1>18 DEF LookAgain, CleanupFails
<1> QED
  BY <1>2, <1>3, <1>4, <1>5, <1>6, <1>7, <1>8, <1>9, <1>10, <1>11, <1>12, <1>13, <1>14, <1>15,
     <1>16, <1>17, <1>18
     DEF PublisherStep

LEMMA PublisherTreeFrame ==
  ASSUME TreesFit, NEW p \in Publishers, PublisherStep(p)
  PROVE  /\ DOMAIN tree' = Publishers /\ DOMAIN recheck' = Publishers
         /\ \A q \in Publishers \ {p} : tree'[q] = tree[q] /\ recheck'[q] = recheck[q]
<1> USE DEF TreesFit, packageVars, readings
<1>1. CASE CreateStaging(p) \/ StageFiles(p) \/ Seal(p)
  BY <1>1 DEF CreateStaging, StageFiles, Seal
<1>2. CASE SelfCheck(p)
  BY <1>2 DEF SelfCheck
<1>3. CASE IdentifyForCleanup(p) \/ RemoveContents(p)
  BY <1>3 DEF IdentifyForCleanup, RemoveContents
<1> QED
  BY <1>1, <1>2, <1>3 DEF PublisherStep, OpenPackageParent, EnsureAbsent, Collect,
     RetainStaging, RevalidateBefore, IdentifyStaging, Publish, CheckPublished,
     RevalidateAfter, PublisherFails, LookAgain, RemoveStaging, CleanupFails

LEMMA NextTrees ==
  ASSUME PubInv, TreesFit, [Next]_vars
  PROVE  TreesFit'
<1>1. /\ PubType /\ DOMAIN pc = Commands /\ Publishers \subseteq Commands
      /\ Publishers \subseteq Inodes
      /\ \A p \in Publishers : p \notin Writers
  BY ParentAssumption DEF PubInv, PubType, Commands, Inodes
<1>2. MachineCrash \/ \A p \in Publishers : p \in Packages => p \in Packages'
  BY <1>1, PackageSteps
<1>3. CASE MachineCrash /\ UNCHANGED <<tree, recheck>>
  <2>1. /\ UNCHANGED <<tree, recheck>>
        /\ \A p \in Publishers : pc'[p] \in {"absent", "dead"} /\ (pc'[p] = "absent" => pc[p] = "absent")
    BY <1>1, <1>3 DEF MachineCrash
  <2>2. ASSUME NEW p \in Publishers PROVE TreeFits(p)'
    BY <2>1 DEF TreesFit, TreeFits, Unstaged, Checked
  <2> QED
    BY <2>1, <2>2 DEF TreesFit
<1>4. ASSUME UNCHANGED <<tree, recheck>>, ~MachineCrash,
             \A p \in Publishers : pc'[p] = pc[p]
      PROVE  TreesFit'
  BY <1>2, <1>4, SameTree DEF TreesFit
<1>5. CASE \E w \in Writers : WriterStep(w) /\ UNCHANGED packageVars
  <2>1. \A p \in Publishers : pc'[p] = pc[p]
    BY <1>1, <1>5, WriterAlone DEF OthersStay
  <2> QED
    BY <1>3, <1>4, <1>5, <2>1 DEF packageVars, readings
<1>6. ASSUME NEW p \in Publishers, PublisherStep(p)
      PROVE  TreesFit'
  <2>1. \A q \in Publishers \ {p} : pc'[q] = pc[q]
    BY <1>1, <1>6, PublisherAlone DEF OthersStay
  <2>2. /\ DOMAIN tree' = Publishers /\ DOMAIN recheck' = Publishers
        /\ \A q \in Publishers \ {p} : tree'[q] = tree[q] /\ recheck'[q] = recheck[q]
    BY <1>6, PublisherTreeFrame
  <2>3. \A q \in Publishers : q \in Packages => q \in Packages'
    <3>1. CASE MachineCrash
      <4>1. pc'[p] \in {"absent", "dead"}
        BY <1>1, <3>1 DEF MachineCrash
      <4>2. pc[p] # "absent" /\ pc'[p] # "dead" /\ pc'[p] # "absent"
        BY <1>1, <1>6 DEF Go, PublisherStep, OpenPackageParent, EnsureAbsent, Collect,
           AfterReading, CreateStaging, RetainStaging, StageFiles, Seal, SelfCheck,
           RevalidateBefore, IdentifyStaging, Publish, CheckPublished, RevalidateAfter,
           PublisherFails, IdentifyForCleanup, RemoveContents, LookAgain, RemoveStaging,
           CleanupFails
      <4> QED
        BY <4>1, <4>2
    <3> QED
      BY <1>2, <3>1
  <2>4. TreeFits(p)'
    BY <1>1, <1>6, <2>3, PublisherTree
  <2>5. \A q \in Publishers \ {p} : TreeFits(q)'
    BY <2>1, <2>2, <2>3, SameTree DEF TreesFit
  <2> QED
    BY <2>2, <2>4, <2>5 DEF TreesFit
<1>7. ASSUME NEW c \in Commands, Kill(c), UNCHANGED packageVars
      PROVE  TreesFit'
  <2>1. /\ UNCHANGED <<tree, recheck, package, image>>
        /\ \A p \in Publishers : pc'[p] \in {pc[p], "dead"}
    BY <1>1, <1>7 DEF Kill, Go, packageVars, readings
  <2>2. \A p \in Publishers : p \in Packages => p \in Packages'
    BY <2>1 DEF Packages
  <2>3. ASSUME NEW p \in Publishers PROVE TreeFits(p)'
    <3>1. CASE pc'[p] = pc[p]
      BY <2>1, <2>2, <3>1, SameTree DEF TreesFit
    <3>2. CASE pc'[p] = "dead"
      <4>1. DOMAIN tree'[p] = Paths /\ tree'[p][Extra] = Missing
        BY <1>1, <2>1 DEF TreesFit, TreeFits
      <4> QED
        BY <3>2, <4>1 DEF TreeFits, Unstaged, Checked
    <3> QED
      BY <2>1, <3>1, <3>2
  <2> QED
    BY <2>1, <2>3 DEF TreesFit
<1>8. CASE /\ EditSource \/ SwapParent \/ TouchOutput \/ TakePackage
              \/ (\E c \in Commands : SwapPrivate(c)) \/ UNCHANGED vars
           /\ ~MachineCrash /\ UNCHANGED <<tree, recheck>>
  BY <1>4, <1>8 DEF EditSource, SwapParent, TouchOutput, TakePackage, SwapPrivate, vars, parentVars
<1>9. UNCHANGED packageVars \/ EditSource => UNCHANGED <<tree, recheck>>
  BY DEF packageVars, readings, EditSource
<1> QED
  BY <1>3, <1>5, <1>6, <1>7, <1>8, <1>9 DEF Next, Somebody, vars

FailureInv == PubInv /\ PrivateHeld /\ PrivateStands /\ TreesFit

LEMMA FailureInvariant == Spec => []FailureInv
<1>1. Init => FailureInv
  <2> SUFFICES ASSUME Init PROVE FailureInv
    OBVIOUS
  <2>1. \A c \in Commands : pc[c] \in {"absent", "start"} /\ private[c] = NoEntry
    <3>1. PICK live \in Together :
            pc = [c \in Commands |-> IF c \in live THEN "start" ELSE "absent"]
      BY DEF Init, ParentInit
    <3> QED
      BY <3>1 DEF Init, ParentInit
  <2>2. PrivateHeld /\ PrivateStands
    BY <2>1, InodeFacts DEF PrivateHeld, PrivateStands, Held, Made, Commands
  <2>3. TreesFit
    <3>1. /\ DOMAIN tree = Publishers /\ DOMAIN recheck = Publishers
          /\ \A p \in Publishers : tree[p] = NoTree
      BY DEF Init, PackageInit, NoTree
    <3> QED
      BY <2>1, <3>1, EmptyTrees DEF TreesFit, TreeFits, Unstaged, Checked, Commands
  <2> QED
    BY <2>2, <2>3, InitPublication DEF FailureInv
<1>2. FailureInv /\ [Next]_vars => FailureInv'
  BY NextPublication, NextPrivate, NextTrees DEF FailureInv
<1> QED
  BY <1>1, <1>2, PTL DEF Spec

(* A command that raised left no temporary entry of its own; one whose     *)
(* cleanup failed too left one without a public name; and a package        *)
(* command that raised published nothing or what it had checked            *)
(* (_cleanup_staging_directory; run.py:352).                               *)
THEOREM FailureCleansUpProved == Spec => []FailureCleansUp
<1>1. ASSUME FailureInv PROVE FailureCleansUp
  <2>1. \A c \in Commands : pc[c] = "raised" => private[c] # c
    BY <1>1 DEF FailureInv, PrivateHeld, Held
  <2>2. \A c \in Commands : pc[c] = "uncleaned" => c \notin Outputs \cup Packages
    BY <1>1 DEF FailureInv, PubInv, HiddenIsUnnamed, Hidden, Named, ImageOf, Outputs, Packages
  <2>3. \A p \in Publishers : pc[p] = "raised" =>
          \/ Present(tree[p]) \ {Root} = {}
          \/ CheckPackage(tree[p], recheck[p])
    BY <1>1 DEF FailureInv, TreesFit, TreeFits, Emptied
  <2>4. \A p \in Publishers : pc[p] = "returned" => p \in Packages
    BY <1>1 DEF FailureInv, TreesFit, TreeFits
  <2> QED
    BY <2>1, <2>2, <2>3, <2>4 DEF FailureCleansUp
<1> QED
  BY <1>1, FailureInvariant, PTL

-----------------------------------------------------------------------------
LEMMA ExpectedEntries ==
  ASSUME NEW s
  PROVE  /\ DOMAIN ExpectedTree(s) = Paths
         /\ \A f \in AllowedFiles :
              ExpectedTree(s)[f] = Entry("file", ExpectedMode(f), ContentOf(f, s))
         /\ \A d \in ExpectedDirectories \cup {Root} :
              ExpectedTree(s)[d] = Entry("directory", "executable", <<>>)
         /\ ExpectedTree(s)[Extra] = Missing
BY PathFacts DEF ExpectedTree

LEMMA FileContents ==
  ASSUME NEW s
  PROVE  /\ \A f \in SourceFiles : ContentOf(f, s) = <<s[f]>>
         /\ ContentOf(RunConformance, s) = <<0>>
         /\ \A f \in {Checksums, Manifest} :
              ContentOf(f, s) = [i \in DOMAIN ReadOrder |-> s[ReadOrder[i]]]
<1>1. \A f \in {Checksums, Manifest} : f \notin SourceFiles /\ f # RunConformance
  BY PathFacts
<1>2. RunConformance \notin SourceFiles
  BY PathFacts
<1> QED
  BY <1>1, <1>2 DEF ContentOf

-----------------------------------------------------------------------------
(* Two reads of the sources, one after the other.  When the first one has  *)
(* ended, what it found stands at that moment, or one of the files has     *)
(* changed since it was read.  Such a file is found changed when it is     *)
(* read again, unless it was edited back in between.                       *)
Reads == [SourceFiles -> {0} \cup Versions]
Complete(c) == \A f \in SourceFiles : c[f] # 0
SealedAs(p) == [ExpectedTree(collected[p]) EXCEPT ![Root] = Entry("directory", "private", <<>>)]
AtOnce(p) == collected[p] \in stood \/ p \in restored
Stood(p) == tree[p] = ExpectedTree(collected[p]) /\ AtOnce(p)
Outdated(p, f) ==
  \/ recheck[p][f] = 0 /\ source[f] # collected[p][f]
  \/ recheck[p][f] # 0 /\ recheck[p][f] # collected[p][f]

Collecting == {"mkdir", "retain", "stage", "seal", "recheck"}
Agreed == {"revalidate", "identify", "rename"}
Over == {"published", "revalidate after", "returned", "raised", "dead"}

ReadsFit(p) ==
  /\ pc[p] \in Unstaged => recheck[p] = Unread
  /\ pc[p] \in Collecting =>
       Complete(collected[p]) /\ (AtOnce(p) \/ \E f \in SourceFiles : Outdated(p, f))
  /\ pc[p] = "seal" => tree[p] = SealedAs(p)
  /\ pc[p] = "recheck" => tree[p] = ExpectedTree(collected[p])
  /\ pc[p] \in Agreed => Stood(p)
  /\ p \in Packages => Stood(p) /\ pc[p] \in Over

SourcesFit ==
  /\ source \in [SourceFiles -> Versions] /\ source \in stood
  /\ collected \in [Publishers -> Reads] /\ recheck \in [Publishers -> Reads]
  /\ \A p \in Publishers : ReadsFit(p)

LEMMA ReadAgain ==
  ASSUME NEW c \in Reads, NEW r \in Reads, CheckPackage(ExpectedTree(c), r)
  PROVE  c = r
<1>1. \A f \in AllowedFiles : ExpectedTree(c)[f].content = ContentOf(f, r)
  BY DEF CheckPackage, FileErrors
<1>2. ASSUME NEW f \in SourceFiles PROVE <<c[f]>> = <<r[f]>>
  <2>1. f \in AllowedFiles
    BY PathFacts
  <2>2. ExpectedTree(c)[f] = Entry("file", ExpectedMode(f), ContentOf(f, c))
    BY <2>1, ExpectedEntries
  <2>3. ExpectedTree(c)[f].content = ContentOf(f, c)
    BY <2>2 DEF Entry
  <2>4. ContentOf(f, c) = <<c[f]>>
    BY FileContents
  <2>5. ContentOf(f, r) = <<r[f]>>
    BY FileContents
  <2> QED
    BY <1>1, <2>1, <2>3, <2>4, <2>5
<1>3. \A f \in SourceFiles : <<c[f]>> = <<r[f]>>
  BY <1>2
<1>4. \A f \in SourceFiles : c[f] = r[f]
  BY <1>3
<1> QED
  BY <1>4 DEF Reads

LEMMA StagedIsExpected ==
  ASSUME NEW p \in Publishers, tree[p] = Opened
  PROVE  Staged(p, Len(WriteOrder)) = SealedAs(p)
<1> DEFINE files == {WriteOrder[i] : i \in 1..Len(WriteOrder)}
<1>1. files = AllowedFiles
  <2>1. /\ Len(WriteOrder) = 9
        /\ WriteOrder[1] = Fixture /\ WriteOrder[2] = Items /\ WriteOrder[3] = Scoring
        /\ WriteOrder[4] = RunConformance /\ WriteOrder[5] = ItemSchema
        /\ WriteOrder[6] = PackageSchema /\ WriteOrder[7] = ResultSchema
        /\ WriteOrder[8] = Checksums /\ WriteOrder[9] = Manifest
    BY DEF WriteOrder
  <2>2. \A i \in 1..9 : \/ i = 1 \/ i = 2 \/ i = 3 \/ i = 4 \/ i = 5 \/ i = 6
                          \/ i = 7 \/ i = 8 \/ i = 9
    OBVIOUS
  <2>3. \A i \in 1..9 : WriteOrder[i] \in AllowedFiles
    BY <2>1, <2>2, PathFacts DEF SourceFiles
  <2>4. \A f \in AllowedFiles : \E i \in 1..9 : WriteOrder[i] = f
    <3>1. /\ 1 \in 1..9 /\ 2 \in 1..9 /\ 3 \in 1..9 /\ 4 \in 1..9 /\ 5 \in 1..9
          /\ 6 \in 1..9 /\ 7 \in 1..9 /\ 8 \in 1..9 /\ 9 \in 1..9
      OBVIOUS
    <3> QED
      BY <2>1, <3>1, PathFacts DEF SourceFiles
  <2> QED
    BY <2>1, <2>3, <2>4
<1>2. \A d \in ExpectedDirectories : d # Root /\ \E f \in files : ParentOf(f) = d
  BY <1>1, PathFacts DEF ExpectedDirectories
<1>3. \A f \in AllowedFiles : ParentOf(f) \in ExpectedDirectories \cup {Root}
  BY DEF ExpectedDirectories
<1> DEFINE staged == [q \in Paths |->
        CASE q = RunConformance /\ q \in files -> Entry("file", "executable", ContentOf(q, collected[p]))
          [] q \in files \ {RunConformance} -> Entry("file", "plain", ContentOf(q, collected[p]))
          [] q # Root /\ \E f \in files : ParentOf(f) = q -> Entry("directory", "executable", <<>>)
          [] OTHER -> tree[p][q]]
<1>4. Staged(p, Len(WriteOrder)) = staged
  BY DEF Staged
<1> HIDE DEF files
<1>5. ASSUME NEW q \in AllowedFiles
      PROVE  staged[q] = Entry("file", ExpectedMode(q), ContentOf(q, collected[p]))
  <2>1. q \in Paths /\ q \in files /\ \A f \in files : ParentOf(f) # q
    BY <1>1, <1>3, PathFacts
  <2>2. CASE q = RunConformance
    <3>1. staged[q] = Entry("file", "executable", ContentOf(q, collected[p]))
      BY <2>1, <2>2
    <3>2. ExpectedMode(q) = "executable"
      BY <2>2 DEF ExpectedMode
    <3> QED
      BY <3>1, <3>2
  <2>3. CASE q # RunConformance
    <3>1. staged[q] = Entry("file", "plain", ContentOf(q, collected[p]))
      BY <2>1, <2>3
    <3>2. ExpectedMode(q) = "plain"
      BY <2>3 DEF ExpectedMode
    <3> QED
      BY <3>1, <3>2
  <2> QED
    BY <2>2, <2>3
<1>6. \A d \in ExpectedDirectories : staged[d] = Entry("directory", "executable", <<>>)
  <2>1. ASSUME NEW d \in ExpectedDirectories
        PROVE  staged[d] = Entry("directory", "executable", <<>>)
    <3>1. d \in Paths /\ d \notin AllowedFiles /\ RunConformance \in AllowedFiles
      BY PathFacts
    <3> QED
      BY <1>1, <1>2, <3>1
  <2> QED
    BY <2>1
<1>7. staged[Root] = Entry("directory", "private", <<>>) /\ staged[Extra] = Missing
  BY <1>1, <1>3, PathFacts DEF Opened, NoTree
<1>8. /\ DOMAIN SealedAs(p) = Paths
      /\ SealedAs(p)[Root] = Entry("directory", "private", <<>>)
      /\ \A q \in Paths \ {Root} : SealedAs(p)[q] = ExpectedTree(collected[p])[q]
  BY ExpectedEntries, PathFacts DEF SealedAs
<1> HIDE DEF staged
<1>9. ASSUME NEW q \in Paths PROVE staged[q] = SealedAs(p)[q]
  <2>1. CASE q \in AllowedFiles
    BY <1>5, <1>8, <2>1, ExpectedEntries, PathFacts
  <2>2. CASE q \in ExpectedDirectories
    BY <1>6, <1>8, <2>2, ExpectedEntries, PathFacts
  <2>3. CASE q = Root
    BY <1>7, <1>8, <2>3
  <2>4. CASE q = Extra
    BY <1>7, <1>8, <2>4, ExpectedEntries, PathFacts
  <2> QED
    BY <2>1, <2>2, <2>3, <2>4, PathFacts
<1>10. /\ SealedAs(p) = [q \in Paths |-> SealedAs(p)[q]]
       /\ staged = [q \in Paths |-> staged[q]]
  BY ExpectedEntries DEF SealedAs, staged
<1> QED
  BY <1>4, <1>9, <1>10

LEMMA SealedIsExpected ==
  ASSUME NEW p \in Publishers, tree[p] = SealedAs(p), DOMAIN tree = Publishers,
         tree' = [tree EXCEPT ![p][Root].mode = "executable"]
  PROVE  tree'[p] = ExpectedTree(collected[p])
<1> DEFINE t == ExpectedTree(collected[p])
           private_root == Entry("directory", "private", <<>>)
<1>1. /\ DOMAIN t = Paths /\ t[Root] = Entry("directory", "executable", <<>>)
      /\ t = [q \in Paths |-> t[q]] /\ Root \in Paths
  BY ExpectedEntries, PathFacts DEF ExpectedTree
<1>2. tree[p] = [t EXCEPT ![Root] = private_root]
  BY DEF SealedAs
<1>3. tree'[p] = [tree[p] EXCEPT ![Root].mode = "executable"]
  OBVIOUS
<1>4. [private_root EXCEPT !.mode = "executable"] = Entry("directory", "executable", <<>>)
  BY DEF Entry
<1> HIDE DEF t, private_root
<1>5. tree[p][Root] = private_root /\ DOMAIN tree[p] = Paths
  BY <1>1, <1>2
<1>6. tree'[p] = [t EXCEPT ![Root] = Entry("directory", "executable", <<>>)]
  BY <1>1, <1>2, <1>3, <1>4, <1>5
<1> QED
  BY <1>1, <1>6 DEF t

(* The steps of one pass and then of the other.                            *)
LEMMA CollectReads ==
  ASSUME SourcesFit, NEW p \in Publishers, Collect(p), pc \in [Commands -> Labels]
  PROVE  /\ collected' \in [Publishers -> Reads]
         /\ \A q \in Publishers \ {p} : collected'[q] = collected[q]
         /\ pc'[p] = "mkdir" => /\ Complete(collected'[p])
                               /\ \/ collected'[p] = source
                                  \/ \E f \in SourceFiles : source[f] # collected'[p][f]
<1>1. /\ source \in [SourceFiles -> Versions] /\ p \in Commands
      /\ collected \in [Publishers -> Reads] /\ collected[p] \in Reads
      /\ \A v \in Versions : v \in Nat \ {0}
  BY SourceAssumption DEF SourcesFit, Commands
<1>2. PICK i \in 1..6 : /\ ReadsNext(collected[p], i)
                        /\ collected' = [collected EXCEPT ![p][ReadOrder[i]] = source[ReadOrder[i]]]
                        /\ pc'[p] = AfterReading(i, "read", "raised", "mkdir")
  BY <1>1, ReadFacts DEF Collect, Go
<1> DEFINE c == [collected[p] EXCEPT ![ReadOrder[i]] = source[ReadOrder[i]]]
<1>3. ReadOrder[i] \in SourceFiles
  BY ReadFacts
<1>4. c \in Reads /\ c[ReadOrder[i]] = source[ReadOrder[i]]
      /\ \A f \in SourceFiles \ {ReadOrder[i]} : c[f] = collected[p][f]
  BY <1>1, <1>3 DEF Reads
<1>5. collected' = [collected EXCEPT ![p] = c]
  BY <1>2
<1> HIDE DEF c
<1>6. /\ collected' \in [Publishers -> Reads] /\ collected'[p] = c
      /\ \A q \in Publishers \ {p} : collected'[q] = collected[q]
  BY <1>1, <1>4, <1>5
<1>7. ASSUME pc'[p] = "mkdir" PROVE Complete(c)
  <2>1. i = 6
    BY <1>2, <1>7, ReadFacts DEF AfterReading
  <2>2. \A j \in 1..5 : collected[p][ReadOrder[j]] # 0
    BY <1>2, <2>1 DEF ReadsNext
  <2>3. source[ReadOrder[i]] # 0
    BY <1>1, <1>3
  <2>4. \A j \in 1..6 : c[ReadOrder[j]] # 0
    <3>1. ASSUME NEW j \in 1..6 PROVE c[ReadOrder[j]] # 0
      <4>1. ReadOrder[j] \in SourceFiles /\ (j = 6 \/ j \in 1..5)
        BY ReadFacts
      <4> QED
        BY <1>4, <2>1, <2>2, <2>3, <4>1
    <3> QED
      BY <3>1
  <2> QED
    BY <2>4, ReadFacts DEF Complete
<1>8. c = source \/ \E f \in SourceFiles : source[f] # c[f]
  BY <1>1, <1>4 DEF Reads
<1> QED
  BY <1>6, <1>7, <1>8

LEMMA CheckReads ==
  ASSUME SourcesFit, NEW p \in Publishers, SelfCheck(p)
  PROVE  /\ recheck' \in [Publishers -> Reads]
         /\ \A q \in Publishers \ {p} : recheck'[q] = recheck[q]
         /\ \A f \in SourceFiles : \/ recheck'[p][f] = recheck[p][f]
                                   \/ recheck[p][f] = 0 /\ recheck'[p][f] = source[f]
<1>1. /\ source \in [SourceFiles -> Versions]
      /\ recheck \in [Publishers -> Reads] /\ recheck[p] \in Reads
  BY DEF SourcesFit
<1>2. PICK i \in 1..6 : /\ ReadsNext(recheck[p], i)
                        /\ recheck' = [recheck EXCEPT ![p][ReadOrder[i]] = source[ReadOrder[i]]]
  BY ReadFacts DEF SelfCheck
<1> DEFINE c == [recheck[p] EXCEPT ![ReadOrder[i]] = source[ReadOrder[i]]]
<1>3. ReadOrder[i] \in SourceFiles /\ recheck[p][ReadOrder[i]] = 0
  BY <1>2, ReadFacts DEF ReadsNext
<1>4. c \in Reads /\ c[ReadOrder[i]] = source[ReadOrder[i]]
      /\ \A f \in SourceFiles \ {ReadOrder[i]} : c[f] = recheck[p][f]
  BY <1>1, <1>3 DEF Reads
<1>5. recheck' = [recheck EXCEPT ![p] = c]
  BY <1>2
<1> HIDE DEF c
<1> QED
  BY <1>1, <1>3, <1>4, <1>5

(* Reading a file again does not hide that it is outdated, and the check   *)
(* of what was staged finds it.                                            *)
LEMMA OutdatedIsFound ==
  ASSUME SourcesFit, NEW p \in Publishers, SelfCheck(p), collected' = collected,
         source' = source, NEW f \in SourceFiles, Outdated(p, f), Complete(collected[p])
  PROVE  Outdated(p, f)' /\ recheck'[p] # collected[p]
<1>1. source[f] \in Versions /\ \A v \in Versions : v # 0
  BY SourceAssumption DEF SourcesFit
<1>2. Outdated(p, f)'
  BY <1>1, CheckReads DEF Outdated
<1>3. collected[p][f] # 0
  BY DEF Complete
<1> QED
  BY <1>2, <1>3 DEF Outdated

LEMMA SameReads ==
  ASSUME NEW p \in Publishers, ReadsFit(p), UNCHANGED <<source, stood, restored>>,
         collected'[p] = collected[p], recheck'[p] = recheck[p], tree'[p] = tree[p],
         pc'[p] = pc[p], p \in Packages' => p \in Packages
  PROVE  ReadsFit(p)'
BY DEF ReadsFit, Stood, SealedAs, AtOnce, Outdated

LEMMA PublisherReads ==
  ASSUME PubInv, TreesFit, SourcesFit, NEW p \in Publishers, PublisherStep(p),
         p \in Packages' => p \in Packages \/ Publish(p)
  PROVE  ReadsFit(p)'
<1>1. /\ p \in Commands /\ DOMAIN pc = Commands /\ ReadsFit(p)
      /\ DOMAIN tree = Publishers /\ TreeFits(p) /\ pc \in [Commands -> Labels]
      /\ collected[p] \in Reads /\ recheck[p] \in Reads
  BY DEF PubInv, PubType, Commands, TreesFit, SourcesFit
<1>2. UNCHANGED <<source, stood, restored>>
  BY DEF packageVars, readings, PublisherStep, OpenPackageParent, EnsureAbsent, Collect,
     CreateStaging, RetainStaging, StageFiles, Seal, SelfCheck, RevalidateBefore,
     IdentifyStaging, Publish, CheckPublished, RevalidateAfter, PublisherFails,
     IdentifyForCleanup, RemoveContents, LookAgain, RemoveStaging, CleanupFails
<1>3. pc[p] \notin Over /\ pc[p] # "rename" => p \notin Packages'
  BY <1>1 DEF ReadsFit, Publish
<1>4. collected'[p] = collected[p] => (AtOnce(p)' <=> AtOnce(p))
  BY <1>2 DEF AtOnce
<1>5. collected'[p] = collected[p] /\ recheck'[p] = recheck[p] =>
        \A f \in SourceFiles : Outdated(p, f)' <=> Outdated(p, f)
  BY <1>2 DEF Outdated
<1> USE <1>1 DEF Go
<1>6. CASE OpenPackageParent(p) \/ EnsureAbsent(p)
  <2>1. /\ UNCHANGED <<collected, recheck, tree>> /\ pc[p] \in {"start", "absence"}
        /\ pc'[p] \in {"raised", "absence", "read"}
    BY <1>6 DEF OpenPackageParent, EnsureAbsent, packageVars, readings
  <2> QED
    BY <1>3, <2>1 DEF ReadsFit, Unstaged, Collecting, Agreed, Over
<1>7. CASE Collect(p)
  <2>1. /\ UNCHANGED <<recheck, tree>> /\ pc[p] = "read"
        /\ pc'[p] \in {"read", "mkdir", "raised"}
    BY <1>7 DEF Collect, AfterReading
  <2>2. pc'[p] = "mkdir" => /\ Complete(collected'[p])
                            /\ \/ collected'[p] = source
                               \/ \E f \in SourceFiles : source[f] # collected'[p][f]
    BY <1>7, CollectReads
  <2>3. recheck'[p] = Unread /\ source' \in stood'
    BY <1>2, <2>1 DEF ReadsFit, Unstaged, SourcesFit
  <2>4. pc'[p] = "mkdir" => AtOnce(p)' \/ \E f \in SourceFiles : Outdated(p, f)'
    <3>1. CASE collected'[p] = source
      BY <1>2, <2>3, <3>1 DEF AtOnce
    <3>2. ASSUME NEW f \in SourceFiles, source[f] # collected'[p][f] PROVE Outdated(p, f)'
      BY <1>2, <2>3, <3>2 DEF Outdated, Unread
    <3> QED
      BY <2>2, <3>1, <3>2
  <2> QED
    BY <1>3, <2>1, <2>2, <2>3, <2>4 DEF ReadsFit, Unstaged, Collecting, Agreed, Over
<1>8. CASE CreateStaging(p) \/ RetainStaging(p)
  <2>1. /\ UNCHANGED <<collected, recheck>> /\ pc[p] \in {"mkdir", "retain"}
        /\ pc'[p] \in {"retain", "stage", "clean", "uncleaned"}
    BY <1>8 DEF CreateStaging, RetainStaging, packageVars, readings
  <2>2. Complete(collected'[p]) /\ (AtOnce(p)' \/ \E f \in SourceFiles : Outdated(p, f)')
    BY <1>4, <1>5, <2>1 DEF ReadsFit, Collecting
  <2> QED
    BY <1>3, <2>1, <2>2 DEF ReadsFit, Unstaged, Collecting, Agreed, Over
<1>9. CASE StageFiles(p)
  <2>1. UNCHANGED <<collected, recheck>> /\ pc[p] = "stage"
    BY <1>9 DEF StageFiles, readings
  <2>2. PICK n \in 0..Len(WriteOrder) :
          /\ tree' = [tree EXCEPT ![p] = Staged(p, n)]
          /\ pc'[p] = IF n = Len(WriteOrder) THEN "seal" ELSE "clean"
    BY <1>9 DEF StageFiles
  <2>3. Complete(collected'[p]) /\ (AtOnce(p)' \/ \E f \in SourceFiles : Outdated(p, f)')
    BY <1>4, <1>5, <2>1 DEF ReadsFit, Collecting
  <2>4. CASE n = Len(WriteOrder)
    <3>1. tree'[p] = SealedAs(p)
      BY <2>1, <2>2, <2>4, StagedIsExpected DEF TreeFits
    <3>2. tree'[p] = SealedAs(p)' /\ pc'[p] = "seal"
      BY <2>1, <2>2, <2>4, <3>1 DEF SealedAs
    <3> QED
      BY <1>3, <2>1, <2>3, <3>2 DEF ReadsFit, Unstaged, Collecting, Agreed, Over
  <2>5. CASE n # Len(WriteOrder)
    <3>1. pc'[p] = "clean"
      BY <2>2, <2>5
    <3> QED
      BY <1>3, <2>1, <3>1 DEF ReadsFit, Unstaged, Collecting, Agreed, Over
  <2> QED
    BY <2>4, <2>5
<1>10. CASE Seal(p)
  <2>1. /\ UNCHANGED <<collected, recheck>>
        /\ pc[p] = "seal" /\ pc'[p] = "recheck"
        /\ tree' = [tree EXCEPT ![p][Root].mode = "executable"]
    BY <1>10 DEF Seal, readings
  <2>2. tree'[p] = ExpectedTree(collected[p])
    BY <2>1, SealedIsExpected DEF ReadsFit
  <2>3. tree'[p] = ExpectedTree(collected'[p])
    BY <2>1, <2>2
  <2>4. Complete(collected'[p]) /\ (AtOnce(p)' \/ \E f \in SourceFiles : Outdated(p, f)')
    BY <1>4, <1>5, <2>1 DEF ReadsFit, Collecting
  <2> QED
    BY <1>3, <2>1, <2>3, <2>4 DEF ReadsFit, Unstaged, Collecting, Agreed, Over
<1>11. CASE SelfCheck(p)
  <2>1. /\ UNCHANGED <<collected, tree>> /\ pc[p] = "recheck"
        /\ pc'[p] \in {"recheck", "revalidate", "clean"}
        /\ pc'[p] = "revalidate" => CheckPackage(tree[p], recheck'[p])
    BY <1>11 DEF SelfCheck, AfterReading
  <2>2. /\ Complete(collected[p]) /\ tree[p] = ExpectedTree(collected[p])
        /\ AtOnce(p) \/ \E f \in SourceFiles : Outdated(p, f)
    BY <2>1 DEF ReadsFit, Collecting
  <2>3. recheck'[p] \in Reads
    BY <1>11, CheckReads
  <2>4. pc'[p] = "revalidate" => collected[p] = recheck'[p]
    BY <2>1, <2>2, <2>3, ReadAgain
  <2>5. ASSUME NEW f \in SourceFiles, Outdated(p, f)
        PROVE  Outdated(p, f)' /\ recheck'[p] # collected[p]
    BY <1>2, <1>11, <2>1, <2>2, <2>5, OutdatedIsFound
  <2>6. AtOnce(p)' \/ \E f \in SourceFiles : Outdated(p, f)'
    BY <1>4, <2>1, <2>2, <2>5
  <2>7. pc'[p] = "revalidate" => AtOnce(p)'
    BY <1>4, <2>1, <2>2, <2>4, <2>5
  <2>8. Complete(collected'[p]) /\ tree'[p] = ExpectedTree(collected'[p])
    BY <2>1, <2>2
  <2>9. pc'[p] = "revalidate" => Stood(p)'
    BY <2>7, <2>8 DEF Stood
  <2> QED
    BY <1>3, <2>1, <2>6, <2>8, <2>9 DEF ReadsFit, Unstaged, Collecting, Agreed, Over
<1>12. CASE RevalidateBefore(p) \/ IdentifyStaging(p)
  <2>1. /\ UNCHANGED <<collected, recheck, tree>> /\ pc[p] \in {"revalidate", "identify"}
        /\ pc'[p] \in {"identify", "rename", "clean"}
    BY <1>12 DEF RevalidateBefore, IdentifyStaging, packageVars, readings
  <2>2. Stood(p)'
    BY <1>4, <2>1 DEF ReadsFit, Agreed, Stood
  <2> QED
    BY <1>3, <2>1, <2>2 DEF ReadsFit, Unstaged, Collecting, Agreed, Over
<1>13. CASE Publish(p)
  <2>1. /\ UNCHANGED <<collected, recheck, tree>> /\ pc[p] = "rename"
        /\ pc'[p] \in {"published", "clean"}
        /\ pc'[p] = "clean" => UNCHANGED <<package, image>>
    BY <1>13 DEF Publish, packageVars, readings
  <2>2. p \notin Packages /\ Stood(p)
    BY <2>1 DEF ReadsFit, Agreed, Over
  <2>3. Stood(p)'
    BY <1>4, <2>1, <2>2 DEF Stood
  <2>4. pc'[p] = "clean" => p \notin Packages'
    BY <2>1, <2>2 DEF Packages
  <2> QED
    BY <2>1, <2>3, <2>4 DEF ReadsFit, Unstaged, Collecting, Agreed, Over
<1>14. CASE CheckPublished(p) \/ RevalidateAfter(p)
  <2>1. /\ UNCHANGED <<collected, recheck, tree, package, image>>
        /\ pc[p] \in {"published", "revalidate after"}
        /\ pc'[p] \in {"revalidate after", "returned", "raised"}
    BY <1>14 DEF CheckPublished, RevalidateAfter, packageVars, readings
  <2>2. p \in Packages' => Stood(p)'
    BY <1>4, <2>1 DEF ReadsFit, Packages, Stood
  <2> QED
    BY <2>1, <2>2 DEF ReadsFit, Unstaged, Collecting, Agreed, Over
<1>15. CASE PublisherFails(p)
  <2>1. /\ UNCHANGED <<collected, recheck, tree, package, image>>
        /\ pc'[p] \in {"raised", "clean"}
        /\ pc'[p] = "clean" => pc[p] \notin Over
    BY <1>15 DEF PublisherFails, packageVars, readings, Over
  <2>2. p \in Packages' => Stood(p)' /\ pc[p] \in Over
    BY <1>4, <2>1 DEF ReadsFit, Packages, Stood
  <2> QED
    BY <2>1, <2>2 DEF ReadsFit, Unstaged, Collecting, Agreed, Over
<1>16. CASE \/ IdentifyForCleanup(p) \/ RemoveContents(p) \/ LookAgain(p)
            \/ RemoveStaging(p) \/ CleanupFails(p)
  <2>1. /\ UNCHANGED <<collected, recheck>> /\ pc[p] \in {"clean", "empty", "remove", "rmdir"}
        /\ pc'[p] \in {"empty", "remove", "rmdir", "raised", "uncleaned"}
    BY <1>16 DEF IdentifyForCleanup, RemoveContents, LookAgain, RemoveStaging, CleanupFails,
       packageVars, readings
  <2> QED
    BY <1>3, <2>1 DEF ReadsFit, Unstaged, Collecting, Agreed, Over
<1> QED
  BY <1>6, <1>7, <1>8, <1>9, <1>10, <1>11, <1>12, <1>13, <1>14, <1>15, <1>16 DEF PublisherStep

LEMMA PublisherReadsFrame ==
  ASSUME SourcesFit, pc \in [Commands -> Labels], NEW p \in Publishers, PublisherStep(p)
  PROVE  /\ UNCHANGED <<source, stood, restored>>
         /\ collected' \in [Publishers -> Reads] /\ recheck' \in [Publishers -> Reads]
         /\ \A q \in Publishers \ {p} :
              collected'[q] = collected[q] /\ recheck'[q] = recheck[q]
<1> USE DEF packageVars, readings
<1>1. collected \in [Publishers -> Reads] /\ recheck \in [Publishers -> Reads]
  BY DEF SourcesFit
<1>2. CASE Collect(p)
  BY <1>1, <1>2, CollectReads DEF Collect
<1>3. CASE SelfCheck(p)
  BY <1>1, <1>3, CheckReads DEF SelfCheck
<1> QED
  BY <1>1, <1>2, <1>3 DEF PublisherStep, OpenPackageParent, EnsureAbsent, CreateStaging,
     RetainStaging, StageFiles, Seal, RevalidateBefore, IdentifyStaging, Publish,
     CheckPublished, RevalidateAfter, PublisherFails, IdentifyForCleanup, RemoveContents,
     LookAgain, RemoveStaging, CleanupFails

(* An edit that gives a file back the version that was read is remembered. *)
LEMMA EditKeepsReads ==
  ASSUME SourcesFit, EditSource, \A p \in Publishers : p \in Packages' => p \in Packages
  PROVE  SourcesFit'
<1>1. PICK f \in SourceFiles, v \in Versions :
        /\ source' = [source EXCEPT ![f] = v]
        /\ restored' = restored \cup
             {p \in Publishers : ReadOnce(p, f) /\ collected[p][f] = v}
  BY SourceAssumption DEF EditSource
<1>2. UNCHANGED <<pc, collected, recheck, tree>> /\ stood' = stood \cup {source'}
  BY DEF EditSource
<1>3. source' \in [SourceFiles -> Versions] /\ source' \in stood'
      /\ source'[f] = v /\ \A g \in SourceFiles \ {f} : source'[g] = source[g]
  BY <1>1, <1>2 DEF SourcesFit
<1>4. ASSUME NEW p \in Publishers PROVE ReadsFit(p)'
  <2>1. ReadsFit(p)
    BY DEF SourcesFit
  <2>2. AtOnce(p) => AtOnce(p)'
    BY <1>1, <1>2 DEF AtOnce
  <2>3. Stood(p) => Stood(p)'
    BY <1>2, <2>2 DEF Stood
  <2>4. SealedAs(p)' = SealedAs(p)
    BY <1>2 DEF SealedAs
  <2>5. ASSUME NEW g \in SourceFiles, Outdated(p, g), Complete(collected[p])
        PROVE  AtOnce(p)' \/ Outdated(p, g)'
    <3>1. CASE g # f
      BY <1>2, <1>3, <2>5, <3>1 DEF Outdated
    <3>2. CASE g = f /\ recheck[p][f] = 0 /\ collected[p][f] = v
      <4>1. ReadOnce(p, f)
        BY <2>5, <3>2 DEF ReadOnce, Complete
      <4> QED
        BY <1>1, <3>2, <4>1 DEF AtOnce
    <3>3. CASE g = f /\ ~(recheck[p][f] = 0 /\ collected[p][f] = v)
      BY <1>2, <1>3, <2>5, <3>3 DEF Outdated
    <3> QED
      BY <3>1, <3>2, <3>3
  <2> QED
    BY <1>2, <2>1, <2>2, <2>3, <2>4, <2>5 DEF ReadsFit
<1>5. collected' \in [Publishers -> Reads] /\ recheck' \in [Publishers -> Reads]
  BY <1>2 DEF SourcesFit
<1> QED
  BY <1>3, <1>4, <1>5 DEF SourcesFit

LEMMA NextReads ==
  ASSUME PubInv, TreesFit, SourcesFit, [Next]_vars
  PROVE  SourcesFit'
<1>1. /\ PubType /\ DOMAIN pc = Commands /\ Publishers \subseteq Commands
      /\ \A p \in Publishers : p \notin Writers
  BY ParentAssumption DEF PubInv, PubType, Commands
<1>2. \A p \in Publishers : p \in Packages' => p \in Packages \/ Publish(p)
  BY PackageSteps
<1>3. \A p \in Publishers : Publish(p) => pc'[p] \notin {pc[p], "dead", "absent"}
  BY <1>1 DEF Publish, Go
<1>4. ASSUME UNCHANGED packageVars, \A p \in Publishers : pc'[p] = pc[p]
      PROVE  SourcesFit'
  <2>1. \A p \in Publishers : p \in Packages' => p \in Packages
    BY <1>2, <1>3, <1>4
  <2>2. \A p \in Publishers : ReadsFit(p)'
    BY <1>4, <2>1, SameReads DEF SourcesFit, packageVars, readings
  <2> QED
    BY <1>4, <2>2 DEF SourcesFit, packageVars, readings
<1>5. ASSUME UNCHANGED packageVars,
             \A p \in Publishers : pc'[p] \in {pc[p], "dead"}
                                   \/ (pc'[p] = "absent" /\ pc[p] = "absent")
      PROVE  SourcesFit'
  <2>1. \A p \in Publishers : p \in Packages' => p \in Packages
    BY <1>2, <1>3, <1>5
  <2>2. ASSUME NEW p \in Publishers PROVE ReadsFit(p)'
    <3>1. CASE pc'[p] = pc[p]
      BY <1>5, <2>1, <3>1, SameReads DEF SourcesFit, packageVars, readings
    <3>2. CASE pc'[p] = "dead"
      <4>1. ReadsFit(p) /\ UNCHANGED <<source, stood, restored, tree, collected>>
        BY <1>5 DEF SourcesFit, packageVars, readings
      <4>2. p \in Packages' => Stood(p)'
        BY <2>1, <4>1 DEF ReadsFit, Stood, AtOnce
      <4> QED
        BY <3>2, <4>1, <4>2 DEF ReadsFit, Unstaged, Collecting, Agreed, Over
    <3> QED
      BY <1>5, <3>1, <3>2
  <2> QED
    BY <1>5, <2>2 DEF SourcesFit, packageVars, readings
<1>6. ASSUME NEW w \in Writers, WriterStep(w), UNCHANGED packageVars
      PROVE  SourcesFit'
  <2>1. \A p \in Publishers : pc'[p] = pc[p]
    BY <1>1, <1>6, WriterAlone DEF OthersStay
  <2> QED
    BY <1>4, <1>6, <2>1
<1>7. ASSUME NEW p \in Publishers, PublisherStep(p)
      PROVE  SourcesFit'
  <2>1. \A q \in Publishers \ {p} : pc'[q] = pc[q]
    BY <1>1, <1>7, PublisherAlone DEF OthersStay
  <2>2. \A q \in Publishers \ {p} : tree'[q] = tree[q]
    BY <1>7, PublisherTreeFrame
  <2>3. /\ UNCHANGED <<source, stood, restored>>
        /\ collected' \in [Publishers -> Reads] /\ recheck' \in [Publishers -> Reads]
        /\ \A q \in Publishers \ {p} :
             collected'[q] = collected[q] /\ recheck'[q] = recheck[q]
    BY <1>1, <1>7, PublisherReadsFrame DEF PubType
  <2>4. ReadsFit(p)'
    BY <1>2, <1>7, PublisherReads
  <2>5. \A q \in Publishers \ {p} : q \in Packages' => q \in Packages
    BY <1>2, <1>3, <2>1
  <2>6. \A q \in Publishers \ {p} : ReadsFit(q)'
    BY <2>1, <2>2, <2>3, <2>5, SameReads DEF SourcesFit
  <2> QED
    BY <2>3, <2>4, <2>6 DEF SourcesFit
<1>8. CASE EditSource
  <2>1. \A p \in Publishers : p \in Packages' => p \in Packages
    BY <1>2, <1>3, <1>8 DEF EditSource
  <2> QED
    BY <1>8, <2>1, EditKeepsReads
<1>9. ASSUME Somebody, UNCHANGED packageVars
      PROVE  SourcesFit'
  <2>1. \A p \in Publishers : pc'[p] \in {pc[p], "dead"}
                              \/ (pc'[p] = "absent" /\ pc[p] = "absent")
    BY <1>1, <1>9 DEF Somebody, SwapParent, TouchOutput, TakePackage, SwapPrivate, Kill, Go,
       MachineCrash
  <2> QED
    BY <1>5, <1>9, <2>1
<1>10. CASE UNCHANGED vars
  BY <1>4, <1>10 DEF vars, parentVars
<1> QED
  BY <1>6, <1>7, <1>8, <1>9, <1>10 DEF Next

(* The files of a published package stood in the repository at one moment, *)
(* unless one of them was edited and edited back between its two reads:    *)
(* the self-check reads them again (platform_package_v0_2.py:1610).        *)
THEOREM PackageCoexistedProved == Spec => []PackageCoexisted
<1>1. Init => SourcesFit
  <2> SUFFICES ASSUME Init PROVE SourcesFit
    OBVIOUS
  <2>1. \A p \in Publishers : pc[p] \in {"absent", "start"}
    <3>1. PICK live \in Together :
            pc = [c \in Commands |-> IF c \in live THEN "start" ELSE "absent"]
      BY DEF Init, ParentInit
    <3> QED
      BY <3>1 DEF Commands
  <2>2. /\ source \in [SourceFiles -> Versions] /\ source \in stood
        /\ collected \in [Publishers -> Reads] /\ recheck \in [Publishers -> Reads]
        /\ \A p \in Publishers : recheck[p] = Unread
    BY SourceAssumption DEF Init, PackageInit, Reads, Unread
  <2>4. \A p \in Publishers : p \notin Packages
    <3>1. \A d \in Dirs : package[d] = NoEntry /\ image[d].package = {NoEntry}
      BY DEF Init, ParentInit
    <3>2. \A p \in Publishers : p # NoEntry
      BY InodeFacts DEF Inodes, Commands
    <3> QED
      BY <3>1, <3>2 DEF Packages
  <2>5. \A p \in Publishers : ReadsFit(p)
    BY <2>1, <2>2, <2>4 DEF ReadsFit, Collecting, Agreed, Over
  <2> QED
    BY <2>2, <2>5 DEF SourcesFit
<1>2. FailureInv /\ SourcesFit /\ [Next]_vars => SourcesFit'
  BY NextReads DEF FailureInv
<1>3. SourcesFit => PackageCoexisted
  BY DEF SourcesFit, ReadsFit, Stood, AtOnce, PackageCoexisted
<1> QED
  BY <1>1, <1>2, <1>3, FailureInvariant, PTL DEF Spec

-----------------------------------------------------------------------------
(* The check of a package accepts one tree.  A tree as os.scandir and      *)
(* os.stat show it: nothing has no attributes, a directory no content.     *)
TreeShape(t) ==
  /\ t = [q \in Paths |-> t[q]]
  /\ \A q \in Paths :
       /\ t[q] = [kind |-> t[q].kind, mode |-> t[q].mode, links |-> t[q].links,
                  content |-> t[q].content]
       /\ t[q].kind \in {"none", "directory", "link", "file"}
       /\ t[q].kind = "none" => t[q] = Missing
       /\ t[q].kind = "directory" => t[q].links = 1 /\ t[q].content = <<>>

LEMMA ModesOf ==
  /\ \A d \in ExpectedDirectories \cup {Root} : ExpectedMode(d) = "executable"
  /\ \A q \in Paths : ExpectedMode(q) \in {"plain", "executable"}
BY PathFacts DEF ExpectedMode

(* Of all trees, with any entries, modes, link counts and contents, the    *)
(* check accepts at most the one the sources ask for                       *)
(* (platform_package_v0_2.py:1485).                                        *)
THEOREM CheckedIsExpected ==
  ASSUME NEW s, NEW t, TreeShape(t), CheckPackage(t, s)
  PROVE  t = ExpectedTree(s)
<1>1. ~LayoutErrors(t) /\ ~FileErrors(t, s)
  BY DEF CheckPackage
<1>2. ASSUME NEW f \in AllowedFiles PROVE t[f] = ExpectedTree(s)[f]
  <2>1. t[f].kind = "file" /\ t[f].links = 1 /\ t[f].content = ContentOf(f, s)
    BY <1>1 DEF FileErrors, Readable
  <2>2. f \in Paths /\ f # Root
    BY PathFacts
  <2>3. f \in Present(t) \ {Root}
    BY <2>1, <2>2 DEF Present
  <2>4. t[f].mode = ExpectedMode(f)
    BY <1>1, <2>1, <2>3 DEF LayoutErrors
  <2> QED
    BY <2>1, <2>2, <2>4, ExpectedEntries DEF TreeShape, Entry
<1>3. ASSUME NEW d \in ExpectedDirectories \cup {Root} PROVE t[d] = ExpectedTree(s)[d]
  <2>1. d \in Paths /\ t[d].kind = "directory"
    BY <1>1, PathFacts DEF LayoutErrors
  <2>2. t[d].mode = "executable"
    <3>1. CASE d = Root
      BY <1>1, <3>1 DEF LayoutErrors
    <3>2. CASE d # Root
      <4>1. d \in Present(t) \ {Root}
        BY <2>1, <3>2 DEF Present
      <4>2. t[d].mode = ExpectedMode(d)
        BY <1>1, <2>1, <4>1 DEF LayoutErrors
      <4> QED
        BY <4>2, ModesOf
    <3> QED
      BY <3>1, <3>2
  <2>3. t[d].links = 1 /\ t[d].content = <<>>
    BY <2>1 DEF TreeShape
  <2> QED
    BY <2>1, <2>2, <2>3, ExpectedEntries DEF TreeShape, Entry
<1>4. t[Extra] = ExpectedTree(s)[Extra]
  <2>1. Extra \in Paths /\ Extra # Root /\ Extra \notin AllowedFiles \cup ExpectedDirectories
    BY PathFacts
  <2>2. t[Extra].kind \in {"none", "directory", "link", "file"}
    BY <2>1 DEF TreeShape
  <2>3. Extra \in Present(t) \ {Root} => t[Extra].kind \notin {"directory", "link", "file"}
    BY <1>1, <2>1 DEF LayoutErrors
  <2>4. t[Extra].kind = "none"
    BY <2>1, <2>2, <2>3 DEF Present
  <2> QED
    BY <2>1, <2>4, ExpectedEntries DEF TreeShape
<1>5. \A q \in Paths : t[q] = ExpectedTree(s)[q]
  BY <1>2, <1>3, <1>4, PathFacts
<1>6. ExpectedTree(s) = [q \in Paths |-> ExpectedTree(s)[q]]
  BY DEF ExpectedTree
<1> QED
  BY <1>5, <1>6 DEF TreeShape

LEMMA PackageSize ==
  Cardinality(AllowedFiles \cup ExpectedDirectories) \in Nat
<1>1. /\ IsFiniteSet({Fixture}) /\ IsFiniteSet({Items}) /\ IsFiniteSet({Scoring})
      /\ IsFiniteSet({ItemSchema}) /\ IsFiniteSet({PackageSchema}) /\ IsFiniteSet({ResultSchema})
      /\ IsFiniteSet({RunConformance}) /\ IsFiniteSet({Checksums}) /\ IsFiniteSet({Manifest})
      /\ IsFiniteSet({"conformance"}) /\ IsFiniteSet({"data"}) /\ IsFiniteSet({"kaggle"})
      /\ IsFiniteSet({"schemas"})
  BY FS_Singleton
<1>2. IsFiniteSet({Fixture} \cup {Items} \cup {Scoring} \cup {RunConformance})
  BY <1>1, FS_Union
<1>3. IsFiniteSet({ItemSchema} \cup {PackageSchema} \cup {ResultSchema} \cup {Checksums})
  BY <1>1, FS_Union
<1>4. IsFiniteSet({Manifest} \cup {"conformance"} \cup {"data"} \cup {"kaggle"} \cup {"schemas"})
  BY <1>1, FS_Union
<1>5. IsFiniteSet(AllowedFiles \cup ExpectedDirectories)
  <2>1. AllowedFiles \cup ExpectedDirectories
          = ({Fixture} \cup {Items} \cup {Scoring} \cup {RunConformance})
            \cup ({ItemSchema} \cup {PackageSchema} \cup {ResultSchema} \cup {Checksums})
            \cup ({Manifest} \cup {"conformance"} \cup {"data"} \cup {"kaggle"} \cup {"schemas"})
    BY PathFacts DEF SourceFiles
  <2> QED
    BY <1>2, <1>3, <1>4, <2>1, FS_Union
<1> QED
  BY <1>5, FS_CardinalityType

LEMMA ExpectedIsChecked ==
  ASSUME NEW s \in Reads
  PROVE  CheckPackage(ExpectedTree(s), s)
<1> DEFINE t == ExpectedTree(s)
<1> HIDE DEF t
<1>1. /\ \A f \in AllowedFiles : /\ t[f].kind = "file" /\ t[f].mode = ExpectedMode(f)
                                 /\ t[f].links = 1 /\ t[f].content = ContentOf(f, s)
      /\ \A d \in ExpectedDirectories \cup {Root} :
           t[d].kind = "directory" /\ t[d].mode = "executable"
      /\ t[Extra].kind = "none"
  <2>1. /\ \A f \in AllowedFiles : t[f] = Entry("file", ExpectedMode(f), ContentOf(f, s))
        /\ \A d \in ExpectedDirectories \cup {Root} : t[d] = Entry("directory", "executable", <<>>)
        /\ t[Extra] = Missing
    BY ExpectedEntries DEF t
  <2>2. ASSUME NEW f \in AllowedFiles
        PROVE  /\ t[f].kind = "file" /\ t[f].mode = ExpectedMode(f)
               /\ t[f].links = 1 /\ t[f].content = ContentOf(f, s)
    <3>1. t[f] = Entry("file", ExpectedMode(f), ContentOf(f, s))
      BY <2>1
    <3> QED
      BY <3>1 DEF Entry
  <2>3. ASSUME NEW d \in ExpectedDirectories \cup {Root}
        PROVE  t[d].kind = "directory" /\ t[d].mode = "executable"
    <3>1. t[d] = Entry("directory", "executable", <<>>)
      BY <2>1
    <3> QED
      BY <3>1 DEF Entry
  <2>4. t[Extra].kind = "none"
    BY <2>1 DEF Entry, Missing
  <2> QED
    BY <2>2, <2>3, <2>4
<1>2. Present(t) \ {Root} = AllowedFiles \cup ExpectedDirectories
  BY <1>1, PathFacts DEF Present
<1>3. ~(Cardinality(Present(t) \ {Root}) > Cardinality(AllowedFiles \cup ExpectedDirectories))
  BY <1>2, PackageSize
<1>4. ~LayoutErrors(t)
  <2>1. t[Root].kind = "directory" /\ t[Root].mode = "executable"
    BY <1>1
  <2>2. \A d \in ExpectedDirectories : t[d].kind = "directory" /\ t[d].mode = ExpectedMode(d)
    BY <1>1, ModesOf
  <2> QED
    BY <1>1, <1>2, <1>3, <2>1, <2>2 DEF LayoutErrors
<1>5. ASSUME NEW f \in AllowedFiles PROVE Readable(t, f) /\ f \in RegularFiles(t)
  <2>1. ParentOf(f) \in ExpectedDirectories \cup {Root}
    BY DEF ExpectedDirectories
  <2>2. ContentOf(f, s) # Longer
    <3>1. CASE f \in SourceFiles
      <4>1. s[f] \in Nat
        <5>1. s[f] \in {0} \cup Versions
          BY <3>1 DEF Reads
        <5>2. \A v \in Versions : v \in Nat
          BY SourceAssumption
        <5> QED
          BY <5>1, <5>2
      <4>2. ContentOf(f, s) = <<s[f]>>
        BY <3>1, FileContents
      <4> QED
        BY <4>1, <4>2 DEF Longer
    <3>2. CASE f = RunConformance
      BY <3>2, FileContents DEF Longer
    <3>3. CASE f \in {Checksums, Manifest}
      <4>1. ContentOf(f, s) = [i \in DOMAIN ReadOrder |-> s[ReadOrder[i]]]
        BY <3>3, FileContents
      <4>2. DOMAIN ContentOf(f, s) = 1..6 /\ DOMAIN Longer = 1..1
        BY <4>1, ReadFacts DEF Longer
      <4>3. 2 \in 1..6 /\ 2 \notin 1..1
        OBVIOUS
      <4> QED
        BY <4>2, <4>3
    <3> QED
      BY <3>1, <3>2, <3>3, PathFacts
  <2> QED
    BY <1>1, <2>1, <2>2 DEF Readable, RegularFiles
<1>6. ~FileErrors(t, s)
  BY <1>1, <1>5 DEF FileErrors
<1> QED
  BY <1>4, <1>6 DEF CheckPackage, t

(* The check accepts the tree that a command stages, and no other          *)
(* (platform_package_v0_2.py:1485).                                        *)
THEOREM CheckIsExactProved == Spec => []CheckIsExact
<1> DEFINE one == [f \in SourceFiles |-> 1]
           honest == StagedTree(one)
<1>1. one \in Reads
  BY SourceAssumption DEF Reads, Frozen
<1> HIDE DEF one
<1>2. honest = ExpectedTree(one)
  <2>1. \A q \in Paths : StagedTree(one)[q] = ExpectedTree(one)[q]
    <3>1. ASSUME NEW f \in AllowedFiles PROVE StagedTree(one)[f] = ExpectedTree(one)[f]
      <4>1. CASE f = RunConformance
        <5>1. ExpectedTree(one)[f] = Entry("file", "executable", <<0>>)
          BY <4>1, ExpectedEntries, FileContents DEF ExpectedMode
        <5>2. StagedTree(one)[f] = Entry("file", "executable", <<0>>)
          BY <4>1, PathFacts DEF StagedTree
        <5> QED
          BY <5>1, <5>2
      <4>2. CASE f # RunConformance
        <5>1. ExpectedTree(one)[f] = Entry("file", "plain", ContentOf(f, one))
          BY <4>2, ExpectedEntries DEF ExpectedMode
        <5>2. StagedTree(one)[f] = Entry("file", "plain", ContentOf(f, one))
          BY <4>2, PathFacts DEF StagedTree
        <5> QED
          BY <5>1, <5>2
      <4> QED
        BY <4>1, <4>2
    <3>2. ASSUME NEW d \in ExpectedDirectories \cup {Root}
          PROVE  StagedTree(one)[d] = ExpectedTree(one)[d]
      <4>1. StagedTree(one)[d] = Entry("directory", "executable", <<>>)
        BY PathFacts DEF StagedTree
      <4> QED
        BY <4>1, ExpectedEntries
    <3>3. StagedTree(one)[Extra] = ExpectedTree(one)[Extra]
      <4>1. StagedTree(one)[Extra] = Missing
        BY PathFacts DEF StagedTree
      <4> QED
        BY <4>1, ExpectedEntries
    <3> QED
      BY <3>1, <3>2, <3>3, PathFacts
  <2>2. /\ ExpectedTree(one) = [q \in Paths |-> ExpectedTree(one)[q]]
        /\ StagedTree(one) = [q \in Paths |-> StagedTree(one)[q]]
    BY DEF ExpectedTree, StagedTree
  <2> QED
    BY <2>1, <2>2
<1> DEFINE Proper(e) ==
             /\ e = [kind |-> e.kind, mode |-> e.mode, links |-> e.links, content |-> e.content]
             /\ e.kind \in {"none", "directory", "link", "file"}
             /\ e.kind = "none" => e = Missing
             /\ e.kind = "directory" => e.links = 1 /\ e.content = <<>>
<1>3. /\ \A e \in Entries : Proper(e)
      /\ \A mode, content : Proper(Entry("file", mode, content))
      /\ Proper(Entry("directory", "executable", <<>>)) /\ Proper(Missing)
  <2>1. Proper(Missing)
    BY DEF Entry, Missing
  <2>2. \A mode, content : Proper(Entry("file", mode, content))
    BY DEF Entry
  <2>3. \A kind \in {"directory", "link"} : \A mode : Proper(Entry(kind, mode, <<>>))
    BY DEF Entry
  <2>4. ASSUME NEW e \in Entries PROVE Proper(e)
    <3>1. CASE e = Missing
      BY <2>1, <3>1
    <3>2. CASE e \in {Entry(kind, mode, <<>>) : kind \in {"directory", "link"}, mode \in Modes}
      BY <2>3, <3>2
    <3>3. CASE \E mode, content : \E n \in {1, 2} :
                 e = [Entry("file", mode, content) EXCEPT !.links = n]
      <4>1. PICK mode, content :
              \E n \in {1, 2} : e = [Entry("file", mode, content) EXCEPT !.links = n]
        BY <3>3
      <4>2. PICK n \in {1, 2} : e = [Entry("file", mode, content) EXCEPT !.links = n]
        BY <4>1
      <4>3. e = [kind |-> "file", mode |-> mode, links |-> n, content |-> content]
        BY <4>2 DEF Entry
      <4> QED
        BY <4>3
    <3> QED
      BY <3>1, <3>2, <3>3 DEF Entries
  <2> QED
    BY <2>1, <2>2, <2>3, <2>4
<1> HIDE DEF Proper
<1>4. \A q \in Paths : Proper(honest[q])
  BY <1>2, <1>3, ExpectedEntries, PathFacts
<1>5. DOMAIN honest = Paths /\ honest = [q \in Paths |-> honest[q]]
  BY DEF StagedTree
<1> HIDE DEF honest
<1>6. ASSUME NEW q \in Paths, NEW r \in Paths, NEW a \in Entries, NEW b \in Entries
      PROVE  [honest EXCEPT ![q] = a, ![r] = b] # honest
               => ~CheckPackage([honest EXCEPT ![q] = a, ![r] = b], one)
  <2> DEFINE t == [honest EXCEPT ![q] = a, ![r] = b]
  <2>1. \A x \in Paths : t[x] = IF x = r THEN b ELSE IF x = q THEN a ELSE honest[x]
    BY <1>5
  <2>2. t = [x \in Paths |-> t[x]]
    BY <1>5
  <2> HIDE DEF t
  <2>3. \A x \in Paths : Proper(t[x])
    BY <1>3, <1>4, <2>1
  <2>4. TreeShape(t)
    BY <2>2, <2>3 DEF TreeShape, Proper
  <2>5. CheckPackage(t, one) => t = honest
    BY <1>2, <2>4, CheckedIsExpected
  <2> QED
    BY <2>5 DEF t
<1>7. CheckPackage(honest, one)
  BY <1>1, <1>2, ExpectedIsChecked
<1>8. ExactCheck
  BY <1>6, <1>7 DEF ExactCheck, honest, one
<1>9. CheckIsExact
  BY <1>8 DEF CheckIsExact
<1> QED
  BY <1>9, PTL

=============================================================================
