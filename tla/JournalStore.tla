----------------------------- MODULE JournalStore -----------------------------
(***************************************************************************)
(* The dispatch journal as a file: _write_initial_journal,                 *)
(* _replace_journal and _fsync_parent_directory of                         *)
(* bench/engine/kaggle_push_once.py, which both one-shot commands use.     *)
(*                                                                         *)
(* disk[p] is what a process sees at path p.  image[p] holds every content *)
(* the path may have after a machine-level crash: file data is durable     *)
(* once the file is synced, the directory entry once the directory is.     *)
(* The temporary file of _replace_journal is not modelled: it is synced    *)
(* before os.replace, has a name of its own, and no code reads it.         *)
(***************************************************************************)
CONSTANTS
  Paths,        \* journal paths
  FreshParent,  \* those whose directory mkdir(parents=True) has to create
  NoFile,       \* no directory entry
  Partial       \* an entry whose data was never completely written

ASSUME StoreAssumption == FreshParent \subseteq Paths /\ NoFile # Partial

VARIABLES disk, image

store == <<disk, image>>

StoreInit ==
  /\ disk = [p \in Paths |-> NoFile]
  /\ image = [p \in Paths |-> {NoFile}]

Exists(p) == disk[p] # NoFile

(* Mutated OpenExclusive: open("wb").                                      *)
OverwritingOpen(p) ==
  /\ disk' = [disk EXCEPT ![p] = Partial]
  /\ image' = [image EXCEPT ![p] = @ \cup {Partial}]

(* path.open("xb"): succeeds for one caller only, and the entry is not     *)
(* durable yet.                                                            *)
OpenExclusive(p) ==
  /\ ~Exists(p)
  /\ disk' = [disk EXCEPT ![p] = Partial]
  /\ image' = [image EXCEPT ![p] = @ \cup {Partial}]

(* handle.write, flush, fsync of the new file: if the entry survives, so   *)
(* does its data.                                                          *)
FillAndSync(p, journal) ==
  /\ disk' = [disk EXCEPT ![p] = journal]
  /\ image' = [image EXCEPT ![p] = (@ \ {Partial}) \cup {journal}]

(* The same calls interrupted by an I/O error: short data, or whole data   *)
(* that was not synced.  Nothing removes the file.                         *)
FillFails(p, journal) ==
  \E left \in {Partial, journal} :
    /\ disk' = [disk EXCEPT ![p] = left]
    /\ image' = [image EXCEPT ![p] = @ \cup {left}]

(* os.replace of a synced temporary file.                                  *)
Replace(p, journal) ==
  /\ disk' = [disk EXCEPT ![p] = journal]
  /\ image' = [image EXCEPT ![p] = @ \cup {journal}]

(* Mutated SyncDirectory: _fsync_parent_directory is left out.             *)
SkippedDirectorySync(p) == UNCHANGED store

(* fsync of path.parent makes the current entry durable.  The entry of a   *)
(* directory created by mkdir is in its own parent, which is never synced. *)
SyncDirectory(p) ==
  /\ image' = [image EXCEPT ![p] =
                 {disk[p]} \cup (IF p \in FreshParent THEN @ \cap {NoFile} ELSE {})]
  /\ UNCHANGED disk

(* Power loss: each path comes back with one of its possible contents.     *)
LoseVolatile ==
  /\ disk' \in {d \in [Paths -> UNION {image[p] : p \in Paths}] :
                  \A p \in Paths : d[p] \in image[p]}
  /\ image' = [p \in Paths |-> {disk'[p]}]
=============================================================================
