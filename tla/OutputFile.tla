----------------------------- MODULE OutputFile -----------------------------
(***************************************************************************)
(* _safe_write_text of bench/run.py, which writes results and manifests.   *)
(***************************************************************************)
EXTENDS OutputParent

VARIABLES
  seen,    \* per writer, the target when it was first inspected
  window   \* history: a writer saw an output whose mode was not restored yet

outputVars == <<seen, window>>

Nothing == [entry |-> NoEntry]

(* _inspect_output_target and _target_snapshot: identity, mode and times.  *)
Snapshot(w) ==
  LET i == output[fd[w]]
  IN IF i = NoEntry THEN Nothing
     ELSE [entry |-> i, mode |-> inode[i].mode, changes |-> inode[i].changes]
Irregular(w) == output[fd[w]] # NoEntry /\ inode[output[fd[w]]].kind = "link"

OutputInit ==
  /\ seen = [w \in Writers |-> Nothing]
  /\ window = FALSE

(* A missing parent is created, mode 0700, and the directory that holds it *)
(* is synced, by the command that created it and by no other.              *)
MakeParent(w) ==
  /\ pc[w] = "start" /\ at = NoDir
  /\ at' = Home /\ atImage' = atImage \cup {Home}
  /\ maker' = w
  /\ Go(w, "made")
  /\ UNCHANGED <<output, package, image, private, inode, fd, foreign, late, outputVars>>

SyncHolder(w) ==
  /\ pc[w] = "made"
  /\ atImage' = {at}
  /\ maker' = NoEntry
  /\ Go(w, "start")
  /\ UNCHANGED <<at, output, package, image, private, inode, fd, foreign, late, outputVars>>

OpenParent(w) ==
  /\ pc[w] = "start" /\ at # NoDir
  /\ fd' = [fd EXCEPT ![w] = at]
  /\ Go(w, "inspect")
  /\ UNCHANGED <<at, atImage, output, package, image, private, inode, foreign, historyVars, outputVars>>

Inspect(w) ==
  /\ pc[w] = "inspect"
  /\ IF Irregular(w) THEN Go(w, "raised") /\ UNCHANGED outputVars
     ELSE /\ seen' = [seen EXCEPT ![w] = Snapshot(w)]
          /\ window' = \/ window
                       \/ \E v \in Writers : output[fd[w]] = v /\ pc[v] \notin {"returned", "sync"}
          /\ Go(w, "create")
  /\ UNCHANGED <<at, atImage, output, package, image, private, inode, fd, foreign, historyVars>>

(* O_EXCL under a random name.                                             *)
CreateTemporary(w) ==
  /\ pc[w] = "create"
  /\ private' = [private EXCEPT ![w] = w]
  /\ inode' = [inode EXCEPT ![w] = NewInode("private")]
  /\ Go(w, "write")
  /\ UNCHANGED <<at, atImage, output, package, image, fd, foreign, historyVars, outputVars>>

WriteTemporary(w) ==
  /\ pc[w] = "write"
  /\ inode' = [inode EXCEPT ![w].data = "whole"]
  /\ Go(w, "fsync")
  /\ UNCHANGED <<at, atImage, output, package, image, private, fd, foreign, historyVars, outputVars>>

(* Mutated SyncTemporary: the data is left to the kernel.                  *)
FlushTemporary(w) ==
  /\ pc[w] = "fsync"
  /\ Go(w, "revalidate")
  /\ UNCHANGED <<at, atImage, output, package, image, private, inode, fd, foreign, historyVars, outputVars>>

(* fsync, and the checks on the inode that is about to be published.       *)
SyncTemporary(w) ==
  /\ pc[w] = "fsync"
  /\ inode' = [inode EXCEPT ![w].synced = TRUE]
  /\ Go(w, "revalidate")
  /\ UNCHANGED <<at, atImage, output, package, image, private, fd, foreign, historyVars, outputVars>>

Revalidate(w) ==
  /\ pc[w] = "revalidate"
  /\ Go(w, IF StillThere(w) THEN "reinspect" ELSE "unwind")
  /\ UNCHANGED <<at, atImage, output, package, image, private, inode, fd, foreign, historyVars, outputVars>>

Reinspect(w) ==
  /\ pc[w] = "reinspect"
  /\ Go(w, IF ~Irregular(w) /\ Snapshot(w) = seen[w] THEN "replace" ELSE "unwind")
  /\ UNCHANGED <<at, atImage, output, package, image, private, inode, fd, foreign, historyVars, outputVars>>

(* os.replace takes whatever the random name stands for.                   *)
Replace(w) ==
  /\ pc[w] = "replace"
  /\ output' = [output EXCEPT ![fd[w]] = private[w]]
  /\ image' = [image EXCEPT ![fd[w]].output = @ \cup {private[w]}]
  /\ private' = [private EXCEPT ![w] = NoEntry]
  /\ Go(w, IF seen[w] = Nothing THEN "sync" ELSE "restore")
  /\ UNCHANGED <<at, atImage, package, inode, fd, foreign, historyVars, outputVars>>

(* Mutated RestoreMode: only the times of the inode change.                *)
KeepPrivate(w) ==
  /\ pc[w] = "restore"
  /\ inode' = [inode EXCEPT ![w].changes = @ + 1]
  /\ Go(w, "sync")
  /\ UNCHANGED <<at, atImage, output, package, image, private, fd, foreign, historyVars, outputVars>>

(* fchmod of the retained descriptor, and fsync.                           *)
RestoreMode(w) ==
  /\ pc[w] = "restore"
  /\ inode' = [inode EXCEPT ![w] = [inode[w] EXCEPT !.mode = seen[w].mode, !.changes = @ + 1]]
  /\ Go(w, "sync")
  /\ UNCHANGED <<at, atImage, output, package, image, private, fd, foreign, historyVars, outputVars>>

(* Mutated SyncParent: the rename is left to the kernel.                   *)
ReturnUnsynced(w) ==
  /\ pc[w] = "sync"
  /\ Go(w, "returned")
  /\ UNCHANGED <<at, atImage, output, package, image, private, inode, fd, foreign, historyVars, outputVars>>

SyncParent(w) ==
  /\ pc[w] = "sync"
  /\ image' = [image EXCEPT ![fd[w]].output = {output[fd[w]]}]
  /\ Go(w, "returned")
  /\ UNCHANGED <<at, atImage, output, package, private, inode, fd, foreign, historyVars, outputVars>>

(* Any of these calls raises.  Before there is a temporary file nothing is *)
(* cleaned up; what was published stays, whatever fails after it.          *)
WriterFails(w) ==
  /\ \/ pc[w] \in {"start", "made", "inspect", "create"} /\ Go(w, "raised")
     \/ pc[w] \in {"write", "fsync", "revalidate", "reinspect", "replace"} /\ Go(w, "unwind")
     \/ pc[w] \in {"restore", "sync"} /\ Go(w, "raised")
  /\ UNCHANGED <<at, atImage, output, package, image, private, inode, fd, foreign, historyVars, outputVars>>

(* Mutated Unwind: the name is not looked at.                              *)
UnwindByName(w) ==
  /\ pc[w] = "unwind" /\ Go(w, "unlink")
  /\ UNCHANGED <<at, atImage, output, package, image, private, inode, fd, foreign, historyVars, outputVars>>

(* finally: what does the random name stand for?                           *)
Unwind(w) ==
  /\ pc[w] = "unwind"
  /\ Go(w, IF private[w] = w THEN "unlink" ELSE "raised")
  /\ UNCHANGED <<at, atImage, output, package, image, private, inode, fd, foreign, historyVars, outputVars>>

(* Then the name is removed, whatever it stands for by now.                *)
Unlink(w) ==
  /\ pc[w] = "unlink"
  /\ private' = [private EXCEPT ![w] = NoEntry]
  /\ Go(w, "raised")
  /\ UNCHANGED <<at, atImage, output, package, image, inode, fd, foreign, historyVars, outputVars>>

(* An OSError of the cleanup is swallowed; the first error is raised.      *)
UnwindFails(w) ==
  /\ pc[w] \in {"unwind", "unlink"} /\ Go(w, "uncleaned")
  /\ UNCHANGED <<at, atImage, output, package, image, private, inode, fd, foreign, historyVars, outputVars>>

WriterStep(w) ==
  \/ MakeParent(w) \/ SyncHolder(w) \/ OpenParent(w) \/ Inspect(w)
  \/ CreateTemporary(w) \/ WriteTemporary(w) \/ SyncTemporary(w)
  \/ Revalidate(w) \/ Reinspect(w) \/ Replace(w) \/ RestoreMode(w) \/ SyncParent(w)
  \/ WriterFails(w) \/ Unwind(w) \/ Unlink(w) \/ UnwindFails(w)
=============================================================================
