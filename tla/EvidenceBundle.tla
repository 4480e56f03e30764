---------------------------- MODULE EvidenceBundle ----------------------------
(***************************************************************************)
(* How a downloaded archive becomes evidence: write_capture_evidence_      *)
(* bundle of bench/engine/kaggle_capture_evidence.py and                   *)
(* write_creation_bundle of bench/engine/kaggle_creation_output.py, both   *)
(* with _write_exclusive of the latter.  Each writes the files of one run  *)
(* under fixed names, the file that vouches for the others last, and takes *)
(* back what it wrote when a later file fails; the capture writer does so  *)
(* for Exception only, the creation writer for BaseException.  Any number  *)
(* of commands may work on the same run in the same directory.             *)
(***************************************************************************)
EXTENDS Naturals, SequencesExt

CONSTANTS
  Writers,         \* commands working on the same run
  NoFile,          \* no directory entry
  MaxStarts        \* bound: invocations of one writer

Files == {"archive", "payload", "source", "dispatchJournal", "evidence",
          "receipt", "metadata"}

VARIABLES
  disk,         \* the files, each with the invocation that created it
  kind,         \* which of the two functions: its names are its own
  pc,           \* where each writer is
  journal,      \* dispatch_journal_bytes is not None
  at,           \* position in the loop over the paths
  written,      \* the local of this name: files to take back
  raised,       \* what is being unwound: "error" or "interrupt"
  starts,       \* invocations so far
  returned,     \* history: invocations that reported success
  unrecorded,   \* history: rolled back without a file that stayed
  cut           \* history: ended before their cleanup did

locals == <<journal, at, written, raised, starts>>
history == <<returned, unrecorded, cut>>
vars == <<disk, kind, pc, locals, history>>

ASSUME BundleAssumption == MaxStarts \in Nat

(* The loop over bundle_paths, and the order of the writes.                *)
BundlePaths(w) ==
  IF kind = "creation" THEN <<"archive", "receipt", "metadata">>
  ELSE <<"archive", "payload", "source", "evidence">>
       \o (IF journal[w] THEN <<"dispatchJournal">> ELSE <<>>)

WriteOrder(w) ==
  IF kind = "creation" THEN BundlePaths(w)
  ELSE <<"archive", "payload", "source">>
       \o (IF journal[w] THEN <<"dispatchJournal">> ELSE <<>>) \o <<"evidence">>

(* The file that names the others.                                         *)
Marker == IF kind = "creation" THEN "metadata" ELSE "evidence"

Invocation(w) == <<w, starts[w]>>

(* What an invocation writes: its bytes, all of them or not, and the files *)
(* they come with.                                                         *)
Content(w, whole) ==
  [by |-> Invocation(w), names |-> ToSet(WriteOrder(w)), whole |-> whole]

Exists(file) == disk[file] # NoFile

Put(file, content) == disk' = [disk EXCEPT ![file] = content]

(* path.unlink() of a handler, whose OSError is ignored.                   *)
Unlink(w, file) ==
  \/ Put(file, NoFile) /\ UNCHANGED unrecorded
  \/ unrecorded' = unrecorded \cup {Invocation(w)} /\ UNCHANGED disk

Go(w, next) == pc' = [pc EXCEPT ![w] = next]

(* An exception reaches the handler of the loop.                           *)
Unwind(w, what) ==
  /\ raised' = [raised EXCEPT ![w] = what]
  /\ IF what = "error" \/ kind = "creation"
     THEN Go(w, "rollback") /\ UNCHANGED cut
     ELSE Go(w, "idle") /\ cut' = cut \cup {Invocation(w)}

Init ==
  /\ disk = [file \in Files |-> NoFile]
  /\ kind \in {"capture", "creation"}
  /\ pc = [w \in Writers |-> "idle"]
  /\ journal = [w \in Writers |-> FALSE]
  /\ at = [w \in Writers |-> 1]
  /\ written = [w \in Writers |-> <<>>]
  /\ raised = [w \in Writers |-> "error"]
  /\ starts = [w \in Writers |-> 0]
  /\ returned = {} /\ unrecorded = {} /\ cut = {}

(* Everything before output_dir is touched succeeded.                      *)
Start(w) ==
  /\ pc[w] = "idle" /\ starts[w] < MaxStarts
  /\ starts' = [starts EXCEPT ![w] = @ + 1]
  /\ \E given \in BOOLEAN :
       /\ given => kind = "capture"
       /\ journal' = [journal EXCEPT ![w] = given]
  /\ at' = [at EXCEPT ![w] = 1]
  /\ written' = [written EXCEPT ![w] = <<>>]
  /\ raised' = [raised EXCEPT ![w] = "error"]
  /\ Go(w, "check")
  /\ UNCHANGED <<disk, kind, history>>

(* path.exists() of one path; the last one leads on to the writes.         *)
CheckAbsent(w) ==
  /\ pc[w] = "check"
  /\ ~Exists(BundlePaths(w)[at[w]])
  /\ IF at[w] = Len(BundlePaths(w))
     THEN Go(w, "open") /\ at' = [at EXCEPT ![w] = 1]
     ELSE at' = [at EXCEPT ![w] = @ + 1] /\ UNCHANGED pc
  /\ UNCHANGED <<disk, kind, journal, written, raised, starts, history>>

(* "refusing to overwrite existing ..."                                    *)
RefuseToOverwrite(w) ==
  /\ pc[w] = "check"
  /\ Exists(BundlePaths(w)[at[w]])
  /\ Go(w, "idle")
  /\ UNCHANGED <<disk, kind, locals, history>>

File(w) == WriteOrder(w)[at[w]]

(* _write_exclusive: path.open("xb") ...                                   *)
Open(w) ==
  /\ pc[w] = "open"
  /\ ~Exists(File(w))
  /\ Put(File(w), Content(w, FALSE))
  /\ Go(w, "fill")
  /\ UNCHANGED <<kind, locals, history>>

(* Mutated OpenFails: the handler removes every path of the bundle.        *)
OpenFailsAndClearsPlan(w) ==
  /\ pc[w] = "open"
  /\ Unwind(w, "error")
  /\ written' = [written EXCEPT ![w] = WriteOrder(w)]
  /\ UNCHANGED <<disk, kind, journal, at, starts, returned, unrecorded>>

(* ... which raises for an entry of somebody else, or for another reason   *)
(* that leaves none.                                                       *)
OpenFails(w) ==
  /\ pc[w] = "open"
  /\ Unwind(w, "error")
  /\ UNCHANGED <<disk, kind, journal, at, written, starts, returned,
                 unrecorded>>

(* ... write, flush, fsync, close.                                         *)
Fill(w) ==
  /\ pc[w] = "fill"
  /\ Put(File(w), Content(w, TRUE))
  /\ Go(w, "append")
  /\ UNCHANGED <<kind, locals, history>>

(* Mutated FillOrDiscard: the file of a failed write stays.                *)
FailsWithoutDiscard(w) ==
  /\ pc[w] = "fill"
  /\ \E whole \in BOOLEAN : Put(File(w), Content(w, whole))
  /\ Unwind(w, "error")
  /\ UNCHANGED <<kind, journal, at, written, starts, returned, unrecorded>>

(* ... or fails in one of them, by itself or interrupted, and goes on to   *)
(* take the file back.                                                     *)
FillOrDiscard(w) ==
  /\ pc[w] = "fill"
  /\ \E whole \in BOOLEAN : Put(File(w), Content(w, whole))
  /\ \E what \in {"error", "interrupt"} : raised' = [raised EXCEPT ![w] = what]
  /\ Go(w, "discard")
  /\ UNCHANGED <<kind, journal, at, written, starts, history>>

(* The handler of _write_exclusive.                                        *)
Discard(w) ==
  /\ pc[w] = "discard"
  /\ Unlink(w, File(w))
  /\ Unwind(w, raised[w])
  /\ UNCHANGED <<kind, journal, at, written, starts, returned>>

(* written.append(path), and success after the last one.                   *)
Record(w) ==
  /\ pc[w] = "append"
  /\ written' = [written EXCEPT ![w] = Append(@, File(w))]
  /\ IF at[w] < Len(WriteOrder(w))
     THEN Go(w, "open") /\ at' = [at EXCEPT ![w] = @ + 1]
     ELSE Go(w, "written") /\ UNCHANGED at
  /\ UNCHANGED <<disk, kind, journal, raised, starts, history>>

Return(w) ==
  /\ pc[w] = "written"
  /\ returned' = returned \cup {Invocation(w)}
  /\ Go(w, "idle")
  /\ UNCHANGED <<disk, kind, locals, unrecorded, cut>>

-----------------------------------------------------------------------------
(* Taking back.                                                            *)

(* Mutated TakeBack: the first file first.                                 *)
TakesBackForward(w) ==
  /\ pc[w] = "rollback" /\ written[w] # <<>>
  /\ Unlink(w, Head(written[w]))
  /\ written' = [written EXCEPT ![w] = Tail(@)]
  /\ UNCHANGED <<kind, pc, journal, at, raised, starts, returned, cut>>

(* reversed(written), one path.unlink() after the other.                   *)
TakeBack(w) ==
  /\ pc[w] = "rollback" /\ written[w] # <<>>
  /\ Unlink(w, Last(written[w]))
  /\ written' = [written EXCEPT ![w] = Front(@)]
  /\ UNCHANGED <<kind, pc, journal, at, raised, starts, returned, cut>>

Raise(w) ==
  /\ pc[w] = "rollback" /\ written[w] = <<>>
  /\ Go(w, "idle")
  /\ UNCHANGED <<disk, kind, locals, history>>

-----------------------------------------------------------------------------
(* Interrupts and kills.                                                   *)

(* KeyboardInterrupt between two instructions.  A file that was created    *)
(* but whose `try` or `append` was not reached escapes the rollback; one   *)
(* that hits a handler ends it.                                            *)
Interrupt(w) ==
  /\ \/ /\ pc[w] = "check"
        /\ Go(w, "idle") /\ UNCHANGED <<raised, unrecorded, cut>>
     \/ /\ pc[w] \in {"open", "written"}
        /\ Unwind(w, "interrupt") /\ UNCHANGED unrecorded
     \/ /\ pc[w] \in {"fill", "append"}
        /\ Unwind(w, "interrupt")
        /\ unrecorded' = IF kind = "creation"
                         THEN unrecorded \cup {Invocation(w)} ELSE unrecorded
     \/ /\ pc[w] = "discard"
        /\ Unwind(w, "interrupt")
        /\ unrecorded' = unrecorded \cup {Invocation(w)}
     \/ /\ pc[w] = "rollback"
        /\ Go(w, "idle") /\ cut' = cut \cup {Invocation(w)}
        /\ UNCHANGED <<raised, unrecorded>>
  /\ UNCHANGED <<disk, kind, journal, at, written, starts, returned>>

Kill(w) ==
  /\ pc[w] # "idle"
  /\ Go(w, "idle")
  /\ cut' = cut \cup {Invocation(w)}
  /\ UNCHANGED <<disk, kind, locals, returned, unrecorded>>

Next ==
  \E w \in Writers :
    \/ Start(w) \/ CheckAbsent(w) \/ RefuseToOverwrite(w)
    \/ Open(w) \/ OpenFails(w) \/ Fill(w) \/ FillOrDiscard(w) \/ Discard(w)
    \/ Record(w) \/ Return(w) \/ TakeBack(w) \/ Raise(w)
    \/ Interrupt(w) \/ Kill(w)

Spec == Init /\ [][Next]_vars

-----------------------------------------------------------------------------
(* Properties.                                                             *)

Whole(file) == Exists(file) /\ disk[file].whole

Contents == [by : Writers \X (1..MaxStarts), names : SUBSET Files, whole : BOOLEAN]

ASSUME FileAssumption == NoFile \notin Contents

TypeOK ==
  /\ kind \in {"capture", "creation"}
  /\ pc \in [Writers -> {"idle", "check", "open", "fill", "append", "written",
                         "discard", "rollback"}]
  /\ journal \in [Writers -> BOOLEAN]
  /\ at \in [Writers -> Nat]
  /\ \A w \in Writers : at[w] \in 1..Len(WriteOrder(w))
  /\ written \in [Writers -> Seq(Files)]
  /\ raised \in [Writers -> {"error", "interrupt"}]
  /\ starts \in [Writers -> 0..MaxStarts]
  /\ disk \in [Files -> Contents \cup {NoFile}]
  /\ returned \cup unrecorded \cup cut \subseteq Writers \X (1..MaxStarts)

(* A file that vouches for others is never seen without them, beside files *)
(* of another invocation or beside torn ones, whoever else works on the    *)
(* run, wherever the writers fail or end.  The exception is an invocation  *)
(* that lost track of a file of its own before it rolled back.             *)
EvidenceIsTrue ==
  /\ TypeOK
  /\ Whole(Marker) /\ disk[Marker].by \notin unrecorded =>
       \A file \in disk[Marker].names : disk[file] = disk[Marker]

(* What an invocation reported as retained stays, whatever other           *)
(* invocations for the same run write, refuse and take back.               *)
RetainedStays ==
  \A invocation \in returned :
    /\ Whole(Marker) /\ disk[Marker].by = invocation
    /\ \A file \in disk[Marker].names : disk[file] = disk[Marker]

(* kaggle_creation_output.py:55 "Remove the file created by this call so   *)
(* an operator can retry": an invocation that failed, with its handlers    *)
(* run to their end, leaves no file.                                       *)
FailureLeavesNothing ==
  \A file \in Files : Exists(file) =>
    \/ disk[file].by \in returned \cup unrecorded \cup cut
    \/ \E w \in Writers : disk[file].by = Invocation(w) /\ pc[w] # "idle"
=============================================================================
