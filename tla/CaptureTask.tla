----------------------------- MODULE CaptureTask -----------------------------
(***************************************************************************)
(* run_capture_canary, the hosted task that bench/tasks/kaggle/            *)
(* generate_v0_2_capture.py generates: make the planned paid model calls   *)
(* one after another, once each, and after every step publish a durable    *)
(* checkpoint from which an offline reader can tell what was paid for.     *)
(* Model, chats and the end of the process are the environment's.          *)
(***************************************************************************)
EXTENDS CaptureVerifier

CONSTANTS
  CapturePath,  \* the checkpoint file
  NoFile,       \* no checkpoint yet
  Partial,      \* torn file of JournalStore; never here, files are replaced
  MaxTime,      \* bound: clock ticks
  MaxCrashes    \* bound: machine crashes

VARIABLES
  disk, image,  \* the checkpoint file, and what a machine crash may leave
  pc,           \* where run_capture_canary is
  after,        \* where it goes once publish returns
  observed,     \* the model preflight passed
  startedAt,
  now,          \* clock()
  rows, active, \* its locals of these names
  prompted,     \* history: calls handed to llm.prompt
  got,          \* history: what llm.prompt did for each call
  closed,       \* history: calls whose chat was closed without failure
  crashes       \* machine crashes so far

(* _atomic_checkpoint makes the system calls of _replace_journal.          *)
INSTANCE JournalStore WITH Paths <- {CapturePath}, FreshParent <- {}

locals == <<observed, startedAt, rows, active>>
history == <<prompted, got, closed>>
vars == <<disk, image, pc, after, now, locals, history, crashes>>

Calls == 1..PlanLength
Ended == {"returned", "errored", "killed"}
Steps == {"start", "preflight", "publish", "sync", "loop", "open", "prompt",
          "await", "close", "abandon"}

(* What llm.prompt did: returned a string free of flaws or not, one that   *)
(* cannot be represented, too long a string, no string; or raised.         *)
Results == {"clean", "flawed", "unrepresentable", "oversized", "nonString",
            "raised"}

NoActive == [call |-> 0, state |-> "none", updatedAt |-> 0]

ASSUME CaptureAssumption ==
  /\ PlanLength \in Nat \ {0}
  /\ MaxTime \in Nat /\ MaxCrashes \in Nat

Init ==
  /\ StoreInit
  /\ pc = "start" /\ after = "returned"
  /\ observed = FALSE /\ startedAt = 0 /\ now = 0
  /\ rows = <<>> /\ active = NoActive
  /\ prompted = {} /\ closed = {}
  /\ got = [call \in Calls |-> "none"]
  /\ crashes = 0

-----------------------------------------------------------------------------
(* _payload and publish.                                                   *)

(* _derive_diagnostics, replayBlockedReasons.                              *)
Blockers ==
  LET Present(reason, holds) == IF holds THEN {reason} ELSE {}
      Some(Bad(_)) == \E i \in DOMAIN rows : Bad(rows[i])
  IN  Present("incompleteCoverage", Len(rows) # PlanLength)
      \cup Present("activeCall", active.state \in {"prepared", "dispatching"})
      \cup Present("terminalFailure", Some(LAMBDA r : r.terminalFailure # "none"))
      \cup Present("lifecycleFailure", Some(LAMBDA r : r.lifecycleFailure))
      \cup Present("flawed", Some(LAMBDA r : r.flawed))
      \cup ({rows[i].outcome : i \in DOMAIN rows} \ {"returnedString", "failed"})

Payload ==
  LET dispatched == {i \in DOMAIN rows : rows[i].dispatchStarted}
      inflight == IF active.state = "dispatching" THEN 1 ELSE 0
      covered == Len(rows) = PlanLength
  IN  [observed |-> observed, startedAt |-> startedAt, endedAt |-> now,
       rows |-> rows, active |-> active,
       attemptedCallCount |-> Cardinality(dispatched) + inflight,
       terminalCallCount |-> Cardinality(dispatched),
       outcomeCount |-> [o \in Outcomes |-> Cardinality(RowsWith(rows, o))],
       replayBlockedReasons |-> Blockers,
       captureComplete |-> covered,
       canonicalReplayEligible |-> covered /\ Blockers = {}]

(* publish(model), then on to `next`.                                      *)
Publish(next) == pc' = "publish" /\ after' = next

(* The payload is encoded, written, synced and put in place.               *)
PublishReplace ==
  /\ pc = "publish"
  /\ Replace(CapturePath, Payload)
  /\ pc' = "sync"
  /\ UNCHANGED <<after, now, locals, history, crashes>>

PublishSync ==
  /\ pc = "sync"
  /\ SyncDirectory(CapturePath)
  /\ pc' = after
  /\ UNCHANGED <<after, now, locals, history, crashes>>

-----------------------------------------------------------------------------
(* Preflight.                                                              *)

Begin ==
  /\ pc = "start"
  /\ startedAt' = now
  /\ pc' = "preflight"
  /\ UNCHANGED <<disk, image, after, now, observed, rows, active, history, crashes>>

(* The package or the model preflight fails: no call is made.              *)
PreflightFails ==
  /\ pc = "preflight"
  /\ Publish("returned")
  /\ UNCHANGED <<disk, image, now, locals, history, crashes>>

PreflightPasses ==
  /\ pc = "preflight"
  /\ observed' = TRUE
  /\ Publish("loop")
  /\ UNCHANGED <<disk, image, now, startedAt, rows, active, history, crashes>>

-----------------------------------------------------------------------------
(* One planned call.                                                       *)

Activate(call, state) ==
  active' = [call |-> call, state |-> state, updatedAt |-> now]

PrepareCall ==
  /\ pc = "loop"
  /\ Len(rows) < PlanLength
  /\ Activate(Len(rows) + 1, "prepared")
  /\ Publish("open")
  /\ UNCHANGED <<disk, image, now, observed, startedAt, rows, history, crashes>>

PlanEnds ==
  /\ pc = "loop"
  /\ Len(rows) = PlanLength
  /\ pc' = "returned"
  /\ UNCHANGED <<disk, image, after, now, locals, history, crashes>>

(* Mutated ChatOpens: no checkpoint before the prompt.                     *)
ChatOpensUnpublished ==
  /\ pc = "open"
  /\ Activate(active.call, "dispatching")
  /\ pc' = "prompt"
  /\ UNCHANGED <<disk, image, after, now, observed, startedAt, rows, history, crashes>>

ChatOpens ==
  /\ pc = "open"
  /\ Activate(active.call, "dispatching")
  /\ Publish("prompt")
  /\ UNCHANGED <<disk, image, now, observed, startedAt, rows, history, crashes>>

(* _failed_row, _row_from_output: the row is appended with the active call *)
(* marked as persisted, then published.                                    *)
Finish(row, next) ==
  /\ rows' = Append(rows, row)
  /\ Activate(row.call, "terminalPersisted")
  /\ Publish(next)

FailedRow(kind, dispatchStarted, flawed) ==
  [call |-> active.call, dispatchStarted |-> dispatchStarted,
   outcome |-> "failed", terminalFailure |-> kind, lifecycleFailure |-> FALSE,
   flawed |-> flawed, capturedAt |-> now]

OutputRow(outcome, flawed) ==
  [call |-> active.call, dispatchStarted |-> TRUE,
   outcome |-> outcome, terminalFailure |-> "none", lifecycleFailure |-> FALSE,
   flawed |-> flawed, capturedAt |-> now]

(* The chat was never used: its row has no usage.                          *)
ChatOpenFails ==
  /\ pc = "open"
  /\ Finish(FailedRow("chatOpenFailed", FALSE, TRUE), "abandon")
  /\ UNCHANGED <<disk, image, now, observed, startedAt, history, crashes>>

Prompt ==
  /\ pc = "prompt"
  /\ prompted' = prompted \cup {active.call}
  /\ pc' = "await"
  /\ UNCHANGED <<disk, image, after, now, locals, got, closed, crashes>>

(* llm.prompt returned something a row can hold; the usage record of any   *)
(* output may be flawed.                                                   *)
PromptReturns ==
  /\ pc = "await"
  /\ \E result \in {"clean", "flawed", "oversized", "nonString"}, usage \in BOOLEAN :
       LET outcome == CASE result = "oversized" -> "oversizedOutput"
                        [] result = "nonString" -> "nonStringOutput"
                        [] OTHER -> "returnedString"
       IN  /\ result = "clean" => ~usage
           /\ result = "flawed" => usage
           /\ Finish(OutputRow(outcome, usage), "close")
           /\ got' = [got EXCEPT ![active.call] = result]
  /\ UNCHANGED <<disk, image, now, observed, startedAt, prompted, closed, crashes>>

(* Mutated Unrepresentable: classified inside the model call's handler.    *)
RelabelledUnrepresentable ==
  /\ pc = "await"
  /\ Finish(FailedRow("modelCallFailed", TRUE, FALSE), "close")
  /\ got' = [got EXCEPT ![active.call] = "unrepresentable"]
  /\ UNCHANGED <<disk, image, now, observed, startedAt, prompted, closed, crashes>>

(* _row_from_output raises: the checkpoint stays at "dispatching".         *)
Unrepresentable ==
  /\ pc = "await"
  /\ got' = [got EXCEPT ![active.call] = "unrepresentable"]
  /\ pc' = "errored"
  /\ UNCHANGED <<disk, image, after, now, locals, prompted, closed, crashes>>

(* Mutated PromptRaises: the row of a raising call as ChatOpenFails has it.*)
RaisesUndispatched ==
  /\ pc = "await"
  /\ \E flawed \in BOOLEAN : Finish(FailedRow("modelCallFailed", FALSE, flawed), "close")
  /\ got' = [got EXCEPT ![active.call] = "raised"]
  /\ UNCHANGED <<disk, image, now, observed, startedAt, prompted, closed, crashes>>

PromptRaises ==
  /\ pc = "await"
  /\ \E flawed \in BOOLEAN : Finish(FailedRow("modelCallFailed", TRUE, flawed), "close")
  /\ got' = [got EXCEPT ![active.call] = "raised"]
  /\ UNCHANGED <<disk, image, now, observed, startedAt, prompted, closed, crashes>>

(* Mutated ChatCloses: the outcome is not looked at.                       *)
ChatClosesAndGoesOn ==
  /\ pc = "close"
  /\ closed' = closed \cup {active.call}
  /\ active' = NoActive
  /\ Publish("loop")
  /\ UNCHANGED <<disk, image, now, observed, startedAt, rows, prompted, got, crashes>>

(* Only a returned string lets the plan go on.                             *)
ChatCloses ==
  /\ pc = "close"
  /\ closed' = closed \cup {active.call}
  /\ active' = NoActive
  /\ Publish(IF rows[Len(rows)].outcome = "returnedString" THEN "loop" ELSE "returned")
  /\ UNCHANGED <<disk, image, now, observed, startedAt, rows, prompted, got, crashes>>

(* Mutated ChatCloseFails: the failure is swallowed.                       *)
ChatCloseIgnored ==
  /\ pc = "close"
  /\ active' = [active EXCEPT !.updatedAt = now]
  /\ Publish("abandon")
  /\ UNCHANGED <<disk, image, now, observed, startedAt, rows, history, crashes>>

(* Mutated ChatCloseFails: the row becomes a failed one.                   *)
ChatCloseOverwrites ==
  /\ pc = "close"
  /\ rows' = [rows EXCEPT ![Len(rows)].outcome = "failed",
                          ![Len(rows)].lifecycleFailure = TRUE]
  /\ active' = [active EXCEPT !.updatedAt = now]
  /\ Publish("abandon")
  /\ UNCHANGED <<disk, image, now, observed, startedAt, history, crashes>>

ChatCloseFails ==
  /\ pc = "close"
  /\ rows' = [rows EXCEPT ![Len(rows)] =
                [rows[Len(rows)] EXCEPT !.lifecycleFailure = TRUE, !.capturedAt = now]]
  /\ active' = [active EXCEPT !.updatedAt = now]
  /\ Publish("abandon")
  /\ UNCHANGED <<disk, image, now, observed, startedAt, history, crashes>>

(* A chat failure is published with the active call, then without it.      *)
Abandon ==
  /\ pc = "abandon"
  /\ active' = NoActive
  /\ Publish("returned")
  /\ UNCHANGED <<disk, image, now, observed, startedAt, rows, history, crashes>>

-----------------------------------------------------------------------------
(* The environment.                                                        *)

Tick ==
  /\ pc \notin Ended
  /\ now < MaxTime
  /\ now' = now + 1
  /\ UNCHANGED <<disk, image, pc, after, locals, history, crashes>>

(* publish raises (OSError, payload limit), or an exception that nothing   *)
(* catches, such as KeyboardInterrupt, ends the task.                      *)
Interrupted ==
  /\ pc \notin Ended
  /\ pc' = "errored"
  /\ UNCHANGED <<disk, image, after, now, locals, history, crashes>>

MachineCrash ==
  /\ crashes < MaxCrashes
  /\ crashes' = crashes + 1
  /\ LoseVolatile
  /\ pc' = IF pc \in Ended THEN pc ELSE "killed"
  /\ UNCHANGED <<after, now, locals, history>>

-----------------------------------------------------------------------------
Next ==
  \/ Begin \/ PreflightFails \/ PreflightPasses
  \/ PublishReplace \/ PublishSync
  \/ PrepareCall \/ PlanEnds
  \/ ChatOpens \/ ChatOpenFails \/ Prompt
  \/ PromptReturns \/ Unrepresentable \/ PromptRaises
  \/ ChatCloses \/ ChatCloseFails \/ Abandon
  \/ Tick \/ Interrupted \/ MachineCrash

Spec == Init /\ [][Next]_vars

-----------------------------------------------------------------------------
(* Properties.                                                             *)

Row == [call : Calls, dispatchStarted : BOOLEAN, outcome : Outcomes,
        terminalFailure : {"none", "chatOpenFailed", "modelCallFailed"},
        lifecycleFailure : BOOLEAN, flawed : BOOLEAN, capturedAt : 0..MaxTime]

ActiveCall == [call : 0..PlanLength, updatedAt : 0..MaxTime,
               state : {"none", "prepared", "dispatching", "terminalPersisted"}]

Reasons == {"incompleteCoverage", "activeCall", "terminalFailure",
            "lifecycleFailure", "flawed"} \cup (Outcomes \ {"returnedString", "failed"})

Payloads == [observed : BOOLEAN, startedAt : 0..MaxTime, endedAt : 0..MaxTime,
             rows : Seq(Row), active : ActiveCall,
             attemptedCallCount : Nat, terminalCallCount : Nat,
             outcomeCount : [Outcomes -> Nat],
             replayBlockedReasons : SUBSET Reasons,
             captureComplete : BOOLEAN, canonicalReplayEligible : BOOLEAN]

ASSUME FileAssumption == NoFile \notin Payloads

TypeOK ==
  /\ pc \in Steps \cup Ended /\ after \in {"loop", "open", "prompt", "close",
                                           "abandon", "returned"}
  /\ observed \in BOOLEAN
  /\ startedAt \in 0..MaxTime /\ now \in 0..MaxTime
  /\ rows \in Seq(Row) /\ Len(rows) <= PlanLength
  /\ active \in ActiveCall
  /\ prompted \subseteq Calls /\ closed \subseteq Calls
  /\ got \in [Calls -> Results \cup {"none"}]
  /\ disk \in [{CapturePath} -> Payloads \cup {NoFile}]
  /\ image \in [{CapturePath} -> SUBSET (Payloads \cup {NoFile})]
  /\ crashes \in 0..MaxCrashes

Checkpoints == image[CapturePath] \ {NoFile}

(* Whatever step a crash or an interrupt falls on, the reader accepts the  *)
(* checkpoint that is left: a paid call is never lost to a rejected file.  *)
(* The clock is taken to be monotonic.                                     *)
CheckpointsVerify ==
  /\ TypeOK
  /\ \A payload \in Checkpoints : Verified(payload) /\ Bindable(payload)

RowSays(row, result) ==
  CASE row.outcome = "failed" -> result = "raised"
    [] row.outcome = "returnedString" -> result = IF row.flawed THEN "flawed" ELSE "clean"
    [] row.outcome = "oversizedOutput" -> result = "oversized"
    [] row.outcome = "nonStringOutput" -> result = "nonString"
    [] OTHER -> FALSE

(* Every crash image accounts for every call handed to the model, as a row *)
(* or as the dispatching call; it has a row for a call only once the model *)
(* answered, and the row says what the model did: no successful response   *)
(* is relabelled as modelCallFailed.  "without retry": a call is made only *)
(* after all calls before it returned a string and closed their chats.     *)
CallsAreAccounted ==
  /\ prompted # {} => NoFile \notin image[CapturePath]
  /\ \A payload \in Checkpoints :
       LET dispatched == {i \in DOMAIN payload.rows : payload.rows[i].dispatchStarted}
           active_ == IF payload.active.state = "dispatching"
                      THEN {payload.active.call} ELSE {}
       IN  /\ prompted \subseteq dispatched \cup active_
           /\ \A i \in dispatched : RowSays(payload.rows[i], got[i])
  /\ \A call \in prompted : \A earlier \in 1..(call - 1) :
       earlier \in closed /\ got[earlier] \in {"clean", "flawed"}

(* What assembly may use: if the task returned, so that the run is         *)
(* COMPLETED, an eligible checkpoint stands for a whole plan of clean      *)
(* strings, each from a chat that closed.  A checkpoint alone does not:    *)
(* the one written before the last chat closes is eligible already.        *)
AssemblyIsClean ==
  \A payload \in Checkpoints :
    AssemblyEligible(payload, pc = "returned") =>
      \A call \in Calls : got[call] = "clean" /\ call \in closed

(* A published row stays as it is, but for a close failure of the last     *)
(* row's chat, unless a crash undoes an unsynced checkpoint.               *)
RowsOnlyGrow ==
  [][ LET old == disk[CapturePath]
          new == disk'[CapturePath]
      IN  \/ old = NoFile \/ new = old \/ crashes' # crashes
          \/ /\ Len(old.rows) <= Len(new.rows)
             /\ \A i \in DOMAIN old.rows :
                  \/ new.rows[i] = old.rows[i]
                  \/ /\ i = Len(old.rows) /\ Len(new.rows) = i
                     /\ new.rows[i] = [old.rows[i] EXCEPT
                                         !.lifecycleFailure = TRUE,
                                         !.capturedAt = new.rows[i].capturedAt]
    ]_vars
=============================================================================
