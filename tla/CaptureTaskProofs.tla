-------------------------- MODULE CaptureTaskProofs --------------------------
(***************************************************************************)
(* CaptureTask: whatever step an interrupt or a machine crash falls on,    *)
(* the checkpoint that is left verifies, accounts for every call that was  *)
(* paid for, and is used for assembly only if it is clean; for any plan    *)
(* length, any clock and any number of crashes.                            *)
(***************************************************************************)
EXTENDS CaptureTask, FiniteSetTheorems, TLAPS

Position == {"loop", "open", "prompt", "close", "abandon", "returned"}

(* The types of the variables, without those of sequences.                 *)
LEMMA Types ==
  ASSUME TypeOK
  PROVE  /\ pc \in Steps \cup Ended /\ after \in Position
         /\ observed \in BOOLEAN
         /\ startedAt \in Nat /\ now \in Nat /\ MaxTime \in Nat
         /\ startedAt <= MaxTime /\ now <= MaxTime
         /\ Len(rows) \in 0..PlanLength /\ PlanLength \in Nat /\ PlanLength >= 1
         /\ DOMAIN rows = 1..Len(rows)
         /\ \A i \in 1..Len(rows) : rows[i] \in Row
         /\ active \in ActiveCall
         /\ prompted \subseteq Calls /\ closed \subseteq Calls
         /\ got \in [Calls -> Results \cup {"none"}]
         /\ disk \in [{CapturePath} -> Payloads \cup {NoFile}]
         /\ image \in [{CapturePath} -> SUBSET (Payloads \cup {NoFile})]
         /\ disk[CapturePath] \in Payloads \cup {NoFile}
         /\ image[CapturePath] \subseteq Payloads \cup {NoFile}
         /\ crashes \in 0..MaxCrashes
  <1>1. rows \in Seq(Row)
    BY DEF TypeOK
  <1> QED
    BY <1>1, CaptureAssumption DEF TypeOK, Position

-----------------------------------------------------------------------------
(* The checkpoint file.                                                    *)

LEMMA FileReplaced ==
  ASSUME TypeOK, NEW j \in Payloads, Replace(CapturePath, j)
  PROVE  /\ disk'[CapturePath] = j
         /\ image'[CapturePath] = image[CapturePath] \cup {j}
         /\ disk' \in [{CapturePath} -> Payloads \cup {NoFile}]
         /\ image' \in [{CapturePath} -> SUBSET (Payloads \cup {NoFile})]
  BY Types DEF Replace

LEMMA FileSynced ==
  ASSUME TypeOK, SyncDirectory(CapturePath)
  PROVE  /\ disk' = disk
         /\ image'[CapturePath] = {disk[CapturePath]}
         /\ image' \in [{CapturePath} -> SUBSET (Payloads \cup {NoFile})]
  BY Types DEF SyncDirectory

LEMMA FileLost ==
  ASSUME TypeOK, LoseVolatile
  PROVE  /\ disk'[CapturePath] \in image[CapturePath]
         /\ image'[CapturePath] = {disk'[CapturePath]}
         /\ disk' \in [{CapturePath} -> Payloads \cup {NoFile}]
         /\ image' \in [{CapturePath} -> SUBSET (Payloads \cup {NoFile})]
  BY Types DEF LoseVolatile

-----------------------------------------------------------------------------
(* Rows.                                                                   *)

LEMMA Appended ==
  ASSUME NEW results \in Seq(Row), NEW row \in Row
  PROVE  /\ Append(results, row) \in Seq(Row)
         /\ Len(Append(results, row)) = Len(results) + 1
         /\ DOMAIN Append(results, row) = 1..(Len(results) + 1)
         /\ \A i \in 1..Len(results) : Append(results, row)[i] = results[i]
         /\ Append(results, row)[Len(results) + 1] = row
  OBVIOUS

(* The last row, its chat's close failure noted at a time.                 *)
CloseFailed(row, time) ==
  [row EXCEPT !.lifecycleFailure = TRUE, !.capturedAt = time]

LEMMA CloseFailedRow ==
  ASSUME NEW row \in Row, NEW time \in 0..MaxTime
  PROVE  /\ CloseFailed(row, time) \in Row
         /\ CloseFailed(row, time).call = row.call
         /\ CloseFailed(row, time).dispatchStarted = row.dispatchStarted
         /\ CloseFailed(row, time).outcome = row.outcome
         /\ CloseFailed(row, time).terminalFailure = row.terminalFailure
         /\ CloseFailed(row, time).flawed = row.flawed
         /\ CloseFailed(row, time).lifecycleFailure = TRUE
         /\ CloseFailed(row, time).capturedAt = time
  BY DEF CloseFailed, Row

LEMMA LastCloseFailed ==
  ASSUME NEW results \in Seq(Row), Len(results) >= 1, NEW time \in 0..MaxTime,
         NEW updated,
         updated = [results EXCEPT ![Len(results)] = CloseFailed(results[Len(results)], time)]
  PROVE  /\ updated \in Seq(Row)
         /\ Len(updated) = Len(results) /\ DOMAIN updated = 1..Len(results)
         /\ \A i \in 1..(Len(results) - 1) : updated[i] = results[i]
         /\ updated[Len(results)] = CloseFailed(results[Len(results)], time)
  <1>1. Len(results) \in DOMAIN results /\ results[Len(results)] \in Row
    OBVIOUS
  <1>2. CloseFailed(results[Len(results)], time) \in Row
    BY <1>1, CloseFailedRow
  <1> QED
    BY <1>1, <1>2

LEMMA FailedRowIs ==
  ASSUME TypeOK, active.call \in Calls, NEW kind \in {"chatOpenFailed", "modelCallFailed"},
         NEW started \in BOOLEAN, NEW flawed \in BOOLEAN
  PROVE  /\ FailedRow(kind, started, flawed) \in Row
         /\ FailedRow(kind, started, flawed).call = active.call
         /\ FailedRow(kind, started, flawed).dispatchStarted = started
         /\ FailedRow(kind, started, flawed).outcome = "failed"
         /\ FailedRow(kind, started, flawed).terminalFailure = kind
         /\ FailedRow(kind, started, flawed).lifecycleFailure = FALSE
         /\ FailedRow(kind, started, flawed).capturedAt = now
  <1>1. now \in 0..MaxTime
    BY DEF TypeOK
  <1> QED
    BY <1>1 DEF FailedRow, Row, Outcomes

LEMMA OutputRowIs ==
  ASSUME TypeOK, active.call \in Calls, NEW outcome \in Outcomes \ {"failed"},
         NEW flawed \in BOOLEAN
  PROVE  /\ OutputRow(outcome, flawed) \in Row
         /\ OutputRow(outcome, flawed).call = active.call
         /\ OutputRow(outcome, flawed).dispatchStarted = TRUE
         /\ OutputRow(outcome, flawed).outcome = outcome
         /\ OutputRow(outcome, flawed).terminalFailure = "none"
         /\ OutputRow(outcome, flawed).lifecycleFailure = FALSE
         /\ OutputRow(outcome, flawed).capturedAt = now
  <1>1. now \in 0..MaxTime
    BY DEF TypeOK
  <1> QED
    BY <1>1 DEF OutputRow, Row, Outcomes

(* What is published is typed.                                             *)
LEMMA PayloadType ==
  ASSUME TypeOK
  PROVE  /\ Payload \in Payloads /\ Payload # NoFile
         /\ Payload.rows = rows /\ Payload.active = active
         /\ Payload.observed = observed
         /\ Payload.startedAt = startedAt /\ Payload.endedAt = now
  <1>1. \A S \in SUBSET DOMAIN rows : Cardinality(S) \in Nat
    <2>1. IsFiniteSet(DOMAIN rows)
      BY Types, FS_Interval
    <2> QED
      BY <2>1, FS_Subset, FS_CardinalityType
  <1>2. Cardinality({i \in DOMAIN rows : rows[i].dispatchStarted}) \in Nat
    BY <1>1
  <1>3. [o \in Outcomes |-> Cardinality(RowsWith(rows, o))] \in [Outcomes -> Nat]
    BY <1>1 DEF RowsWith
  <1>4. Blockers \in SUBSET Reasons
    <2>1. \A i \in DOMAIN rows : rows[i].outcome \in Outcomes
      BY Types DEF Row
    <2> QED
      BY <2>1 DEF Blockers, Reasons
  <1>5. Payload \in Payloads
    BY <1>2, <1>3, <1>4, CaptureAssumption DEF TypeOK, Payload, Payloads
  <1> QED
    BY <1>5, FileAssumption DEF Payload

-----------------------------------------------------------------------------
(* The inductive invariant: where the task is determines what its rows say *)
(* of the calls, and what the file holds of the rows.                      *)

Place == IF pc \in {"publish", "sync"} THEN after ELSE pc
Quiet == {"loop", "open", "prompt", "await", "close", "abandon"}

(* Rows and active call as a published payload and as the task's locals.   *)
Accounts(results, call, asked, answers) ==
  /\ asked \subseteq {i \in DOMAIN results : results[i].dispatchStarted}
                     \cup (IF call.state = "dispatching" THEN {call.call} ELSE {})
  /\ \A i \in DOMAIN results :
       results[i].dispatchStarted => RowSays(results[i], answers[i])

(* TimesFit of what would be published now.                                *)
TimesNow ==
  /\ startedAt <= now
  /\ \A i \in DOMAIN rows : startedAt <= rows[i].capturedAt /\ rows[i].capturedAt <= now
  /\ active.state # "none" =>
       /\ startedAt <= active.updatedAt /\ active.updatedAt <= now
       /\ \A i \in DOMAIN rows : rows[i].capturedAt <= active.updatedAt

LocalsInv ==
  /\ RowsFollowPlan(rows)
  /\ ActiveFollowsRows(active, rows)
  /\ TimesNow
  /\ Accounts(rows, active, prompted, got)
  /\ ~observed => rows = <<>> /\ active = NoActive

Went(count) ==
  \A i \in 1..count : /\ rows[i].outcome = "returnedString"
                      /\ i \in closed /\ got[i] \in {"clean", "flawed"}

Faultless(results) ==
  /\ Len(results) = PlanLength
  /\ \A i \in DOMAIN results :
       results[i].terminalFailure = "none" /\ ~results[i].lifecycleFailure

PlaceInv ==
  /\ Place \in {"start", "preflight"} =>
       /\ ~observed /\ prompted = {} 
       /\ disk[CapturePath] = NoFile /\ image[CapturePath] = {NoFile}
  /\ Place \in {"loop", "open", "prompt", "await"} => observed /\ Went(Len(rows))
  /\ Place \in {"close", "abandon"} => observed /\ Went(Len(rows) - 1)
  /\ Place = "loop" => active = NoActive
  /\ Place = "open" => active.state = "prepared"
  /\ Place \in {"prompt", "await"} => active.state = "dispatching"
  /\ Place \in {"close", "abandon"} => active.state = "terminalPersisted"
  /\ Place = "close" => rows[Len(rows)].dispatchStarted
  /\ Place = "abandon" => ~Faultless(rows)
  /\ Place = "returned" /\ Faultless(rows) => Calls \subseteq closed

RowsGrow(old, new) ==
  /\ Len(old) <= Len(new)
  /\ \A i \in DOMAIN old :
       \/ new[i] = old[i]
       \/ /\ i = Len(old) /\ Len(new) = i
          /\ new[i] = [old[i] EXCEPT !.lifecycleFailure = TRUE,
                                     !.capturedAt = new[i].capturedAt]

FileInv ==
  /\ disk[CapturePath] \in image[CapturePath]
  /\ pc \in Quiet => image[CapturePath] = {disk[CapturePath]}
  /\ pc \in Quiet \cup {"sync"} =>
       /\ disk[CapturePath] # NoFile
       /\ disk[CapturePath].rows = rows /\ disk[CapturePath].active = active
  /\ pc = "publish" =>
       disk[CapturePath] = NoFile \/ RowsGrow(disk[CapturePath].rows, rows)

CheckpointInv ==
  /\ prompted # {} => NoFile \notin image[CapturePath]
  /\ \A payload \in Checkpoints :
       /\ Verified(payload) /\ Bindable(payload)
       /\ Accounts(payload.rows, payload.active, prompted, got)
       /\ pc = "returned" /\ payload.canonicalReplayEligible => Calls \subseteq closed

OrderInv ==
  /\ \A call \in prompted : \A earlier \in 1..(call - 1) :
       earlier \in closed /\ got[earlier] \in {"clean", "flawed"}

IInv == TypeOK /\ LocalsInv /\ PlaceInv /\ FileInv /\ CheckpointInv /\ OrderInv

-----------------------------------------------------------------------------
(* Type correctness.                                                       *)

LEMMA InitType == Init => TypeOK
  <1> SUFFICES ASSUME Init PROVE TypeOK
    OBVIOUS
  <1>1. rows \in Seq(Row) /\ Len(rows) = 0
    BY DEF Init
  <1>2. active \in ActiveCall
    BY CaptureAssumption DEF Init, NoActive, ActiveCall
  <1>3. /\ disk \in [{CapturePath} -> Payloads \cup {NoFile}]
        /\ image \in [{CapturePath} -> SUBSET (Payloads \cup {NoFile})]
    <2>1. /\ disk = [p \in {CapturePath} |-> NoFile]
          /\ image = [p \in {CapturePath} |-> {NoFile}]
      BY DEF Init, StoreInit
    <2> QED
      BY <2>1
  <1>4. /\ pc \in Steps /\ after = "returned"
        /\ startedAt \in 0..MaxTime /\ now \in 0..MaxTime /\ crashes \in 0..MaxCrashes
        /\ prompted = {} /\ closed = {}
    <2>1. /\ pc = "start" /\ after = "returned" /\ startedAt = 0
          /\ now = 0 /\ crashes = 0 /\ prompted = {} /\ closed = {}
      BY DEF Init
    <2> QED
      BY <2>1, CaptureAssumption DEF Steps
  <1>5. got \in [Calls -> Results \cup {"none"}]
    BY DEF Init
  <1>6. Len(rows) <= PlanLength
    BY <1>1, CaptureAssumption
  <1> QED
    <2>1. observed \in BOOLEAN
      BY DEF Init
    <2> QED
      BY <1>1, <1>2, <1>3, <1>4, <1>5, <1>6, <2>1 DEF TypeOK

(* The frames of the steps: which variables a step may touch.              *)
LEMMA ActivateType ==
  ASSUME TypeOK, NEW call \in 0..PlanLength,
         NEW state \in {"none", "prepared", "dispatching", "terminalPersisted"},
         Activate(call, state)
  PROVE  /\ active' \in ActiveCall /\ active'.call = call
         /\ active'.state = state /\ active'.updatedAt = now
  BY DEF Activate, ActiveCall, TypeOK

(* What a step that ends a call does to the rows and the active call.      *)
LEMMA FinishType ==
  ASSUME TypeOK, NEW row \in Row, NEW next \in Position, Finish(row, next),
         Len(rows) < PlanLength
  PROVE  /\ rows' \in Seq(Row) /\ Len(rows') = Len(rows) + 1
         /\ \A i \in 1..Len(rows) : rows'[i] = rows[i]
         /\ rows'[Len(rows) + 1] = row
         /\ active' \in ActiveCall /\ active'.call = row.call
         /\ active'.state = "terminalPersisted" /\ active'.updatedAt = now
         /\ pc' = "publish" /\ after' = next
  <1>1. rows' = Append(rows, row) /\ pc' = "publish" /\ after' = next
    BY DEF Finish, Publish
  <1>2. row.call \in 0..PlanLength
    BY CaptureAssumption DEF Row, Calls
  <1>3. /\ active' \in ActiveCall /\ active'.call = row.call
        /\ active'.state = "terminalPersisted" /\ active'.updatedAt = now
    BY <1>2, ActivateType DEF Finish
  <1>4. rows \in Seq(Row)
    BY DEF TypeOK
  <1> QED
    BY <1>1, <1>3, <1>4, Appended

(* The active call is the next one, or the one whose row is the last.      *)
LEMMA ActiveCallIs ==
  ASSUME TypeOK, LocalsInv, PlaceInv
  PROVE  /\ Place \in {"open", "prompt", "await"} =>
              /\ Len(rows) < PlanLength
              /\ active.call = Len(rows) + 1 /\ active.call \in Calls
         /\ Place \in {"close", "abandon"} =>
              /\ Len(rows) \in Calls
              /\ active.call = Len(rows) /\ active.call \in Calls
  <1>1. rows # <<>> => Len(rows) >= 1
    BY DEF TypeOK
  <1> QED
    BY <1>1, Types DEF LocalsInv, PlaceInv, ActiveFollowsRows, Calls

(* The row of a call that was made says what the model did.                *)
LEMMA Answered ==
  ASSUME TypeOK, active.call \in Calls, PromptReturns \/ PromptRaises
  PROVE  \E row \in Row, result \in Results :
           /\ pc = "await" /\ Finish(row, "close")
           /\ got' = [got EXCEPT ![active.call] = result]
           /\ row.call = active.call /\ row.dispatchStarted /\ FailureShape(row)
           /\ row.capturedAt = now /\ RowSays(row, result)
           /\ UNCHANGED <<disk, image, now, observed, startedAt, prompted, closed, crashes>>
  <1>1. CASE PromptReturns
    <2> DEFINE Outcome(result) == CASE result = "oversized" -> "oversizedOutput"
                                    [] result = "nonString" -> "nonStringOutput"
                                    [] OTHER -> "returnedString"
    <2>1. PICK result \in {"clean", "flawed", "oversized", "nonString"}, usage \in BOOLEAN :
            /\ result = "clean" => ~usage
            /\ result = "flawed" => usage
            /\ Finish(OutputRow(Outcome(result), usage), "close")
            /\ got' = [got EXCEPT ![active.call] = result]
      BY <1>1 DEF PromptReturns
    <2>2. Outcome(result) \in Outcomes \ {"failed"}
      BY <2>1 DEF Outcomes
    <2>3. RowSays(OutputRow(Outcome(result), usage), result)
      BY <2>1 DEF RowSays, OutputRow
    <2>4. pc = "await" /\ UNCHANGED <<disk, image, now, observed, startedAt, prompted,
                                     closed, crashes>>
      BY <1>1 DEF PromptReturns
    <2> HIDE DEF Outcome
    <2>5. /\ OutputRow(Outcome(result), usage) \in Row
          /\ OutputRow(Outcome(result), usage).call = active.call
          /\ OutputRow(Outcome(result), usage).dispatchStarted = TRUE
          /\ OutputRow(Outcome(result), usage).outcome = Outcome(result)
          /\ OutputRow(Outcome(result), usage).terminalFailure = "none"
          /\ OutputRow(Outcome(result), usage).capturedAt = now
      BY <2>1, <2>2, OutputRowIs
    <2>6. FailureShape(OutputRow(Outcome(result), usage))
      BY <2>2, <2>5 DEF FailureShape
    <2> QED
      BY <2>1, <2>3, <2>4, <2>5, <2>6 DEF Results
  <1>2. CASE PromptRaises
    <2>1. PICK flawed \in BOOLEAN : Finish(FailedRow("modelCallFailed", TRUE, flawed), "close")
      BY <1>2 DEF PromptRaises
    <2>2. /\ FailedRow("modelCallFailed", TRUE, flawed) \in Row
          /\ FailedRow("modelCallFailed", TRUE, flawed).call = active.call
          /\ FailedRow("modelCallFailed", TRUE, flawed).dispatchStarted
          /\ FailedRow("modelCallFailed", TRUE, flawed).capturedAt = now
          /\ FailureShape(FailedRow("modelCallFailed", TRUE, flawed))
          /\ RowSays(FailedRow("modelCallFailed", TRUE, flawed), "raised")
      BY <2>1, FailedRowIs DEF FailureShape, RowSays
    <2>3. /\ pc = "await" /\ got' = [got EXCEPT ![active.call] = "raised"]
          /\ UNCHANGED <<disk, image, now, observed, startedAt, prompted, closed, crashes>>
      BY <1>2 DEF PromptRaises
    <2> QED
      BY <2>1, <2>2, <2>3 DEF Results
  <1> QED
    BY <1>1, <1>2

LEMMA NextType ==
  ASSUME TypeOK, LocalsInv, PlaceInv, [Next]_vars
  PROVE  TypeOK'
  <1>1. CASE Begin \/ PreflightFails \/ PreflightPasses
    BY <1>1 DEF Begin, PreflightFails, PreflightPasses, Publish, TypeOK,
                Steps, locals, history
  <1>2. CASE PublishReplace
    BY <1>2, PayloadType, FileReplaced
       DEF PublishReplace, TypeOK, Steps, locals, history
  <1>3. CASE PublishSync
    BY <1>3, FileSynced DEF PublishSync, TypeOK, Steps, Ended, locals, history
  <1>4. CASE PrepareCall
    <2>1. Len(rows) + 1 \in 0..PlanLength /\ Len(rows) + 1 \in Nat
      BY <1>4, Types DEF PrepareCall
    <2>2. active' \in ActiveCall
      BY <1>4, <2>1, ActivateType DEF PrepareCall
    <2> QED
      BY <1>4, <2>2 DEF PrepareCall, Publish, TypeOK, Steps, history
  <1>5. CASE PlanEnds
    BY <1>5 DEF PlanEnds, TypeOK, Ended, locals, history
  <1>6. CASE ChatOpens
    <2>1. active.call \in 0..PlanLength
      BY DEF TypeOK, ActiveCall
    <2>2. active' \in ActiveCall
      BY <1>6, <2>1, ActivateType DEF ChatOpens
    <2> QED
      BY <1>6, <2>2 DEF ChatOpens, Publish, TypeOK, Steps, history
  <1>7. CASE ChatOpenFails
    <2>1. Len(rows) < PlanLength /\ active.call \in Calls
      BY <1>7, ActiveCallIs DEF ChatOpenFails, Place
    <2>2. FailedRow("chatOpenFailed", FALSE, TRUE) \in Row
      BY <2>1, FailedRowIs
    <2>3. /\ rows' \in Seq(Row) /\ Len(rows') = Len(rows) + 1
          /\ active' \in ActiveCall /\ pc' = "publish" /\ after' = "abandon"
      BY <1>7, <2>1, <2>2, FinishType DEF ChatOpenFails, Position
    <2>4. Len(rows') <= PlanLength
      BY <2>1, <2>3, Types
    <2> QED
      BY <1>7, <2>3, <2>4 DEF ChatOpenFails, TypeOK, Steps, history
  <1>8. CASE Prompt
    <2>1. active.call \in Calls
      BY <1>8, ActiveCallIs DEF Prompt, Place
    <2> QED
      BY <1>8, <2>1 DEF Prompt, TypeOK, Steps, locals
  <1>9. CASE PromptReturns \/ PromptRaises
    <2>1. Len(rows) < PlanLength /\ active.call \in Calls
      BY <1>9, ActiveCallIs DEF PromptReturns, PromptRaises, Place
    <2>2. PICK row \in Row, result \in Results :
            /\ Finish(row, "close") /\ got' = [got EXCEPT ![active.call] = result]
            /\ UNCHANGED <<disk, image, now, observed, startedAt, prompted, closed, crashes>>
      BY <1>9, <2>1, Answered
    <2>3. /\ rows' \in Seq(Row) /\ Len(rows') = Len(rows) + 1
          /\ active' \in ActiveCall /\ pc' = "publish" /\ after' = "close"
      BY <2>1, <2>2, FinishType DEF Position
    <2>4. Len(rows') <= PlanLength
      BY <2>1, <2>3, Types
    <2> QED
      BY <2>2, <2>3, <2>4 DEF TypeOK, Steps
  <1>12. CASE Unrepresentable
    BY <1>12 DEF Unrepresentable, TypeOK, Ended, Results, locals
  <1>13. CASE ChatCloses
    <2>1. active.call \in Calls
      BY <1>13, ActiveCallIs DEF ChatCloses, Place
    <2>2. NoActive \in ActiveCall
      BY CaptureAssumption DEF NoActive, ActiveCall
    <2> QED
      BY <1>13, <2>1, <2>2 DEF ChatCloses, Publish, TypeOK, Steps
  <1>14. CASE ChatCloseFails
    <2>1. Len(rows) >= 1
      BY <1>14, ActiveCallIs DEF ChatCloseFails, Place, Calls
    <2>2. /\ rows' = [rows EXCEPT ![Len(rows)] = CloseFailed(rows[Len(rows)], now)]
          /\ now \in 0..MaxTime /\ rows \in Seq(Row)
      BY <1>14 DEF ChatCloseFails, CloseFailed, TypeOK
    <2>3. rows' \in Seq(Row) /\ Len(rows') = Len(rows)
      BY <2>1, <2>2, LastCloseFailed
    <2>4. active' \in ActiveCall
      BY <1>14 DEF ChatCloseFails, TypeOK, ActiveCall
    <2> QED
      BY <1>14, <2>3, <2>4 DEF ChatCloseFails, Publish, TypeOK, Steps, history
  <1>15. CASE Abandon
    <2>1. NoActive \in ActiveCall
      BY CaptureAssumption DEF NoActive, ActiveCall
    <2> QED
      BY <1>15, <2>1 DEF Abandon, Publish, TypeOK, Steps, history
  <1>16. CASE Tick
    <2>1. now + 1 \in 0..MaxTime
      BY <1>16, Types DEF Tick
    <2> QED
      BY <1>16, <2>1 DEF Tick, TypeOK, locals, history
  <1>17. CASE Interrupted
    BY <1>17 DEF Interrupted, TypeOK, Ended, locals, history
  <1>18. CASE MachineCrash
    <2>1. crashes + 1 \in 0..MaxCrashes
      BY <1>18, CaptureAssumption DEF MachineCrash, TypeOK
    <2> QED
      BY <1>18, <2>1, FileLost DEF MachineCrash, TypeOK, Ended, locals, history
  <1>19. CASE UNCHANGED vars
    BY <1>19 DEF vars, locals, history, TypeOK
  <1> QED
    BY <1>1, <1>2, <1>3, <1>4, <1>5, <1>6, <1>7, <1>8, <1>9, <1>12,
       <1>13, <1>14, <1>15, <1>16, <1>17, <1>18, <1>19 DEF Next

-----------------------------------------------------------------------------
(* The rows follow the plan and say what the model did.                    *)

(* A step that ends a call appends the row of that call.                   *)
LEMMA FinishLocals ==
  ASSUME TypeOK, LocalsInv, NEW row \in Row, NEW next \in Position, Finish(row, next),
         Len(rows) < PlanLength, observed,
         active.state \in {"prepared", "dispatching"},
         active.state = "dispatching" => row.dispatchStarted,
         row.call = Len(rows) + 1, active.call = Len(rows) + 1, FailureShape(row),
         row.capturedAt = now,
         row.dispatchStarted => RowSays(row, got'[Len(rows) + 1]),
         \A i \in 1..Len(rows) : got'[i] = got[i],
         UNCHANGED <<now, observed, startedAt, prompted>>
  PROVE  LocalsInv'
  <1>1. /\ rows' \in Seq(Row) /\ Len(rows') = Len(rows) + 1
        /\ \A i \in 1..Len(rows) : rows'[i] = rows[i]
        /\ rows'[Len(rows) + 1] = row
        /\ active'.call = row.call
        /\ active'.state = "terminalPersisted" /\ active'.updatedAt = now
    BY FinishType
  <1>2. DOMAIN rows' = 1..(Len(rows) + 1) /\ rows' # <<>>
    BY <1>1, Types
  <1>3. \A i \in DOMAIN rows : rows[i].capturedAt <= now /\ rows[i].capturedAt \in Nat
    BY Types DEF LocalsInv, TimesNow, Row
  <1>4. RowsFollowPlan(rows')
    <2>0. \A i \in 1..Len(rows) :
            /\ rows[i].call = i /\ FailureShape(rows[i])
            /\ \A j \in 1..i : rows[j].capturedAt <= rows[i].capturedAt
      BY Types DEF LocalsInv, RowsFollowPlan
    <2>1. ASSUME NEW i \in DOMAIN rows'
          PROVE  /\ rows'[i].call = i
                 /\ FailureShape(rows'[i])
                 /\ \A j \in 1..i : rows'[j].capturedAt <= rows'[i].capturedAt
      <3>1. CASE i \in 1..Len(rows)
        <4>1. rows'[i] = rows[i] /\ \A j \in 1..i : rows'[j] = rows[j]
          BY <1>1, <3>1, Types
        <4> QED
          BY <2>0, <3>1, <4>1
      <3>2. CASE i = Len(rows) + 1
        <4>1. rows'[i] = row
          BY <1>1, <3>2
        <4>2. ASSUME NEW j \in 1..i
              PROVE  rows'[j].capturedAt <= now
          <5>1. CASE j = i
            BY <4>1, <5>1, Types
          <5>2. CASE j \in 1..Len(rows)
            BY <1>1, <1>3, <5>2, Types
          <5> QED
            BY <3>2, <4>2, <5>1, <5>2, Types
        <4> QED
          BY <3>2, <4>1, <4>2
      <3> QED
        BY <1>2, <3>1, <3>2, Types
    <2> QED
      BY <1>1, <2>1, Types DEF RowsFollowPlan
  <1>5. ActiveFollowsRows(active', rows')
    BY <1>1, <1>2 DEF ActiveFollowsRows
  <1>6. TimesNow'
    BY <1>1, <1>2, <1>3, Types DEF LocalsInv, TimesNow
  <1>7. Accounts(rows', active', prompted', got')
    BY <1>1, <1>2, Types DEF LocalsInv, Accounts
  <1> QED
    BY <1>4, <1>5, <1>6, <1>7 DEF LocalsInv

(* The active call changes, the rows do not.                               *)
LEMMA ActiveLocals ==
  ASSUME TypeOK, LocalsInv, UNCHANGED <<now, observed, startedAt, rows, prompted, got>>,
         ActiveFollowsRows(active', rows),
         active'.state # "none" => active'.updatedAt = now,
         active.state = "dispatching" => active' = active,
         observed \/ active' = active
  PROVE  LocalsInv'
  <1>1. RowsFollowPlan(rows)' /\ ActiveFollowsRows(active, rows)'
    BY DEF LocalsInv, RowsFollowPlan
  <1>2. TimesNow'
    BY Types DEF LocalsInv, TimesNow
  <1>3. Accounts(rows, active, prompted, got)'
    BY DEF LocalsInv, Accounts
  <1> QED
    BY <1>1, <1>2, <1>3 DEF LocalsInv

LEMMA CloseFailsRows ==
  ASSUME TypeOK, LocalsInv, PlaceInv, ChatCloseFails
  PROVE  /\ pc = "close" /\ Len(rows) \in Calls /\ Len(rows) >= 1
         /\ rows[Len(rows)] \in Row /\ now \in 0..MaxTime
         /\ rows' \in Seq(Row) /\ Len(rows') = Len(rows)
         /\ DOMAIN rows = 1..Len(rows) /\ DOMAIN rows' = 1..Len(rows)
         /\ Len(rows) \in DOMAIN rows'
         /\ \A i \in DOMAIN rows : i \in 1..(Len(rows) - 1) \/ i = Len(rows)
         /\ \A i \in 1..(Len(rows) - 1) : rows'[i] = rows[i]
         /\ rows'[Len(rows)] = CloseFailed(rows[Len(rows)], now)
         /\ rows'[Len(rows)].lifecycleFailure = TRUE
         /\ rows'[Len(rows)].capturedAt = now
  <1>1. pc = "close" /\ Len(rows) \in Calls
    BY ActiveCallIs DEF ChatCloseFails, Place
  <1>2. Len(rows) >= 1 /\ Len(rows) \in Nat
    BY <1>1, Types DEF Calls
  <1>3. rows' = [rows EXCEPT ![Len(rows)] = CloseFailed(rows[Len(rows)], now)]
    BY DEF ChatCloseFails, CloseFailed
  <1>4. rows \in Seq(Row) /\ now \in 0..MaxTime
    BY DEF TypeOK
  <1>5. /\ rows' \in Seq(Row) /\ Len(rows') = Len(rows) /\ DOMAIN rows' = 1..Len(rows)
        /\ \A i \in 1..(Len(rows) - 1) : rows'[i] = rows[i]
        /\ rows'[Len(rows)] = CloseFailed(rows[Len(rows)], now)
    BY <1>2, <1>3, <1>4, LastCloseFailed
  <1>6. Len(rows) \in DOMAIN rows /\ rows[Len(rows)] \in Row
    BY <1>2, <1>4
  <1>7. /\ CloseFailed(rows[Len(rows)], now).lifecycleFailure = TRUE
        /\ CloseFailed(rows[Len(rows)], now).capturedAt = now
    BY <1>4, <1>6, CloseFailedRow
  <1>8. DOMAIN rows = 1..Len(rows)
    BY <1>4
  <1>9. \A i \in DOMAIN rows : i \in 1..(Len(rows) - 1) \/ i = Len(rows)
    BY <1>2, <1>8
  <1>10. Len(rows) \in DOMAIN rows'
    BY <1>2, <1>5
  <1> QED
    BY <1>1, <1>2, <1>4, <1>5, <1>6, <1>7, <1>8, <1>9, <1>10

LEMMA CloseFailsLocals ==
  ASSUME TypeOK, LocalsInv, PlaceInv, ChatCloseFails
  PROVE  LocalsInv'
  <1>1. /\ pc = "close" /\ Len(rows) \in Calls /\ active.call = Len(rows)
        /\ active.state = "terminalPersisted" /\ rows[Len(rows)].dispatchStarted
        /\ observed
    BY ActiveCallIs DEF ChatCloseFails, Place, PlaceInv
  <1>2. /\ rows' = [rows EXCEPT ![Len(rows)] = CloseFailed(rows[Len(rows)], now)]
        /\ rows \in Seq(Row) /\ now \in 0..MaxTime /\ Len(rows) >= 1
        /\ UNCHANGED <<now, observed, startedAt, prompted, got>>
    BY <1>1 DEF ChatCloseFails, CloseFailed, TypeOK, Calls, history
  <1>3. active' = [active EXCEPT !.updatedAt = now]
    BY DEF ChatCloseFails
  <1>4. /\ active'.call = Len(rows) /\ active'.state = "terminalPersisted"
        /\ active'.updatedAt = now
    BY <1>1, <1>3, Types DEF ActiveCall
  <1>5. /\ rows' \in Seq(Row) /\ Len(rows') = Len(rows) /\ DOMAIN rows' = 1..Len(rows)
        /\ \A i \in 1..(Len(rows) - 1) : rows'[i] = rows[i]
        /\ rows'[Len(rows)] = CloseFailed(rows[Len(rows)], now)
    BY <1>2, LastCloseFailed
  <1>6. PICK old \in Row : old = rows[Len(rows)]
    BY <1>1, <1>2, Types
  <1>7. PICK last \in Row : last = CloseFailed(old, now)
    BY <1>2, <1>6, CloseFailedRow
  <1>8. /\ last.call = old.call /\ last.dispatchStarted = old.dispatchStarted
        /\ last.outcome = old.outcome /\ last.terminalFailure = old.terminalFailure
        /\ last.flawed = old.flawed
        /\ last.lifecycleFailure = TRUE /\ last.capturedAt = now
    BY <1>2, <1>7, CloseFailedRow
  <1>14. rows'[Len(rows)] = last
    BY <1>5, <1>6, <1>7
  <1>15. /\ old.call = Len(rows) /\ FailureShape(old) /\ old.dispatchStarted
         /\ RowSays(old, got[Len(rows)])
    BY <1>1, <1>2, <1>6, Types DEF LocalsInv, RowsFollowPlan, Accounts
  <1>16. /\ last.call = Len(rows) /\ FailureShape(last) /\ last.dispatchStarted
         /\ RowSays(last, got[Len(rows)])
    BY <1>8, <1>15 DEF FailureShape, RowSays
  <1>9. \A i \in DOMAIN rows : rows[i].capturedAt <= now /\ rows[i].capturedAt \in Nat
                              /\ startedAt <= now
    BY Types DEF LocalsInv, TimesNow, Row
  <1>10. RowsFollowPlan(rows')
    <2>1. ASSUME NEW i \in DOMAIN rows'
          PROVE  /\ rows'[i].call = i
                 /\ FailureShape(rows'[i])
                 /\ \A j \in 1..i : rows'[j].capturedAt <= rows'[i].capturedAt
      <3>1. CASE i \in 1..(Len(rows) - 1)
        <4>1. i \in DOMAIN rows /\ \A j \in 1..i : rows'[j] = rows[j] /\ j \in 1..Len(rows)
          BY <1>5, <3>1, Types
        <4> QED
          BY <1>5, <3>1, <4>1 DEF LocalsInv, RowsFollowPlan
      <3>2. CASE i = Len(rows)
        <4>1. rows'[i] = last
          BY <1>14, <3>2
        <4>2. ASSUME NEW j \in 1..i
              PROVE  rows'[j].capturedAt <= now
          <5>1. CASE j = Len(rows)
            BY <1>2, <1>8, <1>14, <5>1, Types
          <5>2. CASE j \in 1..(Len(rows) - 1)
            BY <1>5, <1>9, <5>2, Types
          <5> QED
            BY <3>2, <4>2, <5>1, <5>2, Types
        <4> QED
          BY <1>8, <1>16, <3>2, <4>1, <4>2
      <3>3. i \in 1..(Len(rows) - 1) \/ i = Len(rows)
        BY <1>5, Types
      <3> QED
        BY <3>1, <3>2, <3>3
    <2> QED
      BY <1>5, <2>1, Types DEF RowsFollowPlan
  <1>11. ActiveFollowsRows(active', rows')
    <2>1. rows' # <<>>
      <3>1. Len(rows') >= 1
        BY <1>2, <1>5
      <3> QED
        BY <3>1
    <2> QED
      BY <1>4, <1>5, <2>1 DEF ActiveFollowsRows
  <1>12. TimesNow'
    <2>1. \A i \in DOMAIN rows' : /\ startedAt <= rows'[i].capturedAt
                                  /\ rows'[i].capturedAt <= now
      BY <1>2, <1>5, <1>8, <1>9, <1>14, Types DEF LocalsInv, TimesNow
    <2> QED
      BY <1>2, <1>4, <1>9, <2>1, Types DEF LocalsInv, TimesNow
  <1>13. Accounts(rows', active', prompted', got')
    <2>1. prompted \subseteq {i \in DOMAIN rows : rows[i].dispatchStarted}
      BY <1>1 DEF LocalsInv, Accounts
    <2>2. \A i \in DOMAIN rows : rows'[i].dispatchStarted = rows[i].dispatchStarted
      BY <1>2, <1>5, <1>6, <1>8, <1>14, Types
    <2>3. \A i \in DOMAIN rows' : rows'[i].dispatchStarted => RowSays(rows'[i], got[i])
      BY <1>2, <1>5, <1>14, <1>16, Types DEF LocalsInv, Accounts
    <2> QED
      BY <1>2, <1>5, <2>1, <2>2, <2>3, Types DEF Accounts
  <1> QED
    BY <1>1, <1>2, <1>10, <1>11, <1>12, <1>13 DEF LocalsInv

LEMMA NextLocals ==
  ASSUME TypeOK, LocalsInv, PlaceInv, [Next]_vars
  PROVE  LocalsInv'
  <1>1. CASE UNCHANGED <<now, observed, startedAt, rows, active, prompted, got>>
    BY <1>1 DEF LocalsInv, TimesNow
  <1>2. CASE Begin
    <2>1. /\ rows = <<>> /\ active = NoActive
          /\ UNCHANGED <<now, observed, rows, active, prompted, got>>
          /\ startedAt' = now
      BY <1>2 DEF Begin, PlaceInv, Place, LocalsInv, history
    <2>2. TimesNow'
      BY <2>1, Types DEF TimesNow, NoActive
    <2> QED
      BY <2>1, <2>2 DEF LocalsInv
  <1>3. CASE PreflightPasses
    <2>1. observed' /\ UNCHANGED <<now, startedAt, rows, active, prompted, got>>
      BY <1>3 DEF PreflightPasses, history
    <2> QED
      BY <2>1 DEF LocalsInv, TimesNow
  <1>4. CASE PrepareCall
    <2>1. /\ UNCHANGED <<now, observed, startedAt, rows, prompted, got>>
          /\ active = NoActive /\ observed /\ Len(rows) < PlanLength
          /\ active' = [call |-> Len(rows) + 1, state |-> "prepared", updatedAt |-> now]
      BY <1>4 DEF PrepareCall, Activate, PlaceInv, Place, history
    <2>2. ActiveFollowsRows(active', rows)
      BY <2>1 DEF ActiveFollowsRows
    <2> QED
      BY <2>1, <2>2, ActiveLocals DEF NoActive
  <1>5. CASE ChatOpens
    <2>1. /\ UNCHANGED <<now, observed, startedAt, rows, prompted, got>>
          /\ active.state = "prepared" /\ observed
          /\ Len(rows) < PlanLength /\ active.call = Len(rows) + 1
          /\ active' = [call |-> active.call, state |-> "dispatching", updatedAt |-> now]
      BY <1>5, ActiveCallIs DEF ChatOpens, Activate, PlaceInv, Place, history
    <2>2. ActiveFollowsRows(active', rows)
      BY <2>1 DEF ActiveFollowsRows
    <2> QED
      BY <2>1, <2>2, ActiveLocals
  <1>6. CASE ChatOpenFails
    <2>1. /\ Len(rows) < PlanLength /\ active.call = Len(rows) + 1 /\ active.call \in Calls
          /\ active.state = "prepared" /\ observed
          /\ Finish(FailedRow("chatOpenFailed", FALSE, TRUE), "abandon")
          /\ UNCHANGED <<now, observed, startedAt, prompted, got>>
      BY <1>6, ActiveCallIs DEF ChatOpenFails, PlaceInv, Place, history
    <2>2. /\ FailedRow("chatOpenFailed", FALSE, TRUE) \in Row
          /\ FailedRow("chatOpenFailed", FALSE, TRUE).call = active.call
          /\ FailedRow("chatOpenFailed", FALSE, TRUE).dispatchStarted = FALSE
          /\ FailedRow("chatOpenFailed", FALSE, TRUE).outcome = "failed"
          /\ FailedRow("chatOpenFailed", FALSE, TRUE).terminalFailure = "chatOpenFailed"
          /\ FailedRow("chatOpenFailed", FALSE, TRUE).lifecycleFailure = FALSE
          /\ FailedRow("chatOpenFailed", FALSE, TRUE).capturedAt = now
      BY <2>1, FailedRowIs
    <2>3. FailureShape(FailedRow("chatOpenFailed", FALSE, TRUE))
      BY <2>2 DEF FailureShape
    <2> QED
      BY <2>1, <2>2, <2>3, FinishLocals DEF Position
  <1>7. CASE Prompt
    <2>1. /\ active.state = "dispatching" /\ prompted' = prompted \cup {active.call}
          /\ UNCHANGED <<now, observed, startedAt, rows, active, got>>
      BY <1>7 DEF Prompt, PlaceInv, Place, locals
    <2> QED
      BY <2>1 DEF LocalsInv, TimesNow, Accounts
  <1>8. CASE PromptReturns \/ PromptRaises
    <2>1. /\ Len(rows) < PlanLength /\ active.call = Len(rows) + 1 /\ active.call \in Calls
          /\ active.state = "dispatching" /\ observed
      BY <1>8, ActiveCallIs DEF PromptReturns, PromptRaises, PlaceInv, Place
    <2>2. PICK row \in Row, result \in Results :
            /\ Finish(row, "close")
            /\ got' = [got EXCEPT ![active.call] = result]
            /\ row.call = active.call /\ row.dispatchStarted /\ FailureShape(row)
            /\ row.capturedAt = now /\ RowSays(row, result)
            /\ UNCHANGED <<disk, image, now, observed, startedAt, prompted, closed, crashes>>
      BY <1>8, <2>1, Answered
    <2>3. /\ got'[Len(rows) + 1] = result
          /\ \A i \in 1..Len(rows) : got'[i] = got[i]
      BY <2>1, <2>2, Types
    <2> QED
      BY <2>1, <2>2, <2>3, FinishLocals DEF Position
  <1>9. CASE Unrepresentable
    <2>1. /\ active.call = Len(rows) + 1 /\ active.call \in Calls
          /\ got' = [got EXCEPT ![active.call] = "unrepresentable"]
          /\ UNCHANGED <<now, observed, startedAt, rows, active, prompted>>
      BY <1>9, ActiveCallIs DEF Unrepresentable, Place, locals
    <2>2. \A i \in DOMAIN rows : got'[i] = got[i]
      BY <2>1, Types
    <2> QED
      BY <2>1, <2>2 DEF LocalsInv, TimesNow, Accounts
  <1>10. CASE ChatCloses \/ Abandon
    <2>1. /\ UNCHANGED <<now, observed, startedAt, rows, prompted, got>>
          /\ active.state = "terminalPersisted" /\ observed /\ active' = NoActive
      BY <1>10 DEF ChatCloses, Abandon, PlaceInv, Place, history
    <2>2. ActiveFollowsRows(active', rows)
      BY <2>1 DEF ActiveFollowsRows, NoActive
    <2> QED
      BY <2>1, <2>2, ActiveLocals DEF NoActive
  <1>11. CASE ChatCloseFails
    BY <1>11, CloseFailsLocals
  <1>12. CASE Tick
    <2>1. /\ now' = now + 1
          /\ UNCHANGED <<observed, startedAt, rows, active, prompted, got>>
      BY <1>12 DEF Tick, locals, history
    <2>2. \A i \in DOMAIN rows : rows[i].capturedAt \in Nat
      BY Types DEF Row
    <2>3. active.updatedAt \in Nat
      BY Types DEF ActiveCall
    <2>4. TimesNow'
      BY <2>1, <2>2, <2>3, Types DEF LocalsInv, TimesNow
    <2> QED
      BY <2>1, <2>4 DEF LocalsInv
  <1>13. PreflightFails \/ PublishReplace \/ PublishSync \/ PlanEnds \/ Interrupted
           \/ MachineCrash \/ UNCHANGED vars
         => UNCHANGED <<now, observed, startedAt, rows, active, prompted, got>>
    BY DEF PreflightFails, PublishReplace, PublishSync, PlanEnds, Interrupted,
           MachineCrash, vars, locals, history
  <1> QED
    BY <1>1, <1>2, <1>3, <1>4, <1>5, <1>6, <1>7, <1>8, <1>9, <1>10, <1>11,
       <1>12, <1>13 DEF Next

-----------------------------------------------------------------------------
(* Where the task is, and what that says of the calls behind it.           *)

LEMMA NextPlace ==
  ASSUME TypeOK, LocalsInv, PlaceInv, [Next]_vars
  PROVE  PlaceInv'
  <1> USE DEF Place
  <1>0. /\ pc \in Steps \cup Ended /\ after \in Position
        /\ Len(rows) \in Nat /\ PlanLength \in Nat /\ PlanLength >= 1
        /\ disk[CapturePath] = NoFile => NoFile \notin Payloads
    BY Types, FileAssumption
  <1>1. CASE Begin
    BY <1>1 DEF Begin, PlaceInv, history
  <1>2. CASE PreflightFails
    <2>1. rows = <<>> /\ ~Faultless(rows)
      BY <1>0, <1>2 DEF PreflightFails, PlaceInv, LocalsInv, Faultless
    <2>2. pc' = "publish" /\ after' = "returned" /\ UNCHANGED <<rows, closed>>
      BY <1>2 DEF PreflightFails, Publish, locals, history
    <2> QED
      BY <2>1, <2>2 DEF PlaceInv
  <1>3. CASE PreflightPasses
    <2>1. rows = <<>> /\ active = NoActive
      BY <1>3 DEF PreflightPasses, PlaceInv, LocalsInv
    <2>2. pc' = "publish" /\ after' = "loop" /\ observed' /\ UNCHANGED <<rows, active>>
      BY <1>3 DEF PreflightPasses, Publish
    <2> QED
      BY <2>1, <2>2 DEF PlaceInv, Went
  <1>4. CASE PublishReplace
    <2>1. /\ pc = "publish" /\ pc' = "sync"
          /\ UNCHANGED <<after, observed, rows, active, prompted, got, closed>>
      BY <1>4 DEF PublishReplace, locals, history
    <2> QED
      BY <1>0, <2>1 DEF PlaceInv, Went, Position
  <1>5. CASE PublishSync
    <2>1. /\ pc = "sync" /\ pc' = after
          /\ UNCHANGED <<after, observed, rows, active, prompted, got, closed>>
      BY <1>5 DEF PublishSync, locals, history
    <2> QED
      BY <1>0, <2>1 DEF PlaceInv, Went, Position
  <1>6. CASE PrepareCall
    <2>1. /\ pc = "loop" /\ pc' = "publish" /\ after' = "open"
          /\ active' = [call |-> Len(rows) + 1, state |-> "prepared", updatedAt |-> now]
          /\ UNCHANGED <<observed, rows, prompted, got, closed>>
      BY <1>6 DEF PrepareCall, Activate, Publish, history
    <2> QED
      BY <2>1 DEF PlaceInv, Went
  <1>7. CASE PlanEnds
    <2>1. /\ pc = "loop" /\ pc' = "returned" /\ Len(rows) = PlanLength
          /\ UNCHANGED <<rows, closed>>
      BY <1>7 DEF PlanEnds, locals, history
    <2>2. Calls \subseteq closed
      BY <2>1 DEF PlaceInv, Went, Calls
    <2> QED
      BY <2>1, <2>2 DEF PlaceInv
  <1>8. CASE ChatOpens
    <2>1. /\ pc = "open" /\ pc' = "publish" /\ after' = "prompt"
          /\ active' = [call |-> active.call, state |-> "dispatching", updatedAt |-> now]
          /\ UNCHANGED <<observed, rows, prompted, got, closed>>
      BY <1>8 DEF ChatOpens, Activate, Publish, history
    <2> QED
      BY <2>1 DEF PlaceInv, Went
  <1>9. ASSUME NEW row \in Row, NEW next \in {"close", "abandon"}, Finish(row, next),
               pc \in {"open", "await"},
               next = "close" => row.dispatchStarted,
               next = "abandon" => row.terminalFailure # "none",
               UNCHANGED <<observed, closed>>,
               \A i \in 1..Len(rows) : got'[i] = got[i]
        PROVE  PlaceInv'
    <2>1. Len(rows) < PlanLength /\ observed /\ Went(Len(rows))
      BY <1>9, ActiveCallIs DEF PlaceInv
    <2>2. /\ Len(rows') = Len(rows) + 1 /\ rows' \in Seq(Row)
          /\ \A i \in 1..Len(rows) : rows'[i] = rows[i]
          /\ rows'[Len(rows) + 1] = row
          /\ active'.state = "terminalPersisted" /\ pc' = "publish" /\ after' = next
      BY <1>9, <2>1, FinishType DEF Position
    <2>3. \A i \in 1..(Len(rows') - 1) :
            /\ rows'[i].outcome = "returnedString"
            /\ i \in closed' /\ got'[i] \in {"clean", "flawed"}
      BY <1>0, <1>9, <2>1, <2>2 DEF Went
    <2>4. next = "abandon" => ~Faultless(rows')
      BY <1>0, <1>9, <2>2 DEF Faultless
    <2> QED
      BY <1>0, <1>9, <2>1, <2>2, <2>3, <2>4 DEF PlaceInv, Went
  <1>10. CASE ChatOpenFails
    <2>1. /\ active.call \in Calls /\ pc = "open"
          /\ Finish(FailedRow("chatOpenFailed", FALSE, TRUE), "abandon")
          /\ UNCHANGED <<observed, closed, got>>
      BY <1>10, ActiveCallIs DEF ChatOpenFails, history
    <2>2. /\ FailedRow("chatOpenFailed", FALSE, TRUE) \in Row
          /\ FailedRow("chatOpenFailed", FALSE, TRUE).terminalFailure = "chatOpenFailed"
      BY <2>1, FailedRowIs
    <2> QED
      BY <1>9, <2>1, <2>2
  <1>11. CASE Prompt
    <2>1. /\ pc = "prompt" /\ pc' = "await"
          /\ UNCHANGED <<observed, rows, active, got, closed>>
      BY <1>11 DEF Prompt, locals
    <2> QED
      BY <2>1 DEF PlaceInv, Went
  <1>12. CASE PromptReturns \/ PromptRaises
    <2>1. active.call = Len(rows) + 1 /\ active.call \in Calls
      BY <1>12, ActiveCallIs DEF PromptReturns, PromptRaises
    <2>2. PICK row \in Row, result \in Results :
            /\ pc = "await" /\ Finish(row, "close")
            /\ got' = [got EXCEPT ![active.call] = result]
            /\ row.dispatchStarted
            /\ UNCHANGED <<disk, image, now, observed, startedAt, prompted, closed, crashes>>
      BY <1>12, <2>1, Answered
    <2>3. \A i \in 1..Len(rows) : got'[i] = got[i]
      BY <2>1, <2>2, Types
    <2> QED
      BY <1>9, <2>2, <2>3
  <1>13. CASE Unrepresentable \/ Interrupted
    <2>1. pc' = "errored"
      BY <1>13 DEF Unrepresentable, Interrupted
    <2> QED
      BY <2>1 DEF PlaceInv
  <1>14. CASE ChatCloses
    <2>1. /\ pc = "close" /\ Len(rows) \in Calls /\ active.call = Len(rows)
          /\ closed' = closed \cup {active.call} /\ active' = NoActive /\ pc' = "publish"
          /\ after' = (IF rows[Len(rows)].outcome = "returnedString" THEN "loop"
                                                                     ELSE "returned")
          /\ UNCHANGED <<observed, rows, prompted, got>>
      BY <1>14, ActiveCallIs DEF ChatCloses, Publish
    <2>2. observed /\ Went(Len(rows) - 1) /\ rows[Len(rows)].dispatchStarted
      BY <2>1 DEF PlaceInv
    <2>3. \A i \in 1..Len(rows) : i \in closed'
      BY <1>0, <2>1, <2>2 DEF Went
    <2>4. CASE rows[Len(rows)].outcome = "returnedString"
      <3>1. got[Len(rows)] \in {"clean", "flawed"}
        BY <1>0, <2>1, <2>2, <2>4, Types DEF LocalsInv, Accounts, RowSays, Calls
      <3>2. Went(Len(rows))'
        BY <1>0, <2>1, <2>2, <2>3, <2>4, <3>1 DEF Went
      <3> QED
        BY <2>1, <2>2, <2>4, <3>2 DEF PlaceInv
    <2>5. CASE rows[Len(rows)].outcome # "returnedString"
      <3>1. Faultless(rows) => Calls \subseteq closed'
        BY <2>3 DEF Faultless, Calls
      <3> QED
        BY <2>1, <2>5, <3>1 DEF PlaceInv
    <2> QED
      BY <2>4, <2>5
  <1>15. CASE ChatCloseFails
    <2>1. /\ pc = "close" /\ Len(rows) \in Calls
          /\ pc' = "publish" /\ after' = "abandon"
          /\ active' = [active EXCEPT !.updatedAt = now]
          /\ UNCHANGED <<observed, prompted, got, closed>>
      BY <1>15, ActiveCallIs DEF ChatCloseFails, Publish, history
    <2>3. /\ Len(rows') = Len(rows) /\ \A i \in 1..(Len(rows) - 1) : rows'[i] = rows[i]
      BY <1>15, CloseFailsRows
    <2>5. ~Faultless(rows')
      <3>1. /\ Len(rows) \in DOMAIN rows'
            /\ rows'[Len(rows)].lifecycleFailure = TRUE
        BY <1>15, CloseFailsRows
      <3> QED
        BY <3>1 DEF Faultless
    <2>6. observed /\ Went(Len(rows) - 1) /\ active'.state = "terminalPersisted"
      BY <2>1, Types DEF PlaceInv, ActiveCall
    <2>7. Went(Len(rows) - 1)'
      BY <2>1, <2>3, <2>6 DEF Went
    <2> QED
      BY <2>1, <2>5, <2>6, <2>7 DEF PlaceInv
  <1>16. CASE Abandon
    <2>1. /\ pc' = "publish" /\ after' = "returned" /\ ~Faultless(rows)
          /\ UNCHANGED rows
      BY <1>16 DEF Abandon, Publish, PlaceInv
    <2> QED
      BY <2>1 DEF PlaceInv
  <1>17. CASE Tick
    BY <1>17 DEF Tick, PlaceInv, Went, locals, history
  <1>18. CASE MachineCrash
    <2>1. /\ pc' \in {"killed", "returned", "errored"}
          /\ pc' = "returned" => pc = "returned"
          /\ UNCHANGED <<rows, closed>>
      BY <1>18 DEF MachineCrash, Ended, locals, history
    <2> QED
      BY <2>1 DEF PlaceInv
  <1>19. CASE UNCHANGED vars
    BY <1>19 DEF vars, PlaceInv, Went, locals, history
  <1> QED
    BY <1>1, <1>2, <1>3, <1>4, <1>5, <1>6, <1>7, <1>8, <1>10, <1>11, <1>12,
       <1>13, <1>14, <1>15, <1>16, <1>17, <1>18, <1>19 DEF Next

-----------------------------------------------------------------------------
(* The file shows the rows of the last publish, and rows only grow.        *)

LEMMA GrowsToItself ==
  ASSUME NEW results
  PROVE  Len(results) \in Nat => RowsGrow(results, results)
  BY DEF RowsGrow

(* What the last step did to the rows, if the file was up to date.         *)
LEMMA StepGrows ==
  ASSUME TypeOK, LocalsInv, PlaceInv, FileInv, [Next]_vars, pc' = "publish", pc # "publish"
  PROVE  /\ disk' = disk
         /\ disk[CapturePath] = NoFile \/ RowsGrow(disk[CapturePath].rows, rows')
  <1>0. pc # "sync" /\ UNCHANGED <<disk, image>>
    <2>1. PublishSync => pc' # "publish"
      BY Types DEF PublishSync, Position
    <2> QED
      BY <2>1, Types DEF Next, Begin, PreflightFails, PreflightPasses, PublishReplace,
         PrepareCall, PlanEnds, ChatOpens, ChatOpenFails, Prompt, PromptReturns,
         Unrepresentable, PromptRaises, ChatCloses, ChatCloseFails, Abandon, Tick,
         Interrupted, MachineCrash, Finish, Publish, vars
  <1>1. CASE pc \in {"start", "preflight"}
    BY <1>0, <1>1 DEF PlaceInv, Place
  <1>2. CASE pc \in Quiet
    <2>1. disk[CapturePath].rows = rows /\ Len(rows) \in Nat
      BY <1>2, Types DEF FileInv
    <2>2. CASE rows' = rows
      BY <1>0, <2>1, <2>2, GrowsToItself
    <2>3. ASSUME NEW row \in Row, Len(rows) < PlanLength, NEW next \in Position,
                 Finish(row, next)
          PROVE  RowsGrow(rows, rows')
      <3>1. /\ Len(rows') = Len(rows) + 1
            /\ \A i \in 1..Len(rows) : rows'[i] = rows[i]
        BY <2>3, FinishType
      <3>2. Len(rows) <= Len(rows') /\ DOMAIN rows = 1..Len(rows)
        BY <3>1, Types
      <3> QED
        BY <3>1, <3>2 DEF RowsGrow
    <2>4. CASE ChatOpenFails
      <3>1. Len(rows) < PlanLength /\ active.call \in Calls
        BY <2>4, ActiveCallIs DEF ChatOpenFails, Place
      <3>2. FailedRow("chatOpenFailed", FALSE, TRUE) \in Row
        BY <3>1, FailedRowIs
      <3> QED
        BY <1>0, <2>1, <2>3, <2>4, <3>1, <3>2 DEF ChatOpenFails, Position
    <2>5. CASE PromptReturns \/ PromptRaises
      <3>1. Len(rows) < PlanLength /\ active.call \in Calls
        BY <2>5, ActiveCallIs DEF PromptReturns, PromptRaises, Place
      <3>2. PICK row \in Row : Finish(row, "close")
        BY <2>5, <3>1, Answered
      <3> QED
        BY <1>0, <2>1, <2>3, <3>1, <3>2 DEF Position
    <2>6. CASE ChatCloseFails
      <3>1. /\ Len(rows') = Len(rows) /\ Len(rows) \in Nat
            /\ \A i \in 1..(Len(rows) - 1) : rows'[i] = rows[i]
            /\ rows'[Len(rows)] = CloseFailed(rows[Len(rows)], now)
            /\ rows'[Len(rows)].capturedAt = now
            /\ \A i \in DOMAIN rows : i \in 1..(Len(rows) - 1) \/ i = Len(rows)
        BY <2>1, <2>6, CloseFailsRows
      <3>2. rows'[Len(rows)] = [rows[Len(rows)] EXCEPT !.lifecycleFailure = TRUE,
                                  !.capturedAt = rows'[Len(rows)].capturedAt]
        BY <3>1, Zenon DEF CloseFailed
      <3>3. ASSUME NEW i \in DOMAIN rows
            PROVE  \/ rows'[i] = rows[i]
                   \/ /\ i = Len(rows) /\ Len(rows') = i
                      /\ rows'[i] = [rows[i] EXCEPT !.lifecycleFailure = TRUE,
                                                    !.capturedAt = rows'[i].capturedAt]
        BY <3>1, <3>2, <3>3, Zenon
      <3>4. Len(rows) <= Len(rows')
        BY <3>1
      <3> QED
        BY <1>0, <2>1, <3>3, <3>4, Zenon DEF RowsGrow
    <2>7. rows' = rows \/ ChatOpenFails \/ PromptReturns \/ PromptRaises \/ ChatCloseFails
      BY DEF Next, Begin, PreflightFails, PreflightPasses, PublishReplace, PublishSync,
         PrepareCall, PlanEnds, ChatOpens, Prompt,
         Unrepresentable, ChatCloses, Abandon, Tick,
         Interrupted, MachineCrash, vars, locals
    <2> QED
      BY <2>2, <2>4, <2>5, <2>6, <2>7
  <1>3. pc \notin Ended
    BY DEF Next, Begin, PreflightFails, PreflightPasses, PublishReplace, PublishSync,
         PrepareCall, PlanEnds, ChatOpens, ChatOpenFails, Prompt, PromptReturns,
         Unrepresentable, PromptRaises, ChatCloses, ChatCloseFails, Abandon, Tick,
         Interrupted, MachineCrash, Finish, Publish, vars, Ended
  <1> QED
    BY <1>0, <1>1, <1>2, <1>3, Types DEF Steps, Quiet

LEMMA NextFile ==
  ASSUME TypeOK, LocalsInv, PlaceInv, FileInv, [Next]_vars
  PROVE  FileInv'
  <1>0. /\ pc \in Steps \cup Ended /\ after \in Position
        /\ \A i \in Quiet : i \notin {"publish", "sync"} \cup Ended
    BY Types DEF Quiet, Ended
  <1>1. CASE pc' = "publish" /\ pc # "publish"
    <2>1. /\ disk' = disk
          /\ disk[CapturePath] = NoFile \/ RowsGrow(disk[CapturePath].rows, rows')
      BY <1>1, StepGrows
    <2>2. image' = image
      BY <1>1, Types DEF Next, Begin, PreflightFails, PreflightPasses, PublishReplace,
         PublishSync, Position, PrepareCall, PlanEnds, ChatOpens, ChatOpenFails, Prompt,
         PromptReturns, Unrepresentable, PromptRaises, ChatCloses, ChatCloseFails,
         Abandon, Tick, Interrupted, MachineCrash, Finish, Publish, vars
    <2>3. pc' \notin Quiet \cup {"sync"}
      BY <1>1 DEF Quiet
    <2> QED
      BY <1>1, <2>1, <2>2, <2>3 DEF FileInv
  <1>2. CASE PublishReplace
    <2>1. /\ disk'[CapturePath] = Payload
          /\ image'[CapturePath] = image[CapturePath] \cup {Payload}
      BY <1>2, FileReplaced, PayloadType DEF PublishReplace
    <2>2. pc' = "sync" /\ UNCHANGED <<rows, active>>
      BY <1>2 DEF PublishReplace, locals
    <2> QED
      BY <2>1, <2>2, PayloadType DEF FileInv, Quiet
  <1>3. CASE PublishSync
    <2>1. disk' = disk /\ image'[CapturePath] = {disk[CapturePath]}
      BY <1>3, FileSynced DEF PublishSync
    <2>2. pc = "sync" /\ pc' = after /\ UNCHANGED <<rows, active>>
      BY <1>3 DEF PublishSync, locals
    <2> QED
      BY <1>0, <2>1, <2>2 DEF FileInv, Position, Quiet
  <1>4. CASE MachineCrash
    <2>1. disk'[CapturePath] \in image'[CapturePath]
      BY <1>4, FileLost DEF MachineCrash
    <2>2. pc' \in Ended
      BY <1>4 DEF MachineCrash, Ended
    <2> QED
      BY <2>1, <2>2 DEF FileInv, Quiet, Ended
  <1>5. CASE pc' = pc /\ UNCHANGED <<disk, image, rows, active>>
    BY <1>5 DEF FileInv
  <1>6. CASE Begin \/ PlanEnds \/ Prompt \/ Interrupted \/ Unrepresentable
    <2>1. /\ UNCHANGED <<disk, image, rows, active>>
          /\ \/ pc' \in {"preflight", "returned", "errored"}
             \/ pc' = "await" /\ pc = "prompt"
      BY <1>6 DEF Begin, PlanEnds, Prompt, Interrupted, Unrepresentable, locals
    <2> QED
      BY <2>1 DEF FileInv, Quiet
  <1>7. \/ PublishReplace \/ PublishSync \/ MachineCrash
        \/ Begin \/ PlanEnds \/ Prompt \/ Interrupted \/ Unrepresentable
        \/ pc' = pc /\ UNCHANGED <<disk, image, rows, active>>
        \/ pc' = "publish" /\ pc # "publish"
    BY DEF Next, PreflightFails, PreflightPasses,
         PrepareCall, ChatOpens, ChatOpenFails, PromptReturns,
         PromptRaises, ChatCloses, ChatCloseFails, Abandon, Tick,
         Finish, Publish, vars, locals
  <1> QED
    BY <1>1, <1>2, <1>3, <1>4, <1>5, <1>6, <1>7

-----------------------------------------------------------------------------
(* What is published verifies.                                             *)

(* The writer derives the blockers that the reader expects.                *)
LEMMA BlockersAgree ==
  ASSUME TypeOK
  PROVE  Payload.replayBlockedReasons = ExpectedBlockers(Payload)
  <1> DEFINE payload == Payload
  <1>1. /\ payload.rows = rows /\ payload.active = active
        /\ payload.replayBlockedReasons = Blockers
    BY DEF Payload
  <1>2. \A i \in DOMAIN rows : rows[i].outcome \in Outcomes
    BY Types DEF Row
  <1>3. /\ Len(rows) \in 0..PlanLength /\ PlanLength \in Nat
        /\ (Len(rows) # PlanLength <=> Len(rows) < PlanLength)
    BY Types
  <1> HIDE DEF payload
  <1>4. \A reason \in Blockers : reason \in ExpectedBlockers(payload)
    BY <1>1, <1>2, <1>3 DEF Blockers, ExpectedBlockers, RowsWith, Outcomes
  <1>5. \A reason \in ExpectedBlockers(payload) : reason \in Blockers
    BY <1>1, <1>2, <1>3 DEF Blockers, ExpectedBlockers, RowsWith, Outcomes
  <1>6. Blockers = ExpectedBlockers(payload)
    BY <1>4, <1>5
  <1> QED
    BY <1>1, <1>6 DEF payload

LEMMA PayloadVerifies ==
  ASSUME TypeOK, LocalsInv
  PROVE  /\ Verified(Payload) /\ Bindable(Payload)
         /\ Accounts(Payload.rows, Payload.active, prompted, got)
  <1>1. /\ Payload.rows = rows /\ Payload.active = active
        /\ Payload.observed = observed
        /\ Payload.startedAt = startedAt /\ Payload.endedAt = now
    BY PayloadType
  <1>2. /\ Payload.captureComplete = (Len(rows) = PlanLength)
        /\ Payload.canonicalReplayEligible
             = (Payload.captureComplete /\ Payload.replayBlockedReasons = {})
    BY DEF Payload
  <1>3. Payload.replayBlockedReasons = ExpectedBlockers(Payload)
    BY BlockersAgree
  <1>4. CountsAgree(Payload)
    BY DEF CountsAgree, Payload
  <1>5. TimesFit(Payload)
    <2>1. \A i \in DOMAIN rows : rows[i].capturedAt \in Nat
      BY Types DEF Row
    <2>2. active.updatedAt \in Nat
      BY Types DEF ActiveCall
    <2> QED
      BY <1>1, <2>1, <2>2, Types DEF LocalsInv, TimesNow, TimesFit
  <1>6. RowsFollowPlan(Payload.rows) /\ ActiveFollowsRows(Payload.active, Payload.rows)
    BY <1>1 DEF LocalsInv
  <1>7. Verified(Payload)
    BY <1>1, <1>2, <1>3, <1>4, <1>5, <1>6 DEF Verified
  <1>8. Bindable(Payload)
    <2>1. CASE observed
      BY <1>1, <2>1 DEF Bindable
    <2>2. CASE ~observed
      <3>1. rows = <<>> /\ active = NoActive
        BY <2>2 DEF LocalsInv
      <3>2. {i \in DOMAIN rows : rows[i].dispatchStarted} = {}
        BY <3>1
      <3>3. Payload.attemptedCallCount = 0
        <4>1. Payload.attemptedCallCount
                = Cardinality({i \in DOMAIN rows : rows[i].dispatchStarted})
                  + (IF active.state = "dispatching" THEN 1 ELSE 0)
          BY DEF Payload
        <4>2. Cardinality({i \in DOMAIN rows : rows[i].dispatchStarted}) = 0
          BY <3>2, FS_EmptySet
        <4>3. active.state # "dispatching"
          BY <3>1 DEF NoActive
        <4> QED
          BY <4>1, <4>2, <4>3
      <3>4. ~Payload.canonicalReplayEligible
        <4>1. Len(rows) # PlanLength
          BY <3>1, Types
        <4>2. ~Payload.captureComplete
          BY <1>2, <4>1
        <4> QED
          BY <1>2, <4>2
      <3> QED
        BY <3>3, <3>4 DEF Bindable
    <2> QED
      BY <2>1, <2>2
  <1> QED
    BY <1>1, <1>7, <1>8 DEF LocalsInv

(* An eligible checkpoint has a row for every call of the plan, and every  *)
(* row is a string without a flaw, from a chat without a failure.          *)
LEMMA EligibleIs ==
  ASSUME NEW payload \in Payloads, Verified(payload), payload.canonicalReplayEligible
  PROVE  /\ Faultless(payload.rows) /\ DOMAIN payload.rows = Calls
         /\ \A i \in Calls : /\ payload.rows[i].outcome = "returnedString"
                             /\ payload.rows[i].dispatchStarted
                             /\ ~payload.rows[i].flawed
  <1>1. /\ payload.rows \in Seq(Row) /\ Len(payload.rows) = PlanLength
        /\ ExpectedBlockers(payload) = {}
    BY DEF Verified, Payloads
  <1>2. /\ DOMAIN payload.rows = Calls
        /\ \A i \in Calls : payload.rows[i] \in Row
    BY <1>1 DEF Calls
  <1>3. \A i \in Calls : /\ payload.rows[i].terminalFailure = "none"
                        /\ ~payload.rows[i].lifecycleFailure
                        /\ ~payload.rows[i].flawed
    <2>1. /\ "terminalFailure" \notin ExpectedBlockers(payload)
          /\ "lifecycleFailure" \notin ExpectedBlockers(payload)
          /\ "flawed" \notin ExpectedBlockers(payload)
      BY <1>1
    <2> QED
      BY <1>2, <2>1 DEF ExpectedBlockers
  <1>4. \A i \in Calls : FailureShape(payload.rows[i])
    BY <1>2 DEF Verified, RowsFollowPlan
  <1>5. \A i \in Calls : payload.rows[i].outcome = "returnedString"
    <2>1. /\ "missingOutput" \notin ExpectedBlockers(payload)
          /\ "nonStringOutput" \notin ExpectedBlockers(payload)
          /\ "oversizedOutput" \notin ExpectedBlockers(payload)
      BY <1>1
    <2>2. \A i \in Calls : payload.rows[i].outcome \notin
                              {"missingOutput", "nonStringOutput", "oversizedOutput"}
      BY <1>2, <2>1 DEF ExpectedBlockers, RowsWith
    <2>3. \A i \in Calls : payload.rows[i].outcome # "failed"
      BY <1>3, <1>4 DEF FailureShape
    <2> QED
      BY <1>2, <2>2, <2>3 DEF Row, Outcomes
  <1>6. \A i \in Calls : payload.rows[i].dispatchStarted
    BY <1>4, <1>5 DEF FailureShape
  <1> QED
    BY <1>1, <1>2, <1>3, <1>5, <1>6 DEF Faultless

-----------------------------------------------------------------------------
(* The checkpoints.                                                        *)

(* What is said of one checkpoint at a place.                              *)
CheckpointFits(payload, place, asked, answers, shut) ==
  /\ Verified(payload) /\ Bindable(payload)
  /\ Accounts(payload.rows, payload.active, asked, answers)
  /\ place = "returned" /\ payload.canonicalReplayEligible => Calls \subseteq shut

LEMMA CheckpointsFit ==
  CheckpointInv <=>
    /\ prompted # {} => NoFile \notin image[CapturePath]
    /\ \A payload \in Checkpoints : CheckpointFits(payload, pc, prompted, got, closed)
  BY DEF CheckpointInv, CheckpointFits

(* A step that makes no call, gets no answer and lets a crash leave no     *)
(* other checkpoint than before.                                           *)
LEMMA CheckpointsKept ==
  ASSUME CheckpointInv, image'[CapturePath] \subseteq image[CapturePath],
         prompted' = prompted, got' = got, closed \subseteq closed',
         pc' = "returned" => pc = "returned"
  PROVE  CheckpointInv'
  <1>1. prompted' # {} => NoFile \notin image'[CapturePath]
    BY DEF CheckpointInv
  <1>2. ASSUME NEW payload \in Checkpoints'
        PROVE  CheckpointFits(payload, pc', prompted', got', closed')
    <2>1. payload \in Checkpoints
      BY <1>2 DEF Checkpoints
    <2> QED
      BY <2>1 DEF CheckpointInv, CheckpointFits
  <1> QED
    BY <1>1, <1>2 DEF CheckpointInv, CheckpointFits

(* A step at a place where a crash can leave only the one checkpoint that  *)
(* shows the rows and the active call.                                     *)
LEMMA OneCheckpoint ==
  ASSUME TypeOK, CheckpointInv, NEW payload \in Payloads,
         image'[CapturePath] = {payload}, payload \in image[CapturePath],
         Accounts(payload.rows, payload.active, prompted', got'),
         pc' = "returned" /\ payload.canonicalReplayEligible => Calls \subseteq closed'
  PROVE  CheckpointInv'
  <1>1. payload \in Checkpoints /\ payload # NoFile
    BY FileAssumption DEF Checkpoints
  <1>2. Verified(payload) /\ Bindable(payload)
    BY <1>1 DEF CheckpointInv
  <1>3. Checkpoints' = {payload} /\ NoFile \notin image'[CapturePath]
    BY <1>1 DEF Checkpoints
  <1>4. ASSUME NEW other \in Checkpoints'
        PROVE  CheckpointFits(other, pc', prompted', got', closed')
    BY <1>2, <1>3, <1>4 DEF CheckpointFits
  <1> QED
    BY <1>3, <1>4 DEF CheckpointInv, CheckpointFits

(* The checkpoint of a quiet task.                                         *)
LEMMA QuietFile ==
  ASSUME TypeOK, FileInv, pc \in Quiet \cup {"sync"}
  PROVE  /\ disk[CapturePath] \in Payloads /\ disk[CapturePath] \in image[CapturePath]
         /\ disk[CapturePath].rows = rows /\ disk[CapturePath].active = active
         /\ pc \in Quiet => image[CapturePath] = {disk[CapturePath]}
  BY Types DEF FileInv

LEMMA NextCheckpoint ==
  ASSUME TypeOK, LocalsInv, PlaceInv, FileInv, CheckpointInv, [Next]_vars
  PROVE  CheckpointInv'
  <1>1. CASE PublishReplace
    <2>1. /\ image'[CapturePath] = image[CapturePath] \cup {Payload} /\ Payload # NoFile
          /\ pc' = "sync" /\ UNCHANGED <<prompted, got, closed>>
      BY <1>1, FileReplaced, PayloadType DEF PublishReplace, history
    <2>2. ASSUME NEW payload \in Checkpoints'
          PROVE  CheckpointFits(payload, pc', prompted', got', closed')
      <3>1. CASE payload \in Checkpoints
        BY <2>1, <3>1 DEF CheckpointInv, CheckpointFits
      <3>2. CASE payload = Payload
        BY <2>1, <3>2, PayloadVerifies DEF CheckpointFits
      <3> QED
        BY <2>1, <2>2, <3>1, <3>2 DEF Checkpoints
    <2>3. prompted' # {} => NoFile \notin image'[CapturePath]
      BY <2>1 DEF CheckpointInv
    <2> QED
      BY <2>2, <2>3 DEF CheckpointInv, CheckpointFits
  <1>2. CASE PublishSync
    <2>1. /\ pc = "sync" /\ pc' = after
          /\ image'[CapturePath] = {disk[CapturePath]}
          /\ UNCHANGED <<prompted, got, closed>>
      BY <1>2, FileSynced DEF PublishSync, history
    <2>2. PICK payload \in Payloads : payload = disk[CapturePath]
      BY <2>1, QuietFile
    <2>3. payload.rows = rows /\ payload \in image[CapturePath] /\ payload \in Checkpoints
      BY <2>1, <2>2, QuietFile, FileAssumption DEF Checkpoints
    <2>4. Accounts(payload.rows, payload.active, prompted', got') /\ Verified(payload)
      BY <2>1, <2>3 DEF CheckpointInv
    <2>5. pc' = "returned" /\ payload.canonicalReplayEligible => Calls \subseteq closed'
      BY <2>1, <2>3, <2>4, EligibleIs DEF PlaceInv, Place
    <2> QED
      BY <2>1, <2>2, <2>3, <2>4, <2>5, OneCheckpoint
  <1>3. CASE PlanEnds
    <2>1. /\ pc = "loop" /\ Len(rows) = PlanLength
          /\ UNCHANGED <<image, prompted, got, closed>>
      BY <1>3 DEF PlanEnds, locals, history
    <2>2. Calls \subseteq closed'
      BY <2>1 DEF PlaceInv, Place, Went, Calls
    <2>3. ASSUME NEW payload \in Checkpoints'
          PROVE  CheckpointFits(payload, pc', prompted', got', closed')
      BY <2>1, <2>2, <2>3 DEF CheckpointInv, CheckpointFits, Checkpoints
    <2> QED
      BY <2>1, <2>3 DEF CheckpointInv, CheckpointFits
  <1>4. CASE Prompt
    <2>1. /\ pc = "prompt" /\ pc' = "await" /\ prompted' = prompted \cup {active.call}
          /\ active.state = "dispatching" /\ UNCHANGED <<image, got, closed>>
      BY <1>4 DEF Prompt, PlaceInv, Place
    <2>2. PICK payload \in Payloads : payload = disk[CapturePath]
      BY <2>1, QuietFile DEF Quiet
    <2>3. /\ payload.rows = rows /\ payload.active = active
          /\ payload \in image[CapturePath] /\ image[CapturePath] = {payload}
      BY <2>1, <2>2, QuietFile DEF Quiet
    <2>4. Accounts(rows, active, prompted', got')
      BY <2>1 DEF LocalsInv, Accounts
    <2> QED
      BY <2>1, <2>3, <2>4, OneCheckpoint
  <1>5. CASE PromptReturns \/ PromptRaises \/ Unrepresentable
    <2>1. /\ pc = "await" /\ active.call = Len(rows) + 1 /\ active.call \in Calls
      BY <1>5, ActiveCallIs DEF PromptReturns, PromptRaises, Unrepresentable, Place
    <2>2. /\ \E result \in Results : got' = [got EXCEPT ![active.call] = result]
          /\ UNCHANGED <<image, prompted, closed>>
          /\ pc' # "returned"
      <3>1. CASE PromptReturns \/ PromptRaises
        <4>1. pc' = "publish"
          BY <3>1 DEF PromptReturns, PromptRaises, Finish, Publish
        <4>2. \E result \in Results : /\ got' = [got EXCEPT ![active.call] = result]
                                     /\ UNCHANGED <<image, prompted, closed>>
          BY <2>1, <3>1, Answered
        <4> QED
          BY <4>1, <4>2
      <3>2. CASE Unrepresentable
        BY <3>2 DEF Unrepresentable, Results
      <3> QED
        BY <1>5, <3>1, <3>2
    <2>3. PICK payload \in Payloads : payload = disk[CapturePath]
      BY <2>1, QuietFile DEF Quiet
    <2>4. /\ payload.rows = rows /\ payload.active = active
          /\ payload \in image[CapturePath] /\ image[CapturePath] = {payload}
      BY <2>1, <2>3, QuietFile DEF Quiet
    <2>5. \A i \in DOMAIN rows : got'[i] = got[i]
      BY <2>1, <2>2, Types
    <2>6. Accounts(rows, active, prompted', got')
      BY <2>2, <2>5 DEF LocalsInv, Accounts
    <2> QED
      BY <2>2, <2>4, <2>6, OneCheckpoint
  <1>6. CASE MachineCrash
    <2>1. /\ image'[CapturePath] \subseteq image[CapturePath]
          /\ UNCHANGED <<prompted, got, closed>>
          /\ pc' = "returned" => pc = "returned"
      BY <1>6, FileLost DEF MachineCrash, history
    <2> QED
      BY <2>1, CheckpointsKept
  <1>7. CASE \/ Begin \/ PreflightFails \/ PreflightPasses \/ PrepareCall \/ ChatOpens
             \/ ChatOpenFails \/ ChatCloses \/ ChatCloseFails \/ Abandon \/ Tick
             \/ Interrupted \/ UNCHANGED vars
    <2>1. /\ UNCHANGED <<image, prompted, got>> /\ closed \subseteq closed'
          /\ pc' = "returned" => pc = "returned"
      BY <1>7 DEF Begin, PreflightFails, PreflightPasses, PrepareCall, ChatOpens,
         ChatOpenFails, ChatCloses, ChatCloseFails, Abandon, Tick, Interrupted,
         vars, history, Finish, Publish
    <2> QED
      BY <2>1, CheckpointsKept
  <1> QED
    BY <1>1, <1>2, <1>3, <1>4, <1>5, <1>6, <1>7 DEF Next

-----------------------------------------------------------------------------
(* A call is made only after all calls before it went well.                *)

LEMMA NextOrder ==
  ASSUME TypeOK, LocalsInv, PlaceInv, OrderInv, [Next]_vars
  PROVE  OrderInv'
  <1>1. CASE Prompt
    <2>1. /\ prompted' = prompted \cup {active.call} /\ UNCHANGED <<got, closed>>
          /\ active.call = Len(rows) + 1 /\ Went(Len(rows))
      BY <1>1, ActiveCallIs DEF Prompt, PlaceInv, Place
    <2> QED
      BY <2>1, Types DEF OrderInv, Went
  <1>2. CASE PromptReturns \/ PromptRaises \/ Unrepresentable
    <2>1. /\ pc = "await" /\ active.call = Len(rows) + 1 /\ active.call \in Calls
      BY <1>2, ActiveCallIs DEF PromptReturns, PromptRaises, Unrepresentable, Place
    <2>2. PICK result \in Results : /\ got' = [got EXCEPT ![active.call] = result]
                                  /\ UNCHANGED <<prompted, closed>>
      <3>1. CASE PromptReturns \/ PromptRaises
        BY <2>1, <3>1, Answered
      <3>2. CASE Unrepresentable
        BY <3>2 DEF Unrepresentable, Results
      <3> QED
        BY <1>2, <3>1, <3>2
    <2>3. \A call \in prompted : call \in 1..(Len(rows) + 1)
      BY <2>1, Types DEF LocalsInv, Accounts, Calls
    <2>4. ASSUME NEW call \in prompted, NEW earlier \in 1..(call - 1)
          PROVE  earlier \in closed /\ got'[earlier] \in {"clean", "flawed"}
      <3>1. earlier \in closed /\ got[earlier] \in {"clean", "flawed"}
        BY <2>4 DEF OrderInv
      <3>2. earlier # active.call
        BY <2>1, <2>3, <2>4, Types
      <3>3. got'[earlier] = got[earlier]
        BY <2>2, <3>1, <3>2, Types
      <3> QED
        BY <3>1, <3>3
    <2> QED
      BY <2>2, <2>4 DEF OrderInv
  <1>3. CASE UNCHANGED <<prompted, got>> /\ closed \subseteq closed'
    BY <1>3 DEF OrderInv
  <1>4. \/ Prompt \/ PromptReturns \/ PromptRaises \/ Unrepresentable
        \/ UNCHANGED <<prompted, got>> /\ closed \subseteq closed'
    BY DEF Next, Begin, PreflightFails, PreflightPasses, PublishReplace, PublishSync,
       PrepareCall, PlanEnds, ChatOpens, ChatOpenFails, ChatCloses, ChatCloseFails,
       Abandon, Tick, Interrupted, MachineCrash, vars, history
  <1> QED
    BY <1>1, <1>2, <1>3, <1>4

-----------------------------------------------------------------------------
(* The invariant, and what it says of every reachable state.               *)

LEMMA InitInvariant == Init => IInv
  <1> SUFFICES ASSUME Init PROVE IInv
    OBVIOUS
  <1>1. /\ pc = "start" /\ observed = FALSE /\ startedAt = 0 /\ now = 0
        /\ rows = <<>> /\ active = NoActive /\ prompted = {}
        /\ DOMAIN rows = {} /\ Len(rows) = 0
        /\ disk[CapturePath] = NoFile /\ image[CapturePath] = {NoFile}
    BY DEF Init, StoreInit
  <1>2. TypeOK
    BY InitType
  <1>3. LocalsInv
    BY <1>1, CaptureAssumption
       DEF LocalsInv, RowsFollowPlan, ActiveFollowsRows, NoActive, TimesNow, Accounts
  <1>4. PlaceInv
    BY <1>1 DEF PlaceInv, Place
  <1>5. FileInv
    BY <1>1 DEF FileInv, Quiet
  <1>6. CheckpointInv
    BY <1>1 DEF CheckpointInv, Checkpoints
  <1>7. OrderInv
    BY <1>1 DEF OrderInv
  <1> QED
    BY <1>2, <1>3, <1>4, <1>5, <1>6, <1>7 DEF IInv

LEMMA NextInvariant == IInv /\ [Next]_vars => IInv'
  BY NextType, NextLocals, NextPlace, NextFile, NextCheckpoint, NextOrder DEF IInv

LEMMA InductiveInvariant == Spec => []IInv
  BY InitInvariant, NextInvariant, PTL DEF Spec

(* Every variable keeps its type: no step of the task, no interrupt and no *)
(* crash leaves run_capture_canary with locals or a file of another shape. *)
THEOREM TypeCorrect == Spec => []TypeOK
  <1>1. IInv => TypeOK
    BY DEF IInv
  <1> QED
    BY <1>1, InductiveInvariant, PTL

(* Whatever step an interrupt or a machine crash falls on, every           *)
(* checkpoint that publish may have left is one that                       *)
(* verify_capture_payload and the platform binding accept.                 *)
THEOREM CheckpointsVerifyProved == Spec => []CheckpointsVerify
  <1>1. IInv => CheckpointsVerify
    BY DEF IInv, CheckpointInv, CheckpointsVerify
  <1> QED
    BY <1>1, InductiveInvariant, PTL

(* Every checkpoint that may be left accounts for every call handed to     *)
(* llm.prompt, its rows say what the model did, and no call is made unless *)
(* all calls before it returned a string and closed their chats.           *)
THEOREM CallsAreAccountedProved == Spec => []CallsAreAccounted
  <1>1. IInv => CallsAreAccounted
    <2> SUFFICES ASSUME IInv PROVE CallsAreAccounted
      OBVIOUS
    <2>1. prompted # {} => NoFile \notin image[CapturePath]
      BY DEF IInv, CheckpointInv
    <2>2. ASSUME NEW payload \in Checkpoints
          PROVE  Accounts(payload.rows, payload.active, prompted, got)
      BY DEF IInv, CheckpointInv
    <2>3. \A call \in prompted : \A earlier \in 1..(call - 1) :
            earlier \in closed /\ got[earlier] \in {"clean", "flawed"}
      BY DEF IInv, OrderInv
    <2> QED
      BY <2>1, <2>2, <2>3 DEF CallsAreAccounted, Accounts
  <1> QED
    BY <1>1, InductiveInvariant, PTL

(* A checkpoint that assembly may use, the eligible one of a task that     *)
(* returned, stands for a whole plan of clean strings from closed chats.   *)
THEOREM AssemblyIsCleanProved == Spec => []AssemblyIsClean
  <1>1. IInv => AssemblyIsClean
    <2> SUFFICES ASSUME IInv, NEW payload \in Checkpoints,
                        pc = "returned", payload.canonicalReplayEligible,
                        NEW call \in Calls
                 PROVE  got[call] = "clean" /\ call \in closed
      BY DEF AssemblyIsClean, AssemblyEligible
    <2>1. payload \in Payloads /\ Verified(payload)
      BY Types DEF IInv, CheckpointInv, Checkpoints
    <2>2. /\ DOMAIN payload.rows = Calls /\ payload.rows[call].outcome = "returnedString"
          /\ payload.rows[call].dispatchStarted /\ ~payload.rows[call].flawed
      BY <2>1, EligibleIs
    <2>3. RowSays(payload.rows[call], got[call]) /\ Calls \subseteq closed
      BY <2>2 DEF IInv, CheckpointInv, Accounts
    <2> QED
      BY <2>2, <2>3 DEF RowSays
  <1> QED
    BY <1>1, InductiveInvariant, PTL

(* publish never takes back a row it published: a later checkpoint has the *)
(* same rows and perhaps more, but for the close failure of the last one.  *)
THEOREM RowsOnlyGrowProved == Spec => RowsOnlyGrow
  <1> DEFINE old == disk[CapturePath]
             new == disk'[CapturePath]
             Grown == \/ old = NoFile \/ new = old \/ crashes' # crashes
                      \/ /\ Len(old.rows) <= Len(new.rows)
                         /\ \A i \in DOMAIN old.rows :
                              \/ new.rows[i] = old.rows[i]
                              \/ /\ i = Len(old.rows) /\ Len(new.rows) = i
                                 /\ new.rows[i] = [old.rows[i] EXCEPT
                                                     !.lifecycleFailure = TRUE,
                                                     !.capturedAt = new.rows[i].capturedAt]
  <1>1. ASSUME IInv, [Next]_vars PROVE Grown
    <2>1. TypeOK /\ FileInv
      BY <1>1 DEF IInv
    <2>2. CASE PublishReplace
      <3>1. new = Payload /\ Payload.rows = rows /\ pc = "publish"
        BY <2>1, <2>2, FileReplaced, PayloadType DEF PublishReplace
      <3>2. old = NoFile \/ RowsGrow(old.rows, rows)
        BY <2>1, <3>1 DEF FileInv
      <3> HIDE DEF old, new
      <3> QED
        BY <3>1, <3>2, Zenon DEF RowsGrow
    <2>3. CASE MachineCrash
      <3>1. crashes' # crashes
        BY <2>1, <2>3, Types, CaptureAssumption DEF MachineCrash
      <3> QED
        BY <3>1
    <2>4. CASE PublishSync
      <3>1. disk' = disk
        BY <2>1, <2>4, FileSynced DEF PublishSync
      <3> QED
        BY <3>1
    <2>5. PublishReplace \/ MachineCrash \/ PublishSync \/ disk' = disk
      BY <1>1 DEF Next, Begin, PreflightFails, PreflightPasses,
         PrepareCall, PlanEnds, ChatOpens, ChatOpenFails, Prompt, PromptReturns,
         Unrepresentable, PromptRaises, ChatCloses, ChatCloseFails,
         Abandon, Tick, Interrupted, vars
    <2> QED
      BY <2>2, <2>3, <2>4, <2>5
  <1>2. [][Grown]_vars <=> RowsOnlyGrow
    BY DEF RowsOnlyGrow
  <1> HIDE DEF Grown
  <1> QED
    BY <1>1, <1>2, InductiveInvariant, PTL DEF Spec

=============================================================================
