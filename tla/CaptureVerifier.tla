--------------------------- MODULE CaptureVerifier ---------------------------
(***************************************************************************)
(* The offline reader of a capture checkpoint: verify_capture_payload of   *)
(* bench/engine/kaggle_capture.py and the platform binding of              *)
(* bench/engine/kaggle_capture_evidence.py.  Written from that reader, not *)
(* from the writer in CaptureTask.  Texts, digests, token counts and       *)
(* identities are left out; `flawed` stands for every blocker that comes   *)
(* from a returned text or its usage record: unpaired surrogate, scoring   *)
(* text too long, missing usage, near cap, token limit, unsupported finish.*)
(***************************************************************************)
EXTENDS Naturals, Sequences, FiniteSets

CONSTANT PlanLength   \* len(shard.plannedCalls); call i is plannedCalls[i - 1]

Outcomes == {"returnedString", "missingOutput", "nonStringOutput",
             "oversizedOutput", "failed"}

RowsWith(rows, outcome) == {i \in DOMAIN rows : rows[i].outcome = outcome}

(* _verify_failure_shape                                                   *)
FailureShape(row) ==
  IF row.outcome = "failed"
  THEN /\ row.terminalFailure # "none"
       /\ row.terminalFailure = "chatOpenFailed"
            => ~row.dispatchStarted /\ ~row.lifecycleFailure
       /\ row.terminalFailure = "modelCallFailed" => row.dispatchStarted
  ELSE row.dispatchStarted /\ row.terminalFailure = "none"

(* _verify_rows: the rows are the results of a prefix of the plan.         *)
RowsFollowPlan(rows) ==
  /\ Len(rows) <= PlanLength
  /\ \A i \in DOMAIN rows :
       /\ rows[i].call = i
       /\ FailureShape(rows[i])
       /\ \A j \in 1..i : rows[j].capturedAt <= rows[i].capturedAt

(* _verify_active_call; state "none" is an active call of None.            *)
ActiveFollowsRows(active, rows) ==
  CASE active.state \in {"prepared", "dispatching"} ->
         Len(rows) < PlanLength /\ active.call = Len(rows) + 1
    [] active.state = "terminalPersisted" ->
         rows # <<>> /\ active.call = Len(rows)
    [] OTHER -> active.state = "none"

(* _expected_call_counts                                                   *)
CountsAgree(payload) ==
  LET dispatched == Cardinality({i \in DOMAIN payload.rows :
                                   payload.rows[i].dispatchStarted})
  IN  /\ payload.terminalCallCount = dispatched
      /\ payload.attemptedCallCount =
           dispatched + (IF payload.active.state = "dispatching" THEN 1 ELSE 0)
      /\ \A outcome \in Outcomes :
           payload.outcomeCount[outcome] =
             Cardinality(RowsWith(payload.rows, outcome))

(* _expected_diagnostics: replayBlockedReasons.                            *)
ExpectedBlockers(payload) ==
  LET Some(Bad(_)) == \E i \in DOMAIN payload.rows : Bad(payload.rows[i])
  IN  {reason \in {"incompleteCoverage", "activeCall", "missingOutput",
                   "nonStringOutput", "oversizedOutput", "terminalFailure",
                   "lifecycleFailure", "flawed"} :
         CASE reason = "incompleteCoverage" -> Len(payload.rows) < PlanLength
           [] reason = "activeCall" ->
                payload.active.state \in {"prepared", "dispatching"}
           [] reason = "terminalFailure" ->
                Some(LAMBDA row : row.terminalFailure # "none")
           [] reason = "lifecycleFailure" -> Some(LAMBDA row : row.lifecycleFailure)
           [] reason = "flawed" -> Some(LAMBDA row : row.flawed)
           [] OTHER -> RowsWith(payload.rows, reason) # {}}

(* _verify_times                                                           *)
TimesFit(payload) ==
  /\ payload.startedAt <= payload.endedAt
  /\ \A i \in DOMAIN payload.rows :
       payload.rows[i].capturedAt \in payload.startedAt..payload.endedAt
  /\ payload.active.state # "none" =>
       /\ payload.active.updatedAt \in payload.startedAt..payload.endedAt
       /\ \A i \in DOMAIN payload.rows :
            payload.rows[i].capturedAt <= payload.active.updatedAt

(* _verify_and_encode_capture_payload                                      *)
Verified(payload) ==
  /\ RowsFollowPlan(payload.rows)
  /\ ActiveFollowsRows(payload.active, payload.rows)
  /\ CountsAgree(payload)
  /\ payload.replayBlockedReasons = ExpectedBlockers(payload)
  /\ payload.captureComplete = (Len(payload.rows) = PlanLength)
  /\ payload.canonicalReplayEligible =
       (payload.captureComplete /\ ExpectedBlockers(payload) = {})
  /\ TimesFit(payload)

(* _verify_platform_binding: a payload whose preflight failed claims no    *)
(* call.                                                                   *)
Bindable(payload) ==
  ~payload.observed =>
    payload.attemptedCallCount = 0 /\ ~payload.canonicalReplayEligible

(* _assembly_eligible, for a run whose state is COMPLETED or not.          *)
AssemblyEligible(payload, completed) ==
  completed /\ payload.canonicalReplayEligible
=============================================================================
