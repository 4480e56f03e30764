-------------------------- MODULE DiagnosticReceipt --------------------------
(***************************************************************************)
(* The offline reader of a deployment-diagnostic receipt:                  *)
(* verify_kaggle_diagnostic_receipt and _requires_manual_review of         *)
(* bench/engine/kaggle_diagnostic_receipt.py.  Written from that reader,   *)
(* not from the writer in DiagnosticTask.  Digests, names, times and token *)
(* sums are left out; a row says why its output was omitted, whether its   *)
(* text is empty, and what its token counts amount to.                     *)
(***************************************************************************)
EXTENDS Naturals, Sequences, FiniteSets

CONSTANT SampleCount   \* POLICY["sampleCount"]; call i is prompts[i - 1]

RowReasons == {"empty_output", "invalid_usage", "near_output_cap",
               "non_string_output", "output_character_limit"}
FailureReasons == {"model_call_failed", "chat_open_failed", "chat_close_failed"}

NoActive == [state |-> "none", call |-> 0]

(* diagnostics.failure: None, or its promptId, PackageFailure for None.    *)
NoFailure == 0
PackageFailure == SampleCount + 1

(* The condition of a row each reason stands for, as _verify_rows finds it.*)
ReasonOf(row) ==
  (IF row.omitted = "none" /\ row.empty THEN {"empty_output"} ELSE {})
  \cup (IF row.usage = "invalid" THEN {"invalid_usage"} ELSE {})
  \cup (IF row.usage = "nearCap" THEN {"near_output_cap"} ELSE {})
  \cup (IF row.omitted = "non_string" THEN {"non_string_output"} ELSE {})
  \cup (IF row.omitted = "character_limit" THEN {"output_character_limit"} ELSE {})

DerivedReasons(rows) == UNION {ReasonOf(rows[i]) : i \in DOMAIN rows}

(* _verify_rows: a prefix of the canonical prompts.                        *)
RowsAreCanonical(rows) ==
  Len(rows) <= SampleCount /\ \A i \in DOMAIN rows : rows[i].call = i

(* _verify_call_accounting                                                 *)
CallsAddUp(receipt) ==
  LET attempted == receipt.attempted
      completed == receipt.completed
      active == receipt.active
  IN  /\ completed <= attempted /\ attempted <= SampleCount
      /\ completed = Len(receipt.rows)
      /\ IF active = NoActive
         THEN attempted = completed
         ELSE /\ receipt.status = "blocked" /\ receipt.phase = "model_calls"
              /\ CASE active.state = "prepared" ->
                        /\ attempted = completed /\ completed < SampleCount
                        /\ active.call = completed + 1
                   [] active.state = "dispatching" ->
                        attempted = completed + 1 /\ active.call = completed + 1
                   [] active.state = "returned" ->
                        /\ attempted = completed /\ completed > 0
                        /\ active.call = completed
                   [] OTHER -> FALSE

(* _verify_diagnostics                                                     *)
ReasonsMatchRows(receipt) ==
  receipt.reasons \cap RowReasons = DerivedReasons(receipt.rows)

NoCalls(receipt) ==
  /\ receipt.attempted = 0 /\ receipt.completed = 0 /\ receipt.rows = <<>>
  /\ receipt.active = NoActive

RuntimePreflight(receipt) ==
  /\ receipt.reasons = {"runtime_mismatch"} /\ ~receipt.conformant
  /\ receipt.dependency = "unchecked" /\ receipt.model.status = "unavailable"
  /\ NoCalls(receipt) /\ receipt.failure = NoFailure

PackagePreflight(receipt) ==
  /\ receipt.conformant
  /\ receipt.reasons = {"package_unavailable_or_drifted"}
  /\ receipt.dependency = "blocked" /\ receipt.model.status = "unavailable"
  /\ NoCalls(receipt) /\ receipt.failure = PackageFailure

ModelPreflight(receipt) ==
  /\ receipt.conformant /\ receipt.dependency = "verified"
  /\ NoCalls(receipt) /\ receipt.failure = NoFailure
  /\ \/ /\ receipt.reasons = {"model_identity_unavailable"}
        /\ receipt.model.status = "unavailable"
     \/ /\ receipt.model.status = "observed"
        /\ \/ /\ receipt.reasons = {"unsupported_model_transport"}
              /\ ~receipt.model.parameter
           \/ receipt.reasons = {"sdk_api_incompatible"} /\ receipt.model.parameter
           \/ /\ receipt.reasons = {"transport_retry_policy_unverified"}
              /\ receipt.model.parameter /\ ~receipt.model.oneAttempt

(* The failure, its reasons and the active call fit one another.           *)
FailureFits(receipt) ==
  LET present == receipt.reasons \cap FailureReasons
  IN  IF receipt.failure = NoFailure
      THEN present = {}
      ELSE /\ present \in {{"chat_open_failed"}, {"chat_close_failed"},
                           {"model_call_failed"},
                           {"model_call_failed", "chat_close_failed"}}
           /\ CASE receipt.active.state = "prepared" -> "chat_open_failed" \in present
                [] receipt.active.state = "dispatching" -> "model_call_failed" \in present
                [] receipt.active.state = "returned" -> "chat_close_failed" \in present
                [] OTHER -> FALSE
           /\ receipt.failure = receipt.active.call

(* What else a blocked receipt has to give as its reason.                  *)
BaseReasonsFit(receipt) ==
  LET base == receipt.reasons \ (RowReasons \cup FailureReasons)
      present == receipt.reasons \cap FailureReasons
      ofRows == receipt.reasons \cap RowReasons
  IN  IF receipt.failure # NoFailure
      THEN base = IF present = {"chat_close_failed"} /\ ofRows = {}
                  THEN {"canary_incomplete"} ELSE {}
      ELSE base = IF ofRows # {} THEN {} ELSE {"canary_incomplete"}

ModelCalls(receipt) ==
  /\ receipt.conformant /\ receipt.dependency = "verified"
  /\ receipt.model.status = "observed"
  /\ receipt.model.parameter /\ receipt.model.oneAttempt
  /\ FailureFits(receipt)
  /\ receipt.active.state \in {"prepared", "dispatching"}
       => receipt.reasons \cap RowReasons = {}
  /\ BaseReasonsFit(receipt)

Complete(receipt) ==
  /\ receipt.phase = "complete" /\ receipt.conformant
  /\ receipt.dependency = "verified" /\ receipt.model.status = "observed"
  /\ receipt.model.parameter /\ receipt.model.oneAttempt
  /\ receipt.attempted = SampleCount /\ receipt.completed = SampleCount
  /\ receipt.active = NoActive
  /\ receipt.reasons = {} /\ receipt.failure = NoFailure

(* _verify_status_machine                                                  *)
StatusFits(receipt) ==
  IF receipt.status = "complete"
  THEN Complete(receipt)
  ELSE /\ receipt.reasons # {}
       /\ CASE receipt.phase = "runtime_preflight" -> RuntimePreflight(receipt)
            [] receipt.phase = "package_preflight" -> PackagePreflight(receipt)
            [] receipt.phase = "model_preflight" -> ModelPreflight(receipt)
            [] receipt.phase = "model_calls" -> ModelCalls(receipt)
            [] OTHER -> FALSE

(* verify_kaggle_diagnostic_receipt                                        *)
ReceiptVerified(receipt) ==
  /\ CallsAddUp(receipt)
  /\ RowsAreCanonical(receipt.rows)
  /\ ReasonsMatchRows(receipt)
  /\ StatusFits(receipt)

(* Mutated RequiresManualReview: the calls made so far are forgotten.      *)
ReviewsActiveCallOnly(receipt) == receipt.active # NoActive

(* _requires_manual_review: running the task again could repeat a call.    *)
RequiresManualReview(receipt) ==
  \/ receipt.active # NoActive
  \/ receipt.status = "blocked" /\ receipt.attempted > 0
=============================================================================
