------------------------- MODULE CreationOutputProofs -------------------------
(***************************************************************************)
(* DiagnosticTask and CreationOutput: the receipt of the deployment        *)
(* diagnostic verifies and accounts for the paid calls wherever the task   *)
(* ends, and the metadata an operator retains is true of the one run that  *)
(* the creation triggered; for any number of calls, crashes, foreign runs  *)
(* and pages.                                                              *)
(***************************************************************************)
EXTENDS CreationOutput, FiniteSetTheorems, SequenceTheorems, TLAPS

Position == {"loop", "open", "prompt", "close", "returned"}
Actives == [state : {"none", "prepared", "dispatching", "returned"},
            call : 0..SampleCount]

(* The types of the variables, without those of sequences.                 *)
LEMMA Types ==
  ASSUME TypeOK
  PROVE  /\ pc \in Steps \cup Ended /\ after \in Position
         /\ pending \in Receipts /\ model \in Models
         /\ attempted \in 0..SampleCount /\ completed \in 0..SampleCount
         /\ SampleCount \in Nat /\ SampleCount >= 1
         /\ Len(rows) \in Nat /\ DOMAIN rows = 1..Len(rows)
         /\ \A i \in 1..Len(rows) : rows[i] \in Row
         /\ prompted \subseteq Calls /\ clean \subseteq Calls /\ closed \subseteq Calls
         /\ disk \in [{ReceiptPath} -> Receipts \cup {NoFile}]
         /\ image \in [{ReceiptPath} -> SUBSET (Receipts \cup {NoFile})]
         /\ disk[ReceiptPath] \in Receipts \cup {NoFile}
         /\ image[ReceiptPath] \subseteq Receipts \cup {NoFile}
         /\ crashes \in 0..MaxCrashes /\ MaxCrashes \in Nat
  <1>1. rows \in Seq(Row)
    BY DEF TypeOK
  <1> QED
    BY <1>1, DiagnosticAssumption DEF TypeOK, Position

-----------------------------------------------------------------------------
(* The receipt file.                                                       *)

LEMMA FileReplaced ==
  ASSUME TypeOK, NEW j \in Receipts, Replace(ReceiptPath, j)
  PROVE  /\ disk'[ReceiptPath] = j
         /\ image'[ReceiptPath] = image[ReceiptPath] \cup {j}
         /\ disk' \in [{ReceiptPath} -> Receipts \cup {NoFile}]
         /\ image' \in [{ReceiptPath} -> SUBSET (Receipts \cup {NoFile})]
  BY Types DEF Replace

LEMMA FileLost ==
  ASSUME TypeOK, LoseVolatile
  PROVE  /\ disk'[ReceiptPath] \in image[ReceiptPath]
         /\ image'[ReceiptPath] = {disk'[ReceiptPath]}
         /\ disk' \in [{ReceiptPath} -> Receipts \cup {NoFile}]
         /\ image' \in [{ReceiptPath} -> SUBSET (Receipts \cup {NoFile})]
  BY Types DEF LoseVolatile

-----------------------------------------------------------------------------
(* Rows, and the reasons that are derived from them.                       *)

LEMMA Appended ==
  ASSUME NEW kept \in Seq(Row), NEW row \in Row
  PROVE  /\ Append(kept, row) \in Seq(Row)
         /\ Len(Append(kept, row)) = Len(kept) + 1
         /\ DOMAIN Append(kept, row) = 1..(Len(kept) + 1)
         /\ \A i \in 1..Len(kept) : Append(kept, row)[i] = kept[i]
         /\ Append(kept, row)[Len(kept) + 1] = row
  OBVIOUS

LEMMA RowReasonsOnly ==
  ASSUME NEW kept
  PROVE  /\ \A row : ReasonOf(row) \subseteq RowReasons
         /\ DerivedReasons(kept) \subseteq RowReasons
  <1>1. \A row : ReasonOf(row) \subseteq RowReasons
    BY DEF ReasonOf, RowReasons
  <1> QED
    BY <1>1 DEF DerivedReasons

LEMMA BlockedIs ==
  ASSUME NEW given, NEW kept, DerivedReasons(kept) \subseteq given
  PROVE  Blocked(given, kept) = given
  BY DEF Blocked, DerivedReasons

(* Only the last row may have a flaw.                                      *)
LEMMA LastRowOnly ==
  ASSUME NEW kept \in Seq(Row), Len(kept) >= 1,
         \A i \in 1..(Len(kept) - 1) : ReasonOf(kept[i]) = {}
  PROVE  /\ DerivedReasons(kept) = ReasonOf(kept[Len(kept)])
         /\ RowReasonsNow(kept) = ReasonOf(kept[Len(kept)])
  <1>1. DOMAIN kept = 1..Len(kept) /\ Len(kept) \in Nat
    OBVIOUS
  <1>2. \A i \in DOMAIN kept : i \in 1..(Len(kept) - 1) \/ i = Len(kept)
    BY <1>1
  <1>3. Len(kept) \in DOMAIN kept
    BY <1>1
  <1>4. DerivedReasons(kept) = ReasonOf(kept[Len(kept)])
    BY <1>2, <1>3, Zenon DEF DerivedReasons
  <1> QED
    BY <1>4, BlockedIs DEF RowReasonsNow

LEMMA NoFlaws ==
  ASSUME NEW kept \in Seq(Row), \A i \in 1..Len(kept) : ReasonOf(kept[i]) = {}
  PROVE  DerivedReasons(kept) = {}
  <1>1. DOMAIN kept = 1..Len(kept)
    OBVIOUS
  <1>2. \A i \in DOMAIN kept : ReasonOf(kept[i]) = {}
    BY <1>1
  <1> QED
    BY <1>2, Zenon DEF DerivedReasons

-----------------------------------------------------------------------------
(* Receipts.                                                               *)

Accepted == [status |-> "observed", parameter |-> TRUE, oneAttempt |-> TRUE]

(* A receipt of the model calls, with the reasons given.                   *)
CallsReceipt(tried, done, active, kept, given, failure) ==
  Receipt("model_calls", Observed(TRUE, "verified", Accepted),
          CallsSoFar(tried, done, active, kept), given, failure)

LEMMA PublishCallsIs ==
  ASSUME NEW active, NEW reasons, NEW failure, NEW next,
         PublishCalls(active, reasons, failure, next), model' = Accepted
  PROVE  /\ pending' = CallsReceipt(attempted', completed', active, rows', reasons, failure)
         /\ pc' = "publish" /\ after' = next
  BY DEF PublishCalls, Publish, CallsReceipt

(* The position of the calls that a receipt states.                        *)
CallPosition(tried, done, active) ==
  \/ active = NoActive /\ tried = done
  \/ /\ active = ActiveCall("prepared", done + 1) /\ tried = done /\ done < SampleCount
  \/ /\ active = ActiveCall("dispatching", done + 1) /\ tried = done + 1
  \/ /\ active = ActiveCall("returned", done) /\ tried = done /\ done > 0

(* The reasons and the failure that go with it.                            *)
Explained(active, kept, given, failure) ==
  LET flaws == DerivedReasons(kept)
      base == IF flaws = {} THEN {"canary_incomplete"} ELSE flaws
  IN  /\ active.state \in {"prepared", "dispatching"} => flaws = {}
      /\ \/ failure = NoFailure /\ given = base
         \/ /\ failure = active.call
            /\ \/ active.state = "prepared" /\ given = {"chat_open_failed"}
               \/ /\ active.state = "dispatching"
                  /\ given \in {{"model_call_failed"},
                                {"model_call_failed", "chat_close_failed"}}
               \/ active.state = "returned" /\ given = base \cup {"chat_close_failed"}

LEMMA CallsReceiptVerified ==
  ASSUME NEW tried \in 0..SampleCount, NEW done \in 0..SampleCount,
         NEW active \in Actives, NEW kept \in Seq(Row), NEW given,
         NEW failure \in 0..SampleCount,
         Len(kept) = done, \A i \in 1..Len(kept) : kept[i].call = i,
         CallPosition(tried, done, active), Explained(active, kept, given, failure),
         NEW receipt, receipt = CallsReceipt(tried, done, active, kept, given, failure)
  PROVE  /\ receipt \in Receipts /\ ReceiptVerified(receipt)
         /\ receipt.status = "blocked" /\ receipt.attempted = tried
         /\ receipt.active = active /\ receipt.rows = kept
  <1> DEFINE flaws == DerivedReasons(kept)
  <1>1. flaws \subseteq RowReasons
    BY RowReasonsOnly
  <1>2. RowReasons \cap FailureReasons = {} /\ "canary_incomplete" \notin RowReasons
        /\ "canary_incomplete" \notin FailureReasons
    BY DEF RowReasons, FailureReasons
  <1>3. /\ flaws \subseteq given /\ given \subseteq Reasons /\ given # {}
        /\ given \cap RowReasons = flaws
    BY <1>1, <1>2 DEF Explained, Reasons, RowReasons, FailureReasons
  <1>4. SampleCount \in Nat /\ failure \in 0..PackageFailure
    BY DiagnosticAssumption DEF PackageFailure
  <1>5. /\ receipt \in Receipts
        /\ receipt.status = "blocked" /\ receipt.phase = "model_calls"
        /\ receipt.conformant = TRUE /\ receipt.dependency = "verified"
        /\ receipt.model = Accepted
        /\ receipt.attempted = tried /\ receipt.completed = done
        /\ receipt.active = active /\ receipt.rows = kept
        /\ receipt.reasons = given /\ receipt.failure = failure
    <2>1. Blocked(given, kept) = given
      BY <1>3, BlockedIs
    <2>2. receipt = [status |-> "blocked", phase |-> "model_calls",
                     conformant |-> TRUE, dependency |-> "verified",
                     model |-> Accepted, attempted |-> tried,
                     completed |-> done, active |-> active,
                     rows |-> kept, reasons |-> given, failure |-> failure]
      BY <2>1 DEF CallsReceipt, Receipt, Observed, CallsSoFar
    <2>3. Accepted \in Models
      BY DEF Accepted, Models
    <2> QED
      BY <1>3, <1>4, <2>2, <2>3 DEF Receipts, Actives
  <1>6. /\ active = NoActive => active.state = "none" /\ active.call = 0
        /\ active # NoActive => active.call >= 1 /\ active.state # "none"
    BY DEF CallPosition, NoActive, ActiveCall
  <1>7. CallsAddUp(receipt)
    BY <1>5, <1>6 DEF CallsAddUp, CallPosition, NoActive, ActiveCall
  <1>8. RowsAreCanonical(receipt.rows)
    BY <1>4, <1>5 DEF RowsAreCanonical
  <1>9. ReasonsMatchRows(receipt)
    BY <1>3, <1>5 DEF ReasonsMatchRows
  <1>10. CASE failure = NoFailure /\ given = (IF flaws = {} THEN {"canary_incomplete"} ELSE flaws)
    <2>1. given \cap FailureReasons = {}
      BY <1>1, <1>2, <1>10
    <2>2. given \ (RowReasons \cup FailureReasons)
            = IF flaws # {} THEN {} ELSE {"canary_incomplete"}
      BY <1>1, <1>2, <1>10
    <2>3. FailureFits(receipt)
      BY <1>5, <1>10, <2>1 DEF FailureFits
    <2>4. BaseReasonsFit(receipt)
      BY <1>3, <1>5, <1>10, <2>2 DEF BaseReasonsFit
    <2>5. ModelCalls(receipt)
      BY <1>3, <1>5, <2>3, <2>4 DEF ModelCalls, Accepted, Explained
    <2> QED
      BY <1>3, <1>5, <1>7, <1>8, <1>9, <2>5 DEF ReceiptVerified, StatusFits
  <1>11. CASE failure = active.call /\ failure # NoFailure
    <2>1. active # NoActive
      BY <1>11 DEF NoFailure, NoActive
    <2>2. CASE active.state = "prepared" /\ given = {"chat_open_failed"}
      <3>1. /\ given \cap FailureReasons = {"chat_open_failed"}
            /\ given \ (RowReasons \cup FailureReasons) = {}
        BY <2>2 DEF FailureReasons
      <3>2. FailureFits(receipt) /\ BaseReasonsFit(receipt)
        BY <1>5, <1>11, <2>2, <3>1 DEF FailureFits, BaseReasonsFit
      <3> QED
        BY <1>3, <1>5, <1>7, <1>8, <1>9, <2>2, <3>2
           DEF ModelCalls, Accepted, Explained, ReceiptVerified, StatusFits
    <2>3. CASE /\ active.state = "dispatching"
               /\ given \in {{"model_call_failed"}, {"model_call_failed", "chat_close_failed"}}
      <3>1. /\ given \cap FailureReasons = given
            /\ given \ (RowReasons \cup FailureReasons) = {}
            /\ given # {"chat_close_failed"} /\ "model_call_failed" \in given
        BY <2>3 DEF FailureReasons
      <3>2. FailureFits(receipt) /\ BaseReasonsFit(receipt)
        BY <1>5, <1>11, <2>3, <3>1 DEF FailureFits, BaseReasonsFit
      <3> QED
        BY <1>3, <1>5, <1>7, <1>8, <1>9, <2>3, <3>2
           DEF ModelCalls, Accepted, Explained, ReceiptVerified, StatusFits
    <2>4. CASE /\ active.state = "returned"
               /\ given = (IF flaws = {} THEN {"canary_incomplete"} ELSE flaws)
                          \cup {"chat_close_failed"}
      <3>1. "chat_close_failed" \in FailureReasons
        BY DEF FailureReasons
      <3>2. /\ given \cap FailureReasons = {"chat_close_failed"}
            /\ given \ (RowReasons \cup FailureReasons)
                 = IF flaws = {} THEN {"canary_incomplete"} ELSE {}
        BY <1>1, <1>2, <2>4, <3>1
      <3>3. FailureFits(receipt)
        BY <1>5, <1>11, <2>4, <3>2 DEF FailureFits
      <3>4. BaseReasonsFit(receipt)
        BY <1>3, <1>5, <1>11, <3>2 DEF BaseReasonsFit
      <3> QED
        BY <1>3, <1>5, <1>7, <1>8, <1>9, <2>4, <3>3, <3>4
           DEF ModelCalls, Accepted, ReceiptVerified, StatusFits
    <2>5. given # (IF flaws = {} THEN {"canary_incomplete"} ELSE flaws) \/ failure # NoFailure
      BY <1>11
    <2> QED
      BY <1>11, <2>2, <2>3, <2>4 DEF Explained
  <1>12. failure = active.call /\ failure = NoFailure => FALSE \/ active = NoActive
    BY <1>6 DEF NoFailure
  <1> QED
    BY <1>6, <1>10, <1>11, <1>12 DEF Explained

(* What a preflight that fails publishes.                                  *)
LEMMA PreflightPublished ==
  ASSUME RuntimeMismatch \/ PackageDrifted \/ ModelPreflightFails
  PROVE  /\ pending' \in Receipts /\ ReceiptVerified(pending') /\ pending'.status = "blocked"
         /\ pc \in {"runtime", "package", "model"}
         /\ pc' = "publish" /\ after' = "returned"
         /\ UNCHANGED <<disk, image, model, counts, history, crashes>>
  <1> DEFINE Of(phase, conformant, dependency, identity, reason, failure) ==
        [status |-> "blocked", phase |-> phase, conformant |-> conformant,
         dependency |-> dependency, model |-> identity, attempted |-> 0,
         completed |-> 0, active |-> NoActive, rows |-> <<>>,
         reasons |-> {reason}, failure |-> failure]
  <1>1. ASSUME NEW phase \in {"runtime_preflight", "package_preflight", "model_preflight"},
               NEW conformant, NEW dependency, NEW identity, NEW reason, NEW failure,
               PublishPreflight(phase, conformant, dependency, identity, reason, failure)
        PROVE  /\ pending' = Of(phase, conformant, dependency, identity, reason, failure)
               /\ pc' = "publish" /\ after' = "returned"
    <2>1. DerivedReasons(<<>>) = {}
      BY DEF DerivedReasons
    <2>2. Blocked({reason}, <<>>) = {reason}
      BY <2>1, BlockedIs
    <2> QED
      BY <1>1, <2>2 DEF PublishPreflight, Publish, Receipt, Observed, NoCallsYet, CallsSoFar
  <1>2. /\ <<>> \in Seq(Row) /\ Len(<<>>) = 0 /\ DOMAIN <<>> = {}
        /\ DerivedReasons(<<>>) = {} /\ SampleCount \in Nat \ {0}
    BY DiagnosticAssumption DEF DerivedReasons
  <1>3. ASSUME NEW phase, NEW conformant \in BOOLEAN,
               NEW dependency \in {"unchecked", "blocked", "verified"},
               NEW identity \in Models,
               NEW reason \in Reasons \ RowReasons,
               NEW failure \in 0..PackageFailure,
               phase \in {"runtime_preflight", "package_preflight", "model_preflight"},
               LET receipt == Of(phase, conformant, dependency, identity, reason, failure)
               IN  \/ phase = "runtime_preflight" /\ RuntimePreflight(receipt)
                   \/ phase = "package_preflight" /\ PackagePreflight(receipt)
                   \/ phase = "model_preflight" /\ ModelPreflight(receipt)
        PROVE  LET receipt == Of(phase, conformant, dependency, identity, reason, failure)
               IN  receipt \in Receipts /\ ReceiptVerified(receipt)
    <2> DEFINE receipt == Of(phase, conformant, dependency, identity, reason, failure)
    <2>1. receipt \in Receipts
      BY <1>2, <1>3 DEF Receipts, NoActive
    <2>2. CallsAddUp(receipt) /\ RowsAreCanonical(receipt.rows)
      BY <1>2 DEF CallsAddUp, RowsAreCanonical
    <2>3. ReasonsMatchRows(receipt)
      BY <1>2, <1>3 DEF ReasonsMatchRows
    <2>4. StatusFits(receipt)
      BY <1>3 DEF StatusFits
    <2> QED
      BY <2>1, <2>2, <2>3, <2>4 DEF ReceiptVerified
  <1>4. /\ Unavailable \in Models /\ NoFailure \in 0..PackageFailure
        /\ PackageFailure \in 0..PackageFailure
    BY DiagnosticAssumption DEF Unavailable, Models, NoFailure, PackageFailure
  <1>5. CASE RuntimeMismatch
    <2> DEFINE it == Of("runtime_preflight", FALSE, "unchecked", Unavailable,
                        "runtime_mismatch", NoFailure)
    <2>1. pending' = it /\ pc' = "publish" /\ after' = "returned"
      BY <1>1, <1>5 DEF RuntimeMismatch
    <2>2. RuntimePreflight(it) /\ "runtime_mismatch" \in Reasons \ RowReasons
      BY DEF RuntimePreflight, Unavailable, NoCalls, Reasons, RowReasons
    <2>3. it \in Receipts /\ ReceiptVerified(it) /\ it.status = "blocked"
      BY <1>3, <1>4, <2>2
    <2> QED
      BY <1>5, <2>1, <2>3 DEF RuntimeMismatch
  <1>6. CASE PackageDrifted
    <2> DEFINE it == Of("package_preflight", TRUE, "blocked", Unavailable,
                        "package_unavailable_or_drifted", PackageFailure)
    <2>1. pending' = it /\ pc' = "publish" /\ after' = "returned"
      BY <1>1, <1>6 DEF PackageDrifted
    <2>2. PackagePreflight(it) /\ "package_unavailable_or_drifted" \in Reasons \ RowReasons
      BY DEF PackagePreflight, Unavailable, NoCalls, Reasons, RowReasons
    <2>3. it \in Receipts /\ ReceiptVerified(it) /\ it.status = "blocked"
      BY <1>3, <1>4, <2>2
    <2> QED
      BY <1>6, <2>1, <2>3 DEF PackageDrifted
  <1>7. CASE ModelPreflightFails
    <2>1. PICK status \in {"unavailable", "observed"}, parameter \in BOOLEAN,
               one \in BOOLEAN, reason \in
        {"model_identity_unavailable", "unsupported_model_transport",
         "sdk_api_incompatible", "transport_retry_policy_unverified"} :
            /\ one => status = "observed" /\ parameter /\ reason = "sdk_api_incompatible"
            /\ (status = "unavailable") = (reason = "model_identity_unavailable")
            /\ status = "observed" => ~parameter = (reason = "unsupported_model_transport")
            /\ PublishPreflight("model_preflight", TRUE, "verified",
                 [status |-> status, parameter |-> parameter, oneAttempt |-> one],
                 reason, NoFailure)
      BY <1>7 DEF ModelPreflightFails
    <2>2. PICK identity : identity = [status |-> status, parameter |-> parameter,
                                      oneAttempt |-> one]
      OBVIOUS
    <2> DEFINE it == Of("model_preflight", TRUE, "verified", identity, reason, NoFailure)
    <2>3. /\ identity \in Models
          /\ PublishPreflight("model_preflight", TRUE, "verified", identity, reason, NoFailure)
      BY <2>1, <2>2 DEF Models
    <2>4. pending' = it /\ pc' = "publish" /\ after' = "returned"
      BY <1>1, <2>3
    <2>5. ModelPreflight(it) /\ reason \in Reasons \ RowReasons
      BY <2>1, <2>2 DEF ModelPreflight, NoCalls, Reasons, RowReasons
    <2>6. it \in Receipts /\ ReceiptVerified(it) /\ it.status = "blocked"
      BY <1>3, <1>4, <2>3, <2>5
    <2> QED
      BY <1>7, <2>4, <2>6 DEF ModelPreflightFails
  <1> QED
    BY <1>5, <1>6, <1>7

-----------------------------------------------------------------------------
(* The inductive invariant: where the task is determines how many calls    *)
(* there were and that those behind it had no flaw; what stands in the     *)
(* file covers every call that was handed to llm.prompt.                   *)

Place == IF pc = "publish" THEN after ELSE pc
Preflight == {"runtime", "package", "model"}
Quiet == {"loop", "open", "prompt", "await", "close"}

Fine(count) ==
  /\ 1..count \subseteq clean \cap closed
  /\ \A i \in 1..count : ReasonOf(rows[i]) = {}

LocalsInv ==
  /\ Len(rows) = completed
  /\ \A i \in DOMAIN rows : rows[i].call = i
  /\ Place \in Preflight =>
       /\ attempted = 0 /\ completed = 0 /\ prompted = {}
       /\ disk[ReceiptPath] = NoFile /\ image[ReceiptPath] = {NoFile}
  /\ Place \in Quiet => model = Accepted
  /\ Place \in {"loop", "open"} => attempted = completed /\ Fine(completed)
  /\ Place \in {"prompt", "await"} => attempted = completed + 1 /\ Fine(completed)
  /\ Place \in {"open", "prompt", "await"} => completed < SampleCount
  /\ Place = "close" => /\ attempted = completed /\ completed >= 1 /\ Fine(completed - 1)
                        /\ ReasonOf(rows[completed]) = {} => completed \in clean
  /\ Place \in {"loop", "open", "prompt", "close"} => prompted \subseteq 1..completed
  /\ Place = "await" => prompted \subseteq 1..(completed + 1)

OrderInv == \A call \in prompted : 1..(call - 1) \subseteq clean \cap closed

Whole(receipt) ==
  /\ ReceiptVerified(receipt)
  /\ receipt.status = "complete" => Calls \subseteq clean \cap closed

Covers(receipt) ==
  /\ prompted \subseteq {receipt.rows[i].call : i \in DOMAIN receipt.rows}
       \cup (IF receipt.active.state = "dispatching" THEN {receipt.active.call} ELSE {})
  /\ prompted # {} => Reviewed(receipt)

Dispatching(receipt) ==
  receipt.rows = rows /\ receipt.active = ActiveCall("dispatching", completed + 1)

ReceiptInv ==
  /\ \A receipt \in image[ReceiptPath] \ {NoFile} : Whole(receipt)
  /\ pc = "publish" => Whole(pending) /\ Covers(pending)
  /\ pc = "publish" /\ after = "prompt" => Dispatching(pending)
  /\ disk[ReceiptPath] \in image[ReceiptPath]
  /\ crashes = 0 =>
       /\ prompted # {} => disk[ReceiptPath] # NoFile /\ Covers(disk[ReceiptPath])
       /\ pc \in {"prompt", "await"} =>
            disk[ReceiptPath] # NoFile /\ Dispatching(disk[ReceiptPath])

TaskInv == TypeOK /\ LocalsInv /\ OrderInv /\ ReceiptInv

-----------------------------------------------------------------------------
(* The locals of the task.                                                 *)

(* What the row of a call that returned says.                              *)
LEMMA Returned ==
  ASSUME TypeOK, LocalsInv, PromptReturns
  PROVE  /\ pc = "await" /\ completed < SampleCount
         /\ attempted = completed + 1 /\ model = Accepted /\ Fine(completed)
         /\ UNCHANGED <<disk, image, prompted, closed, crashes, model, attempted>>
         /\ completed' = completed + 1
         /\ \E row \in Row :
              /\ row.call = completed + 1
              /\ rows' \in Seq(Row) /\ Len(rows') = completed + 1
              /\ DOMAIN rows' = 1..(completed + 1)
              /\ \A i \in 1..completed : rows'[i] = rows[i]
              /\ rows'[completed + 1] = row
              /\ \A i \in 1..completed : ReasonOf(rows'[i]) = {}
              /\ DerivedReasons(rows') = ReasonOf(row)
              /\ PublishCalls(ActiveCall("returned", completed + 1),
                              IF ReasonOf(row) = {} THEN {"canary_incomplete"}
                                                    ELSE ReasonOf(row),
                              NoFailure, "close")
              /\ clean' = IF ReasonOf(row) = {} THEN clean \cup {completed + 1} ELSE clean
  <1>1. /\ pc = "await" /\ completed < SampleCount /\ Place = "await"
        /\ attempted = completed + 1 /\ model = Accepted /\ Fine(completed)
    BY DEF PromptReturns, LocalsInv, Place, Quiet
  <1>2. PICK omitted \in {"none", "non_string", "character_limit"}, empty \in BOOLEAN,
             usage \in {"ok", "invalid", "nearCap"} :
          LET row == [call |-> NextCall, omitted |-> omitted, empty |-> empty,
                      usage |-> usage]
              flaws == RowReasonsNow(Append(rows, row))
          IN  /\ empty => omitted = "none"
              /\ rows' = Append(rows, row)
              /\ completed' = completed + 1
              /\ UNCHANGED <<model, attempted>>
              /\ PublishCalls(ActiveCall("returned", NextCall),
                              IF flaws = {} THEN {"canary_incomplete"} ELSE flaws,
                              NoFailure, "close")
              /\ clean' = IF flaws = {} THEN clean \cup {NextCall} ELSE clean
    BY Zenon DEF PromptReturns
  <1>3. PICK row : row = [call |-> NextCall, omitted |-> omitted, empty |-> empty,
                          usage |-> usage]
    OBVIOUS
  <1>4. completed + 1 \in Calls /\ completed \in Nat
    BY <1>1, Types DEF Calls
  <1>5. row \in Row /\ row.call = completed + 1
    BY <1>3, <1>4 DEF Row, NextCall
  <1>6. /\ rows' = Append(rows, row) /\ completed' = completed + 1
        /\ UNCHANGED <<model, attempted>>
        /\ PublishCalls(ActiveCall("returned", completed + 1),
                        IF RowReasonsNow(rows') = {} THEN {"canary_incomplete"}
                                                     ELSE RowReasonsNow(rows'),
                        NoFailure, "close")
        /\ clean' = IF RowReasonsNow(rows') = {} THEN clean \cup {completed + 1} ELSE clean
    BY <1>2, <1>3 DEF NextCall
  <1>7. rows \in Seq(Row) /\ Len(rows) = completed
    BY DEF TypeOK, LocalsInv
  <1>8. /\ rows' \in Seq(Row) /\ Len(rows') = completed + 1
        /\ DOMAIN rows' = 1..(completed + 1)
        /\ \A i \in 1..completed : rows'[i] = rows[i]
        /\ rows'[completed + 1] = row
    BY <1>5, <1>6, <1>7, Appended
  <1>9. \A i \in 1..completed : ReasonOf(rows'[i]) = {}
    BY <1>1, <1>8 DEF Fine
  <1>10. DerivedReasons(rows') = ReasonOf(row) /\ RowReasonsNow(rows') = ReasonOf(row)
    <2>1. (completed + 1) - 1 = completed /\ completed + 1 >= 1
      BY <1>4
    <2> QED
      BY <1>8, <1>9, <2>1, LastRowOnly
  <1>11. UNCHANGED <<disk, image, prompted, closed, crashes>>
    BY DEF PromptReturns
  <1> QED
    BY <1>1, <1>5, <1>6, <1>8, <1>9, <1>10, <1>11

(* What is known when a chat is closed.                                    *)
LEMMA Closing ==
  ASSUME TypeOK, LocalsInv, pc = "close"
  PROVE  /\ completed \in Calls /\ attempted = completed /\ model = Accepted
         /\ Fine(completed - 1)
         /\ ReasonOf(rows[completed]) = {} => completed \in clean
         /\ rows \in Seq(Row) /\ Len(rows) = completed /\ DOMAIN rows = 1..completed
         /\ RowReasonsNow(rows) = ReasonOf(rows[completed])
         /\ DerivedReasons(rows) = ReasonOf(rows[completed])
  <1>1. /\ attempted = completed /\ completed >= 1 /\ Fine(completed - 1) /\ model = Accepted
        /\ ReasonOf(rows[completed]) = {} => completed \in clean
        /\ rows \in Seq(Row) /\ Len(rows) = completed
    BY DEF TypeOK, LocalsInv, Place, Quiet
  <1>2. completed \in Calls
    BY <1>1, Types DEF Calls
  <1>3. /\ RowReasonsNow(rows) = ReasonOf(rows[completed])
        /\ DerivedReasons(rows) = ReasonOf(rows[completed])
    BY <1>1, LastRowOnly DEF Fine
  <1> QED
    BY <1>1, <1>2, <1>3, Types

(* The actions that publish a receipt of the model calls, with what they   *)
(* hand to publish.                                                        *)
LEMMA CountsFrame ==
  ASSUME TypeOK, LocalsInv, [Next]_vars
  PROVE  \/ UNCHANGED counts
         \/ ChatOpens /\ attempted' = attempted + 1 /\ UNCHANGED <<completed, rows>>
         \/ PromptReturns
  BY DEF Next, vars, counts, history, RuntimeConforms, RuntimeMismatch, PackageVerified,
         PackageDrifted, ModelPreflightFails, ModelAccepted, WriteReceipt, PrepareCall,
         AllDone, ChatOpens, ChatOpenFails, Prompt, PromptRaises, ChatCloses,
         ChatCloseFails, Interrupted, MachineCrash

LEMMA NextCounts ==
  ASSUME TypeOK, LocalsInv, [Next]_vars
  PROVE  /\ attempted' \in 0..SampleCount /\ completed' \in 0..SampleCount
         /\ rows' \in Seq(Row) /\ Len(rows') = completed' /\ DOMAIN rows' = 1..completed'
         /\ \A i \in DOMAIN rows' : rows'[i].call = i
  <1>0. /\ attempted \in 0..SampleCount /\ completed \in 0..SampleCount
        /\ rows \in Seq(Row) /\ Len(rows) = completed /\ DOMAIN rows = 1..completed
        /\ \A i \in DOMAIN rows : rows[i].call = i
    BY Types DEF TypeOK, LocalsInv
  <1>1. CASE UNCHANGED counts
    BY <1>0, <1>1 DEF counts
  <1>2. CASE ChatOpens /\ attempted' = attempted + 1 /\ UNCHANGED <<completed, rows>>
    <2>1. attempted = completed /\ completed < SampleCount
      BY <1>2 DEF ChatOpens, LocalsInv, Place
    <2>2. attempted' \in 0..SampleCount
      BY <1>0, <1>2, <2>1, Types
    <2> QED
      BY <1>0, <1>2, <2>2
  <1>3. CASE PromptReturns
    <2>1. PICK row \in Row :
            /\ row.call = completed + 1
            /\ rows' \in Seq(Row) /\ Len(rows') = completed + 1
            /\ DOMAIN rows' = 1..(completed + 1)
            /\ \A i \in 1..completed : rows'[i] = rows[i]
            /\ rows'[completed + 1] = row
      BY <1>3, Returned
    <2>2. completed < SampleCount /\ completed' = completed + 1 /\ attempted' = attempted
      BY <1>3, Returned
    <2>3. \A i \in DOMAIN rows' : i \in 1..completed \/ i = completed + 1
      BY <1>0, <2>1
    <2>4. \A i \in DOMAIN rows' : rows'[i].call = i
      BY <1>0, <2>1, <2>3
    <2>5. completed' \in 0..SampleCount
      BY <1>0, <2>2, Types
    <2> QED
      BY <1>0, <2>1, <2>2, <2>4, <2>5
  <1> QED
    BY <1>1, <1>2, <1>3, CountsFrame

(* What stays fine as the histories grow.                                  *)
LEMMA FineStays ==
  ASSUME NEW count, Fine(count), clean \subseteq clean', closed \subseteq closed',
         \A i \in 1..count : rows'[i] = rows[i]
  PROVE  /\ 1..count \subseteq clean' \cap closed'
         /\ \A i \in 1..count : ReasonOf(rows'[i]) = {}
  BY DEF Fine

LEMMA NextLocals ==
  ASSUME TypeOK, LocalsInv, [Next]_vars
  PROVE  LocalsInv'
  <1> USE DEF Place, Quiet, Preflight
  <1>0. /\ pc \in Steps \cup Ended /\ after \in Position
        /\ completed \in Nat /\ attempted \in Nat /\ SampleCount \in Nat
        /\ Len(rows) = completed /\ DOMAIN rows = 1..completed
    BY Types DEF LocalsInv
  <1>a. Len(rows') = completed' /\ \A i \in DOMAIN rows' : rows'[i].call = i
    BY NextCounts
  <1>1. CASE RuntimeConforms \/ PackageVerified
    BY <1>1 DEF RuntimeConforms, PackageVerified, LocalsInv, Fine, counts, history
  <1>2. CASE RuntimeMismatch \/ PackageDrifted \/ ModelPreflightFails
    <2>1. /\ pc' = "publish" /\ after' = "returned"
          /\ UNCHANGED <<rows, completed>>
      BY <1>2, PreflightPublished DEF counts
    <2> QED
      BY <1>a, <2>1 DEF LocalsInv
  <1>3. CASE ModelAccepted
    <2>1. /\ pc = "model" /\ model' = Accepted
          /\ UNCHANGED <<attempted, completed, rows, prompted, clean, closed>>
          /\ pc' = "publish" /\ after' = "loop"
      BY <1>3 DEF ModelAccepted, Accepted, counts, history, PublishCalls, Publish
    <2> QED
      BY <1>a, <2>1 DEF LocalsInv, Fine
  <1>4. CASE WriteReceipt
    <2>1. /\ pc = "publish" /\ pc' = after
          /\ UNCHANGED <<after, model, attempted, completed, rows, prompted, clean, closed>>
      BY <1>4 DEF WriteReceipt, counts, history
    <2> QED
      BY <1>0, <1>a, <2>1 DEF LocalsInv, Fine, Position
  <1>5. CASE PrepareCall
    <2>1. /\ pc = "loop" /\ completed < SampleCount
          /\ UNCHANGED <<model, attempted, completed, rows, prompted, clean, closed>>
          /\ pc' = "publish" /\ after' = "open"
      BY <1>5 DEF PrepareCall, counts, history, PublishCalls, Publish
    <2> QED
      BY <1>a, <2>1 DEF LocalsInv, Fine
  <1>6. CASE ChatOpens
    <2>1. /\ pc = "open" /\ attempted' = attempted + 1
          /\ UNCHANGED <<model, completed, rows, prompted, clean, closed>>
          /\ pc' = "publish" /\ after' = "prompt"
      BY <1>6 DEF ChatOpens, history, PublishCalls, Publish
    <2> QED
      BY <1>a, <2>1 DEF LocalsInv, Fine
  <1>7. CASE AllDone \/ ChatOpenFails \/ PromptRaises \/ ChatCloseFails
    <2>1. pc' = "publish" /\ after' = "returned"
      BY <1>7 DEF AllDone, ChatOpenFails, PromptRaises, ChatCloseFails, PublishCalls, Publish
    <2> QED
      BY <1>a, <2>1 DEF LocalsInv
  <1>8. CASE Prompt
    <2>1. /\ pc = "prompt" /\ pc' = "await" /\ prompted' = prompted \cup {completed + 1}
          /\ UNCHANGED <<model, attempted, completed, rows, clean, closed>>
      BY <1>8 DEF Prompt, counts, NextCall
    <2>2. prompted' \subseteq 1..(completed + 1)
      BY <1>0, <2>1 DEF LocalsInv
    <2> QED
      BY <1>a, <2>1, <2>2 DEF LocalsInv, Fine
  <1>9. CASE PromptReturns
    <2>1. PICK row \in Row :
            /\ \A i \in 1..completed : rows'[i] = rows[i]
            /\ rows'[completed + 1] = row
            /\ PublishCalls(ActiveCall("returned", completed + 1),
                            IF ReasonOf(row) = {} THEN {"canary_incomplete"}
                                                  ELSE ReasonOf(row),
                            NoFailure, "close")
            /\ clean' = IF ReasonOf(row) = {} THEN clean \cup {completed + 1} ELSE clean
      BY <1>9, Returned
    <2>2. /\ pc = "await" /\ completed' = completed + 1 /\ attempted = completed + 1
          /\ UNCHANGED <<attempted, prompted, closed, model>> /\ Fine(completed)
          /\ model = Accepted
      BY <1>9, Returned
    <2>3. pc' = "publish" /\ after' = "close"
      BY <2>1 DEF PublishCalls, Publish
    <2>4. clean \subseteq clean' /\ (ReasonOf(row) = {} => completed + 1 \in clean')
      BY <2>1
    <2>5. Fine(completed - 1)'
      <3>1. /\ 1..completed \subseteq clean' \cap closed'
            /\ \A i \in 1..completed : ReasonOf(rows'[i]) = {}
        BY <2>1, <2>2, <2>4, FineStays
      <3>2. completed' - 1 = completed
        BY <1>0, <2>2
      <3> QED
        BY <3>1, <3>2 DEF Fine
    <2>6. prompted' \subseteq 1..completed'
      BY <2>2 DEF LocalsInv
    <2>7. ReasonOf(rows'[completed']) = {} => completed' \in clean'
      BY <2>1, <2>2, <2>4
    <2>8. attempted' = completed' /\ completed' >= 1
      BY <1>0, <2>2
    <2> QED
      BY <1>a, <2>2, <2>3, <2>5, <2>6, <2>7, <2>8 DEF LocalsInv, Fine
  <1>10. CASE ChatCloses
    <2>1. /\ completed \in Calls /\ attempted = completed /\ model = Accepted
          /\ Fine(completed - 1)
          /\ ReasonOf(rows[completed]) = {} => completed \in clean
          /\ RowReasonsNow(rows) = ReasonOf(rows[completed])
      BY <1>10, Closing DEF ChatCloses
    <2>2. /\ pc = "close" /\ closed' = closed \cup {completed}
          /\ UNCHANGED <<model, attempted, completed, rows, prompted, clean>>
      BY <1>10 DEF ChatCloses, counts
    <2>3. CASE ReasonOf(rows[completed]) = {}
      <3>1. pc' = "publish" /\ after' = "loop"
        BY <1>10, <2>1, <2>3 DEF ChatCloses, PublishCalls, Publish
      <3>2. Fine(completed)'
        <4>1. \A i \in 1..completed : i \in 1..(completed - 1) \/ i = completed
          BY <1>0
        <4>2. 1..completed \subseteq clean' \cap closed'
          BY <2>1, <2>2, <2>3, <4>1 DEF Fine
        <4>3. \A i \in 1..completed : ReasonOf(rows'[i]) = {}
          BY <2>1, <2>2, <2>3, <4>1 DEF Fine
        <4> QED
          BY <2>2, <4>2, <4>3 DEF Fine
      <3> QED
        BY <1>a, <2>1, <2>2, <3>1, <3>2 DEF LocalsInv, Fine
    <2>4. CASE ReasonOf(rows[completed]) # {}
      <3>1. pc' = "publish" /\ after' = "returned"
        BY <1>10, <2>1, <2>4 DEF ChatCloses, PublishCalls, Publish
      <3> QED
        BY <1>a, <3>1 DEF LocalsInv
    <2> QED
      BY <2>3, <2>4
  <1>11. CASE Interrupted \/ MachineCrash
    <2>1. pc' \in Ended
      BY <1>11 DEF Interrupted, MachineCrash, Ended
    <2> QED
      BY <1>a, <2>1 DEF LocalsInv, Ended
  <1>12. CASE UNCHANGED vars
    BY <1>12 DEF vars, counts, history, LocalsInv, Fine
  <1> QED
    BY <1>1, <1>2, <1>3, <1>4, <1>5, <1>6, <1>7, <1>8, <1>9, <1>10, <1>11, <1>12 DEF Next

(* No call is made before those in front of it were clean and closed.      *)
LEMMA NextOrder ==
  ASSUME TypeOK, LocalsInv, OrderInv, [Next]_vars
  PROVE  OrderInv'
  <1>1. CASE Prompt
    <2>1. /\ Fine(completed) /\ prompted' = prompted \cup {completed + 1}
          /\ UNCHANGED <<clean, closed>> /\ completed \in Nat
      BY <1>1, Types DEF Prompt, NextCall, LocalsInv, Place
    <2> QED
      BY <2>1 DEF OrderInv, Fine
  <1>2. CASE ~Prompt
    <2>1. prompted' = prompted /\ clean \subseteq clean' /\ closed \subseteq closed'
      <3>1. CASE PromptReturns
        <4>1. PICK row \in Row :
                clean' = IF ReasonOf(row) = {} THEN clean \cup {completed + 1} ELSE clean
          BY <3>1, Returned
        <4> QED
          BY <3>1, <4>1, Returned
      <3>2. CASE ~PromptReturns
        BY <1>2, <3>2
           DEF Next, vars, counts, history, RuntimeConforms, RuntimeMismatch,
               PackageVerified, PackageDrifted, ModelPreflightFails, ModelAccepted,
               WriteReceipt, PrepareCall, AllDone, ChatOpens, ChatOpenFails, PromptRaises,
               ChatCloses, ChatCloseFails, Interrupted, MachineCrash
      <3> QED
        BY <3>1, <3>2
    <2> QED
      BY <2>1 DEF OrderInv
  <1> QED
    BY <1>1, <1>2

-----------------------------------------------------------------------------
(* What is published verifies and covers the calls made so far.            *)

LEMMA CallsPublishedIs ==
  ASSUME TypeOK, LocalsInv, [Next]_vars, NEW active \in Actives, NEW given,
         NEW failure \in 0..SampleCount, NEW next,
         PublishCalls(active, given, failure, next), model' = Accepted,
         CallPosition(attempted', completed', active),
         Explained(active, rows', given, failure)
  PROVE  /\ pending' \in Receipts /\ ReceiptVerified(pending')
         /\ pending'.status = "blocked" /\ pending'.attempted = attempted'
         /\ pending'.active = active /\ pending'.rows = rows'
         /\ pc' = "publish" /\ after' = next
  <1>1. PICK tried, done, kept, receipt :
          tried = attempted' /\ done = completed' /\ kept = rows' /\ receipt = pending'
    OBVIOUS
  <1>2. /\ tried \in 0..SampleCount /\ done \in 0..SampleCount /\ kept \in Seq(Row)
        /\ Len(kept) = done /\ \A i \in 1..Len(kept) : kept[i].call = i
    BY <1>1, NextCounts
  <1>3. /\ receipt = CallsReceipt(tried, done, active, kept, given, failure)
        /\ pc' = "publish" /\ after' = next
    BY <1>1, PublishCallsIs
  <1>4. CallPosition(tried, done, active) /\ Explained(active, kept, given, failure)
    BY <1>1
  <1>5. /\ receipt \in Receipts /\ ReceiptVerified(receipt)
        /\ receipt.status = "blocked" /\ receipt.attempted = tried
        /\ receipt.active = active /\ receipt.rows = kept
    BY <1>2, <1>3, <1>4, CallsReceiptVerified
  <1> QED
    BY <1>1, <1>3, <1>5

(* Each step that publishes a receipt of the model calls.                  *)
CallsStep ==
  \/ ModelAccepted \/ PrepareCall \/ ChatOpens \/ ChatOpenFails
  \/ PromptRaises \/ PromptReturns \/ ChatCloses \/ ChatCloseFails

LEMMA CallsPublished ==
  ASSUME TypeOK, LocalsInv, CallsStep
  PROVE  /\ pending' \in Receipts /\ ReceiptVerified(pending')
         /\ pending'.status = "blocked" /\ pending'.attempted = attempted'
         /\ pending'.rows = rows' /\ pc' = "publish"
         /\ after' = "prompt" \/ PromptRaises
              => pending'.active = ActiveCall("dispatching", completed' + 1)
         /\ UNCHANGED <<disk, image, prompted, crashes>>
         /\ clean \subseteq clean' /\ closed \subseteq closed'
         /\ attempted' >= completed'
         /\ ~PromptRaises => prompted' \subseteq 1..completed'
  <1> USE DEF Place, Quiet
  <1>0. /\ completed \in 0..SampleCount /\ attempted \in 0..SampleCount
        /\ SampleCount \in Nat /\ SampleCount >= 1
        /\ Len(rows) = completed /\ rows \in Seq(Row)
    BY Types DEF LocalsInv, TypeOK
  <1>n. [Next]_vars
    BY DEF CallsStep, Next
  <1>a. NoActive \in Actives /\ NoActive.state = "none"
    BY <1>0 DEF NoActive, Actives
  <1>b. ASSUME NEW call \in Calls,
               NEW state \in {"prepared", "dispatching", "returned"}
        PROVE  /\ ActiveCall(state, call) \in Actives
               /\ ActiveCall(state, call).state = state
               /\ ActiveCall(state, call).call = call
    BY <1>0 DEF ActiveCall, Actives, Calls
  <1>c. NoFailure \in 0..SampleCount
    BY <1>0 DEF NoFailure
  <1>d. Fine(completed) => DerivedReasons(rows) = {}
    BY <1>0, NoFlaws DEF Fine
  <1>1. CASE ModelAccepted
    <2>1. /\ pc = "model" /\ model' = Accepted
          /\ UNCHANGED <<disk, image, prompted, crashes, clean, closed,
                         attempted, completed, rows>>
          /\ PublishCalls(NoActive, {"canary_incomplete"}, NoFailure, "loop")
      BY <1>1 DEF ModelAccepted, Accepted, counts, history
    <2>2. attempted = 0 /\ completed = 0 /\ prompted = {}
      BY <2>1 DEF LocalsInv, Preflight
    <2>3. DerivedReasons(rows) = {}
      <3>1. 1..Len(rows) = {}
        BY <1>0, <2>2
      <3> QED
        BY <1>0, <3>1, NoFlaws
    <2>4. /\ CallPosition(attempted', completed', NoActive)
          /\ Explained(NoActive, rows', {"canary_incomplete"}, NoFailure)
      BY <1>a, <2>1, <2>2, <2>3 DEF CallPosition, Explained
    <2>5. /\ pending' \in Receipts /\ ReceiptVerified(pending')
          /\ pending'.status = "blocked" /\ pending'.attempted = attempted'
          /\ pending'.rows = rows' /\ pc' = "publish" /\ after' = "loop"
      BY <1>n, <1>a, <1>c, <2>1, <2>4, CallsPublishedIs
    <2>6. ~PromptRaises
      BY <2>1 DEF PromptRaises
    <2> QED
      BY <1>0, <2>1, <2>2, <2>5, <2>6
  <1>2. CASE PrepareCall
    <2> DEFINE call == completed + 1
    <2>1. /\ pc = "loop" /\ completed < SampleCount
          /\ UNCHANGED <<disk, image, prompted, crashes, clean, closed, model,
                         attempted, completed, rows>>
          /\ PublishCalls(ActiveCall("prepared", call), {"canary_incomplete"},
                          NoFailure, "open")
      BY <1>2 DEF PrepareCall, counts, history, NextCall
    <2>2. /\ attempted = completed /\ model = Accepted /\ DerivedReasons(rows) = {}
          /\ prompted \subseteq 1..completed
      BY <1>d, <2>1 DEF LocalsInv
    <2>3. call \in Calls
      BY <1>0, <2>1 DEF Calls
    <2>4. /\ CallPosition(attempted', completed', ActiveCall("prepared", call))
          /\ Explained(ActiveCall("prepared", call), rows', {"canary_incomplete"}, NoFailure)
      BY <1>b, <2>1, <2>2, <2>3 DEF CallPosition, Explained
    <2>5. /\ pending' \in Receipts /\ ReceiptVerified(pending')
          /\ pending'.status = "blocked" /\ pending'.attempted = attempted'
          /\ pending'.rows = rows' /\ pc' = "publish" /\ after' = "open"
      BY <1>n, <1>b, <1>c, <2>1, <2>2, <2>3, <2>4, CallsPublishedIs
    <2>6. ~PromptRaises
      BY <2>1 DEF PromptRaises
    <2> QED
      BY <1>0, <2>1, <2>2, <2>5, <2>6
  <1>3. CASE ChatOpens
    <2> DEFINE call == completed + 1
    <2>1. /\ pc = "open" /\ attempted' = attempted + 1
          /\ UNCHANGED <<disk, image, prompted, crashes, clean, closed, model,
                         completed, rows>>
          /\ PublishCalls(ActiveCall("dispatching", call), {"canary_incomplete"},
                          NoFailure, "prompt")
      BY <1>3 DEF ChatOpens, history, NextCall
    <2>2. /\ attempted = completed /\ model = Accepted /\ DerivedReasons(rows) = {}
          /\ prompted \subseteq 1..completed /\ completed < SampleCount
      BY <1>d, <2>1 DEF LocalsInv
    <2>3. call \in Calls
      BY <1>0, <2>2 DEF Calls
    <2>4. /\ CallPosition(attempted', completed', ActiveCall("dispatching", call))
          /\ Explained(ActiveCall("dispatching", call), rows',
                       {"canary_incomplete"}, NoFailure)
      BY <1>b, <2>1, <2>2, <2>3 DEF CallPosition, Explained
    <2>5. /\ pending' \in Receipts /\ ReceiptVerified(pending')
          /\ pending'.status = "blocked" /\ pending'.attempted = attempted'
          /\ pending'.active = ActiveCall("dispatching", call)
          /\ pending'.rows = rows' /\ pc' = "publish" /\ after' = "prompt"
      BY <1>n, <1>b, <1>c, <2>1, <2>2, <2>3, <2>4, CallsPublishedIs
    <2>6. ~PromptRaises
      BY <2>1 DEF PromptRaises
    <2> QED
      BY <1>0, <2>1, <2>2, <2>5, <2>6
  <1>4. CASE ChatOpenFails
    <2> DEFINE call == completed + 1
    <2>1. /\ pc = "open"
          /\ UNCHANGED <<disk, image, prompted, crashes, clean, closed, model,
                         attempted, completed, rows>>
          /\ PublishCalls(ActiveCall("prepared", call), {"chat_open_failed"},
                          call, "returned")
      BY <1>4 DEF ChatOpenFails, counts, history, NextCall
    <2>2. /\ attempted = completed /\ model = Accepted /\ DerivedReasons(rows) = {}
          /\ prompted \subseteq 1..completed /\ completed < SampleCount
      BY <1>d, <2>1 DEF LocalsInv
    <2>3. call \in Calls /\ call \in 0..SampleCount
      BY <1>0, <2>2 DEF Calls
    <2>4. /\ CallPosition(attempted', completed', ActiveCall("prepared", call))
          /\ Explained(ActiveCall("prepared", call), rows', {"chat_open_failed"}, call)
      BY <1>b, <2>1, <2>2, <2>3 DEF CallPosition, Explained
    <2>5. /\ pending' \in Receipts /\ ReceiptVerified(pending')
          /\ pending'.status = "blocked" /\ pending'.attempted = attempted'
          /\ pending'.rows = rows' /\ pc' = "publish" /\ after' = "returned"
      BY <1>n, <1>b, <2>1, <2>2, <2>3, <2>4, CallsPublishedIs
    <2>6. ~PromptRaises
      BY <2>1 DEF PromptRaises
    <2> QED
      BY <1>0, <2>1, <2>2, <2>5, <2>6
  <1>5. CASE PromptRaises
    <2> DEFINE call == completed + 1
    <2>1. PICK reasons \in {{"model_call_failed"}, {"model_call_failed", "chat_close_failed"}} :
            PublishCalls(ActiveCall("dispatching", call), reasons, call, "returned")
      BY <1>5 DEF PromptRaises, NextCall
    <2>2. /\ pc = "await"
          /\ UNCHANGED <<disk, image, prompted, crashes, clean, closed, model,
                         attempted, completed, rows>>
      BY <1>5 DEF PromptRaises, counts, history
    <2>3. /\ attempted = completed + 1 /\ model = Accepted /\ DerivedReasons(rows) = {}
          /\ completed < SampleCount
      BY <1>d, <2>2 DEF LocalsInv
    <2>4. call \in Calls /\ call \in 0..SampleCount
      BY <1>0, <2>3 DEF Calls
    <2>5. /\ CallPosition(attempted', completed', ActiveCall("dispatching", call))
          /\ Explained(ActiveCall("dispatching", call), rows', reasons, call)
      BY <1>b, <2>2, <2>3, <2>4 DEF CallPosition, Explained
    <2>6. /\ pending' \in Receipts /\ ReceiptVerified(pending')
          /\ pending'.status = "blocked" /\ pending'.attempted = attempted'
          /\ pending'.active = ActiveCall("dispatching", call)
          /\ pending'.rows = rows' /\ pc' = "publish" /\ after' = "returned"
      BY <1>n, <1>b, <2>1, <2>2, <2>3, <2>4, <2>5, CallsPublishedIs
    <2> QED
      BY <1>0, <1>5, <2>2, <2>3, <2>6
  <1>6. CASE PromptReturns
    <2> DEFINE call == completed + 1
    <2>1. PICK row \in Row :
            /\ DerivedReasons(rows') = ReasonOf(row)
            /\ PublishCalls(ActiveCall("returned", call),
                            IF ReasonOf(row) = {} THEN {"canary_incomplete"}
                                                  ELSE ReasonOf(row),
                            NoFailure, "close")
            /\ clean' = IF ReasonOf(row) = {} THEN clean \cup {call} ELSE clean
      BY <1>6, Returned
    <2>2. /\ pc = "await" /\ completed < SampleCount
          /\ attempted = completed + 1 /\ model = Accepted
          /\ UNCHANGED <<disk, image, prompted, closed, crashes, model, attempted>>
          /\ completed' = completed + 1
      BY <1>6, Returned
    <2>3. call \in Calls /\ prompted \subseteq 1..call
      BY <1>0, <2>2 DEF Calls, LocalsInv
    <2>4. PICK given : given = IF ReasonOf(row) = {} THEN {"canary_incomplete"}
                                                     ELSE ReasonOf(row)
      OBVIOUS
    <2>5. /\ CallPosition(attempted', completed', ActiveCall("returned", call))
          /\ Explained(ActiveCall("returned", call), rows', given, NoFailure)
      BY <1>0, <1>b, <2>1, <2>2, <2>3, <2>4 DEF CallPosition, Explained
    <2>6. PublishCalls(ActiveCall("returned", call), given, NoFailure, "close")
      BY <2>1, <2>4
    <2>7. /\ pending' \in Receipts /\ ReceiptVerified(pending')
          /\ pending'.status = "blocked" /\ pending'.attempted = attempted'
          /\ pending'.rows = rows' /\ pc' = "publish" /\ after' = "close"
      BY <1>n, <1>b, <1>c, <2>2, <2>3, <2>5, <2>6, CallsPublishedIs
    <2>8. ~PromptRaises
      BY <2>7 DEF PromptRaises, PublishCalls, Publish
    <2> QED
      BY <1>0, <2>1, <2>2, <2>3, <2>7, <2>8
  <1>7. CASE ChatCloseFails
    <2>1. /\ pc = "close"
          /\ UNCHANGED <<disk, image, prompted, crashes, clean, closed, model,
                         attempted, completed, rows>>
          /\ PublishCalls(ActiveCall("returned", completed),
               (IF RowReasonsNow(rows) = {} THEN {"canary_incomplete"} ELSE RowReasonsNow(rows))
                 \cup {"chat_close_failed"}, completed, "returned")
      BY <1>7 DEF ChatCloseFails, counts, history
    <2>2. /\ completed \in Calls /\ attempted = completed /\ model = Accepted
          /\ RowReasonsNow(rows) = DerivedReasons(rows)
      BY <2>1, Closing
    <2>3. PICK given : given =
               (IF RowReasonsNow(rows) = {} THEN {"canary_incomplete"} ELSE RowReasonsNow(rows))
                 \cup {"chat_close_failed"}
      OBVIOUS
    <2>4. /\ CallPosition(attempted', completed', ActiveCall("returned", completed))
          /\ Explained(ActiveCall("returned", completed), rows', given, completed)
      BY <1>0, <1>b, <2>1, <2>2, <2>3 DEF CallPosition, Explained, Calls
    <2>5. PublishCalls(ActiveCall("returned", completed), given, completed, "returned")
      BY <2>1, <2>3
    <2>6. /\ pending' \in Receipts /\ ReceiptVerified(pending')
          /\ pending'.status = "blocked" /\ pending'.attempted = attempted'
          /\ pending'.rows = rows' /\ pc' = "publish" /\ after' = "returned"
      BY <1>0, <1>n, <1>b, <2>1, <2>2, <2>4, <2>5, CallsPublishedIs
    <2>7. ~PromptRaises
      BY <2>1 DEF PromptRaises
    <2>8. prompted \subseteq 1..completed
      BY <2>1 DEF LocalsInv
    <2> QED
      BY <1>0, <2>1, <2>2, <2>6, <2>7, <2>8
  <1>8. CASE ChatCloses
    <2>1. /\ pc = "close" /\ closed' = closed \cup {completed}
          /\ UNCHANGED <<disk, image, prompted, crashes, clean, model,
                         attempted, completed, rows>>
      BY <1>8 DEF ChatCloses, counts
    <2>2. /\ completed \in Calls /\ attempted = completed /\ model = Accepted
          /\ RowReasonsNow(rows) = DerivedReasons(rows)
      BY <2>1, Closing
    <2>3. PICK given, next :
            /\ given = IF RowReasonsNow(rows) = {} THEN {"canary_incomplete"}
                                                   ELSE RowReasonsNow(rows)
            /\ next \in {"loop", "returned"}
            /\ PublishCalls(NoActive, given, NoFailure, next)
      <3>1. CASE RowReasonsNow(rows) = {}
        BY <1>8, <3>1 DEF ChatCloses
      <3>2. CASE RowReasonsNow(rows) # {}
        BY <1>8, <3>2 DEF ChatCloses
      <3> QED
        BY <3>1, <3>2
    <2>4. /\ CallPosition(attempted', completed', NoActive)
          /\ Explained(NoActive, rows', given, NoFailure)
      BY <1>0, <1>a, <2>1, <2>2, <2>3 DEF CallPosition, Explained
    <2>5. /\ pending' \in Receipts /\ ReceiptVerified(pending')
          /\ pending'.status = "blocked" /\ pending'.attempted = attempted'
          /\ pending'.rows = rows' /\ pc' = "publish" /\ after' = next
      BY <1>n, <1>a, <1>c, <2>1, <2>2, <2>3, <2>4, CallsPublishedIs
    <2>6. ~PromptRaises
      BY <2>1 DEF PromptRaises
    <2>7. prompted \subseteq 1..completed
      BY <2>1 DEF LocalsInv
    <2> QED
      BY <1>0, <2>1, <2>2, <2>3, <2>5, <2>6, <2>7
  <1> QED
    BY <1>1, <1>2, <1>3, <1>4, <1>5, <1>6, <1>7, <1>8 DEF CallsStep

(* The last receipt: every call is clean and closed.                       *)
LEMMA AllDonePublished ==
  ASSUME TypeOK, LocalsInv, AllDone
  PROVE  /\ pending' \in Receipts /\ ReceiptVerified(pending')
         /\ pending'.status = "complete" /\ Calls \subseteq clean \cap closed
         /\ pending'.rows = rows /\ pc' = "publish" /\ after' = "returned"
         /\ prompted \subseteq 1..completed
         /\ UNCHANGED <<disk, image, model, counts, history, crashes>>
  <1>1. /\ pc = "loop" /\ completed = SampleCount
        /\ pc' = "publish" /\ after' = "returned"
        /\ pending' = Receipt("complete", Observed(TRUE, "verified", model),
                              CallsSoFar(attempted, completed, NoActive, rows),
                              {}, NoFailure)
        /\ UNCHANGED <<disk, image, model, counts, history, crashes>>
    BY DEF AllDone, Publish
  <1>2. /\ attempted = completed /\ model = Accepted /\ Fine(completed)
        /\ prompted \subseteq 1..completed
        /\ rows \in Seq(Row) /\ Len(rows) = completed
        /\ \A i \in 1..Len(rows) : rows[i].call = i
    BY <1>1, Types DEF LocalsInv, Place, Quiet, TypeOK
  <1>3. DerivedReasons(rows) = {}
    BY <1>2, NoFlaws DEF Fine
  <1>4. Blocked({}, rows) = {}
    BY <1>3, BlockedIs
  <1>5. pending' = [status |-> "complete", phase |-> "complete",
                    conformant |-> TRUE, dependency |-> "verified",
                    model |-> Accepted, attempted |-> SampleCount,
                    completed |-> SampleCount, active |-> NoActive,
                    rows |-> rows, reasons |-> {}, failure |-> NoFailure]
    BY <1>1, <1>2, <1>4 DEF Receipt, Observed, CallsSoFar
  <1>6. pending' \in Receipts
    BY <1>2, <1>5, Types DEF Receipts, Accepted, Models, NoActive, NoFailure, PackageFailure
  <1>10. /\ pending'.status = "complete" /\ pending'.rows = rows
         /\ pending'.attempted = SampleCount /\ pending'.completed = SampleCount
         /\ pending'.active = NoActive /\ pending'.reasons = {}
    BY <1>5
  <1>7. /\ CallsAddUp(pending') /\ RowsAreCanonical(pending'.rows)
        /\ ReasonsMatchRows(pending')
    <2>1. Len(rows) = SampleCount /\ SampleCount \in Nat
      BY <1>1, <1>2, Types
    <2>2. CallsAddUp(pending')
      BY <1>10, <2>1 DEF CallsAddUp
    <2>3. RowsAreCanonical(pending'.rows)
      BY <1>2, <1>10, <2>1 DEF RowsAreCanonical
    <2>4. ReasonsMatchRows(pending')
      BY <1>3, <1>10 DEF ReasonsMatchRows
    <2> QED
      BY <2>2, <2>3, <2>4
  <1>8. StatusFits(pending')
    BY <1>5 DEF StatusFits, Complete, Accepted
  <1>9. Calls \subseteq clean \cap closed
    BY <1>1, <1>2 DEF Fine, Calls
  <1> QED
    BY <1>1, <1>2, <1>6, <1>7, <1>8, <1>9, <1>10 DEF ReceiptVerified

LEMMA OneMore ==
  ASSUME NEW count \in Nat
  PROVE  1..(count + 1) = (1..count) \cup {count + 1}
  OBVIOUS

(* Every step: what it publishes is whole and covers the calls.            *)
Publishing == RuntimeMismatch \/ PackageDrifted \/ ModelPreflightFails \/ AllDone \/ CallsStep

LEMMA PublishedCovers ==
  ASSUME TypeOK, LocalsInv, Publishing
  PROVE  /\ pending' \in Receipts /\ Whole(pending)' /\ Covers(pending)'
         /\ pc' = "publish" /\ (after' = "prompt" => Dispatching(pending)')
         /\ UNCHANGED <<disk, image, prompted, crashes>>
         /\ clean \subseteq clean' /\ closed \subseteq closed'
  <1>0. [Next]_vars
    BY DEF Publishing, CallsStep, Next
  <1>1. CASE RuntimeMismatch \/ PackageDrifted \/ ModelPreflightFails
    <2>1. /\ pending' \in Receipts /\ ReceiptVerified(pending') /\ pending'.status = "blocked"
          /\ pc \in Preflight /\ pc' = "publish" /\ after' = "returned"
          /\ UNCHANGED <<disk, image, model, counts, history, crashes>>
      BY <1>1, PreflightPublished DEF Preflight
    <2>2. prompted = {} /\ UNCHANGED <<prompted, clean, closed>>
      BY <2>1 DEF LocalsInv, Place, Preflight, history
    <2> QED
      BY <2>1, <2>2 DEF Whole, Covers
  <1>2. CASE AllDone
    <2>1. /\ pending' \in Receipts /\ ReceiptVerified(pending')
          /\ pending'.status = "complete" /\ Calls \subseteq clean \cap closed
          /\ pending'.rows = rows /\ pc' = "publish" /\ after' = "returned"
          /\ prompted \subseteq 1..completed
          /\ UNCHANGED <<disk, image, model, counts, history, crashes>>
      BY <1>2, AllDonePublished
    <2>2. prompted \subseteq {rows[i].call : i \in DOMAIN rows}
      BY <2>1, Types DEF LocalsInv
    <2>3. Reviewed(pending')
      BY <2>1, FileAssumption DEF Reviewed
    <2> QED
      BY <2>1, <2>2, <2>3 DEF Whole, Covers, history
  <1>3. CASE CallsStep
    <2>1. /\ pending' \in Receipts /\ ReceiptVerified(pending')
          /\ pending'.status = "blocked" /\ pending'.attempted = attempted'
          /\ pending'.rows = rows' /\ pc' = "publish"
          /\ after' = "prompt" \/ PromptRaises
               => pending'.active = ActiveCall("dispatching", completed' + 1)
          /\ UNCHANGED <<disk, image, prompted, crashes>>
          /\ clean \subseteq clean' /\ closed \subseteq closed'
          /\ attempted' >= completed'
          /\ ~PromptRaises => prompted' \subseteq 1..completed'
      BY <1>3, CallsPublished
    <2>2. /\ attempted' \in Nat /\ completed' \in Nat
          /\ DOMAIN rows' = 1..completed' /\ \A i \in DOMAIN rows' : rows'[i].call = i
      BY <1>0, NextCounts
    <2>3. {rows'[i].call : i \in DOMAIN rows'} = 1..completed'
      BY <2>2
    <2>4. CASE PromptRaises
      <3>1. prompted' \subseteq 1..(completed' + 1)
        BY <2>1, <2>4 DEF PromptRaises, LocalsInv, Place, counts
      <3>2. /\ pending'.active.state = "dispatching"
            /\ pending'.active.call = completed' + 1 /\ pending'.active # NoActive
        BY <2>1, <2>4 DEF ActiveCall, NoActive
      <3>3. prompted' \subseteq (1..completed') \cup {completed' + 1}
        <4>1. completed' \in Nat
          BY <2>2
        <4>2. 1..(completed' + 1) = (1..completed') \cup {completed' + 1}
          BY <4>1, OneMore
        <4> QED
          BY <3>1, <4>2
      <3>4. Reviewed(pending')
        BY <2>1, <3>2, FileAssumption DEF Reviewed, RequiresManualReview
      <3> QED
        BY <2>1, <2>3, <3>2, <3>3, <3>4 DEF Whole, Covers, Dispatching
    <2>5. CASE ~PromptRaises
      <3>1. prompted' \subseteq 1..completed'
        BY <2>1, <2>5
      <3>2. ASSUME prompted' # {} PROVE Reviewed(pending')
        <4>1. completed' >= 1
          <5>1. PICK call \in prompted' : TRUE
            BY <3>2
          <5>2. call \in 1..completed'
            BY <3>1
          <5> QED
            BY <2>2, <5>2
        <4>2. attempted' > 0
          BY <2>1, <2>2, <4>1
        <4> QED
          BY <2>1, <4>2, FileAssumption DEF Reviewed, RequiresManualReview
      <3> QED
        BY <2>1, <2>3, <3>1, <3>2 DEF Whole, Covers, Dispatching
    <2> QED
      BY <2>4, <2>5
  <1> QED
    BY <1>1, <1>2, <1>3 DEF Publishing

-----------------------------------------------------------------------------
(* Type correctness.                                                       *)

LEMMA InitTask == Init => TaskInv
  <1> SUFFICES ASSUME Init PROVE TaskInv
    OBVIOUS
  <1>1. /\ pc = "runtime" /\ after = "returned" /\ model = Unavailable
        /\ attempted = 0 /\ completed = 0 /\ rows = <<>> /\ rows \in Seq(Row)
        /\ Len(rows) = 0 /\ DOMAIN rows = {}
        /\ prompted = {} /\ clean = {} /\ closed = {} /\ crashes = 0
        /\ 0 \in 0..SampleCount /\ 0 \in 0..MaxCrashes
    BY DiagnosticAssumption DEF Init
  <1>2. /\ disk \in [{ReceiptPath} -> Receipts \cup {NoFile}]
        /\ image \in [{ReceiptPath} -> SUBSET (Receipts \cup {NoFile})]
        /\ disk[ReceiptPath] = NoFile /\ image[ReceiptPath] = {NoFile}
    <2>1. /\ disk = [p \in {ReceiptPath} |-> NoFile]
          /\ image = [p \in {ReceiptPath} |-> {NoFile}]
      BY DEF Init, StoreInit
    <2> QED
      BY <2>1
  <1>3. pending \in Receipts
    <2>1. DerivedReasons(<<>>) = {}
      BY DEF DerivedReasons
    <2>2. Blocked({}, <<>>) = {}
      BY <2>1, BlockedIs
    <2>3. pending = [status |-> "blocked", phase |-> "runtime_preflight",
                     conformant |-> TRUE, dependency |-> "unchecked",
                     model |-> Unavailable, attempted |-> 0,
                     completed |-> 0, active |-> NoActive,
                     rows |-> <<>>, reasons |-> {}, failure |-> NoFailure]
      BY <2>2 DEF Init, Receipt, Observed, NoCallsYet, CallsSoFar
    <2> QED
      BY <1>1, <2>3, DiagnosticAssumption
         DEF Receipts, Unavailable, Models, NoActive, NoFailure, PackageFailure
  <1>4. TypeOK
    BY <1>1, <1>2, <1>3 DEF TypeOK, Steps, Unavailable, Models
  <1>5. LocalsInv
    BY <1>1, <1>2 DEF LocalsInv, Place, Preflight, Quiet
  <1>6. OrderInv /\ ReceiptInv
    BY <1>1, <1>2 DEF OrderInv, ReceiptInv
  <1> QED
    BY <1>4, <1>5, <1>6 DEF TaskInv

LEMMA NextType ==
  ASSUME TypeOK, LocalsInv, [Next]_vars
  PROVE  TypeOK'
  <1>0. attempted' \in 0..SampleCount /\ completed' \in 0..SampleCount /\ rows' \in Seq(Row)
    BY NextCounts
  <1>1. model' \in Models
    <2>1. Accepted \in Models
      BY DEF Accepted, Models
    <2>2. model' = model \/ model' = Accepted
      BY DEF Next, vars, counts, history, RuntimeConforms, RuntimeMismatch,
             PackageVerified, PackageDrifted, ModelPreflightFails, ModelAccepted,
             WriteReceipt, PrepareCall, AllDone, ChatOpens, ChatOpenFails, Prompt,
             PromptRaises, PromptReturns, ChatCloses, ChatCloseFails, Interrupted,
             MachineCrash, Accepted
    <2> QED
      BY <2>1, <2>2, Types
  <1>2. prompted' \subseteq Calls
    <2>1. CASE Prompt
      <3>1. completed + 1 \in Calls
        BY <2>1, Types DEF Prompt, LocalsInv, Place, Calls
      <3> QED
        BY <2>1, <3>1, Types DEF Prompt, NextCall
    <2>2. CASE ~Prompt
      <3>1. prompted' = prompted
        BY <2>2
           DEF Next, vars, counts, history, RuntimeConforms, RuntimeMismatch,
               PackageVerified, PackageDrifted, ModelPreflightFails, ModelAccepted,
               WriteReceipt, PrepareCall, AllDone, ChatOpens, ChatOpenFails,
               PromptRaises, PromptReturns, ChatCloses, ChatCloseFails, Interrupted,
               MachineCrash
      <3> QED
        BY <3>1, Types
    <2> QED
      BY <2>1, <2>2
  <1>3. clean' \subseteq Calls /\ closed' \subseteq Calls
    <2>1. CASE PromptReturns
      <3>1. PICK row \in Row :
              clean' = IF ReasonOf(row) = {} THEN clean \cup {completed + 1} ELSE clean
        BY <2>1, Returned
      <3>2. closed' = closed /\ completed + 1 \in Calls
        BY <2>1, Returned, Types DEF Calls
      <3> QED
        BY <3>1, <3>2, Types
    <2>2. CASE ChatCloses
      <3>1. completed \in Calls
        BY <2>2, Closing DEF ChatCloses
      <3> QED
        BY <2>2, <3>1, Types DEF ChatCloses
    <2>3. CASE ~PromptReturns /\ ~ChatCloses
      <3>1. UNCHANGED <<clean, closed>>
        BY <2>3
           DEF Next, vars, counts, history, RuntimeConforms, RuntimeMismatch,
               PackageVerified, PackageDrifted, ModelPreflightFails, ModelAccepted,
               WriteReceipt, PrepareCall, AllDone, ChatOpens, ChatOpenFails, Prompt,
               PromptRaises, ChatCloseFails, Interrupted, MachineCrash
      <3> QED
        BY <3>1, Types
    <2> QED
      BY <2>1, <2>2, <2>3
  <1>4. CASE Publishing
    <2>1. /\ pending' \in Receipts /\ pc' = "publish"
          /\ UNCHANGED <<disk, image, crashes>>
      BY <1>4, PublishedCovers
    <2>2. after' \in Position
      <3>1. CASE RuntimeMismatch \/ PackageDrifted \/ ModelPreflightFails
        BY <3>1, PreflightPublished DEF Position
      <3>2. CASE ~(RuntimeMismatch \/ PackageDrifted \/ ModelPreflightFails)
        BY <1>4, <3>2
           DEF Publishing, CallsStep, ModelAccepted, PrepareCall, AllDone, ChatOpens,
               ChatOpenFails, PromptRaises, PromptReturns, ChatCloses, ChatCloseFails,
               PublishCalls, Publish, Position
      <3> QED
        BY <3>1, <3>2
    <2> QED
      BY <1>0, <1>1, <1>2, <1>3, <2>1, <2>2 DEF TypeOK, Steps, Position
  <1>5. CASE WriteReceipt
    <2>1. /\ Replace(ReceiptPath, pending) /\ pc' = after
          /\ UNCHANGED <<after, pending, crashes>>
      BY <1>5 DEF WriteReceipt
    <2>2. /\ disk' \in [{ReceiptPath} -> Receipts \cup {NoFile}]
          /\ image' \in [{ReceiptPath} -> SUBSET (Receipts \cup {NoFile})]
      BY <2>1, Types, FileReplaced
    <2> QED
      BY <1>0, <1>1, <1>2, <1>3, <2>1, <2>2 DEF TypeOK, Steps, Ended
  <1>6. CASE MachineCrash
    <2>1. /\ disk' \in [{ReceiptPath} -> Receipts \cup {NoFile}]
          /\ image' \in [{ReceiptPath} -> SUBSET (Receipts \cup {NoFile})]
      BY <1>6, FileLost DEF MachineCrash
    <2>2. crashes' \in 0..MaxCrashes /\ pc' \in Steps \cup Ended
      BY <1>6, Types DEF MachineCrash, Ended
    <2>3. UNCHANGED <<after, pending>>
      BY <1>6 DEF MachineCrash
    <2> QED
      BY <1>0, <1>1, <1>2, <1>3, <2>1, <2>2, <2>3 DEF TypeOK
  <1>7. CASE RuntimeConforms \/ PackageVerified \/ Prompt \/ Interrupted \/ UNCHANGED vars
    <2>1. UNCHANGED <<disk, image, after, pending, crashes>> /\ pc' \in Steps \cup Ended
      BY <1>7, Types DEF RuntimeConforms, PackageVerified, Prompt, Interrupted, vars,
                         Steps, Ended
    <2> QED
      BY <1>0, <1>1, <1>2, <1>3, <2>1 DEF TypeOK
  <1> QED
    BY <1>4, <1>5, <1>6, <1>7 DEF Next, Publishing, CallsStep

-----------------------------------------------------------------------------
(* The file.                                                               *)

(* What is whole stays whole as the histories grow.                        *)
LEMMA WholeStays ==
  ASSUME clean \subseteq clean', closed \subseteq closed', NEW receipt, Whole(receipt)
  PROVE  /\ ReceiptVerified(receipt)
         /\ receipt.status = "complete" => Calls \subseteq clean' \cap closed'
  BY DEF Whole

LEMMA ImageStays ==
  ASSUME clean \subseteq clean', closed \subseteq closed',
         image'[ReceiptPath] \subseteq image[ReceiptPath],
         \A receipt \in image[ReceiptPath] \ {NoFile} : Whole(receipt)
  PROVE  (\A receipt \in image[ReceiptPath] \ {NoFile} : Whole(receipt))'
  BY WholeStays DEF Whole

LEMMA NextReceipt ==
  ASSUME TypeOK, LocalsInv, ReceiptInv, [Next]_vars
  PROVE  ReceiptInv'
  <1>1. CASE Publishing
    <2>1. /\ Whole(pending)' /\ Covers(pending)' /\ pc' = "publish"
          /\ after' = "prompt" => Dispatching(pending)'
          /\ UNCHANGED <<disk, image, prompted, crashes>>
          /\ clean \subseteq clean' /\ closed \subseteq closed'
      BY <1>1, PublishedCovers
    <2>2. (\A receipt \in image[ReceiptPath] \ {NoFile} : Whole(receipt))'
      BY <2>1, ImageStays DEF ReceiptInv
    <2>3. crashes' = 0 /\ prompted' # {} =>
            disk'[ReceiptPath] # NoFile /\ Covers(disk[ReceiptPath])'
      BY <2>1 DEF ReceiptInv, Covers
    <2>4. disk'[ReceiptPath] \in image'[ReceiptPath]
      BY <2>1 DEF ReceiptInv
    <2> QED
      BY <2>1, <2>2, <2>3, <2>4 DEF ReceiptInv
  <1>2. CASE WriteReceipt
    <2>1. /\ pc = "publish" /\ pc' = after
          /\ UNCHANGED <<pending, model, counts, prompted, clean, closed, crashes>>
          /\ disk'[ReceiptPath] = pending
          /\ image'[ReceiptPath] = image[ReceiptPath] \cup {pending}
      BY <1>2, Types, FileReplaced DEF WriteReceipt, history
    <2>2. Whole(pending) /\ Covers(pending) /\ (after = "prompt" => Dispatching(pending))
      BY <2>1 DEF ReceiptInv
    <2>3. pending # NoFile
      BY Types, FileAssumption
    <2>4. (\A receipt \in image[ReceiptPath] \ {NoFile} : Whole(receipt))'
      BY <2>1, <2>2 DEF ReceiptInv, Whole
    <2>5. pc' # "publish" /\ pc' # "await"
      BY <2>1, Types DEF Position
    <2>6. Covers(disk[ReceiptPath])'
      BY <2>1, <2>2 DEF Covers
    <2>7. pc' = "prompt" => Dispatching(disk[ReceiptPath])'
      BY <2>1, <2>2 DEF Dispatching, counts
    <2> QED
      BY <2>1, <2>3, <2>4, <2>5, <2>6, <2>7 DEF ReceiptInv
  <1>3. CASE Prompt
    <2>1. /\ pc = "prompt" /\ pc' = "await" /\ prompted' = prompted \cup {completed + 1}
          /\ UNCHANGED <<disk, image, attempted, completed, rows, clean, closed, crashes>>
      BY <1>3 DEF Prompt, NextCall, counts
    <2>2. (\A receipt \in image[ReceiptPath] \ {NoFile} : Whole(receipt))'
      BY <2>1 DEF ReceiptInv, Whole
    <2>3. ASSUME crashes = 0
          PROVE  /\ disk[ReceiptPath] # NoFile /\ Dispatching(disk[ReceiptPath])'
                 /\ Covers(disk[ReceiptPath])'
      <3>1. disk[ReceiptPath] # NoFile /\ Dispatching(disk[ReceiptPath])
        BY <2>1, <2>3 DEF ReceiptInv
      <3>2. /\ disk[ReceiptPath].rows = rows
            /\ disk[ReceiptPath].active.state = "dispatching"
            /\ disk[ReceiptPath].active.call = completed + 1
            /\ disk[ReceiptPath].active # NoActive
        BY <3>1 DEF Dispatching, ActiveCall, NoActive
      <3>3. prompted \subseteq {rows[i].call : i \in DOMAIN rows}
        BY <2>1, Types DEF LocalsInv, Place
      <3>4. Reviewed(disk[ReceiptPath])
        BY <3>1, <3>2 DEF Reviewed, RequiresManualReview
      <3>5. Covers(disk[ReceiptPath])'
        BY <2>1, <3>2, <3>3, <3>4 DEF Covers
      <3> QED
        BY <2>1, <3>1, <3>5 DEF Dispatching
    <2>4. disk'[ReceiptPath] \in image'[ReceiptPath]
      BY <2>1 DEF ReceiptInv
    <2> QED
      BY <2>1, <2>2, <2>3, <2>4 DEF ReceiptInv
  <1>4. CASE MachineCrash
    <2>1. /\ crashes' = crashes + 1 /\ crashes \in Nat
          /\ disk'[ReceiptPath] \in image[ReceiptPath]
          /\ image'[ReceiptPath] = {disk'[ReceiptPath]}
          /\ UNCHANGED <<clean, closed>>
          /\ pc' \in Ended
      BY <1>4, Types, FileLost DEF MachineCrash, history, Ended
    <2>2. (\A receipt \in image[ReceiptPath] \ {NoFile} : Whole(receipt))'
      BY <2>1, ImageStays DEF ReceiptInv
    <2>3. crashes' # 0 /\ pc' # "publish"
      BY <2>1 DEF Ended
    <2> QED
      BY <2>1, <2>2, <2>3 DEF ReceiptInv
  <1>5. CASE RuntimeConforms \/ PackageVerified \/ Interrupted
    <2>1. /\ UNCHANGED <<disk, image, prompted, clean, closed, crashes>>
          /\ pc' \notin {"publish", "prompt", "await"}
      BY <1>5 DEF RuntimeConforms, PackageVerified, Interrupted, history
    <2>2. (\A receipt \in image[ReceiptPath] \ {NoFile} : Whole(receipt))'
      BY <2>1, ImageStays DEF ReceiptInv
    <2> QED
      BY <2>1, <2>2 DEF ReceiptInv, Covers
  <1>6. CASE UNCHANGED vars
    BY <1>6 DEF vars, counts, history, ReceiptInv, Whole, Covers, Dispatching
  <1> QED
    BY <1>1, <1>2, <1>3, <1>4, <1>5, <1>6 DEF Next, Publishing, CallsStep

LEMMA NextTask == TaskInv /\ [Next]_vars => TaskInv'
  BY NextType, NextLocals, NextOrder, NextReceipt DEF TaskInv

(* The task by itself, and under the operator's eyes.                      *)
LEMMA TaskInvariant == Spec => []TaskInv
  BY InitTask, NextTask, PTL DEF Spec

LEMMA OutputTask == OutputSpec => []TaskInv
  <1>1. OutputInit => TaskInv
    BY InitTask DEF OutputInit
  <1>2. [OutputNext]_allVars => [Next]_vars
    BY DEF OutputNext, TaskStep, RunEnds, CreationEnds, ForeignRun, GetTask, ListPage,
           SelectRun, Download, Bundle, allVars
  <1> QED
    BY <1>1, <1>2, NextTask, PTL DEF OutputSpec

-----------------------------------------------------------------------------
(* Theorems about the receipts of the task.                                *)

(* Every variable of run_deployment_diagnostic keeps its type.             *)
THEOREM TypeCorrect == Spec => []TypeOK
  <1>1. TaskInv => TypeOK
    BY DEF TaskInv
  <1> QED
    BY <1>1, TaskInvariant, PTL

(* Whatever receipt an exception, a kill or a machine crash leaves behind, *)
(* verify_kaggle_diagnostic_receipt accepts it.                            *)
THEOREM ReceiptsVerifyProved == OutputSpec => []ReceiptsVerify
  <1>1. TaskInv => ReceiptsVerify
    BY DEF TaskInv, ReceiptInv, Whole, ReceiptsVerify
  <1> QED
    BY <1>1, OutputTask, PTL

(* As long as the machine keeps running, _requires_manual_review asks for  *)
(* a review wherever a rerun could duplicate a call.                       *)
THEOREM ReviewBeforeRerunProved == OutputSpec => []ReviewBeforeRerun
  <1>1. TaskInv => ReviewBeforeRerun
    BY DEF TaskInv, ReceiptInv, Covers, ReviewBeforeRerun
  <1> QED
    BY <1>1, OutputTask, PTL

(* The receipt on disk has a row for each call made or names it as the     *)
(* dispatching one, and no call follows one that was not clean and closed. *)
THEOREM CallsAreAccountedProved == OutputSpec => []CallsAreAccounted
  <1>1. TaskInv => CallsAreAccounted
    BY DEF TaskInv, ReceiptInv, OrderInv, Covers, CallsAreAccounted
  <1> QED
    BY <1>1, OutputTask, PTL

-----------------------------------------------------------------------------
(* The operator: the creation's run is the oldest and the only one with    *)
(* its identity; the operator only gets past the list with a page that     *)
(* holds it, and by then the task has ended and nothing of it changes.     *)

TaskRuns == [id : Nat, version : {"requested", "another"},
             state : {"RUNNING"} \cup Terminal]
Own == runs[Len(runs)]

RunsInv ==
  /\ runs \in Seq(TaskRuns) /\ Len(runs) >= 1
  /\ \A i \in DOMAIN runs : runs[i].id = CreationRun <=> i = Len(runs)
  /\ Own.version = "requested"
  /\ Own.state \in Terminal => pc \in Ended
  /\ Own.state = "COMPLETED" => pc = "returned" /\ crashes = 0
  /\ creation \in {"RUNNING"} \cup Terminal
  /\ creation \in Terminal => Own.state \in Terminal
  /\ creation = "COMPLETED" => Own.state = "COMPLETED"

OperatorInv ==
  /\ op \in {"idle", "list", "select", "download", "bundle"}
  /\ gate \in {"zero-call", "six-call"} /\ expectedRun \in {NoRun, CreationRun}
  /\ listed \in Seq(TaskRuns) /\ tokens \in Seq(Nat)
  /\ op = "idle" => listed = <<>>
  /\ op # "idle" => /\ creation \in Terminal /\ task = creation /\ DatasetsFit(gate)
                    /\ \A i \in DOMAIN listed : listed[i].id = CreationRun => listed[i] = Own
  /\ op = "list" => tokens # <<>> /\ Last(tokens) < Len(runs)
  /\ op \in {"select", "download", "bundle"} => \E i \in DOMAIN listed : listed[i] = Own
  /\ op \in {"download", "bundle"} => Cardinality(Matches) = 1
  /\ op = "bundle" => archive = disk[ReceiptPath] /\ archive # NoFile

MetaInv == (metadata # NotRetained => creation \in Terminal) /\ MetadataIsTrue

OutputInv == TaskInv /\ RunsInv /\ OperatorInv /\ MetaInv

LEMMA OwnIs ==
  ASSUME RunsInv
  PROVE  /\ Len(runs) \in Nat /\ Len(runs) \in DOMAIN runs /\ DOMAIN runs = 1..Len(runs)
         /\ Own \in TaskRuns /\ Own.id = CreationRun
         /\ \A i \in DOMAIN runs : runs[i] \in TaskRuns
         /\ \A i \in DOMAIN runs : runs[i].id = CreationRun => runs[i] = Own
         /\ Running <=> Own.state = "RUNNING"
         /\ "RUNNING" \notin Terminal
  <1>1. /\ runs \in Seq(TaskRuns) /\ Len(runs) >= 1
        /\ \A i \in DOMAIN runs : runs[i].id = CreationRun <=> i = Len(runs)
    BY DEF RunsInv
  <1>2. /\ Len(runs) \in Nat /\ Len(runs) \in DOMAIN runs /\ DOMAIN runs = 1..Len(runs)
        /\ \A i \in DOMAIN runs : runs[i] \in TaskRuns
    BY <1>1
  <1> QED
    BY <1>1, <1>2 DEF Own, Running, Terminal

(* While the task runs, the operator has nothing.                          *)
LEMMA RunningIsQuiet ==
  ASSUME RunsInv, OperatorInv, MetaInv, Own.state = "RUNNING" \/ creation = "RUNNING"
  PROVE  /\ creation = "RUNNING" /\ op = "idle" /\ metadata = NotRetained
         /\ listed = <<>>
  BY OwnIs DEF RunsInv, OperatorInv, MetaInv, Terminal

(* Where exactly one listed run matches, it is the creation's.             *)
LEMMA SelectedIsOwn ==
  ASSUME RunsInv, OperatorInv, op \in {"select", "download", "bundle"},
         Cardinality(Matches) = 1
  PROVE  Selected = Own
  <1>1. PICK i \in DOMAIN listed : listed[i] = Own
    BY DEF OperatorInv
  <1>2. Own.version = "requested" /\ Own.id = CreationRun
    BY OwnIs DEF RunsInv
  <1>3. i \in Matches
    BY <1>1, <1>2 DEF Matches, OperatorInv
  <1>4. IsFiniteSet(Matches)
    <2>1. listed \in Seq(TaskRuns)
      BY DEF OperatorInv
    <2>2. IsFiniteSet(DOMAIN listed)
      <3>1. DOMAIN listed = 1..Len(listed) /\ Len(listed) \in Int /\ 1 \in Int
        BY <2>1
      <3> QED
        BY <3>1, FS_Interval
    <2> QED
      BY <2>2, FS_Subset DEF Matches
  <1>5. PICK x : Matches = {x}
    BY <1>4, FS_Singleton
  <1>6. (CHOOSE k \in Matches : TRUE) = i
    BY <1>3, <1>5
  <1> QED
    BY <1>1, <1>6 DEF Selected

(* A page of the list.                                                     *)
LEMMA PageIs ==
  ASSUME RunsInv, OperatorInv, op = "list"
  PROVE  /\ Page \in Seq(TaskRuns)
         /\ \A j \in DOMAIN Page : Page[j].id = CreationRun => Page[j] = Own
         /\ NextTokens = {} => \E j \in DOMAIN Page : Page[j] = Own
         /\ NextTokens \subseteq Nat /\ \A next \in NextTokens : next < Len(runs)
  <1> DEFINE first == Last(tokens)
             end == first + PageSize
             stop == IF end <= Len(runs) THEN end ELSE Len(runs)
  <1>1. first \in Nat /\ first < Len(runs)
    <2>1. tokens \in Seq(Nat) /\ tokens # <<>> /\ Last(tokens) < Len(runs)
      BY DEF OperatorInv
    <2>2. Len(tokens) \in DOMAIN tokens
      BY <2>1
    <2> QED
      BY <2>1, <2>2 DEF Last
  <1>2. /\ Len(runs) \in Nat /\ PageSize \in Nat /\ PageSize >= 1
        /\ stop \in Nat /\ first + 1 <= stop /\ stop <= Len(runs)
        /\ end >= Len(runs) => stop = Len(runs)
    BY <1>1, OwnIs, OutputAssumption
  <1>3. Page = SubSeq(runs, first + 1, stop)
    BY DEF Page
  <1> HIDE DEF stop, first
  <1>4. \A i \in (first + 1)..stop : runs[i] \in TaskRuns
    <2>1. \A i \in (first + 1)..stop : i \in 1..Len(runs)
      BY <1>1, <1>2
    <2> QED
      BY <2>1, OwnIs
  <1>5. PICK page : page = Page
    OBVIOUS
  <1>6. /\ page \in Seq(TaskRuns) /\ Len(page) = stop - first
        /\ \A i \in 1..(stop - first) : page[i] = runs[first + i]
    <2>1. first + 1 \in Int /\ stop \in Int
      BY <1>1, <1>2
    <2>2. /\ page \in Seq(TaskRuns)
          /\ Len(page) = IF first + 1 <= stop THEN stop - (first + 1) + 1 ELSE 0
          /\ \A i \in 1..(stop - (first + 1) + 1) : page[i] = runs[(first + 1) + i - 1]
      BY <1>3, <1>4, <1>5, <2>1, SubSeqProperties
    <2>3. stop - (first + 1) + 1 = stop - first
      BY <1>1, <1>2
    <2>4. \A i \in 1..(stop - first) : (first + 1) + i - 1 = first + i
      BY <1>1, <1>2
    <2> QED
      BY <1>2, <2>2, <2>3, <2>4
  <1>7. DOMAIN page = 1..(stop - first)
    BY <1>6
  <1>8. \A j \in DOMAIN page : page[j].id = CreationRun => page[j] = Own
    <2>1. \A j \in 1..(stop - first) : first + j \in 1..Len(runs)
      BY <1>1, <1>2
    <2> QED
      BY <1>6, <1>7, <2>1, OwnIs
  <1>9. ASSUME NextTokens = {}
        PROVE  \E j \in DOMAIN page : page[j] = Own
    <2>1. end >= Len(runs)
      BY <1>1, <1>2, <1>9 DEF NextTokens, first
    <2>2. stop - first \in DOMAIN page /\ first + (stop - first) = Len(runs)
      BY <1>1, <1>2, <1>7, <2>1
    <2> QED
      BY <1>6, <1>7, <2>2 DEF Own
  <1>10. NextTokens \subseteq Nat /\ \A next \in NextTokens : next < Len(runs)
    BY <1>1, <1>2 DEF NextTokens, first
  <1> QED
    BY <1>5, <1>6, <1>8, <1>9, <1>10

LEMMA AnsweredIs ==
  ASSUME RunsInv, OperatorInv, op = "list"
  PROVE  /\ Answered \in Seq(TaskRuns)
         /\ \A j \in DOMAIN Answered : Answered[j].id = CreationRun => Answered[j] = Own
         /\ NextTokens = {} => \E j \in DOMAIN Answered : Answered[j] = Own
  <1>1. PICK page : page = Page
    OBVIOUS
  <1>2. /\ page \in Seq(TaskRuns)
        /\ \A j \in DOMAIN page : page[j].id = CreationRun => page[j] = Own
        /\ NextTokens = {} => \E j \in DOMAIN page : page[j] = Own
    BY <1>1, PageIs
  <1>3. /\ listed \in Seq(TaskRuns)
        /\ \A j \in DOMAIN listed : listed[j].id = CreationRun => listed[j] = Own
    BY DEF OperatorInv
  <1>4. PICK all : all = Answered
    OBVIOUS
  <1>5. all = listed \o page
    BY <1>1, <1>4 DEF Answered
  <1>6. /\ all \in Seq(TaskRuns) /\ Len(all) = Len(listed) + Len(page)
        /\ \A j \in 1..(Len(listed) + Len(page)) :
             all[j] = IF j <= Len(listed) THEN listed[j] ELSE page[j - Len(listed)]
    BY <1>2, <1>3, <1>5, ConcatProperties
  <1>7. /\ Len(listed) \in Nat /\ Len(page) \in Nat
        /\ DOMAIN listed = 1..Len(listed) /\ DOMAIN page = 1..Len(page)
        /\ DOMAIN all = 1..(Len(listed) + Len(page))
    BY <1>2, <1>3, <1>6
  <1>8. ASSUME NEW j \in DOMAIN all, all[j].id = CreationRun
        PROVE  all[j] = Own
    <2>1. CASE j <= Len(listed)
      <3>1. j \in DOMAIN listed /\ all[j] = listed[j]
        BY <1>6, <1>7, <2>1
      <3> QED
        BY <1>3, <1>8, <3>1
    <2>2. CASE ~(j <= Len(listed))
      <3>1. j - Len(listed) \in DOMAIN page /\ all[j] = page[j - Len(listed)]
        BY <1>6, <1>7, <2>2
      <3> QED
        BY <1>2, <1>8, <3>1
    <2> QED
      BY <2>1, <2>2
  <1>9. ASSUME NextTokens = {}
        PROVE  \E j \in DOMAIN all : all[j] = Own
    <2>1. PICK k \in DOMAIN page : page[k] = Own
      BY <1>2, <1>9
    <2>2. /\ Len(listed) + k \in DOMAIN all /\ ~(Len(listed) + k <= Len(listed))
          /\ (Len(listed) + k) - Len(listed) = k
      BY <1>7
    <2>3. all[Len(listed) + k] = page[k]
      BY <1>6, <1>7, <2>2
    <2> QED
      BY <2>1, <2>2, <2>3
  <1> QED
    BY <1>4, <1>6, <1>8, <1>9

LEMMA InitOutput == OutputInit => OutputInv
  <1> SUFFICES ASSUME OutputInit PROVE OutputInv
    OBVIOUS
  <1>1. TaskInv
    BY InitTask DEF OutputInit
  <1>2. /\ runs \in Seq(TaskRuns) /\ Len(runs) = 1 /\ DOMAIN runs = {1}
        /\ runs[1].id = CreationRun /\ runs[1].version = "requested"
        /\ runs[1].state = "RUNNING"
    <2>1. PICK run : run = TaskRun(CreationRun, "requested", "RUNNING")
      OBVIOUS
    <2>2. /\ run \in TaskRuns /\ run.id = CreationRun /\ run.version = "requested"
          /\ run.state = "RUNNING"
      BY <2>1 DEF TaskRun, TaskRuns, CreationRun
    <2>3. runs = <<run>>
      BY <2>1 DEF OutputInit
    <2> QED
      BY <2>2, <2>3
  <1>3. RunsInv
    BY <1>2 DEF OutputInit, RunsInv, Own, Terminal
  <1>4. OperatorInv
    <2>1. /\ op = "idle" /\ gate = "zero-call" /\ expectedRun = NoRun
          /\ listed = <<>> /\ tokens = <<>>
      BY DEF OutputInit
    <2> QED
      BY <2>1 DEF OperatorInv
  <1>5. MetaInv
    BY DEF OutputInit, MetaInv, MetadataIsTrue
  <1> QED
    BY <1>1, <1>3, <1>4, <1>5 DEF OutputInv

-----------------------------------------------------------------------------
(* The runs at Kaggle.                                                     *)

LEMMA RunsStay ==
  ASSUME RunsInv, UNCHANGED service, pc' = pc, crashes' = crashes
  PROVE  RunsInv'
  BY DEF RunsInv, Own, service

LEMMA ForeignRunIs ==
  ASSUME RunsInv, ForeignRun
  PROVE  /\ runs' \in Seq(TaskRuns) /\ Len(runs') = Len(runs) + 1
         /\ DOMAIN runs' = 1..(Len(runs) + 1)
         /\ runs'[1].id # CreationRun
         /\ \A k \in 1..Len(runs) : runs'[k + 1] = runs[k]
  <1>1. PICK version \in {"requested", "another"}, state \in {"RUNNING", "COMPLETED"} :
          runs' = <<TaskRun(CreationRun + Len(runs), version, state)>> \o runs
    BY DEF ForeignRun
  <1>2. PICK run, old, all : /\ run = TaskRun(CreationRun + Len(runs), version, state)
                             /\ old = runs /\ all = runs'
    OBVIOUS
  <1>3. Len(old) \in Nat /\ Len(old) >= 1 /\ old \in Seq(TaskRuns)
    BY <1>2, OwnIs DEF RunsInv
  <1>4. run \in TaskRuns /\ run.id # CreationRun
    BY <1>2, <1>3 DEF TaskRun, TaskRuns, Terminal, CreationRun
  <1>5. PICK new : new = <<run>>
    OBVIOUS
  <1>6. new \in Seq(TaskRuns) /\ Len(new) = 1 /\ new[1] = run
    BY <1>4, <1>5
  <1>7. all = new \o old
    BY <1>1, <1>2, <1>5
  <1>8. /\ all \in Seq(TaskRuns) /\ Len(all) = 1 + Len(old)
        /\ \A k \in 1..(1 + Len(old)) : all[k] = IF k <= 1 THEN new[k] ELSE old[k - 1]
    <2>1. /\ all \in Seq(TaskRuns) /\ Len(all) = Len(new) + Len(old)
          /\ \A k \in 1..(Len(new) + Len(old)) :
               all[k] = IF k <= Len(new) THEN new[k] ELSE old[k - Len(new)]
      BY <1>3, <1>6, <1>7, ConcatProperties
    <2> QED
      BY <1>6, <2>1
  <1>9. all[1] = run
    BY <1>3, <1>6, <1>8
  <1>10. \A k \in 1..Len(old) : all[k + 1] = old[k]
    <2>1. \A k \in 1..Len(old) :
            k + 1 \in 1..(1 + Len(old)) /\ ~(k + 1 <= 1) /\ (k + 1) - 1 = k
      BY <1>3
    <2> QED
      BY <1>8, <2>1
  <1>11. DOMAIN all = 1..(Len(old) + 1) /\ Len(all) = Len(old) + 1
    BY <1>3, <1>8
  <1> QED
    BY <1>2, <1>4, <1>8, <1>9, <1>10, <1>11

LEMMA NextRuns ==
  ASSUME RunsInv, OperatorInv, MetaInv, [OutputNext]_allVars
  PROVE  RunsInv'
  <1>1. CASE TaskStep
    <2>1. Own.state = "RUNNING" /\ UNCHANGED <<runs, creation>>
      BY <1>1, OwnIs DEF TaskStep, service
    <2>2. creation = "RUNNING" /\ "RUNNING" \notin Terminal
      BY <2>1, RunningIsQuiet, OwnIs
    <2> QED
      BY <2>1, <2>2 DEF RunsInv, Own, Terminal
  <1>2. CASE RunEnds
    <2>1. PICK i \in DOMAIN runs, state \in Terminal :
            /\ runs[i].id = CreationRun /\ runs[i].state = "RUNNING"
            /\ state = "COMPLETED" => pc = "returned" /\ crashes = 0
            /\ runs' = [runs EXCEPT ![i].state = state]
      BY <1>2 DEF RunEnds
    <2>2. /\ pc \in Ended /\ UNCHANGED <<vars, creation>>
      BY <1>2 DEF RunEnds
    <2>3. i = Len(runs)
      BY <2>1 DEF RunsInv
    <2>4. PICK run : run = [Own EXCEPT !.state = state]
      OBVIOUS
    <2>5. /\ run \in TaskRuns /\ run.id = CreationRun /\ run.version = "requested"
          /\ run.state = state
      BY <2>4, OwnIs DEF TaskRuns, RunsInv
    <2>6. runs' = [runs EXCEPT ![Len(runs)] = run]
      BY <2>1, <2>3, <2>4 DEF Own
    <2>7. /\ runs' \in Seq(TaskRuns) /\ Len(runs') = Len(runs)
          /\ DOMAIN runs' = DOMAIN runs
          /\ \A k \in DOMAIN runs : runs'[k] = IF k = Len(runs) THEN run ELSE runs[k]
      BY <2>5, <2>6, OwnIs DEF RunsInv
    <2>8. \A k \in DOMAIN runs' : runs'[k].id = CreationRun <=> k = Len(runs')
      BY <2>5, <2>7 DEF RunsInv
    <2>9. Own' = run
      BY <2>7, OwnIs DEF Own
    <2>10. creation = "RUNNING"
      BY <2>1, <2>3, RunningIsQuiet DEF Own
    <2>11. creation' = "RUNNING" /\ pc' = pc /\ crashes' = crashes
      BY <2>2, <2>10 DEF vars
    <2>12. Len(runs') >= 1
      BY <2>7 DEF RunsInv
    <2> QED
      BY <2>1, <2>2, <2>5, <2>7, <2>8, <2>9, <2>11, <2>12 DEF RunsInv, Terminal
  <1>3. CASE CreationEnds
    <2>1. PICK i \in DOMAIN runs, state \in Terminal :
            /\ runs[i].id = CreationRun /\ runs[i].state \in Terminal
            /\ state = "COMPLETED" => runs[i].state = "COMPLETED"
            /\ creation' = state
      BY <1>3 DEF CreationEnds
    <2>2. runs[i] = Own
      BY <2>1, OwnIs
    <2>3. runs' = runs /\ pc' = pc /\ crashes' = crashes
      BY <1>3 DEF CreationEnds, vars
    <2> QED
      BY <2>1, <2>2, <2>3 DEF RunsInv, Own
  <1>4. CASE ForeignRun
    <2>3. /\ Len(runs) \in Nat /\ Len(runs) >= 1 /\ runs \in Seq(TaskRuns)
          /\ DOMAIN runs = 1..Len(runs)
      BY OwnIs DEF RunsInv
    <2>8. /\ runs' \in Seq(TaskRuns) /\ Len(runs') = Len(runs) + 1
          /\ DOMAIN runs' = 1..(Len(runs) + 1)
          /\ runs'[1].id # CreationRun
          /\ \A k \in 1..Len(runs) : runs'[k + 1] = runs[k]
      BY <1>4, ForeignRunIs
    <2>9. \A k \in DOMAIN runs' : k = 1 \/ (k - 1 \in DOMAIN runs /\ (k - 1) + 1 = k)
      <3>1. \A k \in 1..(Len(runs) + 1) : k = 1 \/ (k - 1 \in 1..Len(runs) /\ (k - 1) + 1 = k)
        BY <2>3
      <3> QED
        BY <2>3, <2>8, <3>1
    <2>10. Own' = Own
      <3>1. Len(runs) \in 1..Len(runs)
        BY <2>3
      <3> QED
        BY <2>8, <3>1 DEF Own
    <2>11. \A k \in DOMAIN runs' : runs'[k].id = CreationRun <=> k = Len(runs')
      <3>1. 1 # Len(runs') /\ Len(runs') = Len(runs) + 1
        BY <2>3, <2>8
      <3>2. ASSUME NEW k \in DOMAIN runs'
            PROVE  runs'[k].id = CreationRun <=> k = Len(runs')
        <4>1. CASE k = 1
          BY <2>8, <3>1, <4>1
        <4>2. CASE k - 1 \in DOMAIN runs /\ (k - 1) + 1 = k
          <5>1. runs'[k] = runs[k - 1]
            BY <2>3, <2>8, <4>2
          <5>2. runs[k - 1].id = CreationRun <=> k - 1 = Len(runs)
            BY <4>2 DEF RunsInv
          <5>3. k - 1 = Len(runs) <=> k = Len(runs')
            BY <2>3, <3>1, <4>2
          <5> QED
            BY <5>1, <5>2, <5>3
        <4> QED
          BY <2>9, <4>1, <4>2
      <3> QED
        BY <3>2
    <2>12. Len(runs') >= 1 /\ creation' = creation /\ pc' = pc /\ crashes' = crashes
      BY <1>4, <2>3, <2>8 DEF ForeignRun, vars
    <2> QED
      BY <2>8, <2>10, <2>11, <2>12 DEF RunsInv
  <1>5. CASE GetTask \/ ListPage \/ SelectRun \/ Download \/ Bundle
    BY <1>5, RunsStay DEF GetTask, ListPage, SelectRun, Download, Bundle, vars
  <1>6. CASE UNCHANGED allVars
    BY <1>6, RunsStay DEF allVars, vars
  <1> QED
    BY <1>1, <1>2, <1>3, <1>4, <1>5, <1>6 DEF OutputNext

(* The run of the creation stays what it is once the creation has ended.   *)
LEMMA OwnStays ==
  ASSUME RunsInv, OperatorInv, MetaInv, [OutputNext]_allVars, creation \in Terminal
  PROVE  /\ Own' = Own /\ Len(runs) <= Len(runs') /\ creation' = creation
         /\ UNCHANGED <<vars, attached>>
  <1>0. Own.state # "RUNNING" /\ creation # "RUNNING" /\ ~Running
    BY OwnIs DEF RunsInv, Terminal
  <1>1. ~TaskStep /\ ~RunEnds /\ ~CreationEnds
    BY <1>0 DEF TaskStep, RunEnds, CreationEnds, Running
  <1>2. CASE ForeignRun
    <2>1. /\ Len(runs') = Len(runs) + 1 /\ Len(runs) \in Nat
          /\ \A k \in 1..Len(runs) : runs'[k + 1] = runs[k]
      BY <1>2, ForeignRunIs, OwnIs
    <2>2. Len(runs) \in 1..Len(runs)
      BY <2>1 DEF RunsInv
    <2> QED
      BY <1>2, <2>1, <2>2 DEF Own, ForeignRun
  <1>3. CASE GetTask \/ ListPage \/ SelectRun \/ Download \/ Bundle \/ UNCHANGED allVars
    <2>1. UNCHANGED <<vars, service>>
      BY <1>3 DEF GetTask, ListPage, SelectRun, Download, Bundle, allVars
    <2> QED
      BY <2>1, OwnIs DEF service, Own
  <1> QED
    BY <1>1, <1>2, <1>3 DEF OutputNext

-----------------------------------------------------------------------------
(* What the operator was answered, and what it concludes.                  *)

LEMMA FinishIs ==
  ASSUME Finish
  PROVE  OperatorInv'
  <1>1. /\ op' = "idle" /\ gate' = "zero-call" /\ expectedRun' = NoRun
        /\ listed' = <<>> /\ tokens' = <<>>
    BY DEF Finish
  <1> QED
    BY <1>1 DEF OperatorInv

(* Steps of Kaggle leave the operator's answers true.                      *)
LEMMA OperatorWaits ==
  ASSUME RunsInv, OperatorInv, MetaInv, [OutputNext]_allVars, UNCHANGED operator
  PROVE  OperatorInv'
  <1>1. CASE creation = "RUNNING"
    <2>1. op = "idle"
      BY <1>1, RunningIsQuiet
    <2> QED
      BY <2>1 DEF OperatorInv, operator, answers
  <1>2. CASE creation \in Terminal
    <2>1. /\ Own' = Own /\ Len(runs) <= Len(runs') /\ creation' = creation
          /\ UNCHANGED <<disk, attached>>
          /\ Len(runs) \in Nat /\ Len(runs') \in Nat
      <3>1. RunsInv' => Len(runs') \in Nat
        BY DEF RunsInv
      <3> QED
        BY <1>2, <3>1, OwnStays, OwnIs, NextRuns DEF vars
    <2>2. UNCHANGED <<op, gate, expectedRun, task, listed, tokens, archive>>
      BY DEF operator, answers
    <2>3. Matches' = Matches
      BY <2>2 DEF Matches
    <2>4. op = "list" => Last(tokens)' < Len(runs')
      <3>1. ASSUME op = "list" PROVE Last(tokens) \in Nat
        <4>1. tokens \in Seq(Nat) /\ tokens # <<>>
          BY <3>1 DEF OperatorInv
        <4>2. Len(tokens) \in DOMAIN tokens
          BY <4>1
        <4> QED
          BY <4>1, <4>2 DEF Last
      <3>2. Last(tokens)' = Last(tokens)
        BY <2>2 DEF Last
      <3> QED
        BY <2>1, <3>1, <3>2 DEF OperatorInv
    <2>5. DatasetsFit(gate)' <=> DatasetsFit(gate)
      BY <2>1, <2>2 DEF DatasetsFit
    <2> QED
      BY <2>1, <2>2, <2>3, <2>4, <2>5 DEF OperatorInv
  <1> QED
    BY <1>1, <1>2 DEF RunsInv

LEMMA NextOperator ==
  ASSUME RunsInv, OperatorInv, MetaInv, [OutputNext]_allVars
  PROVE  OperatorInv'
  <1>1. CASE TaskStep \/ RunEnds \/ CreationEnds \/ ForeignRun \/ UNCHANGED allVars
    <2>1. UNCHANGED operator
      BY <1>1 DEF TaskStep, RunEnds, CreationEnds, ForeignRun, allVars
    <2> QED
      BY <2>1, OperatorWaits
  <1>2. CASE GetTask
    <2>1. /\ op = "idle" /\ listed = <<>> /\ creation \in Terminal /\ DatasetsFit(gate')
          /\ gate' \in {"zero-call", "six-call"} /\ expectedRun' \in {NoRun, CreationRun}
          /\ task' = creation /\ op' = "list" /\ tokens' = <<0>>
          /\ UNCHANGED <<vars, service, listed, archive, metadata>>
      BY <1>2 DEF GetTask, OperatorInv
    <2>2. tokens' \in Seq(Nat) /\ tokens' # <<>> /\ Last(tokens)' = 0
      BY <2>1 DEF Last
    <2>3. 0 < Len(runs') /\ creation' \in Terminal /\ task' = creation'
      BY <2>1, OwnIs DEF RunsInv, service
    <2>4. DatasetsFit(gate)'
      BY <2>1 DEF DatasetsFit, service
    <2>5. listed' = <<>> /\ listed' \in Seq(TaskRuns) /\ DOMAIN listed' = {}
      BY <2>1
    <2> QED
      BY <2>1, <2>2, <2>3, <2>4, <2>5 DEF OperatorInv
  <1>3. CASE ListPage
    <2>1. op = "list" /\ UNCHANGED <<vars, service>>
      BY <1>3 DEF ListPage
    <2>2. /\ Own' = Own /\ creation' = creation /\ runs' = runs /\ attached' = attached
          /\ creation \in Terminal /\ task = creation /\ DatasetsFit(gate)
          /\ tokens \in Seq(Nat) /\ gate \in {"zero-call", "six-call"}
          /\ expectedRun \in {NoRun, CreationRun}
      BY <2>1 DEF OperatorInv, service, Own
    <2>3. PICK all : all = Answered
      OBVIOUS
    <2>4. /\ all \in Seq(TaskRuns)
          /\ \A j \in DOMAIN all : all[j].id = CreationRun => all[j] = Own
          /\ NextTokens = {} => \E j \in DOMAIN all : all[j] = Own
      BY <2>1, <2>3, AnsweredIs
    <2>5. CASE /\ NextTokens = {} /\ listed' = all /\ op' = "select"
               /\ UNCHANGED <<gate, expectedRun, task, tokens, archive, metadata>>
      <3>1. DatasetsFit(gate)'
        BY <2>2, <2>5 DEF DatasetsFit
      <3> QED
        BY <2>2, <2>4, <2>5, <3>1 DEF OperatorInv
    <2>6. ASSUME NEW next \in NextTokens, listed' = all, tokens' = Append(tokens, next),
                 UNCHANGED <<op, gate, expectedRun, task, archive, metadata>>
          PROVE  OperatorInv'
      <3>1. next \in Nat /\ next < Len(runs)
        BY <2>1, <2>6, PageIs
      <3>2. tokens' \in Seq(Nat) /\ tokens' # <<>> /\ Last(tokens)' = next
        <4>1. /\ tokens' \in Seq(Nat) /\ Len(tokens') = Len(tokens) + 1
              /\ tokens'[Len(tokens) + 1] = next /\ Len(tokens) \in Nat
          BY <2>2, <2>6, <3>1
        <4>2. Len(tokens') # 0
          BY <4>1
        <4> QED
          BY <4>1, <4>2 DEF Last
      <3>3. DatasetsFit(gate)'
        BY <2>2, <2>6 DEF DatasetsFit
      <3> QED
        BY <2>1, <2>2, <2>4, <2>6, <3>1, <3>2, <3>3 DEF OperatorInv
    <2>7. CASE Fail
      BY <2>7, FinishIs DEF Fail
    <2> QED
      BY <1>3, <2>3, <2>5, <2>6, <2>7 DEF ListPage
  <1>4. CASE SelectRun
    <2>1. CASE Fail
      BY <2>1, FinishIs DEF Fail
    <2>2. CASE /\ Cardinality(Matches) = 1 /\ op' = "download"
               /\ UNCHANGED <<gate, expectedRun, answers>>
      <3>1. op = "select" /\ UNCHANGED <<vars, service>>
        BY <1>4 DEF SelectRun
      <3>2. UNCHANGED <<task, listed, tokens, archive, runs, creation, attached>>
        BY <2>2, <3>1 DEF answers, service
      <3>3. Matches' = Matches /\ Own' = Own /\ (DatasetsFit(gate)' <=> DatasetsFit(gate))
        BY <2>2, <3>2 DEF Matches, Own, DatasetsFit
      <3> QED
        BY <2>2, <3>1, <3>2, <3>3 DEF OperatorInv
    <2> QED
      BY <1>4, <2>1, <2>2 DEF SelectRun
  <1>5. CASE Download
    <2>1. CASE Fail
      BY <2>1, FinishIs DEF Fail
    <2>2. CASE /\ OutputOf(Selected) # NoFile /\ archive' = OutputOf(Selected)
               /\ op' = "bundle"
               /\ UNCHANGED <<gate, expectedRun, task, listed, tokens, metadata>>
      <3>1. op = "download" /\ UNCHANGED <<vars, service>>
        BY <1>5 DEF Download
      <3>2. UNCHANGED <<runs, creation, attached, disk>>
        BY <3>1 DEF service, vars
      <3>3. Selected = Own /\ Own.id = CreationRun
        BY <3>1, SelectedIsOwn, OwnIs DEF OperatorInv
      <3>4. archive' = disk'[ReceiptPath] /\ archive' # NoFile
        BY <2>2, <3>2, <3>3 DEF OutputOf
      <3>5. Matches' = Matches /\ Own' = Own /\ (DatasetsFit(gate)' <=> DatasetsFit(gate))
        BY <2>2, <3>2 DEF Matches, Own, DatasetsFit
      <3> QED
        BY <2>2, <3>1, <3>2, <3>4, <3>5 DEF OperatorInv
    <2> QED
      BY <1>5, <2>1, <2>2 DEF Download
  <1>6. CASE Bundle
    BY <1>6, FinishIs DEF Bundle
  <1> QED
    BY <1>1, <1>2, <1>3, <1>4, <1>5, <1>6 DEF OutputNext

(* The bundle is written about the creation's run, which has ended.        *)
LEMMA BundledIsTrue ==
  ASSUME TaskInv, RunsInv, OperatorInv, Bundle
  PROVE  MetadataIsTrue' /\ creation \in Terminal
  <1>1. /\ op = "bundle" /\ UNCHANGED <<vars, service>>
        /\ metadata' = [run |-> Selected.id, gate |-> gate, receipt |-> archive,
                        passed |-> /\ GateResult(archive)
                                   /\ task = "COMPLETED" /\ Selected.state = "COMPLETED",
                        manualReviewRequired |-> ManualReview(archive)]
    BY DEF Bundle
  <1>2. Cardinality(Matches) = 1 /\ gate \in {"zero-call", "six-call"}
    BY <1>1 DEF OperatorInv
  <1>3. Selected = Own
    BY <1>1, <1>2, SelectedIsOwn
  <1>4. Own.id = CreationRun
    BY OwnIs
  <1>5. /\ creation \in Terminal /\ DatasetsFit(gate)
        /\ archive = disk[ReceiptPath] /\ archive # NoFile
    BY <1>1 DEF OperatorInv
  <1>6. Whole(archive)
    BY <1>5 DEF TaskInv, ReceiptInv
  <1>7. archive.status = "complete" => AllClean
    BY <1>6, Types DEF Whole, AllClean, TaskInv
  <1>8. /\ metadata'.run = CreationRun /\ metadata'.gate = gate
        /\ metadata'.passed <=> /\ GateResult(archive)
                                /\ task = "COMPLETED" /\ Own.state = "COMPLETED"
        /\ metadata'.manualReviewRequired <=> ManualReview(archive)
    BY <1>1, <1>3, <1>4
  <1>9. ASSUME Own.state = "COMPLETED", prompted # {}
        PROVE  Reviewed(archive)
    <2>1. crashes = 0
      BY <1>9 DEF RunsInv
    <2> QED
      BY <1>5, <1>9, <2>1 DEF TaskInv, ReceiptInv, Covers
  <1>10. UNCHANGED <<prompted, clean, closed, attached>>
    BY <1>1 DEF vars, history, service
  <1>11. ASSUME metadata'.passed
         PROVE  IF gate = "six-call" THEN AllClean ELSE prompted = {} /\ attached = "none"
    <2>1. GateResult(archive) /\ Own.state = "COMPLETED"
      BY <1>8, <1>11
    <2>2. CASE gate = "six-call"
      BY <1>7, <2>1, <2>2 DEF GateResult
    <2>3. CASE gate = "zero-call"
      <3>1. /\ archive.status = "blocked" /\ archive.attempted = 0
            /\ archive.active = NoActive
        BY <2>1, <2>3 DEF GateResult, ZeroCallsProven
      <3>2. ~Reviewed(archive)
        BY <3>1 DEF Reviewed, RequiresManualReview
      <3>3. prompted = {}
        BY <1>9, <2>1, <3>2
      <3>4. attached = "none"
        BY <1>5, <2>3 DEF DatasetsFit
      <3> QED
        BY <2>3, <3>3, <3>4
    <2> QED
      BY <1>2, <2>2, <2>3
  <1>12. ASSUME ~metadata'.manualReviewRequired
         PROVE  prompted = {} \/ AllClean
    <2>1. /\ Own.state = "COMPLETED" /\ archive.active = NoActive
          /\ ~(archive.status = "blocked" /\ archive.attempted > 0)
      BY <1>3, <1>8, <1>12 DEF ManualReview
    <2>2. Reviewed(archive) => archive.status = "complete"
      BY <2>1 DEF Reviewed, RequiresManualReview
    <2> QED
      BY <1>7, <1>9, <2>1, <2>2
  <1> QED
    BY <1>5, <1>8, <1>10, <1>11, <1>12 DEF MetadataIsTrue, AllClean

LEMMA NextMeta ==
  ASSUME TaskInv, RunsInv, OperatorInv, MetaInv, [OutputNext]_allVars
  PROVE  MetaInv'
  <1>1. CASE Bundle
    <2>1. creation' = creation
      BY <1>1 DEF Bundle, service
    <2> QED
      BY <1>1, <2>1, BundledIsTrue DEF MetaInv
  <1>2. CASE ~Bundle
    <2>1. metadata' = metadata
      BY <1>2 DEF OutputNext, TaskStep, RunEnds, CreationEnds, ForeignRun, GetTask,
             ListPage, SelectRun, Download, Fail, allVars, operator, answers
    <2>2. CASE creation = "RUNNING"
      BY <2>1, <2>2, RunningIsQuiet DEF MetaInv, MetadataIsTrue
    <2>3. CASE creation \in Terminal
      <3>1. UNCHANGED <<creation, prompted, clean, closed, attached>>
        BY <2>3, OwnStays DEF vars, history
      <3> QED
        BY <2>1, <3>1 DEF MetaInv, MetadataIsTrue, AllClean
    <2> QED
      BY <2>2, <2>3 DEF RunsInv
  <1> QED
    BY <1>1, <1>2

LEMMA OutputInvariant == OutputSpec => []OutputInv
  <1>1. [OutputNext]_allVars => [Next]_vars
    BY DEF OutputNext, TaskStep, RunEnds, CreationEnds, ForeignRun, GetTask, ListPage,
           SelectRun, Download, Bundle, allVars
  <1>2. OutputInv /\ [OutputNext]_allVars => OutputInv'
    BY <1>1, NextTask, NextRuns, NextOperator, NextMeta DEF OutputInv
  <1> QED
    BY <1>2, InitOutput, PTL DEF OutputSpec

(* What the metadata of a retained bundle says of the gate and of the      *)
(* review is true of the one run that the creation triggered, however the  *)
(* list of runs moved and whatever crash ended the run.                    *)
THEOREM MetadataIsTrueProved == OutputSpec => []MetadataIsTrue
  <1>1. OutputInv => MetadataIsTrue
    BY DEF OutputInv, MetaInv
  <1> QED
    BY <1>1, OutputInvariant, PTL

=============================================================================
