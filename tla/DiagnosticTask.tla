---------------------------- MODULE DiagnosticTask ----------------------------
(***************************************************************************)
(* run_deployment_diagnostic, the hosted task that bench/tasks/kaggle/     *)
(* generate_v0_2_diagnostic.py generates: a fixed set of paid model calls, *)
(* one after another, once each, with a receipt published before and after *)
(* every step.  Unlike the capture task it has no list of blockers: the    *)
(* reasons of a receipt are handed to each publish.  Model, chats and the  *)
(* end of the process are the environment's.                               *)
(***************************************************************************)
EXTENDS DiagnosticReceipt

CONSTANTS
  ReceiptPath,  \* the receipt file
  NoFile,       \* no receipt yet
  Partial,      \* torn file of JournalStore; never here, files are replaced
  MaxCrashes    \* bound: machine crashes

VARIABLES
  disk, image,  \* the receipt file, and what a machine crash may leave
  pc,           \* where run_deployment_diagnostic is
  after,        \* where it goes once publish returns
  pending,      \* the receipt publish is writing
  model,        \* its locals of these names
  attempted, completed, rows,
  prompted,     \* history: calls handed to llm.prompt
  clean,        \* history: calls whose output and usage had no flaw
  closed,       \* history: calls whose chat was closed without failure
  crashes       \* machine crashes so far

(* _write_receipt makes the system calls of Replace, with no directory     *)
(* sync.                                                                   *)
INSTANCE JournalStore WITH Paths <- {ReceiptPath}, FreshParent <- {}

counts == <<attempted, completed, rows>>
history == <<prompted, clean, closed>>
vars == <<disk, image, pc, after, pending, model, counts, history, crashes>>

Calls == 1..SampleCount
Ended == {"returned", "errored", "killed"}
Steps == {"runtime", "package", "model", "publish", "loop", "open", "prompt",
          "await", "close"}

Unavailable == [status |-> "unavailable", parameter |-> FALSE, oneAttempt |-> FALSE]

ASSUME DiagnosticAssumption == SampleCount \in Nat \ {0} /\ MaxCrashes \in Nat

(* The call a step is about: the one after the rows, or the last row's.    *)
NextCall == completed + 1
ActiveCall(state, call) == [state |-> state, call |-> call]

(* _diagnostics: what is derived is added to the reasons given.            *)
Blocked(reasons, given) ==
  reasons \cup UNION {ReasonOf(given[i]) \ {"non_string_output",
                      "output_character_limit"} : i \in DOMAIN given}

(* What a receipt says of the preflights, and of the calls.                *)
Observed(conformant, dependency, identity) ==
  [conformant |-> conformant, dependency |-> dependency, model |-> identity]

CallsSoFar(tried, done, active, kept) ==
  [attempted |-> tried, completed |-> done, active |-> active, rows |-> kept]

NoCallsYet == CallsSoFar(0, 0, NoActive, <<>>)

(* _receipt                                                                *)
Receipt(phase, observed, calls, given, failure) ==
  LET blocked == Blocked(given, calls.rows)
      complete == /\ phase = "complete" /\ calls.attempted = SampleCount
                  /\ calls.completed = SampleCount /\ Len(calls.rows) = SampleCount
                  /\ calls.active = NoActive /\ blocked = {}
  IN  [status |-> IF complete THEN "complete" ELSE "blocked", phase |-> phase,
       conformant |-> observed.conformant, dependency |-> observed.dependency,
       model |-> observed.model, attempted |-> calls.attempted,
       completed |-> calls.completed, active |-> calls.active,
       rows |-> calls.rows, reasons |-> blocked, failure |-> failure]

(* publish, then on to `next`.                                             *)
Publish(receipt, next) ==
  /\ pending' = receipt
  /\ pc' = "publish"
  /\ after' = next

(* publish of a preflight phase, which ends the task.                      *)
PublishPreflight(phase, conformant, dependency, identity, reason, failure) ==
  Publish(Receipt(phase, Observed(conformant, dependency, identity),
                  NoCallsYet, {reason}, failure), "returned")

(* publish("model_calls", ...) with the locals as they will be.            *)
PublishCalls(active, reasons, failure, next) ==
  Publish(Receipt("model_calls", Observed(TRUE, "verified", model'),
                  CallsSoFar(attempted', completed', active, rows'),
                  reasons, failure), next)

Init ==
  /\ StoreInit
  /\ pc = "runtime" /\ after = "returned"
  /\ model = Unavailable
  /\ pending = Receipt("runtime_preflight", Observed(TRUE, "unchecked", Unavailable),
                       NoCallsYet, {}, NoFailure)
  /\ attempted = 0 /\ completed = 0 /\ rows = <<>>
  /\ prompted = {} /\ clean = {} /\ closed = {}
  /\ crashes = 0

(* _write_receipt                                                          *)
WriteReceipt ==
  /\ pc = "publish"
  /\ Replace(ReceiptPath, pending)
  /\ pc' = after
  /\ UNCHANGED <<after, pending, model, counts, history, crashes>>

-----------------------------------------------------------------------------
(* Preflight: runtime, package, model, in this order.                      *)

RuntimeConforms ==
  /\ pc = "runtime"
  /\ pc' = "package"
  /\ UNCHANGED <<disk, image, after, pending, model, counts, history, crashes>>

RuntimeMismatch ==
  /\ pc = "runtime"
  /\ PublishPreflight("runtime_preflight", FALSE, "unchecked", Unavailable,
                      "runtime_mismatch", NoFailure)
  /\ UNCHANGED <<disk, image, model, counts, history, crashes>>

PackageVerified ==
  /\ pc = "package"
  /\ pc' = "model"
  /\ UNCHANGED <<disk, image, after, pending, model, counts, history, crashes>>

PackageDrifted ==
  /\ pc = "package"
  /\ PublishPreflight("package_preflight", TRUE, "blocked", Unavailable,
                      "package_unavailable_or_drifted", PackageFailure)
  /\ UNCHANGED <<disk, image, model, counts, history, crashes>>

(* _model_preflight in the order of its checks, and the check of chats.    *)
ModelPreflightFails ==
  /\ pc = "model"
  /\ \E status \in {"unavailable", "observed"}, parameter, one \in BOOLEAN, reason \in
        {"model_identity_unavailable", "unsupported_model_transport",
         "sdk_api_incompatible", "transport_retry_policy_unverified"} :
       /\ one => status = "observed" /\ parameter /\ reason = "sdk_api_incompatible"
       /\ (status = "unavailable") = (reason = "model_identity_unavailable")
       /\ status = "observed" => ~parameter = (reason = "unsupported_model_transport")
       /\ PublishPreflight("model_preflight", TRUE, "verified",
            [status |-> status, parameter |-> parameter, oneAttempt |-> one],
            reason, NoFailure)
  /\ UNCHANGED <<disk, image, model, counts, history, crashes>>

ModelAccepted ==
  /\ pc = "model"
  /\ model' = [status |-> "observed", parameter |-> TRUE, oneAttempt |-> TRUE]
  /\ UNCHANGED counts
  /\ PublishCalls(NoActive, {"canary_incomplete"}, NoFailure, "loop")
  /\ UNCHANGED <<disk, image, history, crashes>>

-----------------------------------------------------------------------------
(* One planned call.                                                       *)

PrepareCall ==
  /\ pc = "loop" /\ completed < SampleCount
  /\ UNCHANGED <<model, counts>>
  /\ PublishCalls(ActiveCall("prepared", NextCall), {"canary_incomplete"},
                  NoFailure, "open")
  /\ UNCHANGED <<disk, image, history, crashes>>

AllDone ==
  /\ pc = "loop" /\ completed = SampleCount
  /\ Publish(Receipt("complete", Observed(TRUE, "verified", model),
                     CallsSoFar(attempted, completed, NoActive, rows),
                     {}, NoFailure), "returned")
  /\ UNCHANGED <<disk, image, model, counts, history, crashes>>

ChatOpenFails ==
  /\ pc = "open"
  /\ UNCHANGED <<model, counts>>
  /\ PublishCalls(ActiveCall("prepared", NextCall), {"chat_open_failed"},
                  NextCall, "returned")
  /\ UNCHANGED <<disk, image, history, crashes>>

(* Mutated ChatOpens: the call is counted when it has returned.            *)
ChatOpensUncounted ==
  /\ pc = "open"
  /\ UNCHANGED <<model, counts>>
  /\ PublishCalls(NoActive, {"canary_incomplete"}, NoFailure, "prompt")
  /\ UNCHANGED <<disk, image, history, crashes>>

ChatOpens ==
  /\ pc = "open"
  /\ attempted' = attempted + 1
  /\ UNCHANGED <<model, completed, rows>>
  /\ PublishCalls(ActiveCall("dispatching", NextCall), {"canary_incomplete"},
                  NoFailure, "prompt")
  /\ UNCHANGED <<disk, image, history, crashes>>

Prompt ==
  /\ pc = "prompt"
  /\ prompted' = prompted \cup {NextCall}
  /\ pc' = "await"
  /\ UNCHANGED <<disk, image, after, pending, model, counts, clean, closed, crashes>>

(* llm.prompt raised; the chat is closed first, which may fail as well.    *)
PromptRaises ==
  /\ pc = "await"
  /\ UNCHANGED <<model, counts>>
  /\ \E reasons \in {{"model_call_failed"}, {"model_call_failed", "chat_close_failed"}} :
       PublishCalls(ActiveCall("dispatching", NextCall), reasons, NextCall, "returned")
  /\ UNCHANGED <<disk, image, history, crashes>>

(* The reasons of the receipts that follow the row just appended: those    *)
(* _diagnostics derives, and what was said of the row's output.            *)
RowReasonsNow(kept) == Blocked(ReasonOf(kept[Len(kept)]), kept)

(* _row of what llm.prompt returned, appended and published.               *)
PromptReturns ==
  /\ pc = "await"
  /\ \E omitted \in {"none", "non_string", "character_limit"}, empty \in BOOLEAN,
        usage \in {"ok", "invalid", "nearCap"} :
       LET row == [call |-> NextCall, omitted |-> omitted, empty |-> empty,
                   usage |-> usage]
           flaws == RowReasonsNow(Append(rows, row))
       IN  /\ empty => omitted = "none"
           /\ rows' = Append(rows, row)
           /\ completed' = completed + 1
           /\ UNCHANGED <<model, attempted>>
           /\ PublishCalls(ActiveCall("returned", NextCall),
                           IF flaws = {} THEN {"canary_incomplete"} ELSE flaws,
                           NoFailure, "close")
           /\ clean' = IF flaws = {} THEN clean \cup {NextCall} ELSE clean
  /\ UNCHANGED <<disk, image, prompted, closed, crashes>>

(* Mutated ChatCloseFails: the failure alone is given as the reason.       *)
ChatCloseFailsAlone ==
  /\ pc = "close"
  /\ UNCHANGED <<model, counts>>
  /\ PublishCalls(ActiveCall("returned", completed), {"chat_close_failed"},
                  completed, "returned")
  /\ UNCHANGED <<disk, image, history, crashes>>

ChatCloseFails ==
  /\ pc = "close"
  /\ UNCHANGED <<model, counts>>
  /\ LET flaws == RowReasonsNow(rows)
     IN  PublishCalls(ActiveCall("returned", completed),
                      (IF flaws = {} THEN {"canary_incomplete"} ELSE flaws)
                      \cup {"chat_close_failed"}, completed, "returned")
  /\ UNCHANGED <<disk, image, history, crashes>>

(* Mutated ChatCloses: only the reasons derived from all rows are looked   *)
(* at, not those of an omitted output.                                     *)
ChatClosesOnDerived ==
  /\ pc = "close"
  /\ closed' = closed \cup {completed}
  /\ UNCHANGED <<model, counts>>
  /\ LET flaws == Blocked({}, rows)
     IN  IF flaws = {}
         THEN PublishCalls(NoActive, {"canary_incomplete"}, NoFailure, "loop")
         ELSE PublishCalls(NoActive, flaws, NoFailure, "returned")
  /\ UNCHANGED <<disk, image, prompted, clean, crashes>>

(* Only a row without flaws lets the plan go on.                           *)
ChatCloses ==
  /\ pc = "close"
  /\ closed' = closed \cup {completed}
  /\ UNCHANGED <<model, counts>>
  /\ LET flaws == RowReasonsNow(rows)
     IN  IF flaws = {}
         THEN PublishCalls(NoActive, {"canary_incomplete"}, NoFailure, "loop")
         ELSE PublishCalls(NoActive, flaws, NoFailure, "returned")
  /\ UNCHANGED <<disk, image, prompted, clean, crashes>>

-----------------------------------------------------------------------------
(* The environment.                                                        *)

(* publish raises, the output cannot be digested, or an exception that     *)
(* nothing catches, such as KeyboardInterrupt, ends the task.              *)
Interrupted ==
  /\ pc \notin Ended
  /\ pc' = "errored"
  /\ UNCHANGED <<disk, image, after, pending, model, counts, history, crashes>>

MachineCrash ==
  /\ crashes < MaxCrashes
  /\ crashes' = crashes + 1
  /\ LoseVolatile
  /\ pc' = IF pc \in Ended THEN pc ELSE "killed"
  /\ UNCHANGED <<after, pending, model, counts, history>>

Next ==
  \/ RuntimeConforms \/ RuntimeMismatch \/ PackageVerified \/ PackageDrifted
  \/ ModelPreflightFails \/ ModelAccepted
  \/ WriteReceipt \/ PrepareCall \/ AllDone
  \/ ChatOpens \/ ChatOpenFails \/ Prompt \/ PromptRaises \/ PromptReturns
  \/ ChatCloses \/ ChatCloseFails
  \/ Interrupted \/ MachineCrash

Spec == Init /\ [][Next]_vars

-----------------------------------------------------------------------------
(* Properties.                                                             *)

Row == [call : Calls, omitted : {"none", "non_string", "character_limit"},
        empty : BOOLEAN, usage : {"ok", "invalid", "nearCap"}]

Models == [status : {"unavailable", "observed"}, parameter : BOOLEAN,
           oneAttempt : BOOLEAN]

Reasons == RowReasons \cup FailureReasons \cup
  {"runtime_mismatch", "package_unavailable_or_drifted", "canary_incomplete",
   "model_identity_unavailable", "unsupported_model_transport",
   "sdk_api_incompatible", "transport_retry_policy_unverified"}

Receipts ==
  [status : {"complete", "blocked"},
   phase : {"runtime_preflight", "package_preflight", "model_preflight",
            "model_calls", "complete"},
   conformant : BOOLEAN, dependency : {"unchecked", "blocked", "verified"},
   model : Models, attempted : 0..SampleCount, completed : 0..SampleCount,
   active : [state : {"none", "prepared", "dispatching", "returned"},
             call : 0..SampleCount],
   rows : Seq(Row), reasons : SUBSET Reasons, failure : 0..PackageFailure]

ASSUME FileAssumption == NoFile \notin Receipts

TypeOK ==
  /\ pc \in Steps \cup Ended
  /\ after \in {"loop", "open", "prompt", "close", "returned"}
  /\ pending \in Receipts /\ model \in Models
  /\ attempted \in 0..SampleCount /\ completed \in 0..SampleCount
  /\ rows \in Seq(Row)
  /\ prompted \subseteq Calls /\ clean \subseteq Calls /\ closed \subseteq Calls
  /\ disk \in [{ReceiptPath} -> Receipts \cup {NoFile}]
  /\ image \in [{ReceiptPath} -> SUBSET (Receipts \cup {NoFile})]
  /\ crashes \in 0..MaxCrashes

(* The reader accepts whatever receipt an exception, a kill or a machine   *)
(* crash leaves behind: writer and reader agree at every step.             *)
ReceiptsVerify ==
  /\ TypeOK
  /\ \A receipt \in image[ReceiptPath] \ {NoFile} : ReceiptVerified(receipt)

Reviewed(receipt) ==
  receipt # NoFile /\ (receipt.status = "complete" \/ RequiresManualReview(receipt))

(* _requires_manual_review tells "whether rerunning a valid blocked        *)
(* receipt could duplicate a call", wherever the process ended, as long as *)
(* the machine keeps running.                                              *)
ReviewBeforeRerun ==
  crashes = 0 /\ prompted # {} => Reviewed(disk[ReceiptPath])

(* kaggle_diagnostic_receipt.py:617 "Return whether rerunning a valid      *)
(* blocked receipt could duplicate a call.": the same of every receipt a   *)
(* machine crash may leave.                                                *)
ReviewSurvivesCrash ==
  prompted # {} => \A receipt \in image[ReceiptPath] \ {NoFile} : Reviewed(receipt)

(* "Call-ahead": the receipt on disk has a row for every call made or      *)
(* names it as the dispatching one.  No call follows a flawed output, a    *)
(* call that raised or a chat that did not close.                          *)
CallsAreAccounted ==
  /\ crashes = 0 /\ prompted # {} =>
       LET receipt == disk[ReceiptPath]
           out == IF receipt.active.state = "dispatching"
                  THEN {receipt.active.call} ELSE {}
       IN  prompted \subseteq {receipt.rows[i].call : i \in DOMAIN receipt.rows} \cup out
  /\ \A call \in prompted : 1..(call - 1) \subseteq clean \cap closed
=============================================================================
