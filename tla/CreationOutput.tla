---------------------------- MODULE CreationOutput ----------------------------
(***************************************************************************)
(* bench/engine/kaggle_creation_output.py: an operator waits for the       *)
(* diagnostic task to end on Kaggle, finds the run that the creation of    *)
(* its version triggered, downloads that run's output, and states in a     *)
(* metadata file which gate it passes and whether it needs a review.  The  *)
(* writing of the three files is in EvidenceBundle.                        *)
(***************************************************************************)
EXTENDS DiagnosticTask, SequencesExt

CONSTANTS
  PageSize,         \* Kaggle's runs per page
  MaxListed,        \* MAX_RUNS_TO_INSPECT
  MaxPages,         \* MAX_RUN_PAGES_TO_INSPECT
  MaxForeignRuns    \* bound: runs that somebody else schedules

ASSUME OutputAssumption ==
  /\ PageSize \in Nat \ {0}
  /\ MaxListed \in Nat /\ MaxPages \in Nat /\ MaxForeignRuns \in Nat

VARIABLES
  attached,     \* Kaggle: the datasets of the task version
  creation,     \* Kaggle: the creation state of the version
  runs,         \* Kaggle: the task's runs, newest first
  op,           \* where the operator's command is
  gate,         \* --gate, and with it the datasets expected
  expectedRun,  \* --run-id, or NoRun
  task,         \* the creation state it was answered
  listed,       \* the runs it was answered
  tokens,       \* the page tokens it used, the last one is the current page's
  archive,      \* what it downloaded
  metadata      \* what it retained

service == <<attached, creation, runs>>
answers == <<task, listed, tokens, archive, metadata>>
operator == <<op, gate, expectedRun, answers>>
allVars == <<vars, service, operator>>

NoRun == 0
CreationRun == 1
NotRetained == [run |-> NoRun]
Terminal == {"COMPLETED", "ERRORED"}
TaskRun(id, version, state) == [id |-> id, version |-> version, state |-> state]

OutputInit ==
  /\ Init
  /\ attached \in {"none", "ours", "other"} /\ creation = "RUNNING"
  /\ runs = <<TaskRun(CreationRun, "requested", "RUNNING")>>
  /\ op = "idle" /\ gate = "zero-call" /\ expectedRun = NoRun
  /\ task = "RUNNING" /\ listed = <<>> /\ tokens = <<>>
  /\ archive = NoFile /\ metadata = NotRetained

-----------------------------------------------------------------------------
(* Kaggle.                                                                 *)

(* The task runs until its run has ended, when Kaggle keeps its output; its *)
(* package is the dataset attached to its version.                         *)
Running == \E i \in DOMAIN runs : runs[i].id = CreationRun /\ runs[i].state = "RUNNING"

TaskStep ==
  /\ Running /\ Next
  /\ (pc = "package" /\ pc' = "model") => attached = "ours"
  /\ UNCHANGED <<service, operator>>

(* The run ends, then the creation; both can err by themselves.  A run     *)
(* whose process did not return, or whose machine crashed, has erred.      *)
RunEnds ==
  /\ pc \in Ended
  /\ \E i \in DOMAIN runs, state \in Terminal :
       /\ runs[i].id = CreationRun /\ runs[i].state = "RUNNING"
       /\ state = "COMPLETED" => pc = "returned" /\ crashes = 0
       /\ runs' = [runs EXCEPT ![i].state = state]
  /\ UNCHANGED <<vars, attached, creation, operator>>

CreationEnds ==
  /\ creation = "RUNNING"
  /\ \E i \in DOMAIN runs, state \in Terminal :
       /\ runs[i].id = CreationRun /\ runs[i].state \in Terminal
       /\ state = "COMPLETED" => runs[i].state = "COMPLETED"
       /\ creation' = state
  /\ UNCHANGED <<vars, attached, runs, operator>>

(* Somebody schedules a run, of this version or of another one.            *)
ForeignRun ==
  /\ creation \in Terminal /\ Len(runs) <= MaxForeignRuns
  /\ \E version \in {"requested", "another"}, state \in {"RUNNING", "COMPLETED"} :
       runs' = <<TaskRun(CreationRun + Len(runs), version, state)>> \o runs
  /\ UNCHANGED <<vars, attached, creation, operator>>

-----------------------------------------------------------------------------
(* The command.  It only reads, so a failure leads back to the start.      *)

Finish ==
  /\ op' = "idle" /\ gate' = "zero-call" /\ expectedRun' = NoRun
  /\ task' = "RUNNING" /\ listed' = <<>> /\ tokens' = <<>> /\ archive' = NoFile

Fail == Finish /\ UNCHANGED metadata

DatasetsFit(mode) == attached = IF mode = "zero-call" THEN "none" ELSE "ours"

(* _task_metadata: the creation is over, with the datasets expected.  The  *)
(* operator stops once a bundle is retained.                               *)
GetTask ==
  /\ op = "idle" /\ metadata = NotRetained
  /\ gate' \in {"zero-call", "six-call"} /\ expectedRun' \in {NoRun, CreationRun}
  /\ creation \in Terminal /\ DatasetsFit(gate')
  /\ task' = creation /\ op' = "list" /\ tokens' = <<0>>
  /\ UNCHANGED <<vars, service, listed, archive, metadata>>

(* A page of the list as it is now, and the token of the next one, which   *)
(* Kaggle may repeat.                                                      *)
Page ==
  LET end == Last(tokens) + PageSize
  IN  SubSeq(runs, Last(tokens) + 1, IF end <= Len(runs) THEN end ELSE Len(runs))
Answered == listed \o Page
NextTokens ==
  IF Last(tokens) + PageSize >= Len(runs) THEN {}
  ELSE {Last(tokens) + PageSize} \cup (IF Len(tokens) > 1 THEN {Last(tokens)} ELSE {})

(* Mutated ListPage: the token of the next page is ignored.                *)
ListOnePage ==
  /\ op = "list" /\ listed' = Answered /\ op' = "select"
  /\ UNCHANGED <<vars, service, gate, expectedRun, task, tokens, archive, metadata>>

ListPage ==
  /\ op = "list"
  /\ \/ /\ NextTokens = {} /\ Len(Answered) <= MaxListed
        /\ listed' = Answered /\ op' = "select"
        /\ UNCHANGED <<gate, expectedRun, task, tokens, archive, metadata>>
     \/ \E next \in NextTokens \ ToSet(tokens) :
          /\ Len(tokens) < MaxPages /\ Len(Answered) < MaxListed
          /\ listed' = Answered /\ tokens' = Append(tokens, next)
          /\ UNCHANGED <<op, gate, expectedRun, task, archive, metadata>>
     \/ Len(Answered) > MaxListed /\ Fail
     \/ /\ \/ NextTokens \cap ToSet(tokens) # {}
           \/ NextTokens # {} /\ (Len(tokens) >= MaxPages \/ Len(Answered) >= MaxListed)
        /\ Fail
  /\ UNCHANGED <<vars, service>>

(* _select_exact_run and _run_metadata.                                    *)
Matches == {i \in DOMAIN listed : /\ listed[i].version = "requested"
                                  /\ expectedRun \in {NoRun, listed[i].id}}
Selected == listed[CHOOSE i \in Matches : TRUE]
SelectRun ==
  /\ op = "select"
  /\ IF Cardinality(Matches) = 1 /\ Selected.state \in Terminal
     THEN op' = "download" /\ UNCHANGED <<gate, expectedRun, answers>>
     ELSE Fail
  /\ UNCHANGED <<vars, service>>

(* Kaggle keeps for each run what its task left: for one that somebody     *)
(* else scheduled, a receipt of its own.                                   *)
ForeignReceipt ==
  Receipt("package_preflight", Observed(TRUE, "blocked", Unavailable), NoCallsYet,
          {"package_unavailable_or_drifted"}, PackageFailure)
OutputOf(run) == IF run.id = CreationRun THEN disk[ReceiptPath] ELSE ForeignReceipt

(* _read_bounded_download and _extract_verified_receipt: one receipt, that *)
(* the reader accepts.                                                     *)
Download ==
  /\ op = "download"
  /\ \/ LET output == OutputOf(Selected)
        IN  /\ output # NoFile /\ ReceiptVerified(output)
            /\ archive' = output /\ op' = "bundle"
            /\ UNCHANGED <<gate, expectedRun, task, listed, tokens, metadata>>
     \/ Fail
  /\ UNCHANGED <<vars, service>>

ZeroCallsProven(receipt) ==
  /\ receipt.attempted = 0 /\ receipt.completed = 0
  /\ receipt.active = NoActive /\ receipt.rows = <<>>

(* _gate_result; the six calls of the gate are the task's SampleCount.     *)
GateResult(receipt) ==
  CASE gate = "zero-call" ->
         /\ receipt.status = "blocked" /\ receipt.phase = "package_preflight"
         /\ ZeroCallsProven(receipt)
    [] gate = "six-call" ->
         /\ receipt.status = "complete"
         /\ receipt.attempted = SampleCount /\ receipt.completed = SampleCount
         /\ receipt.active = NoActive /\ Len(receipt.rows) = SampleCount

(* Mutated ManualReview: how the run ended is not asked.                   *)
ReviewsReceiptOnly(receipt) ==
  receipt.active # NoActive \/ (receipt.status = "blocked" /\ receipt.attempted > 0)

ManualReview(receipt) ==
  \/ task # "COMPLETED" \/ Selected.state # "COMPLETED"
  \/ receipt.active # NoActive
  \/ receipt.status = "blocked" /\ receipt.attempted > 0

(* write_creation_bundle, from the answers it was given before; the        *)
(* three files are written, or refused, in EvidenceBundle.                 *)
Bundle ==
  /\ op = "bundle"
  /\ metadata' = [run |-> Selected.id, gate |-> gate, receipt |-> archive,
                  passed |-> /\ GateResult(archive)
                             /\ task = "COMPLETED" /\ Selected.state = "COMPLETED",
                  manualReviewRequired |-> ManualReview(archive)]
  /\ Finish
  /\ UNCHANGED <<vars, service>>

OutputNext ==
  \/ TaskStep
  \/ RunEnds \/ CreationEnds \/ ForeignRun
  \/ GetTask \/ ListPage \/ SelectRun \/ Download \/ Bundle

OutputSpec == OutputInit /\ [][OutputNext]_allVars

-----------------------------------------------------------------------------
(* What a retained bundle says is true of the one run that the creation    *)
(* triggered, although the task, its runs, the runs' pages and the output  *)
(* are read one after the other ("Do not guess which run is                *)
(* authoritative").  A passed six-call gate stands for six clean calls in  *)
(* closed chats, a passed zero-call gate for no call at all, and a bundle  *)
(* that asks for no review stands for one of the two, whatever crash ended *)
(* the run.                                                                *)
AllClean == clean = Calls /\ closed = Calls
MetadataIsTrue ==
  metadata # NotRetained =>
    /\ metadata.run = CreationRun
    /\ metadata.passed =>
         IF metadata.gate = "six-call" THEN AllClean ELSE prompted = {} /\ attached = "none"
    /\ ~metadata.manualReviewRequired => prompted = {} \/ AllClean
=============================================================================
