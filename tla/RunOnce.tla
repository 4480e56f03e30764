------------------------------- MODULE RunOnce -------------------------------
(***************************************************************************)
(* bench/engine/kaggle_run_once.py: schedule one paid benchmark run for an *)
(* exact task version and bind the run it paid for, without ever retrying  *)
(* the paid call.  Operators are processes started by hand, several at a   *)
(* time, on the same or on different journal paths; processes and the      *)
(* machine may crash anywhere; Kaggle is external and answers late, wrong, *)
(* or not at all.                                                          *)
(***************************************************************************)
EXTENDS JournalStore, JournalCatalog, Naturals, Sequences, FiniteSets

CONSTANTS
  Operators,    \* processes an operator may start
  Runs,         \* run IDs of the exact task version
  Models,       \* model version slugs
  Target,       \* the model a journal path was reviewed for
  Foreign,      \* the payer of a run scheduled elsewhere (web page, API)
  NoRun,        \* reconciliation.run is None, or a run not made yet
  Attempts,     \* len(reconcile_delays)
  MaxStarts,    \* bound: how often one operator starts the command
  MaxCrashes    \* bound: machine crashes

VARIABLES
  pc,           \* where each operator's process is
  path,         \* its --journal argument
  mem,          \* its journal dict and list of observations
  goal,         \* where it goes once the journal is replaced and synced
  starts,       \* how often it was started
  made,         \* Kaggle: the runs of the task version
  inflight,     \* Kaggle: schedule requests sent and not yet handled
  answer,       \* Kaggle's response to the request sent for a path
  calls,        \* history: paid calls sent for a path
  crashes       \* machine crashes so far

operator == <<pc, path, mem, goal, starts>>
kaggle == <<made, inflight, answer, calls>>
vars == <<store, operator, kaggle, crashes>>

States == {"prepared", "dispatching", "ambiguous", "not_scheduled",
           "returned_unreconciled", "reconciled"}
Stopped == {"idle", "failed", "ambiguous", "ok", "dead"}
Working == {"preflight", "open", "fill", "syncNew", "replace", "sync",
            "call", "await", "reconcile"}

(* An observation is the listing one reconciliation attempt saw, ids None  *)
(* when the attempt recorded a failure.                                    *)
Observation == [failed : BOOLEAN, ids : SUBSET Runs]

(* What _schedule_response_record accepts: runScheduled is True, without   *)
(* or with a runSkippedReason, or it is False.                             *)
Responses == {"scheduled", "scheduledWithReason", "skipped"}

(* The fields of the journal that decide anything; identities, times,      *)
(* quotas and messages are left out.  "failure", "dispatchFailure" and     *)
(* "responseFailure" say whether the field is not None.                    *)
Journal == [state : States,
            before : SUBSET Runs,
            response : Responses \cup {"none"},
            dispatchFailure : BOOLEAN,
            responseFailure : BOOLEAN,
            failure : BOOLEAN,
            observations : Seq(Observation),
            run : Runs \cup {NoRun}]

Run == [model : Models, payer : Paths \cup {Foreign}, terminal : BOOLEAN]

ASSUME RunOnceAssumption ==
  /\ Target \in [Paths -> Models]
  /\ Foreign \notin Paths
  /\ NoRun \notin Runs \cup Run
  /\ NoFile \notin Journal /\ Partial \notin Journal
  /\ Attempts \in Nat \ {0}
  /\ MaxStarts \in Nat
  /\ MaxCrashes \in Nat

Made == {r \in Runs : made[r] # NoRun}
PaidUnder(p) == {r \in Made : made[r].payer = p}

Prepared(before) ==
  [state |-> "prepared", before |-> before, response |-> "none",
   dispatchFailure |-> FALSE, responseFailure |-> FALSE, failure |-> FALSE,
   observations |-> <<>>, run |-> NoRun]

Init ==
  /\ StoreInit
  /\ pc = [o \in Operators |-> "idle"]
  /\ path \in [Operators -> Paths]
  /\ mem = [o \in Operators |-> Prepared({})]
  /\ goal = [o \in Operators |-> "failed"]
  /\ starts = [o \in Operators |-> 0]
  /\ made = [r \in Runs |-> NoRun]
  /\ inflight = {}
  /\ answer = [p \in Paths |-> "none"]
  /\ calls = [p \in Paths |-> 0]
  /\ crashes = 0

Goto(o, label) == pc' = [pc EXCEPT ![o] = label]

(* The process ends; its memory is gone.                                   *)
Exit(o, label) ==
  /\ Goto(o, label)
  /\ mem' = [mem EXCEPT ![o] = Prepared({})]
  /\ goal' = [goal EXCEPT ![o] = "failed"]

(* _replace_journal with the fields of `journal`, then on to `next`.       *)
Persist(o, journal, next) ==
  /\ mem' = [mem EXCEPT ![o] = journal]
  /\ goal' = [goal EXCEPT ![o] = next]
  /\ Goto(o, "replace")

-----------------------------------------------------------------------------
(* Before the dispatch boundary.                                           *)

(* run_once up to _validate_target: an existing journal is not retried.    *)
Start(o, p) ==
  /\ pc[o] \in Stopped
  /\ starts[o] < MaxStarts
  /\ path' = [path EXCEPT ![o] = p]
  /\ starts' = [starts EXCEPT ![o] = @ + 1]
  /\ Goto(o, IF Exists(p) THEN "failed" ELSE "preflight")
  /\ UNCHANGED <<store, mem, goal, kaggle, crashes>>

(* A listing that is stale for some run, as fetch_runs may return it.      *)
Listed(ids) == ids \subseteq Made

AllTerminal(ids) == \A r \in ids : made[r].terminal

(* Task, model, run and quota reads; every listed run must be terminal.    *)
Preflight(o) ==
  /\ pc[o] = "preflight"
  /\ \E ids \in SUBSET Runs :
       /\ Listed(ids)
       /\ AllTerminal(ids)
       /\ mem' = [mem EXCEPT ![o] = Prepared(ids)]
       /\ Goto(o, "open")
  /\ UNCHANGED <<store, path, goal, starts, kaggle, crashes>>

(* A read fails or fails its checks, or a listed run is still active.      *)
PreflightFails(o) ==
  /\ pc[o] = "preflight"
  /\ Exit(o, "failed")
  /\ UNCHANGED <<store, path, starts, kaggle, crashes>>

(* FileExistsError and every other OSError end the command.                *)
OpenJournal(o) ==
  /\ pc[o] = "open"
  /\ \/ OpenExclusive(path[o]) /\ Goto(o, "fill") /\ UNCHANGED <<mem, goal>>
     \/ Exit(o, "failed") /\ UNCHANGED store
  /\ UNCHANGED <<path, starts, kaggle, crashes>>

FillJournal(o) ==
  /\ pc[o] = "fill"
  /\ \/ /\ FillAndSync(path[o], mem[o])
        /\ Goto(o, "syncNew")
        /\ UNCHANGED <<mem, goal>>
     \/ FillFails(path[o], mem[o]) /\ Exit(o, "failed")
  /\ UNCHANGED <<path, starts, kaggle, crashes>>

(* The directory sync ends _write_initial_journal; then the journal moves  *)
(* to "dispatching".                                                       *)
SyncNewJournal(o) ==
  /\ pc[o] = "syncNew"
  /\ SyncDirectory(path[o])
  /\ Persist(o, [mem[o] EXCEPT !.state = "dispatching"], "call")
  /\ UNCHANGED <<path, starts, kaggle, crashes>>

ReplaceJournal(o) ==
  /\ pc[o] = "replace"
  /\ Replace(path[o], mem[o])
  /\ Goto(o, "sync")
  /\ UNCHANGED <<path, mem, goal, starts, kaggle, crashes>>

SyncJournal(o) ==
  /\ pc[o] = "sync"
  /\ SyncDirectory(path[o])
  /\ IF goal[o] \in Stopped
     THEN Exit(o, goal[o])
     ELSE Goto(o, goal[o]) /\ UNCHANGED <<mem, goal>>
  /\ UNCHANGED <<path, starts, kaggle, crashes>>

(* An OSError out of a journal write ends the command.                     *)
JournalWriteFails(o) ==
  /\ pc[o] \in {"syncNew", "replace", "sync"}
  /\ Exit(o, "failed")
  /\ UNCHANGED <<store, path, starts, kaggle, crashes>>

-----------------------------------------------------------------------------
(* The paid call.                                                          *)

(* schedule_run: the request leaves.                                       *)
Call(o) ==
  /\ pc[o] = "call"
  /\ calls' = [calls EXCEPT ![path[o]] = @ + 1]
  /\ inflight' = inflight \cup {path[o]}
  /\ answer' = [answer EXCEPT ![path[o]] = "none"]
  /\ Goto(o, "await")
  /\ UNCHANGED <<store, path, mem, goal, starts, made, crashes>>

(* schedule_run returned: _schedule_response_record and what follows it.   *)
(* A reason beside runScheduled is recorded and nothing else.              *)
Returned(o) ==
  /\ pc[o] = "await"
  /\ CASE answer[path[o]] \in {"scheduled", "scheduledWithReason"} ->
            Persist(o, [mem[o] EXCEPT !.state = "returned_unreconciled",
                                      !.response = answer[path[o]]], "reconcile")
       [] answer[path[o]] = "skipped" ->
            Persist(o, [mem[o] EXCEPT !.state = "not_scheduled",
                                      !.response = "skipped",
                                      !.failure = TRUE], "failed")
       [] answer[path[o]] = "bad" ->
            Persist(o, [mem[o] EXCEPT !.state = "ambiguous",
                                      !.responseFailure = TRUE,
                                      !.failure = TRUE], "reconcile")
       [] OTHER -> FALSE
  /\ UNCHANGED <<store, path, starts, kaggle, crashes>>

(* Mutated Raised: no response is taken for a refusal.                     *)
RaisedIsSkipped(o) ==
  /\ pc[o] = "await"
  /\ Persist(o, [mem[o] EXCEPT !.state = "not_scheduled",
                               !.dispatchFailure = TRUE,
                               !.failure = TRUE], "failed")
  /\ UNCHANGED <<store, path, starts, kaggle, crashes>>

(* Mutated Raised: a journal state no reader knows.                        *)
RaisedUnknownState(o) ==
  /\ pc[o] = "await"
  /\ Persist(o, [mem[o] EXCEPT !.state = "raised",
                               !.dispatchFailure = TRUE], "reconcile")
  /\ UNCHANGED <<store, path, starts, kaggle, crashes>>

(* schedule_run raised: an Exception goes on to reconciliation, any other  *)
(* BaseException is raised again once the journal says "ambiguous".        *)
Raised(o) ==
  /\ pc[o] = "await"
  /\ \E next \in {"reconcile", "failed"} :
       Persist(o, [mem[o] EXCEPT !.state = "ambiguous",
                                 !.dispatchFailure = TRUE,
                                 !.failure = TRUE], next)
  /\ UNCHANGED <<store, path, starts, kaggle, crashes>>

-----------------------------------------------------------------------------
(* Reconciliation: one listing per delay.                                  *)

Attempt(o) == Len(mem[o].observations) + 1

(* Mutated Observe: the attempt is not recorded.                           *)
UncountedObserve(o, failed, ids) == mem[o]

Observe(o, failed, ids) ==
  [mem[o] EXCEPT !.observations =
                   Append(@, [failed |-> failed, ids |-> ids])]

(* The listing raised, or lost runs the preflight saw.                     *)
ListingFails(o) ==
  /\ pc[o] = "reconcile"
  /\ Attempt(o) <= Attempts
  /\ mem' = [mem EXCEPT ![o] = Observe(o, TRUE, {})]
  /\ UNCHANGED <<store, pc, path, goal, starts, kaggle, crashes>>

NothingNew(o) ==
  /\ pc[o] = "reconcile"
  /\ Attempt(o) <= Attempts
  /\ Listed(mem[o].before)
  /\ mem' = [mem EXCEPT ![o] = Observe(o, FALSE, mem[o].before)]
  /\ UNCHANGED <<store, pc, path, goal, starts, kaggle, crashes>>

(* Mutated BoundAfter: a contradicted response is forgotten.               *)
BoundAlways(o, journal, new) ==
  Persist(o, [journal EXCEPT !.state = "reconciled", !.run = new,
                             !.failure = FALSE], "ok")

BoundAfter(o, journal, new) ==
  IF journal.responseFailure
  THEN Persist(o, [journal EXCEPT !.state = "ambiguous", !.run = new,
                                  !.failure = TRUE], "ambiguous")
  ELSE Persist(o, [journal EXCEPT !.state = "reconciled", !.run = new,
                                  !.failure = FALSE], "ok")

MismatchAfter(o, journal) ==
  Persist(o, [journal EXCEPT !.state = "ambiguous", !.failure = TRUE],
          "ambiguous")

(* Mutated SomethingNew: binds one of the new runs, of any model.          *)
BindsAnyNewRun(o) ==
  /\ pc[o] = "reconcile"
  /\ Attempt(o) <= Attempts
  /\ \E ids \in SUBSET Runs :
       LET delta == ids \ mem[o].before
       IN  /\ Listed(ids)
           /\ delta # {}
           /\ BoundAfter(o, Observe(o, FALSE, ids), CHOOSE r \in delta : TRUE)
  /\ UNCHANGED <<store, path, starts, kaggle, crashes>>

(* The listing has runs the preflight did not see: exactly one, for the    *)
(* requested model, or the outcome stays ambiguous.                        *)
SomethingNew(o) ==
  /\ pc[o] = "reconcile"
  /\ Attempt(o) <= Attempts
  /\ \E ids \in SUBSET Runs :
       LET delta == ids \ mem[o].before
           seen == Observe(o, FALSE, ids)
       IN  /\ Listed(ids)
           /\ mem[o].before \subseteq ids
           /\ delta # {}
           /\ \/ /\ ~ \E r \in Runs :
                        delta = {r} /\ made[r].model = Target[path[o]]
                 /\ MismatchAfter(o, seen)
              \/ \E r \in Runs :
                   /\ delta = {r}
                   /\ made[r].model = Target[path[o]]
                   /\ BoundAfter(o, seen, r)
  /\ UNCHANGED <<store, path, starts, kaggle, crashes>>

(* The delays are used up: RunNotObserved unless a failure is recorded.    *)
Exhausted(o) ==
  /\ pc[o] = "reconcile"
  /\ Attempt(o) > Attempts
  /\ Persist(o, [mem[o] EXCEPT !.state = "ambiguous", !.failure = TRUE],
             "ambiguous")
  /\ UNCHANGED <<store, path, starts, kaggle, crashes>>

-----------------------------------------------------------------------------
(* Kaggle, external: as schedule_run and fetch_runs have to expect it.     *)

(* The request creates a run; the response may be lost or contradictory.   *)
KaggleSchedules(p) ==
  /\ p \in inflight
  /\ \E r \in Runs \ Made, m \in Models,
        reply \in {"none", "scheduled", "scheduledWithReason", "bad"} :
       /\ reply = "bad" \/ m = Target[p]
       /\ made' = [made EXCEPT ![r] =
                     [model |-> m, payer |-> p, terminal |-> FALSE]]
       /\ answer' = [answer EXCEPT ![p] = reply]
  /\ inflight' = inflight \ {p}
  /\ UNCHANGED <<store, operator, calls, crashes>>

(* The request creates no run of this version: skipped, redirected to a    *)
(* parent version, malformed, or lost.                                     *)
KaggleDeclines(p) ==
  /\ p \in inflight
  /\ \E reply \in {"none", "skipped", "bad"} :
       answer' = [answer EXCEPT ![p] = reply]
  /\ inflight' = inflight \ {p}
  /\ UNCHANGED <<store, operator, made, calls, crashes>>

ForeignRun(r, m) ==
  /\ made[r] = NoRun
  /\ made' = [made EXCEPT ![r] =
                [model |-> m, payer |-> Foreign, terminal |-> FALSE]]
  /\ UNCHANGED <<store, operator, inflight, answer, calls, crashes>>

RunEnds(r) ==
  /\ r \in Made
  /\ ~made[r].terminal
  /\ made' = [made EXCEPT ![r].terminal = TRUE]
  /\ UNCHANGED <<store, operator, inflight, answer, calls, crashes>>

-----------------------------------------------------------------------------
(* Crashes.                                                                *)

(* The process is killed, or an interrupt ends it outside schedule_run.    *)
ProcessCrash(o) ==
  /\ pc[o] \in Working
  /\ Exit(o, "dead")
  /\ UNCHANGED <<store, path, starts, kaggle, crashes>>

MachineCrash ==
  /\ crashes < MaxCrashes
  /\ crashes' = crashes + 1
  /\ LoseVolatile
  /\ pc' = [o \in Operators |-> IF pc[o] \in Working THEN "dead" ELSE pc[o]]
  /\ mem' = [o \in Operators |-> Prepared({})]
  /\ goal' = [o \in Operators |-> "failed"]
  /\ UNCHANGED <<path, starts, kaggle>>

-----------------------------------------------------------------------------
Step(o) ==
  \/ Preflight(o) \/ PreflightFails(o)
  \/ OpenJournal(o) \/ FillJournal(o) \/ SyncNewJournal(o)
  \/ ReplaceJournal(o) \/ SyncJournal(o) \/ JournalWriteFails(o)
  \/ Call(o) \/ Returned(o) \/ Raised(o)
  \/ ListingFails(o) \/ NothingNew(o) \/ SomethingNew(o) \/ Exhausted(o)

Environment ==
  \/ \E p \in Paths : KaggleSchedules(p) \/ KaggleDeclines(p)
  \/ \E r \in Runs : (\E m \in Models : ForeignRun(r, m)) \/ RunEnds(r)
  \/ MachineCrash

Next ==
  \/ \E o \in Operators : (\E p \in Paths : Start(o, p)) \/ Step(o)
                          \/ ProcessCrash(o)
  \/ Environment

Spec == Init /\ [][Next]_vars

(* The steps that wait for a call of the Kaggle client (fetch_task,        *)
(* fetch_model, fetch_runs, fetch_quota, schedule_run) to return or raise. *)
(* No timeout is set on any of them.                                       *)
ClientStep(o) ==
  \/ Preflight(o) \/ PreflightFails(o)
  \/ Returned(o) \/ Raised(o)
  \/ ListingFails(o) \/ NothingNew(o) \/ SomethingNew(o) \/ Exhausted(o)

OwnStep(o) ==
  \/ OpenJournal(o) \/ FillJournal(o) \/ SyncNewJournal(o)
  \/ ReplaceJournal(o) \/ SyncJournal(o) \/ JournalWriteFails(o)
  \/ Call(o)

(* A process that is not killed goes on with its local file operations.    *)
(* Nothing is assumed of Kaggle or its client, of the people who start     *)
(* commands, or of crashes.                                                *)
FairSpec == Spec /\ \A o \in Operators : WF_vars(OwnStep(o))

-----------------------------------------------------------------------------
(* Properties.                                                             *)

TypeOK ==
  /\ disk \in [Paths -> Journal \cup {NoFile, Partial}]
  /\ image \in [Paths -> SUBSET (Journal \cup {NoFile, Partial})]
  /\ pc \in [Operators -> Stopped \cup Working]
  /\ path \in [Operators -> Paths]
  /\ mem \in [Operators -> Journal]
  /\ goal \in [Operators -> Stopped \cup {"call", "reconcile"}]
  /\ starts \in [Operators -> Nat]
  /\ made \in [Runs -> Run \cup {NoRun}]
  /\ inflight \subseteq Paths
  /\ answer \in [Paths -> Responses \cup {"none", "bad"}]
  /\ calls \in [Paths -> Nat]
  /\ crashes \in 0..MaxCrashes

(* A journal that forbids a second call: "dispatching" or later.           *)
Blocks(content) ==
  content \notin {NoFile, Partial} /\ content.state # "prepared"

(* One journal path pays for at most one call, whatever operators share it *)
(* and whatever crashes: the command's "paid call is never retried".       *)
AtMostOneCall == \A p \in Paths : calls[p] <= 1

(* Once the paid call is sent, every machine crash leaves a journal that   *)
(* is at least "dispatching": the retry barrier of _fsync_parent_directory *)
BarrierDurable ==
  \A p \in Paths : calls[p] > 0 => \A content \in image[p] : Blocks(content)

(* "not_scheduled" is conclusive: no run was and no run will be paid for   *)
(* by the call that journal stands for.                                    *)
SkippedMeansUnpaid ==
  \A p \in Paths : \A content \in image[p] :
    content \notin {NoFile, Partial} /\ content.state = "not_scheduled"
      => PaidUnder(p) = {} /\ p \notin inflight

Reconciled(content) ==
  content \notin {NoFile, Partial} /\ content.state = "reconciled"

(* Every journal that says "reconciled", in any crash image, names a run   *)
(* that exists, and is accepted as evidence for that run with its model    *)
(* (kaggle_capture_evidence.py:314), whatever Kaggle answered, except in   *)
(* one case where it is refused: Kaggle scheduled the run and gave a       *)
(* reason for skipping it all the same.                                    *)
ReconciledIsEvidence ==
  \A p \in Paths : \A content \in image[p] : Reconciled(content) =>
    /\ content.run \in Made
    /\ Promotable(content, Target[p], content.run, made[content.run].model)
         <=> content.response # "scheduledWithReason"

(* A command that exits with status 0 leaves a durable "reconciled"        *)
(* journal that names a run.                                               *)
SuccessIsDurable ==
  \A o \in Operators : pc[o] = "ok" =>
    /\ image[path[o]] = {disk[path[o]]}
    /\ disk[path[o]].state = "reconciled"
    /\ disk[path[o]].run \in Runs

(* What a rewrite of a journal may change it to.                           *)
Advances(old, new) ==
  \/ old.state = "prepared" /\ new.state = "dispatching"
  \/ old.state = "dispatching"
     /\ new.state \in {"ambiguous", "not_scheduled", "returned_unreconciled"}
  \/ old.state = "returned_unreconciled"
     /\ new.state \in {"ambiguous", "reconciled"}
  \/ /\ old.state = "ambiguous" /\ old.observations = <<>>
     /\ \/ new.state = "ambiguous"
        \/ new.state = "reconciled" /\ ~old.responseFailure

(* Journals only advance, verdicts are final, a contradicted response is   *)
(* never turned into "reconciled", and what the preflight saw and which    *)
(* failures were met is never rewritten.  Crashes may undo unsynced steps. *)
JournalOnlyAdvances ==
  [][ \A p \in Paths :
        \/ disk'[p] = disk[p] \/ crashes' # crashes
        \/ disk[p] \in {NoFile, Partial}
        \/ /\ Advances(disk[p], disk'[p])
           /\ disk'[p].before = disk[p].before
           /\ disk[p].dispatchFailure => disk'[p].dispatchFailure
           /\ disk[p].responseFailure => disk'[p].responseFailure ]_vars

(* A started command ends, whatever the journal writes, Kaggle and the     *)
(* other commands do, if every call of the Kaggle client that it makes     *)
(* returns or raises: the listings after the paid call are counted.        *)
CommandEnds ==
  \A o \in Operators :
    WF_vars(ClientStep(o)) => (pc[o] \in Working ~> pc[o] \in Stopped)

(* kaggle_run_once.py:338 "bind its unique run ID", :43 "Raised after      *)
(* dispatch when the unique paid run cannot be proved": a reconciled       *)
(* journal names the run its own call paid for.                            *)
BindsItsOwnRun ==
  \A p \in Paths : Reconciled(disk[p]) => made[disk[p].run].payer = p

(* The promise shared with PushOnce.                                       *)
Barrier == INSTANCE DispatchBarrier WITH
  armed <- {p \in Paths : \A content \in image[p] : Blocks(content)},
  effects <- [p \in Paths |-> Cardinality(PaidUnder(p))]

ImplementsBarrier == Barrier!BarrierSpec
=============================================================================
