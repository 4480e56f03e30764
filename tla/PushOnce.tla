------------------------------ MODULE PushOnce ------------------------------
(***************************************************************************)
(* bench/engine/kaggle_push_once.py: create one version of a Kaggle task   *)
(* without ever retrying the non-idempotent create call.  Operators are    *)
(* processes started by hand on the same or on different journal paths.    *)
(* Unlike RunOnce there is no reconciliation: a version is known from the  *)
(* response or not at all.                                                 *)
(***************************************************************************)
EXTENDS JournalStore, Naturals, Sequences, FiniteSets

CONSTANTS
  Operators,    \* processes an operator may start
  Foreign,      \* the creator of a version pushed elsewhere
  MaxVersions,  \* bound: versions of the task
  MaxStarts,    \* bound: how often one operator starts the command
  MaxCrashes    \* bound: machine crashes

VARIABLES
  pc,           \* where each operator's process is
  path,         \* its --journal argument
  mem,          \* its journal dict
  goal,         \* where it goes once the journal is replaced and synced
  starts,       \* how often it was started
  versions,     \* Kaggle: the task's versions, oldest first
  inflight,     \* Kaggle: create requests sent and not yet handled
  answer,       \* Kaggle's response to the request sent for a path
  calls,        \* history: create calls sent for a path
  crashes       \* machine crashes so far

operator == <<pc, path, mem, goal, starts>>
kaggle == <<versions, inflight, answer, calls>>
vars == <<store, operator, kaggle, crashes>>

States == {"prepared", "dispatching", "ambiguous", "returned"}
Stopped == {"idle", "failed", "ambiguous", "ok", "dead"}
Working == {"preflight", "open", "fill", "syncNew", "replace", "sync",
            "call", "await"}

(* remotePreflight.priorTask and response as version numbers, 0 for None.  *)
Journal == [state : States, prior : Nat, response : Nat, failure : BOOLEAN]

Version == [payer : Paths \cup {Foreign}, terminal : BOOLEAN]

(* What Kaggle says: nothing (yet, or a lost response), an error or a      *)
(* response _normalize_response refuses, or the version it created.        *)
Answer == [said : {"nothing", "bad", "created"}, version : Nat]
Saying(said) == [said |-> said, version |-> 0]

ASSUME PushOnceAssumption ==
  /\ Foreign \notin Paths
  /\ NoFile \notin Journal /\ Partial \notin Journal
  /\ MaxVersions \in Nat /\ MaxStarts \in Nat /\ MaxCrashes \in Nat

PaidUnder(p) == {v \in DOMAIN versions : versions[v].payer = p}

Prepared(prior) ==
  [state |-> "prepared", prior |-> prior, response |-> 0, failure |-> FALSE]

Init ==
  /\ StoreInit
  /\ pc = [o \in Operators |-> "idle"]
  /\ path \in [Operators -> Paths]
  /\ mem = [o \in Operators |-> Prepared(0)]
  /\ goal = [o \in Operators |-> "failed"]
  /\ starts = [o \in Operators |-> 0]
  /\ versions = <<>>
  /\ inflight = {}
  /\ answer = [p \in Paths |-> Saying("nothing")]
  /\ calls = [p \in Paths |-> 0]
  /\ crashes = 0

Goto(o, label) == pc' = [pc EXCEPT ![o] = label]

(* The process ends; its memory is gone.                                   *)
Exit(o, label) ==
  /\ Goto(o, label)
  /\ mem' = [mem EXCEPT ![o] = Prepared(0)]
  /\ goal' = [goal EXCEPT ![o] = "failed"]

(* _replace_journal with the fields of `journal`, then on to `next`.       *)
Persist(o, journal, next) ==
  /\ mem' = [mem EXCEPT ![o] = journal]
  /\ goal' = [goal EXCEPT ![o] = next]
  /\ Goto(o, "replace")

-----------------------------------------------------------------------------
(* Before the create boundary.  No look at the journal path comes first.   *)

Start(o, p) ==
  /\ pc[o] \in Stopped
  /\ starts[o] < MaxStarts
  /\ path' = [path EXCEPT ![o] = p]
  /\ starts' = [starts EXCEPT ![o] = @ + 1]
  /\ Goto(o, "preflight")
  /\ UNCHANGED <<store, mem, goal, kaggle, crashes>>

(* fetch_latest_task finds no task, or a version, perhaps not the latest   *)
(* any more, whose creation has ended.                                     *)
Preflight(o) ==
  /\ pc[o] = "preflight"
  /\ \E prior \in {0} \cup {v \in DOMAIN versions : versions[v].terminal} :
       mem' = [mem EXCEPT ![o] = Prepared(prior)]
  /\ Goto(o, "open")
  /\ UNCHANGED <<store, path, goal, starts, kaggle, crashes>>

(* Local checks or the read fail, or the version's creation is pending.    *)
PreflightFails(o) ==
  /\ pc[o] = "preflight"
  /\ Exit(o, "failed")
  /\ UNCHANGED <<store, path, starts, kaggle, crashes>>

(* FileExistsError and every other OSError end the command.                *)
OpenJournal(o) ==
  /\ pc[o] = "open"
  /\ \/ OpenExclusive(path[o]) /\ Goto(o, "fill") /\ UNCHANGED <<mem, goal>>
     \/ Exit(o, "failed") /\ UNCHANGED store
  /\ UNCHANGED <<path, starts, kaggle, crashes>>

FillJournal(o) ==
  /\ pc[o] = "fill"
  /\ \/ /\ FillAndSync(path[o], mem[o])
        /\ Goto(o, "syncNew")
        /\ UNCHANGED <<mem, goal>>
     \/ FillFails(path[o], mem[o]) /\ Exit(o, "failed")
  /\ UNCHANGED <<path, starts, kaggle, crashes>>

SyncNewJournal(o) ==
  /\ pc[o] = "syncNew"
  /\ SyncDirectory(path[o])
  /\ Persist(o, [mem[o] EXCEPT !.state = "dispatching"], "call")
  /\ UNCHANGED <<path, starts, kaggle, crashes>>

ReplaceJournal(o) ==
  /\ pc[o] = "replace"
  /\ Replace(path[o], mem[o])
  /\ Goto(o, "sync")
  /\ UNCHANGED <<path, mem, goal, starts, kaggle, crashes>>

SyncJournal(o) ==
  /\ pc[o] = "sync"
  /\ SyncDirectory(path[o])
  /\ IF goal[o] \in Stopped
     THEN Exit(o, goal[o])
     ELSE Goto(o, goal[o]) /\ UNCHANGED <<mem, goal>>
  /\ UNCHANGED <<path, starts, kaggle, crashes>>

(* An OSError out of a journal write ends the command.                     *)
JournalWriteFails(o) ==
  /\ pc[o] \in {"syncNew", "replace", "sync"}
  /\ Exit(o, "failed")
  /\ UNCHANGED <<store, path, starts, kaggle, crashes>>

-----------------------------------------------------------------------------
(* The create call.                                                        *)

Call(o) ==
  /\ pc[o] = "call"
  /\ calls' = [calls EXCEPT ![path[o]] = @ + 1]
  /\ inflight' = inflight \cup {path[o]}
  /\ answer' = [answer EXCEPT ![path[o]] = Saying("nothing")]
  /\ Goto(o, "await")
  /\ UNCHANGED <<store, path, mem, goal, starts, versions, crashes>>

(* Mutated Returned: _normalize_response refuses nothing.                  *)
TrustsEveryAnswer(o) ==
  /\ pc[o] = "await"
  /\ answer[path[o]].said # "nothing"
  /\ Persist(o, [mem[o] EXCEPT !.state = "returned",
                               !.response = answer[path[o]].version], "ok")
  /\ UNCHANGED <<store, path, starts, kaggle, crashes>>

(* create_task returned and _normalize_response accepted the response.     *)
Returned(o) ==
  /\ pc[o] = "await"
  /\ answer[path[o]].said = "created"
  /\ Persist(o, [mem[o] EXCEPT !.state = "returned",
                               !.response = answer[path[o]].version], "ok")
  /\ UNCHANGED <<store, path, starts, kaggle, crashes>>

(* Mutated Raised: the failure leaves before the journal is rewritten.     *)
RaisedUnrecorded(o) ==
  /\ pc[o] = "await"
  /\ Exit(o, "ambiguous")
  /\ UNCHANGED <<store, path, starts, kaggle, crashes>>

(* create_task raised, at any time, or its response was refused: an        *)
(* Exception becomes KagglePushOutcomeAmbiguous, another BaseException is  *)
(* raised again, both once the journal says "ambiguous".                   *)
Raised(o) ==
  /\ pc[o] = "await"
  /\ \E next \in {"ambiguous", "failed"} :
       Persist(o, [mem[o] EXCEPT !.state = "ambiguous", !.failure = TRUE], next)
  /\ UNCHANGED <<store, path, starts, kaggle, crashes>>

-----------------------------------------------------------------------------
(* Kaggle, external: as create_task and fetch_latest_task have to expect.  *)

(* The request creates a version; the response may be lost or refused.     *)
KaggleCreates(p) ==
  /\ p \in inflight
  /\ Len(versions) < MaxVersions
  /\ versions' = Append(versions, [payer |-> p, terminal |-> FALSE])
  /\ \E said \in {"nothing", "bad", "created"} :
       answer' = [answer EXCEPT ![p] =
                    [said |-> said,
                     version |-> IF said = "created" THEN Len(versions) + 1 ELSE 0]]
  /\ inflight' = inflight \ {p}
  /\ UNCHANGED <<store, operator, calls, crashes>>

(* The request creates no version.                                         *)
KaggleDeclines(p) ==
  /\ p \in inflight
  /\ \E said \in {"nothing", "bad"} :
       answer' = [answer EXCEPT ![p] = Saying(said)]
  /\ inflight' = inflight \ {p}
  /\ UNCHANGED <<store, operator, versions, calls, crashes>>

ForeignVersion ==
  /\ Len(versions) < MaxVersions
  /\ versions' = Append(versions, [payer |-> Foreign, terminal |-> FALSE])
  /\ UNCHANGED <<store, operator, inflight, answer, calls, crashes>>

CreationEnds(v) ==
  /\ v \in DOMAIN versions
  /\ ~versions[v].terminal
  /\ versions' = [versions EXCEPT ![v].terminal = TRUE]
  /\ UNCHANGED <<store, operator, inflight, answer, calls, crashes>>

-----------------------------------------------------------------------------
(* Crashes.                                                                *)

ProcessCrash(o) ==
  /\ pc[o] \in Working
  /\ Exit(o, "dead")
  /\ UNCHANGED <<store, path, starts, kaggle, crashes>>

MachineCrash ==
  /\ crashes < MaxCrashes
  /\ crashes' = crashes + 1
  /\ LoseVolatile
  /\ pc' = [o \in Operators |-> IF pc[o] \in Working THEN "dead" ELSE pc[o]]
  /\ mem' = [o \in Operators |-> Prepared(0)]
  /\ goal' = [o \in Operators |-> "failed"]
  /\ UNCHANGED <<path, starts, kaggle>>

-----------------------------------------------------------------------------
Step(o) ==
  \/ Preflight(o) \/ PreflightFails(o)
  \/ OpenJournal(o) \/ FillJournal(o) \/ SyncNewJournal(o)
  \/ ReplaceJournal(o) \/ SyncJournal(o) \/ JournalWriteFails(o)
  \/ Call(o) \/ Returned(o) \/ Raised(o)

Environment ==
  \/ \E p \in Paths : KaggleCreates(p) \/ KaggleDeclines(p)
  \/ \E v \in 1..MaxVersions : CreationEnds(v)
  \/ ForeignVersion \/ MachineCrash

Next ==
  \/ \E o \in Operators : (\E p \in Paths : Start(o, p)) \/ Step(o)
                          \/ ProcessCrash(o)
  \/ Environment

Spec == Init /\ [][Next]_vars

-----------------------------------------------------------------------------
(* Properties.                                                             *)

TypeOK ==
  /\ disk \in [Paths -> Journal \cup {NoFile, Partial}]
  /\ image \in [Paths -> SUBSET (Journal \cup {NoFile, Partial})]
  /\ pc \in [Operators -> Stopped \cup Working]
  /\ path \in [Operators -> Paths]
  /\ mem \in [Operators -> Journal]
  /\ goal \in [Operators -> Stopped \cup {"call"}]
  /\ starts \in [Operators -> Nat]
  /\ versions \in Seq(Version)
  /\ inflight \subseteq Paths
  /\ answer \in [Paths -> Answer]
  /\ calls \in [Paths -> Nat]
  /\ crashes \in 0..MaxCrashes

(* A journal that forbids a second call: "dispatching" or later.           *)
Blocks(content) ==
  content \notin {NoFile, Partial} /\ content.state # "prepared"

(* A "returned" journal, in any crash image, names the version its own     *)
(* call created, newer than the version its preflight saw: dispatch_create *)
(* _once takes a version from an accepted response only.                   *)
ReturnedNamesItsVersion ==
  \A p \in Paths : \A content \in image[p] :
    content \notin {NoFile, Partial} /\ content.state = "returned"
      => content.response \in PaidUnder(p) /\ content.response > content.prior

(* dispatch_create_once's "persist ambiguity before propagating failure":  *)
(* a command that reports success or KagglePushOutcomeAmbiguous leaves a   *)
(* durable journal that says the same.                                     *)
OutcomeIsDurable ==
  /\ TypeOK
  /\ \A o \in Operators :
       LET reported == [ok |-> "returned", ambiguous |-> "ambiguous"]
       IN  pc[o] \in DOMAIN reported =>
             /\ image[path[o]] = {disk[path[o]]}
             /\ Blocks(disk[path[o]])
             /\ disk[path[o]].state = reported[pc[o]]

(* The promise shared with RunOnce: at most one create call per journal    *)
(* path, behind a durable journal, and at most one version from it.        *)
Barrier == INSTANCE DispatchBarrier WITH
  armed <- {p \in Paths : \A content \in image[p] : Blocks(content)},
  effects <- [p \in Paths |-> Cardinality(PaidUnder(p))]

ImplementsBarrier == Barrier!BarrierSpec
=============================================================================
