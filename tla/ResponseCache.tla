---------------------------- MODULE ResponseCache ----------------------------
(***************************************************************************)
(* ResponseCacheAdapter (bench/engine/response_cache.py) around the hosted *)
(* adapter's bounded retries (bench/engine/adapters/hosted_black_box.py),  *)
(* as the sequential benchmark run of bench/engine/frozen_ladder.py calls  *)
(* it.  Several runs share one cache directory; each may fail or be killed *)
(* anywhere and be started again, which is what the cache is for.          *)
(***************************************************************************)
EXTENDS Naturals, Sequences, FiniteSets

CONSTANTS
  Workers,      \* processes that run the benchmark
  RequestCount, \* requests of a run; request k has cache key k
  NoFile,       \* no record in the cache
  Partial,      \* torn file of JournalStore; never here, files are replaced
  NoWorker,     \* the entry lock is free
  MaxRetries,   \* HostedBlackBoxAdapter.max_retries
  MaxStarts,    \* bound: how often a worker starts
  MaxCrashes    \* bound: machine crashes

VARIABLES
  disk, image,  \* the record of each key, and what a machine crash may leave
  lock,         \* the holder of each entry lock
  pc,           \* where each worker is
  outputs,      \* what its finished requests returned
  attempt,      \* failed attempts of the current request
  starts,       \* how often it was started
  sent,         \* history: provider requests sent for a key
  excused,      \* history: those whose answer no record holds any more
  served,       \* history: everything generate returned for a key
  crashes       \* machine crashes so far

(* _write_record makes the system calls of Replace, with no directory sync.*)
Keys == 1..RequestCount
INSTANCE JournalStore WITH Paths <- Keys, FreshParent <- {}

worker == <<pc, outputs, attempt, starts>>
history == <<sent, excused, served>>
vars == <<disk, image, lock, worker, history, crashes>>

Working == {"lock", "read", "send", "await", "write"}
Paying == {"await", "write"}
Stopped == {"idle", "done", "failed", "dead"}

ASSUME CacheAssumption ==
  /\ RequestCount \in Nat \ {0}
  /\ NoWorker \notin Workers
  /\ NoFile \notin Nat
  /\ MaxRetries \in Nat /\ MaxStarts \in Nat /\ MaxCrashes \in Nat

Init ==
  /\ StoreInit
  /\ lock = [k \in Keys |-> NoWorker]
  /\ pc = [w \in Workers |-> "idle"]
  /\ outputs = [w \in Workers |-> <<>>]
  /\ attempt = [w \in Workers |-> 0]
  /\ starts = [w \in Workers |-> 0]
  /\ sent = [k \in Keys |-> 0]
  /\ excused = [k \in Keys |-> 0]
  /\ served = [k \in Keys |-> {}]
  /\ crashes = 0

(* The request a worker is at.                                             *)
Key(w) == Len(outputs[w]) + 1
Goto(w, label) == pc' = [pc EXCEPT ![w] = label]
Unlock(k) == lock' = [lock EXCEPT ![k] = NoWorker]
Excuse(k) == excused' = [excused EXCEPT ![k] = @ + 1]

-----------------------------------------------------------------------------
Start(w) ==
  /\ pc[w] \in Stopped \ {"done"}
  /\ starts[w] < MaxStarts
  /\ starts' = [starts EXCEPT ![w] = @ + 1]
  /\ outputs' = [outputs EXCEPT ![w] = <<>>]
  /\ Goto(w, "lock")
  /\ UNCHANGED <<disk, image, lock, attempt, history, crashes>>

(* Mutated Lock: LOCK_SH.                                                  *)
SharedLock(w) ==
  /\ pc[w] = "lock"
  /\ lock' = [lock EXCEPT ![Key(w)] = w]
  /\ Goto(w, "read")
  /\ UNCHANGED <<disk, image, outputs, attempt, starts, history, crashes>>

(* _entry_lock: flock blocks until the lock is free.                       *)
Lock(w) ==
  /\ pc[w] = "lock"
  /\ lock[Key(w)] = NoWorker
  /\ lock' = [lock EXCEPT ![Key(w)] = w]
  /\ Goto(w, "read")
  /\ UNCHANGED <<disk, image, outputs, attempt, starts, history, crashes>>

(* generate returns; the run goes on with its next request.                *)
Return(w, text) ==
  /\ outputs' = [outputs EXCEPT ![w] = Append(@, text)]
  /\ served' = [served EXCEPT ![Key(w)] = @ \cup {text}]
  /\ Unlock(Key(w))
  /\ Goto(w, IF Key(w) = RequestCount THEN "done" ELSE "lock")

(* Mutated ReadHit: the hit is not returned.                               *)
HitIsRetried(w) ==
  /\ pc[w] = "read"
  /\ Exists(Key(w))
  /\ Unlock(Key(w))
  /\ Goto(w, "lock")
  /\ UNCHANGED <<disk, image, outputs, attempt, starts, history, crashes>>

ReadHit(w) ==
  /\ pc[w] = "read"
  /\ Exists(Key(w))
  /\ Return(w, disk[Key(w)])
  /\ UNCHANGED <<disk, image, attempt, starts, sent, excused, crashes>>

ReadMiss(w) ==
  /\ pc[w] = "read"
  /\ ~Exists(Key(w))
  /\ attempt' = [attempt EXCEPT ![w] = 0]
  /\ Goto(w, "send")
  /\ UNCHANGED <<disk, image, lock, outputs, starts, history, crashes>>

Send(w) ==
  /\ pc[w] = "send"
  /\ sent' = [sent EXCEPT ![Key(w)] = @ + 1]
  /\ Goto(w, "await")
  /\ UNCHANGED <<disk, image, lock, outputs, attempt, starts, excused, served, crashes>>

(* A usable response.                                                      *)
Answered(w) ==
  /\ pc[w] = "await"
  /\ Goto(w, "write")
  /\ UNCHANGED <<disk, image, lock, outputs, attempt, starts, history, crashes>>

(* A retryable status, a transport error or a timeout: the request is sent *)
(* again, although the provider may have answered it.                      *)
Retry(w) ==
  /\ pc[w] = "await"
  /\ attempt[w] < MaxRetries
  /\ attempt' = [attempt EXCEPT ![w] = @ + 1]
  /\ Excuse(Key(w))
  /\ Goto(w, "send")
  /\ UNCHANGED <<disk, image, lock, outputs, starts, sent, served, crashes>>

(* The request failed for good or its response is refused, or the record   *)
(* cannot be written: the exception ends the run and frees the lock.       *)
GenerateFails(w) ==
  /\ pc[w] \in Paying
  /\ Excuse(Key(w))
  /\ Unlock(Key(w))
  /\ Goto(w, "failed")
  /\ UNCHANGED <<disk, image, outputs, attempt, starts, sent, served, crashes>>

(* _write_record.  Every answer of the provider is different; the n-th one *)
(* for a key stands for its text.                                          *)
Write(w) ==
  /\ pc[w] = "write"
  /\ Replace(Key(w), sent[Key(w)])
  /\ Return(w, sent[Key(w)])
  /\ UNCHANGED <<attempt, starts, sent, excused, crashes>>

-----------------------------------------------------------------------------
(* Crashes.  The kernel frees the locks of a dead process.                 *)

Kill(w) ==
  /\ pc[w] \in Working
  /\ IF pc[w] \in Paying THEN Excuse(Key(w)) ELSE UNCHANGED excused
  /\ lock' = [k \in Keys |-> IF lock[k] = w THEN NoWorker ELSE lock[k]]
  /\ Goto(w, "dead")
  /\ UNCHANGED <<disk, image, outputs, attempt, starts, sent, served, crashes>>

(* A record whose directory entry was not yet durable may be gone.         *)
MachineCrash ==
  /\ crashes < MaxCrashes
  /\ crashes' = crashes + 1
  /\ LoseVolatile
  /\ excused' = [k \in Keys |->
       excused[k]
       + (IF disk[k] # disk'[k] THEN 1 ELSE 0)
       + Cardinality({w \in Workers : pc[w] \in Paying /\ Key(w) = k})]
  /\ lock' = [k \in Keys |-> NoWorker]
  /\ pc' = [w \in Workers |-> IF pc[w] \in Working THEN "dead" ELSE pc[w]]
  /\ UNCHANGED <<outputs, attempt, starts, sent, served>>

-----------------------------------------------------------------------------
Step(w) ==
  \/ Lock(w) \/ ReadHit(w) \/ ReadMiss(w) \/ Send(w)
  \/ Answered(w) \/ Retry(w) \/ GenerateFails(w) \/ Write(w)

Next ==
  \/ \E w \in Workers : Start(w) \/ Step(w) \/ Kill(w)
  \/ MachineCrash

(* A running process makes progress: every attempt has a timeout.          *)
Spec == Init /\ [][Next]_vars /\ \A w \in Workers : WF_vars(Step(w))

-----------------------------------------------------------------------------
(* Properties.                                                             *)

TypeOK ==
  /\ disk \in [Keys -> Nat \cup {NoFile}]
  /\ image \in [Keys -> SUBSET (Nat \cup {NoFile})]
  /\ lock \in [Keys -> Workers \cup {NoWorker}]
  /\ pc \in [Workers -> Working \cup Stopped]
  /\ \A w \in Workers :
       /\ outputs[w] \in Seq(Nat)
       /\ Len(outputs[w]) <= RequestCount
       /\ pc[w] \in Working => Len(outputs[w]) < RequestCount
  /\ attempt \in [Workers -> 0..MaxRetries]
  /\ starts \in [Workers -> 0..MaxStarts]
  /\ sent \in [Keys -> Nat] /\ excused \in [Keys -> Nat]
  /\ crashes \in 0..MaxCrashes

(* No provider request is wasted: of all requests ever sent for a key, by  *)
(* any run, one is recorded or under way and each other one failed, or its *)
(* answer was lost to a kill or a crash.                                   *)
PaidCallsAccounted ==
  /\ TypeOK
  /\ \A k \in Keys :
       sent[k] = excused[k]
                 + (IF Exists(k) \/ \E w \in Workers : pc[w] \in Paying /\ Key(w) = k
                    THEN 1 ELSE 0)

(* Everything any run was served for a request is what the cache holds for *)
(* it, so runs that share a cache see one answer however they fail, die    *)
(* and resume, as long as the machine does not crash.                      *)
OneAnswerPerRequest ==
  crashes = 0 => \A k \in Keys : served[k] \subseteq {disk[k]}

(* A run that is not killed ends, whoever holds the locks.                 *)
RunEnds == \A w \in Workers : pc[w] \in Working ~> pc[w] \in Stopped
=============================================================================
