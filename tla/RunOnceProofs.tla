---------------------------- MODULE RunOnceProofs ----------------------------
(***************************************************************************)
(* Type correctness of RunOnce and its main promise: a journal path pays   *)
(* for at most one call, and a call that was sent leaves a durable         *)
(* barrier; then the truth of the verdicts its journals carry.  All for    *)
(* any number of operators, paths, runs, starts and crashes.               *)
(***************************************************************************)
EXTENDS RunOnce, FiniteSetTheorems, TLAPS

(* The fields an action writes to the journal keep it a journal.           *)
LEMMA PreparedType ==
  ASSUME NEW before \in SUBSET Runs
  PROVE  Prepared(before) \in Journal
  BY DEF Prepared, Journal, States

LEMMA ObserveType ==
  ASSUME TypeOK, NEW o \in Operators, NEW failed \in BOOLEAN,
         NEW ids \in SUBSET Runs
  PROVE  Observe(o, failed, ids) \in Journal
  <1>1. [failed |-> failed, ids |-> ids] \in Observation
    BY DEF Observation
  <1>2. mem[o] \in Journal
    BY DEF TypeOK
  <1>3. Append(mem[o].observations, [failed |-> failed, ids |-> ids])
          \in Seq(Observation)
    BY <1>1, <1>2 DEF Journal
  <1> QED
    BY <1>2, <1>3 DEF Observe, Journal

(* The store operations keep disk and image typed.                         *)
LEMMA StoreType ==
  ASSUME TypeOK, NEW p \in Paths, NEW j \in Journal,
         \/ OpenExclusive(p)
         \/ FillAndSync(p, j)
         \/ FillFails(p, j)
         \/ Replace(p, j)
         \/ SyncDirectory(p)
         \/ LoseVolatile
         \/ UNCHANGED store
  PROVE  /\ disk' \in [Paths -> Journal \cup {NoFile, Partial}]
         /\ image' \in [Paths -> SUBSET (Journal \cup {NoFile, Partial})]
  <1> USE DEF TypeOK
  <1>1. CASE OpenExclusive(p)
    BY <1>1 DEF OpenExclusive
  <1>2. CASE FillAndSync(p, j)
    BY <1>2 DEF FillAndSync
  <1>3. CASE FillFails(p, j)
    BY <1>3 DEF FillFails
  <1>4. CASE Replace(p, j)
    BY <1>4 DEF Replace
  <1>5. CASE SyncDirectory(p)
    BY <1>5 DEF SyncDirectory
  <1>6. CASE LoseVolatile
    BY <1>6 DEF LoseVolatile
  <1>7. CASE UNCHANGED store
    BY <1>7 DEF store
  <1> QED
    BY <1>1, <1>2, <1>3, <1>4, <1>5, <1>6, <1>7

(* What each helper leaves of the operator variables.                      *)
LEMMA PersistType ==
  ASSUME TypeOK, NEW o \in Operators, NEW j \in Journal,
         NEW next \in Stopped \cup {"call", "reconcile"}, Persist(o, j, next)
  PROVE  /\ pc' \in [Operators -> Stopped \cup Working]
         /\ mem' \in [Operators -> Journal]
         /\ goal' \in [Operators -> Stopped \cup {"call", "reconcile"}]
  BY DEF TypeOK, Persist, Goto, Working

LEMMA ExitType ==
  ASSUME TypeOK, NEW o \in Operators, NEW label \in Stopped, Exit(o, label)
  PROVE  /\ pc' \in [Operators -> Stopped \cup Working]
         /\ mem' \in [Operators -> Journal]
         /\ goal' \in [Operators -> Stopped \cup {"call", "reconcile"}]
  <1>1. Prepared({}) \in Journal
    BY PreparedType
  <1> QED
    BY <1>1 DEF TypeOK, Exit, Goto, Stopped

(* A journal with some fields rewritten is a journal.                      *)
LEMMA RewriteType ==
  ASSUME NEW j \in Journal, NEW s \in States, NEW r \in Runs \cup {NoRun},
         NEW f \in BOOLEAN, NEW b \in Responses \cup {"none"}
  PROVE  /\ [j EXCEPT !.state = s] \in Journal
         /\ [j EXCEPT !.state = s, !.response = b] \in Journal
         /\ [j EXCEPT !.state = s, !.response = b, !.failure = f] \in Journal
         /\ [j EXCEPT !.state = s, !.responseFailure = f, !.failure = f] \in Journal
         /\ [j EXCEPT !.state = s, !.dispatchFailure = f, !.failure = f] \in Journal
         /\ [j EXCEPT !.state = s, !.run = r, !.failure = f] \in Journal
         /\ [j EXCEPT !.state = s, !.failure = f] \in Journal
  BY DEF Journal, Responses

(* The journals after the dispatch boundary.                               *)
Late == {j \in Journal : j.state # "prepared"}

LEMMA RewriteLate ==
  ASSUME NEW j \in Journal, NEW s \in States, s # "prepared",
         NEW r \in Runs \cup {NoRun},
         NEW f \in BOOLEAN, NEW b \in Responses \cup {"none"}
  PROVE  /\ [j EXCEPT !.state = s, !.response = b] \in Late
         /\ [j EXCEPT !.state = s, !.response = b, !.failure = f] \in Late
         /\ [j EXCEPT !.state = s, !.responseFailure = f, !.failure = f] \in Late
         /\ [j EXCEPT !.state = s, !.dispatchFailure = f, !.failure = f] \in Late
         /\ [j EXCEPT !.state = s, !.run = r, !.failure = f] \in Late
         /\ [j EXCEPT !.state = s, !.failure = f] \in Late
  BY DEF Journal, Responses, Late

LEMMA InitType == Init => TypeOK
  <1> SUFFICES ASSUME Init PROVE TypeOK
    OBVIOUS
  <1>1. Prepared({}) \in Journal
    BY PreparedType
  <1> QED
    BY <1>1, RunOnceAssumption
       DEF Init, StoreInit, TypeOK, Stopped

LEMMA StepType ==
  ASSUME TypeOK, NEW o \in Operators, Step(o)
  PROVE  TypeOK'
  <1>0. path[o] \in Paths /\ mem[o] \in Journal
    BY DEF TypeOK
  <1>1. CASE Preflight(o)
    <2>1. PICK ids \in SUBSET Runs : mem' = [mem EXCEPT ![o] = Prepared(ids)]
      BY <1>1 DEF Preflight
    <2>2. Prepared(ids) \in Journal
      BY PreparedType
    <2> QED
      BY <1>1, <2>1, <2>2 DEF Preflight, Goto, TypeOK, store, kaggle, Working
  <1>2. CASE PreflightFails(o)
    BY <1>2, ExitType DEF PreflightFails, TypeOK, store, kaggle, Stopped
  <1>3. CASE OpenJournal(o)
    <2>1. \/ OpenExclusive(path[o]) /\ Goto(o, "fill") /\ UNCHANGED <<mem, goal>>
          \/ Exit(o, "failed") /\ UNCHANGED store
      BY <1>3 DEF OpenJournal
    <2>2. UNCHANGED <<path, starts, kaggle, crashes>>
      BY <1>3 DEF OpenJournal
    <2>3. /\ disk' \in [Paths -> Journal \cup {NoFile, Partial}]
          /\ image' \in [Paths -> SUBSET (Journal \cup {NoFile, Partial})]
      BY <1>0, <2>1, StoreType
    <2> QED
      BY <2>1, <2>2, <2>3, ExitType DEF TypeOK, kaggle, Goto, Working, Stopped
  <1>4. CASE FillJournal(o)
    <2>1. \/ FillAndSync(path[o], mem[o]) /\ Goto(o, "syncNew")
             /\ UNCHANGED <<mem, goal>>
          \/ FillFails(path[o], mem[o]) /\ Exit(o, "failed")
      BY <1>4 DEF FillJournal
    <2>2. UNCHANGED <<path, starts, kaggle, crashes>>
      BY <1>4 DEF FillJournal
    <2>3. /\ disk' \in [Paths -> Journal \cup {NoFile, Partial}]
          /\ image' \in [Paths -> SUBSET (Journal \cup {NoFile, Partial})]
      BY <1>0, <2>1, StoreType
    <2> QED
      BY <2>1, <2>2, <2>3, ExitType DEF TypeOK, kaggle, Goto, Working, Stopped
  <1>5. CASE SyncNewJournal(o)
    <2>1. [mem[o] EXCEPT !.state = "dispatching"] \in Journal
      BY <1>0 DEF Journal, States
    <2>2. /\ disk' \in [Paths -> Journal \cup {NoFile, Partial}]
          /\ image' \in [Paths -> SUBSET (Journal \cup {NoFile, Partial})]
      BY <1>0, <1>5, StoreType DEF SyncNewJournal
    <2> QED
      BY <1>5, <2>1, <2>2, PersistType DEF SyncNewJournal, TypeOK, kaggle
  <1>6. CASE ReplaceJournal(o)
    <2>1. /\ disk' \in [Paths -> Journal \cup {NoFile, Partial}]
          /\ image' \in [Paths -> SUBSET (Journal \cup {NoFile, Partial})]
      BY <1>0, <1>6, StoreType DEF ReplaceJournal
    <2> QED
      BY <1>6, <2>1 DEF ReplaceJournal, TypeOK, kaggle, Goto, Working
  <1>7. CASE SyncJournal(o)
    <2>1. /\ disk' \in [Paths -> Journal \cup {NoFile, Partial}]
          /\ image' \in [Paths -> SUBSET (Journal \cup {NoFile, Partial})]
      BY <1>0, <1>7, StoreType DEF SyncJournal
    <2>2. UNCHANGED <<path, starts, kaggle, crashes>>
      BY <1>7 DEF SyncJournal
    <2>3. CASE goal[o] \in Stopped
      BY <1>7, <2>1, <2>2, <2>3, ExitType DEF SyncJournal, TypeOK, kaggle
    <2>4. CASE goal[o] \notin Stopped
      BY <1>7, <2>1, <2>2, <2>4 DEF SyncJournal, TypeOK, kaggle, Goto, Working
    <2> QED
      BY <2>3, <2>4
  <1>8. CASE JournalWriteFails(o)
    BY <1>8, ExitType DEF JournalWriteFails, TypeOK, store, kaggle, Stopped
  <1>9. CASE Call(o)
    BY <1>0, <1>9 DEF Call, Goto, TypeOK, store, Working
  <1>10. CASE Returned(o)
    <2>1. UNCHANGED <<store, path, starts, kaggle, crashes>>
      BY <1>10 DEF Returned
    <2>2. \E j \in Journal, next \in {"reconcile", "failed"} : Persist(o, j, next)
      BY <1>0, <1>10, RewriteType DEF Returned, Responses, States
    <2> QED
      BY <2>1, <2>2, PersistType DEF TypeOK, store, kaggle, Stopped
  <1>11. CASE Raised(o)
    <2>1. [mem[o] EXCEPT !.state = "ambiguous", !.dispatchFailure = TRUE,
                         !.failure = TRUE] \in Journal
      BY <1>0, RewriteType DEF States
    <2> QED
      BY <1>11, <2>1, PersistType DEF Raised, TypeOK, store, kaggle, Stopped
  <1>12. CASE ListingFails(o)
    <2>1. Observe(o, TRUE, {}) \in Journal
      BY ObserveType
    <2> QED
      BY <1>12, <2>1 DEF ListingFails, TypeOK, store, kaggle
  <1>13. CASE NothingNew(o)
    <2>1. Observe(o, FALSE, mem[o].before) \in Journal
      BY <1>0, ObserveType DEF Journal
    <2> QED
      BY <1>13, <2>1 DEF NothingNew, TypeOK, store, kaggle
  <1>14. CASE SomethingNew(o)
    <2>1. UNCHANGED <<store, path, starts, kaggle, crashes>>
      BY <1>14 DEF SomethingNew
    <2>2. PICK ids \in SUBSET Runs :
            \/ MismatchAfter(o, Observe(o, FALSE, ids))
            \/ \E r \in Runs : BoundAfter(o, Observe(o, FALSE, ids), r)
      BY <1>14 DEF SomethingNew
    <2>3. Observe(o, FALSE, ids) \in Journal
      BY ObserveType
    <2>4. \E j \in Journal, next \in {"ambiguous", "ok"} : Persist(o, j, next)
      BY <2>2, <2>3, RewriteType DEF MismatchAfter, BoundAfter, States
    <2> QED
      BY <2>1, <2>4, PersistType DEF TypeOK, store, kaggle, Stopped
  <1>15. CASE Exhausted(o)
    <2>1. [mem[o] EXCEPT !.state = "ambiguous", !.failure = TRUE] \in Journal
      BY <1>0, RewriteType DEF States
    <2> QED
      BY <1>15, <2>1, PersistType DEF Exhausted, TypeOK, store, kaggle, Stopped
  <1> QED
    BY <1>1, <1>2, <1>3, <1>4, <1>5, <1>6, <1>7, <1>8, <1>9, <1>10, <1>11,
       <1>12, <1>13, <1>14, <1>15 DEF Step

LEMMA EnvironmentType ==
  ASSUME TypeOK, Environment
  PROVE  TypeOK'
  <1>1. CASE \E p \in Paths : KaggleSchedules(p)
    BY <1>1 DEF KaggleSchedules, Responses, TypeOK, Run, store, operator
  <1>2. CASE \E p \in Paths : KaggleDeclines(p)
    BY <1>2 DEF KaggleDeclines, Responses, TypeOK, store, operator
  <1>3. CASE \E r \in Runs : \E m \in Models : ForeignRun(r, m)
    BY <1>3 DEF ForeignRun, TypeOK, Run, store, operator
  <1>4. CASE \E r \in Runs : RunEnds(r)
    <2>1. PICK r \in Runs : RunEnds(r)
      BY <1>4
    <2>2. made[r] \in Run
      BY <2>1 DEF RunEnds, Made, TypeOK
    <2>3. [made[r] EXCEPT !.terminal = TRUE] \in Run
      BY <2>2 DEF Run
    <2>4. made' = [made EXCEPT ![r] = [made[r] EXCEPT !.terminal = TRUE]]
      BY <2>1 DEF RunEnds
    <2> QED
      BY <2>1, <2>3, <2>4 DEF RunEnds, TypeOK, store, operator
  <1>5. CASE MachineCrash
    <2>1. /\ disk' \in [Paths -> Journal \cup {NoFile, Partial}]
          /\ image' \in [Paths -> SUBSET (Journal \cup {NoFile, Partial})]
      BY <1>5 DEF MachineCrash, LoseVolatile, TypeOK
    <2>2. Prepared({}) \in Journal
      BY PreparedType
    <2>3. crashes' \in 0..MaxCrashes
      BY <1>5, RunOnceAssumption DEF MachineCrash, TypeOK
    <2> QED
      BY <1>5, <2>1, <2>2, <2>3 DEF MachineCrash, TypeOK, kaggle, Stopped
  <1> QED
    BY <1>1, <1>2, <1>3, <1>4, <1>5 DEF Environment

LEMMA NextType == TypeOK /\ [Next]_vars => TypeOK'
  <1> SUFFICES ASSUME TypeOK, [Next]_vars PROVE TypeOK'
    OBVIOUS
  <1>1. ASSUME NEW o \in Operators, NEW p \in Paths, Start(o, p)
        PROVE  TypeOK'
    BY <1>1 DEF Start, TypeOK, Goto, store, kaggle, Stopped, Working
  <1>2. ASSUME NEW o \in Operators, Step(o)
        PROVE  TypeOK'
    BY <1>2, StepType
  <1>3. ASSUME NEW o \in Operators, ProcessCrash(o)
        PROVE  TypeOK'
    BY <1>3, ExitType DEF ProcessCrash, TypeOK, store, kaggle, Stopped
  <1>4. CASE Environment
    BY <1>4, EnvironmentType
  <1>5. CASE UNCHANGED vars
    BY <1>5 DEF vars, store, operator, kaggle, TypeOK
  <1> QED
    BY <1>1, <1>2, <1>3, <1>4, <1>5 DEF Next

(* Every variable keeps its type.                                          *)
THEOREM TypeCorrect == Spec => []TypeOK
  BY InitType, NextType, PTL DEF Spec

-----------------------------------------------------------------------------
(* The inductive invariant.  A process owns its path from the exclusive    *)
(* open on; owners are exclusive; until the owner calls, no call was sent; *)
(* from "call" on the path is blocked in every image.                      *)

Owner == {"fill", "syncNew", "replace", "sync", "call", "await", "reconcile"}

BeforeCall(o) ==
  \/ pc[o] \in {"fill", "syncNew", "call"}
  \/ pc[o] \in {"replace", "sync"} /\ goal[o] = "call"

OwnersExclusive ==
  \A o1, o2 \in Operators :
    pc[o1] \in Owner /\ pc[o2] \in Owner /\ path[o1] = path[o2] => o1 = o2

OwnedExists == \A o \in Operators : pc[o] \in Owner => Exists(path[o])

NotYetCalled == \A o \in Operators : BeforeCall(o) => calls[path[o]] = 0

WritesBlock ==
  \A o \in Operators :
    /\ pc[o] \in {"replace", "sync"} => mem[o].state # "prepared"
    /\ pc[o] = "sync" => disk[path[o]] = mem[o]
    /\ pc[o] = "call" => \A content \in image[path[o]] : Blocks(content)

DiskInImage == \A p \in Paths : disk[p] \in image[p]

BarrierInv ==
  /\ OwnersExclusive
  /\ OwnedExists
  /\ NotYetCalled
  /\ WritesBlock
  /\ DiskInImage
  /\ AtMostOneCall
  /\ BarrierDurable

LEMMA InitBarrier == Init => BarrierInv
  BY DEF Init, StoreInit, BarrierInv, OwnersExclusive, OwnedExists, NotYetCalled,
         BeforeCall, WritesBlock, DiskInImage, AtMostOneCall, BarrierDurable, Owner

(* Steps that neither write the store nor send a call, and after which the *)
(* process owns its path only if it did before, preserve the invariant.    *)
LEMMA QuietStep ==
  ASSUME TypeOK, BarrierInv, NEW o \in Operators,
         UNCHANGED <<store, calls>>,
         \A q \in Operators : q # o => /\ pc'[q] = pc[q] /\ path'[q] = path[q]
                                      /\ mem'[q] = mem[q] /\ goal'[q] = goal[q],
         \/ pc'[o] \notin Owner
         \/ pc[o] \in Owner /\ path'[o] = path[o] /\ pc'[o] = "reconcile"
         \/ /\ pc[o] \in Owner /\ path'[o] = path[o] /\ pc'[o] = "replace"
            /\ mem'[o].state # "prepared"
            /\ goal'[o] = "call" => calls[path[o]] = 0
  PROVE  BarrierInv'
  <1> USE DEF BarrierInv, store, Owner
  <1>1. OwnersExclusive'
    BY DEF OwnersExclusive
  <1>2. OwnedExists'
    BY DEF OwnedExists, Exists
  <1>3. NotYetCalled'
    BY DEF NotYetCalled, BeforeCall
  <1>4. WritesBlock'
    BY DEF WritesBlock
  <1>5. DiskInImage' /\ AtMostOneCall' /\ BarrierDurable'
    BY DEF DiskInImage, AtMostOneCall, BarrierDurable
  <1> QED
    BY <1>1, <1>2, <1>3, <1>4, <1>5

(* A journal in a state later than "prepared" blocks.                      *)
LEMMA LaterBlocks ==
  ASSUME NEW j \in Journal, j.state # "prepared"
  PROVE  Blocks(j)
  BY RunOnceAssumption DEF Blocks

LEMMA StepBarrier ==
  ASSUME FreshParent = {}, TypeOK, BarrierInv, NEW o \in Operators, Step(o)
  PROVE  BarrierInv'
  <1>0. path[o] \in Paths /\ mem[o] \in Journal
    BY DEF TypeOK
  <1>1. CASE Preflight(o)
    BY <1>1, QuietStep DEF Preflight, Goto, kaggle, TypeOK, Owner
  <1>2. CASE PreflightFails(o)
    BY <1>2, QuietStep DEF PreflightFails, Exit, Goto, kaggle, TypeOK, Owner
  <1>3. CASE OpenJournal(o)
    <2>1. CASE Exit(o, "failed") /\ UNCHANGED store
      BY <1>3, <2>1, QuietStep DEF OpenJournal, Exit, Goto, kaggle, TypeOK, Owner
    <2>2. CASE OpenExclusive(path[o]) /\ Goto(o, "fill") /\ UNCHANGED <<mem, goal>>
      <3>1. UNCHANGED <<path, mem, goal, calls>> /\ pc' = [pc EXCEPT ![o] = "fill"]
        BY <1>3, <2>2 DEF OpenJournal, kaggle, Goto
      <3>2. /\ disk[path[o]] = NoFile
            /\ disk' = [disk EXCEPT ![path[o]] = Partial]
            /\ image' = [image EXCEPT ![path[o]] = image[path[o]] \cup {Partial}]
        BY <2>2 DEF OpenExclusive, Exists
      <3>3. calls[path[o]] = 0
        BY <1>0, <3>2 DEF BarrierInv, DiskInImage, BarrierDurable, Blocks, TypeOK
      <3>4. \A q \in Operators : pc[q] \in Owner => path[q] # path[o]
        BY <3>2 DEF BarrierInv, OwnedExists, Exists
      <3>5. OwnersExclusive' /\ OwnedExists'
        BY <1>0, <3>1, <3>2, <3>4, StoreAssumption
           DEF BarrierInv, OwnersExclusive, OwnedExists, Exists, Owner, TypeOK
      <3>6. NotYetCalled'
        BY <3>1, <3>3 DEF BarrierInv, NotYetCalled, BeforeCall, TypeOK
      <3>7. WritesBlock'
        BY <1>0, <3>1, <3>2, <3>4 DEF BarrierInv, WritesBlock, Owner, TypeOK
      <3>8. DiskInImage' /\ AtMostOneCall' /\ BarrierDurable'
        BY <1>0, <3>1, <3>2, <3>3
           DEF BarrierInv, DiskInImage, AtMostOneCall, BarrierDurable, TypeOK
      <3> QED
        BY <3>5, <3>6, <3>7, <3>8 DEF BarrierInv
    <2> QED
      BY <1>3, <2>1, <2>2 DEF OpenJournal
  <1>4. CASE FillJournal(o)
    <2>1. UNCHANGED <<path, calls>> /\ pc[o] = "fill"
      BY <1>4 DEF FillJournal, kaggle
    <2>2. calls[path[o]] = 0
      BY <2>1 DEF BarrierInv, NotYetCalled, BeforeCall
    <2>3. PICK left \in Journal \cup {Partial} :
            /\ left # NoFile
            /\ disk' = [disk EXCEPT ![path[o]] = left]
            /\ \E kept \in SUBSET image[path[o]] :
                 image' = [image EXCEPT ![path[o]] = kept \cup {left}]
      BY <1>0, <1>4, RunOnceAssumption, StoreAssumption
         DEF FillJournal, FillAndSync, FillFails
    <2>4. /\ pc'[o] \in {"syncNew", "failed"}
          /\ \A q \in Operators : q # o => /\ pc'[q] = pc[q]
                                          /\ mem'[q] = mem[q] /\ goal'[q] = goal[q]
      BY <1>4 DEF FillJournal, Goto, Exit, TypeOK
    <2>5. \A q \in Operators : q # o /\ pc[q] \in Owner => path[q] # path[o]
      BY <2>1 DEF BarrierInv, OwnersExclusive, Owner
    <2>6. OwnersExclusive' /\ OwnedExists'
      BY <1>0, <2>1, <2>3, <2>4
         DEF BarrierInv, OwnersExclusive, OwnedExists, Exists, Owner, TypeOK
    <2>7. NotYetCalled'
      BY <2>1, <2>2, <2>4 DEF BarrierInv, NotYetCalled, BeforeCall
    <2>8. WritesBlock'
      BY <1>0, <2>1, <2>3, <2>4, <2>5 DEF BarrierInv, WritesBlock, Owner, TypeOK
    <2>9. DiskInImage' /\ AtMostOneCall' /\ BarrierDurable'
      BY <1>0, <2>1, <2>2, <2>3
         DEF BarrierInv, DiskInImage, AtMostOneCall, BarrierDurable, TypeOK
    <2> QED
      BY <2>6, <2>7, <2>8, <2>9 DEF BarrierInv
  <1>5. CASE SyncNewJournal(o)
    <2>1. /\ UNCHANGED <<path, calls, disk>> /\ pc[o] = "syncNew"
          /\ pc' = [pc EXCEPT ![o] = "replace"]
          /\ goal' = [goal EXCEPT ![o] = "call"]
          /\ mem' = [mem EXCEPT ![o] = [mem[o] EXCEPT !.state = "dispatching"]]
      BY <1>5 DEF SyncNewJournal, kaggle, SyncDirectory, Persist, Goto
    <2>2. calls[path[o]] = 0
      BY <2>1 DEF BarrierInv, NotYetCalled, BeforeCall
    <2>3. image' = [image EXCEPT ![path[o]] = {disk[path[o]]}]
      BY <1>5 DEF SyncNewJournal, SyncDirectory
    <2>4. mem'[o].state = "dispatching"
      BY <1>0, <2>1 DEF Journal, TypeOK
    <2>5. OwnersExclusive' /\ OwnedExists'
      BY <2>1 DEF BarrierInv, OwnersExclusive, OwnedExists, Exists, Owner, TypeOK
    <2>6. NotYetCalled'
      BY <2>1, <2>2 DEF BarrierInv, NotYetCalled, BeforeCall, TypeOK
    <2>7. WritesBlock'
      BY <1>0, <2>1, <2>3, <2>4
         DEF BarrierInv, WritesBlock, OwnersExclusive, Owner, TypeOK
    <2>8. DiskInImage' /\ AtMostOneCall' /\ BarrierDurable'
      BY <1>0, <2>1, <2>2, <2>3
         DEF BarrierInv, DiskInImage, AtMostOneCall, BarrierDurable, TypeOK
    <2> QED
      BY <2>5, <2>6, <2>7, <2>8 DEF BarrierInv
  <1>6. CASE ReplaceJournal(o)
    <2>1. /\ UNCHANGED <<path, mem, goal, calls>> /\ pc[o] = "replace"
          /\ pc' = [pc EXCEPT ![o] = "sync"]
          /\ disk' = [disk EXCEPT ![path[o]] = mem[o]]
          /\ image' = [image EXCEPT ![path[o]] = image[path[o]] \cup {mem[o]}]
      BY <1>6 DEF ReplaceJournal, kaggle, Goto, Replace
    <2>2. Blocks(mem[o]) /\ mem[o] # NoFile
      BY <1>0, <2>1, LaterBlocks DEF BarrierInv, WritesBlock, Blocks
    <2>3. \A q \in Operators : q # o /\ pc[q] \in Owner => path[q] # path[o]
      BY <2>1 DEF BarrierInv, OwnersExclusive, Owner
    <2>4. OwnersExclusive' /\ OwnedExists'
      BY <1>0, <2>1, <2>2
         DEF BarrierInv, OwnersExclusive, OwnedExists, Exists, Owner, TypeOK
    <2>5. NotYetCalled'
      BY <2>1 DEF BarrierInv, NotYetCalled, BeforeCall, TypeOK
    <2>6. WritesBlock'
      BY <1>0, <2>1, <2>2, <2>3 DEF BarrierInv, WritesBlock, Owner, TypeOK
    <2>7. DiskInImage' /\ AtMostOneCall' /\ BarrierDurable'
      BY <1>0, <2>1, <2>2
         DEF BarrierInv, DiskInImage, AtMostOneCall, BarrierDurable, TypeOK
    <2> QED
      BY <2>4, <2>5, <2>6, <2>7 DEF BarrierInv
  <1>7. CASE SyncJournal(o)
    <2>1. /\ UNCHANGED <<path, calls, disk>> /\ pc[o] = "sync"
          /\ pc' = [pc EXCEPT ![o] = goal[o]]
          /\ goal[o] \in Stopped \cup {"call", "reconcile"}
          /\ \A q \in Operators : q # o => mem'[q] = mem[q] /\ goal'[q] = goal[q]
      BY <1>7 DEF SyncJournal, kaggle, SyncDirectory, Exit, Goto, TypeOK
    <2>2. image' = [image EXCEPT ![path[o]] = {disk[path[o]]}]
      BY <1>7 DEF SyncJournal, SyncDirectory
    <2>3. disk[path[o]] = mem[o] /\ Blocks(mem[o])
      BY <1>0, <2>1, LaterBlocks DEF BarrierInv, WritesBlock
    <2>4. OwnersExclusive' /\ OwnedExists'
      BY <2>1 DEF BarrierInv, OwnersExclusive, OwnedExists, Exists, Owner, TypeOK
    <2>5. NotYetCalled'
      BY <2>1 DEF BarrierInv, NotYetCalled, BeforeCall, TypeOK, Stopped
    <2>6. WritesBlock'
      BY <1>0, <2>1, <2>2, <2>3
         DEF BarrierInv, WritesBlock, OwnersExclusive, Owner, TypeOK, Stopped
    <2>7. DiskInImage' /\ AtMostOneCall' /\ BarrierDurable'
      BY <1>0, <2>1, <2>2, <2>3
         DEF BarrierInv, DiskInImage, AtMostOneCall, BarrierDurable, TypeOK
    <2> QED
      BY <2>4, <2>5, <2>6, <2>7 DEF BarrierInv
  <1>8. CASE JournalWriteFails(o)
    BY <1>8, QuietStep DEF JournalWriteFails, Exit, Goto, kaggle, TypeOK, Owner
  <1>9. CASE Call(o)
    <2>1. /\ UNCHANGED <<store, path, mem, goal>> /\ pc[o] = "call"
          /\ pc' = [pc EXCEPT ![o] = "await"]
          /\ calls' = [calls EXCEPT ![path[o]] = calls[path[o]] + 1]
      BY <1>9 DEF Call, Goto
    <2>2. calls[path[o]] = 0 /\ \A content \in image[path[o]] : Blocks(content)
      BY <2>1 DEF BarrierInv, NotYetCalled, BeforeCall, WritesBlock
    <2>3. OwnersExclusive' /\ OwnedExists'
      BY <2>1 DEF BarrierInv, OwnersExclusive, OwnedExists, Exists, Owner, TypeOK, store
    <2>4. NotYetCalled'
      BY <1>0, <2>1
         DEF BarrierInv, NotYetCalled, BeforeCall, OwnersExclusive, Owner, TypeOK
    <2>5. WritesBlock' /\ DiskInImage'
      BY <2>1 DEF BarrierInv, WritesBlock, DiskInImage, TypeOK, store
    <2>6. AtMostOneCall' /\ BarrierDurable'
      BY <1>0, <2>1, <2>2
         DEF BarrierInv, AtMostOneCall, BarrierDurable, TypeOK, store
    <2> QED
      BY <2>3, <2>4, <2>5, <2>6 DEF BarrierInv
  <1>10. ASSUME NEW j \in Late, NEW next \in Stopped \cup {"reconcile"},
                pc[o] \in {"await", "reconcile"}, Persist(o, j, next),
                UNCHANGED <<store, path, calls>>
         PROVE  BarrierInv'
    BY <1>10, QuietStep DEF Persist, Goto, TypeOK, Owner, Stopped, Late
  <1>11. CASE Returned(o)
    <2>1. \E j \in Late, next \in {"reconcile", "failed"} : Persist(o, j, next)
      BY <1>0, <1>11, RewriteLate DEF Returned, Responses, States
    <2> QED
      BY <1>11, <1>10, <2>1 DEF Returned, kaggle, Stopped
  <1>12. CASE Raised(o)
    <2>1. \E j \in Late, next \in {"reconcile", "failed"} : Persist(o, j, next)
      BY <1>0, <1>12, RewriteLate DEF Raised, States
    <2> QED
      BY <1>12, <1>10, <2>1 DEF Raised, kaggle, Stopped
  <1>13. CASE ListingFails(o) \/ NothingNew(o)
    BY <1>13, QuietStep DEF ListingFails, NothingNew, kaggle, TypeOK, Owner
  <1>14. CASE SomethingNew(o)
    <2>1. PICK ids \in SUBSET Runs :
            \/ MismatchAfter(o, Observe(o, FALSE, ids))
            \/ \E r \in Runs : BoundAfter(o, Observe(o, FALSE, ids), r)
      BY <1>14 DEF SomethingNew
    <2>2. Observe(o, FALSE, ids) \in Journal
      BY ObserveType
    <2>3. \E j \in Late, next \in {"ambiguous", "ok"} : Persist(o, j, next)
      BY <2>1, <2>2, RewriteLate
         DEF MismatchAfter, BoundAfter, States
    <2> QED
      BY <1>14, <1>10, <2>3 DEF SomethingNew, kaggle, Stopped
  <1>15. CASE Exhausted(o)
    <2>1. \E j \in Late : Persist(o, j, "ambiguous")
      BY <1>0, <1>15, RewriteLate DEF Exhausted, States
    <2> QED
      BY <1>15, <1>10, <2>1 DEF Exhausted, kaggle, Stopped
  <1> QED
    BY <1>1, <1>2, <1>3, <1>4, <1>5, <1>6, <1>7, <1>8, <1>9, <1>11, <1>12,
       <1>13, <1>14, <1>15 DEF Step

LEMMA NextBarrier ==
  ASSUME FreshParent = {}
  PROVE  TypeOK /\ BarrierInv /\ [Next]_vars => BarrierInv'
  <1> SUFFICES ASSUME TypeOK, BarrierInv, [Next]_vars PROVE BarrierInv'
    OBVIOUS
  <1>1. ASSUME NEW o \in Operators, NEW p \in Paths, Start(o, p)
        PROVE  BarrierInv'
    BY <1>1, QuietStep DEF Start, Goto, kaggle, TypeOK, Owner
  <1>2. ASSUME NEW o \in Operators, Step(o)
        PROVE  BarrierInv'
    BY <1>2, StepBarrier
  <1>3. ASSUME NEW o \in Operators, ProcessCrash(o)
        PROVE  BarrierInv'
    BY <1>3, QuietStep DEF ProcessCrash, Exit, Goto, kaggle, TypeOK, Owner
  <1>4. CASE MachineCrash
    <2>1. \A o \in Operators : pc'[o] \notin Owner
      BY <1>4 DEF MachineCrash, Working, Stopped, Owner, TypeOK
    <2>2. /\ \A p \in Paths : disk'[p] \in image[p] /\ image'[p] = {disk'[p]}
          /\ UNCHANGED calls
      BY <1>4 DEF MachineCrash, LoseVolatile, kaggle
    <2> QED
      BY <2>1, <2>2
         DEF BarrierInv, OwnersExclusive, OwnedExists, NotYetCalled, BeforeCall,
             WritesBlock, DiskInImage, AtMostOneCall, BarrierDurable, Owner
  <1>5. CASE UNCHANGED <<store, operator, calls>>
    BY <1>5 DEF BarrierInv, OwnersExclusive, OwnedExists, NotYetCalled, BeforeCall,
                WritesBlock, DiskInImage, AtMostOneCall, BarrierDurable, Exists,
                store, operator
  <1>6. CASE Environment
    BY <1>4, <1>5, <1>6 DEF Environment, KaggleSchedules, KaggleDeclines,
                            ForeignRun, RunEnds
  <1> QED
    BY <1>1, <1>2, <1>3, <1>5, <1>6 DEF Next, vars, kaggle

LEMMA BarrierInvariant ==
  ASSUME FreshParent = {}
  PROVE  Spec => []BarrierInv
  <1>1. TypeOK /\ BarrierInv /\ [Next]_vars => BarrierInv'
    BY NextBarrier
  <1> QED
    BY <1>1, InitBarrier, TypeCorrect, PTL DEF Spec

(* At most one paid call per journal path, whatever the number of          *)
(* operators, starts and crashes, when the journal directories existed.    *)
THEOREM AtMostOneCallProved ==
  ASSUME FreshParent = {}
  PROVE  Spec => []AtMostOneCall
  <1>1. BarrierInv => AtMostOneCall
    BY DEF BarrierInv
  <1> QED
    BY <1>1, BarrierInvariant, PTL

(* A sent call leaves a journal that blocks a retry in every crash image.  *)
THEOREM BarrierDurableProved ==
  ASSUME FreshParent = {}
  PROVE  Spec => []BarrierDurable
  <1>1. BarrierInv => BarrierDurable
    BY DEF BarrierInv
  <1> QED
    BY <1>1, BarrierInvariant, PTL

-----------------------------------------------------------------------------
(* RunOnce implements DispatchBarrier: at most one run is paid for under a *)
(* path, because a request is handled at most once.                        *)

RunsInv ==
  /\ \A p \in inflight : calls[p] > 0 /\ PaidUnder(p) = {}
  /\ \A p \in Paths : PaidUnder(p) # {} => calls[p] > 0
  /\ \A p \in Paths : \A r, s \in PaidUnder(p) : r = s

LEMMA InitRuns == Init => RunsInv
  BY DEF Init, RunsInv, PaidUnder, Made

LEMMA NextRuns == TypeOK /\ BarrierInv /\ RunsInv /\ [Next]_vars => RunsInv'
  <1> SUFFICES ASSUME TypeOK, BarrierInv, RunsInv, [Next]_vars PROVE RunsInv'
    OBVIOUS
  <1>1. CASE UNCHANGED kaggle
    BY <1>1 DEF RunsInv, PaidUnder, Made, kaggle
  <1>2. ASSUME NEW o \in Operators, Call(o)
        PROVE  RunsInv'
    <2>1. pc[o] = "call" /\ path[o] \in Paths /\ calls[path[o]] = 0
      BY <1>2 DEF Call, TypeOK, BarrierInv, NotYetCalled, BeforeCall
    <2>2. PaidUnder(path[o]) = {}
      BY <2>1 DEF RunsInv
    <2>3. /\ made' = made
          /\ inflight' = inflight \cup {path[o]}
          /\ calls' = [calls EXCEPT ![path[o]] = calls[path[o]] + 1]
      BY <1>2 DEF Call
    <2>4. \A p \in Paths : PaidUnder(p)' = PaidUnder(p)
      BY <2>3 DEF PaidUnder, Made
    <2>5. \A p \in Paths : calls[p] > 0 => calls'[p] > 0
      BY <2>1, <2>3 DEF TypeOK
    <2>6. calls'[path[o]] > 0
      BY <2>1, <2>3 DEF TypeOK
    <2>7. inflight \subseteq Paths
      BY DEF TypeOK
    <2> QED
      BY <2>1, <2>2, <2>3, <2>4, <2>5, <2>6, <2>7 DEF RunsInv
  <1>3. ASSUME NEW p \in Paths, KaggleSchedules(p)
        PROVE  RunsInv'
    <2>1. PICK r \in Runs \ Made, m \in Models :
            made' = [made EXCEPT ![r] = [model |-> m, payer |-> p, terminal |-> FALSE]]
      BY <1>3 DEF KaggleSchedules
    <2>2. p \in inflight /\ inflight' = inflight \ {p} /\ calls' = calls
      BY <1>3 DEF KaggleSchedules
    <2>3. [model |-> m, payer |-> p, terminal |-> FALSE] # NoRun
      <3>1. [model |-> m, payer |-> p, terminal |-> FALSE] \in Run
        BY DEF Run
      <3> QED
        BY <3>1, RunOnceAssumption
    <2>4. \A q \in Paths : PaidUnder(q)' = IF q = p THEN PaidUnder(p) \cup {r}
                                                   ELSE PaidUnder(q)
      BY <2>1, <2>3 DEF PaidUnder, Made, TypeOK
    <2>5. calls[p] > 0 /\ PaidUnder(p) = {}
      BY <2>2 DEF RunsInv
    <2>6. inflight \subseteq Paths
      BY DEF TypeOK
    <2> QED
      BY <2>2, <2>4, <2>5, <2>6 DEF RunsInv
  <1>4. ASSUME UNCHANGED calls, inflight' \subseteq inflight, inflight \subseteq Paths,
               \A p \in Paths : PaidUnder(p)' = PaidUnder(p)
        PROVE  RunsInv'
    BY <1>4 DEF RunsInv
  <1>5. ASSUME NEW p \in Paths, KaggleDeclines(p)
        PROVE  RunsInv'
    <2>1. made' = made /\ calls' = calls /\ inflight' = inflight \ {p}
      BY <1>5 DEF KaggleDeclines
    <2> QED
      BY <1>4, <2>1 DEF PaidUnder, Made, TypeOK
  <1>6. ASSUME NEW r \in Runs, NEW m \in Models, ForeignRun(r, m)
        PROVE  RunsInv'
    <2>1. /\ made[r] = NoRun /\ UNCHANGED <<inflight, calls>>
          /\ made' = [made EXCEPT ![r] = [model |-> m, payer |-> Foreign,
                                          terminal |-> FALSE]]
      BY <1>6 DEF ForeignRun
    <2>2. \A p \in Paths : PaidUnder(p)' = PaidUnder(p)
      BY <2>1, RunOnceAssumption DEF PaidUnder, Made, TypeOK
    <2> QED
      BY <1>4, <2>1, <2>2 DEF TypeOK
  <1>7. ASSUME NEW r \in Runs, RunEnds(r)
        PROVE  RunsInv'
    <2>1. made[r] \in Run /\ UNCHANGED <<inflight, calls>>
      BY <1>7 DEF RunEnds, Made, TypeOK
    <2>2. made' = [made EXCEPT ![r] = [made[r] EXCEPT !.terminal = TRUE]]
      BY <1>7 DEF RunEnds
    <2>3. /\ [made[r] EXCEPT !.terminal = TRUE] \in Run
          /\ [made[r] EXCEPT !.terminal = TRUE].payer = made[r].payer
      BY <2>1 DEF Run
    <2>4. made[r] # NoRun /\ [made[r] EXCEPT !.terminal = TRUE] # NoRun
      BY <1>7, <2>3, RunOnceAssumption DEF RunEnds, Made
    <2>5. \A p \in Paths : PaidUnder(p)' = PaidUnder(p)
      BY <2>2, <2>3, <2>4 DEF PaidUnder, Made, TypeOK
    <2> QED
      BY <1>4, <2>1, <2>5 DEF TypeOK
  <1>8. ASSUME NEW o \in Operators, Step(o), ~Call(o)
        PROVE  UNCHANGED kaggle
    BY <1>8 DEF Step, Preflight, PreflightFails, OpenJournal, FillJournal,
                SyncNewJournal, ReplaceJournal, SyncJournal, JournalWriteFails,
                Returned, Raised, ListingFails, NothingNew, SomethingNew, Exhausted
  <1>9. ASSUME NEW o \in Operators,
               ProcessCrash(o) \/ \E p \in Paths : Start(o, p)
        PROVE  UNCHANGED kaggle
    BY <1>9 DEF ProcessCrash, Start
  <1>10. CASE Environment
    <2>1. MachineCrash => UNCHANGED kaggle
      BY DEF MachineCrash
    <2> QED
      BY <1>1, <1>3, <1>5, <1>6, <1>7, <1>10, <2>1 DEF Environment
  <1>11. CASE UNCHANGED vars
    BY <1>1, <1>11 DEF vars
  <1> QED
    BY <1>1, <1>2, <1>8, <1>9, <1>10, <1>11 DEF Next

LEMMA RunsInvariant ==
  ASSUME FreshParent = {}
  PROVE  Spec => [](TypeOK /\ BarrierInv /\ RunsInv)
  <1>1. TypeOK /\ BarrierInv /\ RunsInv /\ [Next]_vars => RunsInv'
    BY NextRuns
  <1> QED
    BY <1>1, InitRuns, BarrierInvariant, TypeCorrect, PTL DEF Spec

(* How many runs a path paid for, as the refinement counts them.           *)
LEMMA PaidCount ==
  ASSUME RunsInv, NEW p \in Paths
  PROVE  /\ PaidUnder(p) = {} => Cardinality(PaidUnder(p)) = 0
         /\ PaidUnder(p) # {} => Cardinality(PaidUnder(p)) = 1
  <1>1. PaidUnder(p) # {} => \E r : PaidUnder(p) = {r}
    BY DEF RunsInv
  <1> QED
    BY <1>1, FS_EmptySet, FS_Singleton

LEMMA BarrierStep ==
  ASSUME TypeOK, BarrierInv, RunsInv, BarrierInv', RunsInv', [Next]_vars
  PROVE  [Barrier!BarrierNext]_(Barrier!barrierVars)
  <1> DEFINE arm == {p \in Paths : \A content \in image[p] : Blocks(content)}
             eff == [p \in Paths |-> Cardinality(PaidUnder(p))]
  <1>1. ASSUME UNCHANGED calls, \A p \in Paths : PaidUnder(p)' = PaidUnder(p)
        PROVE  Barrier!Settle
    <2>1. eff' = eff
      BY <1>1
    <2>2. \A p \in Paths : calls[p] > 0 => p \in arm'
      BY <1>1 DEF BarrierInv, BarrierDurable
    <2> QED
      BY <1>1, <2>1, <2>2 DEF Barrier!Settle
  <1>2. ASSUME NEW o \in Operators, Call(o)
        PROVE  Barrier!Send(path[o])
    <2>1. /\ pc[o] = "call" /\ UNCHANGED <<store, made>> /\ path[o] \in Paths
          /\ calls' = [calls EXCEPT ![path[o]] = calls[path[o]] + 1]
      BY <1>2 DEF Call, TypeOK
    <2>2. calls[path[o]] = 0 /\ path[o] \in arm
      BY <2>1 DEF BarrierInv, NotYetCalled, BeforeCall, WritesBlock
    <2>3. arm' = arm /\ eff' = eff
      BY <2>1 DEF store, Blocks, PaidUnder, Made
    <2> QED
      BY <2>1, <2>2, <2>3 DEF Barrier!Send, TypeOK
  <1>3. ASSUME NEW p \in Paths, KaggleSchedules(p)
        PROVE  Barrier!TakeEffect(p)
    <2>1. PICK r \in Runs \ Made, m \in Models :
            made' = [made EXCEPT ![r] = [model |-> m, payer |-> p, terminal |-> FALSE]]
      BY <1>3 DEF KaggleSchedules
    <2>2. p \in inflight /\ UNCHANGED <<store, calls>>
      BY <1>3 DEF KaggleSchedules
    <2>3. calls[p] = 1 /\ PaidUnder(p) = {}
      BY <2>2 DEF RunsInv, BarrierInv, AtMostOneCall, TypeOK
    <2>4. [model |-> m, payer |-> p, terminal |-> FALSE] # NoRun
      <3>1. [model |-> m, payer |-> p, terminal |-> FALSE] \in Run
        BY DEF Run
      <3> QED
        BY <3>1, RunOnceAssumption
    <2>5. /\ PaidUnder(p)' # {}
          /\ \A q \in Paths : q # p => PaidUnder(q)' = PaidUnder(q)
      BY <2>1, <2>4 DEF PaidUnder, Made, TypeOK
    <2>6. Cardinality(PaidUnder(p)) = 0
      BY <2>3, PaidCount
    <2>7. Cardinality(PaidUnder(p)') = 1
      <3>1. \E r1 : PaidUnder(p)' = {r1}
        BY <2>5 DEF RunsInv
      <3> QED
        BY <3>1, FS_Singleton
    <2>8. eff' = [eff EXCEPT ![p] = 1]
      BY <2>5, <2>7
    <2>9. arm' = arm
      BY <2>2 DEF store, Blocks
    <2> QED
      BY <2>2, <2>3, <2>6, <2>8, <2>9 DEF Barrier!TakeEffect
  <1>4. ASSUME NEW p \in Paths, KaggleDeclines(p)
        PROVE  Barrier!Settle
    BY <1>1, <1>4 DEF KaggleDeclines, PaidUnder, Made
  <1>5. ASSUME NEW r \in Runs, NEW m \in Models, ForeignRun(r, m)
        PROVE  Barrier!Settle
    BY <1>1, <1>5, RunOnceAssumption DEF ForeignRun, PaidUnder, Made, TypeOK
  <1>6. ASSUME NEW r \in Runs, RunEnds(r)
        PROVE  Barrier!Settle
    <2>1. made[r] \in Run /\ UNCHANGED calls /\ made[r] # NoRun
      BY <1>6 DEF RunEnds, Made, TypeOK
    <2>2. made' = [made EXCEPT ![r] = [made[r] EXCEPT !.terminal = TRUE]]
      BY <1>6 DEF RunEnds
    <2>3. /\ [made[r] EXCEPT !.terminal = TRUE] \in Run
          /\ [made[r] EXCEPT !.terminal = TRUE].payer = made[r].payer
      BY <2>1 DEF Run
    <2>4. [made[r] EXCEPT !.terminal = TRUE] # NoRun
      BY <2>3, RunOnceAssumption
    <2>5. \A p \in Paths : PaidUnder(p)' = PaidUnder(p)
      BY <2>1, <2>2, <2>3, <2>4 DEF PaidUnder, Made, TypeOK
    <2> QED
      BY <1>1, <2>1, <2>5
  <1>7. UNCHANGED kaggle => Barrier!Settle
    BY <1>1 DEF kaggle, PaidUnder, Made
  <1>8. ASSUME NEW o \in Operators, Step(o), ~Call(o)
        PROVE  UNCHANGED kaggle
    BY <1>8 DEF Step, Preflight, PreflightFails, OpenJournal, FillJournal,
                SyncNewJournal, ReplaceJournal, SyncJournal, JournalWriteFails,
                Returned, Raised, ListingFails, NothingNew, SomethingNew, Exhausted
  <1>9. ASSUME NEW o \in Operators,
               ProcessCrash(o) \/ \E p \in Paths : Start(o, p)
        PROVE  UNCHANGED kaggle
    BY <1>9 DEF ProcessCrash, Start
  <1>10. MachineCrash => UNCHANGED kaggle
    BY DEF MachineCrash
  <1>11. UNCHANGED vars => UNCHANGED kaggle
    BY DEF vars
  <1>12. Environment => Barrier!BarrierNext
    BY <1>3, <1>4, <1>5, <1>6, <1>7, <1>10
       DEF Environment, Barrier!BarrierNext
  <1>13. ASSUME NEW o \in Operators, Step(o)
         PROVE  Barrier!BarrierNext
    <2>1. CASE Call(o)
      <3>1. path[o] \in Paths
        BY DEF TypeOK
      <3> QED
        BY <1>2, <2>1, <3>1 DEF Barrier!BarrierNext
    <2>2. CASE ~Call(o)
      BY <1>7, <1>8, <1>13, <2>2 DEF Barrier!BarrierNext
    <2> QED
      BY <2>1, <2>2
  <1>14. ASSUME NEW o \in Operators,
                ProcessCrash(o) \/ \E p \in Paths : Start(o, p)
         PROVE  Barrier!BarrierNext
    BY <1>7, <1>9, <1>14 DEF Barrier!BarrierNext
  <1>15. UNCHANGED vars => Barrier!BarrierNext
    BY <1>7, <1>11 DEF Barrier!BarrierNext
  <1>16. Barrier!BarrierNext
    BY <1>12, <1>13, <1>14, <1>15 DEF Next
  <1> QED
    BY <1>16

(* Every behaviour of RunOnce is one of the abstract barrier.              *)
THEOREM BarrierImplemented ==
  ASSUME FreshParent = {}
  PROVE  Spec => ImplementsBarrier
  <1>1. Init => Barrier!BarrierInit
    <2> SUFFICES ASSUME Init PROVE Barrier!BarrierInit
      OBVIOUS
    <2>1. RunsInv
      BY InitRuns
    <2>2. \A p \in Paths : PaidUnder(p) = {} /\ calls[p] = 0
      BY DEF Init, PaidUnder, Made
    <2>3. \A p \in Paths : Cardinality(PaidUnder(p)) = 0
      BY <2>1, <2>2, PaidCount
    <2> QED
      BY <2>3 DEF Init, Barrier!BarrierInit
  <1>2. TypeOK /\ BarrierInv /\ RunsInv /\ BarrierInv' /\ RunsInv' /\ [Next]_vars
          => [Barrier!BarrierNext]_(Barrier!barrierVars)
    BY BarrierStep
  <1> QED
    BY <1>1, <1>2, RunsInvariant, PTL DEF Spec, ImplementsBarrier, Barrier!BarrierSpec

-----------------------------------------------------------------------------
(* The verdicts.  What an operator holds in memory at each step, and how   *)
(* far the file at its path is behind it.                                  *)

Fresh(j) == j = Prepared(j.before)

Dispatched(j) == j = [Prepared(j.before) EXCEPT !.state = "dispatching"]

(* The answers that go on to reconciliation.                               *)
Scheduled == {"scheduled", "scheduledWithReason"}

(* What reconciliation starts from: the response decides which failure is  *)
(* recorded, and no listing named a run so far.                            *)
Undecided(j) ==
  /\ j.run = NoRun
  /\ \/ /\ j.state = "returned_unreconciled" /\ j.response \in Scheduled
        /\ ~j.dispatchFailure /\ ~j.responseFailure /\ ~j.failure
     \/ /\ j.state = "ambiguous" /\ j.response = "none"
        /\ j.dispatchFailure # j.responseFailure
  /\ \A i \in DOMAIN j.observations :
       j.observations[i].failed \/ j.observations[i].ids = j.before

(* ReconciledIsEvidence, of one journal and the runs Kaggle has.           *)
Evidence(j, p, known) ==
  /\ j.run \in Runs /\ known[j.run] # NoRun
  /\ Promotable(j, Target[p], j.run, known[j.run].model)
       <=> j.response # "scheduledWithReason"

(* What is being written says what comes after it.                         *)
Written(o) ==
  \/ goal[o] = "call" /\ Dispatched(mem[o])
  \/ goal[o] = "reconcile" /\ Undecided(mem[o]) /\ mem[o].observations = <<>>
  \/ /\ goal[o] = "ok" /\ mem[o].state = "reconciled"
     /\ Evidence(mem[o], path[o], made)
  \/ goal[o] = "ambiguous" /\ mem[o].state = "ambiguous"
  \/ goal[o] = "failed" /\ mem[o].state \in {"not_scheduled", "ambiguous"}

(* JournalOnlyAdvances, of one rewrite.                                    *)
Rewrites(old, new) ==
  /\ Advances(old, new)
  /\ new.before = old.before
  /\ old.dispatchFailure => new.dispatchFailure
  /\ old.responseFailure => new.responseFailure

MemoryShape(o) ==
  /\ pc[o] \in {"open", "fill", "syncNew"} => Fresh(mem[o])
  /\ pc[o] \in {"call", "await"} => Dispatched(mem[o])
  /\ pc[o] = "reconcile" => Undecided(mem[o])
  /\ pc[o] \in {"replace", "sync"} => Written(o)

FileShape(o) ==
  /\ pc[o] \in Owner => Exists(path[o])
  /\ pc[o] = "fill" => disk[path[o]] = Partial
  /\ pc[o] \in {"syncNew", "sync", "call", "await"} => disk[path[o]] = mem[o]
  /\ pc[o] = "replace" => Rewrites(disk[path[o]], mem[o])
  /\ pc[o] = "reconcile" => disk[path[o]] = [mem[o] EXCEPT !.observations = <<>>]

JournalInv ==
  /\ OwnersExclusive
  /\ \A o \in Operators : MemoryShape(o) /\ FileShape(o)

(* A verdict in a file.                                                    *)
Says(content, state) == content \in Journal /\ content.state = state

(* Every crash image with the verdict "reconciled" is evidence.            *)
ImagesInv ==
  /\ DiskInImage
  /\ \A p \in Paths : \A content \in image[p] :
       Says(content, "reconciled") => Evidence(content, p, made)

(* Kaggle never forgets a run nor changes its model.                       *)
MadeGrows ==
  \A r \in Runs : made[r] # NoRun =>
    made'[r] # NoRun /\ made'[r].model = made[r].model

LEMMA RunsGrow ==
  ASSUME TypeOK, [Next]_vars
  PROVE  MadeGrows
  <1>1. UNCHANGED made => MadeGrows
    BY DEF MadeGrows
  <1>2. ASSUME NEW p \in Paths, KaggleSchedules(p) PROVE MadeGrows
    BY <1>2 DEF KaggleSchedules, MadeGrows, Made, TypeOK
  <1>3. ASSUME NEW r \in Runs, NEW m \in Models, ForeignRun(r, m) PROVE MadeGrows
    BY <1>3 DEF ForeignRun, MadeGrows, TypeOK
  <1>4. ASSUME NEW r \in Runs, RunEnds(r) PROVE MadeGrows
    <2>1. made[r] \in Run
      BY <1>4 DEF RunEnds, Made, TypeOK
    <2>2. made' = [made EXCEPT ![r] = [made[r] EXCEPT !.terminal = TRUE]]
      BY <1>4 DEF RunEnds
    <2>3. /\ [made[r] EXCEPT !.terminal = TRUE] \in Run
          /\ [made[r] EXCEPT !.terminal = TRUE].model = made[r].model
      BY <2>1 DEF Run
    <2> QED
      BY <2>2, <2>3, RunOnceAssumption DEF MadeGrows, TypeOK
  <1>5. ASSUME NEW o \in Operators,
               Step(o) \/ ProcessCrash(o) \/ \E p \in Paths : Start(o, p)
        PROVE  UNCHANGED made
    BY <1>5 DEF Step, Preflight, PreflightFails, OpenJournal, FillJournal,
                SyncNewJournal, ReplaceJournal, SyncJournal, JournalWriteFails,
                Call, Returned, Raised, ListingFails, NothingNew, SomethingNew,
                Exhausted, ProcessCrash, Start, kaggle
  <1>6. MachineCrash \/ (\E p \in Paths : KaggleDeclines(p)) \/ UNCHANGED vars
          => UNCHANGED made
    BY DEF MachineCrash, KaggleDeclines, vars, kaggle
  <1> QED
    BY <1>1, <1>2, <1>3, <1>4, <1>5, <1>6 DEF Next, Environment

LEMMA EvidenceStays ==
  ASSUME MadeGrows, NEW j, NEW p, Evidence(j, p, made)
  PROVE  Evidence(j, p, made')
  BY DEF MadeGrows, Evidence

(* What a step of the command reaches: its own process, and the file at    *)
(* its own path, which it owns or creates.                                 *)
LEMMA StepFrame ==
  ASSUME TypeOK, NEW o \in Operators, Step(o)
  PROVE  /\ UNCHANGED <<path, crashes>>
         /\ \A q \in Operators : q # o =>
              pc'[q] = pc[q] /\ mem'[q] = mem[q] /\ goal'[q] = goal[q]
         /\ pc[o] \notin Stopped
         /\ pc[o] \in Owner \/ disk[path[o]] = NoFile
            \/ (UNCHANGED store /\ pc'[o] \notin Owner)
         /\ \A p \in Paths : p # path[o] => disk'[p] = disk[p] /\ image'[p] = image[p]
         /\ \A content \in image'[path[o]] :
              \/ content \in image[path[o]]
              \/ content \in {Partial, disk[path[o]]}
              \/ pc[o] \in {"fill", "replace"} /\ content = mem[o]
         /\ disk'[path[o]] # disk[path[o]] =>
              \/ disk[path[o]] = NoFile
              \/ pc[o] = "fill"
              \/ pc[o] = "replace" /\ disk'[path[o]] = mem[o]
         /\ DiskInImage => DiskInImage'
  <1>0. path[o] \in Paths
    BY DEF TypeOK
  <1> USE DEF TypeOK, DiskInImage, Owner, Stopped
  <1>1. CASE Preflight(o) \/ PreflightFails(o)
    BY <1>1 DEF Preflight, PreflightFails, Exit, Goto, kaggle, store
  <1>2. CASE OpenJournal(o)
    BY <1>0, <1>2 DEF OpenJournal, OpenExclusive, Exists, Exit, Goto, store
  <1>3. CASE FillJournal(o)
    BY <1>0, <1>3 DEF FillJournal, FillAndSync, FillFails, Exit, Goto
  <1>4. CASE SyncNewJournal(o)
    BY <1>0, <1>4 DEF SyncNewJournal, SyncDirectory, Persist, Goto
  <1>5. CASE ReplaceJournal(o)
    BY <1>0, <1>5 DEF ReplaceJournal, Replace, Goto
  <1>6. CASE SyncJournal(o)
    BY <1>0, <1>6 DEF SyncJournal, SyncDirectory, Exit, Goto
  <1>7. CASE JournalWriteFails(o)
    BY <1>7 DEF JournalWriteFails, Exit, Goto, store
  <1>8. CASE Call(o)
    BY <1>8 DEF Call, Goto, store
  <1>9. CASE Returned(o) \/ Raised(o)
    BY <1>9 DEF Returned, Raised, Persist, Goto, store
  <1>10. CASE ListingFails(o) \/ NothingNew(o)
    BY <1>10 DEF ListingFails, NothingNew, store
  <1>11. CASE SomethingNew(o)
    BY <1>11 DEF SomethingNew, MismatchAfter, BoundAfter, Persist, Goto, store
  <1>12. CASE Exhausted(o)
    BY <1>12 DEF Exhausted, Persist, Goto, store
  <1> QED
    BY <1>1, <1>2, <1>3, <1>4, <1>5, <1>6, <1>7, <1>8, <1>9, <1>10, <1>11,
       <1>12 DEF Step

(* The listing that binds: what ObservationsBind of the reader looks for.  *)
LEMMA BindingObserved ==
  ASSUME NEW j \in Journal, Undecided(j), NEW ids \in SUBSET Runs, NEW r \in Runs,
         j.before \subseteq ids, ids \ j.before = {r}
  PROVE  ObservationsBind(Append(j.observations, [failed |-> FALSE, ids |-> ids]),
                          j.before, r)
  <1> DEFINE last == [failed |-> FALSE, ids |-> ids]
             seen == Append(j.observations, last)
  <1>1. j.observations \in Seq(Observation) /\ last \in Observation
    BY DEF Journal, Observation
  <1>2. /\ Len(seen) = Len(j.observations) + 1 /\ DOMAIN seen = 1..Len(seen)
        /\ seen[Len(seen)] = last
        /\ \A i \in DOMAIN seen : i < Len(seen) =>
             i \in DOMAIN j.observations /\ seen[i] = j.observations[i]
        /\ seen # <<>>
    BY <1>1
  <1>3. ids = j.before \cup {r}
    OBVIOUS
  <1>4. Len(j.observations) \in Nat
    BY <1>1
  <1>5. ASSUME NEW i \in DOMAIN seen
        PROVE  \/ seen[i].failed
               \/ /\ j.before \subseteq seen[i].ids
                  /\ i < Len(seen) => seen[i].ids \subseteq j.before
    <2>1. CASE i < Len(seen)
      BY <1>2, <2>1 DEF Undecided
    <2>2. CASE i = Len(seen)
      BY <1>2, <1>3, <2>2
    <2> QED
      BY <1>2, <1>4, <2>1, <2>2
  <1>6. ~seen[Len(seen)].failed /\ seen[Len(seen)].ids = j.before \cup {r}
    BY <1>2, <1>3
  <1> QED
    BY <1>2, <1>5, <1>6 DEF ObservationsBind

(* One more observation that decides nothing.                              *)
LEMMA StillUndecided ==
  ASSUME TypeOK, NEW o \in Operators, Undecided(mem[o]), NEW failed \in BOOLEAN,
         NEW ids \in SUBSET Runs, failed \/ ids = mem[o].before
  PROVE  /\ Undecided(Observe(o, failed, ids))
         /\ [Observe(o, failed, ids) EXCEPT !.observations = <<>>]
              = [mem[o] EXCEPT !.observations = <<>>]
  <1> DEFINE j == mem[o]
             last == [failed |-> failed, ids |-> ids]
             seen == Append(j.observations, last)
  <1>1. j \in Journal /\ j.observations \in Seq(Observation) /\ last \in Observation
    BY DEF Journal, Observation, TypeOK
  <1>2. /\ Len(seen) = Len(j.observations) + 1 /\ DOMAIN seen = 1..Len(seen)
        /\ seen[Len(seen)] = last
        /\ \A i \in DOMAIN seen : i < Len(seen) =>
             i \in DOMAIN j.observations /\ seen[i] = j.observations[i]
        /\ Len(j.observations) \in Nat
    BY <1>1
  <1>3. \A i \in DOMAIN seen : seen[i].failed \/ seen[i].ids = j.before
    <2> SUFFICES ASSUME NEW i \in DOMAIN seen
                 PROVE  seen[i].failed \/ seen[i].ids = j.before
      OBVIOUS
    <2>1. CASE i < Len(seen)
      BY <1>2, <2>1 DEF Undecided
    <2>2. CASE i = Len(seen)
      BY <1>2, <2>2
    <2> QED
      BY <1>2, <2>1, <2>2
  <1>4. Observe(o, failed, ids) = [j EXCEPT !.observations = seen]
    BY <1>1 DEF Observe
  <1>5. /\ [j EXCEPT !.observations = seen].observations = seen
        /\ [j EXCEPT !.observations = seen].run = j.run
        /\ [j EXCEPT !.observations = seen].state = j.state
        /\ [j EXCEPT !.observations = seen].before = j.before
        /\ [j EXCEPT !.observations = seen].response = j.response
        /\ [j EXCEPT !.observations = seen].failure = j.failure
        /\ [j EXCEPT !.observations = seen].dispatchFailure = j.dispatchFailure
        /\ [j EXCEPT !.observations = seen].responseFailure = j.responseFailure
    BY <1>1 DEF Journal
  <1>6. [[j EXCEPT !.observations = seen] EXCEPT !.observations = <<>>]
          = [j EXCEPT !.observations = <<>>]
    BY <1>1 DEF Journal
  <1> QED
    BY <1>3, <1>4, <1>5, <1>6 DEF Undecided

(* A step that leaves the others and their files alone only has to keep    *)
(* its own process in shape.                                               *)
LEMMA LocalStep ==
  ASSUME TypeOK, JournalInv, MadeGrows, NEW o \in Operators,
         \A q \in Operators : q # o => /\ pc'[q] = pc[q] /\ path'[q] = path[q]
                                      /\ mem'[q] = mem[q] /\ goal'[q] = goal[q],
         \A p \in Paths : p # path[o] => disk'[p] = disk[p],
         pc[o] \in Owner \/ disk[path[o]] = NoFile \/ UNCHANGED store,
         pc'[o] \in Owner => /\ path'[o] = path[o]
                             /\ pc[o] \in Owner \/ disk[path[o]] = NoFile,
         MemoryShape(o)', FileShape(o)'
  PROVE  JournalInv'
  <1>1. \A q \in Operators : q # o /\ pc[q] \in Owner /\
          (pc[o] \in Owner \/ disk[path[o]] = NoFile) => path[q] # path[o]
    BY DEF JournalInv, OwnersExclusive, FileShape, Exists
  <1>2. OwnersExclusive'
    BY <1>1 DEF JournalInv, OwnersExclusive
  <1>3. ASSUME NEW q \in Operators, q # o
        PROVE  MemoryShape(q)' /\ FileShape(q)'
    <2>1. path[q] \in Paths
      BY DEF TypeOK
    <2>2. pc[q] \in Owner => disk'[path[q]] = disk[path[q]]
      BY <1>1, <1>3, <2>1 DEF store
    <2>3. /\ pc'[q] = pc[q] /\ path'[q] = path[q]
          /\ mem'[q] = mem[q] /\ goal'[q] = goal[q]
      BY <1>3
    <2>4. MemoryShape(q) /\ FileShape(q)
      BY DEF JournalInv
    <2>5. Evidence(mem[q], path[q], made) => Evidence(mem'[q], path'[q], made')
      BY <2>3, EvidenceStays
    <2>6. MemoryShape(q)'
      BY <2>3, <2>4, <2>5 DEF MemoryShape, Written
    <2>7. FileShape(q)'
      BY <2>2, <2>3, <2>4 DEF FileShape, Exists, Owner
    <2> QED
      BY <2>6, <2>7
  <1> QED
    BY <1>2, <1>3 DEF JournalInv

(* The journal the paid call is made under.                                *)
LEMMA DispatchedFields ==
  ASSUME NEW j \in Journal, Dispatched(j)
  PROVE  /\ j.state = "dispatching" /\ j.response = "none"
         /\ ~j.dispatchFailure /\ ~j.responseFailure /\ ~j.failure
         /\ j.observations = <<>> /\ j.run = NoRun
  BY DEF Dispatched, Prepared

(* What the command makes of the outcome of the paid call.                 *)
LEMMA OutcomeShape ==
  ASSUME NEW old \in Journal, Dispatched(old), NEW j \in Journal,
         j.before = old.before, j.observations = old.observations, j.run = old.run,
         \/ /\ j.state = "returned_unreconciled" /\ j.response \in Scheduled
            /\ ~j.dispatchFailure /\ ~j.responseFailure /\ ~j.failure
         \/ j.state = "ambiguous" /\ j.response = "none"
            /\ j.dispatchFailure # j.responseFailure
  PROVE  Rewrites(old, j) /\ Undecided(j) /\ j.observations = <<>>
  <1>1. /\ old.state = "dispatching" /\ j.observations = <<>> /\ j.run = NoRun
        /\ ~old.dispatchFailure /\ ~old.responseFailure
    BY DispatchedFields
  <1>2. DOMAIN j.observations = {}
    BY <1>1
  <1> QED
    BY <1>1, <1>2 DEF Rewrites, Advances, Undecided

LEMMA StepShape ==
  ASSUME TypeOK, JournalInv, NEW o \in Operators, Step(o)
  PROVE  MemoryShape(o)' /\ FileShape(o)'
  <1>0. /\ path[o] \in Paths /\ mem[o] \in Journal
        /\ MemoryShape(o) /\ FileShape(o)
    BY DEF TypeOK, JournalInv
  <1> USE DEF Owner
  <1>1. CASE Preflight(o)
    <2>1. PICK ids \in SUBSET Runs : mem'[o] = Prepared(ids)
      BY <1>1 DEF Preflight, TypeOK
    <2>2. pc'[o] = "open"
      BY <1>1 DEF Preflight, Goto, TypeOK
    <2> QED
      BY <2>1, <2>2 DEF MemoryShape, FileShape, Fresh, Prepared
  <1>2. ASSUME NEW label \in Stopped, Exit(o, label)
        PROVE  MemoryShape(o)' /\ FileShape(o)'
    BY <1>2 DEF Exit, Goto, MemoryShape, FileShape, Stopped, TypeOK
  <1>3. CASE PreflightFails(o) \/ JournalWriteFails(o)
    BY <1>2, <1>3 DEF PreflightFails, JournalWriteFails, Stopped
  <1>4. CASE OpenJournal(o)
    <2>1. CASE Exit(o, "failed")
      BY <1>2, <2>1 DEF Stopped
    <2>2. CASE OpenExclusive(path[o]) /\ Goto(o, "fill") /\ UNCHANGED <<mem, goal>>
      <3>1. /\ pc'[o] = "fill" /\ mem' = mem /\ path' = path /\ pc[o] = "open"
            /\ disk'[path[o]] = Partial
        BY <1>0, <1>4, <2>2 DEF OpenJournal, OpenExclusive, Goto, TypeOK
      <3> QED
        BY <1>0, <3>1, StoreAssumption DEF MemoryShape, FileShape, Exists
    <2> QED
      BY <1>4, <2>1, <2>2 DEF OpenJournal
  <1>5. CASE FillJournal(o)
    <2>1. CASE Exit(o, "failed")
      BY <1>2, <2>1 DEF Stopped
    <2>2. CASE FillAndSync(path[o], mem[o]) /\ Goto(o, "syncNew") /\ UNCHANGED <<mem, goal>>
      <3>1. /\ pc'[o] = "syncNew" /\ mem' = mem /\ path' = path /\ pc[o] = "fill"
            /\ disk'[path[o]] = mem[o]
        BY <1>0, <1>5, <2>2 DEF FillJournal, FillAndSync, Goto, TypeOK
      <3> QED
        BY <1>0, <3>1, RunOnceAssumption DEF MemoryShape, FileShape, Exists
    <2> QED
      BY <1>5, <2>1, <2>2 DEF FillJournal
  <1>6. CASE SyncNewJournal(o)
    <2>1. /\ pc[o] = "syncNew" /\ pc'[o] = "replace" /\ goal'[o] = "call"
          /\ disk' = disk /\ path' = path
          /\ mem'[o] = [mem[o] EXCEPT !.state = "dispatching"]
      BY <1>6 DEF SyncNewJournal, SyncDirectory, Persist, Goto, TypeOK
    <2>2. Fresh(mem[o]) /\ disk[path[o]] = mem[o] /\ Exists(path[o])
      BY <1>0, <2>1 DEF MemoryShape, FileShape
    <2>3. Dispatched(mem'[o])
      BY <2>1, <2>2 DEF Fresh, Dispatched, Prepared
    <2>4. Rewrites(disk[path[o]], mem'[o])
      BY <2>1, <2>2 DEF Fresh, Prepared, Rewrites, Advances
    <2> QED
      BY <2>1, <2>2, <2>3, <2>4 DEF MemoryShape, FileShape, Written, Exists
  <1>7. CASE ReplaceJournal(o)
    <2>1. /\ pc[o] = "replace" /\ pc'[o] = "sync" /\ disk'[path[o]] = mem[o]
          /\ UNCHANGED <<path, mem, goal, made>>
      BY <1>0, <1>7 DEF ReplaceJournal, Replace, Goto, TypeOK, kaggle
    <2> QED
      BY <1>0, <2>1, RunOnceAssumption DEF MemoryShape, FileShape, Exists, Written
  <1>8. CASE SyncJournal(o)
    <2>1. CASE goal[o] \in Stopped
      BY <1>2, <1>8, <2>1 DEF SyncJournal
    <2>2. CASE goal[o] \notin Stopped
      <3>1. /\ pc[o] = "sync" /\ pc'[o] = goal[o] /\ disk' = disk
            /\ UNCHANGED <<path, mem, goal>> /\ goal[o] \in {"call", "reconcile"}
        BY <1>8, <2>2 DEF SyncJournal, SyncDirectory, Goto, TypeOK
      <3>2. /\ disk[path[o]] = mem[o] /\ Exists(path[o])
            /\ goal[o] = "call" => Dispatched(mem[o])
            /\ goal[o] = "reconcile" => Undecided(mem[o]) /\ mem[o].observations = <<>>
        BY <1>0, <3>1 DEF MemoryShape, FileShape, Written
      <3>3. mem[o].observations = <<>> => mem[o] = [mem[o] EXCEPT !.observations = <<>>]
        BY <1>0 DEF Journal
      <3> QED
        BY <3>1, <3>2, <3>3 DEF MemoryShape, FileShape, Exists
    <2> QED
      BY <2>1, <2>2
  <1>9. CASE Call(o)
    <2>1. /\ pc[o] = "call" /\ pc'[o] = "await" /\ UNCHANGED <<store, path, mem, goal>>
      BY <1>9 DEF Call, Goto, TypeOK
    <2> QED
      BY <1>0, <2>1 DEF MemoryShape, FileShape, Exists, store
  <1>10. ASSUME NEW j \in Journal, NEW next \in Stopped \cup {"reconcile"},
                Persist(o, j, next), UNCHANGED <<store, path, made>>,
                pc[o] \in {"await", "reconcile"},
                Rewrites(disk[path[o]], j),
                \/ next = "reconcile" /\ Undecided(j) /\ j.observations = <<>>
                \/ next = "ok" /\ j.state = "reconciled" /\ Evidence(j, path[o], made)
                \/ next = "ambiguous" /\ j.state = "ambiguous"
                \/ next = "failed" /\ j.state \in {"not_scheduled", "ambiguous"}
         PROVE  MemoryShape(o)' /\ FileShape(o)'
    <2>1. /\ pc'[o] = "replace" /\ mem'[o] = j /\ goal'[o] = next
          /\ disk' = disk /\ path' = path /\ made' = made
      BY <1>10 DEF Persist, Goto, TypeOK, store
    <2>2. Exists(path[o])
      BY <1>0, <1>10 DEF FileShape
    <2> QED
      BY <1>10, <2>1, <2>2 DEF MemoryShape, FileShape, Exists, Written
  <1>11. CASE Returned(o)
    <2>1. /\ pc[o] = "await" /\ UNCHANGED <<store, path, made>>
          /\ Dispatched(mem[o]) /\ disk[path[o]] = mem[o]
      BY <1>0, <1>11 DEF Returned, kaggle, MemoryShape, FileShape
    <2> DEFINE j1 == [mem[o] EXCEPT !.state = "returned_unreconciled",
                                    !.response = answer[path[o]]]
               j2 == [mem[o] EXCEPT !.state = "not_scheduled",
                                    !.response = "skipped", !.failure = TRUE]
               j3 == [mem[o] EXCEPT !.state = "ambiguous",
                                    !.responseFailure = TRUE, !.failure = TRUE]
    <2>2. j2 \in Journal /\ j3 \in Journal
      BY <1>0 DEF Journal, Responses, States
    <2>3. mem[o].state = "dispatching" /\ ~mem[o].dispatchFailure
          /\ ~mem[o].responseFailure /\ ~mem[o].failure /\ mem[o].response = "none"
      BY <1>0, <2>1, DispatchedFields
    <2>5. ASSUME answer[path[o]] \in Scheduled
          PROVE  /\ j1 \in Journal
                 /\ j1.before = mem[o].before /\ j1.observations = mem[o].observations
                 /\ j1.run = mem[o].run /\ j1.state = "returned_unreconciled"
                 /\ j1.response \in Scheduled /\ ~j1.dispatchFailure
                 /\ ~j1.responseFailure /\ ~j1.failure
      BY <1>0, <2>3, <2>5 DEF Journal, Responses, Scheduled, States
    <2>6. /\ j3.before = mem[o].before /\ j3.observations = mem[o].observations
          /\ j3.run = mem[o].run /\ j3.state = "ambiguous" /\ j3.response = "none"
          /\ j3.dispatchFailure # j3.responseFailure
      BY <1>0, <2>3 DEF Journal
    <2>7. /\ j2.before = mem[o].before /\ j2.state = "not_scheduled"
      BY <1>0 DEF Journal
    <2>8. Rewrites(mem[o], j2)
      BY <2>3, <2>7 DEF Rewrites, Advances
    <2>9. /\ answer[path[o]] \in Scheduled =>
                j1 \in Journal /\ Rewrites(mem[o], j1) /\ Undecided(j1)
                /\ j1.observations = <<>>
          /\ Rewrites(mem[o], j3) /\ Undecided(j3) /\ j3.observations = <<>>
      <3> HIDE DEF j1, j3
      <3> QED
        BY <1>0, <2>1, <2>2, <2>5, <2>6, OutcomeShape
    <2>4. \/ answer[path[o]] \in Scheduled /\ Persist(o, j1, "reconcile")
          \/ Persist(o, j2, "failed")
          \/ Persist(o, j3, "reconcile")
      BY <1>11 DEF Returned, Scheduled
    <2> HIDE DEF j1, j2, j3
    <2> QED
      BY <1>10, <2>1, <2>2, <2>4, <2>7, <2>8, <2>9 DEF Stopped
  <1>12. CASE Raised(o)
    <2>1. /\ pc[o] = "await" /\ UNCHANGED <<store, path, made>>
          /\ Dispatched(mem[o]) /\ disk[path[o]] = mem[o]
      BY <1>0, <1>12 DEF Raised, kaggle, MemoryShape, FileShape
    <2> DEFINE j == [mem[o] EXCEPT !.state = "ambiguous",
                                   !.dispatchFailure = TRUE, !.failure = TRUE]
    <2>2. j \in Journal
      BY <1>0 DEF Journal, States
    <2>3. /\ j.before = mem[o].before /\ j.observations = mem[o].observations
          /\ j.run = mem[o].run /\ j.state = "ambiguous" /\ j.response = "none"
          /\ j.dispatchFailure # j.responseFailure
      BY <1>0, <2>1, DispatchedFields DEF Journal
    <2>5. Rewrites(mem[o], j) /\ Undecided(j) /\ j.observations = <<>>
      <3> HIDE DEF j
      <3> QED
        BY <1>0, <2>1, <2>2, <2>3, OutcomeShape
    <2>4. Persist(o, j, "reconcile") \/ Persist(o, j, "failed")
      BY <1>12 DEF Raised
    <2> HIDE DEF j
    <2> QED
      BY <1>10, <2>1, <2>2, <2>3, <2>4, <2>5 DEF Stopped
  <1>13. CASE ListingFails(o) \/ NothingNew(o)
    <2>1. /\ pc[o] = "reconcile" /\ pc' = pc /\ UNCHANGED <<store, path>>
          /\ Undecided(mem[o]) /\ mem[o].before \in SUBSET Runs
          /\ disk[path[o]] = [mem[o] EXCEPT !.observations = <<>>]
      BY <1>0, <1>13 DEF ListingFails, NothingNew, MemoryShape, FileShape, Journal
    <2>2. \/ mem'[o] = Observe(o, TRUE, {})
          \/ mem'[o] = Observe(o, FALSE, mem[o].before)
      BY <1>13 DEF ListingFails, NothingNew, TypeOK
    <2>3. /\ Undecided(mem'[o])
          /\ [mem'[o] EXCEPT !.observations = <<>>] = [mem[o] EXCEPT !.observations = <<>>]
      <3>1. /\ Undecided(Observe(o, TRUE, {}))
            /\ [Observe(o, TRUE, {}) EXCEPT !.observations = <<>>]
                 = [mem[o] EXCEPT !.observations = <<>>]
        <4>1. TRUE \in BOOLEAN /\ {} \in SUBSET Runs
          OBVIOUS
        <4> QED
          BY <2>1, <4>1, StillUndecided
      <3>2. /\ Undecided(Observe(o, FALSE, mem[o].before))
            /\ [Observe(o, FALSE, mem[o].before) EXCEPT !.observations = <<>>]
                 = [mem[o] EXCEPT !.observations = <<>>]
        BY <2>1, StillUndecided
      <3> QED
        BY <2>2, <3>1, <3>2
    <2>4. Exists(path[o])
      BY <1>0, <2>1 DEF FileShape
    <2> QED
      BY <2>1, <2>3, <2>4 DEF MemoryShape, FileShape, Exists, store
  <1>14. ASSUME pc[o] = "reconcile", NEW k \in Journal,
                \/ k.state = "ambiguous"
                \/ k.state = "reconciled" /\ ~mem[o].responseFailure,
                k.before = mem[o].before,
                k.dispatchFailure = mem[o].dispatchFailure,
                k.responseFailure = mem[o].responseFailure
         PROVE  Rewrites(disk[path[o]], k)
    <2>1. /\ Undecided(mem[o]) /\ disk[path[o]] = [mem[o] EXCEPT !.observations = <<>>]
      BY <1>0, <1>14 DEF MemoryShape, FileShape
    <2>2. /\ disk[path[o]].state = mem[o].state /\ disk[path[o]].before = mem[o].before
          /\ disk[path[o]].observations = <<>>
          /\ disk[path[o]].dispatchFailure = mem[o].dispatchFailure
          /\ disk[path[o]].responseFailure = mem[o].responseFailure
      BY <1>0, <2>1 DEF Journal
    <2> QED
      BY <1>14, <2>1, <2>2 DEF Rewrites, Advances, Undecided
  <1>15. CASE SomethingNew(o)
    <2>1. pc[o] = "reconcile" /\ UNCHANGED <<store, path, made>>
      BY <1>15 DEF SomethingNew, kaggle
    <2>2. PICK ids \in SUBSET Runs :
            /\ Listed(ids) /\ mem[o].before \subseteq ids
            /\ \/ MismatchAfter(o, Observe(o, FALSE, ids))
               \/ \E r \in Runs :
                    /\ ids \ mem[o].before = {r}
                    /\ made[r].model = Target[path[o]]
                    /\ BoundAfter(o, Observe(o, FALSE, ids), r)
      BY <1>15 DEF SomethingNew
    <2> DEFINE s == Observe(o, FALSE, ids)
    <2>3. /\ s \in Journal /\ s.state = mem[o].state /\ s.before = mem[o].before
          /\ s.response = mem[o].response
          /\ s.dispatchFailure = mem[o].dispatchFailure
          /\ s.responseFailure = mem[o].responseFailure
          /\ s.observations = Append(mem[o].observations,
                                     [failed |-> FALSE, ids |-> ids])
      BY <1>0, ObserveType DEF Observe, Journal
    <2>4. CASE MismatchAfter(o, s)
      <3> DEFINE k == [s EXCEPT !.state = "ambiguous", !.failure = TRUE]
      <3>1. /\ k \in Journal /\ k.state = "ambiguous" /\ k.before = s.before
            /\ k.dispatchFailure = s.dispatchFailure
            /\ k.responseFailure = s.responseFailure
        BY <2>3 DEF Journal, States
      <3>2. Rewrites(disk[path[o]], k)
        BY <1>14, <2>1, <2>3, <3>1
      <3>3. Persist(o, k, "ambiguous")
        BY <2>4 DEF MismatchAfter
      <3> HIDE DEF k
      <3> QED
        BY <1>10, <2>1, <3>1, <3>2, <3>3 DEF Stopped
    <2>5. ASSUME NEW r \in Runs, ids \ mem[o].before = {r},
                 made[r].model = Target[path[o]], BoundAfter(o, s, r)
          PROVE  MemoryShape(o)' /\ FileShape(o)'
      <3>1. CASE s.responseFailure
        <4> DEFINE k == [s EXCEPT !.state = "ambiguous", !.run = r, !.failure = TRUE]
        <4>1. /\ k \in Journal /\ k.state = "ambiguous" /\ k.before = s.before
              /\ k.dispatchFailure = s.dispatchFailure
              /\ k.responseFailure = s.responseFailure
          BY <2>3 DEF Journal, States
        <4>2. Rewrites(disk[path[o]], k)
          BY <1>14, <2>1, <2>3, <4>1
        <4>3. Persist(o, k, "ambiguous")
          BY <2>5, <3>1 DEF BoundAfter
        <4> HIDE DEF k
        <4> QED
          BY <1>10, <2>1, <4>1, <4>2, <4>3 DEF Stopped
      <3>2. CASE ~s.responseFailure
        <4> DEFINE k == [s EXCEPT !.state = "reconciled", !.run = r, !.failure = FALSE]
        <4>1. /\ k \in Journal /\ k.state = "reconciled" /\ k.before = s.before
              /\ k.dispatchFailure = s.dispatchFailure
              /\ k.responseFailure = s.responseFailure
              /\ k.response = s.response /\ k.run = r /\ ~k.failure
              /\ k.observations = s.observations
          BY <2>3 DEF Journal, States
        <4>2. Rewrites(disk[path[o]], k)
          BY <1>14, <2>1, <2>3, <3>2, <4>1
        <4>3. Persist(o, k, "ok")
          BY <2>5, <3>2 DEF BoundAfter
        <4>4. Undecided(mem[o])
          BY <1>0, <2>1 DEF MemoryShape
        <4>5. ObservationsBind(k.observations, k.before, r)
          <5> HIDE DEF k
          <5>1. ObservationsBind(Append(mem[o].observations,
                  [failed |-> FALSE, ids |-> ids]), mem[o].before, r)
            BY <1>0, <2>2, <2>5, <4>4, BindingObserved
          <5> QED
            BY <2>3, <4>1, <5>1
        <4>6. made[r] # NoRun /\ r \notin k.before
          BY <2>2, <2>3, <2>5, <4>1 DEF Listed, Made
        <4>7. IF k.dispatchFailure THEN k.response = "none" ELSE k.response \in Scheduled
          <5> HIDE DEF k, s
          <5> QED
            BY <1>0, <2>3, <3>2, <4>1, <4>4 DEF Undecided, Journal
        <4>8. Evidence(k, path[o], made)
          BY <2>3, <2>5, <3>2, <4>1, <4>5, <4>6, <4>7 DEF Evidence, Promotable, Scheduled
        <4> HIDE DEF k
        <4> QED
          BY <1>10, <2>1, <4>1, <4>2, <4>3, <4>8 DEF Stopped
      <3> QED
        BY <3>1, <3>2
    <2> QED
      BY <2>2, <2>4, <2>5
  <1>16. CASE Exhausted(o)
    <2> DEFINE k == [mem[o] EXCEPT !.state = "ambiguous", !.failure = TRUE]
    <2>1. /\ pc[o] = "reconcile" /\ UNCHANGED <<store, path, made>>
          /\ Persist(o, k, "ambiguous")
      BY <1>16 DEF Exhausted, kaggle
    <2>2. /\ k \in Journal /\ k.state = "ambiguous" /\ k.before = mem[o].before
          /\ k.dispatchFailure = mem[o].dispatchFailure
          /\ k.responseFailure = mem[o].responseFailure
      BY <1>0 DEF Journal, States
    <2>3. Rewrites(disk[path[o]], k)
      BY <1>14, <2>1, <2>2
    <2> HIDE DEF k
    <2> QED
      BY <1>10, <2>1, <2>2, <2>3 DEF Stopped
  <1> QED
    BY <1>1, <1>3, <1>4, <1>5, <1>6, <1>7, <1>8, <1>9, <1>11, <1>12, <1>13,
       <1>15, <1>16 DEF Step

LEMMA InitShape == Init => JournalInv /\ ImagesInv
  <1> SUFFICES ASSUME Init PROVE JournalInv /\ ImagesInv
    OBVIOUS
  <1>1. JournalInv
    BY DEF Init, JournalInv, OwnersExclusive, MemoryShape, FileShape, Owner
  <1>2. ImagesInv
    BY RunOnceAssumption DEF Init, StoreInit, ImagesInv, DiskInImage, Says
  <1> QED
    BY <1>1, <1>2

LEMMA NextShape ==
  ASSUME TypeOK, JournalInv, [Next]_vars
  PROVE  JournalInv'
  <1>0. MadeGrows
    BY RunsGrow
  <1>1. ASSUME NEW o \in Operators, Step(o)
        PROVE  JournalInv'
    <2>1. MemoryShape(o)' /\ FileShape(o)'
      BY <1>1, StepShape
    <2>2. pc[o] \in Owner \/ disk[path[o]] = NoFile \/ UNCHANGED store
      BY <1>1, StepFrame
    <2>3. pc'[o] \in Owner => pc[o] \in Owner \/ disk[path[o]] = NoFile
      BY <1>1, StepFrame
    <2>4. /\ path' = path /\ \A p \in Paths : p # path[o] => disk'[p] = disk[p]
          /\ \A q \in Operators : q # o =>
               pc'[q] = pc[q] /\ mem'[q] = mem[q] /\ goal'[q] = goal[q]
      BY <1>1, StepFrame
    <2> QED
      BY <1>0, <2>1, <2>2, <2>3, <2>4, LocalStep
  <1>2. ASSUME NEW o \in Operators, NEW p \in Paths, Start(o, p)
        PROVE  JournalInv'
    <2>1. /\ UNCHANGED <<store, mem, goal>> /\ pc'[o] \in {"failed", "preflight"}
          /\ \A q \in Operators : q # o => pc'[q] = pc[q] /\ path'[q] = path[q]
      BY <1>2 DEF Start, Goto, TypeOK
    <2>2. MemoryShape(o)' /\ FileShape(o)' /\ pc'[o] \notin Owner
      BY <2>1 DEF MemoryShape, FileShape, Owner
    <2> QED
      BY <1>0, <2>1, <2>2, LocalStep DEF store
  <1>3. ASSUME NEW o \in Operators, ProcessCrash(o)
        PROVE  JournalInv'
    <2>1. /\ UNCHANGED <<store, path>> /\ pc'[o] = "dead"
          /\ \A q \in Operators : q # o =>
               pc'[q] = pc[q] /\ mem'[q] = mem[q] /\ goal'[q] = goal[q]
      BY <1>3 DEF ProcessCrash, Exit, Goto, TypeOK
    <2>2. MemoryShape(o)' /\ FileShape(o)' /\ pc'[o] \notin Owner
      BY <2>1 DEF MemoryShape, FileShape, Owner
    <2> QED
      BY <1>0, <2>1, <2>2, LocalStep DEF store
  <1>4. CASE MachineCrash
    <2>1. \A o \in Operators : pc'[o] \in Stopped
      BY <1>4 DEF MachineCrash, Working, Stopped, TypeOK
    <2> QED
      BY <2>1 DEF JournalInv, OwnersExclusive, MemoryShape, FileShape, Owner, Stopped
  <1>5. CASE UNCHANGED <<store, operator>>
    <2>1. \A j, p : Evidence(j, p, made) => Evidence(j, p, made')
      BY <1>0, EvidenceStays
    <2> QED
      BY <1>5, <2>1 DEF JournalInv, OwnersExclusive, MemoryShape, FileShape, Written,
                        Exists, store, operator
  <1>6. CASE Environment
    BY <1>4, <1>5, <1>6 DEF Environment, KaggleSchedules, KaggleDeclines,
                            ForeignRun, RunEnds
  <1> QED
    BY <1>1, <1>2, <1>3, <1>5, <1>6 DEF Next, vars

(* Where the contents a crash may leave come from.                         *)
LEMMA ImageSources ==
  ASSUME TypeOK, DiskInImage, [Next]_vars
  PROVE  /\ DiskInImage'
         /\ \A p \in Paths : \A content \in image'[p] :
              \/ content \in image[p] \/ content = Partial
              \/ \E o \in Operators : /\ pc[o] \in {"fill", "replace"}
                                      /\ path[o] = p /\ content = mem[o]
  <1>1. ASSUME NEW o \in Operators, Step(o)
        PROVE  /\ DiskInImage'
               /\ \A p \in Paths : \A content \in image'[p] :
                    \/ content \in image[p] \/ content = Partial
                    \/ /\ pc[o] \in {"fill", "replace"}
                       /\ path[o] = p /\ content = mem[o]
    <2>1. DiskInImage'
      BY <1>1, StepFrame
    <2>2. \A p \in Paths : p # path[o] => image'[p] = image[p]
      BY <1>1, StepFrame
    <2>3. \A content \in image'[path[o]] :
              \/ content \in image[path[o]]
              \/ content \in {Partial, disk[path[o]]}
              \/ pc[o] \in {"fill", "replace"} /\ content = mem[o]
      BY <1>1, StepFrame
    <2>4. disk[path[o]] \in image[path[o]]
      BY DEF DiskInImage, TypeOK
    <2> QED
      BY <2>1, <2>2, <2>3, <2>4
  <1>2. CASE MachineCrash
    BY <1>2 DEF MachineCrash, LoseVolatile, DiskInImage
  <1>3. CASE UNCHANGED store
    BY <1>3 DEF store, DiskInImage
  <1>4. CASE Environment
    BY <1>2, <1>3, <1>4 DEF Environment, KaggleSchedules, KaggleDeclines,
                            ForeignRun, RunEnds
  <1>5. ASSUME NEW o \in Operators,
               ProcessCrash(o) \/ \E p \in Paths : Start(o, p)
        PROVE  UNCHANGED store
    BY <1>5 DEF ProcessCrash, Start
  <1>6. UNCHANGED vars => UNCHANGED store
    BY DEF vars
  <1> QED
    BY <1>1, <1>3, <1>4, <1>5, <1>6 DEF Next

(* What is about to be written and carries a verdict.                      *)
LEMMA WrittenVerdict ==
  ASSUME TypeOK, JournalInv, NEW o \in Operators, pc[o] \in {"fill", "replace"}
  PROVE  /\ mem[o].state = "reconciled" => Evidence(mem[o], path[o], made)
         /\ mem[o].state = "not_scheduled" => pc[o] = "replace"
  <1>1. MemoryShape(o)
    BY DEF JournalInv
  <1>2. CASE pc[o] = "fill"
    BY <1>1, <1>2 DEF MemoryShape, Fresh, Prepared
  <1>3. CASE pc[o] = "replace"
    BY <1>1, <1>3 DEF MemoryShape, Written, Dispatched, Prepared, Undecided
  <1> QED
    BY <1>2, <1>3

LEMMA NextImages ==
  ASSUME TypeOK, JournalInv, ImagesInv, [Next]_vars
  PROVE  ImagesInv'
  <1>1. MadeGrows /\ DiskInImage'
    BY RunsGrow, ImageSources DEF ImagesInv
  <1>2. ASSUME NEW p \in Paths, NEW content \in image'[p], Says(content, "reconciled")
        PROVE  Evidence(content, p, made')
    <2>1. CASE content \in image[p]
      BY <1>1, <1>2, <2>1, EvidenceStays DEF ImagesInv
    <2>2. ASSUME NEW o \in Operators, pc[o] \in {"fill", "replace"},
                 path[o] = p, content = mem[o]
          PROVE  Evidence(content, p, made')
      <3>1. Evidence(mem[o], path[o], made)
        BY <1>2, <2>2, WrittenVerdict DEF Says
      <3> QED
        BY <1>1, <2>2, <3>1, EvidenceStays
    <2>3. content # Partial
      BY <1>2, RunOnceAssumption DEF Says
    <2> QED
      BY <2>1, <2>2, <2>3, ImageSources DEF ImagesInv
  <1> QED
    BY <1>1, <1>2 DEF ImagesInv

LEMMA VerdictInvariant == Spec => [](TypeOK /\ JournalInv /\ ImagesInv)
  <1>1. TypeOK /\ JournalInv /\ ImagesInv /\ [Next]_vars => JournalInv' /\ ImagesInv'
    BY NextShape, NextImages
  <1> QED
    BY <1>1, InitShape, TypeCorrect, PTL DEF Spec

(* A journal that says "reconciled", in any crash image, is accepted as    *)
(* evidence for its run, however many operators share its path.            *)
THEOREM ReconciledIsEvidenceProved == Spec => []ReconciledIsEvidence
  <1>1. TypeOK /\ ImagesInv => ReconciledIsEvidence
    BY DEF TypeOK, ImagesInv, ReconciledIsEvidence, Reconciled, Says, Evidence, Made
  <1> QED
    BY <1>1, VerdictInvariant, PTL

(* Journals only advance, whoever writes them and wherever steps fail.     *)
THEOREM JournalOnlyAdvancesProved == Spec => JournalOnlyAdvances
  <1> DEFINE Only == \A p \in Paths :
        \/ disk'[p] = disk[p] \/ crashes' # crashes
        \/ disk[p] \in {NoFile, Partial}
        \/ /\ Advances(disk[p], disk'[p])
           /\ disk'[p].before = disk[p].before
           /\ disk[p].dispatchFailure => disk'[p].dispatchFailure
           /\ disk[p].responseFailure => disk'[p].responseFailure
  <1>1. ASSUME TypeOK, JournalInv, [Next]_vars
        PROVE  Only
    <2>1. CASE UNCHANGED store
      BY <2>1 DEF store
    <2>2. ASSUME NEW o \in Operators, Step(o)
          PROVE  Only
      <3>1. \A p \in Paths : p # path[o] => disk'[p] = disk[p]
        BY <1>1, <2>2, StepFrame
      <3>2. disk'[path[o]] # disk[path[o]] =>
              \/ disk[path[o]] = NoFile
              \/ pc[o] = "fill"
              \/ pc[o] = "replace" /\ disk'[path[o]] = mem[o]
        BY <1>1, <2>2, StepFrame
      <3>3. /\ pc[o] = "fill" => disk[path[o]] = Partial
            /\ pc[o] = "replace" => Rewrites(disk[path[o]], mem[o])
        BY <1>1 DEF JournalInv, FileShape
      <3> QED
        BY <3>1, <3>2, <3>3 DEF Rewrites
    <2>3. ASSUME NEW o \in Operators,
                 ProcessCrash(o) \/ \E p \in Paths : Start(o, p)
          PROVE  UNCHANGED store
      BY <2>3 DEF ProcessCrash, Start
    <2>4. MachineCrash => crashes' # crashes
      BY <1>1, RunOnceAssumption DEF MachineCrash, TypeOK
    <2>5. Environment => UNCHANGED store \/ crashes' # crashes
      BY <2>4 DEF Environment, KaggleSchedules, KaggleDeclines, ForeignRun, RunEnds
    <2>6. UNCHANGED vars => UNCHANGED store
      BY DEF vars
    <2> QED
      BY <1>1, <2>1, <2>2, <2>3, <2>5, <2>6 DEF Next
  <1>2. TypeOK /\ JournalInv /\ [Next]_vars => [Only]_vars
    BY <1>1
  <1> QED
    BY <1>2, VerdictInvariant, PTL DEF Spec, JournalOnlyAdvances

-----------------------------------------------------------------------------
(* A refusal that Kaggle reported is final, and so is success, when the    *)
(* journal directories existed.                                            *)

PaidNothing(p) == calls[p] > 0 /\ PaidUnder(p) = {} /\ p \notin inflight

SkippedInv ==
  /\ \A p \in Paths : answer[p] = "skipped" => PaidNothing(p)
  /\ \A o \in Operators :
       pc[o] \in {"replace", "sync"} /\ mem[o].state = "not_scheduled"
         => PaidNothing(path[o])
  /\ \A p \in Paths : \A content \in image[p] :
       Says(content, "not_scheduled") => PaidNothing(p)

(* Nobody owns the path of a command that succeeded.                       *)
SettledInv ==
  \A o \in Operators : pc[o] = "ok" =>
    /\ image[path[o]] = {disk[path[o]]}
    /\ Says(disk[path[o]], "reconciled")
    /\ \A q \in Operators : pc[q] \in Owner => path[q] # path[o]

LEMMA NothingStaysPaid ==
  ASSUME TypeOK, BarrierInv, [Next]_vars, NEW p \in Paths, PaidNothing(p)
  PROVE  PaidNothing(p)'
  <1>1. UNCHANGED kaggle => PaidNothing(p)'
    BY DEF PaidNothing, PaidUnder, Made, kaggle
  <1>2. ASSUME NEW o \in Operators, Call(o)
        PROVE  PaidNothing(p)'
    <2>1. path[o] # p
      BY <1>2 DEF Call, BarrierInv, NotYetCalled, BeforeCall, PaidNothing
    <2> QED
      BY <1>2, <2>1 DEF Call, PaidNothing, PaidUnder, Made, TypeOK
  <1>3. ASSUME NEW q \in Paths, KaggleSchedules(q)
        PROVE  PaidNothing(p)'
    <2>1. PICK r \in Runs \ Made, m \in Models :
            made' = [made EXCEPT ![r] = [model |-> m, payer |-> q, terminal |-> FALSE]]
      BY <1>3 DEF KaggleSchedules
    <2>2. q # p /\ inflight' \subseteq inflight /\ calls' = calls
      BY <1>3 DEF KaggleSchedules, PaidNothing
    <2> QED
      BY <2>1, <2>2 DEF PaidNothing, PaidUnder, Made, TypeOK
  <1>4. ASSUME NEW q \in Paths, KaggleDeclines(q)
        PROVE  PaidNothing(p)'
    BY <1>4 DEF KaggleDeclines, PaidNothing, PaidUnder, Made
  <1>5. ASSUME NEW r \in Runs, NEW m \in Models, ForeignRun(r, m)
        PROVE  PaidNothing(p)'
    BY <1>5, RunOnceAssumption DEF ForeignRun, PaidNothing, PaidUnder, Made, TypeOK
  <1>6. ASSUME NEW r \in Runs, RunEnds(r)
        PROVE  PaidNothing(p)'
    <2>1. made[r] \in Run /\ UNCHANGED <<inflight, calls>>
      BY <1>6 DEF RunEnds, Made, TypeOK
    <2>2. made' = [made EXCEPT ![r] = [made[r] EXCEPT !.terminal = TRUE]]
      BY <1>6 DEF RunEnds
    <2>3. [made[r] EXCEPT !.terminal = TRUE].payer = made[r].payer
      BY <2>1 DEF Run
    <2>4. r \notin PaidUnder(p) /\ r \in Made
      BY <1>6 DEF PaidNothing, RunEnds
    <2> QED
      BY <2>1, <2>2, <2>3, <2>4 DEF PaidNothing, PaidUnder, Made, TypeOK
  <1>7. ASSUME NEW o \in Operators, Step(o), ~Call(o)
        PROVE  UNCHANGED kaggle
    BY <1>7 DEF Step, Preflight, PreflightFails, OpenJournal, FillJournal,
                SyncNewJournal, ReplaceJournal, SyncJournal, JournalWriteFails,
                Returned, Raised, ListingFails, NothingNew, SomethingNew, Exhausted
  <1>8. ASSUME NEW o \in Operators,
               ProcessCrash(o) \/ \E q \in Paths : Start(o, q)
        PROVE  UNCHANGED kaggle
    BY <1>8 DEF ProcessCrash, Start
  <1>9. MachineCrash \/ UNCHANGED vars => UNCHANGED kaggle
    BY DEF MachineCrash, vars
  <1> QED
    BY <1>1, <1>2, <1>3, <1>4, <1>5, <1>6, <1>7, <1>8, <1>9 DEF Next, Environment

(* Where a "skipped" answer and a "not_scheduled" journal come from.       *)
LEMMA SkippedSources ==
  ASSUME TypeOK, JournalInv, [Next]_vars
  PROVE  /\ \A p \in Paths : answer'[p] = "skipped" =>
              answer[p] = "skipped" \/ KaggleDeclines(p)
         /\ \A o \in Operators :
              pc'[o] \in {"replace", "sync"} /\ mem'[o].state = "not_scheduled" =>
                /\ path'[o] = path[o]
                /\ \/ pc[o] \in {"replace", "sync"} /\ mem[o].state = "not_scheduled"
                   \/ answer[path[o]] = "skipped"
  <1>1. ASSUME NEW p \in Paths, answer'[p] = "skipped"
        PROVE  answer[p] = "skipped" \/ KaggleDeclines(p)
    <2>1. answer'[p] = answer[p] \/ answer'[p] # "skipped" \/ KaggleDeclines(p)
      BY DEF Next, Environment, Step, Preflight, PreflightFails, OpenJournal,
             FillJournal, SyncNewJournal, ReplaceJournal, SyncJournal,
             JournalWriteFails, Call, Returned, Raised, ListingFails, NothingNew,
             SomethingNew, Exhausted, ProcessCrash, Start, KaggleSchedules,
             KaggleDeclines, ForeignRun, RunEnds, MachineCrash, vars, kaggle, TypeOK
    <2> QED
      BY <1>1, <2>1
  <1>2. ASSUME NEW o \in Operators, Step(o),
               pc'[o] \in {"replace", "sync"}, mem'[o].state = "not_scheduled"
        PROVE  \/ pc[o] \in {"replace", "sync"} /\ mem[o].state = "not_scheduled"
               \/ answer[path[o]] = "skipped"
    <2>1. MemoryShape(o)' /\ MemoryShape(o)
      BY <1>2, StepShape DEF JournalInv
    <2>2. goal'[o] = "failed"
      BY <1>2, <2>1 DEF MemoryShape, Written, Dispatched, Undecided, Prepared
    <2>3. mem[o] \in Journal /\ path[o] \in Paths
      BY DEF TypeOK
    <2>4. CASE ReplaceJournal(o)
      BY <1>2, <2>4 DEF ReplaceJournal
    <2>5. CASE Returned(o)
      <3>1. \/ answer[path[o]] = "skipped"
            \/ mem'[o] = [mem[o] EXCEPT !.state = "returned_unreconciled",
                                        !.response = answer[path[o]]]
            \/ mem'[o] = [mem[o] EXCEPT !.state = "ambiguous",
                                        !.responseFailure = TRUE, !.failure = TRUE]
        BY <2>5 DEF Returned, Persist, TypeOK
      <3> QED
        BY <1>2, <2>3, <3>1 DEF Journal
    <2>6. CASE Raised(o)
      <3>1. mem'[o] = [mem[o] EXCEPT !.state = "ambiguous",
                                    !.dispatchFailure = TRUE, !.failure = TRUE]
        BY <2>6 DEF Raised, Persist, TypeOK
      <3> QED
        BY <1>2, <2>3, <3>1 DEF Journal
    <2>7. CASE Preflight(o) \/ PreflightFails(o) \/ OpenJournal(o) \/ FillJournal(o)
               \/ SyncJournal(o) \/ JournalWriteFails(o) \/ Call(o)
      BY <1>2, <2>7 DEF Preflight, PreflightFails, OpenJournal, FillJournal,
             SyncJournal, JournalWriteFails, Call, Exit, Goto, TypeOK, Stopped
    <2>8. CASE ListingFails(o) \/ NothingNew(o)
      BY <1>2, <2>8 DEF ListingFails, NothingNew
    <2>9. CASE SyncNewJournal(o) \/ SomethingNew(o) \/ Exhausted(o)
      <3>1. goal'[o] \in {"call", "ambiguous", "ok"}
        BY <2>9 DEF SyncNewJournal, SomethingNew, MismatchAfter, BoundAfter,
                    Exhausted, Persist, TypeOK
      <3> QED
        BY <2>2, <3>1
    <2> QED
      BY <1>2, <2>4, <2>5, <2>6, <2>7, <2>8, <2>9 DEF Step
  <1>3. ASSUME NEW o \in Operators, NEW q \in Operators, Step(q), q # o
        PROVE  pc'[o] = pc[o] /\ mem'[o] = mem[o] /\ path'[o] = path[o]
    BY <1>3, StepFrame
  <1>4. ASSUME NEW o \in Operators, Step(o) PROVE path'[o] = path[o]
    BY <1>4, StepFrame
  <1>5. ASSUME NEW o \in Operators, NEW q \in Operators,
               ProcessCrash(q) \/ \E p \in Paths : Start(q, p)
        PROVE  \/ pc'[o] = pc[o] /\ mem'[o] = mem[o] /\ path'[o] = path[o]
               \/ pc'[o] \notin {"replace", "sync"}
    BY <1>5 DEF ProcessCrash, Start, Exit, Goto, TypeOK
  <1>6. ASSUME NEW o \in Operators, MachineCrash
        PROVE  pc'[o] \notin {"replace", "sync"}
    BY <1>6 DEF MachineCrash, Working, Stopped, TypeOK
  <1>7. UNCHANGED vars \/ (Environment /\ ~MachineCrash) => UNCHANGED operator
    BY DEF vars, Environment, KaggleSchedules, KaggleDeclines, ForeignRun, RunEnds
  <1>8. ASSUME NEW o \in Operators,
               pc'[o] \in {"replace", "sync"}, mem'[o].state = "not_scheduled"
        PROVE  /\ path'[o] = path[o]
               /\ \/ pc[o] \in {"replace", "sync"} /\ mem[o].state = "not_scheduled"
                  \/ answer[path[o]] = "skipped"
    <2>1. CASE UNCHANGED operator
      BY <1>8, <2>1 DEF operator
    <2>2. CASE \E q \in Operators : Step(q)
      BY <1>2, <1>3, <1>4, <1>8, <2>2
    <2>3. CASE \E q \in Operators :
                 ProcessCrash(q) \/ \E p \in Paths : Start(q, p)
      BY <1>5, <1>8, <2>3
    <2> QED
      BY <1>6, <1>7, <1>8, <2>1, <2>2, <2>3 DEF Next
  <1> QED
    BY <1>1, <1>8

LEMMA NextSkipped ==
  ASSUME TypeOK, JournalInv, ImagesInv, BarrierInv, RunsInv, SkippedInv, [Next]_vars
  PROVE  SkippedInv'
  <1>1. ASSUME NEW p \in Paths, answer'[p] = "skipped"
        PROVE  PaidNothing(p)'
    <2>1. CASE answer[p] = "skipped"
      BY <2>1, NothingStaysPaid DEF SkippedInv
    <2>2. CASE KaggleDeclines(p)
      BY <2>2 DEF KaggleDeclines, RunsInv, PaidNothing, PaidUnder, Made
    <2> QED
      BY <1>1, <2>1, <2>2, SkippedSources
  <1>2. ASSUME NEW o \in Operators,
               pc'[o] \in {"replace", "sync"}, mem'[o].state = "not_scheduled"
        PROVE  PaidNothing(path[o])'
    <2>1. /\ path'[o] = path[o] /\ path[o] \in Paths
          /\ \/ pc[o] \in {"replace", "sync"} /\ mem[o].state = "not_scheduled"
             \/ answer[path[o]] = "skipped"
      BY <1>2, SkippedSources DEF TypeOK
    <2>2. PaidNothing(path[o])
      BY <2>1 DEF SkippedInv
    <2>3. \A p \in Paths : PaidNothing(p) => PaidNothing(p)'
      BY NothingStaysPaid
    <2> QED
      BY <2>1, <2>2, <2>3 DEF PaidNothing, PaidUnder
  <1>3. ASSUME NEW p \in Paths, NEW content \in image'[p],
               Says(content, "not_scheduled")
        PROVE  PaidNothing(p)'
    <2>1. PaidNothing(p)
      <3>1. CASE content \in image[p]
        BY <1>3, <3>1 DEF SkippedInv
      <3>2. ASSUME NEW o \in Operators, pc[o] \in {"fill", "replace"},
                   path[o] = p, content = mem[o]
            PROVE  PaidNothing(p)
        BY <1>3, <3>2, WrittenVerdict DEF Says, SkippedInv
      <3>3. content # Partial
        BY <1>3, RunOnceAssumption DEF Says
      <3> QED
        BY <3>1, <3>2, <3>3, ImageSources DEF ImagesInv
    <2> QED
      BY <2>1, NothingStaysPaid
  <1> QED
    BY <1>1, <1>2, <1>3 DEF SkippedInv

LEMMA NextSettled ==
  ASSUME FreshParent = {}, TypeOK, JournalInv, ImagesInv, SettledInv, [Next]_vars
  PROVE  SettledInv'
  <1>1. ASSUME NEW o \in Operators, Step(o)
        PROVE  SettledInv'
    <2>1. ASSUME NEW q \in Operators, pc'[q] = "ok", q # o
          PROVE  /\ image'[path'[q]] = {disk'[path'[q]]}
                 /\ Says(disk'[path'[q]], "reconciled")
                 /\ \A s \in Operators : pc'[s] \in Owner => path'[s] # path'[q]
      <3>1. /\ pc[q] = "ok" /\ UNCHANGED path /\ path[q] \in Paths
            /\ \A s \in Operators : s # o => pc'[s] = pc[s]
        BY <1>1, <2>1, StepFrame DEF TypeOK
      <3>2. /\ image[path[q]] = {disk[path[q]]} /\ Says(disk[path[q]], "reconciled")
            /\ \A s \in Operators : pc[s] \in Owner => path[s] # path[q]
        BY <3>1 DEF SettledInv
      <3>3. disk[path[q]] # NoFile
        BY <3>2, RunOnceAssumption DEF Says
      <3>4. /\ disk'[path[q]] = disk[path[q]] /\ image'[path[q]] = image[path[q]]
            /\ pc'[o] \in Owner => path[o] # path[q]
        <4>1. \/ pc[o] \in Owner \/ disk[path[o]] = NoFile
              \/ (UNCHANGED store /\ pc'[o] \notin Owner)
          BY <1>1, StepFrame
        <4>2. \A p \in Paths : p # path[o] => disk'[p] = disk[p] /\ image'[p] = image[p]
          BY <1>1, StepFrame
        <4> QED
          BY <3>1, <3>2, <3>3, <4>1, <4>2 DEF store
      <3> QED
        BY <3>1, <3>2, <3>4
    <2>2. ASSUME pc'[o] = "ok"
          PROVE  /\ image'[path'[o]] = {disk'[path'[o]]}
                 /\ Says(disk'[path'[o]], "reconciled")
                 /\ \A s \in Operators : pc'[s] \in Owner => path'[s] # path'[o]
      <3>1. SyncJournal(o) /\ goal[o] = "ok"
        BY <1>1, <2>2
           DEF Step, Preflight, PreflightFails, OpenJournal, FillJournal,
             SyncNewJournal, ReplaceJournal, SyncJournal, JournalWriteFails, Call,
             Returned, Raised, ListingFails, NothingNew, SomethingNew, MismatchAfter,
             BoundAfter, Exhausted, Persist, Exit, Goto, TypeOK
      <3>2. /\ pc[o] = "sync" /\ path' = path /\ disk' = disk /\ path[o] \in Paths
            /\ image'[path[o]] = {disk[path[o]]} /\ mem[o] \in Journal
        BY <3>1 DEF SyncJournal, SyncDirectory, TypeOK
      <3>3. disk[path[o]] = mem[o] /\ mem[o].state = "reconciled"
        BY <3>1, <3>2 DEF JournalInv, MemoryShape, FileShape, Written
      <3>4. \A s \in Operators : s # o => pc'[s] = pc[s]
        BY <1>1, StepFrame
      <3>5. \A s \in Operators : s # o /\ pc[s] \in Owner => path[s] # path[o]
        BY <3>2 DEF JournalInv, OwnersExclusive, Owner
      <3> QED
        BY <2>2, <3>2, <3>3, <3>4, <3>5 DEF Says, Owner
    <2> QED
      BY <2>1, <2>2 DEF SettledInv
  <1>2. ASSUME NEW o \in Operators,
               ProcessCrash(o) \/ \E p \in Paths : Start(o, p)
        PROVE  SettledInv'
    BY <1>2 DEF ProcessCrash, Start, Exit, Goto, SettledInv, Owner, store, TypeOK
  <1>3. CASE MachineCrash
    <2>1. /\ path' = path
          /\ \A o \in Operators : pc'[o] \in Stopped /\ (pc'[o] = "ok" => pc[o] = "ok")
          /\ \A p \in Paths : disk'[p] \in image[p] /\ image'[p] = {disk'[p]}
      BY <1>3 DEF MachineCrash, LoseVolatile, Working, Stopped, TypeOK
    <2> QED
      BY <2>1 DEF SettledInv, Owner, Stopped, TypeOK
  <1>4. CASE UNCHANGED <<store, operator>>
    BY <1>4 DEF SettledInv, store, operator
  <1>5. CASE Environment
    BY <1>3, <1>4, <1>5 DEF Environment, KaggleSchedules, KaggleDeclines,
                            ForeignRun, RunEnds
  <1> QED
    BY <1>1, <1>2, <1>4, <1>5 DEF Next, vars

LEMMA SettledInvariant ==
  ASSUME FreshParent = {}
  PROVE  Spec => [](TypeOK /\ JournalInv /\ ImagesInv /\ SkippedInv /\ SettledInv)
  <1>1. Init => SkippedInv /\ SettledInv
    BY RunOnceAssumption DEF Init, StoreInit, SkippedInv, SettledInv, Says
  <1>2. TypeOK /\ JournalInv /\ ImagesInv /\ BarrierInv /\ RunsInv
          /\ SkippedInv /\ SettledInv /\ [Next]_vars
        => SkippedInv' /\ SettledInv'
    <2> SUFFICES ASSUME TypeOK, JournalInv, ImagesInv, BarrierInv, RunsInv,
                        SkippedInv, SettledInv, [Next]_vars
                 PROVE  SkippedInv' /\ SettledInv'
      OBVIOUS
    <2>1. SkippedInv'
      BY NextSkipped
    <2>2. SettledInv'
      BY NextSettled
    <2> QED
      BY <2>1, <2>2
  <1> QED
    BY <1>1, <1>2, VerdictInvariant, RunsInvariant, PTL DEF Spec

(* "not_scheduled" is conclusive in every crash image: nothing was or will *)
(* be paid for under that path.                                            *)
THEOREM SkippedMeansUnpaidProved ==
  ASSUME FreshParent = {}
  PROVE  Spec => []SkippedMeansUnpaid
  <1>1. TypeOK /\ SkippedInv => SkippedMeansUnpaid
    BY DEF TypeOK, SkippedInv, SkippedMeansUnpaid, Says, PaidNothing
  <1> QED
    BY <1>1, SettledInvariant, PTL

(* Exit status 0 leaves a durable journal that names a run, and no other   *)
(* operator ever rewrites it.                                              *)
THEOREM SuccessIsDurableProved ==
  ASSUME FreshParent = {}
  PROVE  Spec => []SuccessIsDurable
  <1>1. TypeOK /\ ImagesInv /\ SettledInv => SuccessIsDurable
    BY DEF TypeOK, ImagesInv, DiskInImage, SettledInv, SuccessIsDurable, Says, Evidence
  <1> QED
    BY <1>1, SettledInvariant, PTL
=============================================================================
