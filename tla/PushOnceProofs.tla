---------------------------- MODULE PushOnceProofs ----------------------------
(***************************************************************************)
(* PushOnce: type correctness, the dispatch barrier it shares with         *)
(* RunOnce, and the truth of what its journals and its exit status say,    *)
(* for any number of operators, paths, versions, starts and crashes.       *)
(***************************************************************************)
EXTENDS PushOnce, FiniteSetTheorems, TLAPS

LEMMA PreparedType ==
  ASSUME NEW prior \in Nat
  PROVE  Prepared(prior) \in Journal
  BY DEF Prepared, Journal, States

(* The store operations keep disk and image typed.                         *)
LEMMA StoreType ==
  ASSUME TypeOK, NEW p \in Paths, NEW j \in Journal,
         \/ OpenExclusive(p)
         \/ FillAndSync(p, j)
         \/ FillFails(p, j)
         \/ Replace(p, j)
         \/ SyncDirectory(p)
         \/ LoseVolatile
         \/ UNCHANGED store
  PROVE  /\ disk' \in [Paths -> Journal \cup {NoFile, Partial}]
         /\ image' \in [Paths -> SUBSET (Journal \cup {NoFile, Partial})]
  <1> USE DEF TypeOK
  <1>1. CASE OpenExclusive(p)
    BY <1>1 DEF OpenExclusive
  <1>2. CASE FillAndSync(p, j)
    BY <1>2 DEF FillAndSync
  <1>3. CASE FillFails(p, j)
    BY <1>3 DEF FillFails
  <1>4. CASE Replace(p, j)
    BY <1>4 DEF Replace
  <1>5. CASE SyncDirectory(p)
    BY <1>5 DEF SyncDirectory
  <1>6. CASE LoseVolatile
    BY <1>6 DEF LoseVolatile
  <1>7. CASE UNCHANGED store
    BY <1>7 DEF store
  <1> QED
    BY <1>1, <1>2, <1>3, <1>4, <1>5, <1>6, <1>7

(* What each helper leaves of the operator variables.                      *)
LEMMA PersistType ==
  ASSUME TypeOK, NEW o \in Operators, NEW j \in Journal,
         NEW next \in Stopped \cup {"call"}, Persist(o, j, next)
  PROVE  /\ pc' \in [Operators -> Stopped \cup Working]
         /\ mem' \in [Operators -> Journal]
         /\ goal' \in [Operators -> Stopped \cup {"call"}]
  BY DEF TypeOK, Persist, Goto, Working

LEMMA Persisted ==
  ASSUME TypeOK, NEW o \in Operators, NEW j, NEW next, Persist(o, j, next)
  PROVE  pc'[o] = "replace" /\ mem'[o] = j /\ goal'[o] = next
  BY DEF TypeOK, Persist, Goto

LEMMA ExitType ==
  ASSUME TypeOK, NEW o \in Operators, NEW label \in Stopped, Exit(o, label)
  PROVE  /\ pc' \in [Operators -> Stopped \cup Working]
         /\ mem' \in [Operators -> Journal]
         /\ goal' \in [Operators -> Stopped \cup {"call"}]
  <1>1. Prepared(0) \in Journal
    BY PreparedType
  <1> QED
    BY <1>1 DEF TypeOK, Exit, Goto, Stopped

(* The three rewrites of the journal.                                      *)
LEMMA RewriteType ==
  ASSUME NEW j \in Journal, NEW v \in Nat
  PROVE  /\ [j EXCEPT !.state = "dispatching"] \in Journal
         /\ [j EXCEPT !.state = "returned", !.response = v] \in Journal
         /\ [j EXCEPT !.state = "ambiguous", !.failure = TRUE] \in Journal
  BY DEF Journal, States

LEMMA InitType == Init => TypeOK
  <1> SUFFICES ASSUME Init PROVE TypeOK
    OBVIOUS
  <1>1. Prepared(0) \in Journal
    BY PreparedType
  <1>2. versions \in Seq(Version)
    BY DEF Init
  <1> QED
    BY <1>1, <1>2, PushOnceAssumption
       DEF Init, StoreInit, TypeOK, Stopped, Saying, Answer

(* The version of an answer is a number.                                   *)
LEMMA StepType ==
  ASSUME TypeOK, NEW o \in Operators, Step(o)
  PROVE  TypeOK'
  <1>0. path[o] \in Paths /\ mem[o] \in Journal
    BY DEF TypeOK
  <1>1. CASE Preflight(o)
    <2>1. PICK prior \in {0} \cup {v \in DOMAIN versions : versions[v].terminal} :
            mem' = [mem EXCEPT ![o] = Prepared(prior)]
      BY <1>1 DEF Preflight
    <2>2. prior \in Nat
      BY <2>1 DEF TypeOK
    <2>3. Prepared(prior) \in Journal
      BY <2>2, PreparedType
    <2> QED
      BY <1>1, <2>1, <2>3 DEF Preflight, Goto, TypeOK, store, kaggle, Working
  <1>2. CASE PreflightFails(o)
    BY <1>2, ExitType DEF PreflightFails, TypeOK, store, kaggle, Stopped
  <1>3. CASE OpenJournal(o)
    <2>1. \/ OpenExclusive(path[o]) /\ Goto(o, "fill") /\ UNCHANGED <<mem, goal>>
          \/ Exit(o, "failed") /\ UNCHANGED store
      BY <1>3 DEF OpenJournal
    <2>2. UNCHANGED <<path, starts, kaggle, crashes>>
      BY <1>3 DEF OpenJournal
    <2>3. /\ disk' \in [Paths -> Journal \cup {NoFile, Partial}]
          /\ image' \in [Paths -> SUBSET (Journal \cup {NoFile, Partial})]
      BY <1>0, <2>1, StoreType
    <2> QED
      BY <2>1, <2>2, <2>3, ExitType DEF TypeOK, kaggle, Goto, Working, Stopped
  <1>4. CASE FillJournal(o)
    <2>1. \/ FillAndSync(path[o], mem[o]) /\ Goto(o, "syncNew")
             /\ UNCHANGED <<mem, goal>>
          \/ FillFails(path[o], mem[o]) /\ Exit(o, "failed")
      BY <1>4 DEF FillJournal
    <2>2. UNCHANGED <<path, starts, kaggle, crashes>>
      BY <1>4 DEF FillJournal
    <2>3. /\ disk' \in [Paths -> Journal \cup {NoFile, Partial}]
          /\ image' \in [Paths -> SUBSET (Journal \cup {NoFile, Partial})]
      BY <1>0, <2>1, StoreType
    <2> QED
      BY <2>1, <2>2, <2>3, ExitType DEF TypeOK, kaggle, Goto, Working, Stopped
  <1>5. CASE SyncNewJournal(o)
    <2>1. [mem[o] EXCEPT !.state = "dispatching"] \in Journal
      BY <1>0, RewriteType
    <2>2. /\ disk' \in [Paths -> Journal \cup {NoFile, Partial}]
          /\ image' \in [Paths -> SUBSET (Journal \cup {NoFile, Partial})]
      BY <1>0, <1>5, StoreType DEF SyncNewJournal
    <2> QED
      BY <1>5, <2>1, <2>2, PersistType DEF SyncNewJournal, TypeOK, kaggle
  <1>6. CASE ReplaceJournal(o)
    <2>1. /\ disk' \in [Paths -> Journal \cup {NoFile, Partial}]
          /\ image' \in [Paths -> SUBSET (Journal \cup {NoFile, Partial})]
      BY <1>0, <1>6, StoreType DEF ReplaceJournal
    <2> QED
      BY <1>6, <2>1 DEF ReplaceJournal, TypeOK, kaggle, Goto, Working
  <1>7. CASE SyncJournal(o)
    <2>1. /\ disk' \in [Paths -> Journal \cup {NoFile, Partial}]
          /\ image' \in [Paths -> SUBSET (Journal \cup {NoFile, Partial})]
      BY <1>0, <1>7, StoreType DEF SyncJournal
    <2>2. UNCHANGED <<path, starts, kaggle, crashes>>
      BY <1>7 DEF SyncJournal
    <2>3. CASE goal[o] \in Stopped
      BY <1>7, <2>1, <2>2, <2>3, ExitType DEF SyncJournal, TypeOK, kaggle
    <2>4. CASE goal[o] \notin Stopped
      BY <1>7, <2>1, <2>2, <2>4 DEF SyncJournal, TypeOK, kaggle, Goto, Working
    <2> QED
      BY <2>3, <2>4
  <1>8. CASE JournalWriteFails(o)
    BY <1>8, ExitType DEF JournalWriteFails, TypeOK, store, kaggle, Stopped
  <1>9. CASE Call(o)
    <2>1. Saying("nothing") \in Answer
      BY DEF Saying, Answer
    <2> QED
      BY <1>0, <1>9, <2>1 DEF Call, Goto, TypeOK, store, Working
  <1>10. CASE Returned(o)
    <2>1. answer[path[o]].version \in Nat
      BY <1>0 DEF TypeOK, Answer
    <2>2. [mem[o] EXCEPT !.state = "returned",
                         !.response = answer[path[o]].version] \in Journal
      BY <1>0, <2>1, RewriteType
    <2> QED
      BY <1>10, <2>2, PersistType DEF Returned, TypeOK, store, kaggle, Stopped
  <1>11. CASE Raised(o)
    <2>1. [mem[o] EXCEPT !.state = "ambiguous", !.failure = TRUE] \in Journal
      BY <1>0, RewriteType
    <2> QED
      BY <1>11, <2>1, PersistType DEF Raised, TypeOK, store, kaggle, Stopped
  <1> QED
    BY <1>1, <1>2, <1>3, <1>4, <1>5, <1>6, <1>7, <1>8, <1>9, <1>10, <1>11
       DEF Step

(* One more version, or one whose creation has ended.                      *)
LEMMA VersionsType ==
  ASSUME TypeOK
  PROVE  /\ \A v \in Version : Append(versions, v) \in Seq(Version)
         /\ \A v \in DOMAIN versions :
              /\ [versions EXCEPT ![v].terminal = TRUE] \in Seq(Version)
              /\ DOMAIN [versions EXCEPT ![v].terminal = TRUE] = DOMAIN versions
              /\ Len([versions EXCEPT ![v].terminal = TRUE]) = Len(versions)
              /\ \A u \in DOMAIN versions :
                   [versions EXCEPT ![v].terminal = TRUE][u].payer = versions[u].payer
  <1>1. versions \in Seq(Version)
    BY DEF TypeOK
  <1>2. ASSUME NEW v \in DOMAIN versions
        PROVE  /\ [versions EXCEPT ![v].terminal = TRUE] \in Seq(Version)
               /\ DOMAIN [versions EXCEPT ![v].terminal = TRUE] = DOMAIN versions
               /\ Len([versions EXCEPT ![v].terminal = TRUE]) = Len(versions)
               /\ \A u \in DOMAIN versions :
                    [versions EXCEPT ![v].terminal = TRUE][u].payer = versions[u].payer
    <2>1. /\ [versions[v] EXCEPT !.terminal = TRUE] \in Version
          /\ [versions[v] EXCEPT !.terminal = TRUE].payer = versions[v].payer
      <3>1. versions[v] \in Version
        BY <1>1
      <3> QED
        BY <3>1 DEF Version
    <2> QED
      BY <1>1, <2>1
  <1> QED
    BY <1>1, <1>2

LEMMA EnvironmentType ==
  ASSUME TypeOK, Environment
  PROVE  TypeOK'
  <1>1. ASSUME NEW p \in Paths, KaggleCreates(p)
        PROVE  TypeOK'
    <2>1. [payer |-> p, terminal |-> FALSE] \in Version
      BY DEF Version
    <2>2. versions' \in Seq(Version)
      BY <1>1, <2>1, VersionsType DEF KaggleCreates
    <2>3. Len(versions) + 1 \in Nat
      BY DEF TypeOK
    <2>4. \A said \in {"nothing", "bad", "created"} :
            [said |-> said, version |-> IF said = "created" THEN Len(versions) + 1 ELSE 0]
              \in Answer
      BY <2>3 DEF Answer
    <2>5. answer' \in [Paths -> Answer]
      BY <1>1, <2>4 DEF KaggleCreates, TypeOK
    <2> QED
      BY <1>1, <2>2, <2>5 DEF KaggleCreates, TypeOK, store, operator
  <1>2. ASSUME NEW p \in Paths, KaggleDeclines(p)
        PROVE  TypeOK'
    <2>1. \A said \in {"nothing", "bad"} : Saying(said) \in Answer
      BY DEF Saying, Answer
    <2> QED
      BY <1>2, <2>1 DEF KaggleDeclines, TypeOK, store, operator
  <1>3. CASE ForeignVersion
    <2>1. [payer |-> Foreign, terminal |-> FALSE] \in Version
      BY DEF Version
    <2> QED
      BY <1>3, <2>1, VersionsType DEF ForeignVersion, TypeOK, store, operator
  <1>4. ASSUME NEW v \in 1..MaxVersions, CreationEnds(v)
        PROVE  TypeOK'
    BY <1>4, VersionsType DEF CreationEnds, TypeOK, store, operator
  <1>5. CASE MachineCrash
    <2>1. /\ disk' \in [Paths -> Journal \cup {NoFile, Partial}]
          /\ image' \in [Paths -> SUBSET (Journal \cup {NoFile, Partial})]
      BY <1>5 DEF MachineCrash, LoseVolatile, TypeOK
    <2>2. Prepared(0) \in Journal
      BY PreparedType
    <2>3. crashes' \in 0..MaxCrashes
      BY <1>5, PushOnceAssumption DEF MachineCrash, TypeOK
    <2> QED
      BY <1>5, <2>1, <2>2, <2>3 DEF MachineCrash, TypeOK, kaggle, Stopped
  <1> QED
    BY <1>1, <1>2, <1>3, <1>4, <1>5 DEF Environment

LEMMA NextType == TypeOK /\ [Next]_vars => TypeOK'
  <1> SUFFICES ASSUME TypeOK, [Next]_vars PROVE TypeOK'
    OBVIOUS
  <1>1. ASSUME NEW o \in Operators, NEW p \in Paths, Start(o, p)
        PROVE  TypeOK'
    BY <1>1 DEF Start, TypeOK, Goto, store, kaggle, Stopped, Working
  <1>2. ASSUME NEW o \in Operators, Step(o)
        PROVE  TypeOK'
    BY <1>2, StepType
  <1>3. ASSUME NEW o \in Operators, ProcessCrash(o)
        PROVE  TypeOK'
    BY <1>3, ExitType DEF ProcessCrash, TypeOK, store, kaggle, Stopped
  <1>4. CASE Environment
    BY <1>4, EnvironmentType
  <1>5. CASE UNCHANGED vars
    BY <1>5 DEF vars, store, operator, kaggle, TypeOK
  <1> QED
    BY <1>1, <1>2, <1>3, <1>4, <1>5 DEF Next

(* Every variable keeps its type.                                          *)
THEOREM TypeCorrect == Spec => []TypeOK
  BY InitType, NextType, PTL DEF Spec

-----------------------------------------------------------------------------
(* The inductive invariant.  A process owns its path from the exclusive    *)
(* open on; owners are exclusive; until the owner calls, no call was sent; *)
(* from "call" on the path is blocked in every image.                      *)

Owner == {"fill", "syncNew", "replace", "sync", "call", "await"}

BeforeCall(o) ==
  \/ pc[o] \in {"fill", "syncNew", "call"}
  \/ pc[o] \in {"replace", "sync"} /\ goal[o] = "call"

OwnersExclusive ==
  \A o1, o2 \in Operators :
    pc[o1] \in Owner /\ pc[o2] \in Owner /\ path[o1] = path[o2] => o1 = o2

OwnedExists == \A o \in Operators : pc[o] \in Owner => Exists(path[o])

NotYetCalled == \A o \in Operators : BeforeCall(o) => calls[path[o]] = 0

WritesBlock ==
  \A o \in Operators :
    /\ pc[o] \in {"replace", "sync"} => mem[o].state # "prepared"
    /\ pc[o] = "sync" => disk[path[o]] = mem[o]
    /\ pc[o] = "call" => \A content \in image[path[o]] : Blocks(content)

DiskInImage == \A p \in Paths : disk[p] \in image[p]

OneCall == \A p \in Paths : calls[p] <= 1

SentBlocks ==
  \A p \in Paths : calls[p] > 0 => \A content \in image[p] : Blocks(content)

BarrierInv ==
  /\ OwnersExclusive
  /\ OwnedExists
  /\ NotYetCalled
  /\ WritesBlock
  /\ DiskInImage
  /\ OneCall
  /\ SentBlocks

LEMMA InitBarrier == Init => BarrierInv
  BY DEF Init, StoreInit, BarrierInv, OwnersExclusive, OwnedExists, NotYetCalled,
         BeforeCall, WritesBlock, DiskInImage, OneCall, SentBlocks, Owner

(* Steps that neither write the store nor send a call, and after which the *)
(* process owns its path only if it did before, preserve the invariant.    *)
LEMMA QuietStep ==
  ASSUME TypeOK, BarrierInv, NEW o \in Operators,
         UNCHANGED <<store, calls>>,
         \A q \in Operators : q # o => /\ pc'[q] = pc[q] /\ path'[q] = path[q]
                                      /\ mem'[q] = mem[q] /\ goal'[q] = goal[q],
         \/ pc'[o] \notin Owner
         \/ /\ pc[o] \in Owner /\ path'[o] = path[o] /\ pc'[o] = "replace"
            /\ mem'[o].state # "prepared"
            /\ goal'[o] = "call" => calls[path[o]] = 0
  PROVE  BarrierInv'
  <1> USE DEF BarrierInv, store, Owner
  <1>1. OwnersExclusive'
    BY DEF OwnersExclusive
  <1>2. OwnedExists'
    BY DEF OwnedExists, Exists
  <1>3. NotYetCalled'
    BY DEF NotYetCalled, BeforeCall
  <1>4. WritesBlock'
    BY DEF WritesBlock
  <1>5. DiskInImage' /\ OneCall' /\ SentBlocks'
    BY DEF DiskInImage, OneCall, SentBlocks
  <1> QED
    BY <1>1, <1>2, <1>3, <1>4, <1>5

(* A journal in a state later than "prepared" blocks.                      *)
LEMMA LaterBlocks ==
  ASSUME NEW j \in Journal, j.state # "prepared"
  PROVE  Blocks(j)
  BY PushOnceAssumption DEF Blocks

(* The types the barrier needs.                                            *)
LEMMA ProcessType ==
  ASSUME TypeOK
  PROVE  /\ disk \in [Paths -> Journal \cup {NoFile, Partial}]
         /\ image \in [Paths -> SUBSET (Journal \cup {NoFile, Partial})]
         /\ pc \in [Operators -> Stopped \cup Working]
         /\ path \in [Operators -> Paths]
         /\ mem \in [Operators -> Journal]
         /\ goal \in [Operators -> Stopped \cup {"call"}]
         /\ calls \in [Paths -> Nat]
  BY DEF TypeOK

LEMMA StepBarrier ==
  ASSUME FreshParent = {}, TypeOK, BarrierInv, NEW o \in Operators, Step(o)
  PROVE  BarrierInv'
  <1>0. path[o] \in Paths /\ mem[o] \in Journal
    BY DEF TypeOK
  <1>1. CASE Preflight(o)
    BY <1>1, QuietStep DEF Preflight, Goto, kaggle, TypeOK, Owner
  <1>2. CASE PreflightFails(o)
    BY <1>2, QuietStep DEF PreflightFails, Exit, Goto, kaggle, TypeOK, Owner
  <1>3. CASE OpenJournal(o)
    <2>1. CASE Exit(o, "failed") /\ UNCHANGED store
      BY <1>3, <2>1, QuietStep DEF OpenJournal, Exit, Goto, kaggle, TypeOK, Owner
    <2>2. CASE OpenExclusive(path[o]) /\ Goto(o, "fill") /\ UNCHANGED <<mem, goal>>
      <3>1. UNCHANGED <<path, mem, goal, calls>> /\ pc' = [pc EXCEPT ![o] = "fill"]
        BY <1>3, <2>2 DEF OpenJournal, kaggle, Goto
      <3>2. /\ disk[path[o]] = NoFile
            /\ disk' = [disk EXCEPT ![path[o]] = Partial]
            /\ image' = [image EXCEPT ![path[o]] = image[path[o]] \cup {Partial}]
        BY <2>2 DEF OpenExclusive, Exists
      <3>3. calls[path[o]] = 0
        BY <1>0, <3>2, ProcessType DEF BarrierInv, DiskInImage, SentBlocks, Blocks
      <3>4. \A q \in Operators : pc[q] \in Owner => path[q] # path[o]
        BY <3>2 DEF BarrierInv, OwnedExists, Exists
      <3>5. OwnersExclusive' /\ OwnedExists'
        BY <1>0, <3>1, <3>2, <3>4, StoreAssumption
           DEF BarrierInv, OwnersExclusive, OwnedExists, Exists, Owner, TypeOK
      <3>6. NotYetCalled'
        BY <3>1, <3>3 DEF BarrierInv, NotYetCalled, BeforeCall, TypeOK
      <3>7. WritesBlock'
        BY <1>0, <3>1, <3>2, <3>4 DEF BarrierInv, WritesBlock, Owner, TypeOK
      <3>8. DiskInImage' /\ OneCall' /\ SentBlocks'
        BY <1>0, <3>1, <3>2, <3>3
           DEF BarrierInv, DiskInImage, OneCall, SentBlocks, TypeOK
      <3> QED
        BY <3>5, <3>6, <3>7, <3>8 DEF BarrierInv
    <2> QED
      BY <1>3, <2>1, <2>2 DEF OpenJournal
  <1>4. CASE FillJournal(o)
    <2>1. UNCHANGED <<path, calls>> /\ pc[o] = "fill"
      BY <1>4 DEF FillJournal, kaggle
    <2>2. calls[path[o]] = 0
      BY <2>1 DEF BarrierInv, NotYetCalled, BeforeCall
    <2>3. PICK left \in Journal \cup {Partial} :
            /\ left # NoFile
            /\ disk' = [disk EXCEPT ![path[o]] = left]
            /\ \E kept \in SUBSET image[path[o]] :
                 image' = [image EXCEPT ![path[o]] = kept \cup {left}]
      BY <1>0, <1>4, PushOnceAssumption, StoreAssumption
         DEF FillJournal, FillAndSync, FillFails
    <2>4. /\ pc'[o] \in {"syncNew", "failed"}
          /\ \A q \in Operators : q # o => /\ pc'[q] = pc[q]
                                          /\ mem'[q] = mem[q] /\ goal'[q] = goal[q]
      BY <1>4 DEF FillJournal, Goto, Exit, TypeOK
    <2>5. \A q \in Operators : q # o /\ pc[q] \in Owner => path[q] # path[o]
      BY <2>1 DEF BarrierInv, OwnersExclusive, Owner
    <2>6. OwnersExclusive' /\ OwnedExists'
      BY <1>0, <2>1, <2>3, <2>4, ProcessType
         DEF BarrierInv, OwnersExclusive, OwnedExists, Exists, Owner
    <2>7. NotYetCalled'
      BY <2>1, <2>2, <2>4 DEF BarrierInv, NotYetCalled, BeforeCall
    <2>8. WritesBlock'
      BY <1>0, <2>1, <2>3, <2>4, <2>5, ProcessType DEF BarrierInv, WritesBlock, Owner
    <2>9. DiskInImage' /\ OneCall' /\ SentBlocks'
      BY <1>0, <2>1, <2>2, <2>3
         DEF BarrierInv, DiskInImage, OneCall, SentBlocks, TypeOK
    <2> QED
      BY <2>6, <2>7, <2>8, <2>9 DEF BarrierInv
  <1>5. CASE SyncNewJournal(o)
    <2>1. /\ UNCHANGED <<path, calls, disk>> /\ pc[o] = "syncNew"
          /\ pc' = [pc EXCEPT ![o] = "replace"]
          /\ goal' = [goal EXCEPT ![o] = "call"]
          /\ mem' = [mem EXCEPT ![o] = [mem[o] EXCEPT !.state = "dispatching"]]
      BY <1>5 DEF SyncNewJournal, kaggle, SyncDirectory, Persist, Goto
    <2>2. calls[path[o]] = 0
      BY <2>1 DEF BarrierInv, NotYetCalled, BeforeCall
    <2>3. image' = [image EXCEPT ![path[o]] = {disk[path[o]]}]
      BY <1>5 DEF SyncNewJournal, SyncDirectory
    <2>4. mem'[o].state = "dispatching"
      BY <1>0, <2>1 DEF Journal, TypeOK
    <2>5. OwnersExclusive' /\ OwnedExists'
      BY <2>1 DEF BarrierInv, OwnersExclusive, OwnedExists, Exists, Owner, TypeOK
    <2>6. NotYetCalled'
      BY <2>1, <2>2 DEF BarrierInv, NotYetCalled, BeforeCall, TypeOK
    <2>7. WritesBlock'
      BY <1>0, <2>1, <2>3, <2>4
         DEF BarrierInv, WritesBlock, OwnersExclusive, Owner, TypeOK
    <2>8. DiskInImage' /\ OneCall' /\ SentBlocks'
      BY <1>0, <2>1, <2>2, <2>3
         DEF BarrierInv, DiskInImage, OneCall, SentBlocks, TypeOK
    <2> QED
      BY <2>5, <2>6, <2>7, <2>8 DEF BarrierInv
  <1>6. CASE ReplaceJournal(o)
    <2>1. /\ UNCHANGED <<path, mem, goal, calls>> /\ pc[o] = "replace"
          /\ pc' = [pc EXCEPT ![o] = "sync"]
          /\ disk' = [disk EXCEPT ![path[o]] = mem[o]]
          /\ image' = [image EXCEPT ![path[o]] = image[path[o]] \cup {mem[o]}]
      BY <1>6 DEF ReplaceJournal, kaggle, Goto, Replace
    <2>2. Blocks(mem[o]) /\ mem[o] # NoFile
      BY <1>0, <2>1, LaterBlocks DEF BarrierInv, WritesBlock, Blocks
    <2>3. \A q \in Operators : q # o /\ pc[q] \in Owner => path[q] # path[o]
      BY <2>1 DEF BarrierInv, OwnersExclusive, Owner
    <2>4. OwnersExclusive' /\ OwnedExists'
      BY <1>0, <2>1, <2>2
         DEF BarrierInv, OwnersExclusive, OwnedExists, Exists, Owner, TypeOK
    <2>5. NotYetCalled'
      BY <2>1 DEF BarrierInv, NotYetCalled, BeforeCall, TypeOK
    <2>6. WritesBlock'
      BY <1>0, <2>1, <2>2, <2>3 DEF BarrierInv, WritesBlock, Owner, TypeOK
    <2>7. DiskInImage' /\ OneCall' /\ SentBlocks'
      BY <1>0, <2>1, <2>2
         DEF BarrierInv, DiskInImage, OneCall, SentBlocks, TypeOK
    <2> QED
      BY <2>4, <2>5, <2>6, <2>7 DEF BarrierInv
  <1>7. CASE SyncJournal(o)
    <2>1. /\ UNCHANGED <<path, calls, disk>> /\ pc[o] = "sync"
          /\ pc' = [pc EXCEPT ![o] = goal[o]]
          /\ goal[o] \in Stopped \cup {"call"}
          /\ \A q \in Operators : q # o => mem'[q] = mem[q] /\ goal'[q] = goal[q]
      BY <1>7 DEF SyncJournal, kaggle, SyncDirectory, Exit, Goto, TypeOK
    <2>2. image' = [image EXCEPT ![path[o]] = {disk[path[o]]}]
      BY <1>7 DEF SyncJournal, SyncDirectory
    <2>3. disk[path[o]] = mem[o] /\ Blocks(mem[o])
      BY <1>0, <2>1, LaterBlocks DEF BarrierInv, WritesBlock
    <2>4. OwnersExclusive' /\ OwnedExists'
      BY <2>1 DEF BarrierInv, OwnersExclusive, OwnedExists, Exists, Owner, TypeOK
    <2>5. NotYetCalled'
      BY <2>1 DEF BarrierInv, NotYetCalled, BeforeCall, TypeOK, Stopped
    <2>6. WritesBlock'
      BY <1>0, <2>1, <2>2, <2>3
         DEF BarrierInv, WritesBlock, OwnersExclusive, Owner, TypeOK, Stopped
    <2>7. DiskInImage' /\ OneCall' /\ SentBlocks'
      BY <1>0, <2>1, <2>2, <2>3
         DEF BarrierInv, DiskInImage, OneCall, SentBlocks, TypeOK
    <2> QED
      BY <2>4, <2>5, <2>6, <2>7 DEF BarrierInv
  <1>8. CASE JournalWriteFails(o)
    BY <1>8, QuietStep DEF JournalWriteFails, Exit, Goto, kaggle, TypeOK, Owner
  <1>9. CASE Call(o)
    <2>1. /\ UNCHANGED <<store, path, mem, goal>> /\ pc[o] = "call"
          /\ pc' = [pc EXCEPT ![o] = "await"]
          /\ calls' = [calls EXCEPT ![path[o]] = calls[path[o]] + 1]
      BY <1>9 DEF Call, Goto
    <2>2. calls[path[o]] = 0 /\ \A content \in image[path[o]] : Blocks(content)
      BY <2>1 DEF BarrierInv, NotYetCalled, BeforeCall, WritesBlock
    <2>3. OwnersExclusive' /\ OwnedExists'
      BY <2>1 DEF BarrierInv, OwnersExclusive, OwnedExists, Exists, Owner, TypeOK, store
    <2>4. NotYetCalled'
      BY <1>0, <2>1
         DEF BarrierInv, NotYetCalled, BeforeCall, OwnersExclusive, Owner, TypeOK
    <2>5. WritesBlock' /\ DiskInImage'
      BY <2>1 DEF BarrierInv, WritesBlock, DiskInImage, TypeOK, store
    <2>6. OneCall' /\ SentBlocks'
      BY <1>0, <2>1, <2>2
         DEF BarrierInv, OneCall, SentBlocks, TypeOK, store
    <2> QED
      BY <2>3, <2>4, <2>5, <2>6 DEF BarrierInv
  <1>10. CASE Returned(o) \/ Raised(o)
    <2>1. \E j \in Journal, next \in Stopped :
            Persist(o, j, next) /\ j.state \in {"returned", "ambiguous"}
      <3>1. [mem[o] EXCEPT !.state = "ambiguous", !.failure = TRUE] \in Journal
        BY <1>0, RewriteType
      <3>2. answer[path[o]].version \in Nat
        BY <1>0 DEF TypeOK, Answer
      <3>3. [mem[o] EXCEPT !.state = "returned",
                           !.response = answer[path[o]].version] \in Journal
        BY <1>0, <3>2, RewriteType
      <3> QED
        BY <1>0, <1>10, <3>1, <3>3 DEF Returned, Raised, Stopped, Journal
    <2>2. pc[o] = "await" /\ UNCHANGED <<store, path, calls>>
      BY <1>10 DEF Returned, Raised, kaggle
    <2> QED
      BY <2>1, <2>2, QuietStep DEF Persist, Goto, TypeOK, Owner, Stopped
  <1> QED
    BY <1>1, <1>2, <1>3, <1>4, <1>5, <1>6, <1>7, <1>8, <1>9, <1>10 DEF Step

LEMMA NextBarrier ==
  ASSUME FreshParent = {}
  PROVE  TypeOK /\ BarrierInv /\ [Next]_vars => BarrierInv'
  <1> SUFFICES ASSUME TypeOK, BarrierInv, [Next]_vars PROVE BarrierInv'
    OBVIOUS
  <1>1. ASSUME NEW o \in Operators, NEW p \in Paths, Start(o, p)
        PROVE  BarrierInv'
    BY <1>1, QuietStep DEF Start, Goto, kaggle, TypeOK, Owner
  <1>2. ASSUME NEW o \in Operators, Step(o)
        PROVE  BarrierInv'
    BY <1>2, StepBarrier
  <1>3. ASSUME NEW o \in Operators, ProcessCrash(o)
        PROVE  BarrierInv'
    BY <1>3, QuietStep DEF ProcessCrash, Exit, Goto, kaggle, TypeOK, Owner
  <1>4. CASE MachineCrash
    <2>1. \A o \in Operators : pc'[o] \notin Owner
      BY <1>4 DEF MachineCrash, Working, Stopped, Owner, TypeOK
    <2>2. /\ \A p \in Paths : disk'[p] \in image[p] /\ image'[p] = {disk'[p]}
          /\ UNCHANGED calls
      BY <1>4 DEF MachineCrash, LoseVolatile, kaggle
    <2> QED
      BY <2>1, <2>2
         DEF BarrierInv, OwnersExclusive, OwnedExists, NotYetCalled, BeforeCall,
             WritesBlock, DiskInImage, OneCall, SentBlocks, Owner
  <1>5. CASE UNCHANGED <<store, operator, calls>>
    BY <1>5 DEF BarrierInv, OwnersExclusive, OwnedExists, NotYetCalled, BeforeCall,
                WritesBlock, DiskInImage, OneCall, SentBlocks, Exists,
                store, operator
  <1>6. CASE Environment
    BY <1>4, <1>5, <1>6 DEF Environment, KaggleCreates, KaggleDeclines,
                            ForeignVersion, CreationEnds
  <1> QED
    BY <1>1, <1>2, <1>3, <1>5, <1>6 DEF Next, vars, kaggle

LEMMA BarrierInvariant ==
  ASSUME FreshParent = {}
  PROVE  Spec => []BarrierInv
  <1>1. TypeOK /\ BarrierInv /\ [Next]_vars => BarrierInv'
    BY NextBarrier
  <1> QED
    BY <1>1, InitBarrier, TypeCorrect, PTL DEF Spec

-----------------------------------------------------------------------------
(* PushOnce implements DispatchBarrier: at most one version is created     *)
(* under a path, because a request is handled at most once.                *)

(* A version once created keeps its number and its payer.                  *)
LEMMA AppendedVersion ==
  ASSUME TypeOK, NEW x \in Version, versions' = Append(versions, x)
  PROVE  /\ Len(versions') = Len(versions) + 1
         /\ \A q \in Paths : q = x.payer =>
              PaidUnder(q)' = PaidUnder(q) \cup {Len(versions) + 1}
         /\ \A q \in Paths : q # x.payer => PaidUnder(q)' = PaidUnder(q)
  <1>1. versions \in Seq(Version)
    BY DEF TypeOK
  <1>2. /\ Len(versions) \in Nat /\ DOMAIN versions = 1..Len(versions)
        /\ Len(versions') = Len(versions) + 1
        /\ DOMAIN versions' = 1..(Len(versions) + 1)
        /\ \A v \in 1..Len(versions) : versions'[v] = versions[v]
        /\ versions'[Len(versions) + 1] = x
    BY <1>1
  <1>3. \A q \in Paths : \A v :
          v \in PaidUnder(q)' <=> \/ v \in PaidUnder(q)
                                  \/ v = Len(versions) + 1 /\ q = x.payer
    BY <1>2 DEF PaidUnder
  <1> QED
    BY <1>2, <1>3

LEMMA EndedVersion ==
  ASSUME TypeOK, NEW v \in 1..MaxVersions, CreationEnds(v)
  PROVE  /\ Len(versions') = Len(versions)
         /\ \A q \in Paths : PaidUnder(q)' = PaidUnder(q)
  <1>1. /\ v \in DOMAIN versions
        /\ versions' = [versions EXCEPT ![v].terminal = TRUE]
    BY DEF CreationEnds
  <1>2. /\ DOMAIN versions' = DOMAIN versions
        /\ Len(versions') = Len(versions)
        /\ \A u \in DOMAIN versions : versions'[u].payer = versions[u].payer
    BY <1>1, VersionsType
  <1> QED
    BY <1>2 DEF PaidUnder

(* Which steps touch Kaggle's side, and how.                               *)
LEMMA KaggleSteps ==
  ASSUME TypeOK, [Next]_vars
  PROVE  \/ UNCHANGED <<versions, inflight, answer, calls>>
         \/ \E o \in Operators : Call(o)
         \/ \E p \in Paths : KaggleCreates(p)
         \/ \E p \in Paths : KaggleDeclines(p)
         \/ /\ UNCHANGED <<store, operator, inflight, answer, calls>>
            /\ Len(versions') >= Len(versions)
            /\ \A p \in Paths : PaidUnder(p)' = PaidUnder(p)
  <1>0. Len(versions) \in Nat
    BY DEF TypeOK
  <1>1. ASSUME NEW o \in Operators, Step(o), ~Call(o)
        PROVE  UNCHANGED kaggle
    BY <1>1 DEF Step, Preflight, PreflightFails, OpenJournal, FillJournal,
                SyncNewJournal, ReplaceJournal, SyncJournal, JournalWriteFails,
                Returned, Raised
  <1>2. ASSUME NEW o \in Operators,
               ProcessCrash(o) \/ \E p \in Paths : Start(o, p)
        PROVE  UNCHANGED kaggle
    BY <1>2 DEF ProcessCrash, Start
  <1>3. MachineCrash => UNCHANGED kaggle
    BY DEF MachineCrash
  <1>4. UNCHANGED vars => UNCHANGED kaggle
    BY DEF vars
  <1>5. CASE ForeignVersion
    <2>1. [payer |-> Foreign, terminal |-> FALSE] \in Version
      BY DEF Version
    <2> QED
      BY <1>0, <1>5, <2>1, AppendedVersion, PushOnceAssumption DEF ForeignVersion
  <1>6. ASSUME NEW v \in 1..MaxVersions, CreationEnds(v)
        PROVE  /\ UNCHANGED <<store, operator, inflight, answer, calls>>
               /\ Len(versions') >= Len(versions)
               /\ \A p \in Paths : PaidUnder(p)' = PaidUnder(p)
    <2>1. /\ Len(versions') = Len(versions)
          /\ \A p \in Paths : PaidUnder(p)' = PaidUnder(p)
      BY <1>6, EndedVersion
    <2>2. UNCHANGED <<store, operator, inflight, answer, calls>>
      BY <1>6 DEF CreationEnds
    <2> QED
      BY <1>0, <2>1, <2>2
  <1>7. UNCHANGED kaggle => UNCHANGED <<versions, inflight, answer, calls>>
    BY DEF kaggle
  <1> QED
    BY <1>1, <1>2, <1>3, <1>4, <1>5, <1>6, <1>7 DEF Next, Environment

(* A request creates one version of its own.                               *)
LEMMA Created ==
  ASSUME TypeOK, NEW p \in Paths, KaggleCreates(p)
  PROVE  /\ Len(versions') = Len(versions) + 1
         /\ PaidUnder(p)' = PaidUnder(p) \cup {Len(versions) + 1}
         /\ \A q \in Paths : q # p => PaidUnder(q)' = PaidUnder(q)
  <1>1. [payer |-> p, terminal |-> FALSE] \in Version
    BY DEF Version
  <1>2. versions' = Append(versions, [payer |-> p, terminal |-> FALSE])
    BY DEF KaggleCreates
  <1> QED
    BY <1>1, <1>2, AppendedVersion

VersionsInv ==
  /\ \A p \in inflight : calls[p] > 0 /\ PaidUnder(p) = {}
  /\ \A p \in Paths : PaidUnder(p) # {} => calls[p] > 0
  /\ \A p \in Paths : \A u, v \in PaidUnder(p) : u = v

LEMMA NextVersions == TypeOK /\ BarrierInv /\ VersionsInv /\ [Next]_vars => VersionsInv'
  <1> SUFFICES ASSUME TypeOK, BarrierInv, VersionsInv, [Next]_vars PROVE VersionsInv'
    OBVIOUS
  <1>1. CASE UNCHANGED <<versions, inflight, answer, calls>>
    BY <1>1 DEF VersionsInv, PaidUnder
  <1>2. ASSUME NEW o \in Operators, Call(o)
        PROVE  VersionsInv'
    <2>1. /\ path[o] \in Paths /\ calls[path[o]] = 0
          /\ versions' = versions /\ inflight' = inflight \cup {path[o]}
          /\ calls' = [calls EXCEPT ![path[o]] = calls[path[o]] + 1]
      BY <1>2 DEF Call, TypeOK, BarrierInv, NotYetCalled, BeforeCall
    <2>2. PaidUnder(path[o]) = {}
      BY <2>1 DEF VersionsInv
    <2>3. \A p \in Paths : PaidUnder(p)' = PaidUnder(p)
      BY <2>1 DEF PaidUnder
    <2>4. /\ \A p \in Paths : calls[p] > 0 => calls'[p] > 0
          /\ calls'[path[o]] > 0 /\ inflight \subseteq Paths
      BY <2>1 DEF TypeOK
    <2> QED
      BY <2>1, <2>2, <2>3, <2>4 DEF VersionsInv
  <1>3. ASSUME NEW p \in Paths, KaggleCreates(p)
        PROVE  VersionsInv'
    <2>1. p \in inflight /\ inflight' = inflight \ {p} /\ calls' = calls
      BY <1>3 DEF KaggleCreates
    <2>2. calls[p] > 0 /\ PaidUnder(p) = {} /\ inflight \subseteq Paths
      BY <2>1 DEF VersionsInv, TypeOK
    <2>3. /\ PaidUnder(p)' = {Len(versions) + 1}
          /\ \A q \in Paths : q # p => PaidUnder(q)' = PaidUnder(q)
      BY <1>3, <2>2, Created
    <2> QED
      BY <2>1, <2>2, <2>3 DEF VersionsInv
  <1>4. ASSUME UNCHANGED calls, inflight' \subseteq inflight,
               \A p \in Paths : PaidUnder(p)' = PaidUnder(p)
        PROVE  VersionsInv'
    BY <1>4 DEF VersionsInv, TypeOK
  <1>5. ASSUME NEW p \in Paths, KaggleDeclines(p)
        PROVE  VersionsInv'
    BY <1>4, <1>5 DEF KaggleDeclines, PaidUnder
  <1> QED
    BY <1>1, <1>2, <1>3, <1>4, <1>5, KaggleSteps

LEMMA VersionsInvariant ==
  ASSUME FreshParent = {}
  PROVE  Spec => [](TypeOK /\ BarrierInv /\ VersionsInv)
  <1>1. TypeOK /\ BarrierInv /\ VersionsInv /\ [Next]_vars => VersionsInv'
    BY NextVersions
  <1>2. Init => VersionsInv
    BY DEF Init, VersionsInv, PaidUnder
  <1> QED
    BY <1>1, <1>2, BarrierInvariant, TypeCorrect, PTL DEF Spec

(* How many versions a path created, as the refinement counts them.        *)
LEMMA PaidCount ==
  ASSUME VersionsInv, NEW p \in Paths
  PROVE  /\ PaidUnder(p) = {} => Cardinality(PaidUnder(p)) = 0
         /\ PaidUnder(p) # {} => Cardinality(PaidUnder(p)) = 1
  <1>1. PaidUnder(p) # {} => \E v : PaidUnder(p) = {v}
    BY DEF VersionsInv
  <1> QED
    BY <1>1, FS_EmptySet, FS_Singleton

LEMMA BarrierStep ==
  ASSUME TypeOK, BarrierInv, VersionsInv, BarrierInv', VersionsInv', [Next]_vars
  PROVE  [Barrier!BarrierNext]_(Barrier!barrierVars)
  <1> DEFINE arm == {p \in Paths : \A content \in image[p] : Blocks(content)}
             eff == [p \in Paths |-> Cardinality(PaidUnder(p))]
  <1>1. ASSUME UNCHANGED calls, \A p \in Paths : PaidUnder(p)' = PaidUnder(p)
        PROVE  Barrier!Settle
    <2>1. eff' = eff
      BY <1>1
    <2>2. \A p \in Paths : calls[p] > 0 => p \in arm'
      BY <1>1 DEF BarrierInv, SentBlocks
    <2> QED
      BY <1>1, <2>1, <2>2 DEF Barrier!Settle
  <1>2. ASSUME NEW o \in Operators, Call(o)
        PROVE  Barrier!Send(path[o])
    <2>1. /\ pc[o] = "call" /\ UNCHANGED <<store, versions>> /\ path[o] \in Paths
          /\ calls' = [calls EXCEPT ![path[o]] = calls[path[o]] + 1]
      BY <1>2 DEF Call, TypeOK
    <2>2. calls[path[o]] = 0 /\ path[o] \in arm
      BY <2>1 DEF BarrierInv, NotYetCalled, BeforeCall, WritesBlock
    <2>3. arm' = arm /\ eff' = eff
      BY <2>1 DEF store, Blocks, PaidUnder
    <2> QED
      BY <2>1, <2>2, <2>3 DEF Barrier!Send, TypeOK
  <1>3. ASSUME NEW p \in Paths, KaggleCreates(p)
        PROVE  Barrier!TakeEffect(p)
    <2>1. p \in inflight /\ UNCHANGED <<store, calls>>
      BY <1>3 DEF KaggleCreates
    <2>2. calls[p] = 1 /\ PaidUnder(p) = {}
      BY <2>1 DEF VersionsInv, BarrierInv, OneCall, TypeOK
    <2>3. /\ PaidUnder(p)' = {Len(versions) + 1}
          /\ \A q \in Paths : q # p => PaidUnder(q)' = PaidUnder(q)
      BY <1>3, <2>2, Created
    <2>4. Cardinality(PaidUnder(p)) = 0
      BY <2>2, PaidCount
    <2>5. Cardinality(PaidUnder(p)') = 1
      BY <2>3, FS_Singleton
    <2>6. eff' = [eff EXCEPT ![p] = 1]
      BY <2>3, <2>5
    <2>7. arm' = arm
      BY <2>1 DEF store, Blocks
    <2> QED
      BY <2>1, <2>2, <2>4, <2>6, <2>7 DEF Barrier!TakeEffect
  <1>4. ASSUME NEW p \in Paths, KaggleDeclines(p)
        PROVE  Barrier!Settle
    BY <1>1, <1>4 DEF KaggleDeclines, PaidUnder
  <1>5. UNCHANGED <<versions, inflight, answer, calls>> => Barrier!Settle
    BY <1>1 DEF PaidUnder
  <1>6. \A o \in Operators : path[o] \in Paths
    BY DEF TypeOK
  <1> QED
    BY <1>1, <1>2, <1>3, <1>4, <1>5, <1>6, KaggleSteps DEF Barrier!BarrierNext

(* Every push behaves as DispatchBarrier allows: armed before the create   *)
(* call, called at most once, armed for good, one version at most.         *)
THEOREM BarrierImplemented ==
  ASSUME FreshParent = {}
  PROVE  Spec => ImplementsBarrier
  <1>1. Init => Barrier!BarrierInit
    <2> SUFFICES ASSUME Init PROVE Barrier!BarrierInit
      OBVIOUS
    <2>1. \A p \in Paths : PaidUnder(p) = {}
      <3>1. \A p \in Paths : \A v : v \notin PaidUnder(p)
        BY DEF Init, PaidUnder
      <3> QED
        BY <3>1
    <2>2. calls = [p \in Paths |-> 0]
      BY DEF Init
    <2> QED
      BY <2>1, <2>2, FS_EmptySet DEF Barrier!BarrierInit
  <1>2. TypeOK /\ BarrierInv /\ VersionsInv /\ BarrierInv' /\ VersionsInv' /\ [Next]_vars
          => [Barrier!BarrierNext]_(Barrier!barrierVars)
    BY BarrierStep
  <1> QED
    BY <1>1, <1>2, VersionsInvariant, PTL DEF Spec, ImplementsBarrier, Barrier!BarrierSpec

-----------------------------------------------------------------------------
(* What a "returned" journal says is true: it names the version its own    *)
(* call created.  No owner is needed for this, nor a durable directory.    *)

Says(content, state) == content \notin {NoFile, Partial} /\ content.state = state

Names(v, prior, paid) == v \in paid /\ v > prior

NamesShape(o) ==
  /\ mem[o].prior <= Len(versions)
  /\ pc[o] \in {"open", "fill", "syncNew"} => mem[o].state = "prepared"
  /\ pc[o] = "await" /\ answer[path[o]].said = "created"
       => Names(answer[path[o]].version, mem[o].prior, PaidUnder(path[o]))
  /\ pc[o] \in {"replace", "sync"} /\ mem[o].state = "returned"
       => Names(mem[o].response, mem[o].prior, PaidUnder(path[o]))

ImagesName ==
  \A p \in Paths : \A content \in image[p] :
    Says(content, "returned") => Names(content.response, content.prior, PaidUnder(p))

NamesInv ==
  /\ DiskInImage
  /\ \A o \in Operators : NamesShape(o)
  /\ \A p \in Paths : answer[p].said = "created" => answer[p].version \in PaidUnder(p)
  /\ ImagesName

(* What a step of the command reaches: its own process, and the file at    *)
(* its own path, which it owns or creates.                                 *)
LEMMA StepFrame ==
  ASSUME TypeOK, NEW o \in Operators, Step(o)
  PROVE  /\ UNCHANGED path
         /\ \A q \in Operators : q # o =>
              pc'[q] = pc[q] /\ mem'[q] = mem[q] /\ goal'[q] = goal[q]
         /\ pc[o] \in Owner \/ disk[path[o]] = NoFile
            \/ (UNCHANGED store /\ pc'[o] \notin Owner)
         /\ \A p \in Paths : p # path[o] => disk'[p] = disk[p] /\ image'[p] = image[p]
         /\ \A content \in image'[path[o]] :
              \/ content \in image[path[o]]
              \/ content \in {Partial, disk[path[o]]}
              \/ pc[o] \in {"fill", "replace"} /\ content = mem[o]
         /\ DiskInImage => DiskInImage'
  <1>0. /\ path[o] \in Paths
        /\ disk \in [Paths -> Journal \cup {NoFile, Partial}]
        /\ image \in [Paths -> SUBSET (Journal \cup {NoFile, Partial})]
        /\ pc \in [Operators -> Stopped \cup Working]
        /\ mem \in [Operators -> Journal]
        /\ goal \in [Operators -> Stopped \cup {"call"}]
    BY DEF TypeOK
  <1> USE <1>0 DEF DiskInImage, Owner
  <1>1. CASE Preflight(o) \/ PreflightFails(o)
    BY <1>1 DEF Preflight, PreflightFails, Exit, Goto, kaggle, store
  <1>2. CASE OpenJournal(o)
    BY <1>2 DEF OpenJournal, OpenExclusive, Exists, Exit, Goto, store
  <1>3. CASE FillJournal(o)
    BY <1>3 DEF FillJournal, FillAndSync, FillFails, Exit, Goto
  <1>4. CASE SyncNewJournal(o)
    BY <1>4 DEF SyncNewJournal, SyncDirectory, Persist, Goto
  <1>5. CASE ReplaceJournal(o)
    BY <1>5 DEF ReplaceJournal, Replace, Goto
  <1>6. CASE SyncJournal(o)
    BY <1>6 DEF SyncJournal, SyncDirectory, Exit, Goto
  <1>7. CASE JournalWriteFails(o)
    BY <1>7 DEF JournalWriteFails, Exit, Goto, store
  <1>8. CASE Call(o)
    BY <1>8 DEF Call, Goto, store
  <1>9. CASE Returned(o) \/ Raised(o)
    BY <1>9 DEF Returned, Raised, Persist, Goto, store
  <1> QED
    BY <1>1, <1>2, <1>3, <1>4, <1>5, <1>6, <1>7, <1>8, <1>9 DEF Step

(* Where the contents a crash may leave come from.                         *)
LEMMA ImageSources ==
  ASSUME TypeOK, DiskInImage, [Next]_vars
  PROVE  /\ DiskInImage'
         /\ \A p \in Paths : \A content \in image'[p] :
              \/ content \in image[p] \/ content = Partial
              \/ \E o \in Operators : /\ pc[o] \in {"fill", "replace"}
                                      /\ path[o] = p /\ content = mem[o]
  <1>1. ASSUME NEW o \in Operators, Step(o)
        PROVE  /\ DiskInImage'
               /\ \A p \in Paths : \A content \in image'[p] :
                    \/ content \in image[p] \/ content = Partial
                    \/ /\ pc[o] \in {"fill", "replace"}
                       /\ path[o] = p /\ content = mem[o]
    <2>1. DiskInImage'
      BY <1>1, StepFrame
    <2>2. \A p \in Paths : p # path[o] => image'[p] = image[p]
      BY <1>1, StepFrame
    <2>3. \A content \in image'[path[o]] :
              \/ content \in image[path[o]]
              \/ content \in {Partial, disk[path[o]]}
              \/ pc[o] \in {"fill", "replace"} /\ content = mem[o]
      BY <1>1, StepFrame
    <2>4. disk[path[o]] \in image[path[o]]
      BY DEF DiskInImage, TypeOK
    <2> QED
      BY <2>1, <2>2, <2>3, <2>4
  <1>2. CASE MachineCrash
    BY <1>2 DEF MachineCrash, LoseVolatile, DiskInImage
  <1>3. CASE UNCHANGED store
    BY <1>3 DEF store, DiskInImage
  <1>4. CASE Environment
    BY <1>2, <1>3, <1>4 DEF Environment, KaggleCreates, KaggleDeclines,
                            ForeignVersion, CreationEnds
  <1>5. ASSUME NEW o \in Operators,
               ProcessCrash(o) \/ \E p \in Paths : Start(o, p)
        PROVE  UNCHANGED store
    BY <1>5 DEF ProcessCrash, Start
  <1>6. UNCHANGED vars => UNCHANGED store
    BY DEF vars
  <1> QED
    BY <1>1, <1>3, <1>4, <1>5, <1>6 DEF Next

(* Kaggle never forgets a version nor changes its payer.                   *)
LEMMA PaidGrows ==
  ASSUME TypeOK, [Next]_vars
  PROVE  /\ Len(versions) <= Len(versions')
         /\ \A p \in Paths : PaidUnder(p) \subseteq PaidUnder(p)'
  <1>0. Len(versions) \in Nat
    BY DEF TypeOK
  <1>1. ASSUME NEW p \in Paths, KaggleCreates(p)
        PROVE  /\ Len(versions) <= Len(versions')
               /\ \A q \in Paths : PaidUnder(q) \subseteq PaidUnder(q)'
    BY <1>0, <1>1, Created
  <1>2. versions' = versions => /\ Len(versions) <= Len(versions')
                                /\ \A q \in Paths : PaidUnder(q) \subseteq PaidUnder(q)'
    BY <1>0 DEF PaidUnder
  <1>3. (\E o \in Operators : Call(o)) \/ (\E p \in Paths : KaggleDeclines(p))
          => versions' = versions
    BY DEF Call, KaggleDeclines
  <1> QED
    BY <1>0, <1>1, <1>2, <1>3, KaggleSteps

LEMMA PaidBound ==
  ASSUME TypeOK, NEW p
  PROVE  PaidUnder(p) \subseteq 1..Len(versions) /\ Len(versions) \in Nat
  BY DEF TypeOK, PaidUnder

(* An answer that names a version names one of that path.                  *)
LEMMA NextAnswers ==
  ASSUME TypeOK, NamesInv, [Next]_vars, NEW p \in Paths, answer'[p].said = "created"
  PROVE  /\ answer'[p].version \in PaidUnder(p)'
         /\ \/ answer[p].said = "created" /\ answer'[p] = answer[p]
            \/ answer'[p].version > Len(versions)
  <1>0. Len(versions) \in Nat /\ answer \in [Paths -> Answer]
    BY DEF TypeOK
  <1>1. CASE answer'[p] = answer[p]
    BY <1>1, PaidGrows DEF NamesInv
  <1>2. ASSUME NEW o \in Operators, Call(o)
        PROVE  answer'[p] = answer[p]
    BY <1>0, <1>2 DEF Call, Saying
  <1>3. ASSUME NEW q \in Paths, KaggleDeclines(q)
        PROVE  answer'[p] = answer[p]
    BY <1>0, <1>3 DEF KaggleDeclines, Saying
  <1>4. ASSUME NEW q \in Paths, KaggleCreates(q), answer'[p] # answer[p]
        PROVE  answer'[p].version \in PaidUnder(p)' /\ answer'[p].version > Len(versions)
    <2>1. q = p
      BY <1>0, <1>4 DEF KaggleCreates
    <2>2. answer'[p].version = Len(versions) + 1
      BY <1>0, <1>4, <2>1 DEF KaggleCreates
    <2>3. PaidUnder(p)' = PaidUnder(p) \cup {Len(versions) + 1}
      BY <1>4, <2>1, Created
    <2> QED
      BY <1>0, <2>2, <2>3
  <1> QED
    BY <1>1, <1>2, <1>3, <1>4, KaggleSteps

(* A step of the command keeps the shape of its own memory.                *)
LEMMA StepNames ==
  ASSUME TypeOK, NamesInv, NEW o \in Operators, Step(o)
  PROVE  NamesShape(o)'
  <1>0. /\ path[o] \in Paths /\ mem[o] \in Journal /\ mem[o].prior \in Nat
        /\ Len(versions) \in Nat /\ answer[path[o]].version \in Nat
    BY DEF TypeOK, Journal, Answer
  <1>1. NamesShape(o)
    BY DEF NamesInv
  <1>2. path' = path /\ versions' = versions
    BY DEF Step, Preflight, PreflightFails, OpenJournal, FillJournal,
           SyncNewJournal, ReplaceJournal, SyncJournal, JournalWriteFails, Call,
           Returned, Raised, kaggle
  <1>3. PaidUnder(path[o])' = PaidUnder(path[o])
    BY <1>2 DEF PaidUnder
  <1>4. CASE Exit(o, "failed") \/ Exit(o, "ok") \/ Exit(o, "ambiguous")
    <2>1. mem'[o] = Prepared(0) /\ pc'[o] \in {"failed", "ok", "ambiguous"}
      BY <1>4 DEF Exit, Goto, TypeOK
    <2> QED
      BY <1>0, <1>2, <2>1 DEF NamesShape, Prepared
  <1>5. CASE Preflight(o)
    <2>1. PICK prior \in {0} \cup {v \in DOMAIN versions : versions[v].terminal} :
            mem' = [mem EXCEPT ![o] = Prepared(prior)]
      BY <1>5 DEF Preflight
    <2>2. prior \in Nat /\ prior <= Len(versions)
      BY <2>1 DEF TypeOK
    <2>3. mem'[o] = Prepared(prior) /\ pc'[o] = "open"
      BY <1>5, <2>1 DEF Preflight, Goto, TypeOK
    <2> QED
      BY <1>2, <2>2, <2>3 DEF NamesShape, Prepared
  <1>6. ASSUME mem' = mem, pc'[o] \in {"fill", "syncNew"}, pc[o] \in {"open", "fill"}
        PROVE  NamesShape(o)'
    BY <1>1, <1>2, <1>6 DEF NamesShape
  <1>7. ASSUME mem' = mem, pc'[o] = "sync", pc[o] = "replace"
        PROVE  NamesShape(o)'
    BY <1>1, <1>2, <1>3, <1>7 DEF NamesShape
  <1>8. ASSUME mem' = mem, pc'[o] = "call"
        PROVE  NamesShape(o)'
    BY <1>1, <1>2, <1>8 DEF NamesShape
  <1>9. CASE Call(o)
    <2>1. mem' = mem /\ pc'[o] = "await" /\ answer'[path[o]] = Saying("nothing")
      BY <1>0, <1>9 DEF Call, Goto, TypeOK
    <2> QED
      BY <1>1, <1>2, <2>1 DEF NamesShape, Saying
  <1>10. ASSUME pc'[o] = "replace", mem'[o] = [mem[o] EXCEPT !.state = "dispatching"]
         PROVE  NamesShape(o)'
    <2>1. mem'[o].prior = mem[o].prior /\ mem'[o].state = "dispatching"
      BY <1>0, <1>10 DEF Journal
    <2> QED
      BY <1>1, <1>2, <1>10, <2>1 DEF NamesShape
  <1>11. CASE Raised(o)
    <2> DEFINE j == [mem[o] EXCEPT !.state = "ambiguous", !.failure = TRUE]
    <2>1. j.prior = mem[o].prior /\ j.state = "ambiguous"
      BY <1>0 DEF Journal
    <2> HIDE DEF j
    <2>2. PICK next \in {"ambiguous", "failed"} : Persist(o, j, next)
      BY <1>11 DEF Raised, j
    <2>3. pc'[o] = "replace" /\ mem'[o] = j
      BY <2>2, Persisted
    <2> QED
      BY <1>1, <1>2, <2>1, <2>3 DEF NamesShape
  <1>12. CASE Returned(o)
    <2>1. /\ pc[o] = "await" /\ answer[path[o]].said = "created" /\ pc'[o] = "replace"
          /\ mem'[o] = [mem[o] EXCEPT !.state = "returned",
                                      !.response = answer[path[o]].version]
      BY <1>12 DEF Returned, Persist, Goto, TypeOK
    <2>2. /\ mem'[o].prior = mem[o].prior
          /\ mem'[o].response = answer[path[o]].version
      BY <1>0, <2>1 DEF Journal
    <2>3. Names(answer[path[o]].version, mem[o].prior, PaidUnder(path[o]))
      BY <1>1, <2>1 DEF NamesShape
    <2> QED
      BY <1>1, <1>2, <1>3, <2>1, <2>2, <2>3 DEF NamesShape
  <1>13. Preflight(o) \/ PreflightFails(o) \/ OpenJournal(o) \/ FillJournal(o) =>
           \/ Preflight(o) \/ Exit(o, "failed")
           \/ mem' = mem /\ pc'[o] \in {"fill", "syncNew"} /\ pc[o] \in {"open", "fill"}
    BY DEF PreflightFails, OpenJournal, FillJournal, Goto, TypeOK
  <1>14. SyncNewJournal(o) \/ ReplaceJournal(o) =>
           \/ pc'[o] = "replace" /\ mem'[o] = [mem[o] EXCEPT !.state = "dispatching"]
           \/ mem' = mem /\ pc'[o] = "sync" /\ pc[o] = "replace"
    BY DEF SyncNewJournal, ReplaceJournal, Persist, Goto, TypeOK
  <1>15. ASSUME SyncJournal(o) \/ JournalWriteFails(o), ~Exit(o, "failed"),
                ~Exit(o, "ok"), ~Exit(o, "ambiguous")
         PROVE  NamesShape(o)'
    <2>1. SyncJournal(o)
      BY <1>15 DEF JournalWriteFails
    <2>2. CASE goal[o] \notin Stopped
      <3>1. mem' = mem /\ pc'[o] = "call"
        BY <2>1, <2>2 DEF SyncJournal, Goto, TypeOK
      <3> QED
        BY <1>8, <3>1
    <2>3. CASE goal[o] \in {"idle", "dead"}
      <3>1. mem'[o] = Prepared(0) /\ pc'[o] \in {"idle", "dead"}
        BY <2>1, <2>3 DEF SyncJournal, Exit, Goto, Stopped, TypeOK
      <3> QED
        BY <1>0, <1>2, <3>1 DEF NamesShape, Prepared
    <2> QED
      BY <1>15, <2>1, <2>2, <2>3 DEF SyncJournal, Stopped
  <1> QED
    BY <1>4, <1>5, <1>6, <1>7, <1>9, <1>10, <1>11, <1>12, <1>13, <1>14, <1>15 DEF Step

LEMMA NextNames ==
  ASSUME TypeOK, NamesInv, [Next]_vars
  PROVE  NamesInv'
  <1>0. /\ \A o \in Operators : path[o] \in Paths /\ mem[o].prior \in Nat
        /\ Len(versions) \in Nat
    BY DEF TypeOK, Journal
  <1>1. /\ Len(versions) <= Len(versions') /\ Len(versions') \in Nat
        /\ \A p \in Paths : PaidUnder(p) \subseteq PaidUnder(p)'
    BY PaidGrows, NextType DEF TypeOK
  <1>2. DiskInImage'
    BY ImageSources DEF NamesInv
  <1>3. \A p \in Paths : answer'[p].said = "created" => answer'[p].version \in PaidUnder(p)'
    BY NextAnswers
  <1>4. ImagesName'
    <2>1. ASSUME NEW p \in Paths, NEW content \in image'[p], Says(content, "returned")
          PROVE  Names(content.response, content.prior, PaidUnder(p)')
      <3>1. CASE content \in image[p]
        BY <1>1, <2>1, <3>1 DEF NamesInv, ImagesName, Names
      <3>2. ASSUME NEW o \in Operators, pc[o] \in {"fill", "replace"},
                   path[o] = p, content = mem[o]
            PROVE  Names(content.response, content.prior, PaidUnder(p)')
        <4>1. Names(mem[o].response, mem[o].prior, PaidUnder(path[o]))
          BY <2>1, <3>2 DEF NamesInv, NamesShape, Says
        <4> QED
          BY <1>1, <3>2, <4>1 DEF Names
      <3>3. content # Partial
        BY <2>1 DEF Says
      <3> QED
        BY <2>1, <3>1, <3>2, <3>3, ImageSources DEF NamesInv
    <2> QED
      BY <2>1 DEF ImagesName
  <1>5. ASSUME NEW o \in Operators, pc'[o] = pc[o], mem'[o] = mem[o], path'[o] = path[o]
        PROVE  NamesShape(o)'
    <2>1. NamesShape(o) /\ path[o] \in Paths
      BY <1>0 DEF NamesInv
    <2>2. mem'[o].prior <= Len(versions')
      BY <1>0, <1>1, <1>5, <2>1 DEF NamesShape
    <2>3. pc'[o] \in {"open", "fill", "syncNew"} => mem'[o].state = "prepared"
      BY <1>5, <2>1 DEF NamesShape
    <2>4. pc'[o] \in {"replace", "sync"} /\ mem'[o].state = "returned"
            => Names(mem'[o].response, mem'[o].prior, PaidUnder(path[o])')
      BY <1>1, <1>5, <2>1 DEF NamesShape, Names
    <2>5. ASSUME pc'[o] = "await", answer'[path[o]].said = "created"
          PROVE  Names(answer'[path[o]].version, mem'[o].prior, PaidUnder(path[o])')
      <3>1. CASE /\ answer[path[o]].said = "created"
                 /\ answer'[path[o]] = answer[path[o]]
        <4>1. Names(answer[path[o]].version, mem[o].prior, PaidUnder(path[o]))
          BY <1>5, <2>1, <2>5, <3>1 DEF NamesShape
        <4> QED
          BY <1>1, <1>5, <2>1, <3>1, <4>1 DEF Names
      <3>2. CASE answer'[path[o]].version > Len(versions)
        <4>1. answer'[path[o]].version \in PaidUnder(path[o])'
          BY <1>3, <1>5, <2>1, <2>5
        <4>2. answer'[path[o]].version \in Nat
          BY <2>1, NextType DEF TypeOK, Answer
        <4> QED
          BY <1>0, <1>5, <2>1, <3>2, <4>1, <4>2 DEF NamesShape, Names
      <3> QED
        BY <2>1, <2>5, <3>1, <3>2, NextAnswers
    <2> QED
      BY <1>5, <2>2, <2>3, <2>4, <2>5 DEF NamesShape
  <1>6. ASSUME NEW o \in Operators, mem'[o].prior <= Len(versions'),
               pc'[o] \in {"preflight"} \cup Stopped
        PROVE  NamesShape(o)'
    BY <1>6 DEF NamesShape, Stopped
  <1>7. ASSUME NEW o \in Operators, Step(o), NEW q \in Operators
        PROVE  NamesShape(q)'
    <2>1. CASE q = o
      BY <1>7, <2>1, StepNames
    <2>2. CASE q # o
      BY <1>5, <1>7, <2>2, StepFrame
    <2> QED
      BY <2>1, <2>2
  <1>8. ASSUME NEW o \in Operators, NEW p \in Paths, Start(o, p), NEW q \in Operators
        PROVE  NamesShape(q)'
    <2>1. CASE q = o
      <3>1. mem' = mem /\ versions' = versions /\ pc'[o] = "preflight"
        BY <1>8, ProcessType DEF Start, kaggle, Goto
      <3>2. mem[o].prior <= Len(versions)
        BY DEF NamesInv, NamesShape
      <3> QED
        BY <1>6, <2>1, <3>1, <3>2
    <2>2. CASE q # o
      <3>1. mem'[q] = mem[q] /\ pc'[q] = pc[q] /\ path'[q] = path[q]
        BY <1>8, <2>2, ProcessType DEF Start, Goto
      <3> QED
        BY <1>5, <3>1
    <2> QED
      BY <2>1, <2>2
  <1>9. ASSUME NEW o \in Operators, ProcessCrash(o), NEW q \in Operators
        PROVE  NamesShape(q)'
    <2>1. CASE q = o
      <3>1. mem'[o] = Prepared(0) /\ pc'[o] = "dead"
        BY <1>9, ProcessType DEF ProcessCrash, Exit, Goto
      <3> QED
        BY <1>1, <1>6, <2>1, <3>1 DEF Prepared, Stopped
    <2>2. CASE q # o
      <3>1. mem'[q] = mem[q] /\ pc'[q] = pc[q] /\ path'[q] = path[q]
        BY <1>9, <2>2, ProcessType DEF ProcessCrash, Exit, Goto
      <3> QED
        BY <1>5, <3>1
    <2> QED
      BY <2>1, <2>2
  <1>10. ASSUME MachineCrash, NEW q \in Operators
         PROVE  NamesShape(q)'
    <2>1. mem'[q] = Prepared(0) /\ pc'[q] \in Stopped
      BY <1>10, ProcessType DEF MachineCrash, Working, Stopped
    <2> QED
      BY <1>1, <1>6, <2>1 DEF Prepared
  <1>11. ASSUME UNCHANGED operator, NEW q \in Operators
         PROVE  NamesShape(q)'
    BY <1>5, <1>11 DEF operator
  <1>12. Environment => MachineCrash \/ UNCHANGED operator
    BY DEF Environment, KaggleCreates, KaggleDeclines, ForeignVersion, CreationEnds
  <1>13. \A q \in Operators : NamesShape(q)'
    BY <1>7, <1>8, <1>9, <1>10, <1>11, <1>12 DEF Next, vars
  <1> QED
    BY <1>2, <1>3, <1>4, <1>13 DEF NamesInv

LEMMA NamesInvariant == Spec => [](TypeOK /\ NamesInv)
  <1>1. TypeOK /\ NamesInv /\ [Next]_vars => NamesInv'
    BY NextNames
  <1>2. Init => NamesInv
    <2> SUFFICES ASSUME Init PROVE NamesInv
      OBVIOUS
    <2>1. \A o \in Operators : pc[o] = "idle" /\ mem[o].prior = 0 /\ Len(versions) = 0
      BY DEF Init, Prepared
    <2>2. \A p \in Paths : answer[p].said = "nothing"
      BY DEF Init, Saying
    <2>3. \A p \in Paths : image[p] = {NoFile} /\ disk[p] = NoFile
      BY DEF Init, StoreInit
    <2> QED
      BY <2>1, <2>2, <2>3 DEF NamesInv, NamesShape, DiskInImage, ImagesName, Says
  <1> QED
    BY <1>1, <1>2, TypeCorrect, PTL DEF Spec

(* A "returned" journal, in any crash image, names the version its own     *)
(* call created, newer than the version its preflight saw.                 *)
THEOREM ReturnedNamesItsVersionProved == Spec => []ReturnedNamesItsVersion
  <1>1. NamesInv => ReturnedNamesItsVersion
    BY DEF NamesInv, ImagesName, ReturnedNamesItsVersion, Says, Names
  <1> QED
    BY <1>1, NamesInvariant, PTL

-----------------------------------------------------------------------------
(* An outcome that was reported is durable, and nobody owns its path.      *)

Reported(o) == IF pc[o] = "ok" THEN "returned" ELSE "ambiguous"

ReportsWritten ==
  \A o \in Operators : pc[o] \in {"replace", "sync"} =>
    /\ goal[o] = "ok" => mem[o].state = "returned"
    /\ goal[o] = "ambiguous" => mem[o].state = "ambiguous"

SettledInv ==
  /\ ReportsWritten
  /\ \A o \in Operators : pc[o] \in {"ok", "ambiguous"} =>
       /\ image[path[o]] = {disk[path[o]]}
       /\ Says(disk[path[o]], Reported(o))
       /\ \A q \in Operators : pc[q] \in Owner => path[q] # path[o]

(* What ends with an outcome is a step that synced the journal that says   *)
(* it; what is written towards one says it.                                *)
LEMMA StepReports ==
  ASSUME TypeOK, NEW o \in Operators, Step(o)
  PROVE  /\ pc'[o] \in {"ok", "ambiguous"} => SyncJournal(o) /\ goal[o] = pc'[o]
         /\ pc'[o] \in {"replace", "sync"} =>
              \/ pc[o] = "replace" /\ UNCHANGED <<mem, goal>>
              \/ goal'[o] = "ok" /\ mem'[o].state = "returned"
              \/ goal'[o] = "ambiguous" /\ mem'[o].state = "ambiguous"
              \/ goal'[o] \in {"call", "failed"}
  <1>0. mem[o] \in Journal /\ DOMAIN pc = Operators /\ goal[o] \in Stopped \cup {"call"}
    BY DEF TypeOK
  <1>1. CASE \/ Preflight(o) \/ PreflightFails(o) \/ OpenJournal(o) \/ FillJournal(o)
             \/ ReplaceJournal(o) \/ JournalWriteFails(o) \/ Call(o)
    BY <1>0, <1>1 DEF Preflight, PreflightFails, OpenJournal, FillJournal,
                      ReplaceJournal, JournalWriteFails, Call, Exit, Goto
  <1>2. CASE SyncNewJournal(o)
    BY <1>2, Persisted DEF SyncNewJournal
  <1>3. CASE SyncJournal(o)
    <2>1. pc'[o] = goal[o]
      BY <1>0, <1>3 DEF SyncJournal, Exit, Goto
    <2> QED
      BY <1>0, <1>3, <2>1 DEF Stopped
  <1>4. CASE Returned(o)
    <2>1. /\ pc'[o] = "replace" /\ goal'[o] = "ok"
          /\ mem'[o] = [mem[o] EXCEPT !.state = "returned",
                                      !.response = answer[path[o]].version]
      BY <1>4, Persisted DEF Returned
    <2> QED
      BY <1>0, <2>1 DEF Journal
  <1>5. CASE Raised(o)
    <2> DEFINE j == [mem[o] EXCEPT !.state = "ambiguous", !.failure = TRUE]
    <2>1. j.state = "ambiguous"
      BY <1>0 DEF Journal
    <2> HIDE DEF j
    <2>2. PICK next \in {"ambiguous", "failed"} : Persist(o, j, next)
      BY <1>5 DEF Raised, j
    <2>3. pc'[o] = "replace" /\ mem'[o] = j /\ goal'[o] = next
      BY <2>2, Persisted
    <2> QED
      BY <2>1, <2>2, <2>3
  <1> QED
    BY <1>1, <1>2, <1>3, <1>4, <1>5 DEF Step

LEMMA NextSettled ==
  ASSUME TypeOK, BarrierInv, SettledInv, FreshParent = {}, [Next]_vars
  PROVE  SettledInv'
  <1> DEFINE Written(o) == pc[o] \in {"replace", "sync"} =>
               /\ goal[o] = "ok" => mem[o].state = "returned"
               /\ goal[o] = "ambiguous" => mem[o].state = "ambiguous"
             Settled(o) == pc[o] \in {"ok", "ambiguous"} =>
               /\ image[path[o]] = {disk[path[o]]}
               /\ Says(disk[path[o]], Reported(o))
               /\ \A q \in Operators : pc[q] \in Owner => path[q] # path[o]
  <1>1. ASSUME NEW o \in Operators, Step(o), NEW q \in Operators
        PROVE  Written(q)' /\ Settled(q)'
    <2>1. /\ UNCHANGED path /\ path[o] \in Paths /\ path[q] \in Paths
          /\ \A s \in Operators : s # o =>
               pc'[s] = pc[s] /\ mem'[s] = mem[s] /\ goal'[s] = goal[s]
      BY <1>1, StepFrame DEF TypeOK
    <2>2. Written(q) /\ Settled(q) /\ Written(o)
      BY DEF SettledInv, ReportsWritten
    <2>3. CASE q # o
      <3>1. Written(q)'
        BY <2>1, <2>2, <2>3
      <3>2. ASSUME pc'[q] \in {"ok", "ambiguous"}
            PROVE  /\ image'[path'[q]] = {disk'[path'[q]]}
                   /\ Says(disk'[path'[q]], Reported(q)')
                   /\ \A s \in Operators : pc'[s] \in Owner => path'[s] # path'[q]
        <4>1. /\ image[path[q]] = {disk[path[q]]} /\ Says(disk[path[q]], Reported(q))
              /\ \A s \in Operators : pc[s] \in Owner => path[s] # path[q]
          BY <2>1, <2>2, <2>3, <3>2
        <4>2. disk[path[q]] # NoFile
          BY <4>1 DEF Says
        <4>3. /\ disk'[path[q]] = disk[path[q]] /\ image'[path[q]] = image[path[q]]
              /\ pc'[o] \in Owner => path[o] # path[q]
          <5>1. \/ pc[o] \in Owner \/ disk[path[o]] = NoFile
                \/ (UNCHANGED store /\ pc'[o] \notin Owner)
            BY <1>1, StepFrame
          <5>2. \A p \in Paths : p # path[o] => disk'[p] = disk[p] /\ image'[p] = image[p]
            BY <1>1, StepFrame
          <5> QED
            BY <2>1, <4>1, <4>2, <5>1, <5>2 DEF store
        <4>4. Reported(q)' = Reported(q)
          BY <2>1, <2>3 DEF Reported
        <4> QED
          BY <2>1, <4>1, <4>3, <4>4
      <3> QED
        BY <3>1, <3>2
    <2>4. CASE q = o
      <3>1. Written(o)'
        <4>1. ASSUME pc[o] = "replace", UNCHANGED <<mem, goal>>
              PROVE  Written(o)'
          BY <2>2, <4>1
        <4>2. ASSUME pc'[o] \in {"replace", "sync"},
                     ~(pc[o] = "replace" /\ UNCHANGED <<mem, goal>>)
              PROVE  \/ goal'[o] = "ok" /\ mem'[o].state = "returned"
                     \/ goal'[o] = "ambiguous" /\ mem'[o].state = "ambiguous"
                     \/ goal'[o] \in {"call", "failed"}
          BY <1>1, <4>2, StepReports
        <4> QED
          BY <4>1, <4>2
      <3>2. ASSUME pc'[o] \in {"ok", "ambiguous"}
            PROVE  /\ image'[path'[o]] = {disk'[path'[o]]}
                   /\ Says(disk'[path'[o]], Reported(o)')
                   /\ \A s \in Operators : pc'[s] \in Owner => path'[s] # path'[o]
        <4>1. SyncJournal(o) /\ goal[o] = pc'[o]
          BY <1>1, <3>2, StepReports
        <4>2. /\ pc[o] = "sync" /\ disk' = disk /\ image'[path[o]] = {disk[path[o]]}
          BY <2>1, <4>1, ProcessType DEF SyncJournal, SyncDirectory
        <4>3. disk[path[o]] = mem[o] /\ mem[o] \in Journal
          BY <4>2, ProcessType DEF BarrierInv, WritesBlock
        <4>4. mem[o].state = Reported(o)'
          BY <2>2, <3>2, <4>1, <4>2 DEF Reported
        <4>5. \A s \in Operators : s # o /\ pc[s] \in Owner => path[s] # path[o]
          BY <4>2 DEF BarrierInv, OwnersExclusive, Owner
        <4> QED
          BY <2>1, <3>2, <4>2, <4>3, <4>4, <4>5, PushOnceAssumption DEF Says, Owner
      <3> QED
        BY <2>4, <3>1, <3>2
    <2> QED
      BY <2>3, <2>4
  <1>2. ASSUME NEW o \in Operators,
               ProcessCrash(o) \/ \E p \in Paths : Start(o, p),
               NEW q \in Operators
        PROVE  Written(q)' /\ Settled(q)'
    <2>1. /\ UNCHANGED store /\ pc'[o] \in {"dead", "preflight"}
          /\ \A s \in Operators : s # o => /\ pc'[s] = pc[s] /\ path'[s] = path[s]
                                           /\ mem'[s] = mem[s] /\ goal'[s] = goal[s]
      BY <1>2, ProcessType DEF ProcessCrash, Start, Exit, Goto
    <2>2. Written(q) /\ Settled(q)
      BY DEF SettledInv, ReportsWritten
    <2> QED
      BY <2>1, <2>2 DEF Owner, store, Reported
  <1>3. ASSUME MachineCrash, NEW q \in Operators
        PROVE  Written(q)' /\ Settled(q)'
    <2>1. /\ path' = path /\ path[q] \in Paths
          /\ \A o \in Operators : pc'[o] \in Stopped
          /\ pc'[q] \in {"ok", "ambiguous"} => pc'[q] = pc[q]
          /\ \A p \in Paths : disk'[p] \in image[p] /\ image'[p] = {disk'[p]}
      BY <1>3, ProcessType DEF MachineCrash, LoseVolatile, Working, Stopped
    <2>2. Settled(q)
      BY DEF SettledInv
    <2> QED
      BY <2>1, <2>2 DEF Owner, Stopped, Reported
  <1>4. ASSUME UNCHANGED <<store, operator>>, NEW q \in Operators
        PROVE  Written(q)' /\ Settled(q)'
    <2>1. Written(q) /\ Settled(q)
      BY DEF SettledInv, ReportsWritten
    <2> QED
      BY <1>4, <2>1 DEF store, operator, Reported
  <1>5. Environment => MachineCrash \/ UNCHANGED <<store, operator>>
    BY DEF Environment, KaggleCreates, KaggleDeclines, ForeignVersion, CreationEnds
  <1>6. \A q \in Operators : Written(q)' /\ Settled(q)'
    BY <1>1, <1>2, <1>3, <1>4, <1>5 DEF Next, vars
  <1> QED
    BY <1>6 DEF SettledInv, ReportsWritten

(* A command that reports success or KagglePushOutcomeAmbiguous leaves a   *)
(* durable journal that says the same, and nobody rewrites it afterwards.  *)
THEOREM OutcomeIsDurableProved ==
  ASSUME FreshParent = {}
  PROVE  Spec => []OutcomeIsDurable
  <1>1. TypeOK /\ BarrierInv /\ SettledInv /\ [Next]_vars => SettledInv'
    BY NextSettled
  <1>2. Init => SettledInv
    BY DEF Init, SettledInv, ReportsWritten
  <1>3. TypeOK /\ SettledInv => OutcomeIsDurable
    BY DEF SettledInv, OutcomeIsDurable, Says, Reported, Blocks
  <1> QED
    BY <1>1, <1>2, <1>3, BarrierInvariant, TypeCorrect, PTL DEF Spec
=============================================================================
