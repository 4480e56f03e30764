-------------------------- MODULE ResponseCacheProofs --------------------------
(***************************************************************************)
(* What the entry lock of the response cache is for: no provider request   *)
(* is wasted and every run is served one answer, for any number of runs,   *)
(* requests, retries, starts and crashes.                                  *)
(***************************************************************************)
EXTENDS ResponseCache, FiniteSetTheorems, TLAPS

Holding == {"read", "send", "await", "write"}
Missed == {"send", "await", "write"}

(* TypeOK as an inductive proof needs it.                                  *)
CacheTypeOK ==
  /\ TypeOK
  /\ outputs \in [Workers -> Seq(Nat)]
  /\ served \in [Keys -> SUBSET Nat]

(* A worker between the lock and its release holds the entry it is at.     *)
LockHeld == \A w \in Workers : pc[w] \in Holding => lock[Key(w)] = w

(* While it pays, the entry has no record.                                 *)
StillMissing == \A w \in Workers : pc[w] \in Missed => ~Exists(Key(w))

(* A crash can take the record, and never bring back another one.          *)
OneRecord == \A k \in Keys : image[k] \subseteq {NoFile, disk[k]}

PayingAt(k) == \E w \in Workers : pc[w] \in Paying /\ Key(w) = k
Accounted ==
  \A k \in Keys :
    sent[k] = excused[k] + (IF Exists(k) \/ PayingAt(k) THEN 1 ELSE 0)

OneAnswer == crashes = 0 => \A k \in Keys : served[k] \subseteq {disk[k]}

CacheInv ==
  CacheTypeOK /\ LockHeld /\ StillMissing /\ OneRecord /\ Accounted /\ OneAnswer

-----------------------------------------------------------------------------
(* A running worker is at a request of its own, and at most one worker     *)
(* holds an entry.                                                         *)
LEMMA KeyType ==
  ASSUME CacheTypeOK, NEW w \in Workers
  PROVE  /\ Key(w) \in Nat
         /\ Key(w) = Len(outputs[w]) + 1 /\ Len(outputs[w]) \in Nat
         /\ pc[w] \in Working => Key(w) \in Keys
<1>1. outputs[w] \in Seq(Nat) /\ (pc[w] \in Working => Len(outputs[w]) < RequestCount)
  BY DEF CacheTypeOK, TypeOK
<1>2. Len(outputs[w]) \in Nat /\ Key(w) = Len(outputs[w]) + 1
  BY <1>1 DEF Key
<1> QED
  BY <1>1, <1>2, CacheAssumption DEF Keys

LEMMA OneHolder ==
  ASSUME LockHeld, NEW v \in Workers, NEW w \in Workers,
         pc[v] \in Holding, pc[w] \in Holding, Key(v) = Key(w)
  PROVE  v = w
BY DEF LockHeld

LEMMA InitCache == Init => CacheInv
<1> SUFFICES ASSUME Init PROVE CacheInv
  OBVIOUS
<1> USE DEF Init, StoreInit
<1>1. CacheTypeOK
  BY CacheAssumption DEF CacheTypeOK, TypeOK, Working, Stopped
<1>2. LockHeld /\ StillMissing /\ OneRecord /\ OneAnswer
  BY DEF LockHeld, Holding, StillMissing, Missed, OneRecord, OneAnswer
<1>3. Accounted
  BY DEF Accounted, PayingAt, Paying, Exists
<1> QED
  BY <1>1, <1>2, <1>3 DEF CacheInv

-----------------------------------------------------------------------------
(* The steps of one worker w.  What they have in common: the other workers *)
(* stay where they are.                                                    *)
Others(w) ==
  \A v \in Workers \ {w} : pc'[v] = pc[v] /\ outputs'[v] = outputs[v] /\ Key(v)' = Key(v)

(* A step without effect on records, counts and answers keeps CacheInv if  *)
(* it keeps the types and moves w neither into nor out of paying, and into *)
(* the lock and past the lookup only with their results.                   *)
LEMMA QuietStep ==
  ASSUME CacheInv, CacheTypeOK', NEW w \in Workers, Others(w),
         UNCHANGED <<disk, image, history, crashes>>,
         pc'[w] \in Paying <=> pc[w] \in Paying,
         pc'[w] \in Paying => Key(w)' = Key(w),
         \A v \in Workers \ {w} : pc[v] \in Holding => lock'[Key(v)] = lock[Key(v)],
         pc'[w] \in Holding => lock'[Key(w)'] = w,
         pc'[w] \in Missed => disk[Key(w)'] = NoFile
  PROVE  CacheInv'
<1> USE DEF CacheInv, Others, history
<1>1. LockHeld'
  BY DEF LockHeld
<1>2. StillMissing'
  BY DEF StillMissing, Exists
<1>3. OneRecord' /\ OneAnswer'
  BY DEF OneRecord, OneAnswer
<1>4. \A k \in Keys : PayingAt(k)' = PayingAt(k)
  BY DEF PayingAt
<1>5. Accounted'
  BY <1>4 DEF Accounted, Exists
<1> QED
  BY <1>1, <1>2, <1>3, <1>5

LEMMA StartKeeps ==
  ASSUME CacheInv, NEW w \in Workers, Start(w) PROVE CacheInv'
<1> USE DEF CacheInv
<1>1. /\ pc[w] \in Stopped /\ starts[w] < MaxStarts
      /\ pc' = [pc EXCEPT ![w] = "lock"] /\ outputs' = [outputs EXCEPT ![w] = <<>>]
      /\ starts' = [starts EXCEPT ![w] = @ + 1]
      /\ UNCHANGED <<disk, image, lock, attempt, history, crashes>>
  BY DEF Start, Goto
<1>2. CacheTypeOK'
  <2>1. outputs' \in [Workers -> Seq(Nat)] /\ outputs'[w] = <<>>
    BY <1>1 DEF CacheTypeOK
  <2>2. starts' \in [Workers -> 0..MaxStarts]
    BY <1>1, CacheAssumption DEF CacheTypeOK, TypeOK
  <2>3. pc' \in [Workers -> Working \cup Stopped]
    BY <1>1 DEF CacheTypeOK, TypeOK, Working
  <2>4. \A v \in Workers : /\ outputs'[v] \in Seq(Nat) /\ Len(outputs'[v]) <= RequestCount
                           /\ pc'[v] \in Working => Len(outputs'[v]) < RequestCount
    BY <1>1, <2>1, CacheAssumption DEF CacheTypeOK, TypeOK
  <2> QED
    BY <1>1, <2>1, <2>2, <2>3, <2>4 DEF CacheTypeOK, TypeOK, history
<1>3. Others(w) /\ pc'[w] = "lock"
  BY <1>1 DEF Others, Key, CacheTypeOK, TypeOK
<1>4. pc[w] \notin Paying /\ "lock" \notin Paying /\ "lock" \notin Holding /\ "lock" \notin Missed
  BY <1>1 DEF Stopped, Paying, Holding, Missed
<1> QED
  BY <1>1, <1>2, <1>3, <1>4, QuietStep

LEMMA LockKeeps ==
  ASSUME CacheInv, NEW w \in Workers, Lock(w) PROVE CacheInv'
<1> USE DEF CacheInv
<1>1. /\ pc[w] = "lock" /\ lock[Key(w)] = NoWorker
      /\ pc' = [pc EXCEPT ![w] = "read"] /\ lock' = [lock EXCEPT ![Key(w)] = w]
      /\ UNCHANGED <<disk, image, outputs, attempt, starts, history, crashes>>
  BY DEF Lock, Goto
<1>2. Key(w) \in Keys
  BY <1>1, KeyType DEF Working
<1>3. CacheTypeOK'
  BY <1>1, <1>2 DEF CacheTypeOK, TypeOK, Working, history
<1>4. Others(w) /\ pc'[w] = "read" /\ Key(w)' = Key(w)
  BY <1>1 DEF Others, Key, CacheTypeOK, TypeOK
<1>5. lock'[Key(w)] = w
  BY <1>1, <1>2 DEF CacheTypeOK, TypeOK
<1>6. \A v \in Workers \ {w} : pc[v] \in Holding => lock'[Key(v)] = lock[Key(v)]
  BY <1>1, <1>2, CacheAssumption DEF LockHeld, CacheTypeOK, TypeOK
<1> QED
  BY <1>1, <1>3, <1>4, <1>5, <1>6, QuietStep DEF Paying, Missed

LEMMA MovesKeep ==
  ASSUME CacheInv, NEW w \in Workers, ReadMiss(w) \/ Answered(w) PROVE CacheInv'
<1> USE DEF CacheInv
<1>1. /\ \/ pc[w] = "read" /\ ~Exists(Key(w)) /\ pc' = [pc EXCEPT ![w] = "send"]
         \/ pc[w] = "await" /\ pc' = [pc EXCEPT ![w] = "write"]
      /\ UNCHANGED <<disk, image, lock, outputs, starts, history, crashes>>
  BY DEF ReadMiss, Answered, Goto
<1>2. attempt' \in [Workers -> 0..MaxRetries] /\ starts' = starts
  <2>1. 0 \in 0..MaxRetries /\ attempt \in [Workers -> 0..MaxRetries]
    BY CacheAssumption DEF CacheTypeOK, TypeOK
  <2>2. starts' = starts
    BY DEF ReadMiss, Answered
  <2>3. attempt' = [attempt EXCEPT ![w] = 0] \/ attempt' = attempt
    BY DEF ReadMiss, Answered
  <2> QED
    BY <2>1, <2>2, <2>3
<1>3. CacheTypeOK'
  BY <1>1, <1>2 DEF CacheTypeOK, TypeOK, Working, history
<1>4. Others(w) /\ Key(w)' = Key(w)
  BY <1>1 DEF Others, Key, CacheTypeOK, TypeOK
<1>5. pc[w] \in Holding /\ lock[Key(w)] = w /\ lock' = lock
  BY <1>1 DEF Holding, LockHeld
<1>6. pc'[w] \in Paying <=> pc[w] \in Paying
  BY <1>1 DEF Paying, CacheTypeOK, TypeOK
<1>7. disk[Key(w)] = NoFile
  BY <1>1 DEF StillMissing, Missed, Exists
<1> QED
  BY <1>1, <1>3, <1>4, <1>5, <1>6, <1>7, QuietStep

(* The provider is asked, once more if a retry came before: the request is *)
(* counted when it is sent, and excused when it is given up.               *)
LEMMA SendKeeps ==
  ASSUME CacheInv, NEW w \in Workers, Send(w) PROVE CacheInv'
<1> USE DEF CacheInv
<1>1. /\ pc[w] = "send" /\ pc' = [pc EXCEPT ![w] = "await"]
      /\ sent' = [sent EXCEPT ![Key(w)] = @ + 1]
      /\ UNCHANGED <<disk, image, lock, outputs, attempt, starts, excused, served, crashes>>
  BY DEF Send, Goto
<1>2. Key(w) \in Keys /\ disk[Key(w)] = NoFile /\ pc[w] \in Holding
  BY <1>1, KeyType DEF Working, Holding, StillMissing, Missed, Exists
<1>3. CacheTypeOK'
  BY <1>1, <1>2 DEF CacheTypeOK, TypeOK, Working
<1>4. \A v \in Workers : Key(v)' = Key(v)
  BY <1>1 DEF Key
<1>5. pc'[w] = "await" /\ \A v \in Workers \ {w} : pc'[v] = pc[v]
  BY <1>1 DEF CacheTypeOK, TypeOK
<1>6. LockHeld' /\ StillMissing' /\ OneRecord' /\ OneAnswer'
  BY <1>1, <1>2, <1>4, <1>5 DEF LockHeld, Holding, StillMissing, Missed, Exists, OneRecord,
       OneAnswer
<1>7. ~PayingAt(Key(w)) /\ PayingAt(Key(w))'
  <2>1. \A v \in Workers : pc[v] \in Paying /\ Key(v) = Key(w) => v = w
    BY <1>2, OneHolder DEF Paying, Holding
  <2> QED
    BY <1>1, <1>4, <1>5, <2>1 DEF PayingAt, Paying
<1>8. \A k \in Keys \ {Key(w)} : PayingAt(k)' = PayingAt(k)
  BY <1>4, <1>5 DEF PayingAt
<1>9. Accounted'
  <2> SUFFICES ASSUME NEW k \in Keys
               PROVE  sent'[k] = excused[k] + (IF Exists(k) \/ PayingAt(k)' THEN 1 ELSE 0)
    BY <1>1 DEF Accounted, Exists
  <2>1. sent[k] \in Nat /\ excused[k] \in Nat
        /\ sent[k] = excused[k] + (IF Exists(k) \/ PayingAt(k) THEN 1 ELSE 0)
    BY DEF CacheTypeOK, TypeOK, Accounted
  <2>2. CASE k = Key(w)
    <3>1. ~PayingAt(k) /\ ~Exists(k)
      BY <1>2, <1>7, <2>2 DEF Exists
    <3>2. PayingAt(k)'
      BY <1>4, <1>5, <2>2 DEF PayingAt, Paying
    <3>3. sent'[k] = sent[k] + 1
      BY <1>1, <1>2, <2>2 DEF CacheTypeOK, TypeOK
    <3> QED
      BY <2>1, <3>1, <3>2, <3>3
  <2>3. CASE k # Key(w)
    BY <1>1, <1>2, <1>8, <2>1, <2>3 DEF CacheTypeOK, TypeOK
  <2> QED
    BY <2>2, <2>3
<1> QED
  BY <1>3, <1>6, <1>9

(* A paying worker that gives its request up, keeping the lock or not.     *)
LEMMA GivenUp ==
  ASSUME CacheInv, CacheTypeOK', NEW w \in Workers, pc[w] \in Paying,
         pc'[w] \notin Paying, Others(w), Key(w)' = Key(w), Excuse(Key(w)),
         UNCHANGED <<disk, image, sent, served, crashes>>,
         \A v \in Workers \ {w} : pc[v] \in Holding => lock'[Key(v)] = lock[Key(v)],
         pc'[w] \in Holding => lock'[Key(w)] = w
  PROVE  CacheInv'
<1> USE DEF CacheInv, Others
<1>1. Key(w) \in Keys /\ disk[Key(w)] = NoFile /\ pc[w] \in Holding
  BY KeyType DEF Paying, Working, Holding, StillMissing, Missed, Exists
<1>2. LockHeld' /\ OneRecord' /\ OneAnswer'
  BY DEF LockHeld, OneRecord, OneAnswer
<1>3. StillMissing'
  BY <1>1 DEF StillMissing, Exists
<1>4. PayingAt(Key(w)) /\ ~PayingAt(Key(w))'
  <2>1. \A v \in Workers : pc[v] \in Paying /\ Key(v) = Key(w) => v = w
    BY <1>1, OneHolder DEF Paying, Holding
  <2> QED
    BY <2>1 DEF PayingAt
<1>5. \A k \in Keys \ {Key(w)} : PayingAt(k)' = PayingAt(k)
  BY DEF PayingAt
<1>6. Accounted'
  <2> SUFFICES ASSUME NEW k \in Keys
               PROVE  sent[k] = excused'[k] + (IF Exists(k) \/ PayingAt(k)' THEN 1 ELSE 0)
    BY DEF Accounted, Exists
  <2>1. sent[k] \in Nat /\ excused[k] \in Nat
        /\ sent[k] = excused[k] + (IF Exists(k) \/ PayingAt(k) THEN 1 ELSE 0)
    BY DEF CacheTypeOK, TypeOK, Accounted
  <2>2. excused' = [excused EXCEPT ![Key(w)] = @ + 1]
    BY DEF Excuse
  <2>3. CASE k = Key(w)
    BY <1>1, <1>4, <2>1, <2>2, <2>3 DEF Exists, CacheTypeOK, TypeOK
  <2>4. CASE k # Key(w)
    BY <1>1, <1>5, <2>1, <2>2, <2>4 DEF CacheTypeOK, TypeOK
  <2> QED
    BY <2>3, <2>4
<1> QED
  BY <1>2, <1>3, <1>6

LEMMA ExcuseType ==
  ASSUME CacheInv, NEW w \in Workers, pc[w] \in Working, Excuse(Key(w))
  PROVE  excused' \in [Keys -> Nat]
<1>1. Key(w) \in Keys
  BY KeyType DEF CacheInv
<1> QED
  BY <1>1 DEF Excuse, CacheInv, CacheTypeOK, TypeOK

LEMMA RetryKeeps ==
  ASSUME CacheInv, NEW w \in Workers, Retry(w) PROVE CacheInv'
<1> USE DEF CacheInv
<1>1. /\ pc[w] = "await" /\ attempt[w] < MaxRetries
      /\ attempt' = [attempt EXCEPT ![w] = @ + 1] /\ Excuse(Key(w))
      /\ pc' = [pc EXCEPT ![w] = "send"]
      /\ UNCHANGED <<disk, image, lock, outputs, starts, sent, served, crashes>>
  BY DEF Retry, Goto
<1>2. attempt' \in [Workers -> 0..MaxRetries]
  BY <1>1, CacheAssumption DEF CacheTypeOK, TypeOK
<1>3. excused' \in [Keys -> Nat]
  BY <1>1, ExcuseType DEF Working
<1>4. CacheTypeOK'
  BY <1>1, <1>2, <1>3 DEF CacheTypeOK, TypeOK, Working
<1>5. Others(w) /\ Key(w)' = Key(w) /\ pc'[w] = "send"
  BY <1>1 DEF Others, Key, CacheTypeOK, TypeOK
<1>6. lock' = lock /\ lock[Key(w)] = w
  BY <1>1 DEF LockHeld, Holding
<1> QED
  BY <1>1, <1>4, <1>5, <1>6, GivenUp DEF Paying

LEMMA FailKeeps ==
  ASSUME CacheInv, NEW w \in Workers, GenerateFails(w) PROVE CacheInv'
<1> USE DEF CacheInv
<1>1. /\ pc[w] \in Paying /\ Excuse(Key(w))
      /\ lock' = [lock EXCEPT ![Key(w)] = NoWorker]
      /\ pc' = [pc EXCEPT ![w] = "failed"]
      /\ UNCHANGED <<disk, image, outputs, attempt, starts, sent, served, crashes>>
  BY DEF GenerateFails, Goto, Unlock
<1>2. Key(w) \in Keys /\ pc[w] \in Working /\ pc[w] \in Holding
  BY <1>1, KeyType DEF Paying, Working, Holding
<1>3. excused' \in [Keys -> Nat]
  BY <1>1, <1>2, ExcuseType
<1>4. CacheTypeOK'
  BY <1>1, <1>2, <1>3 DEF CacheTypeOK, TypeOK, Working, Stopped
<1>5. Others(w) /\ Key(w)' = Key(w) /\ pc'[w] = "failed"
  BY <1>1 DEF Others, Key, CacheTypeOK, TypeOK
<1>6. \A v \in Workers \ {w} : pc[v] \in Holding => lock'[Key(v)] = lock[Key(v)]
  <2>1. \A v \in Workers \ {w} : pc[v] \in Holding => Key(v) # Key(w)
    BY <1>2, OneHolder
  <2> QED
    BY <1>1, <2>1 DEF CacheTypeOK, TypeOK
<1> QED
  BY <1>1, <1>4, <1>5, <1>6, GivenUp DEF Paying, Holding

-----------------------------------------------------------------------------
(* generate returns.                                                       *)

LEMMA ReturnType ==
  ASSUME CacheInv, NEW w \in Workers, pc[w] \in Holding, NEW text \in Nat, Return(w, text)
  PROVE  /\ outputs' \in [Workers -> Seq(Nat)] /\ served' \in [Keys -> SUBSET Nat]
         /\ lock' \in [Keys -> Workers \cup {NoWorker}]
         /\ pc' \in [Workers -> Working \cup Stopped]
         /\ \A v \in Workers : /\ outputs'[v] \in Seq(Nat) /\ Len(outputs'[v]) <= RequestCount
                               /\ pc'[v] \in Working => Len(outputs'[v]) < RequestCount
         /\ Others(w) /\ pc'[w] \in {"done", "lock"} /\ Key(w) \in Keys
         /\ \A v \in Workers \ {w} : pc[v] \in Holding => lock'[Key(v)] = lock[Key(v)]
<1> USE DEF CacheInv
<1>1. /\ outputs' = [outputs EXCEPT ![w] = Append(@, text)]
      /\ served' = [served EXCEPT ![Key(w)] = @ \cup {text}]
      /\ lock' = [lock EXCEPT ![Key(w)] = NoWorker]
      /\ pc' = [pc EXCEPT ![w] = IF Key(w) = RequestCount THEN "done" ELSE "lock"]
  BY DEF Return, Unlock, Goto
<1>2. Key(w) \in Keys /\ Key(w) = Len(outputs[w]) + 1 /\ Len(outputs[w]) \in Nat
  BY KeyType DEF Holding, Working
<1>3. outputs[w] \in Seq(Nat)
  BY DEF CacheTypeOK
<1>4. Append(outputs[w], text) \in Seq(Nat)
      /\ Len(Append(outputs[w], text)) = Key(w)
  BY <1>2, <1>3
<1>5. outputs' \in [Workers -> Seq(Nat)] /\ outputs'[w] = Append(outputs[w], text)
  BY <1>1, <1>4 DEF CacheTypeOK
<1>6. /\ served' \in [Keys -> SUBSET Nat] /\ lock' \in [Keys -> Workers \cup {NoWorker}]
      /\ pc' \in [Workers -> Working \cup Stopped]
  BY <1>1, <1>2 DEF CacheTypeOK, TypeOK, Working, Stopped
<1>7. Others(w) /\ pc'[w] = IF Key(w) = RequestCount THEN "done" ELSE "lock"
  BY <1>1 DEF Others, Key, CacheTypeOK, TypeOK
<1>8. /\ Len(outputs'[w]) <= RequestCount
      /\ pc'[w] \in Working => Len(outputs'[w]) < RequestCount
  BY <1>2, <1>4, <1>5, <1>7, CacheAssumption DEF Keys, Working
<1>9. \A v \in Workers : /\ outputs'[v] \in Seq(Nat) /\ Len(outputs'[v]) <= RequestCount
                         /\ pc'[v] \in Working => Len(outputs'[v]) < RequestCount
  BY <1>5, <1>7, <1>8 DEF Others, CacheTypeOK, TypeOK
<1>10. \A v \in Workers \ {w} : pc[v] \in Holding => lock'[Key(v)] = lock[Key(v)]
  <2>1. \A v \in Workers \ {w} : pc[v] \in Holding => Key(v) # Key(w)
    BY OneHolder
  <2> QED
    BY <1>1, <2>1 DEF CacheTypeOK, TypeOK
<1> QED
  BY <1>2, <1>5, <1>6, <1>7, <1>9, <1>10

LEMMA HitKeeps ==
  ASSUME CacheInv, NEW w \in Workers, ReadHit(w) PROVE CacheInv'
<1> USE DEF CacheInv
<1>1. /\ pc[w] = "read" /\ Exists(Key(w)) /\ Return(w, disk[Key(w)])
      /\ UNCHANGED <<disk, image, attempt, starts, sent, excused, crashes>>
  BY DEF ReadHit
<1>2. Key(w) \in Keys /\ pc[w] \in Holding
  BY <1>1, KeyType DEF Working, Holding
<1>3. disk[Key(w)] \in Nat
  BY <1>1, <1>2 DEF Exists, CacheTypeOK, TypeOK
<1>4. CacheTypeOK'
  BY <1>1, <1>2, <1>3, ReturnType DEF CacheTypeOK, TypeOK
<1>5. Others(w) /\ pc'[w] \in {"done", "lock"}
      /\ \A v \in Workers \ {w} : pc[v] \in Holding => lock'[Key(v)] = lock[Key(v)]
  BY <1>1, <1>2, <1>3, ReturnType
<1>6. LockHeld' /\ StillMissing' /\ OneRecord'
  BY <1>1, <1>5 DEF LockHeld, Holding, StillMissing, Missed, Exists, OneRecord, Others
<1>7. \A k \in Keys : PayingAt(k)' = PayingAt(k)
  BY <1>1, <1>5 DEF PayingAt, Paying, Others
<1>8. Accounted'
  BY <1>1, <1>7 DEF Accounted, Exists
<1>9. OneAnswer'
  <2>1. served' = [served EXCEPT ![Key(w)] = @ \cup {disk[Key(w)]}]
    BY <1>1 DEF Return
  <2> QED
    BY <1>1, <2>1 DEF OneAnswer, CacheTypeOK
<1> QED
  BY <1>4, <1>6, <1>8, <1>9

LEMMA WriteKeeps ==
  ASSUME CacheInv, NEW w \in Workers, Write(w) PROVE CacheInv'
<1> USE DEF CacheInv
<1> DEFINE k0 == Key(w)
           text == sent[k0]
<1>1. /\ pc[w] = "write" /\ Return(w, text)
      /\ disk' = [disk EXCEPT ![k0] = text] /\ image' = [image EXCEPT ![k0] = @ \cup {text}]
      /\ UNCHANGED <<attempt, starts, sent, excused, crashes>>
  BY DEF Write, Replace
<1>2. k0 \in Keys /\ pc[w] \in Holding /\ disk[k0] = NoFile
  BY <1>1, KeyType DEF Working, Holding, StillMissing, Missed, Exists
<1>3. text \in Nat /\ text # NoFile
  BY <1>2, CacheAssumption DEF CacheTypeOK, TypeOK
<1>4. disk' \in [Keys -> Nat \cup {NoFile}] /\ image' \in [Keys -> SUBSET (Nat \cup {NoFile})]
  BY <1>1, <1>2, <1>3 DEF CacheTypeOK, TypeOK
<1>5. CacheTypeOK'
  BY <1>1, <1>2, <1>3, <1>4, ReturnType DEF CacheTypeOK, TypeOK
<1>6. Others(w) /\ pc'[w] \in {"done", "lock"}
      /\ \A v \in Workers \ {w} : pc[v] \in Holding => lock'[Key(v)] = lock[Key(v)]
  BY <1>1, <1>2, <1>3, ReturnType
<1>7. \A v \in Workers \ {w} : pc[v] \in Holding => Key(v) # k0
  BY <1>2, OneHolder
<1>8. disk'[k0] = text /\ \A k \in Keys \ {k0} : disk'[k] = disk[k] /\ image'[k] = image[k]
  BY <1>1, <1>2 DEF CacheTypeOK, TypeOK
<1>9. LockHeld'
  BY <1>6 DEF LockHeld, Holding, Others
<1>10. StillMissing'
  <2> SUFFICES ASSUME NEW v \in Workers, pc'[v] \in Missed PROVE disk'[Key(v)'] = NoFile
    BY DEF StillMissing, Exists
  <2>1. v # w /\ pc[v] \in Missed /\ Key(v)' = Key(v) /\ pc[v] \in Holding
    BY <1>6 DEF Missed, Holding, Others
  <2>2. Key(v) \in Keys \ {k0} /\ disk[Key(v)] = NoFile
    BY <1>7, <2>1, KeyType DEF StillMissing, Exists, Missed, Working
  <2> QED
    BY <1>8, <2>1, <2>2
<1>11. OneRecord'
  BY <1>1, <1>2, <1>8 DEF OneRecord, CacheTypeOK, TypeOK
<1>12. Accounted'
  <2> SUFFICES ASSUME NEW k \in Keys
               PROVE  sent[k] = excused[k] + (IF disk'[k] # NoFile \/ PayingAt(k)' THEN 1 ELSE 0)
    BY <1>1 DEF Accounted, Exists
  <2>1. sent[k] = excused[k] + (IF disk[k] # NoFile \/ PayingAt(k) THEN 1 ELSE 0)
    BY DEF Accounted, Exists
  <2>2. CASE k = k0
    BY <1>1, <1>3, <1>8, <2>1, <2>2 DEF PayingAt, Paying
  <2>3. CASE k # k0
    <3>1. PayingAt(k)' = PayingAt(k)
      BY <1>1, <1>6, <2>3 DEF PayingAt, Paying, Others
    <3> QED
      BY <1>8, <2>1, <2>3, <3>1
  <2> QED
    BY <2>2, <2>3
<1>13. OneAnswer'
  <2> SUFFICES ASSUME crashes = 0, NEW k \in Keys PROVE served'[k] \subseteq {disk'[k]}
    BY <1>1 DEF OneAnswer
  <2>1. served' = [served EXCEPT ![k0] = @ \cup {text}]
    BY <1>1 DEF Return
  <2>2. served[k] \subseteq {disk[k]} /\ served[k] \subseteq Nat
    BY DEF OneAnswer, CacheTypeOK
  <2>3. CASE k = k0
    <3>1. served[k] = {}
      BY <1>2, <2>2, <2>3, CacheAssumption
    <3> QED
      BY <1>2, <1>8, <2>1, <2>3, <3>1 DEF CacheTypeOK
  <2>4. CASE k # k0
    BY <1>2, <1>8, <2>1, <2>2, <2>4 DEF CacheTypeOK
  <2> QED
    BY <2>3, <2>4
<1> QED
  BY <1>5, <1>9, <1>10, <1>11, <1>12, <1>13

-----------------------------------------------------------------------------
(* Kills and machine crashes.                                              *)

LEMMA KillKeeps ==
  ASSUME CacheInv, NEW w \in Workers, Kill(w) PROVE CacheInv'
<1> USE DEF CacheInv
<1>1. /\ pc[w] \in Working
      /\ IF pc[w] \in Paying THEN Excuse(Key(w)) ELSE excused' = excused
      /\ lock' = [k \in Keys |-> IF lock[k] = w THEN NoWorker ELSE lock[k]]
      /\ pc' = [pc EXCEPT ![w] = "dead"]
      /\ UNCHANGED <<disk, image, outputs, attempt, starts, sent, served, crashes>>
  BY DEF Kill, Goto
<1>2. excused' \in [Keys -> Nat]
  BY <1>1, ExcuseType DEF CacheTypeOK, TypeOK
<1>3. CacheTypeOK'
  BY <1>1, <1>2 DEF CacheTypeOK, TypeOK, Stopped, Working
<1>4. Others(w) /\ Key(w)' = Key(w) /\ pc'[w] = "dead"
  BY <1>1 DEF Others, Key, CacheTypeOK, TypeOK
<1>5. \A v \in Workers \ {w} : pc[v] \in Holding => lock'[Key(v)] = lock[Key(v)]
  <2>1. \A v \in Workers \ {w} : pc[v] \in Holding => Key(v) \in Keys /\ lock[Key(v)] = v
    BY KeyType DEF LockHeld, Holding, Working
  <2> QED
    BY <1>1, <2>1
<1>6. "dead" \notin Paying /\ "dead" \notin Holding /\ "dead" \notin Missed
  BY DEF Paying, Holding, Missed
<1>7. CASE pc[w] \in Paying
  BY <1>1, <1>3, <1>4, <1>5, <1>6, <1>7, GivenUp
<1>8. CASE pc[w] \notin Paying
  BY <1>1, <1>3, <1>4, <1>5, <1>6, <1>8, QuietStep DEF history
<1> QED
  BY <1>7, <1>8

LEMMA CrashKeeps == CacheInv /\ MachineCrash => CacheInv'
<1> SUFFICES ASSUME CacheInv, MachineCrash PROVE CacheInv'
  OBVIOUS
<1> USE DEF CacheInv
<1> DEFINE Payers(k) == {w \in Workers : pc[w] \in Paying /\ Key(w) = k}
           Lost(k) == IF disk[k] # disk'[k] THEN 1 ELSE 0
<1>1. /\ crashes < MaxCrashes /\ crashes' = crashes + 1
      /\ disk' \in [Keys -> UNION {image[k] : k \in Keys}]
      /\ \A k \in Keys : disk'[k] \in image[k]
      /\ image' = [k \in Keys |-> {disk'[k]}]
      /\ excused' = [k \in Keys |-> excused[k] + Lost(k) + Cardinality(Payers(k))]
      /\ lock' = [k \in Keys |-> NoWorker]
      /\ pc' = [w \in Workers |-> IF pc[w] \in Working THEN "dead" ELSE pc[w]]
      /\ UNCHANGED <<outputs, attempt, starts, sent, served>>
  BY DEF MachineCrash, LoseVolatile
<1>2. \A k \in Keys : disk'[k] \in Nat \cup {NoFile} /\ disk'[k] \in {NoFile, disk[k]}
  BY <1>1 DEF CacheTypeOK, TypeOK, OneRecord
<1>3. \A k \in Keys : /\ PayingAt(k) => Cardinality(Payers(k)) = 1 /\ disk[k] = NoFile
                      /\ ~PayingAt(k) => Cardinality(Payers(k)) = 0
  <2> TAKE k \in Keys
  <2>1. ASSUME PayingAt(k) PROVE Cardinality(Payers(k)) = 1 /\ disk[k] = NoFile
    <3>1. PICK w \in Workers : pc[w] \in Paying /\ Key(w) = k
      BY <2>1 DEF PayingAt
    <3>2. \A v \in Payers(k) : v = w
      BY <3>1, OneHolder DEF Paying, Holding
    <3>3. Payers(k) = {w}
      BY <3>1, <3>2
    <3>4. disk[k] = NoFile
      BY <3>1 DEF StillMissing, Exists, Paying, Missed
    <3> QED
      BY <3>3, <3>4, FS_Singleton
  <2>2. ASSUME ~PayingAt(k) PROVE Cardinality(Payers(k)) = 0
    <3>1. Payers(k) = {}
      BY <2>2 DEF PayingAt
    <3> QED
      BY <3>1, FS_EmptySet
  <2> QED
    BY <2>1, <2>2
<1>4. \A w \in Workers : pc'[w] \notin Working
  BY <1>1 DEF Working
<1>5. \A k \in Keys : ~PayingAt(k)'
  BY <1>4 DEF PayingAt, Paying, Working
<1>6. CacheTypeOK'
  <2>1. disk' \in [Keys -> Nat \cup {NoFile}] /\ image' \in [Keys -> SUBSET (Nat \cup {NoFile})]
    BY <1>1, <1>2
  <2>2. excused' \in [Keys -> Nat]
    <3>1. \A k \in Keys : Cardinality(Payers(k)) \in {0, 1} /\ Lost(k) \in {0, 1}
      BY <1>3
    <3> HIDE DEF Payers, Lost
    <3>2. \A k \in Keys : excused[k] \in Nat
      BY DEF CacheTypeOK, TypeOK
    <3>3. \A k \in Keys : excused[k] + Lost(k) + Cardinality(Payers(k)) \in Nat
      BY <3>1, <3>2
    <3> QED
      BY <1>1, <3>3
  <2>3. pc' \in [Workers -> Working \cup Stopped] /\ lock' \in [Keys -> Workers \cup {NoWorker}]
    BY <1>1 DEF CacheTypeOK, TypeOK, Stopped
  <2>4. crashes' \in 0..MaxCrashes
    BY <1>1, CacheAssumption DEF CacheTypeOK, TypeOK
  <2> QED
    BY <1>1, <1>4, <2>1, <2>2, <2>3, <2>4 DEF CacheTypeOK, TypeOK
<1>7. LockHeld' /\ StillMissing'
  BY <1>4 DEF LockHeld, StillMissing, Holding, Missed, Working
<1>8. OneRecord'
  BY <1>1 DEF OneRecord
<1>9. OneAnswer'
  BY <1>1, CacheAssumption DEF OneAnswer, CacheTypeOK, TypeOK
<1>10. Accounted'
  <2> SUFFICES ASSUME NEW k \in Keys
               PROVE  sent[k] = excused'[k] + (IF disk'[k] # NoFile THEN 1 ELSE 0)
    BY <1>1, <1>5 DEF Accounted, Exists
  <2>1. sent[k] = excused[k] + (IF disk[k] # NoFile \/ PayingAt(k) THEN 1 ELSE 0)
        /\ excused[k] \in Nat
    BY DEF Accounted, Exists, CacheTypeOK, TypeOK
  <2>2. excused'[k] = excused[k] + Lost(k) + Cardinality(Payers(k))
    BY <1>1
  <2>3. CASE PayingAt(k)
    BY <1>2, <1>3, <2>1, <2>2, <2>3
  <2>4. CASE ~PayingAt(k)
    BY <1>2, <1>3, <2>1, <2>2, <2>4
  <2> QED
    BY <2>3, <2>4
<1> QED
  BY <1>6, <1>7, <1>8, <1>9, <1>10

-----------------------------------------------------------------------------
THEOREM CacheInvariant == Spec => []CacheInv
<1>1. ASSUME CacheInv, [Next]_vars PROVE CacheInv'
  <2>1. CASE \E w \in Workers : Start(w) \/ Kill(w)
    BY <1>1, <2>1, StartKeeps, KillKeeps
  <2>2. CASE \E w \in Workers : Step(w)
    BY <1>1, <2>2, LockKeeps, HitKeeps, MovesKeep, SendKeeps, RetryKeeps, FailKeeps,
       WriteKeeps DEF Step
  <2>3. CASE MachineCrash
    BY <1>1, <2>3, CrashKeeps
  <2>4. CASE UNCHANGED vars
    BY <1>1, <2>4 DEF vars, worker, history, CacheInv, CacheTypeOK, TypeOK, LockHeld,
       StillMissing, Exists, OneRecord, Accounted, PayingAt, Key, OneAnswer
  <2> QED
    BY <1>1, <2>1, <2>2, <2>3, <2>4 DEF Next
<1> QED
  BY <1>1, InitCache, PTL DEF Spec

(* No provider request is wasted (response_cache.py:223), whatever runs    *)
(* share the cache, fail, are killed, resume or lose power.                *)
THEOREM PaidCallsAccountedProved == Spec => []PaidCallsAccounted
<1>1. CacheInv => PaidCallsAccounted
  BY DEF CacheInv, CacheTypeOK, Accounted, PayingAt, PaidCallsAccounted
<1> QED
  BY <1>1, CacheInvariant, PTL

(* All runs that share a cache are served the recorded answer.             *)
THEOREM OneAnswerProved == Spec => []OneAnswerPerRequest
<1>1. CacheInv => OneAnswerPerRequest
  BY DEF CacheInv, OneAnswer, OneAnswerPerRequest
<1> QED
  BY <1>1, CacheInvariant, PTL
=============================================================================
