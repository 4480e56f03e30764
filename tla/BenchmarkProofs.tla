---------------------------- MODULE BenchmarkProofs ----------------------------
(***************************************************************************)
(* What is proved of the benchmark, for any models, datasets and           *)
(* environments, in this order:                                            *)
(*   - a clean report is about artifacts that stood together, whatever     *)
(*     they hold and whoever writes in between;                            *)
(*   - a run stays within the attempts announced for it;                   *)
(*   - the dynamic programs and the multisets of the scorer compute, on    *)
(*     all texts, what the reference definitions say, so that a leaking    *)
(*     prompt is never sent;                                               *)
(*   - the frontier, ECL, Elicit and the area under the staircase are those*)
(*     of the measurements, in every run and in every verified result;     *)
(*   - what the verifier accepts was scored, and what the command wrote is *)
(*     accepted.                                                           *)
(* An induction over data is one over a set of numbers (UpTo): what a fold *)
(* returns is first described row by row.                                  *)
(***************************************************************************)
EXTENDS BenchmarkProperties, FiniteSetTheorems, WellFoundedInduction, TLAPS

-----------------------------------------------------------------------------
(* The verifier.                                                           *)

VerifierSteps == {"idle", "open", "read", "check", "recheck", "reported"}

(* The verifier's variables have their types; what an artifact holds needs *)
(* none.                                                                   *)
VerifierTypeOK ==
  /\ vpc \in VerifierSteps
  /\ at \in 1..3 /\ opened \in Nat /\ errors \in BOOLEAN
  /\ version \in [Artifacts -> Nat] /\ seen \in [Artifacts -> Nat]
  /\ disk = [a \in Artifacts |-> disk[a]]
  /\ read = [a \in Artifacts |-> read[a]]
  /\ snapshot = [a \in Artifacts |-> snapshot[a]]

(* No version comes back.                                                  *)
OldVersions ==
  /\ \A a \in Artifacts : seen[a] <= version[a]
  /\ vpc = "read" => opened <= version[Artifact]

(* An artifact of the version that was read still is what was read.        *)
SameVersion ==
  \A a \in Artifacts :
    read[a] # NoFile /\ version[a] = seen[a] => disk[a] = read[a]

(* The artifacts the verifier is done with are read, or it has an error.   *)
Done(a) ==
  \/ vpc \in {"check", "recheck", "reported"}
  \/ vpc \in {"open", "read"} /\ \E i \in 1..3 : i < at /\ a = Order[i]
ReadOrError ==
  \A a \in Artifacts : Done(a) => errors \/ read[a] # NoFile

(* Once all are read, one whose version did not change since was then what *)
(* was read of it, and one that is rechecked was so for good.              *)
Held ==
  /\ vpc \in {"idle", "check"} => at = 1
  /\ vpc \in {"check", "recheck"} =>
       \A a \in Artifacts :
         read[a] # NoFile /\ version[a] = seen[a] => snapshot[a] = read[a]
Rechecked(a) ==
  \/ vpc = "reported"
  \/ vpc = "recheck" /\ \E i \in 1..3 : i < at /\ a = Order[i]
Bound ==
  \A a \in Artifacts : Rechecked(a) => errors \/ snapshot[a] = read[a]

VerifierInv ==
  VerifierTypeOK /\ OldVersions /\ SameVersion /\ ReadOrError /\ Held /\ Bound

-----------------------------------------------------------------------------
(* The order covers the artifacts.                                         *)
LEMMA OrderCovers ==
  /\ Len(Order) = 3 /\ 1 \in 1..3
  /\ \A i \in 1..3 : Order[i] \in Artifacts
  /\ \A a \in Artifacts : \E i \in 1..3 : a = Order[i]
  /\ \A i \in 1..3 : i < 3 => i + 1 \in 1..3
BY DEF Order, Artifacts

(* The invariant holds before anything is read.                            *)
LEMMA InitVerifier == Init => VerifierInv
<1> SUFFICES ASSUME Init PROVE VerifierInv
  OBVIOUS
<1>1. VerifierTypeOK
  <2>1. vpc \in VerifierSteps /\ at \in 1..3 /\ opened \in Nat
    BY DEF Init, VerifierSteps
  <2>2. errors \in BOOLEAN
    BY DEF Init
  <2>3. version \in [Artifacts -> Nat] /\ seen \in [Artifacts -> Nat]
    BY DEF Init
  <2>4. /\ disk = [a \in Artifacts |-> disk[a]] /\ read = [a \in Artifacts |-> read[a]]
        /\ snapshot = [a \in Artifacts |-> snapshot[a]]
    BY DEF Init
  <2> QED
    BY <2>1, <2>2, <2>3, <2>4 DEF VerifierTypeOK
<1>2. OldVersions /\ SameVersion /\ ReadOrError /\ Held /\ Bound
  BY DEF Init, OldVersions, SameVersion, ReadOrError, Done, Held, Rechecked, Bound, Artifacts
<1> QED
  BY <1>1, <1>2 DEF VerifierInv

(* Somebody else writes one artifact, and nothing of the verifier moves.   *)
Written ==
  /\ \E a \in Artifacts, content \in {disk'[b] : b \in Artifacts} :
       Put(a, content)
  /\ UNCHANGED verifyVars

(* Whoever writes an artifact raises its version.                          *)
LEMMA WritesAreWritten ==
  ASSUME VerifierTypeOK,
         \/ \E environment \in Environments : WriteManifest(environment)
         \/ WriteResult \/ Edit
  PROVE  Written
<1>1. ASSUME NEW a \in Artifacts, NEW content, Put(a, content), UNCHANGED verifyVars
      PROVE  Written
  <2>1. disk'[a] = content
    BY <1>1 DEF VerifierTypeOK, Put
  <2> QED
    BY <1>1, <2>1 DEF Written
<1>2. CASE \E environment \in Environments : WriteManifest(environment)
  BY <1>1, <1>2 DEF WriteManifest, Artifacts
<1>3. CASE WriteResult
  BY <1>1, <1>3 DEF WriteResult, Artifacts
<1>4. CASE Edit
  <2>1. UNCHANGED verifyVars
    BY <1>4 DEF Edit
  <2>2. CASE \E other \in Datasets : Put("dataset", other)
    BY <1>1, <2>1, <2>2 DEF Artifacts
  <2>3. CASE \E other \in ResultEdits(disk.result) : Put("result", other)
    BY <1>1, <2>1, <2>3 DEF Artifacts
  <2>4. CASE \E other \in ManifestEdits(disk.manifest) : Put("manifest", other)
    BY <1>1, <2>1, <2>4 DEF Artifacts
  <2> QED
    BY <1>4, <2>2, <2>3, <2>4 DEF Edit
<1> QED
  BY <1>2, <1>3, <1>4

(* A write keeps the invariant: the version it makes was never seen.       *)
LEMMA WrittenKeeps == VerifierInv /\ Written => VerifierInv'
<1> SUFFICES ASSUME VerifierInv, Written PROVE VerifierInv'
  OBVIOUS
<1> USE DEF VerifierInv
<1>1. PICK a \in Artifacts, content \in {disk'[b] : b \in Artifacts} :
        /\ disk' = [disk EXCEPT ![a] = content]
        /\ version' = [version EXCEPT ![a] = @ + 1]
        /\ UNCHANGED <<vpc, at, opened, read, seen, errors, snapshot>>
  BY DEF Written, Put, verifyVars
<1>2. VerifierTypeOK'
  BY <1>1 DEF VerifierTypeOK
<1>3. /\ version'[a] = version[a] + 1
      /\ \A b \in Artifacts : b # a => version'[b] = version[b] /\ disk'[b] = disk[b]
  BY <1>1 DEF VerifierTypeOK
<1>4. \A b \in Artifacts : version[b] \in Nat /\ seen[b] \in Nat
  BY DEF VerifierTypeOK
<1>5. OldVersions'
  <2>1. \A b \in Artifacts : version[b] <= version'[b]
    BY <1>3, <1>4
  <2>2. Artifact \in Artifacts /\ Artifact' = Artifact
    BY <1>1, OrderCovers DEF Artifact, VerifierTypeOK
  <2>3. \A b \in Artifacts : version'[b] \in Nat
    BY <1>2 DEF VerifierTypeOK
  <2> QED
    BY <1>1, <1>4, <2>1, <2>2, <2>3 DEF OldVersions, VerifierTypeOK
<1>6. \A b \in Artifacts : version'[b] = seen'[b] => b # a /\ version[b] = seen[b]
  BY <1>1, <1>3, <1>4 DEF OldVersions
<1>7. SameVersion' /\ Held'
  BY <1>1, <1>3, <1>6 DEF SameVersion, Held
<1>8. ReadOrError' /\ Bound'
  BY <1>1 DEF ReadOrError, Done, Bound, Rechecked
<1> QED
  BY <1>2, <1>5, <1>7, <1>8

-----------------------------------------------------------------------------
(* The verifier's own steps.                                               *)

LEMMA StartKeeps == VerifierInv /\ StartVerify => VerifierInv'
<1> SUFFICES ASSUME VerifierInv, StartVerify PROVE VerifierInv'
  OBVIOUS
<1>1. /\ vpc = "idle" /\ vpc' = "open"
      /\ UNCHANGED <<at, opened, read, seen, errors, snapshot, disk, version>>
  BY DEF StartVerify, fileVars
<1>2. VerifierTypeOK' /\ OldVersions' /\ SameVersion'
  BY <1>1 DEF VerifierInv, VerifierTypeOK, VerifierSteps, OldVersions, SameVersion
<1>3. Held' /\ Bound'
  BY <1>1 DEF Held, Rechecked, Bound
<1>4. at = 1
  BY <1>1 DEF VerifierInv, Held
<1>5. ReadOrError'
  BY <1>1, <1>4 DEF ReadOrError, Done
<1> QED
  BY <1>2, <1>3, <1>5 DEF VerifierInv

LEMMA OpenKeeps == VerifierInv /\ Open => VerifierInv'
<1> SUFFICES ASSUME VerifierInv, Open PROVE VerifierInv'
  OBVIOUS
<1> USE DEF VerifierInv, Open, fileVars
<1>1. Artifact \in Artifacts
  BY OrderCovers DEF Artifact, VerifierTypeOK
<1>2. VerifierTypeOK'
  BY <1>1 DEF VerifierTypeOK, VerifierSteps
<1>3. OldVersions'
  BY <1>1 DEF OldVersions, Artifact, VerifierTypeOK
<1>4. SameVersion' /\ ReadOrError' /\ Held' /\ Bound'
  BY DEF SameVersion, ReadOrError, Done, Held, Rechecked, Bound
<1> QED
  BY <1>2, <1>3, <1>4

LEMMA ReadKeeps == VerifierInv /\ Read => VerifierInv'
<1> SUFFICES ASSUME VerifierInv, Read PROVE VerifierInv'
  OBVIOUS
<1> USE DEF VerifierInv
<1>1. /\ vpc = "read" /\ snapshot' = disk
      /\ UNCHANGED <<opened, disk, version, edits>>
      /\ at' = IF at = 3 THEN 1 ELSE at + 1
      /\ vpc' = IF at = 3 THEN "check" ELSE "open"
  BY OrderCovers DEF Read, Advance, fileVars
<1>2. Artifact \in Artifacts /\ at \in 1..3
  BY OrderCovers DEF Artifact, VerifierTypeOK
<1>3. \/ /\ disk[Artifact] # NoFile /\ version[Artifact] = opened
         /\ read' = [read EXCEPT ![Artifact] = disk[Artifact]]
         /\ seen' = [seen EXCEPT ![Artifact] = opened]
         /\ errors' = errors
      \/ errors' = TRUE /\ read' = read /\ seen' = seen
  BY DEF Read
<1>4. VerifierTypeOK'
  <2>1. vpc' \in VerifierSteps /\ at' \in 1..3 /\ opened' \in Nat
    BY <1>1, <1>2 DEF VerifierTypeOK, VerifierSteps
  <2>3. errors' \in BOOLEAN
    BY <1>3, Zenon DEF VerifierTypeOK
  <2>2. seen' \in [Artifacts -> Nat] /\ read' = [a \in Artifacts |-> read'[a]]
    BY <1>2, <1>3 DEF VerifierTypeOK
  <2> QED
    BY <1>1, <2>1, <2>2, <2>3 DEF VerifierTypeOK
<1>5. OldVersions'
  BY <1>1, <1>2, <1>3 DEF OldVersions, VerifierTypeOK
<1>6. SameVersion'
  BY <1>1, <1>2, <1>3 DEF SameVersion, VerifierTypeOK
<1>7. ReadOrError'
  <2> SUFFICES ASSUME NEW a \in Artifacts, Done(a)', ~errors'
               PROVE  read'[a] # NoFile
    BY DEF ReadOrError
  <2>1. ~errors /\ read' = [read EXCEPT ![Artifact] = disk[Artifact]]
        /\ disk[Artifact] # NoFile
    BY <1>3 DEF VerifierTypeOK
  <2>2. CASE a = Artifact
    BY <2>1, <2>2, <1>2 DEF VerifierTypeOK
  <2>3. CASE a # Artifact
    <3>1. PICK i \in 1..3 : a = Order[i]
      BY OrderCovers
    <3>2. i # at
      BY <2>3, <3>1 DEF Artifact
    <3>3. i < at
      <4>1. CASE at = 3
        BY <3>1, <3>2, <4>1
      <4>2. CASE at # 3
        <5>1. PICK j \in 1..3 : j < at + 1 /\ a = Order[j]
          BY <1>1, <4>2 DEF Done
        <5>2. j # at
          BY <2>3, <5>1 DEF Artifact
        <5>3. j < at
          BY <5>1, <5>2, <1>2
        <5>4. i = j
          BY <3>1, <5>1 DEF Order
        <5> QED
          BY <5>3, <5>4
      <4> QED
        BY <4>1, <4>2
    <3>4. read[a] # NoFile
      BY <1>1, <2>1, <3>1, <3>3 DEF ReadOrError, Done
    <3> QED
      BY <2>1, <2>3, <3>4 DEF VerifierTypeOK
  <2> QED
    BY <2>2, <2>3
<1>8. Held'
  BY <1>1, <1>6 DEF Held, SameVersion
<1>9. Bound'
  BY <1>1 DEF Bound, Rechecked
<1> QED
  BY <1>4, <1>5, <1>6, <1>7, <1>8, <1>9

LEMMA CheckKeeps == VerifierInv /\ Check => VerifierInv'
<1> SUFFICES ASSUME VerifierInv, Check PROVE VerifierInv'
  OBVIOUS
<1> USE DEF VerifierInv
<1>1. /\ vpc = "check" /\ vpc' = "recheck" /\ at = 1
      /\ UNCHANGED <<at, opened, read, seen, snapshot, disk, version>>
  BY DEF Check, fileVars, Held
<1>2. errors' \in BOOLEAN /\ (errors => errors')
  BY DEF Check
<1>3. VerifierTypeOK' /\ OldVersions' /\ SameVersion' /\ Held'
  BY <1>1, <1>2 DEF VerifierTypeOK, VerifierSteps, OldVersions, SameVersion, Held
<1>4. ReadOrError'
  BY <1>1, <1>2 DEF ReadOrError, Done
<1>5. Bound'
  BY <1>1 DEF Bound, Rechecked
<1> QED
  BY <1>3, <1>4, <1>5

LEMMA RecheckKeeps == VerifierInv /\ Recheck => VerifierInv'
<1> SUFFICES ASSUME VerifierInv, Recheck PROVE VerifierInv'
  OBVIOUS
<1> USE DEF VerifierInv
<1>1. /\ vpc = "recheck" /\ UNCHANGED <<opened, read, seen, snapshot, disk, version>>
      /\ at' = IF at = 3 THEN 1 ELSE at + 1
      /\ vpc' = IF at = 3 THEN "reported" ELSE "recheck"
      /\ errors' = (errors \/ (read[Artifact] # NoFile /\ version[Artifact] # seen[Artifact]))
  BY OrderCovers DEF Recheck, Advance, fileVars
<1>2. Artifact \in Artifacts /\ at \in 1..3
  BY OrderCovers DEF Artifact, VerifierTypeOK
<1>3. VerifierTypeOK' /\ OldVersions' /\ SameVersion' /\ Held'
  BY <1>1, <1>2 DEF VerifierTypeOK, VerifierSteps, OldVersions, SameVersion, Held
<1>4. ReadOrError'
  BY <1>1 DEF ReadOrError, Done
<1>5. Bound'
  <2> SUFFICES ASSUME NEW a \in Artifacts, Rechecked(a)', ~errors'
               PROVE  snapshot[a] = read[a]
    BY <1>1 DEF Bound
  <2>1. ~errors /\ read[a] # NoFile
    BY <1>1 DEF ReadOrError, Done
  <2>2. CASE a = Artifact
    BY <1>1, <2>1, <2>2 DEF Held
  <2>3. CASE a # Artifact
    <3>1. PICK i \in 1..3 : a = Order[i]
      BY OrderCovers
    <3>2. i # at
      BY <2>3, <3>1 DEF Artifact
    <3>3. CASE at = 3
      BY <1>1, <2>1, <3>1, <3>2, <3>3 DEF Bound, Rechecked
    <3>4. CASE at # 3
      <4>1. PICK j \in 1..3 : j < at + 1 /\ a = Order[j]
        BY <1>1, <3>4 DEF Rechecked
      <4>2. j # at
        BY <2>3, <4>1 DEF Artifact
      <4>3. j < at
        BY <4>1, <4>2, <1>2
      <4> QED
        BY <1>1, <2>1, <4>1, <4>3 DEF Bound, Rechecked
    <3> QED
      BY <3>3, <3>4
  <2> QED
    BY <2>2, <2>3
<1> QED
  BY <1>3, <1>4, <1>5

-----------------------------------------------------------------------------
(* VerifierInv is an invariant: what the benchmark command does before it  *)
(* writes touches nothing of it.                                           *)
THEOREM VerifierInvariant == Spec => []VerifierInv
<1>1. ASSUME VerifierInv, [Next]_vars PROVE VerifierInv'
  <2>1. CASE UNCHANGED <<verifyVars, fileVars>>
    BY <1>1, <2>1 DEF VerifierInv, verifyVars, fileVars, VerifierTypeOK, OldVersions,
         SameVersion, ReadOrError, Done, Held, Rechecked, Bound, Artifact
  <2>2. CASE \E environment \in Environments : WriteManifest(environment)
    BY <1>1, <2>2, WritesAreWritten, WrittenKeeps DEF VerifierInv
  <2>3. CASE WriteResult \/ Edit
    BY <1>1, <2>3, WritesAreWritten, WrittenKeeps DEF VerifierInv
  <2>4. CASE VerifyStep
    BY <1>1, <2>4, StartKeeps, OpenKeeps, ReadKeeps, CheckKeeps, RecheckKeeps DEF VerifyStep
  <2>5. CASE Bench
    BY <2>1, <2>5 DEF Bench
  <2>6. CASE UNCHANGED vars
    BY <2>1, <2>6 DEF vars
  <2> QED
    BY <1>1, <2>2, <2>3, <2>4, <2>5, <2>6 DEF Next
<1> QED
  BY <1>1, InitVerifier, PTL DEF Spec

(* The dataset, the result and the manifest of a clean report were on the  *)
(* disk together (verify.py:1036), for any number of edits, any models and *)
(* any datasets.                                                           *)
THEOREM VerifiedCoexistedProved == Spec => []VerifiedCoexisted
<1>1. VerifierInv => VerifiedCoexisted
  <2> SUFFICES ASSUME VerifierInv, Verified PROVE read = snapshot
    BY DEF VerifiedCoexisted
  <2>1. \A a \in Artifacts : snapshot[a] = read[a]
    BY DEF VerifierInv, Bound, Rechecked, Verified
  <2> QED
    BY <2>1 DEF VerifierInv, VerifierTypeOK
<1> QED
  BY <1>1, VerifierInvariant, PTL

-----------------------------------------------------------------------------
(* The command: what it may send is planned, and each request is sent once.*)

Sendable(items) ==
  UNION {{<<i, p>> : p \in {q \in DOMAIN items[i].ladder :
                              ~Gate(items[i].ladder[q], items[i]).disqualified}} :
         i \in DOMAIN items}
Plan == Sendable(dataset) \X HostedCalls

(* Where the command is: at which of the models, at which of the items.    *)
ModelAt == (Len(runs) \div Len(dataset)) + 1
ItemAt == (Len(runs) % Len(dataset)) + 1

(* The planned requests that it is done with.                              *)
IsMade(i, p, n, r) ==
  \/ n < ModelAt
  \/ n = ModelAt /\ i < ItemAt
  \/ n = ModelAt /\ i = ItemAt /\ p < Prompt
  \/ n = ModelAt /\ i = ItemAt /\ p = Prompt /\ r <= Len(outs)
Made == {g \in Plan : IsMade(g[1][1], g[1][2], g[2][1], g[2][2])}

CommandTypeOK ==
  /\ dataset \in Datasets /\ env \in Environments
  /\ phase \in {"load", "run", "done", "failed"} /\ cleared \in BOOLEAN
  /\ IsList(runs) /\ IsList(ladder) /\ IsList(outs)
  /\ attempts \in Nat /\ edits \in Nat

(* Nothing is sent of a dataset that is refused.                           *)
Started ==
  phase \in {"run", "done"} \/ attempts > 0 \/ sent # {} => ~Refused(dataset) /\ Ready(env)

(* While it runs, there is a model and an item to do, and a prompt for     *)
(* which there are answers has passed the gate.                            *)
InPlace ==
  phase = "run" =>
    /\ Len(runs) < Len(Models) * Len(dataset)
    /\ Len(ladder) <= Len(Item.ladder)
    /\ cleared => /\ Prompt \in DOMAIN Item.ladder
                  /\ ~Gate(Item.ladder[Prompt], Item).disqualified
    /\ ~cleared => outs = <<>>
NotYet ==
  phase = "load" => runs = <<>> /\ ladder = <<>> /\ outs = <<>> /\ ~cleared /\ attempts = 0

(* Only what the gate let through was sent.                                *)
SentPassed ==
  \A pair \in sent :
    \E s \in Sendable(dataset) : pair = <<dataset[s[1]].id, s[2]>>

(* The attempts are those of the requests made; the last one of a run that *)
(* failed is planned as well.                                              *)
Spent ==
  /\ phase = "run" => attempts <= Cardinality(Made) * (env.retries + 1)
  /\ attempts <= Cardinality(Plan) * (env.retries + 1)

(* A manifest that nobody edited is one that the command made.             *)
ManifestMade ==
  edits = 0 /\ disk.manifest # NoFile =>
    /\ ~Refused(dataset)
    /\ \E e \in Environments : disk.manifest = BenchManifest(dataset, e)

CommandInv ==
  CommandTypeOK /\ Started /\ InPlace /\ NotYet /\ SentPassed /\ Spent /\ ManifestMade

-----------------------------------------------------------------------------
(* Lists and positions.                                                    *)

LEMMA ListFacts ==
  ASSUME NEW s, IsList(s)
  PROVE  /\ Len(s) \in Nat /\ DOMAIN s = 1..Len(s)
         /\ s # <<>> => Len(s) > 0
         /\ IsFiniteSet(DOMAIN s)
BY FS_Interval DEF IsList

LEMMA EmptyList == IsList(<<>>) /\ Len(<<>>) = 0
BY DEF IsList, Range

LEMMA AppendList ==
  ASSUME NEW s, IsList(s), NEW e
  PROVE  IsList(Append(s, e)) /\ Len(Append(s, e)) = Len(s) + 1
<1> DEFINE t == Append(s, e)
<1>1. s \in Seq(Range(s) \cup {e}) /\ s \in Seq(Range(s))
  BY DEF IsList
<1>2. t \in Seq(Range(s) \cup {e}) /\ Len(t) = Len(s) + 1
  BY <1>1
<1> HIDE DEF t
<1>3. t \in [1..Len(t) -> Range(s) \cup {e}] /\ Len(t) \in Nat
  BY <1>2
<1>4. t \in [1..Len(t) -> Range(t)]
  BY <1>3 DEF Range
<1>5. t \in Seq(Range(t))
  BY <1>3, <1>4
<1> QED
  BY <1>2, <1>5 DEF IsList, t

LEMMA Product ==
  ASSUME NEW a \in Nat, NEW b \in Nat
  PROVE  a * b \in Nat
OBVIOUS

LEMMA Monotone ==
  ASSUME NEW a \in Nat, NEW b \in Nat, NEW c \in Nat, a <= b
  PROVE  a * c <= b * c
OBVIOUS

LEMMA OneMore ==
  ASSUME NEW a \in Nat, NEW c \in Nat, NEW e \in Nat, NEW t \in Nat, NEW m \in Nat,
         a <= c * e, t <= e, c + 1 <= m
  PROVE  a + t <= (c + 1) * e /\ a + t <= m * e
<1>1. (c + 1) * e = c * e + e /\ c * e \in Nat /\ m * e \in Nat
  OBVIOUS
<1>2. (c + 1) * e <= m * e
  BY Monotone
<1>3. a + t <= (c + 1) * e
  BY <1>1
<1> QED
  BY <1>1, <1>2, <1>3

LEMMA Euclid ==
  ASSUME NEW a \in Int, NEW d \in Int, d > 0
  PROVE  a = d * (a \div d) + (a % d)
BY SMTT(60)

LEMMA Division ==
  ASSUME NEW a \in Nat, NEW d \in Nat, d > 0
  PROVE  /\ a \div d \in Nat /\ a % d \in 0..d - 1
         /\ a = d * (a \div d) + (a % d)
<1>1. a \div d \in Nat /\ a % d \in 0..d - 1
  OBVIOUS
<1> QED
  BY <1>1, Euclid

(* A quotient and a remainder are the only ones.                           *)
LEMMA DivisionUnique ==
  ASSUME NEW d \in Nat, d > 0,
         NEW q \in Nat, NEW r \in 0..d - 1, NEW p \in Nat, NEW s \in 0..d - 1,
         d * q + r = d * p + s
  PROVE  q = p /\ r = s
<1>1. ASSUME NEW x \in Nat, NEW y \in Nat, NEW u \in 0..d - 1, NEW v \in 0..d - 1,
             x < y
      PROVE  d * x + u < d * y + v
  <2>1. x + 1 <= y
    BY <1>1
  <2>2. (x + 1) * d <= y * d
    BY <2>1, <1>1, Monotone
  <2>3. (x + 1) * d = d * x + d /\ y * d = d * y
    BY <1>1
  <2> QED
    BY <2>2, <2>3, <1>1
<1>2. ~(q < p) /\ ~(p < q)
  BY <1>1
<1>3. q = p
  BY <1>2
<1> QED
  BY <1>3

(* The position after a position.                                          *)
LEMMA NextPosition ==
  ASSUME NEW a \in Nat, NEW d \in Nat, d > 0,
         NEW m, m = (a \div d) + 1, NEW i, i = (a % d) + 1,
         NEW n, n = ((a + 1) \div d) + 1, NEW j, j = ((a + 1) % d) + 1
  PROVE  \/ i = d /\ n = m + 1 /\ j = 1
         \/ i # d /\ n = m /\ j = i + 1
<1> DEFINE q == a \div d
           r == a % d
           p == (a + 1) \div d
           s == (a + 1) % d
<1>1. /\ q \in Nat /\ r \in 0..d - 1 /\ a = d * q + r
      /\ p \in Nat /\ s \in 0..d - 1 /\ a + 1 = d * p + s
      /\ m = q + 1 /\ i = r + 1 /\ n = p + 1 /\ j = s + 1
  BY Division
<1> HIDE DEF q, r, p, s
<1>2. CASE r = d - 1
  <2>1. d * (q + 1) + 0 = d * p + s
    BY <1>1, <1>2
  <2>2. q + 1 \in Nat /\ 0 \in 0..d - 1
    BY <1>1
  <2>3. q + 1 = p /\ 0 = s
    BY <1>1, <2>1, <2>2, DivisionUnique
  <2> QED
    BY <1>1, <1>2, <2>3
<1>3. CASE r # d - 1
  <2>1. d * q + (r + 1) = d * p + s
    BY <1>1
  <2>2. r + 1 \in 0..d - 1
    BY <1>1, <1>3
  <2>3. q = p /\ r + 1 = s
    BY <1>1, <2>1, <2>2, DivisionUnique
  <2> QED
    BY <1>1, <1>3, <2>3
<1> QED
  BY <1>2, <1>3

LEMMA QuotientBound ==
  ASSUME NEW a \in Nat, NEW d \in Nat, d > 0, NEW m \in Nat, a < m * d
  PROVE  a \div d < m
<1>1. a \div d \in Nat /\ a % d \in 0..d - 1 /\ a = d * (a \div d) + (a % d)
  BY Division
<1>2. SUFFICES ASSUME m <= a \div d PROVE FALSE
  BY <1>1
<1>3. m * d <= (a \div d) * d
  BY <1>1, <1>2, Monotone
<1> QED
  BY <1>1, <1>3

-----------------------------------------------------------------------------
(* What is planned is finite.                                              *)

PromptsOf(items) == UNION {{<<i, p>> : p \in DOMAIN items[i].ladder} : i \in DOMAIN items}

LEMMA FiniteUnion ==
  ASSUME NEW D, IsFiniteSet(D), NEW f, f = [x \in D |-> f[x]],
         \A x \in D : IsFiniteSet(f[x]),
         NEW U, \A u \in U : \E x \in D : u \in f[x]
  PROVE  IsFiniteSet(U)
<1> DEFINE T == {f[x] : x \in D}
<1>1. f \in Surjection(D, T)
  BY DEF Surjection
<1>2. IsFiniteSet(T)
  BY <1>1, FS_Surjection
<1>3. \A t \in T : IsFiniteSet(t)
  OBVIOUS
<1>4. IsFiniteSet(UNION T)
  BY <1>2, <1>3, FS_UNION
<1>5. U \subseteq UNION T
  OBVIOUS
<1> QED
  BY <1>4, <1>5, FS_Subset

LEMMA FiniteImage ==
  ASSUME NEW D, IsFiniteSet(D), NEW f, f = [x \in D |-> f[x]]
  PROVE  IsFiniteSet({f[x] : x \in D})
<1> DEFINE T == {f[x] : x \in D}
<1>1. f \in Surjection(D, T)
  BY DEF Surjection
<1> QED
  BY <1>1, FS_Surjection

LEMMA DatasetFacts ==
  ASSUME NEW items \in Datasets
  PROVE  /\ Len(items) \in Nat /\ DOMAIN items = 1..Len(items)
         /\ IsFiniteSet(DOMAIN items)
         /\ items # <<>> => Len(items) > 0
         /\ \A i \in DOMAIN items :
              /\ Len(items[i].ladder) \in Nat
              /\ DOMAIN items[i].ladder = 1..Len(items[i].ladder)
              /\ IsFiniteSet(DOMAIN items[i].ladder)
BY DatasetAssumption, ListFacts

LEMMA PromptsFinite ==
  ASSUME NEW items \in Datasets
  PROVE  /\ IsFiniteSet(PromptsOf(items)) /\ Sendable(items) \subseteq PromptsOf(items)
         /\ IsFiniteSet(Sendable(items)) /\ Cardinality(Sendable(items)) \in Nat
<1> DEFINE f == [i \in DOMAIN items |-> {<<i, p>> : p \in DOMAIN items[i].ladder}]
<1>1. ASSUME NEW i \in DOMAIN items PROVE IsFiniteSet(f[i])
  <2> DEFINE g == [p \in DOMAIN items[i].ladder |-> <<i, p>>]
  <2>1. IsFiniteSet({g[p] : p \in DOMAIN items[i].ladder})
    <3>1. g = [p \in DOMAIN items[i].ladder |-> g[p]] /\ IsFiniteSet(DOMAIN items[i].ladder)
      BY DatasetFacts
    <3> HIDE DEF g
    <3> QED
      BY <3>1, FiniteImage
  <2>2. {g[p] : p \in DOMAIN items[i].ladder} = {<<i, p>> : p \in DOMAIN items[i].ladder}
    OBVIOUS
  <2> QED
    BY <2>1, <2>2
<1>2. \A s \in PromptsOf(items) : \E i \in DOMAIN items : s \in f[i]
  BY DEF PromptsOf
<1>3. f = [i \in DOMAIN items |-> f[i]] /\ IsFiniteSet(DOMAIN items)
  BY DatasetFacts
<1> HIDE DEF f
<1>4. IsFiniteSet(PromptsOf(items))
  <2>1. \A i \in DOMAIN items : IsFiniteSet(f[i])
    BY <1>1
  <2> QED
    BY <1>2, <1>3, <2>1, FiniteUnion
<1>5. Sendable(items) \subseteq PromptsOf(items)
  BY DEF Sendable, PromptsOf
<1> QED
  BY <1>4, <1>5, FS_Subset, FS_CardinalityType

LEMMA HostedFinite ==
  /\ HostedCalls \subseteq (DOMAIN Models) \X (1..Reruns)
  /\ \A n \in DOMAIN Models : EvidenceMode(Models[n]) # "mock" =>
       \A r \in 1..Reruns : <<n, r>> \in HostedCalls
  /\ \A c \in HostedCalls : EvidenceMode(Models[c[1]]) # "mock"
  /\ IsFiniteSet(HostedCalls) /\ HostedReruns \in Nat
<1>1. /\ HostedCalls \subseteq (DOMAIN Models) \X (1..Reruns)
      /\ \A n \in DOMAIN Models : EvidenceMode(Models[n]) # "mock" =>
           \A r \in 1..Reruns : <<n, r>> \in HostedCalls
      /\ \A c \in HostedCalls : EvidenceMode(Models[c[1]]) # "mock"
  BY DEF HostedCalls, EffectiveReruns
<1>2. IsFiniteSet(DOMAIN Models) /\ IsFiniteSet(1..Reruns)
  BY LadderAssumption, ListFacts, FS_Interval
<1>3. IsFiniteSet((DOMAIN Models) \X (1..Reruns))
  BY <1>2, FS_Product
<1>4. IsFiniteSet(HostedCalls)
  BY <1>1, <1>3, FS_Subset
<1> QED
  BY <1>1, <1>4, FS_CardinalityType DEF HostedReruns

LEMMA PlanSize ==
  ASSUME dataset \in Datasets
  PROVE  /\ IsFiniteSet(Plan) /\ Cardinality(Plan) \in Nat
         /\ Cardinality(Plan) = Cardinality(Sendable(dataset)) * HostedReruns
         /\ IsFiniteSet(Made) /\ Cardinality(Made) \in Nat
<1>1. /\ IsFiniteSet(Plan)
      /\ Cardinality(Plan) = Cardinality(Sendable(dataset)) * HostedReruns
  BY PromptsFinite, HostedFinite, FS_Product DEF Plan, HostedReruns
<1>2. IsFiniteSet(Made)
  BY <1>1, FS_Subset DEF Made
<1> QED
  BY <1>1, <1>2, FS_CardinalityType

(* The gate gives a verdict.                                               *)
LEMMA GateVerdict ==
  ASSUME NEW prompt, NEW item
  PROVE  Gate(prompt, item).disqualified \in BOOLEAN
BY DEF Gate, EvaluateLeakage, Verdict

(* As many receipts as prompts to send: no two items have one name.        *)
LEMMA ReceiptsCount ==
  ASSUME NEW items \in Datasets, ~Refused(items)
  PROVE  Cardinality(PromptReceipts(items, FALSE)) = Cardinality(Sendable(items))
<1> DEFINE R(s) == [item |-> items[s[1]].id, prompt |-> s[2],
                    tokens |-> TokenCount(items[s[1]].ladder[s[2]].text)]
           f == [s \in Sendable(items) |-> R(s)]
<1>1. \A i, j \in DOMAIN items : items[i].id = items[j].id => i = j
  BY DEF Refused, IsInjective
<1>2. \A s \in Sendable(items) : s = <<s[1], s[2]>> /\ s[1] \in DOMAIN items
  BY DEF Sendable
<1>3. \A s, u \in Sendable(items) : R(s) = R(u) => s = u
  <2>1. ASSUME NEW s \in Sendable(items), NEW u \in Sendable(items), R(s) = R(u)
        PROVE  s[1] = u[1] /\ s[2] = u[2]
    <3>1. R(s).item = R(u).item /\ R(s).prompt = R(u).prompt
      BY <2>1
    <3> QED
      BY <1>1, <1>2, <3>1
  <2> QED
    BY <1>2, <2>1
<1>4. PromptReceipts(items, FALSE) = {R(s) : s \in Sendable(items)}
  <2>1. \A i, p :
          Gate(items[i].ladder[p], items[i]).disqualified = FALSE
            <=> ~Gate(items[i].ladder[p], items[i]).disqualified
    BY GateVerdict, Zenon
  <2>2. ASSUME NEW x \in PromptReceipts(items, FALSE)
        PROVE  \E s \in Sendable(items) : x = R(s)
    <3>1. PICK i \in DOMAIN items : \E p \in DOMAIN items[i].ladder :
            /\ ~Gate(items[i].ladder[p], items[i]).disqualified
            /\ x = [item |-> items[i].id, prompt |-> p,
                    tokens |-> TokenCount(items[i].ladder[p].text)]
      BY <2>1, <2>2 DEF PromptReceipts
    <3>2. PICK p \in DOMAIN items[i].ladder :
            /\ ~Gate(items[i].ladder[p], items[i]).disqualified
            /\ x = [item |-> items[i].id, prompt |-> p,
                    tokens |-> TokenCount(items[i].ladder[p].text)]
      BY <3>1
    <3>3. <<i, p>> \in Sendable(items) /\ x = R(<<i, p>>)
      BY <3>2 DEF Sendable
    <3> QED
      BY <3>3
  <2>3. ASSUME NEW s \in Sendable(items) PROVE R(s) \in PromptReceipts(items, FALSE)
    <3>1. PICK i \in DOMAIN items : \E p \in DOMAIN items[i].ladder :
            s = <<i, p>> /\ ~Gate(items[i].ladder[p], items[i]).disqualified
      BY DEF Sendable
    <3>2. PICK p \in DOMAIN items[i].ladder :
            s = <<i, p>> /\ ~Gate(items[i].ladder[p], items[i]).disqualified
      BY <3>1
    <3> QED
      BY <2>1, <3>2 DEF PromptReceipts
  <2> QED
    BY <2>2, <2>3
<1>5. f \in Bijection(Sendable(items), PromptReceipts(items, FALSE))
  BY <1>3, <1>4 DEF Bijection, Injection, Surjection, IsInjective
<1>6. ExistsBijection(Sendable(items), PromptReceipts(items, FALSE))
  BY <1>5 DEF ExistsBijection
<1> QED
  BY <1>6, PromptsFinite, FS_Bijection

(* The preflight counts them by leaving out the gated ones.                *)
LEMMA PreflightCount ==
  ASSUME NEW items \in Datasets, NEW environment
  PROVE  PreflightReport(items, environment).nonLeakingPromptCount
           = Cardinality(Sendable(items))
<1> DEFINE gated == {q \in PromptsOf(items) :
                      Gate(items[q[1]].ladder[q[2]], items[q[1]]).disqualified}
<1>1. Sendable(items) = PromptsOf(items) \ gated
  BY DEF Sendable, PromptsOf
<1>2. PromptsOf(items) \cap gated = gated
  OBVIOUS
<1>3. Cardinality(Sendable(items)) = Cardinality(PromptsOf(items)) - Cardinality(gated)
  BY <1>1, <1>2, PromptsFinite, FS_Difference
<1> QED
  BY <1>3 DEF PreflightReport, PromptsOf

-----------------------------------------------------------------------------
(* Where the command is while it runs.                                     *)

LEMMA Place ==
  ASSUME CommandTypeOK, Started, InPlace, phase = "run"
  PROVE  /\ Len(dataset) \in Nat /\ Len(dataset) > 0 /\ Len(runs) \in Nat
         /\ ItemAt \in DOMAIN dataset /\ Item = dataset[ItemAt]
         /\ ModelAt \in DOMAIN Models /\ Model = Models[ModelAt]
         /\ Len(Item.ladder) \in Nat /\ DOMAIN Item.ladder = 1..Len(Item.ladder)
         /\ Prompt \in Nat /\ Prompt > 0 /\ Len(ladder) \in Nat /\ Len(outs) \in Nat
         /\ DOMAIN dataset = 1..Len(dataset) /\ DOMAIN Models = 1..Len(Models)
<1>1. dataset # <<>> /\ dataset \in Datasets
  BY DEF Started, Refused, CommandTypeOK
<1>2. /\ Len(dataset) \in Nat /\ Len(dataset) > 0 /\ DOMAIN dataset = 1..Len(dataset)
      /\ Len(Models) \in Nat /\ DOMAIN Models = 1..Len(Models)
      /\ Len(runs) \in Nat /\ Len(ladder) \in Nat /\ Len(outs) \in Nat
  BY <1>1, DatasetFacts, ListFacts, LadderAssumption DEF CommandTypeOK
<1>3. Len(runs) < Len(Models) * Len(dataset)
  BY DEF InPlace
<1>4. /\ Len(runs) \div Len(dataset) \in Nat
      /\ Len(runs) % Len(dataset) \in 0..Len(dataset) - 1
      /\ Len(runs) \div Len(dataset) < Len(Models)
  BY <1>2, <1>3, Division, QuotientBound
<1>5. ItemAt \in DOMAIN dataset /\ ModelAt \in DOMAIN Models
  BY <1>2, <1>4 DEF ItemAt, ModelAt
<1>6. Item = dataset[ItemAt] /\ Model = Models[ModelAt]
  BY DEF Item, ItemAt, Model, ModelAt
<1>7. Len(Item.ladder) \in Nat /\ DOMAIN Item.ladder = 1..Len(Item.ladder)
  BY <1>1, <1>5, <1>6, DatasetFacts
<1> QED
  BY <1>2, <1>5, <1>6, <1>7 DEF Prompt

LEMMA PlanEntries ==
  ASSUME dataset \in Datasets, NEW g \in Plan
  PROVE  /\ g[1][1] \in DOMAIN dataset /\ g[1][1] \in Nat
         /\ g[1][2] \in DOMAIN dataset[g[1][1]].ladder /\ g[1][2] \in Nat /\ g[1][2] > 0
         /\ ~Gate(dataset[g[1][1]].ladder[g[1][2]], dataset[g[1][1]]).disqualified
         /\ g[2][1] \in DOMAIN Models /\ g[2][1] \in Nat
         /\ EvidenceMode(Models[g[2][1]]) # "mock"
         /\ g[2][2] \in 1..Reruns
         /\ g = <<<<g[1][1], g[1][2]>>, <<g[2][1], g[2][2]>>>>
<1>1. g = <<g[1], g[2]>> /\ g[1] \in Sendable(dataset) /\ g[2] \in HostedCalls
  BY DEF Plan
<1>2. /\ g[2] = <<g[2][1], g[2][2]>> /\ g[2][1] \in DOMAIN Models /\ g[2][2] \in 1..Reruns
      /\ EvidenceMode(Models[g[2][1]]) # "mock"
  BY <1>1, HostedFinite
<1>3. /\ g[1] = <<g[1][1], g[1][2]>> /\ g[1][1] \in DOMAIN dataset
      /\ g[1][2] \in DOMAIN dataset[g[1][1]].ladder
      /\ ~Gate(dataset[g[1][1]].ladder[g[1][2]], dataset[g[1][1]]).disqualified
  BY <1>1 DEF Sendable
<1>4. DOMAIN Models = 1..Len(Models) /\ Len(Models) \in Nat
  BY ListFacts, LadderAssumption
<1> QED
  BY <1>1, <1>2, <1>3, <1>4, DatasetFacts

(* The request that a hosted model is about to get is planned, and new.    *)
NextRequest == <<<<ItemAt, Prompt>>, <<ModelAt, Len(outs) + 1>>>>

LEMMA NextIsPlanned ==
  ASSUME CommandTypeOK, Started, InPlace, AtPrompt, cleared, Hosted,
         Len(outs) < EffectiveReruns(Model)
  PROVE  /\ NextRequest \in Plan \ Made
         /\ <<ItemAt, Prompt>> \in Sendable(dataset)
<1>1. phase = "run" /\ Prompt \in DOMAIN Item.ladder
  BY DEF AtPrompt
<1>2. ~Gate(Item.ladder[Prompt], Item).disqualified
  BY <1>1 DEF InPlace
<1>3. <<ItemAt, Prompt>> \in Sendable(dataset)
  BY <1>1, <1>2, Place DEF Sendable
<1>4. EvidenceMode(Model) # "mock" /\ EffectiveReruns(Model) = Reruns
  BY DEF Hosted, EffectiveReruns
<1>5. Len(outs) + 1 \in 1..Reruns
  BY <1>1, <1>4, Place, LadderAssumption
<1>6. <<ModelAt, Len(outs) + 1>> \in HostedCalls
  BY <1>1, <1>4, <1>5, Place, HostedFinite
<1>7. ~IsMade(ItemAt, Prompt, ModelAt, Len(outs) + 1)
  BY <1>1, Place DEF IsMade
<1> QED
  BY <1>3, <1>6, <1>7 DEF Plan, Made, NextRequest

LEMMA RoomForOne ==
  ASSUME CommandTypeOK, Started, InPlace, AtPrompt, cleared, Hosted,
         Len(outs) < EffectiveReruns(Model)
  PROVE  /\ Cardinality(Made \cup {NextRequest}) = Cardinality(Made) + 1
         /\ Cardinality(Made) + 1 <= Cardinality(Plan)
<1>1. IsFiniteSet(Plan) /\ IsFiniteSet(Made) /\ NextRequest \in Plan \ Made
  BY PlanSize, NextIsPlanned DEF CommandTypeOK
<1>2. Cardinality(Made \cup {NextRequest}) = Cardinality(Made) + 1
  BY <1>1, FS_AddElement
<1>3. Made \cup {NextRequest} \in SUBSET Plan
  BY <1>1 DEF Made
<1>4. Cardinality(Made \cup {NextRequest}) <= Cardinality(Plan)
  BY <1>1, <1>3, FS_Subset
<1> QED
  BY <1>2, <1>4

-----------------------------------------------------------------------------
(* The command's steps.                                                    *)

RunInv == CommandTypeOK /\ Started /\ InPlace /\ NotYet /\ SentPassed /\ Spent

LEMMA SameMade ==
  ASSUME UNCHANGED dataset,
         \A g \in Plan : IsMade(g[1][1], g[1][2], g[2][1], g[2][2])'
                           <=> IsMade(g[1][1], g[1][2], g[2][1], g[2][2])
  PROVE  Plan' = Plan /\ Made' = Made
<1>1. Plan' = Plan
  BY DEF Plan
<1> QED
  BY <1>1 DEF Made

LEMMA LoadKeeps ==
  ASSUME RunInv, Load, UNCHANGED edits
  PROVE  RunInv'
<1> USE DEF RunInv
<1>1. /\ phase = "load" /\ phase' \in {"failed", "run"}
      /\ phase' = "run" => ~Refused(dataset) /\ Ready(env)
      /\ UNCHANGED <<dataset, env, runs, ladder, cleared, outs, attempts, sent>>
  BY DEF Load
<1>2. runs = <<>> /\ ladder = <<>> /\ outs = <<>> /\ ~cleared /\ attempts = 0
  BY <1>1 DEF NotYet
<1>3. CommandTypeOK' /\ NotYet' /\ SentPassed'
  BY <1>1 DEF CommandTypeOK, NotYet, SentPassed
<1>4. Started'
  BY <1>1 DEF Started, Ready
<1>5. InPlace'
  <2> SUFFICES ASSUME phase' = "run" PROVE InPlace'
    BY DEF InPlace
  <2>1. /\ dataset # <<>> /\ dataset \in Datasets
        /\ Models # <<>> /\ IsList(Models)
    BY <1>1, LadderAssumption DEF Refused, CommandTypeOK
  <2>2. Len(dataset) \in Nat /\ Len(dataset) > 0 /\ Len(Models) \in Nat /\ Len(Models) > 0
    BY <2>1, DatasetFacts, ListFacts
  <2>3. Len(runs) = 0 /\ Len(ladder) = 0
    BY <1>2, EmptyList
  <2>4. Len(Models) * Len(dataset) > 0
    BY <2>2
  <2>5. 0 \div Len(dataset) = 0 /\ 0 % Len(dataset) = 0
    <3>1. Len(dataset) * 0 + 0 = Len(dataset) * (0 \div Len(dataset)) + (0 % Len(dataset))
      BY <2>2, Division
    <3>2. 0 \div Len(dataset) \in Nat /\ 0 % Len(dataset) \in 0..Len(dataset) - 1
      BY <2>2, Division
    <3>3. 0 \in 0..Len(dataset) - 1
      BY <2>2
    <3> QED
      BY <2>2, <3>1, <3>2, <3>3, DivisionUnique
  <2>6. Item' = dataset[1]
    BY <1>1, <2>3, <2>5 DEF Item
  <2>7. Len(dataset[1].ladder) \in Nat
    BY <2>1, <2>2, DatasetFacts
  <2> QED
    BY <1>1, <1>2, <2>3, <2>4, <2>6, <2>7 DEF InPlace
<1>6. Spent'
  <2>1. Plan' = Plan /\ Cardinality(Made') \in Nat /\ env.retries + 1 \in Nat
    <3>1. CommandTypeOK' /\ CommandTypeOK
      BY <1>3
    <3>2. Cardinality(Made') \in Nat
      <4>1. IsFiniteSet(Plan')
        BY <1>1, <3>1, PlanSize DEF CommandTypeOK, Plan
      <4>2. Made' \in SUBSET Plan'
        BY DEF Made
      <4> QED
        BY <4>1, <4>2, FS_Subset, FS_CardinalityType
    <3> QED
      BY <1>1, <3>1, <3>2, LadderAssumption DEF Plan, CommandTypeOK
  <2>2. 0 <= Cardinality(Made') * (env.retries + 1)
    BY <2>1, Product
  <2> QED
    BY <1>1, <1>2, <2>1, <2>2 DEF Spent
<1> QED
  BY <1>3, <1>4, <1>5, <1>6

(* A prompt is measured: all requests for it were made, if it has any.     *)
LEMMA RecordKeeps ==
  ASSUME RunInv, UNCHANGED edits, AtPrompt, NEW answers, Record(answers),
         UNCHANGED <<dataset, env, phase, runs, attempts, sent>>,
         \A g \in Plan : g[2][1] = ModelAt /\ g[1][1] = ItemAt /\ g[1][2] = Prompt =>
                           g[2][2] <= Len(outs)
  PROVE  RunInv'
<1> USE DEF RunInv
<1>1. phase = "run" /\ Prompt \in DOMAIN Item.ladder
  BY DEF AtPrompt
<1>2. /\ Prompt = Len(ladder) + 1 /\ Len(ladder) \in Nat /\ Len(outs) \in Nat
      /\ Len(Item.ladder) \in Nat /\ DOMAIN Item.ladder = 1..Len(Item.ladder)
  BY <1>1, Place DEF Prompt
<1>3. /\ IsList(ladder') /\ Len(ladder') = Len(ladder) + 1
      /\ IsList(outs') /\ outs' = <<>> /\ Len(outs') = 0 /\ cleared' = FALSE
  BY AppendList, EmptyList DEF Record, CommandTypeOK
<1>4. /\ ModelAt' = ModelAt /\ ItemAt' = ItemAt /\ Prompt' = Prompt + 1
      /\ Item' = Item
  BY <1>2, <1>3 DEF ModelAt, ItemAt, Prompt, Item
<1>5. CommandTypeOK' /\ Started' /\ NotYet' /\ SentPassed'
  BY <1>1, <1>3 DEF CommandTypeOK, Started, Ready, NotYet, SentPassed
<1>6. InPlace'
  BY <1>1, <1>2, <1>3, <1>4 DEF InPlace
<1>7. ASSUME NEW g \in Plan
      PROVE  IsMade(g[1][1], g[1][2], g[2][1], g[2][2])'
               <=> IsMade(g[1][1], g[1][2], g[2][1], g[2][2])
  <2> DEFINE i == g[1][1]
             p == g[1][2]
             n == g[2][1]
             r == g[2][2]
  <2>1. p \in Nat /\ p > 0 /\ r \in Nat /\ r > 0
    BY PlanEntries, LadderAssumption DEF CommandTypeOK
  <2>2. n = ModelAt /\ i = ItemAt /\ p = Prompt => r <= Len(outs)
    OBVIOUS
  <2> HIDE DEF i, p, n, r
  <2>3. /\ p < Prompt + 1 <=> p < Prompt \/ p = Prompt
        /\ ~(r <= 0)
    BY <1>2, <2>1
  <2>4. IsMade(i, p, n, r)' <=> IsMade(i, p, n, r)
    BY <1>3, <1>4, <2>2, <2>3 DEF IsMade
  <2> QED
    BY <2>4 DEF i, p, n, r
<1>8. Plan' = Plan /\ Made' = Made
  BY <1>7, SameMade
<1>9. Spent'
  BY <1>8 DEF Spent
<1> QED
  BY <1>5, <1>6, <1>9

LEMMA GatekeepKeeps ==
  ASSUME RunInv, Gatekeep, UNCHANGED edits
  PROVE  RunInv'
<1> USE DEF RunInv
<1>1. /\ AtPrompt /\ ~cleared /\ phase = "run" /\ Prompt \in DOMAIN Item.ladder
      /\ UNCHANGED <<dataset, env, phase, runs, attempts, sent>>
  BY DEF Gatekeep, AtPrompt
<1>2. CASE Gate(Item.ladder[Prompt], Item).disqualified
  <2>1. Record(<<>>)
    BY <1>2 DEF Gatekeep
  <2>2. \A g \in Plan : ~(g[1][1] = ItemAt /\ g[1][2] = Prompt)
    BY <1>1, <1>2, Place, PlanEntries DEF CommandTypeOK
  <2> QED
    BY <1>1, <2>1, <2>2, RecordKeeps
<1>3. CASE ~Gate(Item.ladder[Prompt], Item).disqualified
  <2>1. cleared' = TRUE /\ UNCHANGED <<ladder, outs>>
    BY <1>3 DEF Gatekeep
  <2>2. Prompt' = Prompt /\ Item' = Item /\ ModelAt' = ModelAt /\ ItemAt' = ItemAt
    BY <1>1, <2>1 DEF Prompt, Item, ModelAt, ItemAt
  <2>3. CommandTypeOK' /\ Started' /\ NotYet' /\ SentPassed'
    BY <1>1, <2>1 DEF CommandTypeOK, Started, Ready, NotYet, SentPassed
  <2>4. InPlace'
    BY <1>1, <1>3, <2>1, <2>2 DEF InPlace
  <2>5. Plan' = Plan /\ Made' = Made
    BY <1>1, <2>1, <2>2 DEF Plan, Made, IsMade
  <2> QED
    BY <1>1, <2>3, <2>4, <2>5 DEF Spent
<1> QED
  BY <1>2, <1>3

LEMMA ScoreKeeps ==
  ASSUME RunInv, Score, UNCHANGED edits
  PROVE  RunInv'
<1> USE DEF RunInv
<1>1. /\ AtPrompt /\ cleared /\ phase = "run" /\ Len(outs) = EffectiveReruns(Model)
      /\ UNCHANGED <<dataset, env, runs, attempts, sent>>
  BY DEF Score, AtPrompt
<1>2. CASE phase' = "failed" /\ UNCHANGED <<ladder, cleared, outs>>
  <2>1. CommandTypeOK' /\ Started' /\ InPlace' /\ NotYet' /\ SentPassed'
    BY <1>1, <1>2 DEF CommandTypeOK, Started, Ready, InPlace, NotYet, SentPassed
  <2>2. Spent'
    BY <1>1, <1>2 DEF Spent, Plan
  <2> QED
    BY <2>1, <2>2
<1>3. CASE Record(outs) /\ UNCHANGED phase
  <2>1. ASSUME NEW g \in Plan, g[2][1] = ModelAt
        PROVE  g[2][2] <= Len(outs)
    <3>1. EvidenceMode(Model) # "mock"
      BY <1>1, <2>1, Place, PlanEntries DEF CommandTypeOK
    <3>2. Len(outs) = Reruns
      BY <1>1, <3>1 DEF EffectiveReruns
    <3> QED
      BY <3>2, PlanEntries, LadderAssumption DEF CommandTypeOK
  <2> QED
    BY <1>1, <1>3, <2>1, RecordKeeps
<1> QED
  BY <1>2, <1>3 DEF Score

(* An answer is added: of the planned requests, it is the one for a hosted *)
(* model that was next, or none.                                           *)
LEMMA AnswerMakes ==
  ASSUME RunInv, AtPrompt, cleared, Len(outs) < EffectiveReruns(Model),
         NEW answer, outs' = Append(outs, answer), IsList(outs'), Len(outs') = Len(outs) + 1,
         UNCHANGED <<dataset, env, phase, runs, ladder, cleared>>
  PROVE  /\ Plan' = Plan
         /\ Hosted => Made' = Made \cup {NextRequest}
         /\ ~Hosted => Made' = Made
         /\ InPlace' /\ NotYet'
<1> USE DEF RunInv
<1>1. phase = "run" /\ Len(outs) \in Nat /\ Prompt \in Nat
  BY Place DEF AtPrompt
<1>2. ModelAt' = ModelAt /\ ItemAt' = ItemAt /\ Prompt' = Prompt /\ Item' = Item /\ Plan' = Plan
  BY DEF ModelAt, ItemAt, Prompt, Item, Plan
<1>3. ASSUME NEW g \in Plan
      PROVE  IsMade(g[1][1], g[1][2], g[2][1], g[2][2])'
               <=> \/ IsMade(g[1][1], g[1][2], g[2][1], g[2][2])
                   \/ g = NextRequest
  <2> DEFINE i == g[1][1]
             p == g[1][2]
             n == g[2][1]
             r == g[2][2]
  <2>1. /\ r \in Nat /\ p \in Nat /\ g = <<<<i, p>>, <<n, r>>>>
    BY PlanEntries, LadderAssumption DEF CommandTypeOK
  <2>2. g = NextRequest <=> i = ItemAt /\ p = Prompt /\ n = ModelAt /\ r = Len(outs) + 1
    BY <2>1 DEF NextRequest
  <2> HIDE DEF i, p, n, r
  <2>3. r <= Len(outs) + 1 <=> r <= Len(outs) \/ r = Len(outs) + 1
    BY <1>1, <2>1
  <2>4. IsMade(i, p, n, r)' <=> IsMade(i, p, n, r) \/ g = NextRequest
    BY <1>2, <2>2, <2>3 DEF IsMade
  <2> QED
    BY <2>4 DEF i, p, n, r
<1>4. CASE Hosted
  <2>1. NextRequest \in Plan
    BY <1>4, NextIsPlanned
  <2>2. Made' = Made \cup {NextRequest}
    BY <1>2, <1>3, <2>1 DEF Made
  <2> QED
    BY <1>1, <1>2, <1>4, <2>2 DEF InPlace, NotYet
<1>5. CASE ~Hosted
  <2>1. ASSUME NEW g \in Plan PROVE g # NextRequest
    <3>1. EvidenceMode(Models[g[2][1]]) # "mock"
      BY PlanEntries DEF CommandTypeOK
    <3>2. EvidenceMode(Model) = "mock"
      BY <1>5 DEF Hosted, EvidenceMode
    <3>3. Model = Models[ModelAt]
      BY <1>1, Place
    <3> QED
      BY <3>1, <3>2, <3>3 DEF NextRequest
  <2>2. Made' = Made
    BY <1>2, <1>3, <2>1 DEF Made
  <2> QED
    BY <1>1, <1>2, <1>5, <2>2 DEF InPlace, NotYet
<1> QED
  BY <1>4, <1>5

LEMMA MockKeeps ==
  ASSUME RunInv, NEW wobble, GenerateMock(wobble), UNCHANGED edits
  PROVE  RunInv'
<1> USE DEF RunInv
<1>1. PICK answer : outs' = Append(outs, answer)
  BY DEF GenerateMock
<1>2. /\ AtPrompt /\ cleared /\ ~Hosted /\ Len(outs) < EffectiveReruns(Model)
      /\ UNCHANGED <<dataset, env, phase, runs, ladder, cleared, attempts, sent>>
  BY DEF GenerateMock
<1>3. IsList(outs') /\ Len(outs') = Len(outs) + 1
  BY <1>1, AppendList DEF CommandTypeOK
<1>4. Plan' = Plan /\ Made' = Made /\ InPlace' /\ NotYet'
  BY <1>1, <1>2, <1>3, AnswerMakes
<1>5. CommandTypeOK' /\ Started' /\ SentPassed'
  BY <1>2, <1>3 DEF CommandTypeOK, Started, Ready, SentPassed
<1>6. Spent'
  BY <1>2, <1>4 DEF Spent
<1> QED
  BY <1>4, <1>5, <1>6

LEMMA SentIsPlanned ==
  ASSUME RunInv, AtPrompt, cleared, Hosted, Len(outs) < EffectiveReruns(Model),
         UNCHANGED dataset, sent' = sent \cup {<<Item.id, Prompt>>}
  PROVE  SentPassed'
<1> USE DEF RunInv
<1>1. <<ItemAt, Prompt>> \in Sendable(dataset) /\ Item = dataset[ItemAt]
  BY NextIsPlanned, Place DEF AtPrompt
<1>2. \A pair \in sent' : \E s \in Sendable(dataset) : pair = <<dataset[s[1]].id, s[2]>>
  BY <1>1 DEF SentPassed
<1> QED
  BY <1>2 DEF SentPassed

LEMMA HostedKeeps ==
  ASSUME RunInv, NEW answer \in Answers, GenerateHosted(answer), UNCHANGED edits
  PROVE  RunInv'
<1> USE DEF RunInv
<1>1. /\ AtPrompt /\ cleared /\ Hosted /\ Len(outs) < EffectiveReruns(Model)
      /\ answer.attempts <= env.retries + 1 /\ attempts' = attempts + answer.attempts
      /\ sent' = sent \cup {<<Item.id, Prompt>>}
      /\ UNCHANGED <<dataset, env, phase, runs, ladder, cleared>>
  BY DEF GenerateHosted
<1>2. PICK kept : outs' = Append(outs, kept)
  BY DEF GenerateHosted
<1>3. IsList(outs') /\ Len(outs') = Len(outs) + 1
  BY <1>2, AppendList DEF CommandTypeOK
<1>4. /\ Plan' = Plan /\ Made' = Made \cup {NextRequest} /\ InPlace' /\ NotYet'
  BY <1>1, <1>2, <1>3, AnswerMakes
<1>5. /\ answer.attempts \in Nat /\ attempts \in Nat /\ env.retries + 1 \in Nat
      /\ phase = "run"
  BY <1>1, LadderAssumption DEF CommandTypeOK, AtPrompt
<1>6. CommandTypeOK' /\ Started' /\ SentPassed'
  BY <1>1, <1>3, <1>5, SentIsPlanned DEF CommandTypeOK, Started, Ready
<1>7. Spent'
  <2>1. /\ Cardinality(Made) \in Nat /\ Cardinality(Plan) \in Nat
        /\ Cardinality(Made') = Cardinality(Made) + 1
        /\ Cardinality(Made) + 1 <= Cardinality(Plan)
    BY <1>1, <1>4, PlanSize, RoomForOne DEF CommandTypeOK
  <2>2. attempts <= Cardinality(Made) * (env.retries + 1)
    BY <1>5 DEF Spent
  <2>3. /\ attempts' <= (Cardinality(Made) + 1) * (env.retries + 1)
        /\ attempts' <= Cardinality(Plan) * (env.retries + 1)
    BY <1>1, <1>5, <2>1, <2>2, OneMore
  <2> QED
    BY <1>1, <1>4, <2>1, <2>3 DEF Spent
<1> QED
  BY <1>4, <1>6, <1>7

LEMMA FailsKeeps ==
  ASSUME RunInv, NEW tries \in 1..env.retries + 1, GenerateFails(tries), UNCHANGED edits
  PROVE  RunInv'
<1> USE DEF RunInv
<1>1. /\ AtPrompt /\ cleared /\ Hosted /\ Len(outs) < EffectiveReruns(Model)
      /\ attempts' = attempts + tries /\ phase' = "failed"
      /\ sent' = sent \cup {<<Item.id, Prompt>>}
      /\ UNCHANGED <<dataset, env, runs, ladder, cleared, outs>>
  BY DEF GenerateFails
<1>2. /\ tries \in Nat /\ tries <= env.retries + 1 /\ attempts \in Nat
      /\ env.retries + 1 \in Nat /\ phase = "run"
  BY <1>1, LadderAssumption DEF CommandTypeOK, AtPrompt
<1>3. CommandTypeOK' /\ Started' /\ SentPassed' /\ InPlace' /\ NotYet'
  BY <1>1, <1>2, SentIsPlanned DEF CommandTypeOK, Started, Ready, InPlace, NotYet
<1>4. Spent'
  <2>1. /\ Cardinality(Made) \in Nat /\ Cardinality(Plan) \in Nat
        /\ Cardinality(Made) + 1 <= Cardinality(Plan)
    BY <1>1, <1>2, PlanSize, RoomForOne DEF CommandTypeOK
  <2>2. attempts <= Cardinality(Made) * (env.retries + 1)
    BY <1>2 DEF Spent
  <2>3. attempts' <= Cardinality(Plan) * (env.retries + 1)
    BY <1>1, <1>2, <2>1, <2>2, OneMore
  <2> QED
    BY <1>1, <2>3 DEF Spent, Plan
<1> QED
  BY <1>3, <1>4

LEMMA FinishKeeps ==
  ASSUME RunInv, FinishItem, UNCHANGED edits
  PROVE  RunInv'
<1> USE DEF RunInv
<1>1. /\ phase = "run" /\ Prompt \notin DOMAIN Item.ladder /\ ladder' = <<>>
      /\ phase' = IF Len(runs) + 1 = Len(Models) * Len(dataset) THEN "done" ELSE "run"
      /\ UNCHANGED <<dataset, env, cleared, outs, attempts, sent>>
  BY DEF FinishItem
<1>2. ~cleared /\ outs = <<>> /\ Len(outs) = 0
  BY <1>1, EmptyList DEF InPlace, CommandTypeOK
<1>3. /\ IsList(runs') /\ Len(runs') = Len(runs) + 1
      /\ IsList(ladder') /\ Len(ladder') = 0 /\ Prompt' = 1
  <2>1. PICK run : runs' = Append(runs, run)
    BY DEF FinishItem
  <2> QED
    BY <1>1, <2>1, AppendList, EmptyList DEF CommandTypeOK, Prompt
<1>4. CommandTypeOK' /\ Started' /\ NotYet' /\ SentPassed'
  BY <1>1, <1>3 DEF CommandTypeOK, Started, Ready, NotYet, SentPassed
<1>5. /\ Len(dataset) \in Nat /\ Len(dataset) > 0 /\ DOMAIN dataset = 1..Len(dataset)
      /\ ItemAt \in DOMAIN dataset /\ Item = dataset[ItemAt]
      /\ ModelAt \in Nat /\ Len(runs) \in Nat
  BY <1>1, Place, SMTT(40)
<1>6. \/ ItemAt = Len(dataset) /\ ModelAt' = ModelAt + 1 /\ ItemAt' = 1
      \/ ItemAt # Len(dataset) /\ ModelAt' = ModelAt /\ ItemAt' = ItemAt + 1
  <2>1. /\ ModelAt = (Len(runs) \div Len(dataset)) + 1
        /\ ItemAt = (Len(runs) % Len(dataset)) + 1
        /\ ModelAt' = ((Len(runs) + 1) \div Len(dataset)) + 1
        /\ ItemAt' = ((Len(runs) + 1) % Len(dataset)) + 1
    BY <1>1, <1>3 DEF ModelAt, ItemAt
  <2>2. ASSUME NEW a \in Nat, NEW d \in Nat, a = Len(runs), d = Len(dataset)
        PROVE  \/ ItemAt = d /\ ModelAt' = ModelAt + 1 /\ ItemAt' = 1
               \/ ItemAt # d /\ ModelAt' = ModelAt /\ ItemAt' = ItemAt + 1
    <3>1. /\ d > 0 /\ ModelAt = (a \div d) + 1 /\ ItemAt = (a % d) + 1
          /\ ModelAt' = ((a + 1) \div d) + 1 /\ ItemAt' = ((a + 1) % d) + 1
      BY <1>5, <2>1, <2>2
    <3> QED
      BY <3>1, NextPosition
  <2> QED
    BY <1>5, <2>2
<1>7. InPlace'
  <2> SUFFICES ASSUME phase' = "run" PROVE InPlace'
    BY DEF InPlace
  <2>1. Len(runs) + 1 # Len(Models) * Len(dataset) /\ Len(runs) < Len(Models) * Len(dataset)
    BY <1>1 DEF InPlace
  <2>2. Len(Models) * Len(dataset) \in Nat
    BY <1>5, LadderAssumption, ListFacts, Product
  <2>3. Len(runs') < Len(Models') * Len(dataset')
    BY <1>1, <1>3, <1>5, <2>1, <2>2
  <2>4. ItemAt' \in DOMAIN dataset
    BY <1>5, <1>6
  <2>5. Item' = dataset[ItemAt']
    BY <1>1 DEF Item, ItemAt
  <2>6. Len(Item'.ladder) \in Nat
    BY <2>4, <2>5, DatasetFacts DEF CommandTypeOK
  <2> QED
    BY <1>1, <1>2, <1>3, <2>3, <2>6 DEF InPlace
<1>8. ASSUME NEW g \in Plan
      PROVE  IsMade(g[1][1], g[1][2], g[2][1], g[2][2])'
               <=> IsMade(g[1][1], g[1][2], g[2][1], g[2][2])
  <2> DEFINE i == g[1][1]
             p == g[1][2]
             n == g[2][1]
             r == g[2][2]
  <2>1. /\ i \in 1..Len(dataset) /\ p \in DOMAIN dataset[i].ladder /\ p \in Nat /\ p > 0
        /\ n \in Nat /\ r \in Nat /\ r > 0
    BY <1>5, PlanEntries, LadderAssumption DEF CommandTypeOK
  <2>2. i = ItemAt => p < Prompt
    <3>1. /\ Len(ladder) <= Len(Item.ladder) /\ Prompt = Len(ladder) + 1 /\ Len(ladder) \in Nat
          /\ Len(Item.ladder) \in Nat /\ DOMAIN Item.ladder = 1..Len(Item.ladder)
      BY <1>1, Place DEF InPlace, Prompt
    <3>2. Prompt = Len(Item.ladder) + 1
      BY <1>1, <3>1
    <3> QED
      BY <1>5, <2>1, <3>1, <3>2
  <2> HIDE DEF i, p, n, r
  <2>3. ~(p < 1) /\ ~(r <= 0)
    BY <2>1
  <2>4. /\ IsMade(i, p, n, r)' <=> n < ModelAt' \/ (n = ModelAt' /\ i < ItemAt')
        /\ IsMade(i, p, n, r) <=> n < ModelAt \/ (n = ModelAt /\ (i < ItemAt \/ i = ItemAt))
    BY <1>1, <1>2, <1>3, <2>2, <2>3 DEF IsMade
  <2>5. n < ModelAt + 1 <=> n < ModelAt \/ n = ModelAt
    BY <1>5, <2>1
  <2>6. n < ModelAt' \/ (n = ModelAt' /\ i < ItemAt')
          <=> n < ModelAt \/ (n = ModelAt /\ (i < ItemAt \/ i = ItemAt))
    <3>1. CASE ItemAt = Len(dataset) /\ ModelAt' = ModelAt + 1 /\ ItemAt' = 1
      <4>3. i \in Nat /\ i <= ItemAt /\ ItemAt \in Nat
        BY <1>5, <2>1, <3>1
      <4>1. i < ItemAt \/ i = ItemAt
        BY <4>3
      <4>2. ~(i < 1)
        BY <2>1
      <4> QED
        BY <2>5, <3>1, <4>1, <4>2
    <3>2. CASE ModelAt' = ModelAt /\ ItemAt' = ItemAt + 1
      <4>1. i < ItemAt + 1 <=> i < ItemAt \/ i = ItemAt
        BY <1>5, <2>1
      <4> QED
        BY <3>2, <4>1
    <3> QED
      BY <1>6, <3>1, <3>2
  <2>7. IsMade(i, p, n, r)' <=> IsMade(i, p, n, r)
    BY <2>4, <2>6, Zenon
  <2> QED
    BY <2>7 DEF i, p, n, r
<1>9. Plan' = Plan /\ Made' = Made
  BY <1>1, <1>8, SameMade
<1>10. Spent'
  BY <1>1, <1>9 DEF Spent
<1> QED
  BY <1>4, <1>7, <1>10

LEMMA BenchKeeps ==
  ASSUME RunInv, BenchNext, UNCHANGED edits
  PROVE  RunInv' /\ UNCHANGED dataset
<1>1. RunInv'
  <2>1. CASE \E tries \in 1..env.retries + 1 : GenerateFails(tries)
    BY <2>1, FailsKeeps
  <2>2. CASE \E wobble \in {-4, 4} : GenerateMock(wobble)
    BY <2>2, MockKeeps
  <2>3. CASE \E answer \in Answers : GenerateHosted(answer)
    BY <2>3, HostedKeeps
  <2> QED
    BY <2>1, <2>2, <2>3, LoadKeeps, GatekeepKeeps, ScoreKeeps, FinishKeeps DEF BenchNext
<1>2. UNCHANGED dataset
  BY DEF BenchNext, Load, Gatekeep, Score, FinishItem, GenerateFails, GenerateMock,
         GenerateHosted
<1> QED
  BY <1>1, <1>2

LEMMA SameRun ==
  ASSUME RunInv, UNCHANGED benchVars, edits' \in Nat
  PROVE  RunInv'
<1>1. Plan' = Plan /\ Made' = Made
  BY DEF benchVars, Plan, Made, IsMade, ModelAt, ItemAt, Prompt
<1> QED
  BY <1>1 DEF RunInv, benchVars, CommandTypeOK, Started, Ready, InPlace, NotYet, SentPassed,
              Spent, Prompt, Item

-----------------------------------------------------------------------------
(* The manifest, and the whole command.                                    *)

LEMMA ManifestKeeps ==
  ASSUME VerifierInv, RunInv, ManifestMade, [Next]_vars
  PROVE  ManifestMade'
<1>1. ASSUME NEW e \in Environments, WriteManifest(e)
      PROVE  ManifestMade'
  <2>1. ~Refused(dataset) /\ dataset' = dataset
    BY <1>1 DEF WriteManifest, benchVars
  <2>2. disk'.manifest = BenchManifest(dataset, e)
    BY <1>1 DEF WriteManifest, Put, VerifierInv, VerifierTypeOK, Artifacts
  <2> QED
    BY <1>1, <2>1, <2>2 DEF ManifestMade
<1>2. CASE WriteResult
  <2>1. dataset' = dataset /\ edits' = edits
    BY <1>2 DEF WriteResult, benchVars
  <2>2. disk'.manifest = disk.manifest
    BY <1>2 DEF WriteResult, Put, VerifierInv, VerifierTypeOK, Artifacts
  <2> QED
    BY <2>1, <2>2 DEF ManifestMade
<1>3. CASE Edit
  <2>1. edits' # 0
    BY <1>3 DEF Edit, RunInv, CommandTypeOK
  <2> QED
    BY <2>1 DEF ManifestMade
<1>4. CASE VerifyStep
  BY <1>4 DEF VerifyStep, StartVerify, Open, Read, Check, Recheck, fileVars, benchVars,
              ManifestMade
<1>5. CASE Bench
  <2>1. UNCHANGED dataset /\ UNCHANGED <<disk, edits>>
    BY <1>5, BenchKeeps DEF Bench, fileVars
  <2> QED
    BY <2>1 DEF ManifestMade
<1>6. CASE UNCHANGED vars
  BY <1>6 DEF vars, fileVars, benchVars, ManifestMade
<1> QED
  BY <1>1, <1>2, <1>3, <1>4, <1>5, <1>6 DEF Next

LEMMA CommandStep ==
  ASSUME VerifierInv, CommandInv, [Next]_vars
  PROVE  CommandInv'
<1>1. RunInv /\ ManifestMade
  BY DEF CommandInv, RunInv
<1>2. RunInv'
  <2>1. edits \in Nat
    BY <1>1 DEF RunInv, CommandTypeOK
  <2>2. CASE Bench
    BY <1>1, <2>2, BenchKeeps DEF Bench, fileVars
  <2>3. CASE UNCHANGED benchVars /\ edits' \in Nat
    BY <1>1, <2>3, SameRun
  <2>4. CASE \E environment \in Environments : WriteManifest(environment)
    BY <2>1, <2>3, <2>4 DEF WriteManifest
  <2>5. CASE WriteResult \/ Edit
    BY <2>1, <2>3, <2>5 DEF WriteResult, Edit
  <2>6. CASE VerifyStep
    BY <2>1, <2>3, <2>6 DEF VerifyStep, StartVerify, Open, Read, Check, Recheck, fileVars
  <2>7. CASE UNCHANGED vars
    BY <2>1, <2>3, <2>7 DEF vars, fileVars
  <2> QED
    BY <2>2, <2>4, <2>5, <2>6, <2>7 DEF Next
<1>3. ManifestMade'
  BY <1>1, ManifestKeeps
<1> QED
  BY <1>2, <1>3 DEF CommandInv, RunInv

LEMMA InitCommand == Init => CommandInv
<1> SUFFICES ASSUME Init PROVE CommandInv
  OBVIOUS
<1>1. /\ dataset \in Datasets /\ env \in Environments /\ phase = "load" /\ runs = <<>>
      /\ ladder = <<>> /\ cleared = FALSE /\ outs = <<>> /\ attempts = 0 /\ sent = {}
      /\ edits = 0 /\ disk.manifest = NoFile
  BY DEF Init, BenchInit, Artifacts
<1>2. CommandTypeOK /\ NotYet
  BY <1>1, EmptyList DEF CommandTypeOK, NotYet
<1>3. Started /\ InPlace /\ SentPassed /\ ManifestMade
  BY <1>1 DEF Started, InPlace, SentPassed, ManifestMade
<1>4. Spent
  <2>1. Cardinality(Plan) \in Nat /\ env.retries + 1 \in Nat
    BY <1>1, PlanSize, LadderAssumption
  <2>2. 0 <= Cardinality(Plan) * (env.retries + 1)
    BY <2>1, Product
  <2> QED
    BY <1>1, <2>2 DEF Spent
<1> QED
  BY <1>2, <1>3, <1>4 DEF CommandInv

(* What the command does and has announced, for any models, datasets and   *)
(* environments.                                                           *)
THEOREM CommandInvariant == Spec => []CommandInv
<1>1. VerifierInv /\ VerifierInv' /\ CommandInv /\ [Next]_vars => CommandInv'
  BY CommandStep
<1> QED
  BY <1>1, InitCommand, VerifierInvariant, PTL DEF Spec

-----------------------------------------------------------------------------
(* The counts of the plan, as the manifest and the preflight put them.     *)

LEMMA AttemptsBound ==
  ASSUME CommandInv
  PROVE  attempts <= Cardinality(Sendable(dataset)) * HostedReruns * (env.retries + 1)
BY PlanSize DEF CommandInv, CommandTypeOK, Spent

(* Without a hosted model there is nothing to pay for.                     *)
LEMMA NothingToSend ==
  ASSUME CommandInv, HostedReruns = 0
  PROVE  attempts = 0
<1>1. Cardinality(Sendable(dataset)) \in Nat /\ env.retries + 1 \in Nat /\ attempts \in Nat
  BY PromptsFinite, LadderAssumption DEF CommandInv, CommandTypeOK
<1>2. Cardinality(Sendable(dataset)) * HostedReruns * (env.retries + 1) = 0
  BY <1>1
<1> QED
  BY <1>1, <1>2, AttemptsBound

LEMMA ManifestAnnounces ==
  ASSUME CommandInv, PlannedHere
  PROVE  /\ ~Refused(dataset)
         /\ Cardinality(disk.manifest.prompts) = Cardinality(Sendable(dataset))
         /\ attempts <= disk.manifest.estimatedMaxHttpAttempts
<1>1. PICK e \in Environments : disk.manifest = BenchManifest(dataset, e)
  BY DEF PlannedHere, CommandInv, ManifestMade
<1>2. ~Refused(dataset) /\ dataset \in Datasets
  BY DEF PlannedHere, CommandInv, ManifestMade, CommandTypeOK
<1>3. /\ disk.manifest.prompts = PromptReceipts(dataset, FALSE)
      /\ disk.manifest.estimatedMaxHttpAttempts
           = Cardinality(PromptReceipts(dataset, FALSE)) * HostedReruns
               * ((IF HostedReruns = 0 THEN 0 ELSE e.retries) + 1)
      /\ \A n \in DOMAIN Models : disk.manifest.models[n].identity = AdapterIdentity(Models[n], e)
  <2>1. disk.manifest.prompts = PromptReceipts(dataset, FALSE)
    BY <1>1 DEF BenchManifest
  <2>2. disk.manifest.estimatedMaxHttpAttempts
          = Cardinality(PromptReceipts(dataset, FALSE)) * HostedReruns
              * ((IF HostedReruns = 0 THEN 0 ELSE e.retries) + 1)
    BY <1>1 DEF BenchManifest
  <2>3. \A n \in DOMAIN Models : disk.manifest.models[n].identity = AdapterIdentity(Models[n], e)
    BY <1>1 DEF BenchManifest
  <2> QED
    BY <2>1, <2>2, <2>3
<1>4. Cardinality(PromptReceipts(dataset, FALSE)) = Cardinality(Sendable(dataset))
  BY <1>2, ReceiptsCount
<1>5. /\ Cardinality(Sendable(dataset)) \in Nat /\ HostedReruns \in Nat
      /\ e.retries \in Nat /\ env.retries \in Nat
  BY <1>2, PromptsFinite, HostedFinite, LadderAssumption DEF CommandInv, CommandTypeOK
<1>6. attempts <= disk.manifest.estimatedMaxHttpAttempts
  <2>1. CASE HostedReruns = 0
    <3>1. Cardinality(Sendable(dataset)) * HostedReruns = 0
      BY <1>5, <2>1
    <3>2. disk.manifest.estimatedMaxHttpAttempts = 0 * (0 + 1)
      BY <1>3, <1>4, <2>1, <3>1
    <3> QED
      BY <2>1, <3>2, NothingToSend
  <2>2. CASE HostedReruns # 0
    <3>1. PICK c \in HostedCalls : TRUE
      BY <2>2, FS_EmptySet DEF HostedReruns
    <3>2. c[1] \in DOMAIN Models /\ EvidenceMode(Models[c[1]]) = "black_box"
      BY HostedFinite DEF EvidenceMode
    <3>3. AdapterIdentity(Models[c[1]], e) = AdapterIdentity(Models[c[1]], env)
      BY <1>3, <3>2 DEF PlannedHere
    <3>4. e.retries = env.retries
      BY <3>2, <3>3 DEF AdapterIdentity
    <3> QED
      BY <1>3, <1>4, <2>2, <3>4, AttemptsBound
  <2> QED
    BY <2>1, <2>2
<1> QED
  BY <1>2, <1>3, <1>4, <1>6

(* A run makes no more HTTP attempts than the preflight and the manifest   *)
(* announced (preflight.py:172, manifest.py:157), also when it fails, and  *)
(* sends something only where the preflight says that it can start.        *)
THEOREM CallsWithinBudgetProved == Spec => []CallsWithinBudget
<1>1. CommandInv => CallsWithinBudget
  <2> SUFFICES ASSUME CommandInv PROVE CallsWithinBudget
    OBVIOUS
  <2> DEFINE report == PreflightReport(dataset, env)
  <2>1. PlannedHere => attempts <= disk.manifest.estimatedMaxHttpAttempts
    BY ManifestAnnounces
  <2>2. dataset \in Datasets
    BY DEF CommandInv, CommandTypeOK
  <2>3. sent # {} => report.ready
    BY DEF CommandInv, Started, PreflightReport
  <2>4. report.nonLeakingPromptCount = Cardinality(Sendable(dataset))
    BY <2>2, PreflightCount
  <2>5. report.estimatedMaxHttpAttempts
          = report.nonLeakingPromptCount * HostedReruns * (env.retries + 1)
    BY DEF PreflightReport
  <2>6. attempts <= report.estimatedMaxHttpAttempts
    BY <2>4, <2>5, AttemptsBound
  <2>7. PlannedHere => Cardinality(disk.manifest.prompts) = report.nonLeakingPromptCount
    BY <2>4, ManifestAnnounces
  <2> QED
    BY <2>1, <2>3, <2>6, <2>7 DEF CallsWithinBudget
<1> QED
  BY <1>1, CommandInvariant, PTL

-----------------------------------------------------------------------------
(* Least numbers.                                                          *)

LEMMA LeastIsLeast ==
  ASSUME NEW T, T \subseteq Nat, T # {}
  PROVE  /\ Min(T) \in T /\ Min(T) \in Nat
         /\ \A y \in T : Min(T) <= y
<1> DEFINE R == OpToRel(<, Nat)
<1>1. PICK x \in T : \A y \in T : ~(<<y, x>> \in R)
  BY NatLessThanWellFounded, WFMin
<1>2. \A m, n \in Nat : m < n => <<m, n>> \in R
  BY Zenon DEF OpToRel
<1> HIDE DEF R
<1>3. x \in Nat /\ \A y \in T : y \in Nat /\ ~(y < x)
  BY <1>1, <1>2, Zenon
<1>4. \A y \in T : x <= y
  BY <1>3
<1>5. Min(T) \in T /\ \A y \in T : Min(T) <= y
  BY <1>4, Zenon DEF Min
<1> QED
  BY <1>5

-----------------------------------------------------------------------------
(* Counting up, and folds.                                                 *)

(* What holds of 0 and of the successor of each holds up to n.             *)
LEMMA UpTo ==
  ASSUME NEW n \in Nat, NEW T, 0 \in T, \A k \in Nat : k < n /\ k \in T => k + 1 \in T
  PROVE  \A k \in 0..n : k \in T
<1> DEFINE X == {k \in 0..n : k \notin T}
<1> SUFFICES ASSUME X # {} PROVE FALSE
  OBVIOUS
<1>1. X \subseteq Nat
  OBVIOUS
<1>2. PICK k \in X : \A y \in X : k <= y
  <2> HIDE DEF X
  <2> QED
    BY <1>1, LeastIsLeast, Zenon
<1>3. k # 0 /\ k \in 0..n /\ k \notin T
  OBVIOUS
<1>4. k - 1 \in 0..n /\ ~(k <= k - 1) /\ k - 1 < n /\ k - 1 \in Nat /\ (k - 1) + 1 = k
  BY <1>3
<1>5. k - 1 \in T
  <2>1. k - 1 \notin X
    BY <1>2, <1>4, Zenon
  <2> QED
    BY <1>4, <2>1, Zenon
<1> QED
  BY <1>3, <1>4, <1>5

(* The subsets of 1..n of at most k elements, and those without their last.*)
Small(n, k) == {s \in SUBSET (1..n) : Cardinality(s) <= k}

LEMMA LastOfSet ==
  ASSUME NEW n \in Nat, NEW s \in SUBSET (1..n), s # {}
  PROVE  Max(s) \in s /\ Max(s) \in 1..n /\ \A y \in s : y <= Max(s)
<1> DEFINE T == {n - x : x \in s}
<1>1. T \subseteq Nat /\ T # {}
  <2>1. \A x \in s : n - x \in Nat
    OBVIOUS
  <2> QED
    BY <2>1
<1>2. PICK t \in T : \A u \in T : t <= u
  <2> HIDE DEF T
  <2> QED
    BY <1>1, LeastIsLeast, Zenon
<1>3. PICK x \in s : t = n - x
  OBVIOUS
<1>4. \A y \in s : x >= y
  <2> SUFFICES ASSUME NEW y \in s PROVE x >= y
    OBVIOUS
  <2>1. n - x <= n - y
    BY <1>2, <1>3
  <2> QED
    BY <2>1
<1>5. Max(s) \in s /\ \A y \in s : Max(s) >= y
  BY <1>4, Zenon DEF Max
<1>6. PICK m \in s : m = Max(s)
  BY <1>5, Zenon
<1>7. \A y \in s : m >= y
  BY <1>5, <1>6, Zenon
<1>8. m \in 1..n /\ \A y \in s : y <= m
  BY <1>7
<1> QED
  BY <1>5, <1>6, <1>8, Zenon

LEMMA SmallSets ==
  ASSUME NEW n \in Nat
  PROVE  /\ Small(n, 0) = {{}} /\ Small(n, n) = SUBSET (1..n)
         /\ \A k \in Nat : /\ Small(n, k) \subseteq SUBSET (1..n)
                          /\ Small(n, k) \subseteq Small(n, k + 1)
         /\ \A k \in Nat : \A s \in Small(n, k + 1) : s # {} => s \ {Max(s)} \in Small(n, k)
<1>1. ASSUME NEW s \in SUBSET (1..n)
      PROVE  /\ IsFiniteSet(s) /\ Cardinality(s) \in Nat /\ Cardinality(s) <= n
             /\ Cardinality(s) = 0 <=> s = {}
             /\ s # {} => /\ s \ {Max(s)} \in SUBSET (1..n)
                          /\ Cardinality(s \ {Max(s)}) = Cardinality(s) - 1
  <2>1. IsFiniteSet(1..n) /\ Cardinality(1..n) = n
    BY FS_Interval
  <2>2. IsFiniteSet(s) /\ Cardinality(s) <= Cardinality(1..n)
    BY <2>1, FS_Subset
  <2>3. Cardinality(s) \in Nat /\ (Cardinality(s) = 0 <=> s = {})
    BY <2>2, FS_CardinalityType, FS_EmptySet
  <2>4. s # {} => Cardinality(s \ {Max(s)}) = Cardinality(s) - 1
    BY <2>2, LastOfSet, FS_RemoveElement
  <2> QED
    BY <2>1, <2>2, <2>3, <2>4
<1>2. Small(n, 0) = {{}}
  <2>1. {} \in SUBSET (1..n) /\ Cardinality({}) <= 0
    BY <1>1
  <2>2. ASSUME NEW s \in Small(n, 0) PROVE s = {}
    <3>1. s \in SUBSET (1..n) /\ Cardinality(s) <= 0
      BY DEF Small
    <3>2. Cardinality(s) \in Nat /\ (Cardinality(s) = 0 <=> s = {})
      BY <1>1, <3>1
    <3> QED
      BY <3>1, <3>2
  <2> QED
    BY <2>1, <2>2 DEF Small
<1>3. Small(n, n) = SUBSET (1..n)
  BY <1>1 DEF Small
<1>4. ASSUME NEW k \in Nat, NEW s \in Small(n, k + 1), s # {}
      PROVE  s \ {Max(s)} \in Small(n, k)
  BY <1>1, <1>4 DEF Small
<1>5. ASSUME NEW k \in Nat, NEW s \in Small(n, k) PROVE s \in Small(n, k + 1)
  <2>1. s \in SUBSET (1..n) /\ Cardinality(s) <= k
    BY DEF Small
  <2>2. Cardinality(s) \in Nat
    BY <1>1, <2>1
  <2>3. Cardinality(s) <= k + 1
    BY <2>1, <2>2
  <2> QED
    BY <2>1, <2>3 DEF Small
<1>6. \A k \in Nat : Small(n, k) \subseteq SUBSET (1..n)
  BY DEF Small
<1> QED
  BY <1>2, <1>3, <1>4, <1>5, <1>6

LEMMA InitialSegments ==
  ASSUME NEW n \in Nat, NEW i \in 1..n
  PROVE  /\ 1..i \in SUBSET (1..n) /\ 1..i # {} /\ Max(1..i) = i
         /\ (1..i) \ {Max(1..i)} = 1..(i - 1)
<1>1. 1..i \in SUBSET (1..n) /\ i \in 1..i /\ \A x \in 1..i : x <= i
  OBVIOUS
<1>2. Max(1..i) \in 1..i /\ \A y \in 1..i : y <= Max(1..i)
  BY <1>1, LastOfSet
<1>3. PICK m \in 1..i : m = Max(1..i)
  BY <1>2
<1>4. m = i
  BY <1>1, <1>2, <1>3
<1>5. (1..i) \ {i} = 1..(i - 1)
  OBVIOUS
<1>6. Max(1..i) = i
  BY <1>3, <1>4
<1> QED
  BY <1>1, <1>5, <1>6, Zenon

-----------------------------------------------------------------------------
(* LcsLength.                                                              *)

LcsCell(b, previous, x, current, j) ==
  Append(current, IF x = b[j] THEN previous[j] + 1 ELSE Max({previous[j + 1], current[j]}))
LcsRow(b, previous, x) ==
  FoldLeftDomain(LAMBDA current, j : LcsCell(b, previous, x, current, j), <<0>>, b)
LcsBase(b) == [j \in 1..Len(b) + 1 |-> 0]

(* A row is made cell by cell.                                             *)
CellsOf(b, previous, x, current) ==
  /\ current[0] = <<0>>
  /\ \A i \in 1..Len(b) : current[i] = LcsCell(b, previous, x, current[i - 1], i)
  /\ LcsRow(b, previous, x) = current[Len(b)]

LEMMA LcsCells ==
  ASSUME NEW b, IsList(b), NEW previous, NEW x
  PROVE  \E current : CellsOf(b, previous, x, current)
<1> DEFINE c == [i \in DOMAIN b |-> i]
           n == Len(b)
           Step(it, s) == IF s = {} THEN <<0>>
                          ELSE LcsCell(b, previous, x, it[s \ {Max(s)}], c[Max(s)])
           Good(k) == \E it : \A s \in Small(n, k) : it[s] = Step(it, s)
<1>1. n \in Nat /\ DOMAIN b = 1..n /\ DOMAIN c = 1..n
  BY ListFacts
<1>2. LcsRow(b, previous, x) =
        (CHOOSE it : it = [s \in SUBSET DOMAIN c |-> Step(it, s)])[DOMAIN c]
  BY Zenon DEF LcsRow, FoldLeftDomain, FoldLeft, MapThenFoldSet
<1> HIDE DEF n
<1>3. Good(n)
  <2>1. Good(0)
    <3> DEFINE it == [s \in {{}} |-> <<0>>]
    <3>1. \A s \in Small(n, 0) : it[s] = Step(it, s)
      BY <1>1, SmallSets
    <3> QED
      BY <3>1
  <2>2. ASSUME NEW k \in Nat, Good(k) PROVE Good(k + 1)
    <3>1. PICK it : \A s \in Small(n, k) : it[s] = Step(it, s)
      BY <2>2
    <3> DEFINE new == [s \in Small(n, k + 1) |-> Step(it, s)]
    <3>2. Small(n, k) \subseteq Small(n, k + 1)
      BY <1>1, SmallSets
    <3>3. \A s \in Small(n, k) : new[s] = it[s]
      BY <3>1, <3>2
    <3>4. ASSUME NEW s \in Small(n, k + 1) PROVE new[s] = Step(new, s)
      <4>1. s # {} => s \ {Max(s)} \in Small(n, k)
        BY <1>1, SmallSets
      <4>2. s # {} => new[s \ {Max(s)}] = it[s \ {Max(s)}]
        BY <3>3, <4>1
      <4>3. new[s] = Step(it, s)
        OBVIOUS
      <4> HIDE DEF new
      <4> QED
        BY <4>2, <4>3
    <3> QED
      BY <3>4
  <2> DEFINE T == {k \in 0..n : Good(k)}
  <2> HIDE DEF Good
  <2>3. 0 \in T /\ n \in 0..n /\ \A k \in Nat : k < n /\ k \in T => k + 1 \in T
    BY <1>1, <2>1, <2>2
  <2>4. n \in T
    <3> HIDE DEF T
    <3> QED
      BY <1>1, <2>3, UpTo, Zenon
  <2> QED
    BY <2>4
<1>4. PICK it : /\ it = [s \in SUBSET DOMAIN c |-> Step(it, s)]
                /\ LcsRow(b, previous, x) = it[DOMAIN c]
  <2>1. PICK g : \A s \in Small(n, n) : g[s] = Step(g, s)
    BY <1>3
  <2> DEFINE it == [s \in SUBSET DOMAIN c |-> g[s]]
  <2>2. it = [s \in SUBSET DOMAIN c |-> Step(it, s)]
    BY <1>1, <2>1, SmallSets
  <2> HIDE DEF it, Step
  <2> QED
    BY <1>2, <2>2, Zenon
<1> DEFINE current == [i \in 0..n |-> it[1..i]]
<1>5. current[0] = <<0>>
  BY <1>1, <1>4
<1>6. ASSUME NEW i \in 1..n PROVE current[i] = LcsCell(b, previous, x, current[i - 1], i)
  <2>1. /\ 1..i \in SUBSET DOMAIN c /\ 1..i # {} /\ Max(1..i) = i
        /\ (1..i) \ {Max(1..i)} = 1..(i - 1)
    BY <1>1, InitialSegments, Zenon
  <2>2. it[1..i] = LcsCell(b, previous, x, it[1..(i - 1)], c[i])
    BY <1>4, <2>1
  <2>3. i \in 0..n /\ i - 1 \in 0..n /\ c[i] = i
    BY <1>1
  <2> QED
    BY <2>2, <2>3
<1>7. LcsRow(b, previous, x) = current[n]
  BY <1>1, <1>4
<1> HIDE DEF current
<1> QED
  BY <1>5, <1>6, <1>7 DEF n, CellsOf

(* The table is made row by row.                                           *)
RowsOf(a, b, row) ==
  /\ row[0] = LcsBase(b)
  /\ \A i \in 1..Len(a) : row[i] = LcsRow(b, row[i - 1], a[i])
  /\ LcsLength(a, b) = Last(row[Len(a)])

LEMMA LcsRows ==
  ASSUME NEW a, IsList(a), NEW b
  PROVE  \E row : RowsOf(a, b, row)
<1> DEFINE n == Len(a)
           Step(it, s) == IF s = {} THEN LcsBase(b)
                          ELSE LcsRow(b, it[s \ {Max(s)}], a[Max(s)])
           Good(k) == \E it : \A s \in Small(n, k) : it[s] = Step(it, s)
<1>1. n \in Nat /\ DOMAIN a = 1..n
  BY ListFacts
<1>2. LcsLength(a, b) =
        Last((CHOOSE it : it = [s \in SUBSET DOMAIN a |-> Step(it, s)])[DOMAIN a])
  BY Zenon DEF LcsLength, LcsBase, LcsRow, LcsCell, FoldLeft, MapThenFoldSet
<1> HIDE DEF n
<1>3. Good(n)
  <2>1. Good(0)
    <3> DEFINE it == [s \in {{}} |-> LcsBase(b)]
    <3>1. \A s \in Small(n, 0) : it[s] = Step(it, s)
      BY <1>1, SmallSets
    <3> QED
      BY <3>1
  <2>2. ASSUME NEW k \in Nat, Good(k) PROVE Good(k + 1)
    <3>1. PICK it : \A s \in Small(n, k) : it[s] = Step(it, s)
      BY <2>2
    <3> DEFINE new == [s \in Small(n, k + 1) |-> Step(it, s)]
    <3>2. Small(n, k) \subseteq Small(n, k + 1)
      BY <1>1, SmallSets
    <3>3. \A s \in Small(n, k) : new[s] = it[s]
      BY <3>1, <3>2
    <3>4. ASSUME NEW s \in Small(n, k + 1) PROVE new[s] = Step(new, s)
      <4>1. s # {} => s \ {Max(s)} \in Small(n, k)
        BY <1>1, SmallSets
      <4>2. s # {} => new[s \ {Max(s)}] = it[s \ {Max(s)}]
        BY <3>3, <4>1
      <4>3. new[s] = Step(it, s)
        OBVIOUS
      <4> HIDE DEF new
      <4> QED
        BY <4>2, <4>3
    <3> QED
      BY <3>4
  <2> DEFINE T == {k \in 0..n : Good(k)}
  <2> HIDE DEF Good
  <2>3. 0 \in T /\ n \in 0..n /\ \A k \in Nat : k < n /\ k \in T => k + 1 \in T
    BY <1>1, <2>1, <2>2
  <2>4. n \in T
    <3> HIDE DEF T
    <3> QED
      BY <1>1, <2>3, UpTo, Zenon
  <2> QED
    BY <2>4
<1>4. PICK it : /\ it = [s \in SUBSET DOMAIN a |-> Step(it, s)]
                /\ LcsLength(a, b) = Last(it[DOMAIN a])
  <2>1. PICK g : \A s \in Small(n, n) : g[s] = Step(g, s)
    BY <1>3
  <2> DEFINE it == [s \in SUBSET DOMAIN a |-> g[s]]
  <2>2. it = [s \in SUBSET DOMAIN a |-> Step(it, s)]
    BY <1>1, <2>1, SmallSets
  <2> HIDE DEF it, Step
  <2> QED
    BY <1>2, <2>2, Zenon
<1> DEFINE row == [i \in 0..n |-> it[1..i]]
<1>5. row[0] = LcsBase(b)
  BY <1>1, <1>4
<1>6. ASSUME NEW i \in 1..n PROVE row[i] = LcsRow(b, row[i - 1], a[i])
  <2>1. /\ 1..i \in SUBSET DOMAIN a /\ 1..i # {} /\ Max(1..i) = i
        /\ (1..i) \ {Max(1..i)} = 1..(i - 1)
    BY <1>1, InitialSegments, Zenon
  <2>2. it[1..i] = LcsRow(b, it[1..(i - 1)], a[i])
    BY <1>4, <2>1
  <2>3. i \in 0..n /\ i - 1 \in 0..n
    BY <1>1
  <2> QED
    BY <2>2, <2>3
<1>7. LcsLength(a, b) = Last(row[n])
  BY <1>1, <1>4
<1> HIDE DEF row
<1> QED
  BY <1>5, <1>6, <1>7 DEF n, RowsOf

-----------------------------------------------------------------------------
(* Characters in common, in order.                                         *)

(* k characters of the first i of a, in their order among the first j of b.*)
Common(a, i, b, j, k) ==
  \E f \in Rising(k, i), g \in Rising(k, j) : Matches(a, f, b, g)
LcsOf(a, i, b, j, k) ==
  k \in Nat /\ Common(a, i, b, j, k) /\ ~Common(a, i, b, j, k + 1)

LEMMA RisingPrefix ==
  ASSUME NEW k \in Nat, NEW l \in 0..k, NEW m \in Nat, NEW f \in Rising(k, m)
  PROVE  /\ [n \in 1..l |-> f[n]] \in Rising(l, m)
         /\ l < k => m # 0 /\ [n \in 1..l |-> f[n]] \in Rising(l, m - 1)
         /\ k > 0 /\ f[k] # m => m # 0 /\ f \in Rising(k, m - 1)
<1>1. f \in [1..k -> 1..m] /\ \A p, q \in 1..k : p < q => f[p] < f[q]
  BY DEF Rising
<1>2. 1..l \subseteq 1..k
  OBVIOUS
<1>3. [n \in 1..l |-> f[n]] \in Rising(l, m)
  BY <1>1, <1>2 DEF Rising
<1>4. ASSUME l < k PROVE m # 0 /\ [n \in 1..l |-> f[n]] \in Rising(l, m - 1)
  <2>1. l + 1 \in 1..k /\ f[l + 1] \in 1..m
    BY <1>1, <1>4
  <2>2. \A n \in 1..l : f[n] \in 1..(m - 1)
    <3> SUFFICES ASSUME NEW n \in 1..l PROVE f[n] \in 1..(m - 1)
      OBVIOUS
    <3>1. n \in 1..k /\ n < l + 1
      BY <1>2
    <3>2. f[n] \in 1..m /\ f[n] < f[l + 1]
      BY <1>1, <2>1, <3>1
    <3> QED
      BY <2>1, <3>2
  <2> QED
    BY <1>1, <1>2, <2>1, <2>2 DEF Rising
<1>5. ASSUME k > 0, f[k] # m PROVE m # 0 /\ f \in Rising(k, m - 1)
  <2>1. k \in 1..k /\ f[k] \in 1..m /\ f[k] < m
    BY <1>1, <1>5
  <2>2. \A n \in 1..k : f[n] \in 1..(m - 1)
    <3> SUFFICES ASSUME NEW n \in 1..k PROVE f[n] \in 1..(m - 1)
      OBVIOUS
    <3>1. f[n] \in 1..m /\ (n = k \/ n < k)
      BY <1>1
    <3>2. n < k => f[n] < f[k]
      BY <1>1, <2>1
    <3> QED
      BY <2>1, <3>1, <3>2
  <2> QED
    BY <1>1, <2>1, <2>2 DEF Rising
<1> QED
  BY <1>3, <1>4, <1>5

(* The same of k + 1 positions among m + 1.                                *)
LEMMA RisingShorter ==
  ASSUME NEW k \in Nat, NEW m \in Nat, NEW f \in Rising(k + 1, m + 1)
  PROVE  /\ [n \in 1..k |-> f[n]] \in Rising(k, m)
         /\ f[k + 1] # m + 1 => f \in Rising(k + 1, m)
<1>1. PICK l \in Nat : l = k + 1
  OBVIOUS
<1>2. PICK w \in Nat : w = m + 1
  OBVIOUS
<1>3. k \in 0..l /\ k < l /\ l > 0 /\ w - 1 = m
  BY <1>1, <1>2
<1>4. f \in Rising(l, w)
  BY <1>1, <1>2
<1>5. /\ [n \in 1..k |-> f[n]] \in Rising(k, w - 1)
      /\ f[l] # w => f \in Rising(l, w - 1)
  BY <1>3, <1>4, RisingPrefix, ZenonT(60)
<1> QED
  BY <1>1, <1>2, <1>3, <1>5

LEMMA RisingWider ==
  ASSUME NEW k \in Nat, NEW m \in Nat, NEW f \in Rising(k, m)
  PROVE  /\ f \in Rising(k, m + 1)
         /\ [n \in 1..(k + 1) |-> IF n = k + 1 THEN m + 1 ELSE f[n]] \in Rising(k + 1, m + 1)
<1>1. f \in [1..k -> 1..m] /\ \A p, q \in 1..k : p < q => f[p] < f[q]
  BY DEF Rising
<1>2. f \in Rising(k, m + 1)
  BY <1>1 DEF Rising
<1> DEFINE h == [n \in 1..(k + 1) |-> IF n = k + 1 THEN m + 1 ELSE f[n]]
<1>3. h[k + 1] = m + 1 /\ \A n \in 1..k : h[n] = f[n] /\ f[n] \in 1..m
  BY <1>1
<1>4. \A n \in 1..(k + 1) : n = k + 1 \/ n \in 1..k
  OBVIOUS
<1>5. h \in [1..(k + 1) -> 1..(m + 1)]
  <2>1. ASSUME NEW n \in 1..(k + 1) PROVE h[n] \in 1..(m + 1)
    <3>1. CASE n = k + 1
      BY <1>3, <3>1
    <3>2. CASE n \in 1..k
      <4>1. h[n] = f[n] /\ f[n] \in 1..m
        BY <1>3, <3>2
      <4> QED
        BY <4>1
    <3> QED
      BY <1>4, <3>1, <3>2
  <2> QED
    BY <2>1
<1>6. ASSUME NEW p \in 1..(k + 1), NEW q \in 1..(k + 1), p < q PROVE h[p] < h[q]
  <2>1. p \in 1..k
    BY <1>6
  <2>2. CASE q = k + 1
    <3>1. h[p] \in 1..m /\ h[q] = m + 1
      BY <1>3, <2>1, <2>2
    <3> QED
      BY <3>1
  <2>3. CASE q \in 1..k
    <3>1. h[p] = f[p] /\ h[q] = f[q] /\ f[p] < f[q]
      BY <1>1, <1>3, <1>6, <2>1, <2>3
    <3> QED
      BY <3>1
  <2> QED
    BY <1>4, <2>2, <2>3
<1> HIDE DEF h
<1>7. h \in Rising(k + 1, m + 1)
  BY <1>5, <1>6 DEF Rising
<1> QED
  BY <1>2, <1>7 DEF h

LEMMA NoRising ==
  ASSUME NEW k \in Nat, k > 0
  PROVE  Rising(k, 0) = {} /\ \A m \in Nat : Rising(0, m) # {}
<1>1. 1..0 = {} /\ 1 \in 1..k
  OBVIOUS
<1>2. Rising(k, 0) = {}
  BY <1>1 DEF Rising
<1>3. ASSUME NEW m \in Nat PROVE [n \in 1..0 |-> n] \in Rising(0, m)
  BY DEF Rising
<1> QED
  BY <1>2, <1>3

(* What the table rests on.                                                *)
LEMMA CommonFacts ==
  ASSUME NEW a, NEW b, NEW i \in Nat, NEW j \in Nat, NEW k \in Nat
  PROVE  /\ Common(a, i, b, j, 0)
         /\ ~Common(a, 0, b, j, k + 1) /\ ~Common(a, i, b, 0, k + 1)
         /\ \A l \in 0..k : Common(a, i, b, j, k) => Common(a, i, b, j, l)
         /\ Common(a, i, b, j, k) => Common(a, i + 1, b, j, k) /\ Common(a, i, b, j + 1, k)
         /\ Common(a, i + 1, b, j + 1, k + 1) => Common(a, i, b, j, k)
         /\ Common(a, i, b, j, k) /\ a[i + 1] = b[j + 1] => Common(a, i + 1, b, j + 1, k + 1)
         /\ Common(a, i + 1, b, j + 1, k + 1) /\ a[i + 1] # b[j + 1] =>
              Common(a, i, b, j + 1, k + 1) \/ Common(a, i + 1, b, j, k + 1)
<1>1. Common(a, i, b, j, 0)
  <2>1. PICK f \in Rising(0, i), g \in Rising(0, j) : TRUE
    BY NoRising
  <2>2. DOMAIN f = {}
    BY DEF Rising
  <2> QED
    BY <2>2 DEF Common, Matches
<1>2. ~Common(a, 0, b, j, k + 1) /\ ~Common(a, i, b, 0, k + 1)
  BY NoRising DEF Common
<1>3. ASSUME NEW l \in 0..k, Common(a, i, b, j, k) PROVE Common(a, i, b, j, l)
  <2>1. PICK f \in Rising(k, i), g \in Rising(k, j) : Matches(a, f, b, g)
    BY <1>3 DEF Common
  <2>2. [n \in 1..l |-> f[n]] \in Rising(l, i) /\ [n \in 1..l |-> g[n]] \in Rising(l, j)
    BY RisingPrefix
  <2>3. Matches(a, [n \in 1..l |-> f[n]], b, [n \in 1..l |-> g[n]])
    BY <2>1 DEF Matches, Rising
  <2> QED
    BY <2>2, <2>3 DEF Common
<1>4. ASSUME Common(a, i, b, j, k)
      PROVE  Common(a, i + 1, b, j, k) /\ Common(a, i, b, j + 1, k)
  BY <1>4, RisingWider DEF Common
<1>5. ASSUME Common(a, i + 1, b, j + 1, k + 1)
      PROVE  Common(a, i, b, j, k)
  <2>1. PICK f \in Rising(k + 1, i + 1), g \in Rising(k + 1, j + 1) : Matches(a, f, b, g)
    BY <1>5 DEF Common
  <2>2. [n \in 1..k |-> f[n]] \in Rising(k, i) /\ [n \in 1..k |-> g[n]] \in Rising(k, j)
    BY RisingShorter
  <2>3. Matches(a, [n \in 1..k |-> f[n]], b, [n \in 1..k |-> g[n]])
    <3>1. DOMAIN f = 1..(k + 1)
      BY DEF Rising
    <3>2. \A n \in 1..k : n \in 1..(k + 1)
      OBVIOUS
    <3> QED
      BY <2>1, <3>1, <3>2 DEF Matches
  <2> QED
    BY <2>2, <2>3 DEF Common
<1>6. ASSUME Common(a, i, b, j, k), a[i + 1] = b[j + 1]
      PROVE  Common(a, i + 1, b, j + 1, k + 1)
  <2>1. PICK f \in Rising(k, i), g \in Rising(k, j) : Matches(a, f, b, g)
    BY <1>6 DEF Common
  <2> DEFINE ff == [n \in 1..(k + 1) |-> IF n = k + 1 THEN i + 1 ELSE f[n]]
             gg == [n \in 1..(k + 1) |-> IF n = k + 1 THEN j + 1 ELSE g[n]]
  <2>2. ff \in Rising(k + 1, i + 1) /\ gg \in Rising(k + 1, j + 1)
    BY RisingWider
  <2>3. \A n \in 1..(k + 1) : a[ff[n]] = b[gg[n]]
    <3> SUFFICES ASSUME NEW n \in 1..(k + 1) PROVE a[ff[n]] = b[gg[n]]
      OBVIOUS
    <3>1. n = k + 1 \/ n \in 1..k
      OBVIOUS
    <3>2. \A p \in 1..k : a[f[p]] = b[g[p]]
      BY <2>1 DEF Matches, Rising
    <3> QED
      BY <1>6, <3>1, <3>2
  <2>4. Matches(a, ff, b, gg)
    BY <2>3 DEF Matches
  <2> HIDE DEF ff, gg
  <2> QED
    BY <2>2, <2>4 DEF Common
<1>7. ASSUME Common(a, i + 1, b, j + 1, k + 1), a[i + 1] # b[j + 1]
      PROVE  Common(a, i, b, j + 1, k + 1) \/ Common(a, i + 1, b, j, k + 1)
  <2>1. PICK f \in Rising(k + 1, i + 1), g \in Rising(k + 1, j + 1) : Matches(a, f, b, g)
    BY <1>7 DEF Common
  <2>2. a[f[k + 1]] = b[g[k + 1]]
    BY <2>1 DEF Matches, Rising
  <2>3. f[k + 1] # i + 1 \/ g[k + 1] # j + 1
    BY <1>7, <2>2
  <2>5. f[k + 1] # i + 1 => f \in Rising(k + 1, i)
    BY RisingShorter
  <2>6. g[k + 1] # j + 1 => g \in Rising(k + 1, j)
    BY RisingShorter
  <2> QED
    BY <2>1, <2>3, <2>5, <2>6 DEF Common
<1> QED
  BY <1>1, <1>2, <1>3, <1>4, <1>5, <1>6, <1>7

LEMMA MaxOfPair ==
  ASSUME NEW p \in Int, NEW q \in Int
  PROVE  /\ Max({p, q}) = IF p >= q THEN p ELSE q
         /\ Max({p, q}) \in Int /\ Max({p, q}) >= p /\ Max({p, q}) >= q
<1> DEFINE m == IF p >= q THEN p ELSE q
<1>1. m \in {p, q} /\ (\A y \in {p, q} : m >= y) /\ m \in Int
  OBVIOUS
<1>2. \A x \in {p, q} : (\A y \in {p, q} : x >= y) => x = m
  OBVIOUS
<1> HIDE DEF m
<1>3. Max({p, q}) = m
  BY <1>1, <1>2, Zenon DEF Max
<1> QED
  BY <1>1, <1>3 DEF m

(* What a row holds.                                                       *)
IsLcsRow(b, previous, x, row) ==
  /\ row \in [1..Len(b) + 1 -> Nat] /\ row[1] = 0
  /\ \A j \in 1..Len(b) :
       row[j + 1] = IF x = b[j] THEN previous[j] + 1 ELSE Max({previous[j + 1], row[j]})

LEMMA LcsRowFacts ==
  ASSUME NEW b, IsList(b), NEW previous \in [1..Len(b) + 1 -> Nat], NEW x
  PROVE  IsLcsRow(b, previous, x, LcsRow(b, previous, x))
<1>0. PICK current : CellsOf(b, previous, x, current)
  BY LcsCells, Zenon
<1> DEFINE n == Len(b)
           Cell(r, j) == IF x = b[j] THEN previous[j] + 1 ELSE Max({previous[j + 1], r[j]})
           Good(k, r) == /\ r \in Seq(Nat) /\ Len(r) = k + 1 /\ r[1] = 0
                         /\ \A j \in 1..k : r[j + 1] = Cell(r, j)
<1>1. n \in Nat /\ previous \in [1..(n + 1) -> Nat]
  BY ListFacts
<1>2. /\ current[0] = <<0>>
      /\ \A i \in 1..n : current[i] = LcsCell(b, previous, x, current[i - 1], i)
      /\ LcsRow(b, previous, x) = current[n]
  BY <1>0 DEF CellsOf
<1> HIDE DEF n
<1>3. Good(0, current[0])
  BY <1>2
<1>4. ASSUME NEW k \in Nat, k < n, Good(k, current[k]) PROVE Good(k + 1, current[k + 1])
  <2>1. k + 1 \in 1..n /\ (k + 1) - 1 = k
    BY <1>1, <1>4
  <2>2. PICK r \in Seq(Nat) : r = current[k]
    BY <1>4
  <2>3. Len(r) = k + 1 /\ r[1] = 0 /\ \A j \in 1..k : r[j + 1] = Cell(r, j)
    BY <1>4, <2>2
  <2>4. current[k + 1] = Append(r, Cell(r, k + 1))
    BY <1>2, <2>1, <2>2 DEF LcsCell
  <2>5. Cell(r, k + 1) \in Nat
    <3>1. k + 1 \in 1..(n + 1) /\ (k + 1) + 1 \in 1..(n + 1) /\ k + 1 \in 1..Len(r)
      BY <1>1, <1>4, <2>3
    <3>2. previous[k + 1] \in Nat /\ previous[(k + 1) + 1] \in Nat /\ r[k + 1] \in Nat
      BY <1>1, <3>1
    <3>3. PICK p \in Nat : p = previous[(k + 1) + 1]
      BY <3>2
    <3>4. PICK q \in Nat : q = r[k + 1]
      BY <3>2
    <3>5. Max({p, q}) \in Nat
      <4>1. p \in Int /\ q \in Int
        OBVIOUS
      <4>2. Max({p, q}) \in Int /\ Max({p, q}) >= p
        BY <4>1, MaxOfPair, Zenon
      <4> QED
        BY <4>2
    <3> QED
      BY <3>2, <3>3, <3>4, <3>5
  <2>6. PICK v \in Nat : v = Cell(r, k + 1)
    BY <2>5
  <2>7. PICK s \in Seq(Nat) : s = Append(r, v)
    <3>1. Append(r, v) \in Seq(Nat)
      OBVIOUS
    <3> QED
      BY <3>1, Zenon
  <2>8. /\ Len(s) = k + 2 /\ \A j \in 1..(k + 1) : s[j] = r[j]
        /\ s[k + 2] = v
    BY <2>3, <2>7
  <2>9. ASSUME NEW j \in 1..(k + 1) PROVE s[j + 1] = Cell(s, j)
    <3>1. s[j] = r[j]
      BY <2>8
    <3>2. CASE j = k + 1
      <4>1. s[j + 1] = v
        BY <2>8, <3>2
      <4> QED
        BY <2>6, <3>1, <3>2, <4>1
    <3>3. CASE j \in 1..k
      <4>1. j + 1 \in 1..(k + 1)
        BY <3>3
      <4>2. s[j + 1] = r[j + 1] /\ r[j + 1] = Cell(r, j)
        BY <2>3, <2>8, <3>3, <4>1
      <4> QED
        BY <3>1, <4>2
    <3>4. j = k + 1 \/ j \in 1..k
      OBVIOUS
    <3> QED
      BY <3>2, <3>3, <3>4
  <2>10. s[1] = 0
    BY <2>3, <2>8
  <2>11. current[k + 1] = s
    BY <2>4, <2>6, <2>7
  <2>12. Len(s) = (k + 1) + 1
    BY <2>8
  <2> HIDE DEF Cell
  <2> QED
    BY <2>9, <2>10, <2>11, <2>12
<1> DEFINE T == {k \in 0..n : Good(k, current[k])}
<1>5. n \in T
  <2>1. 0 \in T /\ n \in 0..n /\ \A k \in Nat : k < n /\ k \in T => k + 1 \in T
    <3> HIDE DEF Good
    <3> QED
      BY <1>1, <1>3, <1>4
  <2> HIDE DEF T
  <2> QED
    BY <1>1, <2>1, UpTo, Zenon
<1>6. PICK row : row = current[n]
  OBVIOUS
<1>7. Good(n, row)
  BY <1>5, <1>6
<1>8. row \in [1..(n + 1) -> Nat]
  BY <1>1, <1>7
<1>9. row = LcsRow(b, previous, x)
  BY <1>2, <1>6, Zenon
<1>10. IsLcsRow(b, previous, x, row)
  BY <1>7, <1>8 DEF n, IsLcsRow
<1> QED
  BY <1>9, <1>10

(* A row holds, after its first j characters, how many of them and of the  *)
(* characters read so far follow each other in both.                       *)
LcsRowOf(a, i, b, row) ==
  /\ row \in [1..Len(b) + 1 -> Nat]
  /\ \A j \in 0..Len(b) : LcsOf(a, i, b, j, row[j + 1])

(* The cell under and right of three right ones is right.                  *)
LEMMA LcsOfNext ==
  ASSUME NEW a, NEW b, NEW i \in Nat, NEW j \in Nat, NEW p \in Nat, NEW q \in Nat, NEW r \in Nat,
         LcsOf(a, i, b, j, p), LcsOf(a, i, b, j + 1, q), LcsOf(a, i + 1, b, j, r)
  PROVE  LcsOf(a, i + 1, b, j + 1, IF a[i + 1] = b[j + 1] THEN p + 1 ELSE Max({q, r}))
<1>1. CASE a[i + 1] = b[j + 1]
  <2>1. Common(a, i + 1, b, j + 1, p + 1)
    BY <1>1, CommonFacts DEF LcsOf
  <2>2. ~Common(a, i + 1, b, j + 1, (p + 1) + 1)
    <3>1. PICK k \in Nat : k = p + 1
      OBVIOUS
    <3>2. ~Common(a, i, b, j, k)
      BY <3>1 DEF LcsOf
    <3>3. ~Common(a, i + 1, b, j + 1, k + 1)
      BY <3>2, CommonFacts
    <3> QED
      BY <3>1, <3>3
  <2> QED
    BY <1>1, <2>1, <2>2 DEF LcsOf
<1>2. CASE a[i + 1] # b[j + 1]
  <2>1. PICK m \in Nat : m = Max({q, r}) /\ m = IF q >= r THEN q ELSE r
    <3> q \in Int /\ r \in Int
      OBVIOUS
    <3>1. Max({q, r}) = IF q >= r THEN q ELSE r
      BY MaxOfPair, Zenon
    <3>2. (IF q >= r THEN q ELSE r) \in Nat
      OBVIOUS
    <3> QED
      BY <3>1, <3>2, Zenon
  <2>2. PICK w \in Nat : w = i + 1
    OBVIOUS
  <2>3. PICK z \in Nat : z = j + 1
    OBVIOUS
  <2>4. Common(a, w, b, z, m)
    <3>1. Common(a, i, b, z, q) => Common(a, w, b, z, q)
      BY <2>2, CommonFacts
    <3>2. Common(a, w, b, j, r) => Common(a, w, b, z, r)
      BY <2>3, CommonFacts
    <3> QED
      BY <2>1, <2>2, <2>3, <3>1, <3>2 DEF LcsOf
  <2>5. ~Common(a, w, b, z, m + 1)
    <3>1. ASSUME Common(a, w, b, z, m + 1) PROVE Common(a, i, b, z, m + 1) \/ Common(a, w, b, j, m + 1)
      BY <1>2, <2>2, <2>3, <3>1, CommonFacts
    <3>2. PICK k \in Nat : k = m + 1
      OBVIOUS
    <3>3. ~Common(a, i, b, z, k)
      <4>1. PICK l \in 0..k : l = q + 1
        <5>1. q + 1 \in 0..k
          BY <2>1, <3>2
        <5> QED
          BY <5>1, Zenon
      <4>2. ~Common(a, i, b, z, l)
        BY <2>3, <4>1 DEF LcsOf
      <4> QED
        BY <4>2, CommonFacts
    <3>4. ~Common(a, w, b, j, k)
      <4>1. PICK l \in 0..k : l = r + 1
        <5>1. r + 1 \in 0..k
          BY <2>1, <3>2
        <5> QED
          BY <5>1, Zenon
      <4>2. ~Common(a, w, b, j, l)
        BY <2>2, <4>1 DEF LcsOf
      <4> QED
        BY <4>2, CommonFacts
    <3> QED
      BY <3>1, <3>2, <3>3, <3>4
  <2> QED
    BY <1>2, <2>1, <2>2, <2>3, <2>4, <2>5 DEF LcsOf
<1> QED
  BY <1>1, <1>2

LEMMA LcsOfEdge ==
  ASSUME NEW a, NEW b, NEW i \in Nat
  PROVE  LcsOf(a, i, b, 0, 0) /\ LcsOf(a, 0, b, i, 0)
<1>1. 0 + 1 \in Nat /\ 0 \in Nat
  OBVIOUS
<1>2. Common(a, i, b, 0, 0) /\ Common(a, 0, b, i, 0)
  BY <1>1, CommonFacts
<1>3. ~Common(a, i, b, 0, 0 + 1) /\ ~Common(a, 0, b, i, 0 + 1)
  BY <1>1, CommonFacts
<1> QED
  BY <1>2, <1>3 DEF LcsOf

LEMMA LcsRowNext ==
  ASSUME NEW a, NEW b, IsList(b), NEW i \in Nat, NEW previous, LcsRowOf(a, i, b, previous)
  PROVE  LcsRowOf(a, i + 1, b, LcsRow(b, previous, a[i + 1]))
<1> DEFINE n == Len(b)
<1>1. n \in Nat
  BY ListFacts
<1>2. PICK row \in [1..n + 1 -> Nat] :
        /\ row = LcsRow(b, previous, a[i + 1]) /\ row[1] = 0
        /\ \A j \in 1..n : row[j + 1] = IF a[i + 1] = b[j] THEN previous[j] + 1
                                        ELSE Max({previous[j + 1], row[j]})
  <2>1. previous \in [1..Len(b) + 1 -> Nat]
    BY DEF LcsRowOf
  <2>2. IsLcsRow(b, previous, a[i + 1], LcsRow(b, previous, a[i + 1]))
    BY <2>1, LcsRowFacts, Zenon
  <2> QED
    BY <2>2 DEF IsLcsRow
<1> DEFINE T == {j \in 0..n : LcsOf(a, i + 1, b, j, row[j + 1])}
<1>3. \A j \in 0..n : previous[j + 1] \in Nat /\ LcsOf(a, i, b, j, previous[j + 1])
  <2>1. \A j \in 0..n : j + 1 \in 1..(n + 1)
    BY <1>1
  <2> QED
    BY <2>1 DEF LcsRowOf
<1>4. \A j \in 0..n : row[j + 1] \in Nat
  BY <1>1, <1>2
<1> HIDE DEF n
<1>5. 0 \in T
  BY <1>1, <1>2, LcsOfEdge
<1>6. ASSUME NEW j \in Nat, j < n, j \in T PROVE j + 1 \in T
  <2>1. j + 1 \in 0..n /\ j \in 0..n /\ j + 1 \in 1..n
    BY <1>1, <1>6
  <2>2. PICK p \in Nat : p = previous[j + 1]
    BY <1>3, <2>1
  <2>3. PICK q \in Nat : q = previous[(j + 1) + 1]
    BY <1>3, <2>1
  <2>4. PICK r \in Nat : r = row[j + 1]
    BY <1>4, <2>1
  <2>5. LcsOf(a, i, b, j, p) /\ LcsOf(a, i, b, j + 1, q) /\ LcsOf(a, i + 1, b, j, r)
    BY <1>3, <1>6, <2>1, <2>2, <2>3, <2>4
  <2>6. LcsOf(a, i + 1, b, j + 1, IF a[i + 1] = b[j + 1] THEN p + 1 ELSE Max({q, r}))
    BY <2>5, LcsOfNext
  <2>7. row[(j + 1) + 1] = IF a[i + 1] = b[j + 1] THEN p + 1 ELSE Max({q, r})
    BY <1>2, <2>1, <2>2, <2>3, <2>4
  <2> QED
    BY <2>1, <2>6, <2>7
<1>7. \A j \in 0..n : j \in T
  <2> HIDE DEF T
  <2> QED
    BY <1>1, <1>5, <1>6, UpTo, Zenon
<1> QED
  BY <1>2, <1>7 DEF LcsRowOf, n

(* No more places in order than there are.                                 *)
LEMMA RisingFits ==
  ASSUME NEW k \in Nat, NEW m \in Nat, NEW f \in Rising(k, m)
  PROVE  k <= m
<1>1. f \in [1..k -> 1..m] /\ \A p, q \in 1..k : p < q => f[p] < f[q]
  BY DEF Rising
<1> DEFINE T == {p \in 0..k : p = 0 \/ f[p] >= p}
<1>2. 0 \in T
  OBVIOUS
<1>3. ASSUME NEW p \in Nat, p < k, p \in T PROVE p + 1 \in T
  <2>1. p + 1 \in 1..k /\ f[p + 1] \in 1..m
    BY <1>1, <1>3
  <2>2. CASE p = 0
    BY <2>1, <2>2
  <2>3. CASE p # 0
    <3>1. p \in 1..k /\ p < p + 1 /\ f[p] \in 1..m
      BY <1>1, <1>3, <2>3
    <3>2. f[p] < f[p + 1] /\ f[p] >= p
      BY <1>1, <1>3, <2>1, <2>3, <3>1
    <3>3. f[p + 1] >= p + 1
      BY <2>1, <3>1, <3>2
    <3> QED
      BY <2>1, <3>3
  <2> QED
    BY <2>2, <2>3
<1>4. k \in T
  <2>1. k \in 0..k
    OBVIOUS
  <2> HIDE DEF T
  <2> QED
    BY <1>2, <1>3, <2>1, UpTo, Zenon
<1>5. k = 0 \/ (k \in 1..k /\ f[k] \in 1..m)
  BY <1>1
<1> QED
  BY <1>4, <1>5

(* The table counts what the two lists have in common, in order.           *)
LEMMA LcsIsExact ==
  ASSUME NEW a, IsList(a), NEW b, IsList(b)
  PROVE  LcsLength(a, b) = RefLcs(a, b)
<1> DEFINE m == Len(a)
           n == Len(b)
<1>1. m \in Nat /\ n \in Nat
  BY ListFacts
<1>2. PICK row : /\ row[0] = LcsBase(b)
                 /\ \A i \in 1..m : row[i] = LcsRow(b, row[i - 1], a[i])
                 /\ LcsLength(a, b) = Last(row[m])
  <2>1. PICK row : RowsOf(a, b, row)
    BY LcsRows, Zenon
  <2> QED
    BY <2>1 DEF RowsOf
<1> DEFINE T == {i \in 0..m : LcsRowOf(a, i, b, row[i])}
<1> HIDE DEF m, n
<1>3. 0 \in T
  <2>1. row[0] \in [1..n + 1 -> Nat] /\ \A j \in 0..n : row[0][j + 1] = 0
    BY <1>1, <1>2 DEF LcsBase, n
  <2>2. \A j \in 0..n : LcsOf(a, 0, b, j, row[0][j + 1])
    BY <1>1, <2>1, LcsOfEdge
  <2> QED
    BY <1>1, <2>1, <2>2 DEF LcsRowOf, n
<1>4. ASSUME NEW i \in Nat, i < m, i \in T PROVE i + 1 \in T
  <2>1. i + 1 \in 0..m /\ i + 1 \in 1..m /\ (i + 1) - 1 = i
    BY <1>1, <1>4
  <2>2. row[i + 1] = LcsRow(b, row[i], a[i + 1])
    BY <1>2, <2>1
  <2> QED
    BY <1>4, <2>1, <2>2, LcsRowNext
<1>5. m \in T
  <2>1. m \in 0..m
    BY <1>1
  <2> HIDE DEF T
  <2> QED
    BY <1>1, <1>3, <1>4, <2>1, UpTo, Zenon
<1>6. PICK k \in Nat : k = LcsLength(a, b) /\ LcsOf(a, m, b, n, k)
  <2>1. row[m] \in [1..n + 1 -> Nat] /\ n \in 0..n /\ LcsOf(a, m, b, n, row[m][n + 1])
    BY <1>1, <1>5 DEF LcsRowOf, n
  <2>2. Last(row[m]) = row[m][n + 1] /\ row[m][n + 1] \in Nat
    BY <1>1, <2>1 DEF Last
  <2> QED
    BY <1>2, <2>1, <2>2
<1> DEFINE C == {l \in 0..m : Common(a, m, b, n, l)}
<1>7. k <= m
  BY <1>1, <1>6, RisingFits DEF LcsOf, Common
<1>8. k \in C /\ \A l \in C : k >= l
  <2>1. k \in C
    BY <1>1, <1>6, <1>7 DEF LcsOf
  <2>2. ASSUME NEW l \in C, ~(k >= l) PROVE FALSE
    <3>1. l \in Nat /\ k + 1 \in 0..l /\ Common(a, m, b, n, l)
      BY <1>1, <2>2
    <3>2. PICK g \in Nat : g = l
      BY <3>1
    <3>3. PICK h \in 0..g : h = k + 1
      BY <3>1, <3>2, Zenon
    <3>4. Common(a, m, b, n, h)
      BY <1>1, <3>1, <3>2, CommonFacts
    <3> QED
      BY <1>6, <3>3, <3>4 DEF LcsOf
  <2> QED
    BY <2>1, <2>2
<1>9. \A x \in C : (\A y \in C : x >= y) => x = k
  <2>1. C \subseteq Int
    OBVIOUS
  <2> HIDE DEF C
  <2> QED
    BY <1>8, <2>1
<1>10. RefLcs(a, b) = Max(C)
  BY Zenon DEF RefLcs, Common, m, n
<1> HIDE DEF C
<1> QED
  BY <1>6, <1>8, <1>9, <1>10, Zenon DEF Max

-----------------------------------------------------------------------------
(* Levenshtein.                                                            *)

EditCell(b, previous, x, current, j) ==
  Append(current, Min({current[j] + 1, previous[j + 1] + 1,
                       previous[j] + (IF x = b[j] THEN 0 ELSE 1)}))
EditRow(b, previous, x) ==
  FoldLeftDomain(LAMBDA current, j : EditCell(b, previous, x, current, j), <<previous[1] + 1>>, b)
EditBase(b) == [j \in 1..Len(b) + 1 |-> j - 1]

(* A row is made cell by cell.                                             *)
EditCellsOf(b, previous, x, current) ==
  /\ current[0] = <<previous[1] + 1>>
  /\ \A i \in 1..Len(b) : current[i] = EditCell(b, previous, x, current[i - 1], i)
  /\ EditRow(b, previous, x) = current[Len(b)]

LEMMA EditCells ==
  ASSUME NEW b, IsList(b), NEW previous, NEW x
  PROVE  \E current : EditCellsOf(b, previous, x, current)
<1> DEFINE c == [i \in DOMAIN b |-> i]
           n == Len(b)
           Step(it, s) == IF s = {} THEN <<previous[1] + 1>>
                          ELSE EditCell(b, previous, x, it[s \ {Max(s)}], c[Max(s)])
           Good(k) == \E it : \A s \in Small(n, k) : it[s] = Step(it, s)
<1>1. n \in Nat /\ DOMAIN b = 1..n /\ DOMAIN c = 1..n
  BY ListFacts
<1>2. EditRow(b, previous, x) =
        (CHOOSE it : it = [s \in SUBSET DOMAIN c |-> Step(it, s)])[DOMAIN c]
  BY Zenon DEF EditRow, FoldLeftDomain, FoldLeft, MapThenFoldSet
<1> HIDE DEF n
<1>3. Good(n)
  <2>1. Good(0)
    <3> DEFINE it == [s \in {{}} |-> <<previous[1] + 1>>]
    <3>1. \A s \in Small(n, 0) : it[s] = Step(it, s)
      BY <1>1, SmallSets
    <3> QED
      BY <3>1
  <2>2. ASSUME NEW k \in Nat, Good(k) PROVE Good(k + 1)
    <3>1. PICK it : \A s \in Small(n, k) : it[s] = Step(it, s)
      BY <2>2
    <3> DEFINE new == [s \in Small(n, k + 1) |-> Step(it, s)]
    <3>2. Small(n, k) \subseteq Small(n, k + 1)
      BY <1>1, SmallSets
    <3>3. \A s \in Small(n, k) : new[s] = it[s]
      BY <3>1, <3>2
    <3>4. ASSUME NEW s \in Small(n, k + 1) PROVE new[s] = Step(new, s)
      <4>1. s # {} => s \ {Max(s)} \in Small(n, k)
        BY <1>1, SmallSets
      <4>2. s # {} => new[s \ {Max(s)}] = it[s \ {Max(s)}]
        BY <3>3, <4>1
      <4>3. new[s] = Step(it, s)
        OBVIOUS
      <4> HIDE DEF new
      <4> QED
        BY <4>2, <4>3
    <3> QED
      BY <3>4
  <2> DEFINE T == {k \in 0..n : Good(k)}
  <2> HIDE DEF Good
  <2>3. 0 \in T /\ n \in 0..n /\ \A k \in Nat : k < n /\ k \in T => k + 1 \in T
    BY <1>1, <2>1, <2>2
  <2>4. n \in T
    <3> HIDE DEF T
    <3> QED
      BY <1>1, <2>3, UpTo, Zenon
  <2> QED
    BY <2>4
<1>4. PICK it : /\ it = [s \in SUBSET DOMAIN c |-> Step(it, s)]
                /\ EditRow(b, previous, x) = it[DOMAIN c]
  <2>1. PICK g : \A s \in Small(n, n) : g[s] = Step(g, s)
    BY <1>3
  <2> DEFINE it == [s \in SUBSET DOMAIN c |-> g[s]]
  <2>2. it = [s \in SUBSET DOMAIN c |-> Step(it, s)]
    BY <1>1, <2>1, SmallSets
  <2> HIDE DEF it, Step
  <2> QED
    BY <1>2, <2>2, Zenon
<1> DEFINE current == [i \in 0..n |-> it[1..i]]
<1>5. current[0] = <<previous[1] + 1>>
  BY <1>1, <1>4
<1>6. ASSUME NEW i \in 1..n PROVE current[i] = EditCell(b, previous, x, current[i - 1], i)
  <2>1. /\ 1..i \in SUBSET DOMAIN c /\ 1..i # {} /\ Max(1..i) = i
        /\ (1..i) \ {Max(1..i)} = 1..(i - 1)
    BY <1>1, InitialSegments, Zenon
  <2>2. it[1..i] = EditCell(b, previous, x, it[1..(i - 1)], c[i])
    BY <1>4, <2>1
  <2>3. i \in 0..n /\ i - 1 \in 0..n /\ c[i] = i
    BY <1>1
  <2> QED
    BY <2>2, <2>3
<1>7. EditRow(b, previous, x) = current[n]
  BY <1>1, <1>4
<1> HIDE DEF current
<1> QED
  BY <1>5, <1>6, <1>7 DEF n, EditCellsOf

(* The table is made row by row.                                           *)
EditRowsOf(a, b, row) ==
  /\ row[0] = EditBase(b)
  /\ \A i \in 1..Len(a) : row[i] = EditRow(b, row[i - 1], a[i])
  /\ Levenshtein(a, b) = Last(row[Len(a)])

LEMMA EditRows ==
  ASSUME NEW a, IsList(a), NEW b
  PROVE  \E row : EditRowsOf(a, b, row)
<1> DEFINE n == Len(a)
           Step(it, s) == IF s = {} THEN EditBase(b)
                          ELSE EditRow(b, it[s \ {Max(s)}], a[Max(s)])
           Good(k) == \E it : \A s \in Small(n, k) : it[s] = Step(it, s)
<1>1. n \in Nat /\ DOMAIN a = 1..n
  BY ListFacts
<1>2. Levenshtein(a, b) =
        Last((CHOOSE it : it = [s \in SUBSET DOMAIN a |-> Step(it, s)])[DOMAIN a])
  BY Zenon DEF Levenshtein, EditBase, EditRow, EditCell, FoldLeft, MapThenFoldSet
<1> HIDE DEF n
<1>3. Good(n)
  <2>1. Good(0)
    <3> DEFINE it == [s \in {{}} |-> EditBase(b)]
    <3>1. \A s \in Small(n, 0) : it[s] = Step(it, s)
      BY <1>1, SmallSets
    <3> QED
      BY <3>1
  <2>2. ASSUME NEW k \in Nat, Good(k) PROVE Good(k + 1)
    <3>1. PICK it : \A s \in Small(n, k) : it[s] = Step(it, s)
      BY <2>2
    <3> DEFINE new == [s \in Small(n, k + 1) |-> Step(it, s)]
    <3>2. Small(n, k) \subseteq Small(n, k + 1)
      BY <1>1, SmallSets
    <3>3. \A s \in Small(n, k) : new[s] = it[s]
      BY <3>1, <3>2
    <3>4. ASSUME NEW s \in Small(n, k + 1) PROVE new[s] = Step(new, s)
      <4>1. s # {} => s \ {Max(s)} \in Small(n, k)
        BY <1>1, SmallSets
      <4>2. s # {} => new[s \ {Max(s)}] = it[s \ {Max(s)}]
        BY <3>3, <4>1
      <4>3. new[s] = Step(it, s)
        OBVIOUS
      <4> HIDE DEF new
      <4> QED
        BY <4>2, <4>3
    <3> QED
      BY <3>4
  <2> DEFINE T == {k \in 0..n : Good(k)}
  <2> HIDE DEF Good
  <2>3. 0 \in T /\ n \in 0..n /\ \A k \in Nat : k < n /\ k \in T => k + 1 \in T
    BY <1>1, <2>1, <2>2
  <2>4. n \in T
    <3> HIDE DEF T
    <3> QED
      BY <1>1, <2>3, UpTo, Zenon
  <2> QED
    BY <2>4
<1>4. PICK it : /\ it = [s \in SUBSET DOMAIN a |-> Step(it, s)]
                /\ Levenshtein(a, b) = Last(it[DOMAIN a])
  <2>1. PICK g : \A s \in Small(n, n) : g[s] = Step(g, s)
    BY <1>3
  <2> DEFINE it == [s \in SUBSET DOMAIN a |-> g[s]]
  <2>2. it = [s \in SUBSET DOMAIN a |-> Step(it, s)]
    BY <1>1, <2>1, SmallSets
  <2> HIDE DEF it, Step
  <2> QED
    BY <1>2, <2>2, Zenon
<1> DEFINE row == [i \in 0..n |-> it[1..i]]
<1>5. row[0] = EditBase(b)
  BY <1>1, <1>4
<1>6. ASSUME NEW i \in 1..n PROVE row[i] = EditRow(b, row[i - 1], a[i])
  <2>1. /\ 1..i \in SUBSET DOMAIN a /\ 1..i # {} /\ Max(1..i) = i
        /\ (1..i) \ {Max(1..i)} = 1..(i - 1)
    BY <1>1, InitialSegments, Zenon
  <2>2. it[1..i] = EditRow(b, it[1..(i - 1)], a[i])
    BY <1>4, <2>1
  <2>3. i \in 0..n /\ i - 1 \in 0..n
    BY <1>1
  <2> QED
    BY <2>2, <2>3
<1>7. Levenshtein(a, b) = Last(row[n])
  BY <1>1, <1>4
<1> HIDE DEF row
<1> QED
  BY <1>5, <1>6, <1>7 DEF n, EditRowsOf

(* The pairs of an alignment that differ.                                  *)
LEMMA DifferFacts ==
  ASSUME NEW a, NEW b, NEW k \in Nat, NEW f, NEW g
  PROVE  /\ Differ(a, f, b, g, k) \in Nat
         /\ Differ(a, f, b, g, k + 1) =
              Differ(a, f, b, g, k) + (IF a[f[k + 1]] = b[g[k + 1]] THEN 0 ELSE 1)
<1> DEFINE D == {n \in 1..k : a[f[n]] # b[g[n]]}
           E == {n \in 1..(k + 1) : a[f[n]] # b[g[n]]}
<1>1. IsFiniteSet(D)
  <2>1. IsFiniteSet(1..k) /\ D \subseteq 1..k
    BY FS_Interval
  <2> HIDE DEF D
  <2> QED
    BY <2>1, FS_Subset
<1>2. Cardinality(D) \in Nat
  BY <1>1, FS_CardinalityType
<1>4. Cardinality(E) = Cardinality(D) + (IF a[f[k + 1]] = b[g[k + 1]] THEN 0 ELSE 1)
  <2>1. CASE a[f[k + 1]] = b[g[k + 1]]
    <3>1. E = D
      BY <2>1
    <3> QED
      BY <1>2, <2>1, <3>1
  <2>2. CASE a[f[k + 1]] # b[g[k + 1]]
    <3>1. E = D \cup {k + 1} /\ k + 1 \notin D
      BY <2>2
    <3>2. Cardinality(D \cup {k + 1}) = Cardinality(D) + 1
      BY <1>1, <3>1, FS_AddElement
    <3> QED
      BY <2>2, <3>1, <3>2
  <2> QED
    BY <2>1, <2>2
<1> QED
  BY <1>2, <1>4 DEF Differ

LEMMA DifferSame ==
  ASSUME NEW a, NEW b, NEW k \in Nat, NEW f, NEW g, NEW ff, NEW gg,
         \A n \in 1..k : ff[n] = f[n] /\ gg[n] = g[n]
  PROVE  Differ(a, ff, b, gg, k) = Differ(a, f, b, g, k)
<1>1. {n \in 1..k : a[ff[n]] # b[gg[n]]} = {n \in 1..k : a[f[n]] # b[g[n]]}
  OBVIOUS
<1> QED
  BY <1>1 DEF Differ

(* An alignment of the first i of a with the first j of b, and its cost:   *)
(* what is in no pair, and the pairs that differ.                          *)
Aligned(a, i, b, j, c) ==
  \E k \in Nat : \E f \in Rising(k, i), g \in Rising(k, j) :
    c = i + j - 2 * k + Differ(a, f, b, g, k)
DistOf(a, i, b, j, d) ==
  /\ d \in Nat /\ Aligned(a, i, b, j, d)
  /\ \A c \in Int : Aligned(a, i, b, j, c) => d <= c

LEMMA AlignedEdge ==
  ASSUME NEW a, NEW b, NEW i \in Nat
  PROVE  DistOf(a, i, b, 0, i) /\ DistOf(a, 0, b, i, i)
<1>1. PICK f \in Rising(0, i), g \in Rising(0, 0) : TRUE
  BY NoRising
<1>2. PICK h \in Rising(0, 0), l \in Rising(0, i) : TRUE
  BY NoRising
<1>3. Differ(a, f, b, g, 0) = 0 /\ Differ(a, h, b, l, 0) = 0
  <2>1. {n \in 1..0 : a[f[n]] # b[g[n]]} = {} /\ {n \in 1..0 : a[h[n]] # b[l[n]]} = {}
    OBVIOUS
  <2> QED
    BY <2>1, FS_EmptySet DEF Differ
<1>4. 0 \in Nat /\ i = i + 0 - 2 * 0 + 0 /\ i = 0 + i - 2 * 0 + 0
  OBVIOUS
<1>5. Aligned(a, i, b, 0, i) /\ Aligned(a, 0, b, i, i)
  BY <1>1, <1>2, <1>3, <1>4 DEF Aligned
<1>6. ASSUME NEW c \in Int, Aligned(a, i, b, 0, c) \/ Aligned(a, 0, b, i, c) PROVE i <= c
  <2>0. PICK k \in Nat : \E u, v : /\ Rising(k, 0) # {}
                                   /\ c = i - 2 * k + Differ(a, u, b, v, k)
    BY <1>6 DEF Aligned
  <2>1. PICK u, v : Rising(k, 0) # {} /\ c = i - 2 * k + Differ(a, u, b, v, k)
    BY <2>0
  <2>2. k = 0
    BY <2>1, NoRising
  <2>3. PICK d \in Nat : d = Differ(a, u, b, v, k)
    BY DifferFacts
  <2> QED
    BY <2>1, <2>2, <2>3
<1> QED
  BY <1>5, <1>6 DEF DistOf

(* Alignments grow by one character that is in no pair, or by a pair.      *)
LEMMA AlignedGrows ==
  ASSUME NEW a, NEW b, NEW i \in Nat, NEW j \in Nat, NEW c \in Int, Aligned(a, i, b, j, c)
  PROVE  /\ Aligned(a, i + 1, b, j, c + 1) /\ Aligned(a, i, b, j + 1, c + 1)
         /\ Aligned(a, i + 1, b, j + 1, c + (IF a[i + 1] = b[j + 1] THEN 0 ELSE 1))
<1>1. PICK k \in Nat : \E f \in Rising(k, i), g \in Rising(k, j) :
        c = i + j - 2 * k + Differ(a, f, b, g, k)
  BY DEF Aligned
<1>2. PICK f \in Rising(k, i), g \in Rising(k, j) : c = i + j - 2 * k + Differ(a, f, b, g, k)
  BY <1>1
<1>3. PICK d \in Nat : d = Differ(a, f, b, g, k)
  BY DifferFacts
<1>4. f \in Rising(k, i + 1) /\ g \in Rising(k, j + 1)
  BY RisingWider
<1>5. c + 1 = (i + 1) + j - 2 * k + d /\ c + 1 = i + (j + 1) - 2 * k + d
  BY <1>2, <1>3
<1>6. Aligned(a, i + 1, b, j, c + 1) /\ Aligned(a, i, b, j + 1, c + 1)
  BY <1>3, <1>4, <1>5 DEF Aligned
<1> DEFINE ff == [n \in 1..(k + 1) |-> IF n = k + 1 THEN i + 1 ELSE f[n]]
           gg == [n \in 1..(k + 1) |-> IF n = k + 1 THEN j + 1 ELSE g[n]]
           cost == IF a[i + 1] = b[j + 1] THEN 0 ELSE 1
<1>7. ff \in Rising(k + 1, i + 1) /\ gg \in Rising(k + 1, j + 1)
  BY RisingWider
<1>8. /\ \A n \in 1..k : ff[n] = f[n] /\ gg[n] = g[n]
      /\ ff[k + 1] = i + 1 /\ gg[k + 1] = j + 1
  OBVIOUS
<1> HIDE DEF ff, gg
<1>9. Differ(a, ff, b, gg, k) = d
  BY <1>3, <1>8, DifferSame
<1>10. Differ(a, ff, b, gg, k + 1) = d + cost
  BY <1>8, <1>9, DifferFacts
<1>11. k + 1 \in Nat /\ c + cost = (i + 1) + (j + 1) - 2 * (k + 1) + (d + cost)
  BY <1>2, <1>3
<1> HIDE DEF cost
<1>12. Aligned(a, i + 1, b, j + 1, c + cost)
  BY <1>7, <1>10, <1>11 DEF Aligned
<1> QED
  BY <1>6, <1>12 DEF cost

(* An alignment without its last pair, or without a last character that is *)
(* in no pair.                                                             *)
LEMMA AlignedShrinks ==
  ASSUME NEW a, NEW b, NEW i \in Nat, NEW j \in Nat, NEW c \in Int,
         Aligned(a, i + 1, b, j + 1, c)
  PROVE  \/ Aligned(a, i, b, j + 1, c - 1) \/ Aligned(a, i + 1, b, j, c - 1)
         \/ Aligned(a, i, b, j, c - (IF a[i + 1] = b[j + 1] THEN 0 ELSE 1))
<1> DEFINE cost == IF a[i + 1] = b[j + 1] THEN 0 ELSE 1
<1>1. PICK k \in Nat : \E f \in Rising(k, i + 1), g \in Rising(k, j + 1) :
        c = (i + 1) + (j + 1) - 2 * k + Differ(a, f, b, g, k)
  BY DEF Aligned
<1>2. PICK f \in Rising(k, i + 1), g \in Rising(k, j + 1) :
        c = (i + 1) + (j + 1) - 2 * k + Differ(a, f, b, g, k)
  BY <1>1
<1>3. PICK d \in Nat : d = Differ(a, f, b, g, k)
  BY DifferFacts
<1>4. c - 1 = i + (j + 1) - 2 * k + d /\ c - 1 = (i + 1) + j - 2 * k + d
  BY <1>2, <1>3
<1>5. CASE f \in Rising(k, i)
  BY <1>3, <1>4, <1>5 DEF Aligned
<1>6. CASE g \in Rising(k, j)
  BY <1>3, <1>4, <1>6 DEF Aligned
<1>7. CASE f \notin Rising(k, i) /\ g \notin Rising(k, j)
  <2>1. k # 0
    <3>1. \A m \in Nat : Rising(0, m) = Rising(0, m + 1)
      <4>1. \A m \in Nat : [1..0 -> 1..m] = [1..0 -> 1..(m + 1)]
        OBVIOUS
      <4> QED
        BY <4>1 DEF Rising
    <3> QED
      BY <1>7, <3>1
  <2>2. PICK l \in Nat : k = l + 1
    <3>1. k - 1 \in Nat /\ k = (k - 1) + 1
      BY <2>1
    <3> QED
      BY <3>1, Zenon
  <2>3. f[l + 1] = i + 1 /\ g[l + 1] = j + 1
    BY <1>7, <2>2, RisingShorter
  <2> DEFINE ff == [n \in 1..l |-> f[n]]
             gg == [n \in 1..l |-> g[n]]
  <2>4. ff \in Rising(l, i) /\ gg \in Rising(l, j)
    BY <2>2, RisingShorter
  <2>5. \A n \in 1..l : ff[n] = f[n] /\ gg[n] = g[n]
    OBVIOUS
  <2> HIDE DEF ff, gg
  <2>6. PICK e \in Nat : e = Differ(a, f, b, g, l)
    BY DifferFacts
  <2>7. Differ(a, ff, b, gg, l) = e
    BY <2>5, <2>6, DifferSame
  <2>8. d = e + cost
    <3>1. Differ(a, f, b, g, l + 1) = Differ(a, f, b, g, l) + (IF a[f[l + 1]] = b[g[l + 1]] THEN 0 ELSE 1)
      BY DifferFacts
    <3> QED
      BY <1>3, <2>2, <2>3, <2>6, <3>1
  <2>9. c - cost = i + j - 2 * l + e
    BY <1>2, <1>3, <2>2, <2>8
  <2> HIDE DEF cost
  <2>10. Aligned(a, i, b, j, c - cost)
    BY <2>4, <2>7, <2>9 DEF Aligned
  <2> QED
    BY <2>10 DEF cost
<1> QED
  BY <1>5, <1>6, <1>7

(* The least cost of the cell under and right of three right ones.         *)
LEMMA MinOfThree ==
  ASSUME NEW p \in Nat, NEW q \in Nat, NEW r \in Nat
  PROVE  \E m \in Nat : /\ m = Min({p, q, r}) /\ m \in {p, q, r}
                        /\ m <= p /\ m <= q /\ m <= r
<1> DEFINE T == {p, q, r}
<1>1. T \subseteq Nat /\ T # {} /\ p \in T /\ q \in T /\ r \in T
  OBVIOUS
<1> HIDE DEF T
<1>2. Min(T) \in T /\ Min(T) \in Nat /\ \A y \in T : Min(T) <= y
  BY <1>1, LeastIsLeast
<1> QED
  BY <1>1, <1>2 DEF T

LEMMA DistOfNext ==
  ASSUME NEW a, NEW b, NEW i \in Nat, NEW j \in Nat, NEW p \in Nat, NEW q \in Nat, NEW r \in Nat,
         DistOf(a, i, b, j, p), DistOf(a, i, b, j + 1, q), DistOf(a, i + 1, b, j, r)
  PROVE  DistOf(a, i + 1, b, j + 1,
                Min({r + 1, q + 1, p + (IF a[i + 1] = b[j + 1] THEN 0 ELSE 1)}))
<1>1. PICK cost \in {0, 1} : cost = IF a[i + 1] = b[j + 1] THEN 0 ELSE 1
  OBVIOUS
<1>2. PICK s \in Nat, t \in Nat, u \in Nat : s = r + 1 /\ t = q + 1 /\ u = p + cost
  <2>1. r + 1 \in Nat /\ q + 1 \in Nat /\ p + cost \in Nat
    OBVIOUS
  <2> QED
    BY <2>1, Zenon
<1>3. PICK m \in Nat : /\ m = Min({s, t, u}) /\ m \in {s, t, u}
                      /\ m <= s /\ m <= t /\ m <= u
  BY MinOfThree, Zenon
<1>4. Aligned(a, i + 1, b, j + 1, m)
  <2>1. Aligned(a, i + 1, b, j + 1, s)
    <3>1. Aligned(a, i + 1, b, j, r) /\ i + 1 \in Nat /\ r \in Int
      BY DEF DistOf
    <3> QED
      BY <1>2, <3>1, AlignedGrows
  <2>2. Aligned(a, i + 1, b, j + 1, t)
    <3>1. Aligned(a, i, b, j + 1, q) /\ j + 1 \in Nat /\ q \in Int
      BY DEF DistOf
    <3> QED
      BY <1>2, <3>1, AlignedGrows
  <2>3. Aligned(a, i + 1, b, j + 1, u)
    <3>1. Aligned(a, i, b, j, p) /\ p \in Int
      BY DEF DistOf
    <3>2. Aligned(a, i + 1, b, j + 1, p + cost)
      BY <1>1, <3>1, AlignedGrows
    <3> QED
      BY <1>2, <3>2
  <2> QED
    BY <1>3, <2>1, <2>2, <2>3
<1>5. ASSUME NEW c \in Int, Aligned(a, i + 1, b, j + 1, c) PROVE m <= c
  <2>1. \/ Aligned(a, i, b, j + 1, c - 1) \/ Aligned(a, i + 1, b, j, c - 1)
        \/ Aligned(a, i, b, j, c - cost)
    BY <1>1, <1>5, AlignedShrinks
  <2>2. PICK v \in Int : v = c - 1
    OBVIOUS
  <2>3. PICK w \in Int : w = c - cost
    OBVIOUS
  <2>4. CASE Aligned(a, i, b, j + 1, c - 1)
    <3>1. q <= v
      BY <2>2, <2>4 DEF DistOf
    <3> QED
      BY <1>2, <1>3, <2>2, <3>1
  <2>5. CASE Aligned(a, i + 1, b, j, c - 1)
    <3>1. r <= v
      BY <2>2, <2>5 DEF DistOf
    <3> QED
      BY <1>2, <1>3, <2>2, <3>1
  <2>6. CASE Aligned(a, i, b, j, c - cost)
    <3>1. p <= w
      BY <2>3, <2>6 DEF DistOf
    <3> QED
      BY <1>2, <1>3, <2>3, <3>1
  <2> QED
    BY <2>1, <2>4, <2>5, <2>6
<1>6. m = Min({r + 1, q + 1, p + (IF a[i + 1] = b[j + 1] THEN 0 ELSE 1)})
  BY <1>1, <1>2, <1>3, Zenon
<1> QED
  BY <1>4, <1>5, <1>6 DEF DistOf

(* What a row holds.                                                       *)
IsEditRow(b, previous, x, row) ==
  /\ row \in [1..Len(b) + 1 -> Nat] /\ row[1] = previous[1] + 1
  /\ \A j \in 1..Len(b) :
       row[j + 1] = Min({row[j] + 1, previous[j + 1] + 1,
                         previous[j] + (IF x = b[j] THEN 0 ELSE 1)})

LEMMA EditRowFacts ==
  ASSUME NEW b, IsList(b), NEW previous \in [1..Len(b) + 1 -> Nat], NEW x
  PROVE  IsEditRow(b, previous, x, EditRow(b, previous, x))
<1>0. PICK current : EditCellsOf(b, previous, x, current)
  BY EditCells, Zenon
<1> DEFINE n == Len(b)
           Cell(r, j) == Min({r[j] + 1, previous[j + 1] + 1,
                              previous[j] + (IF x = b[j] THEN 0 ELSE 1)})
           Good(k, r) == /\ r \in Seq(Nat) /\ Len(r) = k + 1 /\ r[1] = previous[1] + 1
                         /\ \A j \in 1..k : r[j + 1] = Cell(r, j)
<1>1. n \in Nat /\ previous \in [1..(n + 1) -> Nat]
  BY ListFacts
<1>2. /\ current[0] = <<previous[1] + 1>>
      /\ \A i \in 1..n : current[i] = EditCell(b, previous, x, current[i - 1], i)
      /\ EditRow(b, previous, x) = current[n]
  BY <1>0 DEF EditCellsOf
<1> HIDE DEF n
<1>3. Good(0, current[0])
  <2>1. previous[1] + 1 \in Nat
    BY <1>1
  <2> QED
    BY <1>2, <2>1
<1>4. ASSUME NEW k \in Nat, k < n, Good(k, current[k]) PROVE Good(k + 1, current[k + 1])
  <2>1. k + 1 \in 1..n /\ (k + 1) - 1 = k
    BY <1>1, <1>4
  <2>2. PICK r \in Seq(Nat) : r = current[k]
    BY <1>4
  <2>3. Len(r) = k + 1 /\ r[1] = previous[1] + 1 /\ \A j \in 1..k : r[j + 1] = Cell(r, j)
    BY <1>4, <2>2
  <2>4. current[k + 1] = Append(r, Cell(r, k + 1))
    BY <1>2, <2>1, <2>2 DEF EditCell
  <2>5. Cell(r, k + 1) \in Nat
    <3>1. k + 1 \in 1..(n + 1) /\ (k + 1) + 1 \in 1..(n + 1) /\ k + 1 \in 1..Len(r)
      BY <1>1, <1>4, <2>3
    <3>2. previous[k + 1] \in Nat /\ previous[(k + 1) + 1] \in Nat /\ r[k + 1] \in Nat
      BY <1>1, <3>1
    <3>3. PICK p \in Nat : p = r[k + 1] + 1
      BY <3>2
    <3>4. PICK q \in Nat : q = previous[(k + 1) + 1] + 1
      BY <3>2
    <3>5. PICK cost \in {0, 1} : cost = IF x = b[k + 1] THEN 0 ELSE 1
      OBVIOUS
    <3>6. PICK s \in Nat : s = previous[k + 1] + cost
      BY <3>2
    <3>7. PICK v \in Nat : v = Min({p, q, s})
      BY MinOfThree, ZenonT(60)
    <3>8. Cell(r, k + 1) = Min({p, q, s})
      BY <3>3, <3>4, <3>5, <3>6, Zenon
    <3> QED
      BY <3>7, <3>8, Zenon
  <2>6. PICK v \in Nat : v = Cell(r, k + 1)
    BY <2>5, Zenon
  <2> HIDE DEF Cell
  <2>7. PICK s \in Seq(Nat) : s = Append(r, v)
    <3>1. Append(r, v) \in Seq(Nat)
      OBVIOUS
    <3> QED
      BY <3>1, Zenon
  <2>8. /\ Len(s) = k + 2 /\ \A j \in 1..(k + 1) : s[j] = r[j]
        /\ s[k + 2] = v
    BY <2>3, <2>7
  <2>9. ASSUME NEW j \in 1..(k + 1) PROVE s[j + 1] = Cell(s, j)
    <3>1. Cell(s, j) = Cell(r, j)
      BY <2>8, Zenon DEF Cell
    <3>2. CASE j = k + 1
      <4>1. s[j + 1] = v
        BY <2>8, <3>2
      <4> QED
        BY <2>6, <3>1, <3>2, <4>1
    <3>3. CASE j \in 1..k
      <4>1. j + 1 \in 1..(k + 1)
        BY <3>3
      <4>2. s[j + 1] = r[j + 1] /\ r[j + 1] = Cell(r, j)
        BY <2>3, <2>8, <3>3, <4>1
      <4> QED
        BY <3>1, <4>2
    <3>4. j = k + 1 \/ j \in 1..k
      OBVIOUS
    <3> QED
      BY <3>2, <3>3, <3>4
  <2>10. s[1] = previous[1] + 1
    BY <2>3, <2>8
  <2>11. current[k + 1] = s
    BY <2>4, <2>6, <2>7
  <2>12. Len(s) = (k + 1) + 1
    BY <2>8
  <2> QED
    BY <2>9, <2>10, <2>11, <2>12
<1> DEFINE T == {k \in 0..n : Good(k, current[k])}
<1>5. n \in T
  <2>1. 0 \in T /\ n \in 0..n /\ \A k \in Nat : k < n /\ k \in T => k + 1 \in T
    <3> HIDE DEF Good
    <3> QED
      BY <1>1, <1>3, <1>4
  <2> HIDE DEF T
  <2> QED
    BY <1>1, <2>1, UpTo, Zenon
<1>6. PICK row : row = current[n]
  OBVIOUS
<1>7. Good(n, row)
  BY <1>5, <1>6
<1>8. row \in [1..(n + 1) -> Nat]
  BY <1>1, <1>7
<1>9. row = EditRow(b, previous, x)
  BY <1>2, <1>6, Zenon
<1>10. IsEditRow(b, previous, x, row)
  BY <1>7, <1>8 DEF n, IsEditRow
<1> QED
  BY <1>9, <1>10

(* A row holds, after its first j characters, how far they are from the    *)
(* characters read so far.                                                 *)
EditRowOf(a, i, b, row) ==
  /\ row \in [1..Len(b) + 1 -> Nat]
  /\ \A j \in 0..Len(b) : DistOf(a, i, b, j, row[j + 1])

LEMMA EditRowNext ==
  ASSUME NEW a, NEW b, IsList(b), NEW i \in Nat, NEW previous, EditRowOf(a, i, b, previous)
  PROVE  EditRowOf(a, i + 1, b, EditRow(b, previous, a[i + 1]))
<1> DEFINE n == Len(b)
<1>1. n \in Nat
  BY ListFacts
<1>2. PICK row \in [1..n + 1 -> Nat] :
        /\ row = EditRow(b, previous, a[i + 1]) /\ row[1] = previous[1] + 1
        /\ \A j \in 1..n : row[j + 1] = Min({row[j] + 1, previous[j + 1] + 1,
                                previous[j] + (IF a[i + 1] = b[j] THEN 0 ELSE 1)})
  <2>1. previous \in [1..Len(b) + 1 -> Nat]
    BY DEF EditRowOf
  <2>2. IsEditRow(b, previous, a[i + 1], EditRow(b, previous, a[i + 1]))
    BY <2>1, EditRowFacts, Zenon
  <2> QED
    BY <2>2 DEF IsEditRow
<1> DEFINE T == {j \in 0..n : DistOf(a, i + 1, b, j, row[j + 1])}
<1>3. \A j \in 0..n : previous[j + 1] \in Nat /\ DistOf(a, i, b, j, previous[j + 1])
  <2>1. \A j \in 0..n : j + 1 \in 1..(n + 1)
    BY <1>1
  <2> QED
    BY <2>1 DEF EditRowOf
<1>4. \A j \in 0..n : row[j + 1] \in Nat
  BY <1>1, <1>2
<1> HIDE DEF n
<1>5. 0 \in T
  <2>1. 0 \in 0..n /\ previous[1] \in Nat /\ DistOf(a, i, b, 0, previous[1])
    BY <1>1, <1>3
  <2>2. DistOf(a, i, b, 0, i)
    BY AlignedEdge
  <2>3. previous[1] = i
    <3>1. previous[1] <= i /\ i <= previous[1]
      BY <2>1, <2>2 DEF DistOf
    <3> QED
      BY <2>1, <3>1
  <2>4. i + 1 \in Nat
    OBVIOUS
  <2>5. DistOf(a, i + 1, b, 0, i + 1)
    BY <2>4, AlignedEdge
  <2> QED
    BY <1>1, <1>2, <2>3, <2>5
<1>6. ASSUME NEW j \in Nat, j < n, j \in T PROVE j + 1 \in T
  <2>1. j + 1 \in 0..n /\ j \in 0..n /\ j + 1 \in 1..n
    BY <1>1, <1>6
  <2>2. PICK p \in Nat : p = previous[j + 1]
    BY <1>3, <2>1
  <2>3. PICK q \in Nat : q = previous[(j + 1) + 1]
    BY <1>3, <2>1
  <2>4. PICK r \in Nat : r = row[j + 1]
    BY <1>4, <2>1
  <2>5. DistOf(a, i, b, j, p) /\ DistOf(a, i, b, j + 1, q) /\ DistOf(a, i + 1, b, j, r)
    BY <1>3, <1>6, <2>1, <2>2, <2>3, <2>4
  <2>6. DistOf(a, i + 1, b, j + 1,
               Min({r + 1, q + 1, p + (IF a[i + 1] = b[j + 1] THEN 0 ELSE 1)}))
    BY <2>5, DistOfNext
  <2>7. row[(j + 1) + 1] = Min({r + 1, q + 1, p + (IF a[i + 1] = b[j + 1] THEN 0 ELSE 1)})
    BY <1>2, <2>1, <2>2, <2>3, <2>4, Zenon
  <2> QED
    BY <2>1, <2>6, <2>7
<1>7. \A j \in 0..n : j \in T
  <2> HIDE DEF T
  <2> QED
    BY <1>1, <1>5, <1>6, UpTo, Zenon
<1> QED
  BY <1>2, <1>7 DEF EditRowOf, n

(* The table (scoring_core.py:86) finds the cheapest alignment of any two  *)
(* lists: the least number of edits.                                       *)
THEOREM DistanceIsExact ==
  ASSUME NEW a, IsList(a), NEW b, IsList(b)
  PROVE  Levenshtein(a, b) = RefDistance(a, b)
<1> DEFINE m == Len(a)
           n == Len(b)
<1>1. m \in Nat /\ n \in Nat
  BY ListFacts
<1>2. PICK row : /\ row[0] = EditBase(b)
                 /\ \A i \in 1..m : row[i] = EditRow(b, row[i - 1], a[i])
                 /\ Levenshtein(a, b) = Last(row[m])
  <2>1. PICK row : EditRowsOf(a, b, row)
    BY EditRows, Zenon
  <2> QED
    BY <2>1 DEF EditRowsOf
<1> DEFINE T == {i \in 0..m : EditRowOf(a, i, b, row[i])}
<1> HIDE DEF m, n
<1>3. 0 \in T
  <2>1. row[0] \in [1..n + 1 -> Nat] /\ \A j \in 0..n : row[0][j + 1] = j
    BY <1>1, <1>2 DEF EditBase, n
  <2>2. \A j \in 0..n : DistOf(a, 0, b, j, row[0][j + 1])
    BY <1>1, <2>1, AlignedEdge
  <2> QED
    BY <1>1, <2>1, <2>2 DEF EditRowOf, n
<1>4. ASSUME NEW i \in Nat, i < m, i \in T PROVE i + 1 \in T
  <2>1. i + 1 \in 0..m /\ i + 1 \in 1..m /\ (i + 1) - 1 = i
    BY <1>1, <1>4
  <2>2. row[i + 1] = EditRow(b, row[i], a[i + 1])
    BY <1>2, <2>1
  <2> QED
    BY <1>4, <2>1, <2>2, EditRowNext
<1>5. m \in T
  <2>1. m \in 0..m
    BY <1>1
  <2> HIDE DEF T
  <2> QED
    BY <1>1, <1>3, <1>4, <2>1, UpTo, Zenon
<1>6. PICK d \in Nat : d = Levenshtein(a, b) /\ DistOf(a, m, b, n, d)
  <2>1. row[m] \in [1..n + 1 -> Nat] /\ n \in 0..n /\ DistOf(a, m, b, n, row[m][n + 1])
    BY <1>1, <1>5 DEF EditRowOf, n
  <2>2. Last(row[m]) = row[m][n + 1] /\ row[m][n + 1] \in Nat
    BY <1>1, <2>1 DEF Last
  <2> QED
    BY <1>2, <2>1, <2>2
<1> DEFINE C == UNION {{m + n - 2 * k + Differ(a, f, b, g, k) :
                          f \in Rising(k, m), g \in Rising(k, n)} : k \in 0..m}
<1>7. ASSUME NEW c \in C PROVE c \in Int /\ Aligned(a, m, b, n, c)
  <2>1. PICK k \in Nat : \E f \in Rising(k, m), g \in Rising(k, n) :
          c = m + n - 2 * k + Differ(a, f, b, g, k)
    BY <1>1
  <2>2. PICK f \in Rising(k, m), g \in Rising(k, n) : c = m + n - 2 * k + Differ(a, f, b, g, k)
    BY <2>1
  <2>3. PICK e \in Nat : e = Differ(a, f, b, g, k)
    BY DifferFacts
  <2> QED
    BY <1>1, <2>2, <2>3 DEF Aligned
<1>8. d \in C
  <2>1. PICK k \in Nat : \E f \in Rising(k, m), g \in Rising(k, n) :
          d = m + n - 2 * k + Differ(a, f, b, g, k)
    BY <1>6 DEF DistOf, Aligned
  <2>2. PICK f \in Rising(k, m), g \in Rising(k, n) : d = m + n - 2 * k + Differ(a, f, b, g, k)
    BY <2>1
  <2>3. k \in 0..m
    BY <1>1, RisingFits
  <2> QED
    BY <2>2, <2>3
<1> HIDE DEF C
<1>9. \A y \in C : d <= y
  BY <1>6, <1>7 DEF DistOf
<1>10. \A x \in C : (\A y \in C : x <= y) => x = d
  BY <1>7, <1>8, <1>9
<1>11. RefDistance(a, b) = Min(C)
  BY DEF RefDistance, C, m, n
<1> QED
  BY <1>6, <1>8, <1>9, <1>10, <1>11, Zenon DEF Min

SpanRow(b, st, x) ==
  LET row == [j \in 1..Len(b) + 1 |-> IF j > 1 /\ x = b[j - 1] THEN st.row[j - 1] + 1 ELSE 0]
  IN [row |-> row, best |-> Max({st.best} \cup Range(row))]
SpanBase(b) == [row |-> [j \in 1..Len(b) + 1 |-> 0], best |-> 0]

LEMMA GreatestBounded ==
  ASSUME NEW n \in Nat, NEW s, s \subseteq Nat, s # {}, \A x \in s : x <= n
  PROVE  Max(s) \in s /\ \A y \in s : y <= Max(s)
<1> DEFINE T == {n - x : x \in s}
<1>1. T \subseteq Nat /\ T # {}
  <2>1. \A x \in s : n - x \in Nat
    OBVIOUS
  <2> QED
    BY <2>1
<1>2. PICK t \in T : \A u \in T : t <= u
  <2> HIDE DEF T
  <2> QED
    BY <1>1, LeastIsLeast, Zenon
<1>3. PICK x \in s : t = n - x
  OBVIOUS
<1>4. \A y \in s : x >= y
  <2> SUFFICES ASSUME NEW y \in s PROVE x >= y
    OBVIOUS
  <2>1. n - x <= n - y
    BY <1>2, <1>3
  <2> QED
    BY <2>1
<1>5. Max(s) \in s /\ \A y \in s : Max(s) >= y
  BY <1>4, Zenon DEF Max
<1>6. PICK m \in s : m = Max(s)
  BY <1>5, Zenon
<1>7. \A y \in s : m >= y
  BY <1>5, <1>6, Zenon
<1>8. \A y \in s : y <= m
  BY <1>7
<1> QED
  BY <1>6, <1>8, Zenon

(* The rows and the best run so far.                                       *)
SpansOf(a, b, st) ==
  /\ st[0] = SpanBase(b)
  /\ \A i \in 1..Len(a) : st[i] = SpanRow(b, st[i - 1], a[i])
  /\ LongestCommonSpan(a, b) = st[Len(a)].best

LEMMA SpanRows ==
  ASSUME NEW a, IsList(a), NEW b
  PROVE  \E st : SpansOf(a, b, st)
<1> DEFINE n == Len(a)
           Step(it, s) == IF s = {} THEN SpanBase(b)
                          ELSE SpanRow(b, it[s \ {Max(s)}], a[Max(s)])
           Good(k) == \E it : \A s \in Small(n, k) : it[s] = Step(it, s)
<1>1. n \in Nat /\ DOMAIN a = 1..n
  BY ListFacts
<1>2. LongestCommonSpan(a, b) =
        (CHOOSE it : it = [s \in SUBSET DOMAIN a |-> Step(it, s)])[DOMAIN a].best
  BY Zenon DEF LongestCommonSpan, SpanBase, SpanRow, FoldLeft, MapThenFoldSet
<1> HIDE DEF n
<1>3. Good(n)
  <2>1. Good(0)
    <3> DEFINE it == [s \in {{}} |-> SpanBase(b)]
    <3>1. \A s \in Small(n, 0) : it[s] = Step(it, s)
      BY <1>1, SmallSets
    <3> QED
      BY <3>1
  <2>2. ASSUME NEW k \in Nat, Good(k) PROVE Good(k + 1)
    <3>1. PICK it : \A s \in Small(n, k) : it[s] = Step(it, s)
      BY <2>2
    <3> DEFINE new == [s \in Small(n, k + 1) |-> Step(it, s)]
    <3>2. Small(n, k) \subseteq Small(n, k + 1)
      BY <1>1, SmallSets
    <3>3. \A s \in Small(n, k) : new[s] = it[s]
      BY <3>1, <3>2
    <3>4. ASSUME NEW s \in Small(n, k + 1) PROVE new[s] = Step(new, s)
      <4>1. s # {} => s \ {Max(s)} \in Small(n, k)
        BY <1>1, SmallSets
      <4>2. s # {} => new[s \ {Max(s)}] = it[s \ {Max(s)}]
        BY <3>3, <4>1
      <4>3. new[s] = Step(it, s)
        OBVIOUS
      <4> HIDE DEF new
      <4> QED
        BY <4>2, <4>3
    <3> QED
      BY <3>4
  <2> DEFINE T == {k \in 0..n : Good(k)}
  <2> HIDE DEF Good
  <2>3. 0 \in T /\ n \in 0..n /\ \A k \in Nat : k < n /\ k \in T => k + 1 \in T
    BY <1>1, <2>1, <2>2
  <2>4. n \in T
    <3> HIDE DEF T
    <3> QED
      BY <1>1, <2>3, UpTo, Zenon
  <2> QED
    BY <2>4
<1>4. PICK it : /\ it = [s \in SUBSET DOMAIN a |-> Step(it, s)]
                /\ LongestCommonSpan(a, b) = it[DOMAIN a].best
  <2>1. PICK g : \A s \in Small(n, n) : g[s] = Step(g, s)
    BY <1>3
  <2> DEFINE it == [s \in SUBSET DOMAIN a |-> g[s]]
  <2>2. it = [s \in SUBSET DOMAIN a |-> Step(it, s)]
    BY <1>1, <2>1, SmallSets
  <2> HIDE DEF it, Step
  <2> QED
    BY <1>2, <2>2, Zenon
<1> DEFINE st == [i \in 0..n |-> it[1..i]]
<1>5. st[0] = SpanBase(b)
  BY <1>1, <1>4
<1>6. ASSUME NEW i \in 1..n PROVE st[i] = SpanRow(b, st[i - 1], a[i])
  <2>1. /\ 1..i \in SUBSET DOMAIN a /\ 1..i # {} /\ Max(1..i) = i
        /\ (1..i) \ {Max(1..i)} = 1..(i - 1)
    BY <1>1, InitialSegments, Zenon
  <2>2. it[1..i] = SpanRow(b, it[1..(i - 1)], a[i])
    BY <1>4, <2>1
  <2>3. i \in 0..n /\ i - 1 \in 0..n
    BY <1>1
  <2> QED
    BY <2>2, <2>3
<1>7. LongestCommonSpan(a, b) = st[n].best
  BY <1>1, <1>4
<1> HIDE DEF st
<1> QED
  BY <1>5, <1>6, <1>7 DEF n, SpansOf

-----------------------------------------------------------------------------
(* LongestCommonSpan.                                                      *)

(* The k elements of a up to i are those of b up to j.                     *)
CommonRun(a, i, b, j, k) ==
  k <= i /\ k <= j /\ \A n \in 0..k - 1 : a[i - n] = b[j - n]
EndsHere(a, i, b, j, k) ==
  k \in Nat /\ CommonRun(a, i, b, j, k) /\ ~CommonRun(a, i, b, j, k + 1)

LEMMA CommonRunFacts ==
  ASSUME NEW a, NEW b, NEW i \in Nat, NEW j \in Nat, NEW k \in Nat
  PROVE  /\ CommonRun(a, i, b, j, 0) /\ ~CommonRun(a, 0, b, j, k + 1) /\ ~CommonRun(a, i, b, 0, k + 1)
         /\ CommonRun(a, i, b, j, k) => k <= i /\ k <= j
         /\ \A l \in 0..k : CommonRun(a, i, b, j, k) => CommonRun(a, i, b, j, l)
         /\ CommonRun(a, i + 1, b, j + 1, k + 1)
              <=> a[i + 1] = b[j + 1] /\ CommonRun(a, i, b, j, k)
<1>1. CommonRun(a, i, b, j, 0) /\ ~CommonRun(a, 0, b, j, k + 1) /\ ~CommonRun(a, i, b, 0, k + 1)
  BY DEF CommonRun
<1>2. ASSUME NEW l \in 0..k, CommonRun(a, i, b, j, k) PROVE CommonRun(a, i, b, j, l)
  <2>1. \A n \in 0..l - 1 : n \in 0..k - 1
    OBVIOUS
  <2> QED
    BY <1>2, <2>1 DEF CommonRun
<1>3. ASSUME CommonRun(a, i + 1, b, j + 1, k + 1)
      PROVE  a[i + 1] = b[j + 1] /\ CommonRun(a, i, b, j, k)
  <2>1. \A n \in 0..(k + 1) - 1 : a[(i + 1) - n] = b[(j + 1) - n]
    BY <1>3 DEF CommonRun
  <2>2. 0 \in 0..(k + 1) - 1 /\ (i + 1) - 0 = i + 1 /\ (j + 1) - 0 = j + 1
    OBVIOUS
  <2>3. a[i + 1] = b[j + 1]
    BY <2>1, <2>2
  <2>4. ASSUME NEW n \in 0..k - 1 PROVE a[i - n] = b[j - n]
    <3>1. n + 1 \in 0..(k + 1) - 1 /\ (i + 1) - (n + 1) = i - n /\ (j + 1) - (n + 1) = j - n
      OBVIOUS
    <3> QED
      BY <2>1, <3>1
  <2>5. k <= i /\ k <= j
    BY <1>3 DEF CommonRun
  <2> QED
    BY <2>3, <2>4, <2>5 DEF CommonRun
<1>4. ASSUME a[i + 1] = b[j + 1], CommonRun(a, i, b, j, k)
      PROVE  CommonRun(a, i + 1, b, j + 1, k + 1)
  <2>1. \A n \in 0..k - 1 : a[i - n] = b[j - n]
    BY <1>4 DEF CommonRun
  <2>2. ASSUME NEW n \in 0..(k + 1) - 1 PROVE a[(i + 1) - n] = b[(j + 1) - n]
    <3>1. CASE n = 0
      BY <1>4, <3>1
    <3>2. CASE n # 0
      <4>1. PICK p \in 0..k - 1 : p = n - 1
        <5>1. n - 1 \in 0..k - 1
          BY <3>2
        <5> QED
          BY <5>1, Zenon
      <4>2. (i + 1) - n = i - p /\ (j + 1) - n = j - p
        BY <4>1
      <4>3. a[i - p] = b[j - p]
        BY <2>1
      <4> QED
        BY <4>2, <4>3
    <3> QED
      BY <3>1, <3>2
  <2>3. k + 1 <= i + 1 /\ k + 1 <= j + 1
    BY <1>4 DEF CommonRun
  <2> QED
    BY <2>2, <2>3 DEF CommonRun
<1> QED
  BY <1>1, <1>2, <1>3, <1>4 DEF CommonRun

(* Some common run is this long, and none is longer.                       *)
SpanOf(a, i, b, j, k) ==
  /\ k \in Nat
  /\ \E p \in 0..i, q \in 0..j : CommonRun(a, p, b, q, k)
  /\ \A p \in 0..i, q \in 0..j : ~CommonRun(a, p, b, q, k + 1)

SpanStOf(a, i, b, st) ==
  /\ st = [row |-> st.row, best |-> st.best]
  /\ st.row \in [1..Len(b) + 1 -> Nat]
  /\ \A j \in 0..Len(b) : EndsHere(a, i, b, j, st.row[j + 1])
  /\ SpanOf(a, i, b, Len(b), st.best)

LEMMA EndsNext ==
  ASSUME NEW a, NEW b, NEW i \in Nat, NEW j \in Nat, NEW k \in Nat, EndsHere(a, i, b, j, k)
  PROVE  EndsHere(a, i + 1, b, j + 1, IF a[i + 1] = b[j + 1] THEN k + 1 ELSE 0)
<1>1. CASE a[i + 1] = b[j + 1]
  <2>1. CommonRun(a, i + 1, b, j + 1, k + 1)
    BY <1>1, CommonRunFacts DEF EndsHere
  <2>2. PICK l \in Nat : l = k + 1
    OBVIOUS
  <2>3. ~CommonRun(a, i + 1, b, j + 1, l + 1)
    BY <2>2, CommonRunFacts DEF EndsHere
  <2> QED
    BY <1>1, <2>1, <2>2, <2>3 DEF EndsHere
<1>2. CASE a[i + 1] # b[j + 1]
  <2>1. PICK w \in Nat : w = i + 1
    OBVIOUS
  <2>2. PICK z \in Nat : z = j + 1
    OBVIOUS
  <2>3. CommonRun(a, w, b, z, 0)
    BY CommonRunFacts
  <2>4. ~CommonRun(a, i + 1, b, j + 1, 0 + 1)
    <3> 0 \in Nat
      OBVIOUS
    <3> QED
      BY <1>2, CommonRunFacts
  <2> QED
    BY <1>2, <2>1, <2>2, <2>3, <2>4 DEF EndsHere
<1> QED
  BY <1>1, <1>2

LEMMA EndsEdge ==
  ASSUME NEW a, NEW b, NEW i \in Nat
  PROVE  EndsHere(a, i, b, 0, 0) /\ EndsHere(a, 0, b, i, 0)
<1>1. 0 \in Nat
  OBVIOUS
<1>2. CommonRun(a, i, b, 0, 0) /\ CommonRun(a, 0, b, i, 0)
  BY <1>1, CommonRunFacts
<1>3. ~CommonRun(a, i, b, 0, 0 + 1) /\ ~CommonRun(a, 0, b, i, 0 + 1)
  BY <1>1, CommonRunFacts
<1> QED
  BY <1>2, <1>3 DEF EndsHere

LEMMA SpanStNext ==
  ASSUME NEW a, NEW b, IsList(b), NEW i \in Nat, NEW st, SpanStOf(a, i, b, st)
  PROVE  SpanStOf(a, i + 1, b, SpanRow(b, st, a[i + 1]))
<1> DEFINE n == Len(b)
           row == [j \in 1..n + 1 |-> IF j > 1 /\ a[i + 1] = b[j - 1] THEN st.row[j - 1] + 1 ELSE 0]
           m == Max({st.best} \cup Range(row))
<1>1. n \in Nat
  BY ListFacts
<1>2. SpanRow(b, st, a[i + 1]) = [row |-> row, best |-> m]
  BY DEF SpanRow
<1> HIDE DEF n
<1>3. /\ st.row \in [1..n + 1 -> Nat] /\ \A j \in 0..n : EndsHere(a, i, b, j, st.row[j + 1])
      /\ SpanOf(a, i, b, n, st.best) /\ st.best \in Nat
  <2>1. SpanOf(a, i, b, n, st.best)
    BY DEF SpanStOf, n
  <2>2. st.best \in Nat
    BY <2>1 DEF SpanOf
  <2> QED
    BY <2>1, <2>2, Zenon DEF SpanStOf, n
<1>4. row \in [1..n + 1 -> Nat]
  <2>1. ASSUME NEW j \in 1..n + 1, j > 1 PROVE st.row[j - 1] \in Nat
    <3>1. j - 1 \in 1..n + 1
      BY <1>1, <2>1
    <3> QED
      BY <1>3, <3>1
  <2> QED
    BY <2>1
<1>5. ASSUME NEW j \in 0..n PROVE EndsHere(a, i + 1, b, j, row[j + 1])
  <2>1. CASE j = 0
    <3>1. row[j + 1] = 0
      BY <1>1, <2>1
    <3>2. i + 1 \in Nat
      OBVIOUS
    <3> QED
      BY <2>1, <3>1, <3>2, EndsEdge
  <2>2. CASE j # 0
    <3>1. PICK p \in Nat : p = j - 1 /\ j = p + 1 /\ p \in 0..n
      <4>1. j - 1 \in Nat /\ j = (j - 1) + 1 /\ j - 1 \in 0..n
        BY <1>1, <2>2
      <4> QED
        BY <4>1, Zenon
    <3>2. PICK k \in Nat : k = st.row[p + 1]
      <4>1. p + 1 \in 1..n + 1
        BY <1>1, <3>1
      <4> QED
        BY <1>3, <4>1
    <3>3. EndsHere(a, i, b, p, k)
      BY <1>3, <3>1, <3>2
    <3>4. row[j + 1] = IF a[i + 1] = b[p + 1] THEN k + 1 ELSE 0
      <4>1. j + 1 \in 1..(n + 1) /\ j + 1 > 1 /\ (j + 1) - 1 = p + 1
        BY <1>1, <2>2, <3>1
      <4> QED
        BY <3>2, <4>1
    <3> HIDE DEF row
    <3> QED
      BY <3>1, <3>3, <3>4, EndsNext
  <2> QED
    BY <2>1, <2>2
<1> DEFINE S == {st.best} \cup Range(row)
<1>6. ASSUME NEW v \in S PROVE \E p \in 0..i + 1, q \in 0..n : CommonRun(a, p, b, q, v)
  <2>1. CASE v = st.best
    <3>1. PICK p \in 0..i, q \in 0..n : CommonRun(a, p, b, q, st.best)
      BY <1>3 DEF SpanOf
    <3>2. p \in 0..i + 1
      OBVIOUS
    <3> QED
      BY <2>1, <3>1, <3>2
  <2>2. CASE v # st.best
    <3>1. PICK h \in 1..n + 1 : v = row[h]
      BY <1>4, <2>2 DEF Range
    <3>2. PICK q \in 0..n : h = q + 1
      <4>1. h - 1 \in 0..n /\ h = (h - 1) + 1
        BY <1>1
      <4> QED
        BY <4>1, Zenon
    <3>3. CommonRun(a, i + 1, b, q, v)
      BY <1>5, <3>1, <3>2 DEF EndsHere
    <3>4. i + 1 \in 0..i + 1
      OBVIOUS
    <3> QED
      BY <3>3, <3>4
  <2> QED
    BY <2>1, <2>2
<1>7. S \subseteq Nat /\ S # {} /\ st.best \in S
  BY <1>3, <1>4 DEF Range
<1>8. \A v \in S : v <= i + 1
  <2> SUFFICES ASSUME NEW v \in S PROVE v <= i + 1
    OBVIOUS
  <2>1. PICK p \in 0..i + 1, q \in 0..n : CommonRun(a, p, b, q, v)
    BY <1>6
  <2>2. v \in Nat /\ v <= p
    BY <1>7, <2>1 DEF CommonRun
  <2> QED
    BY <2>2
<1>9. m \in S /\ \A y \in S : y <= m
  <2>1. i + 1 \in Nat
    OBVIOUS
  <2> HIDE DEF S
  <2> QED
    BY <1>7, <1>8, <2>1, GreatestBounded DEF S
<1> HIDE DEF m
<1>10. ASSUME NEW p \in 0..i + 1, NEW q \in 0..n PROVE ~CommonRun(a, p, b, q, m + 1)
  <2>1. p \in Nat /\ q \in Nat /\ m \in Nat
    <3>1. m \in Nat
      <4> HIDE DEF S
      <4> QED
        BY <1>7, <1>9
    <3> QED
      BY <1>1, <3>1
  <2>2. PICK k \in Nat : k = m + 1
    BY <2>1
  <2>3. ASSUME NEW v \in S, ~CommonRun(a, p, b, q, v + 1) PROVE ~CommonRun(a, p, b, q, k)
    <3>1. v \in Nat /\ v + 1 \in 0..k
      BY <1>7, <1>9, <2>1, <2>2
    <3>2. PICK l \in 0..k : l = v + 1
      BY <3>1, Zenon
    <3> QED
      BY <2>1, <2>3, <3>2, CommonRunFacts
  <2>4. CASE p \in 0..i
    <3>1. ~CommonRun(a, p, b, q, st.best + 1)
      BY <1>3, <2>4 DEF SpanOf
    <3> QED
      BY <1>7, <2>2, <2>3, <3>1
  <2>5. CASE p = i + 1
    <3> HIDE DEF row
    <3>1. q + 1 \in 1..(n + 1)
      BY <1>1
    <3>2. EndsHere(a, i + 1, b, q, row[q + 1])
      BY <1>5, Zenon
    <3>3. row[q + 1] \in S
      BY <1>4, <3>1 DEF Range
    <3> QED
      BY <2>2, <2>3, <2>5, <3>2, <3>3 DEF EndsHere
  <2>6. p \in 0..i \/ p = i + 1
    OBVIOUS
  <2> QED
    BY <2>4, <2>5, <2>6
<1>11. SpanOf(a, i + 1, b, n, m)
  BY <1>6, <1>7, <1>9, <1>10 DEF SpanOf
<1>12. SpanStOf(a, i + 1, b, [row |-> row, best |-> m])
  BY <1>4, <1>5, <1>11 DEF SpanStOf, n
<1> QED
  BY <1>2, <1>12 DEF m

LEMMA SubSeqFacts ==
  ASSUME NEW R, NEW a \in Seq(R), NEW p \in 0..Len(a), NEW i \in 0..Len(a), p <= i
  PROVE  /\ SubSeq(a, p + 1, i) \in Seq(R) /\ Len(SubSeq(a, p + 1, i)) = i - p
         /\ \A n \in 1..(i - p) : SubSeq(a, p + 1, i)[n] = a[p + n]
<1>1. Len(a) \in Nat
  OBVIOUS
<1>2. CASE p = i
  BY <1>1, <1>2
<1>3. CASE p < i
  BY <1>1, <1>3
<1> QED
  BY <1>2, <1>3

(* A run of b in a is one ending somewhere in both.                        *)
LEMMA CommonRunIsSubSeq ==
  ASSUME NEW a, IsList(a), NEW b, IsList(b),
         NEW i \in 0..Len(a), NEW j \in 0..Len(b), NEW k \in Nat, CommonRun(a, i, b, j, k)
  PROVE  \E s \in SubSeqs(a) \cap SubSeqs(b) : Len(s) = k
<1>1. a \in Seq(Range(a)) /\ b \in Seq(Range(b))
  BY DEF IsList
<1>2. k <= i /\ k <= j /\ Len(a) \in Nat /\ Len(b) \in Nat
  BY ListFacts DEF CommonRun
<1>3. PICK p \in 0..Len(a) : p = i - k
  <2>1. i - k \in 0..Len(a)
    BY <1>2
  <2> QED
    BY <2>1, Zenon
<1>4. PICK q \in 0..Len(b) : q = j - k
  <2>1. j - k \in 0..Len(b)
    BY <1>2
  <2> QED
    BY <2>1, Zenon
<1> DEFINE s == SubSeq(a, p + 1, i)
           t == SubSeq(b, q + 1, j)
<1>5. /\ s \in Seq(Range(a)) /\ Len(s) = k /\ \A n \in 1..k : s[n] = a[p + n]
      /\ t \in Seq(Range(b)) /\ Len(t) = k /\ \A n \in 1..k : t[n] = b[q + n]
  <2>1. p <= i /\ i - p = k /\ q <= j /\ j - q = k
    BY <1>2, <1>3, <1>4
  <2>2. s \in Seq(Range(a)) /\ Len(s) = i - p /\ \A n \in 1..(i - p) : s[n] = a[p + n]
    BY <1>1, <2>1, SubSeqFacts
  <2>3. t \in Seq(Range(b)) /\ Len(t) = j - q /\ \A n \in 1..(j - q) : t[n] = b[q + n]
    BY <1>1, <2>1, SubSeqFacts
  <2> QED
    BY <2>1, <2>2, <2>3
<1>6. \A n \in 1..k : a[p + n] = b[q + n]
  <2> SUFFICES ASSUME NEW n \in 1..k PROVE a[p + n] = b[q + n]
    OBVIOUS
  <2>1. PICK h \in 0..k - 1 : h = k - n
    <3>1. k - n \in 0..k - 1
      OBVIOUS
    <3> QED
      BY <3>1, Zenon
  <2>2. i - h = p + n /\ j - h = q + n
    BY <1>2, <1>3, <1>4, <2>1
  <2>3. a[i - h] = b[j - h]
    BY DEF CommonRun
  <2> QED
    BY <2>2, <2>3
<1>7. s \in SubSeqs(a) /\ t \in SubSeqs(b)
  BY DEF SubSeqs
<1> HIDE DEF s, t
<1>8. s = t
  <2>1. s \in [1..k -> Range(a)] /\ t \in [1..k -> Range(b)]
    BY <1>5
  <2>2. \A n \in 1..k : s[n] = t[n]
    BY <1>5, <1>6
  <2> QED
    BY <2>1, <2>2
<1> QED
  BY <1>5, <1>7, <1>8

LEMMA SubSeqIsCommonRun ==
  ASSUME NEW a, IsList(a), NEW b, IsList(b), NEW s \in SubSeqs(a) \cap SubSeqs(b)
  PROVE  /\ Len(s) \in Nat
         /\ \E i \in 0..Len(a), j \in 0..Len(b) : CommonRun(a, i, b, j, Len(s))
<1>1. a \in Seq(Range(a)) /\ b \in Seq(Range(b)) /\ Len(a) \in Nat /\ Len(b) \in Nat
  BY ListFacts DEF IsList
<1>2. PICK p, i \in 0..Len(a) : s = SubSeq(a, p + 1, i)
  BY DEF SubSeqs
<1>3. PICK q, j \in 0..Len(b) : s = SubSeq(b, q + 1, j)
  BY DEF SubSeqs
<1>4. Len(s) = IF p < i THEN i - p ELSE 0
  BY <1>1, <1>2
<1>5. Len(s) = IF q < j THEN j - q ELSE 0
  BY <1>1, <1>3
<1>6. PICK k \in Nat : k = Len(s)
  <2>1. Len(s) \in Nat
    BY <1>1, <1>4
  <2> QED
    BY <2>1
<1>7. CASE k = 0
  <2>1. CommonRun(a, i, b, j, k)
    BY <1>1, <1>7 DEF CommonRun
  <2> QED
    BY <1>6, <2>1
<1>8. CASE k # 0
  <2>1. p < i /\ q < j /\ k = i - p /\ k = j - q
    BY <1>4, <1>5, <1>6, <1>8
  <2>2. \A n \in 1..k : s[n] = a[p + n] /\ s[n] = b[q + n]
    <3>1. \A n \in 1..k : s[n] = a[p + n]
      BY <1>1, <1>2, <2>1
    <3>2. \A n \in 1..k : s[n] = b[q + n]
      BY <1>1, <1>3, <2>1
    <3> QED
      BY <3>1, <3>2
  <2>3. ASSUME NEW h \in 0..k - 1 PROVE a[i - h] = b[j - h]
    <3>1. PICK n \in 1..k : n = k - h
      <4>1. k - h \in 1..k
        OBVIOUS
      <4> QED
        BY <4>1, Zenon
    <3>2. i - h = p + n /\ j - h = q + n
      BY <2>1, <3>1
    <3> QED
      BY <2>2, <3>2
  <2>4. CommonRun(a, i, b, j, k)
    BY <2>1, <2>3 DEF CommonRun
  <2> QED
    BY <1>6, <2>4
<1> QED
  BY <1>6, <1>7, <1>8

(* The best of the rows is the length of the longest common run.           *)
LEMMA SpanIsExact ==
  ASSUME NEW a, IsList(a), NEW b, IsList(b)
  PROVE  LongestCommonSpan(a, b) = RefSpan(a, b)
<1>1. Len(a) \in Nat /\ Len(b) \in Nat
  BY ListFacts
<1>2. PICK st : SpansOf(a, b, st)
  BY SpanRows, Zenon
<1> DEFINE m == Len(a)
           T == {i \in 0..m : SpanStOf(a, i, b, st[i])}
<1>3. 0 \in T
  <2>1. st[0] = SpanBase(b)
    BY <1>2 DEF SpansOf
  <2>2. SpanBase(b).row \in [1..Len(b) + 1 -> Nat] /\ \A j \in 0..Len(b) : SpanBase(b).row[j + 1] = 0
    BY <1>1 DEF SpanBase
  <2>3. \A j \in 0..Len(b) : EndsHere(a, 0, b, j, SpanBase(b).row[j + 1])
    BY <1>1, <2>2, EndsEdge
  <2>4. SpanOf(a, 0, b, Len(b), 0)
    <3>1. ASSUME NEW q \in 0..Len(b) PROVE CommonRun(a, 0, b, q, 0) /\ ~CommonRun(a, 0, b, q, 0 + 1)
      BY <1>1, EndsEdge DEF EndsHere
    <3>2. 0 \in 0..Len(b) /\ 0 \in 0..0 /\ \A p \in 0..0 : p = 0
      BY <1>1
    <3> QED
      BY <3>1, <3>2 DEF SpanOf
  <2>5. SpanStOf(a, 0, b, SpanBase(b))
    BY <2>2, <2>3, <2>4 DEF SpanStOf, SpanBase
  <2> QED
    BY <1>1, <2>1, <2>5
<1>4. ASSUME NEW i \in Nat, i < m, i \in T PROVE i + 1 \in T
  <2>1. i + 1 \in 0..m /\ i + 1 \in 1..m /\ (i + 1) - 1 = i
    BY <1>1, <1>4
  <2>2. st[i + 1] = SpanRow(b, st[i], a[i + 1])
    BY <1>2, <2>1 DEF SpansOf
  <2> QED
    BY <1>4, <2>1, <2>2, SpanStNext
<1> HIDE DEF m
<1>5. m \in T
  <2>1. m \in 0..m
    BY <1>1 DEF m
  <2> HIDE DEF T
  <2> QED
    BY <1>1, <1>3, <1>4, <2>1, UpTo, Zenon DEF m
<1>6. PICK k \in Nat : k = LongestCommonSpan(a, b) /\ SpanOf(a, m, b, Len(b), k)
  <2>1. LongestCommonSpan(a, b) = st[m].best
    BY <1>2, Zenon DEF SpansOf, m
  <2>2. SpanOf(a, m, b, Len(b), st[m].best)
    BY <1>5 DEF SpanStOf
  <2>3. st[m].best \in Nat
    BY <2>2 DEF SpanOf
  <2> QED
    BY <2>1, <2>2, <2>3
<1> DEFINE S == SubSeqs(a) \cap SubSeqs(b)
           C == {Len(s) : s \in S}
<1>7. k \in C
  <2>1. PICK p \in 0..m, q \in 0..Len(b) : CommonRun(a, p, b, q, k)
    BY <1>6 DEF SpanOf
  <2>2. \E s \in S : Len(s) = k
    BY <2>1, CommonRunIsSubSeq DEF m
  <2> QED
    BY <2>2
<1>8. ASSUME NEW s \in S PROVE k >= Len(s)
  <2>1. PICK i \in 0..m, j \in 0..Len(b) : CommonRun(a, i, b, j, Len(s))
    BY SubSeqIsCommonRun DEF m
  <2>2. PICK l \in Nat : l = Len(s)
    BY SubSeqIsCommonRun
  <2>3. ~CommonRun(a, i, b, j, k + 1)
    BY <1>6 DEF SpanOf
  <2>4. ASSUME ~(k >= l) PROVE FALSE
    <3>1. k + 1 \in 0..l /\ i \in Nat /\ j \in Nat
      BY <1>1, <2>4 DEF m
    <3>2. PICK h \in 0..l : h = k + 1
      BY <3>1, Zenon
    <3>3. CommonRun(a, i, b, j, h)
      BY <2>1, <2>2, <3>1, CommonRunFacts
    <3> QED
      BY <2>3, <3>2, <3>3
  <2> QED
    BY <2>2, <2>4
<1>9. \A x \in C : (\A y \in C : x >= y) => x = k
  <2>1. \A x \in C : x \in Nat /\ k >= x
    BY <1>8, SubSeqIsCommonRun
  <2> HIDE DEF C
  <2> QED
    BY <1>7, <2>1
<1>10. \A y \in C : k >= y
  BY <1>8
<1>11. RefSpan(a, b) = Max(C)
  BY Zenon DEF RefSpan
<1> HIDE DEF C
<1> QED
  BY <1>6, <1>7, <1>9, <1>10, <1>11, Zenon DEF Max

-----------------------------------------------------------------------------
(* Bags of runs.                                                           *)

(* What adds the copies of each element adds up to the size of the bag.    *)
LEMMA SizeOfBag ==
  ASSUME NEW B, IsFiniteSet(DOMAIN B), NEW total, total[{}] = 0,
         \A s \in SUBSET DOMAIN B : \A x \in s : total[s] = B[x] + total[s \ {x}]
  PROVE  BagCardinality(B) = total[DOMAIN B]
<1> DEFINE S == DOMAIN B
           Body(D, s) == IF s = {} THEN 0
                         ELSE B[CHOOSE e \in s : TRUE] + D[s \ {CHOOSE e \in s : TRUE}]
<1>1. BagCardinality(B) = (CHOOSE D : D = [s \in SUBSET S |-> Body(D, s)])[S]
  BY Zenon DEF BagCardinality
<1>2. \E D : D = [s \in SUBSET S |-> Body(D, s)]
  <2> DEFINE D == [s \in SUBSET S |-> total[s]]
  <2>1. ASSUME NEW s \in SUBSET S PROVE D[s] = Body(D, s)
    <3>1. CASE s = {}
      BY <3>1
    <3>2. CASE s # {}
      <4>1. PICK x \in s : x = CHOOSE e \in s : TRUE
        BY <3>2, Zenon
      <4>2. total[s] = B[x] + total[s \ {x}] /\ s \ {x} \in SUBSET S
        OBVIOUS
      <4>3. D[s] = B[x] + D[s \ {x}]
        BY <4>2
      <4> HIDE DEF D
      <4> QED
        BY <3>2, <4>1, <4>3, Zenon
    <3> QED
      BY <3>1, <3>2
  <2>2. D = [s \in SUBSET S |-> D[s]]
    OBVIOUS
  <2> HIDE DEF D, Body
  <2>3. D = [s \in SUBSET S |-> Body(D, s)]
    BY <2>1, <2>2
  <2> QED
    BY <2>3, Zenon
<1>3. PICK D : D = [s \in SUBSET S |-> Body(D, s)] /\ BagCardinality(B) = D[S]
  BY <1>1, <1>2, Zenon
<1> DEFINE T == {k \in Nat : \A s \in SUBSET S : IsFiniteSet(s) /\ Cardinality(s) = k => D[s] = total[s]}
<1>4. 0 \in T
  <2>1. ASSUME NEW s \in SUBSET S, IsFiniteSet(s), Cardinality(s) = 0 PROVE D[s] = total[s]
    <3>1. s = {}
      BY <2>1, FS_EmptySet
    <3> QED
      BY <1>3, <3>1
  <2> QED
    BY <2>1
<1>5. ASSUME NEW k \in Nat, k \in T PROVE k + 1 \in T
  <2>1. ASSUME NEW s \in SUBSET S, IsFiniteSet(s), Cardinality(s) = k + 1 PROVE D[s] = total[s]
    <3>1. s # {}
      BY <2>1, FS_EmptySet
    <3>2. PICK x \in s : x = CHOOSE e \in s : TRUE
      BY <3>1, Zenon
    <3>3. D[s] = B[x] + D[s \ {x}]
      BY <1>3, <3>1, <3>2, Zenon
    <3>4. IsFiniteSet(s \ {x}) /\ Cardinality(s \ {x}) = k /\ s \ {x} \in SUBSET S
      <4>1. /\ IsFiniteSet(s \ {x})
            /\ Cardinality(s \ {x}) = IF x \in s THEN Cardinality(s) - 1 ELSE Cardinality(s)
        BY <2>1, FS_RemoveElement
      <4> QED
        BY <2>1, <4>1
    <3>5. D[s \ {x}] = total[s \ {x}]
      BY <1>5, <3>4
    <3>6. total[s] = B[x] + total[s \ {x}]
      OBVIOUS
    <3> QED
      BY <3>3, <3>5, <3>6
  <2> QED
    BY <2>1
<1>6. PICK n \in Nat : n = Cardinality(S)
  BY FS_CardinalityType
<1>7. n \in T
  <2> HIDE DEF T
  <2>1. n \in 0..n /\ \A k \in Nat : k < n /\ k \in T => k + 1 \in T
    BY <1>5
  <2> QED
    BY <1>4, <1>6, <2>1, UpTo, Zenon
<1> QED
  BY <1>3, <1>6, <1>7

(* The bag of a sequence has its length.                                   *)
LEMMA SizeOfSequence ==
  ASSUME NEW l \in Int, NEW q, DOMAIN q = 1..l
  PROVE  BagCardinality(ToBag(q)) = Cardinality(1..l)
<1> DEFINE R == {q[i] : i \in 1..l}
           B == ToBag(q)
           At(s) == {i \in 1..l : q[i] \in s}
           total == [s \in SUBSET R |-> Cardinality(At(s))]
<1>1. IsFiniteSet(1..l)
  BY FS_Interval
<1>2. B = [x \in R |-> Cardinality({i \in 1..l : q[i] = x})]
  BY DEF ToBag, Range
<1>3. IsFiniteSet(R)
  <2>1. q = [i \in DOMAIN q |-> q[i]] \/ TRUE
    OBVIOUS
  <2> DEFINE f == [i \in 1..l |-> q[i]]
  <2>2. f \in Surjection(1..l, R)
    BY DEF Surjection
  <2> QED
    BY <1>1, <2>2, FS_Surjection
<1>4. total[{}] = 0
  <2>1. At({}) = {}
    OBVIOUS
  <2> QED
    BY <2>1, FS_EmptySet
<1>5. ASSUME NEW s \in SUBSET R, NEW x \in s PROVE total[s] = B[x] + total[s \ {x}]
  <2>1. At(s) = At({x}) \cup At(s \ {x}) /\ At({x}) \cap At(s \ {x}) = {}
    OBVIOUS
  <2>2. IsFiniteSet(At({x})) /\ IsFiniteSet(At(s \ {x}))
    BY <1>1, FS_Subset
  <2>3. B[x] = Cardinality(At({x}))
    <3>1. At({x}) = {i \in 1..l : q[i] = x}
      OBVIOUS
    <3> QED
      BY <1>2, <3>1
  <2>4. total[s] = Cardinality(At(s)) /\ total[s \ {x}] = Cardinality(At(s \ {x}))
    OBVIOUS
  <2> HIDE DEF At, B, total
  <2>5. /\ Cardinality(At(s)) = Cardinality(At({x})) + Cardinality(At(s \ {x})) - Cardinality({})
        /\ Cardinality(At({x})) \in Nat /\ Cardinality(At(s \ {x})) \in Nat
        /\ Cardinality({}) = 0
    BY <2>1, <2>2, FS_Union, FS_EmptySet, FS_CardinalityType
  <2> QED
    BY <2>3, <2>4, <2>5
<1>6. At(R) = 1..l /\ total[R] = Cardinality(At(R)) /\ DOMAIN B = R
  BY <1>2
<1> HIDE DEF At, total, B, R
<1>7. BagCardinality(B) = total[R]
  BY <1>3, <1>4, <1>5, <1>6, SizeOfBag
<1> QED
  BY <1>6, <1>7 DEF B

(* The runs of n elements of a list.                                       *)
RunsOf(a, n) == [i \in 1..Len(a) - n + 1 |-> SubSeq(a, i, i + n - 1)]

LEMMA GramsFacts ==
  ASSUME NEW a, IsList(a), NEW n \in Nat \ {0}
  PROVE  /\ Ngrams(a, n) = ToBag(RunsOf(a, n))
         /\ Len(a) - n + 1 \in Int /\ DOMAIN RunsOf(a, n) = 1..Len(a) - n + 1
         /\ Range(RunsOf(a, n)) = Grams(a, n) /\ IsFiniteSet(Grams(a, n))
         /\ \A g \in Grams(a, n) :
              {i \in 1..Len(a) - n + 1 : RunsOf(a, n)[i] = g} = Places(g, a)
<1> DEFINE l == Len(a) - n + 1
           q == [i \in 1..l |-> SubSeq(a, i, i + n - 1)]
<1>1. a \in Seq(Range(a)) /\ Len(a) \in Nat /\ DOMAIN a = 1..Len(a)
  BY ListFacts DEF IsList
<1>2. ASSUME NEW i \in 1..l PROVE q[i] \in SubSeqs(a) /\ Len(q[i]) = n
  <2>1. PICK p \in 0..Len(a) : i = p + 1
    <3>1. i - 1 \in 0..Len(a) /\ i = (i - 1) + 1
      BY <1>1
    <3> QED
      BY <3>1, Zenon
  <2>2. PICK j \in 0..Len(a) : j = i + n - 1
    <3>1. i + n - 1 \in 0..Len(a)
      BY <1>1
    <3> QED
      BY <3>1, Zenon
  <2>3. q[i] = SubSeq(a, p + 1, j)
    BY <2>1, <2>2
  <2>4. p <= j /\ j - p = n
    BY <1>1, <2>1, <2>2
  <2> HIDE DEF q
  <2>5. Len(q[i]) = n
    BY <1>1, <2>3, <2>4, SubSeqFacts
  <2>6. q[i] \in SubSeqs(a)
    BY <2>3 DEF SubSeqs
  <2> QED
    BY <2>5, <2>6
<1>3. ASSUME NEW g \in Grams(a, n) PROVE \E i \in 1..l : q[i] = g
  <2>1. g \in SubSeqs(a) /\ Len(g) = n
    BY DEF Grams
  <2>2. PICK p, j \in 0..Len(a) : g = SubSeq(a, p + 1, j)
    BY <2>1 DEF SubSeqs
  <2>3. Len(g) = IF p < j THEN j - p ELSE 0
    BY <1>1, <2>2
  <2>4. j = p + n
    BY <1>1, <2>1, <2>3
  <2>5. PICK i \in 1..l : i = p + 1
    <3>1. p + 1 \in 1..l
      BY <1>1, <2>4
    <3> QED
      BY <3>1, Zenon
  <2>6. i + n - 1 = j
    BY <2>4, <2>5
  <2> QED
    BY <2>2, <2>5, <2>6
<1>4. Range(q) = Grams(a, n)
  <2>1. \A g : g \in Range(q) <=> \E i \in 1..l : q[i] = g
    BY DEF Range
  <2>2. \A i \in 1..l : q[i] \in Grams(a, n)
    BY <1>2 DEF Grams
  <2> HIDE DEF q, l
  <2> QED
    BY <1>3, <2>1, <2>2
<1>5. ASSUME NEW g \in Grams(a, n) PROVE {i \in 1..l : q[i] = g} = Places(g, a)
  <2>1. Len(g) = n
    BY DEF Grams
  <2>2. \A i \in 1..Len(a) : i \in 1..l <=> i + n - 1 \in 1..Len(a)
    BY <1>1
  <2>3. \A i \in 1..l : i \in 1..Len(a)
    BY <1>1
  <2> QED
    BY <1>1, <2>1, <2>2, <2>3 DEF Places
<1>6. IsFiniteSet(Grams(a, n))
  <2>1. IsFiniteSet(1..l)
    <3>1. l \in Int
      BY <1>1
    <3> QED
      BY <3>1, FS_Interval
  <2>2. q \in Surjection(1..l, Range(q))
    BY DEF Surjection, Range
  <2> HIDE DEF q, l
  <2> QED
    BY <1>4, <2>1, <2>2, FS_Surjection
<1>7. RunsOf(a, n) = q /\ l \in Int /\ DOMAIN q = 1..l
  BY <1>1 DEF RunsOf
<1>8. Ngrams(a, n) = ToBag(RunsOf(a, n))
  BY Zenon DEF Ngrams, RunsOf
<1> HIDE DEF q
<1> QED
  BY <1>4, <1>5, <1>6, <1>7, <1>8

(* The copies of the runs of a: as many as there are places for them.      *)
LEMMA NgramsFacts ==
  ASSUME NEW a, IsList(a), NEW n \in Nat \ {0}
  PROVE  /\ DOMAIN Ngrams(a, n) = Grams(a, n) /\ IsFiniteSet(Grams(a, n))
         /\ \A g \in Grams(a, n) : Ngrams(a, n)[g] = Cardinality(Places(g, a))
         /\ BagCardinality(Ngrams(a, n)) = Max({0, Len(a) - n + 1})
<1> DEFINE l == Len(a) - n + 1
           q == RunsOf(a, n)
<1>1. /\ Ngrams(a, n) = ToBag(q) /\ l \in Int /\ DOMAIN q = 1..l
      /\ Range(q) = Grams(a, n) /\ IsFiniteSet(Grams(a, n))
      /\ \A g \in Grams(a, n) : {i \in 1..l : q[i] = g} = Places(g, a)
  BY GramsFacts
<1> HIDE DEF l, q
<1>2. ToBag(q) = [x \in Range(q) |-> Cardinality({i \in 1..l : q[i] = x})]
  BY <1>1 DEF ToBag
<1>3. \A g \in Grams(a, n) : Ngrams(a, n)[g] = Cardinality(Places(g, a))
  BY <1>1, <1>2
<1>4. BagCardinality(Ngrams(a, n)) = Cardinality(1..l)
  BY <1>1, SizeOfSequence
<1>5. Cardinality(1..l) = Max({0, l})
  <2>1. Cardinality(1..l) = IF 1 > l THEN 0 ELSE l - 1 + 1
    BY <1>1, FS_Interval
  <2>2. Max({0, l}) = IF 0 >= l THEN 0 ELSE l
    <3>1. 0 \in Int
      OBVIOUS
    <3> QED
      BY <1>1, <3>1, MaxOfPair, Zenon
  <2> QED
    BY <1>1, <2>1, <2>2
<1> QED
  BY <1>1, <1>2, <1>3, <1>4, <1>5 DEF l

LEMMA LeastOfPair ==
  ASSUME NEW p \in Nat, NEW q \in Nat
  PROVE  /\ Min({p, q}) \in Nat
         /\ \A k \in Nat : k <= Min({p, q}) <=> k <= p /\ k <= q
<1>1. {p, q} \subseteq Nat /\ {p, q} # {}
  OBVIOUS
<1>2. Min({p, q}) \in {p, q} /\ \A y \in {p, q} : Min({p, q}) <= y
  BY <1>1, LeastIsLeast
<1>3. PICK m \in Nat : m = Min({p, q})
  BY <1>2
<1>4. (m = p \/ m = q) /\ m <= p /\ m <= q
  BY <1>2, <1>3
<1> QED
  BY <1>3, <1>4

(* Numbers from 1 to w, each paired with x.                                *)
LEMMA CountOf ==
  ASSUME NEW x, NEW w \in Nat
  PROVE  IsFiniteSet({x} \X (1..w)) /\ Cardinality({x} \X (1..w)) = w
<1>1. IsFiniteSet({x}) /\ Cardinality({x}) = 1
  BY FS_Singleton
<1>2. IsFiniteSet(1..w) /\ Cardinality(1..w) = w
  BY FS_Interval
<1>3. IsFiniteSet({x} \X (1..w)) /\ Cardinality({x} \X (1..w)) = Cardinality({x}) * Cardinality(1..w)
  BY <1>1, <1>2, FS_Product
<1> QED
  BY <1>1, <1>2, <1>3

(* What two lists have in common, with repetitions.                        *)
LEMMA OverlapIsExact ==
  ASSUME NEW a, IsList(a), NEW b, IsList(b), NEW n \in Nat \ {0}
  PROVE  Overlap(Ngrams(a, n), Ngrams(b, n)) = RefOverlap(a, b, n)
<1> DEFINE A == Ngrams(a, n)
           B == Ngrams(b, n)
           D == Grams(a, n) \cap Grams(b, n)
           w == [g \in D |-> Min({A[g], B[g]})]
           N == Len(a)
           Copies(s) == {p \in s \X (1..N) : p[2] <= w[p[1]]}
           total == [s \in SUBSET D |-> Cardinality(Copies(s))]
<1>1. /\ DOMAIN A = Grams(a, n) /\ DOMAIN B = Grams(b, n)
      /\ \A g \in Grams(a, n) : A[g] = Cardinality(Places(g, a))
      /\ \A g \in Grams(b, n) : B[g] = Cardinality(Places(g, b))
      /\ IsFiniteSet(Grams(a, n)) /\ N \in Nat
  BY NgramsFacts, ListFacts
<1>2. Overlap(A, B) = BagCardinality(w)
  <2>1. BagToSet(A) \cap BagToSet(B) = D
    BY <1>1 DEF BagToSet
  <2> QED
    BY <2>1 DEF Overlap
<1> HIDE DEF A, B
<1>3. /\ \A g : Cardinality(Places(g, a)) \in 0..N
      /\ \A g : Cardinality(Places(g, b)) \in Nat
  <2>1. /\ \A g : Places(g, a) \subseteq 1..N /\ Places(g, b) \subseteq 1..Len(b)
        /\ Len(b) \in Nat
    BY ListFacts DEF Places
  <2>2. /\ IsFiniteSet(1..N) /\ Cardinality(1..N) = N
        /\ IsFiniteSet(1..Len(b))
    <3>1. PICK h \in Nat : h = Len(b)
      BY <2>1
    <3>2. PICK r \in Nat : r = N
      BY <1>1
    <3>3. IsFiniteSet(1..r) /\ Cardinality(1..r) = r /\ IsFiniteSet(1..h)
      BY FS_Interval
    <3> QED
      BY <3>1, <3>2, <3>3
  <2> SUFFICES ASSUME NEW g
               PROVE  Cardinality(Places(g, a)) \in 0..N /\ Cardinality(Places(g, b)) \in Nat
    OBVIOUS
  <2>3. /\ IsFiniteSet(Places(g, a)) /\ Cardinality(Places(g, a)) <= Cardinality(1..N)
        /\ IsFiniteSet(Places(g, b))
    BY <2>1, <2>2, FS_Subset
  <2>4. Cardinality(Places(g, a)) \in Nat /\ Cardinality(Places(g, b)) \in Nat
    BY <2>3, FS_CardinalityType
  <2> QED
    BY <1>1, <2>2, <2>3, <2>4
<1>4. ASSUME NEW g \in D
      PROVE  /\ w[g] \in 0..N
             /\ \A k \in 1..N : k <= w[g] <=> /\ k <= Cardinality(Places(g, a))
                                             /\ k <= Cardinality(Places(g, b))
  <2>1. PICK p \in 0..N : p = Cardinality(Places(g, a))
    BY <1>3
  <2>2. PICK q \in Nat : q = Cardinality(Places(g, b))
    BY <1>3
  <2>3. w[g] = Min({p, q}) /\ p \in Nat
    <3>1. w[g] = Min({A[g], B[g]}) /\ A[g] = p /\ B[g] = q
      BY <1>1, <2>1, <2>2
    <3> HIDE DEF w
    <3>2. p \in Nat
      BY <1>1
    <3> QED
      BY <3>1, <3>2
  <2>4. Min({p, q}) \in Nat /\ \A k \in Nat : k <= Min({p, q}) <=> k <= p /\ k <= q
    BY <2>3, LeastOfPair
  <2> HIDE DEF w
  <2>5. PICK m \in Nat : m = w[g] /\ \A k \in Nat : k <= m <=> k <= p /\ k <= q
    BY <2>3, <2>4
  <2>6. m <= p
    BY <2>5
  <2> QED
    BY <1>1, <2>1, <2>2, <2>5, <2>6
<1> HIDE DEF w
<1>5. DOMAIN w = D /\ IsFiniteSet(D)
  BY <1>1, FS_Subset DEF w
<1>6. total[{}] = 0
  <2>1. Copies({}) = {}
    OBVIOUS
  <2> QED
    BY <2>1, FS_EmptySet
<1>7. ASSUME NEW s \in SUBSET D, NEW x \in s PROVE total[s] = w[x] + total[s \ {x}]
  <2>1. Copies(s) = Copies({x}) \cup Copies(s \ {x}) /\ Copies({x}) \cap Copies(s \ {x}) = {}
    OBVIOUS
  <2>2. PICK m \in 0..N : m = w[x]
    BY <1>4
  <2>3. Copies({x}) = {x} \X (1..m)
    <3>1. \A k \in Nat : k \in 1..N /\ k <= m <=> k \in 1..m
      BY <1>1
    <3> QED
      BY <1>1, <2>2, <3>1
  <2>4. IsFiniteSet(Copies({x})) /\ Cardinality(Copies({x})) = m
    <3>1. m \in Nat
      BY <1>1
    <3> HIDE DEF Copies
    <3>2. IsFiniteSet({x} \X (1..m)) /\ Cardinality({x} \X (1..m)) = m
      BY <3>1, CountOf, Zenon
    <3> QED
      BY <2>3, <3>2, Zenon
  <2>5. IsFiniteSet(Copies(s \ {x}))
    <3>1. IsFiniteSet(s \ {x}) /\ IsFiniteSet(1..N)
      BY <1>1, <1>5, FS_Subset, FS_Interval
    <3>2. IsFiniteSet((s \ {x}) \X (1..N)) /\ Copies(s \ {x}) \subseteq (s \ {x}) \X (1..N)
      BY <3>1, FS_Product
    <3> QED
      BY <3>2, FS_Subset
  <2>6. total[s] = Cardinality(Copies(s)) /\ total[s \ {x}] = Cardinality(Copies(s \ {x}))
    OBVIOUS
  <2> HIDE DEF Copies, total
  <2>7. /\ Cardinality(Copies(s)) = Cardinality(Copies({x})) + Cardinality(Copies(s \ {x})) - Cardinality({})
        /\ Cardinality(Copies(s \ {x})) \in Nat /\ Cardinality({}) = 0
    BY <2>1, <2>4, <2>5, FS_Union, FS_EmptySet, FS_CardinalityType
  <2> QED
    BY <2>2, <2>4, <2>6, <2>7
<1>8. BagCardinality(w) = total[D]
  <2> HIDE DEF total
  <2> QED
    BY <1>5, <1>6, <1>7, SizeOfBag
<1>9. Copies(D) = {p \in Grams(a, n) \X (1..N) : /\ p[2] <= Cardinality(Places(p[1], a))
                                               /\ p[2] <= Cardinality(Places(p[1], b))}
  <2>1. ASSUME NEW g \in Grams(a, n), NEW k \in 1..N, k <= Cardinality(Places(g, b))
        PROVE  g \in Grams(b, n)
    <3>1. Places(g, b) # {}
      <4>1. ~(k <= 0)
        BY <1>1
      <4> QED
        BY <2>1, <4>1, FS_EmptySet
    <3>2. PICK i \in Places(g, b) : TRUE
      BY <3>1
    <3>3. Len(g) = n
      BY DEF Grams
    <3>4. /\ i \in 1..Len(b) /\ i + n - 1 \in 1..Len(b) /\ g = SubSeq(b, i, i + n - 1)
          /\ Len(b) \in Nat
      BY <3>3, ListFacts DEF Places
    <3>5. PICK p \in 0..Len(b) : i = p + 1
      <4>1. i - 1 \in 0..Len(b) /\ i = (i - 1) + 1
        BY <3>4
      <4> QED
        BY <4>1, Zenon
    <3>6. PICK j \in 0..Len(b) : j = i + n - 1
      <4>1. i + n - 1 \in 0..Len(b)
        BY <3>4
      <4> QED
        BY <4>1, Zenon
    <3>7. g = SubSeq(b, p + 1, j)
      BY <3>4, <3>5, <3>6
    <3>8. g \in SubSeqs(b)
      BY <3>7 DEF SubSeqs
    <3> QED
      BY <3>3, <3>8 DEF Grams
  <2>2. ASSUME NEW g \in Grams(a, n), NEW k \in 1..N
        PROVE  (g \in D /\ k <= w[g]) <=> /\ k <= Cardinality(Places(g, a))
                                         /\ k <= Cardinality(Places(g, b))
    BY <1>4, <2>1
  <2> QED
    BY <2>2
<1>10. total[D] = Cardinality(Copies(D))
  OBVIOUS
<1> HIDE DEF Copies, total
<1> QED
  BY <1>2, <1>8, <1>9, <1>10 DEF RefOverlap, A, B

-----------------------------------------------------------------------------
(* Texts.                                                                  *)

Kept(class, kept, c) == IF c \in class THEN kept ELSE Append(kept, c)
JoinedOf(kept, c) ==
  IF kept # <<>> /\ <<Last(kept), c>> \in DOMAIN Composite
  THEN ReplaceAt(kept, Len(kept), Composite[<<Last(kept), c>>]) ELSE Append(kept, c)
Flushed(st) == IF st.word = <<>> THEN st.units ELSE Append(st.units, st.word)
JoinedTo(us, c) == ReplaceAt(us, Len(us), Append(Last(us), c))
ReadOf(st, c) ==
  IF c \in Space THEN [units |-> Flushed(st), word |-> <<>>]
  ELSE IF c \in Marks THEN
    IF st.word # <<>> THEN [st EXCEPT !.word = Append(@, c)]
    ELSE IF st.units # <<>> THEN [st EXCEPT !.units = JoinedTo(@, c)]
    ELSE [st EXCEPT !.units = <<(<<c>>)>>]
  ELSE IF c \in Words THEN [st EXCEPT !.word = Append(@, c)]
  ELSE [units |-> Append(Flushed(st), <<c>>), word |-> <<>>]
Unread == [units |-> <<>>, word |-> <<>>]

(* What is kept, character by character.                                  *)
KeptOf(text, class, kept) ==
  /\ kept[0] = <<>>
  /\ \A i \in 1..Len(text) : kept[i] = Kept(class, kept[i - 1], text[i])
  /\ Without(text, class) = kept[Len(text)]

LEMMA KeptRows ==
  ASSUME NEW text, IsList(text), NEW class
  PROVE  \E kept : KeptOf(text, class, kept)
<1> DEFINE n == Len(text)
           Step(it, s) == IF s = {} THEN <<>>
                          ELSE Kept(class, it[s \ {Max(s)}], text[Max(s)])
           Good(k) == \E it : \A s \in Small(n, k) : it[s] = Step(it, s)
<1>1. n \in Nat /\ DOMAIN text = 1..n
  BY ListFacts
<1>2. Without(text, class) =
        (CHOOSE it : it = [s \in SUBSET DOMAIN text |-> Step(it, s)])[DOMAIN text]
  BY Zenon DEF Without, Kept, FoldLeft, MapThenFoldSet
<1> HIDE DEF n
<1>3. Good(n)
  <2>1. Good(0)
    <3> DEFINE it == [s \in {{}} |-> <<>>]
    <3>1. \A s \in Small(n, 0) : it[s] = Step(it, s)
      BY <1>1, SmallSets
    <3> QED
      BY <3>1
  <2>2. ASSUME NEW k \in Nat, Good(k) PROVE Good(k + 1)
    <3>1. PICK it : \A s \in Small(n, k) : it[s] = Step(it, s)
      BY <2>2
    <3> DEFINE new == [s \in Small(n, k + 1) |-> Step(it, s)]
    <3>2. Small(n, k) \subseteq Small(n, k + 1)
      BY <1>1, SmallSets
    <3>3. \A s \in Small(n, k) : new[s] = it[s]
      BY <3>1, <3>2
    <3>4. ASSUME NEW s \in Small(n, k + 1) PROVE new[s] = Step(new, s)
      <4>1. s # {} => s \ {Max(s)} \in Small(n, k)
        BY <1>1, SmallSets
      <4>2. s # {} => new[s \ {Max(s)}] = it[s \ {Max(s)}]
        BY <3>3, <4>1
      <4>3. new[s] = Step(it, s)
        OBVIOUS
      <4> HIDE DEF new
      <4> QED
        BY <4>2, <4>3
    <3> QED
      BY <3>4
  <2> DEFINE T == {k \in 0..n : Good(k)}
  <2> HIDE DEF Good
  <2>3. 0 \in T /\ n \in 0..n /\ \A k \in Nat : k < n /\ k \in T => k + 1 \in T
    BY <1>1, <2>1, <2>2
  <2>4. n \in T
    <3> HIDE DEF T
    <3> QED
      BY <1>1, <2>3, UpTo, Zenon
  <2> QED
    BY <2>4
<1>4. PICK it : /\ it = [s \in SUBSET DOMAIN text |-> Step(it, s)]
                /\ Without(text, class) = it[DOMAIN text]
  <2>1. PICK g : \A s \in Small(n, n) : g[s] = Step(g, s)
    BY <1>3
  <2> DEFINE it == [s \in SUBSET DOMAIN text |-> g[s]]
  <2>2. it = [s \in SUBSET DOMAIN text |-> Step(it, s)]
    BY <1>1, <2>1, SmallSets
  <2> HIDE DEF it, Step
  <2> QED
    BY <1>2, <2>2, Zenon
<1> DEFINE kept == [i \in 0..n |-> it[1..i]]
<1>5. kept[0] = <<>>
  BY <1>1, <1>4
<1>6. ASSUME NEW i \in 1..n PROVE kept[i] = Kept(class, kept[i - 1], text[i])
  <2>1. /\ 1..i \in SUBSET DOMAIN text /\ 1..i # {} /\ Max(1..i) = i
        /\ (1..i) \ {Max(1..i)} = 1..(i - 1)
    BY <1>1, InitialSegments, Zenon
  <2>2. it[1..i] = Kept(class, it[1..(i - 1)], text[i])
    BY <1>4, <2>1
  <2>3. i \in 0..n /\ i - 1 \in 0..n
    BY <1>1
  <2> QED
    BY <2>2, <2>3
<1>7. Without(text, class) = kept[n]
  BY <1>1, <1>4
<1> HIDE DEF kept
<1> QED
  BY <1>5, <1>6, <1>7 DEF n, KeptOf

(* What is composed, character by character.                              *)
ComposedOf(text, kept) ==
  /\ kept[0] = <<>>
  /\ \A i \in 1..Len(text) : kept[i] = JoinedOf(kept[i - 1], text[i])
  /\ Composed(text) = kept[Len(text)]

LEMMA ComposedRows ==
  ASSUME NEW text, IsList(text)
  PROVE  \E kept : ComposedOf(text, kept)
<1> DEFINE n == Len(text)
           Step(it, s) == IF s = {} THEN <<>>
                          ELSE JoinedOf(it[s \ {Max(s)}], text[Max(s)])
           Good(k) == \E it : \A s \in Small(n, k) : it[s] = Step(it, s)
<1>1. n \in Nat /\ DOMAIN text = 1..n
  BY ListFacts
<1>2. Composed(text) =
        (CHOOSE it : it = [s \in SUBSET DOMAIN text |-> Step(it, s)])[DOMAIN text]
  BY Zenon DEF Composed, JoinedOf, FoldLeft, MapThenFoldSet
<1> HIDE DEF n
<1>3. Good(n)
  <2>1. Good(0)
    <3> DEFINE it == [s \in {{}} |-> <<>>]
    <3>1. \A s \in Small(n, 0) : it[s] = Step(it, s)
      BY <1>1, SmallSets
    <3> QED
      BY <3>1
  <2>2. ASSUME NEW k \in Nat, Good(k) PROVE Good(k + 1)
    <3>1. PICK it : \A s \in Small(n, k) : it[s] = Step(it, s)
      BY <2>2
    <3> DEFINE new == [s \in Small(n, k + 1) |-> Step(it, s)]
    <3>2. Small(n, k) \subseteq Small(n, k + 1)
      BY <1>1, SmallSets
    <3>3. \A s \in Small(n, k) : new[s] = it[s]
      BY <3>1, <3>2
    <3>4. ASSUME NEW s \in Small(n, k + 1) PROVE new[s] = Step(new, s)
      <4>1. s # {} => s \ {Max(s)} \in Small(n, k)
        BY <1>1, SmallSets
      <4>2. s # {} => new[s \ {Max(s)}] = it[s \ {Max(s)}]
        BY <3>3, <4>1
      <4>3. new[s] = Step(it, s)
        OBVIOUS
      <4> HIDE DEF new
      <4> QED
        BY <4>2, <4>3
    <3> QED
      BY <3>4
  <2> DEFINE T == {k \in 0..n : Good(k)}
  <2> HIDE DEF Good
  <2>3. 0 \in T /\ n \in 0..n /\ \A k \in Nat : k < n /\ k \in T => k + 1 \in T
    BY <1>1, <2>1, <2>2
  <2>4. n \in T
    <3> HIDE DEF T
    <3> QED
      BY <1>1, <2>3, UpTo, Zenon
  <2> QED
    BY <2>4
<1>4. PICK it : /\ it = [s \in SUBSET DOMAIN text |-> Step(it, s)]
                /\ Composed(text) = it[DOMAIN text]
  <2>1. PICK g : \A s \in Small(n, n) : g[s] = Step(g, s)
    BY <1>3
  <2> DEFINE it == [s \in SUBSET DOMAIN text |-> g[s]]
  <2>2. it = [s \in SUBSET DOMAIN text |-> Step(it, s)]
    BY <1>1, <2>1, SmallSets
  <2> HIDE DEF it, Step
  <2> QED
    BY <1>2, <2>2, Zenon
<1> DEFINE kept == [i \in 0..n |-> it[1..i]]
<1>5. kept[0] = <<>>
  BY <1>1, <1>4
<1>6. ASSUME NEW i \in 1..n PROVE kept[i] = JoinedOf(kept[i - 1], text[i])
  <2>1. /\ 1..i \in SUBSET DOMAIN text /\ 1..i # {} /\ Max(1..i) = i
        /\ (1..i) \ {Max(1..i)} = 1..(i - 1)
    BY <1>1, InitialSegments, Zenon
  <2>2. it[1..i] = JoinedOf(it[1..(i - 1)], text[i])
    BY <1>4, <2>1
  <2>3. i \in 0..n /\ i - 1 \in 0..n
    BY <1>1
  <2> QED
    BY <2>2, <2>3
<1>7. Composed(text) = kept[n]
  BY <1>1, <1>4
<1> HIDE DEF kept
<1> QED
  BY <1>5, <1>6, <1>7 DEF n, ComposedOf

(* What a text is mapped to.                                              *)
MappedOf(form, text, mapped) ==
  /\ mapped[0] = <<>>
  /\ \A i \in 1..Len(text) : mapped[i] = mapped[i - 1] \o form[text[i]]
  /\ MapText(form, text) = mapped[Len(text)]

LEMMA MappedRows ==
  ASSUME NEW text, IsList(text), NEW form
  PROVE  \E mapped : MappedOf(form, text, mapped)
<1> DEFINE n == Len(text)
           Step(it, s) == IF s = {} THEN <<>>
                          ELSE it[s \ {Max(s)}] \o form[text[Max(s)]]
           Good(k) == \E it : \A s \in Small(n, k) : it[s] = Step(it, s)
<1>1. n \in Nat /\ DOMAIN text = 1..n
  BY ListFacts
<1>2. MapText(form, text) =
        (CHOOSE it : it = [s \in SUBSET DOMAIN text |-> Step(it, s)])[DOMAIN text]
  BY Zenon DEF MapText, FoldLeft, MapThenFoldSet
<1> HIDE DEF n
<1>3. Good(n)
  <2>1. Good(0)
    <3> DEFINE it == [s \in {{}} |-> <<>>]
    <3>1. \A s \in Small(n, 0) : it[s] = Step(it, s)
      BY <1>1, SmallSets
    <3> QED
      BY <3>1
  <2>2. ASSUME NEW k \in Nat, Good(k) PROVE Good(k + 1)
    <3>1. PICK it : \A s \in Small(n, k) : it[s] = Step(it, s)
      BY <2>2
    <3> DEFINE new == [s \in Small(n, k + 1) |-> Step(it, s)]
    <3>2. Small(n, k) \subseteq Small(n, k + 1)
      BY <1>1, SmallSets
    <3>3. \A s \in Small(n, k) : new[s] = it[s]
      BY <3>1, <3>2
    <3>4. ASSUME NEW s \in Small(n, k + 1) PROVE new[s] = Step(new, s)
      <4>1. s # {} => s \ {Max(s)} \in Small(n, k)
        BY <1>1, SmallSets
      <4>2. s # {} => new[s \ {Max(s)}] = it[s \ {Max(s)}]
        BY <3>3, <4>1
      <4>3. new[s] = Step(it, s)
        OBVIOUS
      <4> HIDE DEF new
      <4> QED
        BY <4>2, <4>3
    <3> QED
      BY <3>4
  <2> DEFINE T == {k \in 0..n : Good(k)}
  <2> HIDE DEF Good
  <2>3. 0 \in T /\ n \in 0..n /\ \A k \in Nat : k < n /\ k \in T => k + 1 \in T
    BY <1>1, <2>1, <2>2
  <2>4. n \in T
    <3> HIDE DEF T
    <3> QED
      BY <1>1, <2>3, UpTo, Zenon
  <2> QED
    BY <2>4
<1>4. PICK it : /\ it = [s \in SUBSET DOMAIN text |-> Step(it, s)]
                /\ MapText(form, text) = it[DOMAIN text]
  <2>1. PICK g : \A s \in Small(n, n) : g[s] = Step(g, s)
    BY <1>3
  <2> DEFINE it == [s \in SUBSET DOMAIN text |-> g[s]]
  <2>2. it = [s \in SUBSET DOMAIN text |-> Step(it, s)]
    BY <1>1, <2>1, SmallSets
  <2> HIDE DEF it, Step
  <2> QED
    BY <1>2, <2>2, Zenon
<1> DEFINE mapped == [i \in 0..n |-> it[1..i]]
<1>5. mapped[0] = <<>>
  BY <1>1, <1>4
<1>6. ASSUME NEW i \in 1..n PROVE mapped[i] = mapped[i - 1] \o form[text[i]]
  <2>1. /\ 1..i \in SUBSET DOMAIN text /\ 1..i # {} /\ Max(1..i) = i
        /\ (1..i) \ {Max(1..i)} = 1..(i - 1)
    BY <1>1, InitialSegments, Zenon
  <2>2. it[1..i] = it[1..(i - 1)] \o form[text[i]]
    BY <1>4, <2>1
  <2>3. i \in 0..n /\ i - 1 \in 0..n
    BY <1>1
  <2> QED
    BY <2>2, <2>3
<1>7. MapText(form, text) = mapped[n]
  BY <1>1, <1>4
<1> HIDE DEF mapped
<1> QED
  BY <1>5, <1>6, <1>7 DEF n, MappedOf

(* Units after each other.                                                *)
JoinOf(units, text) ==
  /\ text[0] = <<>>
  /\ \A i \in 1..Len(units) : text[i] = text[i - 1] \o units[i]
  /\ Concatenated(units) = text[Len(units)]

LEMMA JoinRows ==
  ASSUME NEW units, IsList(units)
  PROVE  \E text : JoinOf(units, text)
<1> DEFINE n == Len(units)
           Step(it, s) == IF s = {} THEN <<>>
                          ELSE it[s \ {Max(s)}] \o units[Max(s)]
           Good(k) == \E it : \A s \in Small(n, k) : it[s] = Step(it, s)
<1>1. n \in Nat /\ DOMAIN units = 1..n
  BY ListFacts
<1>2. Concatenated(units) =
        (CHOOSE it : it = [s \in SUBSET DOMAIN units |-> Step(it, s)])[DOMAIN units]
  BY Zenon DEF Concatenated, FoldLeft, MapThenFoldSet
<1> HIDE DEF n
<1>3. Good(n)
  <2>1. Good(0)
    <3> DEFINE it == [s \in {{}} |-> <<>>]
    <3>1. \A s \in Small(n, 0) : it[s] = Step(it, s)
      BY <1>1, SmallSets
    <3> QED
      BY <3>1
  <2>2. ASSUME NEW k \in Nat, Good(k) PROVE Good(k + 1)
    <3>1. PICK it : \A s \in Small(n, k) : it[s] = Step(it, s)
      BY <2>2
    <3> DEFINE new == [s \in Small(n, k + 1) |-> Step(it, s)]
    <3>2. Small(n, k) \subseteq Small(n, k + 1)
      BY <1>1, SmallSets
    <3>3. \A s \in Small(n, k) : new[s] = it[s]
      BY <3>1, <3>2
    <3>4. ASSUME NEW s \in Small(n, k + 1) PROVE new[s] = Step(new, s)
      <4>1. s # {} => s \ {Max(s)} \in Small(n, k)
        BY <1>1, SmallSets
      <4>2. s # {} => new[s \ {Max(s)}] = it[s \ {Max(s)}]
        BY <3>3, <4>1
      <4>3. new[s] = Step(it, s)
        OBVIOUS
      <4> HIDE DEF new
      <4> QED
        BY <4>2, <4>3
    <3> QED
      BY <3>4
  <2> DEFINE T == {k \in 0..n : Good(k)}
  <2> HIDE DEF Good
  <2>3. 0 \in T /\ n \in 0..n /\ \A k \in Nat : k < n /\ k \in T => k + 1 \in T
    BY <1>1, <2>1, <2>2
  <2>4. n \in T
    <3> HIDE DEF T
    <3> QED
      BY <1>1, <2>3, UpTo, Zenon
  <2> QED
    BY <2>4
<1>4. PICK it : /\ it = [s \in SUBSET DOMAIN units |-> Step(it, s)]
                /\ Concatenated(units) = it[DOMAIN units]
  <2>1. PICK g : \A s \in Small(n, n) : g[s] = Step(g, s)
    BY <1>3
  <2> DEFINE it == [s \in SUBSET DOMAIN units |-> g[s]]
  <2>2. it = [s \in SUBSET DOMAIN units |-> Step(it, s)]
    BY <1>1, <2>1, SmallSets
  <2> HIDE DEF it, Step
  <2> QED
    BY <1>2, <2>2, Zenon
<1> DEFINE text == [i \in 0..n |-> it[1..i]]
<1>5. text[0] = <<>>
  BY <1>1, <1>4
<1>6. ASSUME NEW i \in 1..n PROVE text[i] = text[i - 1] \o units[i]
  <2>1. /\ 1..i \in SUBSET DOMAIN units /\ 1..i # {} /\ Max(1..i) = i
        /\ (1..i) \ {Max(1..i)} = 1..(i - 1)
    BY <1>1, InitialSegments, Zenon
  <2>2. it[1..i] = it[1..(i - 1)] \o units[i]
    BY <1>4, <2>1
  <2>3. i \in 0..n /\ i - 1 \in 0..n
    BY <1>1
  <2> QED
    BY <2>2, <2>3
<1>7. Concatenated(units) = text[n]
  BY <1>1, <1>4
<1> HIDE DEF text
<1> QED
  BY <1>5, <1>6, <1>7 DEF n, JoinOf

(* Units read character by character.                                     *)
ReadsOf(text, st) ==
  /\ st[0] = Unread
  /\ \A i \in 1..Len(NormalizeLeakage(text)) : st[i] = ReadOf(st[i - 1], NormalizeLeakage(text)[i])
  /\ LexicalUnits(text) = Flushed(st[Len(NormalizeLeakage(text))])

LEMMA ReadRows ==
  ASSUME NEW text, IsList(NormalizeLeakage(text))
  PROVE  \E st : ReadsOf(text, st)
<1> DEFINE n == Len(NormalizeLeakage(text))
           Step(it, s) == IF s = {} THEN Unread
                          ELSE ReadOf(it[s \ {Max(s)}], NormalizeLeakage(text)[Max(s)])
           Good(k) == \E it : \A s \in Small(n, k) : it[s] = Step(it, s)
<1>1. n \in Nat /\ DOMAIN NormalizeLeakage(text) = 1..n
  BY ListFacts
<1>2. LexicalUnits(text) =
        Flushed((CHOOSE it : it = [s \in SUBSET DOMAIN NormalizeLeakage(text) |-> Step(it, s)])[DOMAIN NormalizeLeakage(text)])
  BY Zenon DEF LexicalUnits, Unread, ReadOf, Flushed, JoinedTo, FoldLeft, MapThenFoldSet
<1> HIDE DEF n
<1>3. Good(n)
  <2>1. Good(0)
    <3> DEFINE it == [s \in {{}} |-> Unread]
    <3>1. \A s \in Small(n, 0) : it[s] = Step(it, s)
      BY <1>1, SmallSets
    <3> QED
      BY <3>1
  <2>2. ASSUME NEW k \in Nat, Good(k) PROVE Good(k + 1)
    <3>1. PICK it : \A s \in Small(n, k) : it[s] = Step(it, s)
      BY <2>2
    <3> DEFINE new == [s \in Small(n, k + 1) |-> Step(it, s)]
    <3>2. Small(n, k) \subseteq Small(n, k + 1)
      BY <1>1, SmallSets
    <3>3. \A s \in Small(n, k) : new[s] = it[s]
      BY <3>1, <3>2
    <3>4. ASSUME NEW s \in Small(n, k + 1) PROVE new[s] = Step(new, s)
      <4>1. s # {} => s \ {Max(s)} \in Small(n, k)
        BY <1>1, SmallSets
      <4>2. s # {} => new[s \ {Max(s)}] = it[s \ {Max(s)}]
        BY <3>3, <4>1
      <4>3. new[s] = Step(it, s)
        OBVIOUS
      <4> HIDE DEF new
      <4> QED
        BY <4>2, <4>3
    <3> QED
      BY <3>4
  <2> DEFINE T == {k \in 0..n : Good(k)}
  <2> HIDE DEF Good
  <2>3. 0 \in T /\ n \in 0..n /\ \A k \in Nat : k < n /\ k \in T => k + 1 \in T
    BY <1>1, <2>1, <2>2
  <2>4. n \in T
    <3> HIDE DEF T
    <3> QED
      BY <1>1, <2>3, UpTo, Zenon
  <2> QED
    BY <2>4
<1>4. PICK it : /\ it = [s \in SUBSET DOMAIN NormalizeLeakage(text) |-> Step(it, s)]
                /\ LexicalUnits(text) = Flushed(it[DOMAIN NormalizeLeakage(text)])
  <2>1. PICK g : \A s \in Small(n, n) : g[s] = Step(g, s)
    BY <1>3
  <2> DEFINE it == [s \in SUBSET DOMAIN NormalizeLeakage(text) |-> g[s]]
  <2>2. it = [s \in SUBSET DOMAIN NormalizeLeakage(text) |-> Step(it, s)]
    BY <1>1, <2>1, SmallSets
  <2> HIDE DEF it, Step
  <2> QED
    BY <1>2, <2>2, Zenon
<1> DEFINE st == [i \in 0..n |-> it[1..i]]
<1>5. st[0] = Unread
  BY <1>1, <1>4
<1>6. ASSUME NEW i \in 1..n PROVE st[i] = ReadOf(st[i - 1], NormalizeLeakage(text)[i])
  <2>1. /\ 1..i \in SUBSET DOMAIN NormalizeLeakage(text) /\ 1..i # {} /\ Max(1..i) = i
        /\ (1..i) \ {Max(1..i)} = 1..(i - 1)
    BY <1>1, InitialSegments, Zenon
  <2>2. it[1..i] = ReadOf(it[1..(i - 1)], NormalizeLeakage(text)[i])
    BY <1>4, <2>1
  <2>3. i \in 0..n /\ i - 1 \in 0..n
    BY <1>1
  <2> QED
    BY <2>2, <2>3
<1>7. LexicalUnits(text) = Flushed(st[n])
  BY <1>1, <1>4
<1> HIDE DEF st
<1> QED
  BY <1>5, <1>6, <1>7 DEF n, ReadsOf

LEMMA SeqIsList ==
  ASSUME NEW S, NEW s \in Seq(S)
  PROVE  IsList(s) /\ Range(s) \subseteq S
<1>1. Len(s) \in Nat /\ DOMAIN s = 1..Len(s) /\ \A i \in 1..Len(s) : s[i] \in S
  OBVIOUS
<1>2. s \in [1..Len(s) -> Range(s)]
  BY <1>1 DEF Range
<1>3. s \in Seq(Range(s))
  BY <1>1, <1>2
<1> QED
  BY <1>1, <1>3 DEF IsList, Range

LEMMA ListIsSeq ==
  ASSUME NEW S, NEW s, IsList(s), Range(s) \subseteq S
  PROVE  s \in Seq(S) /\ \A i \in 1..Len(s) : s[i] \in S
<1>1. s \in Seq(Range(s))
  BY DEF IsList
<1>2. Len(s) \in Nat /\ DOMAIN s = 1..Len(s) /\ \A i \in 1..Len(s) : s[i] \in S
  BY <1>1
<1> QED
  BY <1>1, <1>2

LEMMA WithoutIsSeq ==
  ASSUME NEW S, NEW text \in Seq(S), NEW class
  PROVE  /\ Without(text, class) \in Seq(S)
         /\ \E kept : /\ KeptOf(text, class, kept)
                      /\ \A i \in 0..Len(text) : kept[i] \in Seq(S)
<1>1. IsList(text) /\ Len(text) \in Nat
  BY SeqIsList
<1>2. PICK kept : KeptOf(text, class, kept)
  BY <1>1, KeptRows, Zenon
<1> DEFINE n == Len(text)
           T == {i \in 0..n : kept[i] \in Seq(S)}
<1>3. 0 \in T
  <2>1. <<>> \in Seq(S) /\ 0 \in 0..n
    BY <1>1
  <2>2. kept[0] = <<>>
    BY <1>2 DEF KeptOf
  <2> QED
    BY <2>1, <2>2
<1>4. ASSUME NEW i \in Nat, i < n, i \in T PROVE i + 1 \in T
  <2>1. i + 1 \in 0..n /\ i + 1 \in 1..n /\ (i + 1) - 1 = i
    BY <1>1, <1>4
  <2>2. kept[i + 1] = Kept(class, kept[i], text[i + 1]) /\ text[i + 1] \in S
    BY <1>2, <2>1 DEF KeptOf
  <2>3. PICK k \in Seq(S) : k = kept[i]
    BY <1>4
  <2>4. PICK c \in S : c = text[i + 1]
    BY <2>2
  <2>5. Kept(class, k, c) \in Seq(S)
    BY DEF Kept
  <2> QED
    BY <2>1, <2>2, <2>3, <2>4, <2>5
<1>5. \A i \in 0..n : i \in T
  <2> HIDE DEF T
  <2> QED
    BY <1>1, <1>3, <1>4, UpTo, Zenon
<1>6. n \in 0..n /\ Without(text, class) = kept[n]
  BY <1>1, <1>2 DEF KeptOf
<1> QED
  BY <1>2, <1>5, <1>6

LEMMA ComposedIsSeq ==
  ASSUME NEW S, Range(Composite) \subseteq S, NEW text \in Seq(S)
  PROVE  Composed(text) \in Seq(S)
<1>1. IsList(text) /\ Len(text) \in Nat
  BY SeqIsList
<1>2. PICK kept : ComposedOf(text, kept)
  BY <1>1, ComposedRows, Zenon
<1> DEFINE n == Len(text)
           T == {i \in 0..n : kept[i] \in Seq(S)}
<1>3. 0 \in T
  <2>1. <<>> \in Seq(S) /\ 0 \in 0..n
    BY <1>1
  <2>2. kept[0] = <<>>
    BY <1>2 DEF ComposedOf
  <2> QED
    BY <2>1, <2>2
<1>4. ASSUME NEW i \in Nat, i < n, i \in T PROVE i + 1 \in T
  <2>1. i + 1 \in 0..n /\ i + 1 \in 1..n /\ (i + 1) - 1 = i
    BY <1>1, <1>4
  <2>2. kept[i + 1] = JoinedOf(kept[i], text[i + 1]) /\ text[i + 1] \in S
    BY <1>2, <2>1 DEF ComposedOf
  <2>3. PICK k \in Seq(S) : k = kept[i]
    BY <1>4
  <2>4. PICK c \in S : c = text[i + 1]
    BY <2>2
  <2>5. JoinedOf(k, c) \in Seq(S)
    <3>1. CASE k # <<>> /\ <<Last(k), c>> \in DOMAIN Composite
      <4>1. PICK d \in S : d = Composite[<<Last(k), c>>]
        BY <3>1 DEF Range
      <4>2. JoinedOf(k, c) = [k EXCEPT ![Len(k)] = d]
        BY <3>1, <4>1 DEF JoinedOf, ReplaceAt
      <4>3. k \in [1..Len(k) -> S] /\ Len(k) \in Nat
        OBVIOUS
      <4>4. [k EXCEPT ![Len(k)] = d] \in [1..Len(k) -> S]
        BY <4>3
      <4>5. PICK joined : joined = [k EXCEPT ![Len(k)] = d]
        OBVIOUS
      <4>6. joined \in Seq(S)
        BY <4>3, <4>4, <4>5
      <4> QED
        BY <4>2, <4>5, <4>6
    <3>2. CASE ~(k # <<>> /\ <<Last(k), c>> \in DOMAIN Composite)
      BY <3>2 DEF JoinedOf
    <3> QED
      BY <3>1, <3>2
  <2> QED
    BY <2>1, <2>2, <2>3, <2>4, <2>5
<1>5. \A i \in 0..n : i \in T
  <2> HIDE DEF T
  <2> QED
    BY <1>1, <1>3, <1>4, UpTo, Zenon
<1>6. n \in 0..n /\ Composed(text) = kept[n]
  BY <1>1, <1>2 DEF ComposedOf
<1> QED
  BY <1>5, <1>6

LEMMA NewlinesIsSeq ==
  ASSUME NEW text \in Seq(DOMAIN Compatible)
  PROVE  Newlines(text) \in Seq(DOMAIN Compatible)
<1> DEFINE C == DOMAIN Compatible
           Alone(i) == text[i] = Return /\ (i = Len(text) \/ text[i + 1] # Feed)
           t == [i \in DOMAIN text |-> IF Alone(i) THEN Feed ELSE text[i]]
<1>1. Feed \in C
  BY CharacterAssumption
<1>2. t \in Seq(C)
  <2> HIDE DEF C, Alone
  <2>1. text \in Seq(C)
    BY DEF C
  <2> QED
    BY <1>1, <2>1
<1>3. Newlines(text) = Without(t, {Return})
  BY DEF Newlines
<1> HIDE DEF C, t
<1> QED
  BY <1>2, <1>3, WithoutIsSeq DEF C

LEMMA MapTextIsSeq ==
  ASSUME NEW form, \A c \in DOMAIN form : IsList(form[c]), NEW text \in Seq(DOMAIN form)
  PROVE  MapText(form, text) \in Seq(UNION {Range(form[c]) : c \in DOMAIN form})
<1> DEFINE S == UNION {Range(form[c]) : c \in DOMAIN form}
<1>1. IsList(text) /\ Len(text) \in Nat
  BY SeqIsList
<1>2. PICK mapped : MappedOf(form, text, mapped)
  BY <1>1, MappedRows, Zenon
<1>3. ASSUME NEW c \in DOMAIN form PROVE form[c] \in Seq(S)
  <2>1. Range(form[c]) \subseteq S /\ IsList(form[c])
    OBVIOUS
  <2> HIDE DEF S
  <2> QED
    BY <2>1, ListIsSeq
<1> HIDE DEF S
<1> DEFINE n == Len(text)
           T == {i \in 0..n : mapped[i] \in Seq(S)}
<1>4. 0 \in T
  <2>1. <<>> \in Seq(S) /\ 0 \in 0..n
    BY <1>1
  <2>2. mapped[0] = <<>>
    BY <1>2 DEF MappedOf
  <2> QED
    BY <2>1, <2>2
<1>5. ASSUME NEW i \in Nat, i < n, i \in T PROVE i + 1 \in T
  <2>1. i + 1 \in 0..n /\ i + 1 \in 1..n /\ (i + 1) - 1 = i
    BY <1>1, <1>5
  <2>2. mapped[i + 1] = mapped[i] \o form[text[i + 1]]
    BY <1>2, <2>1 DEF MappedOf
  <2>7. text[i + 1] \in DOMAIN form
    BY <2>1
  <2>3. PICK m \in Seq(S) : m = mapped[i]
    BY <1>5
  <2>4. PICK f \in Seq(S) : f = form[text[i + 1]]
    BY <1>3, <2>7
  <2>5. m \o f \in Seq(S)
    OBVIOUS
  <2> QED
    BY <2>1, <2>2, <2>3, <2>4, <2>5
<1>6. \A i \in 0..n : i \in T
  <2> HIDE DEF T
  <2> QED
    BY <1>1, <1>4, <1>5, UpTo, Zenon
<1>7. n \in 0..n /\ MapText(form, text) = mapped[n]
  BY <1>1, <1>2 DEF MappedOf
<1> QED
  BY <1>6, <1>7 DEF S

LEMMA NormalIsSeq ==
  ASSUME NEW form \in {Canonical, Folded, Compatible}, NEW t \in Seq(DOMAIN Compatible)
  PROVE  Normal(form, t) \in Seq(DOMAIN Compatible)
<1> DEFINE C == DOMAIN Compatible
<1>1. DOMAIN form = C /\ \A c \in C : IsList(form[c]) /\ Range(form[c]) \subseteq C
  BY CharacterAssumption DEF IsText
<1>2. t \in Seq(C) /\ Range(Composite) \subseteq C
  BY CharacterAssumption
<1> HIDE DEF C
<1> DEFINE S == UNION {Range(form[c]) : c \in DOMAIN form}
<1>3. S \subseteq C
  BY <1>1
<1>4. MapText(form, t) \in Seq(S)
  BY <1>1, <1>2, MapTextIsSeq
<1> HIDE DEF S
<1>5. IsList(MapText(form, t)) /\ Range(MapText(form, t)) \subseteq S
  BY <1>4, SeqIsList
<1>6. MapText(form, t) \in Seq(C)
  BY <1>3, <1>5, ListIsSeq
<1>7. Composed(MapText(form, t)) \in Seq(C)
  BY <1>2, <1>6, ComposedIsSeq
<1> QED
  BY <1>7 DEF C, Normal

(* What the gate reads of a text is a list of characters.                  *)
LEMMA LeakageIsSeq ==
  ASSUME NEW text, IsText(text)
  PROVE  \E S : NormalizeLeakage(text) \in Seq(S)
<1>1. text \in Seq(DOMAIN Compatible)
  BY ListIsSeq DEF IsText
<1>2. Normal(Compatible, Newlines(text)) \in Seq(DOMAIN Compatible)
  BY <1>1, NewlinesIsSeq, NormalIsSeq
<1>3. Without(Normal(Compatible, Newlines(text)), Ignorable) \in Seq(DOMAIN Compatible)
  BY <1>2, WithoutIsSeq
<1>4. NormalizeLeakage(text) \in Seq(DOMAIN Compatible)
  BY <1>3, CharacterAssumption, ComposedIsSeq DEF NormalizeLeakage
<1> QED
  BY <1>4

LEMMA SkeletonIsList ==
  ASSUME NEW text, IsText(text)
  PROVE  IsList(Skeleton(text))
BY LeakageIsSeq, WithoutIsSeq, SeqIsList DEF Skeleton

-----------------------------------------------------------------------------
(* Units.                                                                  *)

LEMMA JoinAppend ==
  ASSUME NEW S, NEW x \in Seq(S), NEW y \in Seq(S), NEW c \in S
  PROVE  /\ x \o Append(y, c) = Append(x \o y, c)
         /\ x \o <<>> = x /\ <<>> \o x = x
<1> DEFINE l == x \o Append(y, c)
           r == Append(x \o y, c)
<1>1. /\ l \in Seq(S) /\ r \in Seq(S) /\ Len(l) = Len(x) + Len(y) + 1 /\ Len(r) = Len(x) + Len(y) + 1
      /\ Len(x) \in Nat /\ Len(y) \in Nat
  OBVIOUS
<1>2. ASSUME NEW i \in 1..Len(x) + Len(y) + 1 PROVE l[i] = r[i]
  <2>1. CASE i \in 1..Len(x)
    BY <1>1, <2>1
  <2>2. CASE i \in Len(x) + 1..Len(x) + Len(y)
    <3>1. PICK k \in 1..Len(y) : i = Len(x) + k
      <4>1. i - Len(x) \in 1..Len(y) /\ i = Len(x) + (i - Len(x))
        BY <1>1, <2>2
      <4> QED
        BY <4>1, Zenon
    <3>2. Append(y, c)[k] = y[k]
      BY <1>1
    <3> QED
      BY <1>1, <3>1, <3>2
  <2>3. CASE i = Len(x) + Len(y) + 1
    BY <1>1, <2>3
  <2>4. i \in 1..Len(x) \/ i \in Len(x) + 1..Len(x) + Len(y) \/ i = Len(x) + Len(y) + 1
    BY <1>1
  <2> QED
    BY <2>1, <2>2, <2>3, <2>4
<1>3. l = r
  <2> HIDE DEF l, r
  <2>1. l \in [1..Len(x) + Len(y) + 1 -> S] /\ r \in [1..Len(x) + Len(y) + 1 -> S]
    BY <1>1
  <2> QED
    BY <1>2, <2>1
<1> QED
  BY <1>3

(* Units after each other are a text; one more unit comes after the others.*)
LEMMA ConcatenatedFacts ==
  ASSUME NEW S, NEW units \in Seq(Seq(S)), NEW unit \in Seq(S)
  PROVE  /\ Concatenated(units) \in Seq(S)
         /\ Concatenated(<<>>) = <<>>
         /\ Concatenated(Append(units, unit)) = Concatenated(units) \o unit
<1> DEFINE more == Append(units, unit)
           n == Len(units)
<1>1. more \in Seq(Seq(S)) /\ n \in Nat /\ Len(more) = n + 1 /\ <<>> \in Seq(Seq(S))
  OBVIOUS
<1>2. \A i \in 1..n : more[i] = units[i] /\ units[i] \in Seq(S)
  OBVIOUS
<1>3. more[n + 1] = unit
  OBVIOUS
<1> HIDE DEF more
<1>4. IsList(units) /\ IsList(more) /\ IsList(<<>>)
  BY <1>1, SeqIsList
<1>5. PICK t : JoinOf(units, t)
  BY <1>4, JoinRows, Zenon
<1>6. PICK u : JoinOf(more, u)
  BY <1>4, JoinRows, Zenon
<1>7. PICK v : JoinOf(<<>>, v)
  BY <1>4, JoinRows, Zenon
<1> DEFINE T == {i \in 0..n : t[i] \in Seq(S) /\ u[i] = t[i]}
<1>8. 0 \in T
  <2>1. <<>> \in Seq(S) /\ 0 \in 0..n
    BY <1>1
  <2>2. t[0] = <<>> /\ u[0] = <<>>
    BY <1>5, <1>6 DEF JoinOf
  <2> QED
    BY <2>1, <2>2
<1>9. ASSUME NEW i \in Nat, i < n, i \in T PROVE i + 1 \in T
  <2>1. i + 1 \in 0..n /\ i + 1 \in 1..n /\ i + 1 \in 1..n + 1 /\ (i + 1) - 1 = i
    BY <1>1, <1>9
  <2>2. t[i + 1] = t[i] \o units[i + 1] /\ u[i + 1] = u[i] \o more[i + 1]
    BY <1>1, <1>5, <1>6, <2>1 DEF JoinOf
  <2>3. more[i + 1] = units[i + 1] /\ units[i + 1] \in Seq(S)
    BY <1>2, <2>1
  <2>4. PICK x \in Seq(S) : x = t[i] /\ x = u[i]
    BY <1>9
  <2>5. PICK y \in Seq(S) : y = units[i + 1]
    BY <2>3
  <2>6. x \o y \in Seq(S)
    OBVIOUS
  <2> QED
    BY <2>1, <2>2, <2>3, <2>4, <2>5, <2>6
<1>10. n \in T
  <2>1. n \in 0..n
    BY <1>1
  <2> HIDE DEF T
  <2> QED
    BY <1>1, <1>8, <1>9, <2>1, UpTo, Zenon
<1>11. Concatenated(units) = t[n] /\ t[n] \in Seq(S) /\ u[n] = t[n]
  BY <1>5, <1>10 DEF JoinOf
<1>12. Concatenated(more) = u[n + 1]
  BY <1>1, <1>6 DEF JoinOf
<1>13. u[n + 1] = u[n] \o more[n + 1]
  <2>1. n + 1 \in 1..Len(more) /\ (n + 1) - 1 = n
    BY <1>1
  <2> QED
    BY <1>6, <2>1 DEF JoinOf
<1>14. Concatenated(<<>>) = <<>>
  BY <1>7 DEF JoinOf
<1> QED
  BY <1>3, <1>11, <1>12, <1>13, <1>14 DEF more

(* A character added to the last unit is added to the text.                *)
LEMMA JoinedToFacts ==
  ASSUME NEW S, NEW units \in Seq(Seq(S) \ {<<>>}), units # <<>>, NEW c \in S
  PROVE  /\ JoinedTo(units, c) \in Seq(Seq(S) \ {<<>>})
         /\ Concatenated(JoinedTo(units, c)) = Append(Concatenated(units), c)
<1> DEFINE n == Len(units)
           front == SubSeq(units, 1, n - 1)
           last == units[n]
           joined == JoinedTo(units, c)
<1>1. n \in Nat /\ n > 0 /\ \A i \in 1..n : units[i] \in Seq(S) \ {<<>>}
  OBVIOUS
<1>2. last \in Seq(S) /\ last # <<>>
  BY <1>1
<1>3. Append(last, c) \in Seq(S) \ {<<>>}
  BY <1>2
<1>4. joined = [units EXCEPT ![n] = Append(last, c)]
  BY DEF JoinedTo, ReplaceAt, Last
<1>5. /\ front \in Seq(Seq(S)) /\ Len(front) = n - 1 /\ \A i \in 1..n - 1 : front[i] = units[i]
  <2>1. PICK p \in 0..n : p = 0
    BY <1>1
  <2>2. PICK m \in 0..n : m = n - 1
    <3>1. n - 1 \in 0..n
      BY <1>1
    <3> QED
      BY <3>1, Zenon
  <2>3. units \in Seq(Seq(S)) /\ p <= m /\ m - p = n - 1 /\ p + 1 = 1
    BY <1>1, <2>1, <2>2
  <2>4. /\ SubSeq(units, p + 1, m) \in Seq(Seq(S)) /\ Len(SubSeq(units, p + 1, m)) = m - p
        /\ \A i \in 1..(m - p) : SubSeq(units, p + 1, m)[i] = units[p + i]
    BY <2>3, SubSeqFacts
  <2>5. front = SubSeq(units, p + 1, m)
    BY <2>2, <2>3
  <2>6. \A i \in 1..n - 1 : p + i = i
    BY <2>1
  <2> HIDE DEF front
  <2> QED
    BY <2>3, <2>4, <2>5, <2>6
<1> HIDE DEF last, front, joined
<1>6. joined \in Seq(Seq(S) \ {<<>>}) /\ Len(joined) = n /\ joined[n] = Append(last, c)
      /\ \A i \in 1..n - 1 : joined[i] = units[i]
  BY <1>1, <1>3, <1>4
<1>7. units = Append(front, last)
  <2>1. PICK f \in Seq(Seq(S)) : f = front
    BY <1>5
  <2>2. PICK w \in Seq(Seq(S)) : w = Append(f, last)
    <3>1. Append(f, last) \in Seq(Seq(S))
      BY <1>2
    <3> QED
      BY <3>1, Zenon
  <2>3. Len(w) = n /\ w[n] = last /\ \A i \in 1..n - 1 : w[i] = f[i]
    BY <1>1, <1>5, <2>1, <2>2
  <2>4. \A i \in 1..n : i = n \/ i \in 1..n - 1
    BY <1>1
  <2>5. \A i \in 1..n : w[i] = units[i]
    BY <1>5, <2>1, <2>3, <2>4 DEF last
  <2>6. w \in [1..n -> Seq(S)] /\ units \in [1..n -> Seq(S)]
    BY <1>1, <2>3
  <2>7. w = units
    BY <2>5, <2>6
  <2> QED
    BY <2>1, <2>2, <2>7
<1>8. joined = Append(front, Append(last, c))
  <2>1. PICK f \in Seq(Seq(S)) : f = front
    BY <1>5
  <2>2. PICK e \in Seq(S) : e = Append(last, c)
    BY <1>3
  <2>3. PICK w \in Seq(Seq(S)) : w = Append(f, e)
    <3>1. Append(f, e) \in Seq(Seq(S))
      OBVIOUS
    <3> QED
      BY <3>1, Zenon
  <2>4. Len(w) = n /\ w[n] = e /\ \A i \in 1..n - 1 : w[i] = f[i]
    BY <1>1, <1>5, <2>1, <2>3
  <2>5. \A i \in 1..n : i = n \/ i \in 1..n - 1
    BY <1>1
  <2>6. \A i \in 1..n : w[i] = joined[i]
    BY <1>5, <1>6, <2>1, <2>2, <2>4, <2>5
  <2>7. w \in [1..n -> Seq(S)] /\ joined \in [1..n -> Seq(S)]
    BY <1>1, <1>6, <2>4
  <2>8. w = joined
    BY <2>6, <2>7
  <2> QED
    BY <2>1, <2>2, <2>3, <2>8
<1>9. /\ Concatenated(units) = Concatenated(front) \o last
      /\ Concatenated(joined) = Concatenated(front) \o Append(last, c)
      /\ Concatenated(front) \in Seq(S)
  <2>1. Append(last, c) \in Seq(S)
    BY <1>3
  <2> QED
    BY <1>2, <1>5, <1>7, <1>8, <2>1, ConcatenatedFacts
<1>10. Concatenated(front) \o Append(last, c) = Append(Concatenated(front) \o last, c)
  BY <1>2, <1>9, JoinAppend
<1> QED
  BY <1>6, <1>9, <1>10 DEF joined

(* What has been read so far, in units and the word at the end.            *)
Reading(S, st, text) ==
  /\ st \in [units : Seq(Seq(S) \ {<<>>}), word : Seq(S)]
  /\ Concatenated(st.units) \o st.word = text

LEMMA FlushedFacts ==
  ASSUME NEW S, NEW st, NEW text, Reading(S, st, text)
  PROVE  /\ Flushed(st) \in Seq(Seq(S) \ {<<>>})
         /\ Concatenated(Flushed(st)) = text /\ text \in Seq(S)
<1>1. PICK u \in Seq(Seq(S) \ {<<>>}), w \in Seq(S) : st = [units |-> u, word |-> w]
  BY DEF Reading
<1>2. text = Concatenated(u) \o w
  BY <1>1 DEF Reading
<1>3. u \in Seq(Seq(S)) /\ <<>> \in Seq(S)
  OBVIOUS
<1>4. Concatenated(u) \in Seq(S) /\ Concatenated(Append(u, w)) = Concatenated(u) \o w
  BY <1>3, ConcatenatedFacts
<1>5. PICK x \in Seq(S) : x = Concatenated(u)
  BY <1>4
<1>6. x \o w \in Seq(S) /\ x \o <<>> = x
  OBVIOUS
<1>7. CASE w = <<>>
  <2>1. Flushed(st) = u
    BY <1>1, <1>7 DEF Flushed
  <2> QED
    BY <1>2, <1>5, <1>6, <1>7, <2>1
<1>8. CASE w # <<>>
  <2>1. Flushed(st) = Append(u, w)
    BY <1>1, <1>8 DEF Flushed
  <2>2. Append(u, w) \in Seq(Seq(S) \ {<<>>})
    BY <1>8
  <2> QED
    BY <1>2, <1>4, <1>5, <1>6, <2>1, <2>2
<1> QED
  BY <1>7, <1>8

(* One more character is read, unless it is a space.                       *)
LEMMA ReadStep ==
  ASSUME NEW S, NEW st, NEW text, Reading(S, st, text), NEW c \in S
  PROVE  Reading(S, ReadOf(st, c), Kept(Space, text, c))
<1>1. PICK u \in Seq(Seq(S) \ {<<>>}), w \in Seq(S) : st = [units |-> u, word |-> w]
  BY DEF Reading
<1>2. text = Concatenated(u) \o w
  BY <1>1 DEF Reading
<1>3. u \in Seq(Seq(S)) /\ <<>> \in Seq(S) /\ <<c>> \in Seq(S) /\ <<c>> # <<>> /\ Append(w, c) \in Seq(S)
  OBVIOUS
<1>4. PICK x \in Seq(S) : x = Concatenated(u)
  BY <1>3, ConcatenatedFacts
<1>5. PICK f \in Seq(Seq(S) \ {<<>>}) : f = Flushed(st) /\ Concatenated(f) = text
  BY FlushedFacts
<1>6. text \in Seq(S)
  BY FlushedFacts
<1>7. f \in Seq(Seq(S))
  OBVIOUS
<1>8. \A y \in Seq(S) : y \o <<>> = y /\ y \o <<c>> = Append(y, c)
  OBVIOUS
<1>9. x \o Append(w, c) = Append(x \o w, c)
  BY JoinAppend
<1>10. CASE c \in Space
  <2>1. ReadOf(st, c) = [units |-> f, word |-> <<>>] /\ Kept(Space, text, c) = text
    BY <1>5, <1>10 DEF ReadOf, Kept
  <2>2. [units |-> f, word |-> <<>>] \in [units : Seq(Seq(S) \ {<<>>}), word : Seq(S)]
    BY <1>3
  <2> QED
    BY <1>5, <1>6, <1>8, <2>1, <2>2 DEF Reading
<1>11. CASE c \notin Space
  <2>1. Kept(Space, text, c) = Append(text, c)
    BY <1>11 DEF Kept
  <2>2. CASE \/ c \in Marks /\ w # <<>>
             \/ c \notin Marks /\ c \in Words
    <3>1. ReadOf(st, c) = [units |-> u, word |-> Append(w, c)]
      BY <1>1, <1>11, <2>2 DEF ReadOf
    <3>2. [units |-> u, word |-> Append(w, c)] \in [units : Seq(Seq(S) \ {<<>>}), word : Seq(S)]
      BY <1>3
    <3> QED
      BY <1>2, <1>4, <1>9, <2>1, <3>1, <3>2, SMTT(40) DEF Reading
  <2>3. CASE c \in Marks /\ w = <<>> /\ u # <<>>
    <3>1. ReadOf(st, c) = [units |-> JoinedTo(u, c), word |-> <<>>]
      BY <1>1, <1>11, <2>3 DEF ReadOf
    <3>2. /\ JoinedTo(u, c) \in Seq(Seq(S) \ {<<>>})
          /\ Concatenated(JoinedTo(u, c)) = Append(Concatenated(u), c)
      BY <2>3, JoinedToFacts
    <3>3. PICK j \in Seq(Seq(S) \ {<<>>}) : j = JoinedTo(u, c)
      BY <3>2
    <3>4. [units |-> j, word |-> <<>>] \in [units : Seq(Seq(S) \ {<<>>}), word : Seq(S)]
      BY <1>3
    <3>5. Concatenated(j) = Append(x, c) /\ Append(x, c) \in Seq(S) /\ text = x
      BY <1>2, <1>4, <1>8, <2>3, <3>2, <3>3
    <3> QED
      BY <1>8, <2>1, <3>1, <3>3, <3>4, <3>5 DEF Reading
  <2>4. CASE c \in Marks /\ w = <<>> /\ u = <<>>
    <3>1. ReadOf(st, c) = [units |-> <<(<<c>>)>>, word |-> <<>>]
      BY <1>1, <1>11, <2>4 DEF ReadOf
    <3>2. PICK o \in Seq(S) : o = <<c>>
      BY <1>3
    <3>3. <<>> \in Seq(Seq(S)) /\ <<o>> = Append(<<>>, o)
      OBVIOUS
    <3>4. Concatenated(<<>>) = <<>> /\ Concatenated(Append(<<>>, o)) = Concatenated(<<>>) \o o
      BY <3>3, ConcatenatedFacts
    <3>5. <<>> \o o = o /\ text = <<>> /\ Append(<<>>, c) = o
      BY <1>2, <1>4, <1>8, <2>4, <3>2, <3>4
    <3>6. <<o>> \in Seq(Seq(S) \ {<<>>})
      BY <1>3, <3>2
    <3>7. [units |-> <<o>>, word |-> <<>>] \in [units : Seq(Seq(S) \ {<<>>}), word : Seq(S)]
      BY <1>3, <3>6
    <3>8. Concatenated(<<o>>) = o /\ Kept(Space, text, c) = o /\ o \o <<>> = o
      BY <1>8, <2>1, <3>3, <3>4, <3>5
    <3> QED
      BY <3>1, <3>2, <3>7, <3>8 DEF Reading
  <2>5. CASE c \notin Marks /\ c \notin Words
    <3>1. ReadOf(st, c) = [units |-> Append(f, <<c>>), word |-> <<>>]
      BY <1>5, <1>11, <2>5 DEF ReadOf
    <3>2. PICK o \in Seq(S) : o = <<c>>
      BY <1>3
    <3>3. Concatenated(Append(f, o)) = text \o o
      BY <1>5, <1>7, ConcatenatedFacts
    <3>4. Append(f, o) \in Seq(Seq(S) \ {<<>>})
      BY <1>3, <3>2
    <3>6. text \o o = Append(text, c) /\ Append(text, c) \in Seq(S)
      BY <1>6, <1>8, <3>2
    <3>7. PICK y \in Seq(S) : y = Append(text, c)
      BY <3>6, Zenon
    <3>8. PICK g \in Seq(Seq(S) \ {<<>>}) : g = Append(f, o)
      BY <3>4, Zenon
    <3>9. Concatenated(g) = y /\ y \o <<>> = y /\ Kept(Space, text, c) = y
      BY <1>8, <2>1, <3>3, <3>6, <3>7, <3>8
    <3>10. /\ ReadOf(st, c) = [units |-> g, word |-> <<>>]
           /\ [units |-> g, word |-> <<>>] \in [units : Seq(Seq(S) \ {<<>>}), word : Seq(S)]
      BY <1>3, <3>1, <3>2, <3>8
    <3> QED
      BY <3>9, <3>10 DEF Reading
  <2> QED
    BY <2>2, <2>3, <2>4, <2>5
<1> QED
  BY <1>10, <1>11

(* The units of a text (scoring_core.py:242) are not empty, and hold what  *)
(* the skeleton (236) holds: the words of the gate drop no character.      *)
THEOREM UnitsFacts ==
  ASSUME NEW text, IsText(text)
  PROVE  /\ IsList(LexicalUnits(text)) /\ <<>> \notin Range(LexicalUnits(text))
         /\ Concatenated(LexicalUnits(text)) = Skeleton(text)
<1>1. PICK S : NormalizeLeakage(text) \in Seq(S)
  BY LeakageIsSeq
<1>2. PICK t \in Seq(S) : t = NormalizeLeakage(text)
  BY <1>1
<1>3. IsList(t) /\ Len(t) \in Nat /\ \A i \in 1..Len(t) : t[i] \in S
  BY SeqIsList
<1>4. PICK st : ReadsOf(text, st)
  BY <1>2, <1>3, ReadRows
<1>5. PICK kept : KeptOf(t, Space, kept)
  BY <1>3, KeptRows, Zenon
<1> DEFINE n == Len(t)
           T == {i \in 0..n : Reading(S, st[i], kept[i])}
<1>6. 0 \in T
  <2>1. st[0] = [units |-> <<>>, word |-> <<>>] /\ kept[0] = <<>>
    BY <1>4, <1>5 DEF ReadsOf, KeptOf, Unread
  <2>2. <<>> \in Seq(S) /\ <<>> \in Seq(Seq(S)) /\ <<>> \in Seq(Seq(S) \ {<<>>}) /\ <<>> \o <<>> = <<>>
    OBVIOUS
  <2>3. Concatenated(<<>>) = <<>>
    BY <2>2, ConcatenatedFacts
  <2>4. Reading(S, [units |-> <<>>, word |-> <<>>], <<>>)
    BY <2>2, <2>3 DEF Reading
  <2> QED
    BY <1>3, <2>1, <2>4
<1>7. ASSUME NEW i \in Nat, i < n, i \in T PROVE i + 1 \in T
  <2>1. i + 1 \in 0..n /\ i + 1 \in 1..n /\ (i + 1) - 1 = i
    BY <1>3, <1>7
  <2>2. st[i + 1] = ReadOf(st[i], t[i + 1])
    BY <1>2, <1>4, <2>1 DEF ReadsOf
  <2>3. kept[i + 1] = Kept(Space, kept[i], t[i + 1])
    BY <1>5, <2>1 DEF KeptOf
  <2>4. PICK c \in S : c = t[i + 1]
    BY <1>3, <2>1
  <2>5. Reading(S, st[i], kept[i])
    BY <1>7
  <2>6. Reading(S, ReadOf(st[i], c), Kept(Space, kept[i], c))
    BY <2>5, ReadStep
  <2> QED
    BY <2>1, <2>2, <2>3, <2>4, <2>6
<1>8. n \in T
  <2>1. n \in 0..n
    BY <1>3
  <2> HIDE DEF T
  <2> QED
    BY <1>3, <1>6, <1>7, <2>1, UpTo, Zenon
<1>9. Reading(S, st[n], kept[n])
  BY <1>8
<1>10. LexicalUnits(text) = Flushed(st[n]) /\ Skeleton(text) = kept[n]
  BY <1>2, <1>4, <1>5 DEF ReadsOf, KeptOf, Skeleton
<1>11. Flushed(st[n]) \in Seq(Seq(S) \ {<<>>}) /\ Concatenated(Flushed(st[n])) = kept[n]
  BY <1>9, FlushedFacts
<1>12. /\ IsList(Flushed(st[n])) /\ Range(Flushed(st[n])) \subseteq Seq(S) \ {<<>>}
  BY <1>11, SeqIsList
<1> QED
  BY <1>10, <1>11, <1>12

-----------------------------------------------------------------------------
(* Collapsed.                                                              *)

KeptAt(text, i) ==
  text[i] \in Space => /\ i > 1 /\ ~(text[i - 1] \in Space)
                       /\ \E j \in i + 1..Len(text) : ~(text[j] \in Space)
CollapseStep(text, kept, i) ==
  IF ~KeptAt(text, i) THEN kept
  ELSE Append(kept, IF text[i] \in Space THEN Blank ELSE text[i])

(* What is kept, character by character.                                  *)
CollapsesTo(text, kept) ==
  /\ kept[0] = <<>>
  /\ \A i \in 1..Len(text) : kept[i] = CollapseStep(text, kept[i - 1], i)
  /\ Collapsed(text) = kept[Len(text)]

LEMMA CollapseRows ==
  ASSUME NEW text, IsList(text)
  PROVE  \E kept : CollapsesTo(text, kept)
<1> DEFINE c == [i \in DOMAIN text |-> i]
           n == Len(text)
           Step(it, s) == IF s = {} THEN <<>>
                          ELSE CollapseStep(text, it[s \ {Max(s)}], c[Max(s)])
           Good(k) == \E it : \A s \in Small(n, k) : it[s] = Step(it, s)
<1>1. n \in Nat /\ DOMAIN text = 1..n /\ DOMAIN c = 1..n
  BY ListFacts
<1>2. Collapsed(text) =
        (CHOOSE it : it = [s \in SUBSET DOMAIN c |-> Step(it, s)])[DOMAIN c]
  BY Zenon DEF Collapsed, CollapseStep, KeptAt, FoldLeftDomain, FoldLeft, MapThenFoldSet
<1> HIDE DEF n
<1>3. Good(n)
  <2>1. Good(0)
    <3> DEFINE it == [s \in {{}} |-> <<>>]
    <3>1. \A s \in Small(n, 0) : it[s] = Step(it, s)
      BY <1>1, SmallSets
    <3> QED
      BY <3>1
  <2>2. ASSUME NEW k \in Nat, Good(k) PROVE Good(k + 1)
    <3>1. PICK it : \A s \in Small(n, k) : it[s] = Step(it, s)
      BY <2>2
    <3> DEFINE new == [s \in Small(n, k + 1) |-> Step(it, s)]
    <3>2. Small(n, k) \subseteq Small(n, k + 1)
      BY <1>1, SmallSets
    <3>3. \A s \in Small(n, k) : new[s] = it[s]
      BY <3>1, <3>2
    <3>4. ASSUME NEW s \in Small(n, k + 1) PROVE new[s] = Step(new, s)
      <4>1. s # {} => s \ {Max(s)} \in Small(n, k)
        BY <1>1, SmallSets
      <4>2. s # {} => new[s \ {Max(s)}] = it[s \ {Max(s)}]
        BY <3>3, <4>1
      <4>3. new[s] = Step(it, s)
        OBVIOUS
      <4> HIDE DEF new
      <4> QED
        BY <4>2, <4>3
    <3> QED
      BY <3>4
  <2> DEFINE T == {k \in 0..n : Good(k)}
  <2> HIDE DEF Good
  <2>3. 0 \in T /\ n \in 0..n /\ \A k \in Nat : k < n /\ k \in T => k + 1 \in T
    BY <1>1, <2>1, <2>2
  <2>4. n \in T
    <3> HIDE DEF T
    <3> QED
      BY <1>1, <2>3, UpTo, Zenon
  <2> QED
    BY <2>4
<1>4. PICK it : /\ it = [s \in SUBSET DOMAIN c |-> Step(it, s)]
                /\ Collapsed(text) = it[DOMAIN c]
  <2>1. PICK g : \A s \in Small(n, n) : g[s] = Step(g, s)
    BY <1>3
  <2> DEFINE it == [s \in SUBSET DOMAIN c |-> g[s]]
  <2>2. it = [s \in SUBSET DOMAIN c |-> Step(it, s)]
    BY <1>1, <2>1, SmallSets
  <2> HIDE DEF it, Step
  <2> QED
    BY <1>2, <2>2, Zenon
<1> DEFINE kept == [i \in 0..n |-> it[1..i]]
<1>5. kept[0] = <<>>
  BY <1>1, <1>4
<1>6. ASSUME NEW i \in 1..n PROVE kept[i] = CollapseStep(text, kept[i - 1], i)
  <2>1. /\ 1..i \in SUBSET DOMAIN c /\ 1..i # {} /\ Max(1..i) = i
        /\ (1..i) \ {Max(1..i)} = 1..(i - 1)
    BY <1>1, InitialSegments, Zenon
  <2>2. it[1..i] = CollapseStep(text, it[1..(i - 1)], c[i])
    BY <1>4, <2>1
  <2>3. i \in 0..n /\ i - 1 \in 0..n /\ c[i] = i
    BY <1>1
  <2> QED
    BY <2>2, <2>3
<1>7. Collapsed(text) = kept[n]
  BY <1>1, <1>4
<1> HIDE DEF kept
<1> QED
  BY <1>5, <1>6, <1>7 DEF n, CollapsesTo

(* A text with nothing to collapse: each of its spaces is a blank between  *)
(* two other characters.                                                   *)
Neat(text) ==
  \A i \in 1..Len(text) : text[i] \in Space =>
    /\ text[i] = Blank /\ i > 1 /\ text[i - 1] \notin Space
    /\ \E j \in i + 1..Len(text) : text[j] \notin Space

LEMMA NeatStays ==
  ASSUME NEW S, NEW text \in Seq(S), Neat(text)
  PROVE  Collapsed(text) = text
<1> DEFINE n == Len(text)
<1>1. n \in Nat /\ text \in [1..n -> S] /\ IsList(text)
  BY SeqIsList
<1>2. PICK kept : CollapsesTo(text, kept)
  BY <1>1, CollapseRows, Zenon
<1>3. kept[0] = <<>> /\ Collapsed(text) = kept[n]
  BY <1>2 DEF CollapsesTo
<1>4. ASSUME NEW i \in 1..n PROVE kept[i] = Append(kept[i - 1], text[i])
  <2>1. kept[i] = CollapseStep(text, kept[i - 1], i)
    BY <1>2 DEF CollapsesTo
  <2>2. KeptAt(text, i) /\ (text[i] \in Space => text[i] = Blank)
    BY DEF Neat, KeptAt
  <2>3. (IF text[i] \in Space THEN Blank ELSE text[i]) = text[i]
    BY <2>2
  <2> QED
    BY <2>1, <2>2, <2>3 DEF CollapseStep
<1> DEFINE T == {i \in 0..n : /\ kept[i] \in Seq(S) /\ Len(kept[i]) = i
                              /\ \A p \in 1..i : kept[i][p] = text[p]}
<1> HIDE DEF n
<1>5. 0 \in T
  <2>1. <<>> \in Seq(S) /\ Len(<<>>) = 0 /\ 0 \in 0..n /\ 1..0 = {}
    BY <1>1
  <2> QED
    BY <1>3, <2>1
<1>6. ASSUME NEW i \in Nat, i < n, i \in T PROVE i + 1 \in T
  <2>1. i + 1 \in 0..n /\ i + 1 \in 1..n /\ (i + 1) - 1 = i
    BY <1>1, <1>6
  <2>2. kept[i + 1] = Append(kept[i], text[i + 1]) /\ text[i + 1] \in S
    BY <1>1, <1>4, <2>1
  <2>3. PICK k \in Seq(S) : k = kept[i]
    BY <1>6
  <2>4. PICK c \in S : c = text[i + 1]
    BY <2>2
  <2>5. PICK l \in Seq(S) : l = Append(k, c)
    <3>1. Append(k, c) \in Seq(S)
      OBVIOUS
    <3> QED
      BY <3>1, Zenon
  <2>6. Len(k) = i /\ \A p \in 1..i : k[p] = text[p]
    BY <1>6, <2>3
  <2>7. Len(l) = i + 1 /\ l[i + 1] = c /\ \A p \in 1..i : l[p] = k[p]
    BY <2>5, <2>6
  <2>8. \A p \in 1..(i + 1) : p \in 1..i \/ p = i + 1
    OBVIOUS
  <2>9. \A p \in 1..(i + 1) : l[p] = text[p]
    BY <2>4, <2>6, <2>7, <2>8
  <2>10. kept[i + 1] = l
    BY <2>2, <2>3, <2>4, <2>5
  <2> QED
    BY <2>1, <2>7, <2>9, <2>10
<1>7. n \in T
  <2>1. n \in 0..n
    BY <1>1
  <2> HIDE DEF T
  <2> QED
    BY <1>1, <1>5, <1>6, <2>1, UpTo, Zenon
<1>8. PICK l \in Seq(S) : l = kept[n]
  BY <1>7
<1>9. Len(l) = n /\ \A p \in 1..n : l[p] = text[p]
  BY <1>7, <1>8
<1>10. l \in [1..n -> S]
  BY <1>9
<1>11. l = text
  BY <1>1, <1>9, <1>10
<1> QED
  BY <1>3, <1>8, <1>11

(* What has been kept of the first i characters: its spaces are blanks     *)
(* after a character that is none; one is before another, or before one    *)
(* that is still to come; the last is the last of the text, if no space.   *)
KeptNeat(text, i, k) ==
  /\ \A p \in 1..Len(k) : k[p] \in Space =>
       /\ k[p] = Blank /\ p > 1 /\ k[p - 1] \notin Space
       /\ \/ \E q \in p + 1..Len(k) : k[q] \notin Space
          \/ \E j \in i + 1..Len(text) : text[j] \notin Space
  /\ i > 0 /\ text[i] \notin Space => Len(k) > 0 /\ k[Len(k)] = text[i]

LEMMA CollapsedIsNeat ==
  ASSUME NEW S, NEW text \in Seq(S)
  PROVE  Neat(Collapsed(text)) /\ Collapsed(text) \in Seq(S \cup {Blank})
<1> DEFINE n == Len(text)
           B == S \cup {Blank}
<1>1. n \in Nat /\ text \in [1..n -> S] /\ IsList(text)
  BY SeqIsList
<1>2. PICK kept : CollapsesTo(text, kept)
  BY <1>1, CollapseRows, Zenon
<1>3. kept[0] = <<>> /\ Collapsed(text) = kept[n]
  BY <1>2 DEF CollapsesTo
<1> DEFINE T == {i \in 0..n : kept[i] \in Seq(B) /\ KeptNeat(text, i, kept[i])}
<1> HIDE DEF n, B
<1>5. 0 \in T
  <2>1. <<>> \in Seq(B) /\ 0 \in 0..n
    BY <1>1
  <2>2. KeptNeat(text, 0, <<>>)
    BY DEF KeptNeat
  <2> QED
    BY <1>3, <2>1, <2>2
<1>6. ASSUME NEW i \in Nat, i < n, i \in T PROVE i + 1 \in T
  <2>1. i + 1 \in 0..n /\ i + 1 \in 1..n /\ (i + 1) - 1 = i
    BY <1>1, <1>6
  <2>2. kept[i + 1] = CollapseStep(text, kept[i], i + 1)
    BY <1>2, <2>1 DEF CollapsesTo, n
  <2>3. PICK k \in Seq(B) : k = kept[i]
    BY <1>6
  <2>4. KeptNeat(text, i, k)
    BY <1>6, <2>3
  <2>5. PICK h \in Nat : h = i + 1
    OBVIOUS
  <2>6. h \in 1..n /\ h - 1 = i /\ kept[h] = CollapseStep(text, k, h)
    BY <2>1, <2>2, <2>3, <2>5
  <2>7. \A j \in h..n : j = h \/ j \in h + 1..n
    BY <1>1, <2>6
  <2>8. CASE text[h] \in Space /\ ~KeptAt(text, h)
    <3>1. kept[h] = k
      BY <2>6, <2>8 DEF CollapseStep
    <3>2. KeptNeat(text, h, k)
      BY <2>4, <2>5, <2>7, <2>8 DEF KeptNeat, n
    <3> QED
      BY <2>1, <2>5, <3>1, <3>2
  <2>9. CASE text[h] \notin Space
    <3>1. text[h] \in B
      BY <1>1, <2>6 DEF B
    <3>2. PICK c \in B : c = text[h]
      BY <3>1
    <3>3. PICK l \in Seq(B) : l = Append(k, c)
      <4>1. Append(k, c) \in Seq(B)
        OBVIOUS
      <4> QED
        BY <4>1, Zenon
    <3>4. kept[h] = l
      BY <2>6, <2>9, <3>2, <3>3 DEF CollapseStep, KeptAt
    <3>5. PICK m \in Nat : m = Len(k)
      OBVIOUS
    <3>6. Len(l) = m + 1 /\ l[m + 1] = c /\ \A p \in 1..m : l[p] = k[p]
      BY <3>3, <3>5
    <3>7. ASSUME NEW p \in 1..Len(l), l[p] \in Space
          PROVE  /\ l[p] = Blank /\ p > 1 /\ l[p - 1] \notin Space
                 /\ \E q \in p + 1..Len(l) : l[q] \notin Space
      <4>1. p \in 1..m
        BY <2>9, <3>2, <3>6, <3>7
      <4>2. k[p] = Blank /\ p > 1 /\ k[p - 1] \notin Space
        BY <2>4, <3>5, <3>6, <3>7, <4>1 DEF KeptNeat
      <4>3. p - 1 \in 1..m /\ m + 1 \in p + 1..Len(l)
        BY <3>6, <4>1, <4>2
      <4>4. l[m + 1] \notin Space
        BY <2>9, <3>2, <3>6
      <4> QED
        BY <3>6, <4>1, <4>2, <4>3, <4>4
    <3>8. KeptNeat(text, h, l)
      BY <3>2, <3>6, <3>7 DEF KeptNeat
    <3> QED
      BY <2>1, <2>5, <3>4, <3>8
  <2>10. CASE text[h] \in Space /\ KeptAt(text, h)
    <3>1. PICK c \in B : c = Blank
      BY DEF B
    <3>2. PICK l \in Seq(B) : l = Append(k, c)
      <4>1. Append(k, c) \in Seq(B)
        OBVIOUS
      <4> QED
        BY <4>1, Zenon
    <3>3. kept[h] = l
      BY <2>6, <2>10, <3>1, <3>2 DEF CollapseStep
    <3>4. PICK m \in Nat : m = Len(k)
      OBVIOUS
    <3>5. Len(l) = m + 1 /\ l[m + 1] = c /\ \A p \in 1..m : l[p] = k[p]
      BY <3>2, <3>4
    <3>6. h > 1 /\ text[i] \notin Space /\ \E j \in h + 1..Len(text) : text[j] \notin Space
      BY <2>6, <2>10 DEF KeptAt
    <3>7. m > 0 /\ k[m] \notin Space
      BY <2>4, <2>5, <3>4, <3>6 DEF KeptNeat
    <3>8. ASSUME NEW p \in 1..Len(l), l[p] \in Space
          PROVE  l[p] = Blank /\ p > 1 /\ l[p - 1] \notin Space
      <4>1. CASE p \in 1..m
        <5>1. k[p] = Blank /\ p > 1 /\ k[p - 1] \notin Space
          BY <2>4, <3>4, <3>5, <3>8, <4>1 DEF KeptNeat
        <5>2. p - 1 \in 1..m
          BY <4>1, <5>1
        <5> QED
          BY <3>5, <4>1, <5>1, <5>2
      <4>2. CASE p = m + 1
        <5>1. m \in 1..m /\ p - 1 = m /\ p > 1
          BY <3>7, <4>2
        <5> QED
          BY <3>1, <3>5, <3>7, <4>2, <5>1
      <4>3. p \in 1..m \/ p = m + 1
        BY <3>5
      <4> QED
        BY <4>1, <4>2, <4>3
    <3>9. KeptNeat(text, h, l)
      BY <2>10, <3>6, <3>8 DEF KeptNeat
    <3> QED
      BY <2>1, <2>5, <3>3, <3>9
  <2> QED
    BY <2>8, <2>9, <2>10
<1>7. n \in T
  <2>1. n \in 0..n
    BY <1>1
  <2> HIDE DEF T
  <2> QED
    BY <1>1, <1>5, <1>6, <2>1, UpTo, Zenon
<1>8. Collapsed(text) \in Seq(B) /\ KeptNeat(text, n, Collapsed(text))
  BY <1>3, <1>7
<1>9. n + 1..Len(text) = {}
  BY <1>1 DEF n
<1>10. Neat(Collapsed(text))
  BY <1>8, <1>9 DEF KeptNeat, Neat
<1> QED
  BY <1>8, <1>10 DEF B

(* Normalising what is normalised changes nothing (scoring_core.py:79).    *)
THEOREM CollapsedOnce ==
  ASSUME NEW S, NEW text \in Seq(S)
  PROVE  Collapsed(Collapsed(text)) = Collapsed(text)
BY CollapsedIsNeat, NeatStays

-----------------------------------------------------------------------------
(* The scorer, on any lists.                                               *)

LEMMA ListsAreMeasured ==
  ASSUME NEW a, IsList(a), NEW b, IsList(b)
  PROVE  /\ LcsLength(a, b) = RefLcs(a, b) /\ LongestCommonSpan(a, b) = RefSpan(a, b)
         /\ \A n \in {2, 3} : Overlap(Ngrams(a, n), Ngrams(b, n)) = RefOverlap(a, b, n)
         /\ Overlap(Ngrams(b, 3), Ngrams(a, 3)) = RefOverlap(b, a, 3)
         /\ BagCardinality(Ngrams(a, 3)) = Max({0, Len(a) - 2})
<1>1. BagCardinality(Ngrams(a, 3)) = Max({0, Len(a) - 2})
  <2>1. PICK n \in Nat \ {0} : n = 3
    OBVIOUS
  <2>2. BagCardinality(Ngrams(a, n)) = Max({0, Len(a) - n + 1})
    BY NgramsFacts
  <2>3. Len(a) - n + 1 = Len(a) - 2
    BY <2>1, ListFacts
  <2> QED
    BY <2>1, <2>2, <2>3
<1>2. \A n \in {2, 3} : n \in Nat \ {0}
  OBVIOUS
<1>3. \A n \in {2, 3} : Overlap(Ngrams(a, n), Ngrams(b, n)) = RefOverlap(a, b, n)
  BY <1>2, OverlapIsExact
<1>4. 3 \in Nat \ {0}
  OBVIOUS
<1>5. Overlap(Ngrams(b, 3), Ngrams(a, 3)) = RefOverlap(b, a, 3)
  BY <1>4, OverlapIsExact
<1> QED
  BY <1>1, <1>3, <1>5, LcsIsExact, SpanIsExact

(* The dynamic programs of the gate (scoring_core.py:279, 295, 309) are    *)
(* exact on every set of lists, however long: the longest common           *)
(* subsequence, the longest common run and the runs of n in common, each   *)
(* counted as often as both have it.                                       *)
THEOREM ScorerIsExact ==
  ASSUME NEW texts, \A a \in texts : IsList(a)
  PROVE  ExactOn(texts)
<1> SUFFICES ASSUME NEW a \in texts, NEW b \in texts
             PROVE  /\ LcsLength(a, b) = RefLcs(a, b)
                    /\ LongestCommonSpan(a, b) = RefSpan(a, b)
                    /\ \A n \in {2, 3} : Overlap(Ngrams(a, n), Ngrams(b, n)) = RefOverlap(a, b, n)
                    /\ BagCardinality(Ngrams(a, 3)) = Max({0, Len(a) - 2})
  BY DEF ExactOn
<1>1. IsList(a) /\ IsList(b)
  OBVIOUS
<1> QED
  BY <1>1, ListsAreMeasured

(* The channels of a text are lists, the units cut it up without loss.     *)
LEMMA ChannelsAreLists ==
  ASSUME NEW text, IsText(text)
  PROVE  IsList(LexicalUnits(text)) /\ IsList(Skeleton(text))
BY UnitsFacts, SkeletonIsList

(* On all short sequences and texts, which are lists, the dynamic programs *)
(* agree with their references, the units hold what the skeleton holds and *)
(* are not empty, and collapsing is done once: what ScorersMatchReference  *)
(* checks by evaluation follows from what holds of all lists.              *)
THEOREM ScorersMatchReferenceProved == Spec => []ScorersMatchReference
<1>1. ASSUME NEW S, NEW n \in Nat, NEW s \in BoundedSeq(S, n) PROVE s \in Seq(S)
  BY DEF BoundedSeq, SeqOf
<1>2. ExactOn(ShortTexts)
  BY <1>1, SeqIsList, ScorerIsExact DEF ShortTexts
<1>3. \A a, b \in ShortTexts : Levenshtein(a, b) = RefDistance(a, b)
  BY <1>1, SeqIsList, DistanceIsExact DEF ShortTexts
<1>4. ASSUME NEW text \in BoundedSeq(Characters, 3)
      PROVE  /\ Concatenated(LexicalUnits(text)) = Skeleton(text)
             /\ <<>> \notin Range(LexicalUnits(text))
             /\ Collapsed(Collapsed(text)) = Collapsed(text)
  <2>1. text \in Seq(Characters)
    BY <1>1
  <2>2. IsText(text)
    BY <2>1, SeqIsList DEF IsText, Characters
  <2> QED
    BY <2>1, <2>2, UnitsFacts, CollapsedOnce
<1>5. Algorithms
  BY <1>2, <1>3, <1>4 DEF Algorithms
<1>6. ScorersMatchReference
  BY <1>5 DEF ScorersMatchReference
<1> QED
  BY <1>6, PTL

-----------------------------------------------------------------------------
(* The gate: its channels are lists, so its scorer is exact on them.       *)

LEMMA MaxOfTwo ==
  ASSUME NEW n \in Int, n >= 1
  PROVE  Max({0, n}) = n
<1>1. n \in {0, n} /\ \A y \in {0, n} : n >= y
  OBVIOUS
<1>2. \A x \in {0, n} : (\A y \in {0, n} : x >= y) => x = n
  OBVIOUS
<1> QED
  BY <1>1, <1>2, Zenon DEF Max

(* A control character in the text is found.                               *)
LEMMA FailsClosed ==
  ASSUME NEW text, IsList(text), NEW i \in DOMAIN text, text[i] \in Bidi \cup Compat
  PROVE  FailClosedReason(text) # "none"
<1> DEFINE T == {j \in 1..Len(text) : text[j] \in Bidi \cup Compat}
<1>1. i \in T /\ T \subseteq Nat
  BY ListFacts
<1>2. Min(T) # 0
  <2>1. Min(T) \in T
    BY <1>1, LeastIsLeast
  <2> QED
    BY <2>1
<1>3. SelectInSeq(text, LAMBDA c : c \in Bidi \cup Compat) = Min(T)
  BY <1>1 DEF SelectInSeq
<1> QED
  BY <1>2, <1>3 DEF FailClosedReason

(* What reaches a threshold by the reference reaches it in the gate.       *)
LEMMA ReachesReference ==
  ASSUME NEW a, IsList(a), NEW b, IsList(b),
         NEW bound, RefReaches(a, b, bound)
  PROVE  Reaches(Channel(a, b), bound)
<1>1. /\ LcsLength(a, b) = RefLcs(a, b) /\ LongestCommonSpan(a, b) = RefSpan(a, b)
      /\ Overlap(Ngrams(b, 3), Ngrams(a, 3)) = RefOverlap(b, a, 3)
      /\ BagCardinality(Ngrams(b, 3)) = Max({0, Len(b) - 2})
  BY ListsAreMeasured
<1>2. a # <<>> /\ b # <<>>
  BY DEF RefReaches
<1> DEFINE count == BagCardinality(Ngrams(b, 3))
<1>3. Channel(a, b) = [lcs |-> <<LcsLength(a, b), Len(b)>>,
                       recall |-> IF count = 0 THEN <<0, 1>>
                                  ELSE <<Overlap(Ngrams(b, 3), Ngrams(a, 3)), count>>,
                       span |-> LongestCommonSpan(a, b)]
  BY <1>2 DEF Channel
<1>4. CASE RefLcs(a, b) * bound.lcs[2] >= bound.lcs[1] * Len(b)
  BY <1>1, <1>3, <1>4 DEF Reaches, AtLeast
<1>5. CASE /\ Len(b) >= 3
           /\ RefOverlap(b, a, 3) * bound.recall[2] >= bound.recall[1] * (Len(b) - 2)
  <2>1. Len(b) \in Nat /\ Len(b) - 2 >= 1
    BY <1>1, <1>5, ListFacts
  <2>2. count = Len(b) - 2 /\ count # 0
    <3>1. PICK n \in Int : n = Len(b) - 2
      BY <2>1
    <3>2. count = Max({0, n}) /\ n >= 1
      BY <1>1, <2>1, <3>1
    <3>3. Max({0, n}) = n
      BY <3>2, MaxOfTwo
    <3> QED
      BY <3>1, <3>2, <3>3
  <2>3. Channel(a, b).recall = <<RefOverlap(b, a, 3), Len(b) - 2>>
    BY <1>1, <1>3, <2>2
  <2> QED
    BY <1>5, <2>3 DEF Reaches, AtLeast
<1>6. CASE RefSpan(a, b) >= bound.span
  BY <1>1, <1>3, <1>6 DEF Reaches
<1> QED
  BY <1>4, <1>5, <1>6 DEF RefReaches

LEMMA LeakIsGated ==
  ASSUME NEW items \in Datasets, NEW i \in DOMAIN items, NEW p \in DOMAIN items[i].ladder,
         RefLeaks(items[i].ladder[p].text, items[i].target)
  PROVE  Gate(items[i].ladder[p], items[i]).disqualified
<1> DEFINE prompt == items[i].ladder[p].text
           target == items[i].target
<1>1. /\ IsList(LexicalUnits(prompt)) /\ IsList(LexicalUnits(target))
      /\ IsList(Skeleton(prompt)) /\ IsList(Skeleton(target))
  BY DatasetAssumption, ChannelsAreLists
<1>2. IsList(prompt)
  BY DatasetAssumption DEF IsText
<1>3. Gate(items[i].ladder[p], items[i]).disqualified
        <=> \/ FailClosedReason(prompt) # "none"
            \/ Reaches(Channel(LexicalUnits(prompt), LexicalUnits(target)), Thresholds.units)
            \/ Reaches(Channel(Skeleton(prompt), Skeleton(target)), Thresholds.skeleton)
  BY DEF Gate, EvaluateLeakage, Verdict
<1> HIDE DEF prompt, target
<1>4. CASE \E j \in DOMAIN prompt : prompt[j] \in Bidi \cup Compat
  BY <1>2, <1>3, <1>4, FailsClosed
<1>5. CASE RefReaches(LexicalUnits(prompt), LexicalUnits(target), Thresholds.units)
  BY <1>1, <1>3, <1>5, ReachesReference
<1>6. CASE RefReaches(Skeleton(prompt), Skeleton(target), Thresholds.skeleton)
  BY <1>1, <1>3, <1>6, ReachesReference
<1> QED
  BY <1>4, <1>5, <1>6 DEF RefLeaks, prompt, target

(* No prompt that gives its target away, by the reference definitions,     *)
(* reaches a hosted model (frozen_ladder.py:294), whatever its author      *)
(* declared of it and however long the texts of the datasets are.          *)
THEOREM LeaksAreNeverSentProved == Spec => []LeaksAreNeverSent
<1>1. CommandInv => LeaksAreNeverSent
  <2> SUFFICES ASSUME CommandInv, NEW pair \in sent, pair \in Leaks PROVE FALSE
    BY DEF LeaksAreNeverSent
  <2>1. dataset \in Datasets /\ ~Refused(dataset)
    BY DEF CommandInv, CommandTypeOK, Started
  <2>2. PICK i \in DOMAIN dataset : \E p \in DOMAIN dataset[i].ladder :
          /\ RefLeaks(dataset[i].ladder[p].text, dataset[i].target)
          /\ pair = <<dataset[i].id, p>>
    BY <2>1 DEF Leaks, LeaksOf
  <2>3. PICK p \in DOMAIN dataset[i].ladder :
          /\ RefLeaks(dataset[i].ladder[p].text, dataset[i].target)
          /\ pair = <<dataset[i].id, p>>
    BY <2>2
  <2>4. PICK j \in DOMAIN dataset : \E q \in DOMAIN dataset[j].ladder :
          /\ ~Gate(dataset[j].ladder[q], dataset[j]).disqualified
          /\ pair = <<dataset[j].id, q>>
    <3>1. PICK s \in Sendable(dataset) : pair = <<dataset[s[1]].id, s[2]>>
      BY DEF CommandInv, SentPassed
    <3> QED
      BY <3>1 DEF Sendable
  <2>5. PICK q \in DOMAIN dataset[j].ladder :
          /\ ~Gate(dataset[j].ladder[q], dataset[j]).disqualified
          /\ pair = <<dataset[j].id, q>>
    BY <2>4
  <2>6. i = j /\ p = q
    BY <2>1, <2>3, <2>5 DEF Refused, IsInjective
  <2> QED
    BY <2>1, <2>3, <2>5, <2>6, LeakIsGated
<1> QED
  BY <1>1, CommandInvariant, PTL

-----------------------------------------------------------------------------
(* The verifier's verdict, on whatever it has read.                        *)

(* It starts when the command is done; what passed its check is accepted,  *)
(* and nothing is read after it.                                           *)
VerdictInv ==
  /\ vpc # "idle" => phase = "done"
  /\ vpc \in {"recheck", "reported"} /\ ~errors =>
       Accepts(read.dataset, read.result, read.manifest)

LEMMA SameVerdict ==
  ASSUME VerdictInv, phase' = phase, dataset' = dataset, read' = read, vpc' = vpc,
         errors' = errors
  PROVE  VerdictInv'
BY DEF VerdictInv, Accepts

LEMMA VerdictStep ==
  ASSUME VerdictInv, [Next]_vars
  PROVE  VerdictInv'
<1>1. CASE Bench
  <2>1. vpc' = vpc
    BY <1>1 DEF Bench, verifyVars
  <2>2. phase # "done"
    BY <1>1 DEF Bench, BenchNext, Load, Gatekeep, Score, FinishItem, GenerateFails,
       GenerateMock, GenerateHosted, AtPrompt
  <2> QED
    BY <2>1, <2>2 DEF VerdictInv
<1>2. CASE \E environment \in Environments : WriteManifest(environment)
  BY <1>2, SameVerdict DEF WriteManifest, benchVars, verifyVars
<1>3. CASE WriteResult \/ Edit
  BY <1>3, SameVerdict DEF WriteResult, Edit, benchVars, verifyVars
<1>4. CASE StartVerify \/ Open \/ Read
  <2>1. vpc' \in {"open", "read", "check"} /\ phase' = "done"
    BY <1>4, OrderCovers DEF StartVerify, Open, Read, Advance, benchVars, VerdictInv
  <2> QED
    BY <2>1 DEF VerdictInv
<1>5. CASE Check
  <2>1. /\ phase' = phase /\ dataset' = dataset /\ read' = read /\ vpc = "check"
        /\ ~errors' => Accepts(read.dataset, read.result, read.manifest)
    BY <1>5 DEF Check, benchVars
  <2> QED
    BY <2>1 DEF VerdictInv, Accepts
<1>6. CASE Recheck
  <2>1. /\ phase' = phase /\ dataset' = dataset /\ read' = read /\ vpc = "recheck"
        /\ ~errors' => ~errors
    BY <1>6 DEF Recheck, benchVars
  <2> QED
    BY <2>1 DEF VerdictInv, Accepts
<1>7. CASE UNCHANGED vars
  BY <1>7, SameVerdict DEF vars, benchVars, verifyVars
<1> QED
  BY <1>1, <1>2, <1>3, <1>4, <1>5, <1>6, <1>7 DEF Next, VerifyStep

THEOREM VerdictInvariant == Spec => []VerdictInv
<1>1. Init => VerdictInv
  BY DEF Init, VerdictInv
<1>2. VerdictInv /\ [Next]_vars => VerdictInv'
  BY VerdictStep
<1> QED
  BY <1>1, <1>2, PTL DEF Spec

-----------------------------------------------------------------------------
(* The gate stops nothing but leaks, either.                               *)

LEMMA MaxOfLess ==
  ASSUME NEW n \in Int, n <= 0
  PROVE  Max({0, n}) = 0
<1>1. 0 \in {0, n} /\ \A y \in {0, n} : 0 >= y
  OBVIOUS
<1>2. \A x \in {0, n} : (\A y \in {0, n} : x >= y) => x = 0
  OBVIOUS
<1> QED
  BY <1>1, <1>2, Zenon DEF Max

LEMMA FoundInText ==
  ASSUME NEW text, IsList(text), FailClosedReason(text) # "none"
  PROVE  \E i \in DOMAIN text : text[i] \in Bidi \cup Compat
<1> DEFINE T == {j \in 1..Len(text) : text[j] \in Bidi \cup Compat}
<1>1. T # {}
  <2>1. T = {} => SelectInSeq(text, LAMBDA c : c \in Bidi \cup Compat) = 0
    BY DEF SelectInSeq
  <2> QED
    BY <2>1 DEF FailClosedReason
<1> QED
  BY <1>1, ListFacts

LEMMA ReferenceReaches ==
  ASSUME NEW a, IsList(a), NEW b, IsList(b),
         NEW bound, \A ratio \in {bound.lcs, bound.recall} :
                      ratio[2] \in Nat \ {0} /\ ratio[1] \in 0..ratio[2] /\ ratio[1] > 0,
         bound.span \in Nat \ {0},
         Reaches(Channel(a, b), bound)
  PROVE  RefReaches(a, b, bound)
<1>1. /\ LcsLength(a, b) = RefLcs(a, b) /\ LongestCommonSpan(a, b) = RefSpan(a, b)
      /\ Overlap(Ngrams(b, 3), Ngrams(a, 3)) = RefOverlap(b, a, 3)
      /\ BagCardinality(Ngrams(b, 3)) = Max({0, Len(b) - 2})
      /\ Len(b) \in Nat
  BY ListFacts, ListsAreMeasured
<1>2. /\ bound.lcs[2] \in Nat /\ bound.lcs[1] \in Nat /\ bound.lcs[1] > 0
      /\ bound.recall[2] \in Nat /\ bound.recall[1] \in Nat /\ bound.recall[1] > 0
  OBVIOUS
<1>3. ~AtLeast(<<0, 1>>, bound.lcs) /\ ~AtLeast(<<0, 1>>, bound.recall)
  BY <1>2 DEF AtLeast
<1>4. a # <<>> /\ b # <<>>
  <2> SUFFICES ASSUME a = <<>> \/ b = <<>> PROVE FALSE
    OBVIOUS
  <2>1. Channel(a, b) = [lcs |-> <<0, 1>>, recall |-> <<0, 1>>, span |-> 0]
    BY DEF Channel
  <2>2. ~(0 >= bound.span)
    OBVIOUS
  <2> QED
    BY <1>3, <2>1, <2>2 DEF Reaches
<1> DEFINE count == BagCardinality(Ngrams(b, 3))
<1>5. Channel(a, b) = [lcs |-> <<LcsLength(a, b), Len(b)>>,
                       recall |-> IF count = 0 THEN <<0, 1>>
                                  ELSE <<Overlap(Ngrams(b, 3), Ngrams(a, 3)), count>>,
                       span |-> LongestCommonSpan(a, b)]
  BY <1>4 DEF Channel
<1>6. CASE AtLeast(<<RefLcs(a, b), Len(b)>>, bound.lcs)
  BY <1>4, <1>6 DEF AtLeast, RefReaches
<1>7. CASE AtLeast(Channel(a, b).recall, bound.recall)
  <2>1. count # 0 /\ Channel(a, b).recall = <<RefOverlap(b, a, 3), count>>
    BY <1>1, <1>3, <1>5, <1>7
  <2>2. PICK n \in Int : n = Len(b) - 2
    <3>1. Len(b) - 2 \in Int
      BY <1>1
    <3> QED
      BY <3>1, Zenon
  <2>3. count = Max({0, n})
    BY <1>1, <2>2
  <2>4. ~(n <= 0)
    BY <2>1, <2>3, MaxOfLess
  <2>5. count = n /\ Len(b) >= 3
    <3>1. n >= 1
      BY <2>4
    <3>2. Max({0, n}) = n
      BY <3>1, MaxOfTwo
    <3> QED
      BY <1>1, <2>2, <2>3, <3>1, <3>2
  <2>6. RefOverlap(b, a, 3) * bound.recall[2] >= bound.recall[1] * (Len(b) - 2)
    BY <1>7, <2>1, <2>2, <2>5 DEF AtLeast
  <2> QED
    BY <1>4, <2>5, <2>6 DEF RefReaches
<1>8. CASE LongestCommonSpan(a, b) >= bound.span
  BY <1>1, <1>4, <1>8 DEF RefReaches
<1> QED
  BY <1>1, <1>5, <1>6, <1>7, <1>8 DEF Reaches

LEMMA GateIsExact ==
  ASSUME NEW items \in Datasets, NEW i \in DOMAIN items, NEW p \in DOMAIN items[i].ladder
  PROVE  Gate(items[i].ladder[p], items[i]).disqualified
           <=> RefLeaks(items[i].ladder[p].text, items[i].target)
<1> SUFFICES ASSUME Gate(items[i].ladder[p], items[i]).disqualified
             PROVE  RefLeaks(items[i].ladder[p].text, items[i].target)
  BY LeakIsGated
<1> DEFINE prompt == items[i].ladder[p].text
           target == items[i].target
<1>1. /\ IsList(LexicalUnits(prompt)) /\ IsList(LexicalUnits(target))
      /\ IsList(Skeleton(prompt)) /\ IsList(Skeleton(target))
  BY DatasetAssumption, ChannelsAreLists
<1>2. IsList(prompt)
  BY DatasetAssumption DEF IsText
<1>3. \/ FailClosedReason(prompt) # "none"
      \/ Reaches(Channel(LexicalUnits(prompt), LexicalUnits(target)), Thresholds.units)
      \/ Reaches(Channel(Skeleton(prompt), Skeleton(target)), Thresholds.skeleton)
  BY DEF Gate, EvaluateLeakage, Verdict
<1> HIDE DEF prompt, target
<1>4. \A bound \in {Thresholds.units, Thresholds.skeleton} :
        /\ \A ratio \in {bound.lcs, bound.recall} :
             ratio[2] \in Nat \ {0} /\ ratio[1] \in 0..ratio[2] /\ ratio[1] > 0
        /\ bound.span \in Nat \ {0}
  BY LadderAssumption, SMTT(40) DEF ThresholdsValid
<1>5. CASE FailClosedReason(prompt) # "none"
  BY <1>2, <1>5, FoundInText DEF RefLeaks, prompt, target
<1>6. CASE Reaches(Channel(LexicalUnits(prompt), LexicalUnits(target)), Thresholds.units)
  <2>1. RefReaches(LexicalUnits(prompt), LexicalUnits(target), Thresholds.units)
    BY <1>1, <1>4, <1>6, ReferenceReaches
  <2> QED
    BY <2>1 DEF RefLeaks, prompt, target
<1>7. CASE Reaches(Channel(Skeleton(prompt), Skeleton(target)), Thresholds.skeleton)
  <2>1. RefReaches(Skeleton(prompt), Skeleton(target), Thresholds.skeleton)
    BY <1>1, <1>4, <1>7, ReferenceReaches
  <2> QED
    BY <2>1 DEF RefLeaks, prompt, target
<1> QED
  BY <1>3, <1>5, <1>6, <1>7

-----------------------------------------------------------------------------
(* What the verifier accepts.                                              *)

(* The run that it looks at for a model and an item is in the result.      *)
LEMMA RunIsFound ==
  ASSUME NEW result, IsList(result.itemRuns), NEW model, NEW item,
         NEW k \in DOMAIN result.itemRuns,
         result.itemRuns[k].model = model, result.itemRuns[k].item = item.id
  PROVE  \E n \in DOMAIN result.itemRuns :
           /\ RunOf(result, model, item) = result.itemRuns[n]
           /\ result.itemRuns[n].model = model /\ result.itemRuns[n].item = item.id
<1> DEFINE T == {n \in 1..Len(result.itemRuns) :
                   result.itemRuns[n].model = model /\ result.itemRuns[n].item = item.id}
<1>1. DOMAIN result.itemRuns = 1..Len(result.itemRuns)
  BY ListFacts
<1>2. k \in T /\ T \subseteq Nat
  BY <1>1
<1>3. Min(T) \in T
  BY <1>2, LeastIsLeast
<1>4. RunOf(result, model, item) = result.itemRuns[Min(T)]
  BY <1>2 DEF RunOf, SelectInSeq
<1> QED
  BY <1>1, <1>3, <1>4

(* Every model and every item has a run.                                   *)
LEMMA CoveredHasRun ==
  ASSUME NEW items, NEW result, Shaped(result), ResultCovers(items, result),
         NEW model \in ResultModels(result), NEW i \in DOMAIN items
  PROVE  \E n \in DOMAIN result.itemRuns :
           /\ RunOf(result, model, items[i]) = result.itemRuns[n]
           /\ result.itemRuns[n].model = model /\ result.itemRuns[n].item = items[i].id
<1> DEFINE pairs == {<<result.itemRuns[n].model, result.itemRuns[n].item>> :
                       n \in DOMAIN result.itemRuns}
<1>1. pairs = ResultModels(result) \X ItemIds(items)
  BY DEF ResultCovers
<1>2. items[i].id \in ItemIds(items)
  BY DEF ItemIds
<1>3. <<model, items[i].id>> \in pairs
  BY <1>1, <1>2
<1>4. PICK k \in DOMAIN result.itemRuns :
        <<result.itemRuns[k].model, result.itemRuns[k].item>> = <<model, items[i].id>>
  BY <1>3
<1>5. IsList(result.itemRuns)
  BY DEF Shaped
<1> QED
  BY <1>4, <1>5, RunIsFound

(* A row of a run that was replayed is the measurement of its own outputs. *)
LEMMA RowIsMeasured ==
  ASSUME NEW item, NEW model, NEW run, run = Replayed(item, model, run),
         NEW p \in DOMAIN item.ladder, NEW row, row = run.measurements[p]
  PROVE  row.fidelity =
           IF Gate(item.ladder[p], item).disqualified THEN 0
           ELSE MeanOf([o \in DOMAIN row.outputs |->
                  Fidelity(item.target, row.outputs[o], item.metricClass)])
<1> DEFINE Answered(q) ==
             LET r == run.measurements[q]
             IN [n \in DOMAIN r.outputs |->
                   [text |-> r.outputs[n],
                    source |-> IF EvidenceMode(model) = "mock" THEN "none" ELSE r.receipts[n]]]
           points == [q \in DOMAIN item.ladder |-> Measurement(model, item, q, Answered(q))]
<1>1. run = ItemRun(model, item, points)
  BY DEF Replayed
<1>2. ItemRun(model, item, points).measurements = points
  BY SMTT(40) DEF ItemRun
<1>3. row = Measurement(model, item, p, Answered(p))
  BY <1>1, <1>2
<1>4. Answered(p) = [n \in DOMAIN row.outputs |->
                       [text |-> row.outputs[n],
                        source |-> IF EvidenceMode(model) = "mock" THEN "none"
                                   ELSE row.receipts[n]]]
  OBVIOUS
<1> HIDE DEF Answered, points
<1>5. [n \in DOMAIN Answered(p) |-> Fidelity(item.target, Answered(p)[n].text, item.metricClass)]
        = [o \in DOMAIN row.outputs |-> Fidelity(item.target, row.outputs[o], item.metricClass)]
  BY <1>4
<1>6. Measurement(model, item, p, Answered(p)).fidelity =
        IF Gate(item.ladder[p], item).disqualified THEN 0
        ELSE MeanOf([n \in DOMAIN Answered(p) |->
               Fidelity(item.target, Answered(p)[n].text, item.metricClass)])
  BY DEF Measurement
<1> QED
  BY <1>3, <1>5, <1>6, SMTT(40)

(* A run of one model on one item, with what its rows must hold.           *)
ScoredRun(items, i, model, run) ==
  /\ run.model = model /\ run.item = items[i].id
  /\ \A p \in DOMAIN items[i].ladder :
       LET row == run.measurements[p]
       IN IF RefLeaks(items[i].ladder[p].text, items[i].target)
          THEN row.outputs = <<>> /\ row.fidelity = 0
          ELSE /\ Len(row.outputs) = EffectiveReruns(model)
               /\ row.fidelity = MeanOf([o \in DOMAIN row.outputs |->
                    Fidelity(items[i].target, row.outputs[o], items[i].metricClass)])

LEMMA AcceptedIsScored ==
  ASSUME NEW items \in Datasets, ~Refused(items), NEW result,
         Shaped(result), ResultCovers(items, result), ResultReplays(items, result),
         NEW r \in DOMAIN result.models, NEW i \in DOMAIN items
  PROVE  \E run \in Range(result.itemRuns) : ScoredRun(items, i, result.models[r].model, run)
<1> DEFINE model == result.models[r].model
           run == RunOf(result, model, items[i])
<1>1. model \in ResultModels(result)
  BY DEF ResultModels
<1>2. PICK n \in DOMAIN result.itemRuns :
        /\ run = result.itemRuns[n]
        /\ result.itemRuns[n].model = model /\ result.itemRuns[n].item = items[i].id
  BY <1>1, CoveredHasRun
<1>3. Replayable(items[i], model, run) /\ run = Replayed(items[i], model, run)
  BY DEF ResultReplays
<1>4. DOMAIN run.measurements = DOMAIN items[i].ladder
  BY <1>1 DEF ResultCovers
<1> HIDE DEF model, run
<1>5. run \in Range(result.itemRuns) /\ run.model = model /\ run.item = items[i].id
  BY <1>2 DEF Range
<1>6. ASSUME NEW p \in DOMAIN items[i].ladder, NEW row, row = run.measurements[p]
      PROVE  IF RefLeaks(items[i].ladder[p].text, items[i].target)
             THEN row.outputs = <<>> /\ row.fidelity = 0
             ELSE /\ Len(row.outputs) = EffectiveReruns(model)
                  /\ row.fidelity = MeanOf([o \in DOMAIN row.outputs |->
                       Fidelity(items[i].target, row.outputs[o], items[i].metricClass)])
  <2>1. IsList(row.outputs)
    BY <1>2, <1>4, <1>6 DEF Shaped
  <2>2. Gate(items[i].ladder[p], items[i]).disqualified
          <=> RefLeaks(items[i].ladder[p].text, items[i].target)
    BY GateIsExact
  <2>3. Gate(items[i].ladder[p], items[i]).disqualified = items[i].ladder[p].leaky
    BY DEF Refused
  <2>4. Len(row.outputs) = IF items[i].ladder[p].leaky THEN 0 ELSE EffectiveReruns(model)
    BY <1>3, <1>6 DEF Replayable
  <2>5. row.fidelity =
          IF Gate(items[i].ladder[p], items[i]).disqualified THEN 0
          ELSE MeanOf([o \in DOMAIN row.outputs |->
                 Fidelity(items[i].target, row.outputs[o], items[i].metricClass)])
    BY <1>3, <1>6, RowIsMeasured
  <2>6. Len(row.outputs) = 0 => row.outputs = <<>>
    BY <2>1, ListFacts
  <2> QED
    BY <2>2, <2>3, <2>4, <2>5, <2>6
<1>7. ScoredRun(items, i, model, run)
  BY <1>5, <1>6 DEF ScoredRun
<1> QED
  BY <1>5, <1>7 DEF model

(* What the verifier accepts, whatever was edited or forged, is a complete *)
(* run of the frozen dataset by the models of the manifest (verify.py:687, *)
(* 745, 893, 1018): no output to a leaking prompt, all reruns of every     *)
(* other one, every fidelity that of the retained outputs.                 *)
THEOREM VerifiedIsScoredProved == Spec => []VerifiedIsScored
<1>1. CommandInv /\ VerdictInv => VerifiedIsScored
  <2> SUFFICES ASSUME CommandInv, VerdictInv, Verified PROVE VerifiedIsScored
    BY DEF VerifiedIsScored
  <2> DEFINE result == read.result
             manifest == read.manifest
  <2>1. phase = "done" /\ Accepts(read.dataset, result, manifest)
    BY DEF VerdictInv, Verified
  <2>2. dataset \in Datasets /\ ~Refused(dataset)
    BY <2>1 DEF CommandInv, CommandTypeOK, Started
  <2>3. /\ read.dataset = dataset /\ Shaped(result) /\ ResultCovers(dataset, result)
        /\ ResultReplays(dataset, result) /\ Agree(result, manifest)
    BY <2>1 DEF Accepts
  <2> HIDE DEF result, manifest
  <2>4. ASSUME NEW n \in DOMAIN manifest.models
        PROVE  \E r \in DOMAIN result.models :
                 /\ result.models[r].model = manifest.models[n].model
                 /\ result.models[r].identity = manifest.models[n].identity
    <3>1. <<manifest.models[n].model, manifest.models[n].identity>>
            \in {<<result.models[r].model, result.models[r].identity>> :
                   r \in DOMAIN result.models}
      BY <2>3 DEF Agree
    <3> QED
      BY <3>1
  <2>5. \A i \in DOMAIN dataset : \A p \in DOMAIN dataset[i].ladder :
          <<i, p>> \in LeaksOf[dataset]
            <=> RefLeaks(dataset[i].ladder[p].text, dataset[i].target)
    BY <2>2 DEF LeaksOf
  <2>6. ASSUME NEW n \in DOMAIN manifest.models, NEW i \in DOMAIN dataset
        PROVE  \E run \in Range(result.itemRuns) :
                 /\ run.model = manifest.models[n].model /\ run.item = dataset[i].id
                 /\ \A p \in DOMAIN dataset[i].ladder :
                      LET row == run.measurements[p]
                      IN IF <<i, p>> \in LeaksOf[dataset]
                         THEN row.outputs = <<>> /\ row.fidelity = 0
                         ELSE /\ Len(row.outputs) = EffectiveReruns(manifest.models[n].model)
                              /\ row.fidelity = MeanOf([o \in DOMAIN row.outputs |->
                                   Fidelity(dataset[i].target, row.outputs[o],
                                            dataset[i].metricClass)])
    <3>1. PICK r \in DOMAIN result.models : result.models[r].model = manifest.models[n].model
      BY <2>4
    <3>2. PICK run \in Range(result.itemRuns) :
            ScoredRun(dataset, i, result.models[r].model, run)
      BY <2>2, <2>3, AcceptedIsScored
    <3> QED
      BY <2>5, <3>1, <3>2 DEF ScoredRun
  <2> QED
    BY <2>3, <2>4, <2>6 DEF VerifiedIsScored, result, manifest
<1> QED
  BY <1>1, CommandInvariant, VerdictInvariant, PTL

-----------------------------------------------------------------------------
(* The frontier, ECL and Elicit of any ladder.                             *)

(* Finitely many numbers have a greatest one.                              *)
LEMMA GreatestIsGreatest ==
  ASSUME NEW n \in Nat, n > 0, NEW f, \A p \in 1..n : f[p] \in Nat,
         NEW S, S = {f[p] : p \in 1..n}
  PROVE  Max(S) \in S /\ \A y \in S : y <= Max(S)
<1> DEFINE Bounded(k) == \E b \in Nat : \A p \in 1..k : f[p] <= b
           X == {k \in 0..n : ~Bounded(k)}
<1>1. X = {}
  <2> SUFFICES ASSUME X # {} PROVE FALSE
    OBVIOUS
  <2>1. X \subseteq Nat
    OBVIOUS
  <2>2. PICK k \in X : \A y \in X : k <= y
    <3> HIDE DEF X
    <3> QED
      BY <2>1, LeastIsLeast, Zenon
  <2>3. k \in 0..n /\ ~Bounded(k)
    OBVIOUS
  <2>4. k # 0
    <3>1. \A p \in 1..0 : f[p] <= 0
      OBVIOUS
    <3> QED
      BY <2>3, <3>1
  <2>5. k - 1 \in 0..n /\ ~(k <= k - 1)
    BY <2>3, <2>4
  <2>6. Bounded(k - 1)
    <3>1. k - 1 \notin X
      BY <2>2, <2>5, Zenon
    <3> QED
      BY <2>5, <3>1, Zenon
  <2>7. PICK b \in Nat : \A p \in 1..(k - 1) : f[p] <= b
    BY <2>6
  <2>8. k \in 1..n /\ f[k] \in Nat
    BY <2>3, <2>4
  <2>9. \A p \in 1..k : f[p] <= b + f[k]
    <3> SUFFICES ASSUME NEW p \in 1..k PROVE f[p] <= b + f[k]
      OBVIOUS
    <3>1. f[p] \in Nat
      BY <2>3
    <3>2. p = k \/ p \in 1..(k - 1)
      BY <2>3
    <3> QED
      BY <2>7, <2>8, <3>1, <3>2
  <2>10. b + f[k] \in Nat
    BY <2>8
  <2> QED
    BY <2>3, <2>9, <2>10, Zenon
<1>2. PICK b \in Nat : \A p \in 1..n : f[p] <= b
  <2>1. n \in 0..n /\ n \notin X
    BY <1>1
  <2>2. Bounded(n)
    BY <2>1, Zenon
  <2> QED
    BY <2>2
<1> DEFINE U == {u \in Nat : \A y \in S : y <= u}
<1>3. b \in U
  BY <1>2
<1>4. PICK u \in U : \A v \in U : u <= v
  <2>1. U \subseteq Nat /\ U # {}
    BY <1>3
  <2> QED
    BY <2>1, LeastIsLeast, Zenon
<1>5. u \in Nat /\ \A y \in S : y \in Nat /\ y <= u
  OBVIOUS
<1>6. u \in S
  <2> SUFFICES ASSUME u \notin S PROVE FALSE
    OBVIOUS
  <2>1. \A y \in S : y \in Nat /\ y < u
    BY <1>5
  <2>2. f[1] \in S
    OBVIOUS
  <2>3. u - 1 \in Nat
    BY <1>5, <2>1, <2>2
  <2>4. \A y \in S : y <= u - 1
    BY <1>5, <2>1
  <2>5. u - 1 \in U
    BY <2>3, <2>4
  <2>6. ~(u <= u - 1)
    BY <1>5
  <2> HIDE DEF U
  <2> QED
    BY <1>4, <2>5, <2>6, Zenon
<1> HIDE DEF U
<1>7. \A y \in S : u >= y
  BY <1>5
<1>8. Max(S) \in S /\ \A y \in S : Max(S) >= y
  BY <1>6, <1>7, Zenon DEF Max
<1>9. PICK m \in S : m = Max(S)
  BY <1>8, Zenon
<1>10. \A y \in S : y <= m
  <2> SUFFICES ASSUME NEW y \in S PROVE y <= m
    OBVIOUS
  <2>1. y \in Nat /\ m \in Nat
    BY <1>5
  <2>2. m >= y
    BY <1>8, <1>9, Zenon
  <2> QED
    BY <2>1, <2>2
<1> QED
  BY <1>8, <1>9, <1>10, Zenon

(* The points of a ladder as evaluate_item leaves them.                    *)
Scored(points) ==
  /\ IsList(points)
  /\ \A p \in DOMAIN points :
       /\ points[p].tokens \in Nat
       /\ points[p].fidelity \in 0..Unit /\ points[p].distortion = Unit - points[p].fidelity
       /\ points[p].disqualified \in BOOLEAN
Gated(points) == {p \in DOMAIN points : points[p].disqualified}

(* A point that no other eligible one of at most its length equals.        *)
Leads(points, p) ==
  \A q \in Eligible(points) :
    q # p /\ points[q].tokens <= points[p].tokens =>
      \/ points[p].distortion < points[q].distortion
      \/ /\ points[p].distortion = points[q].distortion
         /\ points[q].tokens = points[p].tokens /\ p < q

LEMMA PointFacts ==
  ASSUME NEW points, Scored(points)
  PROVE  /\ Unit \in Nat /\ Eligible(points) \subseteq Nat
         /\ Eligible(points) = DOMAIN points \ Gated(points)
         /\ \A p \in DOMAIN points :
              /\ points[p].tokens \in Nat /\ points[p].distortion \in Nat
              /\ points[p].distortion <= Unit
              /\ points[p].fidelity \in Nat
              /\ points[p].distortion = Unit - points[p].fidelity
<1>1. Unit \in Nat
  BY MetricsAssumption
<1>2. DOMAIN points = 1..Len(points)
  BY ListFacts DEF Scored
<1>3. Eligible(points) \subseteq Nat /\ Eligible(points) = DOMAIN points \ Gated(points)
  BY <1>2 DEF Eligible, Gated
<1>4. ASSUME NEW p \in DOMAIN points
      PROVE  /\ points[p].tokens \in Nat /\ points[p].distortion \in Nat
             /\ points[p].distortion <= Unit
             /\ points[p].fidelity \in Nat
             /\ points[p].distortion = Unit - points[p].fidelity
  <2>1. /\ points[p].tokens \in Nat /\ points[p].fidelity \in 0..Unit
        /\ points[p].distortion = Unit - points[p].fidelity
    BY DEF Scored
  <2> QED
    BY <1>1, <2>1
<1> QED
  BY <1>1, <1>3, <1>4

LEMMA LeadersEnter ==
  ASSUME NEW points, Scored(points), NEW p \in Eligible(points), Leads(points, p)
  PROVE  p \in Envelope(points)
<1>1. /\ Eligible(points) \subseteq DOMAIN points /\ Eligible(points) \subseteq Nat
      /\ \A q \in DOMAIN points : points[q].tokens \in Nat /\ points[q].distortion \in Nat
  BY PointFacts
<1>2. p \in ByLength(points)
  <2> SUFFICES ASSUME NEW j \in Eligible(points), points[j].tokens = points[p].tokens
               PROVE  \/ points[p].distortion < points[j].distortion
                      \/ points[p].distortion = points[j].distortion /\ p <= j
    BY DEF ByLength
  <2>1. CASE j = p
    BY <1>1, <2>1
  <2>2. CASE j # p
    <3>1. points[j].tokens <= points[p].tokens
      BY <1>1
    <3>2. \/ points[p].distortion < points[j].distortion
          \/ points[p].distortion = points[j].distortion /\ p < j
      BY <2>2, <3>1 DEF Leads
    <3> QED
      BY <1>1, <3>2
  <2> QED
    BY <2>1, <2>2
<1>3. ASSUME NEW j \in ByLength(points), points[j].tokens < points[p].tokens
      PROVE  points[p].distortion < points[j].distortion
  <2>1. j \in Eligible(points)
    BY DEF ByLength
  <2>2. points[j].tokens <= points[p].tokens /\ points[j].tokens # points[p].tokens /\ j # p
    BY <1>1, <1>3, <2>1
  <2> QED
    BY <2>1, <2>2 DEF Leads
<1> QED
  BY <1>2, <1>3 DEF Envelope

(* Among the eligible points of a set, one is least: in distortion, then in*)
(* length, then in its place.                                              *)
LEMMA LeastPoint ==
  ASSUME NEW points, Scored(points), NEW A, A \subseteq Eligible(points), A # {}
  PROVE  \E p \in A : \A q \in A :
           \/ points[p].distortion < points[q].distortion
           \/ /\ points[p].distortion = points[q].distortion
              /\ \/ points[p].tokens < points[q].tokens
                 \/ points[p].tokens = points[q].tokens /\ p <= q
<1>1. /\ A \subseteq Nat
      /\ \A q \in A : points[q].tokens \in Nat /\ points[q].distortion \in Nat
  BY PointFacts
<1> DEFINE D == {points[q].distortion : q \in A}
<1>2. PICK d \in D : \A e \in D : d <= e
  <2>1. D \subseteq Nat /\ D # {}
    BY <1>1
  <2> QED
    BY <2>1, LeastIsLeast, Zenon
<1> DEFINE T == {points[q].tokens : q \in {r \in A : points[r].distortion = d}}
<1>3. PICK t \in T : \A e \in T : t <= e
  <2>1. T \subseteq Nat /\ T # {}
    BY <1>1
  <2> QED
    BY <2>1, LeastIsLeast, Zenon
<1> DEFINE I == {r \in A : points[r].distortion = d /\ points[r].tokens = t}
<1>4. PICK p \in I : \A e \in I : p <= e
  <2>1. I \subseteq Nat /\ I # {}
    BY <1>1
  <2> QED
    BY <2>1, LeastIsLeast, Zenon
<1>5. p \in A /\ points[p].distortion = d /\ points[p].tokens = t
  OBVIOUS
<1>6. ASSUME NEW q \in A
      PROVE  \/ points[p].distortion < points[q].distortion
             \/ /\ points[p].distortion = points[q].distortion
                /\ \/ points[p].tokens < points[q].tokens
                   \/ points[p].tokens = points[q].tokens /\ p <= q
  <2>1. d <= points[q].distortion
    BY <1>2
  <2>2. points[q].distortion = d => t <= points[q].tokens
    BY <1>3
  <2>3. points[q].distortion = d /\ points[q].tokens = t => p <= q
    BY <1>4
  <2> HIDE DEF D, T, I
  <2> QED
    BY <1>1, <1>5, <2>1, <2>2, <2>3
<1> QED
  BY <1>5, <1>6

(* What a point offers, a point of the frontier offers for no more tokens. *)
LEMMA FrontierCovers ==
  ASSUME NEW points, Scored(points), NEW q \in Eligible(points)
  PROVE  \E p \in Envelope(points) :
           /\ p \in Eligible(points)
           /\ points[p].tokens <= points[q].tokens
           /\ points[p].distortion <= points[q].distortion
<1> DEFINE A == {r \in Eligible(points) : points[r].tokens <= points[q].tokens}
<1>1. /\ Eligible(points) \subseteq Nat
      /\ \A r \in Eligible(points) : points[r].tokens \in Nat /\ points[r].distortion \in Nat
  BY PointFacts
<1>2. q \in A /\ A \subseteq Eligible(points)
  BY <1>1
<1>3. PICK p \in A : \A r \in A :
           \/ points[p].distortion < points[r].distortion
           \/ /\ points[p].distortion = points[r].distortion
              /\ \/ points[p].tokens < points[r].tokens
                 \/ points[p].tokens = points[r].tokens /\ p <= r
  BY <1>2, LeastPoint
<1>4. Leads(points, p)
  <2> SUFFICES ASSUME NEW r \in Eligible(points), r # p, points[r].tokens <= points[p].tokens
               PROVE  \/ points[p].distortion < points[r].distortion
                      \/ /\ points[p].distortion = points[r].distortion
                         /\ points[r].tokens = points[p].tokens /\ p < r
    BY DEF Leads
  <2>1. r \in A
    BY <1>1
  <2> QED
    BY <1>1, <1>3, <2>1
<1>5. p \in Envelope(points)
  BY <1>2, <1>4, LeadersEnter
<1>6. points[p].distortion <= points[q].distortion
  BY <1>1, <1>2, <1>3
<1> QED
  BY <1>2, <1>5, <1>6

LEMMA FrontierLeads ==
  ASSUME NEW points, Scored(points), NEW p \in Envelope(points)
  PROVE  p \in Eligible(points) /\ Leads(points, p)
<1>1. /\ p \in ByLength(points) /\ p \in Eligible(points)
      /\ \A j \in ByLength(points) : points[j].tokens < points[p].tokens =>
           points[p].distortion < points[j].distortion
  BY DEF Envelope, ByLength
<1>2. /\ Eligible(points) \subseteq Nat
      /\ \A r \in Eligible(points) : points[r].tokens \in Nat /\ points[r].distortion \in Nat
  BY PointFacts
<1>3. ASSUME NEW q \in Eligible(points), q # p, points[q].tokens <= points[p].tokens
      PROVE  \/ points[p].distortion < points[q].distortion
             \/ /\ points[p].distortion = points[q].distortion
                /\ points[q].tokens = points[p].tokens /\ p < q
  <2>1. CASE points[q].tokens = points[p].tokens
    <3>1. \/ points[p].distortion < points[q].distortion
          \/ points[p].distortion = points[q].distortion /\ p <= q
      BY <1>1, <2>1 DEF ByLength
    <3> QED
      BY <1>1, <1>2, <1>3, <2>1, <3>1
  <2>2. CASE points[q].tokens # points[p].tokens
    <3> DEFINE A == {r \in Eligible(points) : points[r].tokens = points[q].tokens}
    <3>1. q \in A /\ A \subseteq Eligible(points)
      OBVIOUS
    <3>2. PICK j \in A : \A r \in A :
           \/ points[j].distortion < points[r].distortion
           \/ /\ points[j].distortion = points[r].distortion
              /\ \/ points[j].tokens < points[r].tokens
                 \/ points[j].tokens = points[r].tokens /\ j <= r
      BY <3>1, LeastPoint
    <3>3. j \in ByLength(points)
      <4> SUFFICES ASSUME NEW r \in Eligible(points), points[r].tokens = points[j].tokens
                   PROVE  \/ points[j].distortion < points[r].distortion
                          \/ points[j].distortion = points[r].distortion /\ j <= r
        BY DEF ByLength
      <4>1. r \in A
        OBVIOUS
      <4> QED
        BY <1>2, <3>2, <4>1
    <3>4. points[j].tokens < points[p].tokens /\ points[j].distortion <= points[q].distortion
      BY <1>1, <1>2, <1>3, <2>2, <3>1, <3>2
    <3>5. points[p].distortion < points[j].distortion
      BY <1>1, <3>3, <3>4
    <3> QED
      BY <1>1, <1>2, <3>4, <3>5
  <2> QED
    BY <2>1, <2>2
<1> QED
  BY <1>1, <1>3 DEF Leads

(* Every point of a ladder is as short as its longest.                     *)
LEMMA LongestIsLongest ==
  ASSUME NEW points, Scored(points), NEW p \in DOMAIN points
  PROVE  points[p].tokens <= Longest(points)
<1> DEFINE n == Len(points)
           f == [q \in DOMAIN points |-> points[q].tokens]
           S == {f[q] : q \in 1..n}
<1>1. n \in Nat /\ DOMAIN points = 1..n /\ n > 0
  BY ListFacts DEF Scored
<1>2. \A q \in 1..n : f[q] \in Nat
  BY <1>1, PointFacts
<1>3. {points[q].tokens : q \in DOMAIN points} = S
  BY <1>1
<1>4. f[p] \in S /\ f[p] = points[p].tokens
  BY <1>1
<1> HIDE DEF n, f
<1>5. \A y \in S : y <= Max(S)
  BY <1>1, <1>2, GreatestIsGreatest
<1> QED
  BY <1>3, <1>4, <1>5 DEF Longest

(* The best distortion that n tokens buy is a lower bound, and is reached. *)
LEMMA BestFacts ==
  ASSUME NEW points, Scored(points), NEW n
  PROVE  LET best == BestDistortion(points, Gated(points), n)
         IN /\ best \in Nat /\ best <= Unit
            /\ \A p \in Affordable(points, Gated(points), n) : best <= points[p].distortion
            /\ \/ best = Unit
               \/ \E p \in Affordable(points, Gated(points), n) : best = points[p].distortion
<1> DEFINE A == Affordable(points, Gated(points), n)
           D == {Unit} \cup {points[p].distortion : p \in A}
<1>1. Unit \in Nat /\ \A p \in A : points[p].distortion \in Nat
  BY PointFacts DEF Affordable
<1>2. D \subseteq Nat /\ D # {} /\ Unit \in D /\ \A p \in A : points[p].distortion \in D
  BY <1>1
<1>3. BestDistortion(points, Gated(points), n) = Min(D)
  BY DEF BestDistortion
<1>4. \A d \in D : d = Unit \/ \E p \in A : d = points[p].distortion
  OBVIOUS
<1> HIDE DEF A, D
<1>5. Min(D) \in D /\ Min(D) \in Nat /\ \A y \in D : Min(D) <= y
  BY <1>2, LeastIsLeast
<1> QED
  BY <1>2, <1>3, <1>4, <1>5, Zenon DEF A

(* The frontier of the code, a scan by length that keeps each improvement, *)
(* is the set of the points that are best at their length.                 *)
LEMMA FrontierOfLadder ==
  ASSUME NEW points, Scored(points)
  PROVE  FrontierIsBest(points, Gated(points), Envelope(points))
<1> DEFINE Afford(n) == Affordable(points, Gated(points), n)
           Best(n) == BestDistortion(points, Gated(points), n)
           Enters(p) ==
             /\ points[p].distortion = Best(points[p].tokens)
             /\ \A q \in Afford(points[p].tokens) \ {p} :
                  points[q].distortion = points[p].distortion =>
                    points[q].tokens = points[p].tokens /\ p < q
<1>1. /\ Eligible(points) \subseteq Nat /\ Eligible(points) = DOMAIN points \ Gated(points)
      /\ \A p \in DOMAIN points : points[p].tokens \in Nat /\ points[p].distortion \in Nat
                                  /\ points[p].distortion <= Unit
  BY PointFacts
<1>2. \A n : Afford(n) = {p \in Eligible(points) : points[p].tokens <= n}
  BY <1>1 DEF Affordable
<1>3. Afford(Longest(points)) = Eligible(points)
  BY <1>1, <1>2, LongestIsLongest
<1>4. \A n : /\ Best(n) \in Nat /\ Best(n) <= Unit
             /\ \A p \in Afford(n) : Best(n) <= points[p].distortion
             /\ \/ Best(n) = Unit
                \/ \E p \in Afford(n) : Best(n) = points[p].distortion
  BY BestFacts
<1>5. ASSUME NEW p \in Envelope(points) PROVE p \in Eligible(points) /\ Enters(p)
  <2>1. p \in Eligible(points) /\ Leads(points, p)
    BY FrontierLeads
  <2>2. p \in Afford(points[p].tokens)
    BY <1>1, <1>2, <2>1
  <2>3. \A q \in Afford(points[p].tokens) \ {p} :
          \/ points[p].distortion < points[q].distortion
          \/ /\ points[p].distortion = points[q].distortion
             /\ points[q].tokens = points[p].tokens /\ p < q
    BY <1>2, <2>1 DEF Leads
  <2>4. \A q \in Afford(points[p].tokens) : points[p].distortion <= points[q].distortion
    BY <1>1, <1>2, <2>1, <2>3
  <2>5. points[p].distortion = Best(points[p].tokens)
    <3>1. /\ Best(points[p].tokens) \in Nat
          /\ Best(points[p].tokens) <= points[p].distortion
          /\ \/ Best(points[p].tokens) = Unit
             \/ \E q \in Afford(points[p].tokens) :
                  Best(points[p].tokens) = points[q].distortion
      BY <1>4, <2>2
    <3>2. points[p].distortion <= Best(points[p].tokens)
      BY <1>1, <2>1, <2>4, <3>1
    <3> HIDE DEF Best
    <3> QED
      BY <1>1, <2>1, <3>1, <3>2
  <2>6. \A q \in Afford(points[p].tokens) \ {p} :
          points[q].distortion = points[p].distortion =>
            points[q].tokens = points[p].tokens /\ p < q
    BY <1>1, <1>2, <2>1, <2>3
  <2> QED
    BY <2>1, <2>5, <2>6
<1>6. ASSUME NEW p \in Eligible(points), Enters(p) PROVE p \in Envelope(points)
  <2>1. ASSUME NEW q \in Eligible(points), q # p, points[q].tokens <= points[p].tokens
        PROVE  \/ points[p].distortion < points[q].distortion
               \/ /\ points[p].distortion = points[q].distortion
                  /\ points[q].tokens = points[p].tokens /\ p < q
    <3>1. q \in Afford(points[p].tokens) \ {p}
      BY <1>2, <2>1
    <3>2. points[p].distortion <= points[q].distortion
      BY <1>4, <1>6, <3>1
    <3>3. points[q].distortion = points[p].distortion =>
            points[q].tokens = points[p].tokens /\ p < q
      BY <1>6, <3>1
    <3> QED
      BY <1>1, <2>1, <3>2, <3>3
  <2> QED
    BY <2>1, LeadersEnter DEF Leads
<1>7. Envelope(points) = {p \in Afford(Longest(points)) : Enters(p)}
  <2> HIDE DEF Enters
  <2> QED
    BY <1>3, <1>5, <1>6 DEF Envelope, ByLength
<1> QED
  BY <1>7 DEF FrontierIsBest

(* ECL is the least budget that reaches tau; there is none when even the   *)
(* longest prompt does not.                                                *)
LEMMA EclOfLadder ==
  ASSUME NEW points, Scored(points)
  PROVE  EclIsLeast(points, Gated(points), EclAtTau(points, Envelope(points), Tau))
<1> DEFINE H == Hits(points, Envelope(points), Tau)
<1>1. /\ Eligible(points) \subseteq Nat /\ Eligible(points) = DOMAIN points \ Gated(points)
      /\ \A p \in DOMAIN points :
           /\ points[p].tokens \in Nat /\ points[p].distortion \in Nat
           /\ points[p].fidelity \in Nat
           /\ points[p].distortion = Unit - points[p].fidelity
      /\ Unit \in Nat /\ Tau \in Nat
  BY PointFacts, LadderAssumption
<1>2. \A n : Reaching(points, Gated(points), n) <=>
        \E p \in Eligible(points) : points[p].tokens <= n /\ points[p].fidelity >= Tau
  BY <1>1 DEF Reaching, Affordable
<1>3. ASSUME NEW h \in H
      PROVE  h \in Nat /\ Reaching(points, Gated(points), h)
  <2>1. PICK p \in Envelope(points) : points[p].fidelity >= Tau /\ h = points[p].tokens
    BY DEF Hits
  <2>2. p \in Eligible(points)
    BY DEF Envelope, ByLength
  <2> QED
    BY <1>1, <1>2, <2>1, <2>2
<1>4. ASSUME NEW q \in Eligible(points), points[q].fidelity >= Tau
      PROVE  \E h \in H : h <= points[q].tokens
  <2>1. PICK p \in Envelope(points) :
           /\ p \in Eligible(points)
           /\ points[p].tokens <= points[q].tokens
           /\ points[p].distortion <= points[q].distortion
    BY FrontierCovers
  <2>2. points[p].fidelity >= Tau
    BY <1>1, <1>4, <2>1
  <2>3. points[p].tokens \in H
    BY <2>1, <2>2 DEF Hits
  <2> QED
    BY <2>1, <2>3
<1> HIDE DEF H
<1>5. CASE H = {}
  <2>1. EclAtTau(points, Envelope(points), Tau) = NoEcl
    BY <1>5 DEF EclAtTau, H
  <2>2. ~Reaching(points, Gated(points), Longest(points))
    BY <1>2, <1>4, <1>5
  <2> QED
    BY <2>1, <2>2 DEF EclIsLeast
<1>6. CASE H # {}
  <2>1. H \subseteq Nat
    BY <1>3
  <2>2. PICK least \in H : \A h \in H : least <= h
    BY <1>6, <2>1, LeastIsLeast, Zenon
  <2> DEFINE ecl == CHOOSE n \in H : \A m \in H : n <= m
  <2>3. ecl \in H /\ \A h \in H : ecl <= h
    BY <2>2, Zenon
  <2>4. EclAtTau(points, Envelope(points), Tau) = ecl
    BY <1>6, Zenon DEF EclAtTau, H
  <2> HIDE DEF ecl
  <2>5. ecl \in Nat /\ ecl # NoEcl /\ Reaching(points, Gated(points), ecl)
    BY <1>3, <2>3, MetricsAssumption
  <2>6. ~Reaching(points, Gated(points), ecl - 1)
    <3> SUFFICES ASSUME NEW q \in Eligible(points), points[q].tokens <= ecl - 1,
                        points[q].fidelity >= Tau
                 PROVE  FALSE
      BY <1>2
    <3>1. PICK h \in H : h <= points[q].tokens
      BY <1>4
    <3>2. h \in Nat /\ ecl <= h /\ points[q].tokens \in Nat
      BY <1>1, <1>3, <2>3
    <3> QED
      BY <2>5, <3>1, <3>2
  <2> QED
    BY <2>4, <2>5, <2>6 DEF EclIsLeast
<1> QED
  BY <1>5, <1>6

(* Elicit asks whether K tokens reach tau.                                 *)
LEMMA ElicitOfLadder ==
  ASSUME NEW points, Scored(points)
  PROVE  ElicitAtK(points, Tau, K) <=> Reaching(points, Gated(points), K)
<1>1. Eligible(points) = DOMAIN points \ Gated(points)
  BY PointFacts
<1> QED
  BY <1>1 DEF ElicitAtK, Reaching, Affordable

-----------------------------------------------------------------------------
(* The area under the staircase.                                           *)

(* What adds f of an element wherever one is added is the sum of f, in     *)
(* whatever order it is taken.                                             *)
LEMMA SumsAreTotal ==
  ASSUME NEW f, IsFiniteSet(DOMAIN f), NEW total, total[{}] = 0,
         \A s \in SUBSET DOMAIN f : \A x \in s : total[s] = f[x] + total[s \ {x}],
         NEW D, D[{}] = 0,
         \A s \in SUBSET DOMAIN f : s # {} => \E x \in s : D[s] = f[x] + D[s \ {x}]
  PROVE  D[DOMAIN f] = total[DOMAIN f]
<1> DEFINE S == DOMAIN f
           T == {k \in Nat : \A s \in SUBSET S : IsFiniteSet(s) /\ Cardinality(s) = k => D[s] = total[s]}
<1>1. 0 \in T
  <2>1. ASSUME NEW s \in SUBSET S, IsFiniteSet(s), Cardinality(s) = 0 PROVE D[s] = total[s]
    <3>1. s = {}
      BY <2>1, FS_EmptySet
    <3> QED
      BY <3>1
  <2> QED
    BY <2>1
<1>2. ASSUME NEW k \in Nat, k \in T PROVE k + 1 \in T
  <2>1. ASSUME NEW s \in SUBSET S, IsFiniteSet(s), Cardinality(s) = k + 1 PROVE D[s] = total[s]
    <3>1. s # {}
      BY <2>1, FS_EmptySet
    <3>2. PICK x \in s : D[s] = f[x] + D[s \ {x}]
      BY <3>1
    <3>3. IsFiniteSet(s \ {x}) /\ Cardinality(s \ {x}) = k /\ s \ {x} \in SUBSET S
      <4>1. /\ IsFiniteSet(s \ {x})
            /\ Cardinality(s \ {x}) = IF x \in s THEN Cardinality(s) - 1 ELSE Cardinality(s)
        BY <2>1, FS_RemoveElement
      <4> QED
        BY <2>1, <4>1
    <3>4. D[s \ {x}] = total[s \ {x}]
      BY <1>2, <3>3
    <3>5. total[s] = f[x] + total[s \ {x}]
      OBVIOUS
    <3> QED
      BY <3>2, <3>4, <3>5
  <2> QED
    BY <2>1
<1>3. PICK n \in Nat : n = Cardinality(S)
  BY FS_CardinalityType
<1>4. n \in T
  <2> HIDE DEF T
  <2>1. n \in 0..n /\ \A k \in Nat : k < n /\ k \in T => k + 1 \in T
    BY <1>2
  <2> QED
    BY <1>1, <1>3, <2>1, UpTo, Zenon
<1> QED
  BY <1>3, <1>4

(* The cells of the rows in s that are not above the staircase.            *)
Cells(points, s) ==
  {c \in s \X (1..Unit) : c[2] <= BestDistortion(points, Gated(points), c[1])}

LEMMA CellsOfLevel ==
  ASSUME NEW points, NEW s, IsFiniteSet(s), NEW d \in 0..Unit,
         \A x \in s : BestDistortion(points, Gated(points), x) = d
  PROVE  IsFiniteSet(Cells(points, s)) /\ Cardinality(Cells(points, s)) = Cardinality(s) * d
<1>1. Unit \in Nat
  BY MetricsAssumption
<1>2. Cells(points, s) = s \X (1..d)
  BY <1>1 DEF Cells
<1>3. IsFiniteSet(1..d) /\ Cardinality(1..d) = d
  BY <1>1, FS_Interval
<1> QED
  BY <1>2, <1>3, FS_Product

LEMMA CellsAdd ==
  ASSUME NEW points, NEW s, NEW t, s \cap t = {},
         IsFiniteSet(Cells(points, s)), IsFiniteSet(Cells(points, t))
  PROVE  /\ IsFiniteSet(Cells(points, s \cup t))
         /\ Cardinality(Cells(points, s \cup t))
              = Cardinality(Cells(points, s)) + Cardinality(Cells(points, t))
<1>1. /\ Cells(points, s \cup t) = Cells(points, s) \cup Cells(points, t)
      /\ Cells(points, s) \cap Cells(points, t) = {}
  BY DEF Cells
<1> DEFINE A == Cells(points, s)
           B == Cells(points, t)
<1>2. A \cap B = {} /\ Cells(points, s \cup t) = A \cup B /\ IsFiniteSet(A) /\ IsFiniteSet(B)
  BY <1>1
<1> HIDE DEF A, B
<1>3. IsFiniteSet(A \cup B) /\ Cardinality(A \cup B) = Cardinality(A) + Cardinality(B) - Cardinality({})
  BY <1>2, FS_Union
<1>4. Cardinality(A) \in Nat /\ Cardinality(B) \in Nat /\ Cardinality({}) = 0
  BY <1>2, FS_CardinalityType, FS_EmptySet
<1>5. Cardinality(A \cup B) = Cardinality(A) + Cardinality(B)
  BY <1>3, <1>4
<1> QED
  BY <1>2, <1>3, <1>5 DEF A, B

LEMMA CellsFinite ==
  ASSUME NEW points, NEW s, IsFiniteSet(s)
  PROVE  IsFiniteSet(Cells(points, s)) /\ Cardinality(Cells(points, s)) \in Nat
<1>1. IsFiniteSet(1..Unit)
  BY MetricsAssumption, FS_Interval
<1>2. IsFiniteSet(s \X (1..Unit))
  BY <1>1, FS_Product
<1>3. Cells(points, s) \in SUBSET (s \X (1..Unit))
  BY DEF Cells
<1> QED
  BY <1>2, <1>3, FS_Subset, FS_CardinalityType

(* The sum of what each budget buys is the number of cells.                *)
LEMMA AreaIsCells ==
  ASSUME NEW points, Scored(points), NEW n \in Nat
  PROVE  RefArea(points, Gated(points), n) = Cardinality(Cells(points, 0..n - 1))
<1> DEFINE S == 0..n - 1
           f == [x \in S |-> BestDistortion(points, Gated(points), x)]
           total == [s \in SUBSET S |-> Cardinality(Cells(points, s))]
           Choice(s) == CHOOSE e \in s : TRUE
           Ref(D, s) == IF s = {} THEN 0
                        ELSE BestDistortion(points, Gated(points), Choice(s)) + D[s \ {Choice(s)}]
           Sum(D, s) == IF s = {} THEN 0 ELSE f[Choice(s)] + D[s \ {Choice(s)}]
<1>1. IsFiniteSet(S)
  BY FS_Interval
<1>2. total[{}] = 0
  <2>1. Cells(points, {}) = {}
    BY DEF Cells
  <2> QED
    BY <2>1, FS_EmptySet
<1>3. ASSUME NEW s \in SUBSET S, NEW x \in s
      PROVE  total[s] = f[x] + total[s \ {x}]
  <2> DEFINE d == BestDistortion(points, Gated(points), x)
  <2>1. IsFiniteSet(s \ {x}) /\ IsFiniteSet({x}) /\ Cardinality({x}) = 1
    BY <1>1, FS_Subset, FS_Singleton, ZenonT(60)
  <2>2. d \in 0..Unit
    BY BestFacts, MetricsAssumption
  <2>3. IsFiniteSet(Cells(points, {x})) /\ Cardinality(Cells(points, {x})) = d
    <3>1. Cardinality(Cells(points, {x})) = 1 * d /\ IsFiniteSet(Cells(points, {x}))
      <4>1. \A y \in {x} : BestDistortion(points, Gated(points), y) = d
        OBVIOUS
      <4> HIDE DEF d
      <4> QED
        BY <2>1, <2>2, <4>1, CellsOfLevel
    <3> HIDE DEF d
    <3> QED
      BY <2>2, <3>1, MetricsAssumption
  <2>4. IsFiniteSet(Cells(points, s \ {x})) /\ Cardinality(Cells(points, s \ {x})) \in Nat
    BY <2>1, CellsFinite
  <2>5. s = (s \ {x}) \cup {x} /\ (s \ {x}) \cap {x} = {}
    OBVIOUS
  <2>6. Cardinality(Cells(points, s)) = Cardinality(Cells(points, s \ {x})) + d
    BY <2>3, <2>4, <2>5, CellsAdd
  <2>7. f[x] = d
    OBVIOUS
  <2>8. total[s] = Cardinality(Cells(points, s)) /\ total[s \ {x}] = Cardinality(Cells(points, s \ {x}))
    OBVIOUS
  <2> HIDE DEF total, f, d
  <2> QED
    BY <2>2, <2>4, <2>6, <2>7, <2>8, MetricsAssumption
<1>4. RefArea(points, Gated(points), n) = (CHOOSE D : D = [s \in SUBSET S |-> Ref(D, s)])[S]
  BY Zenon DEF RefArea, MapThenSumSet, MapThenFoldSet
<1>5. \E D : D = [s \in SUBSET S |-> Ref(D, s)]
  <2> DEFINE D == [s \in SUBSET S |-> total[s]]
  <2>1. ASSUME NEW s \in SUBSET S PROVE D[s] = Ref(D, s)
    <3>1. CASE s = {}
      BY <1>2, <3>1
    <3>2. CASE s # {}
      <4>1. PICK x \in s : x = Choice(s)
        BY <3>2, Zenon
      <4>2. f[x] = BestDistortion(points, Gated(points), x) /\ s \ {x} \in SUBSET S
        OBVIOUS
      <4> HIDE DEF f, Choice, total
      <4>3. D[s] = f[x] + D[s \ {x}]
        BY <1>3, <4>2
      <4> HIDE DEF D
      <4> QED
        BY <3>2, <4>1, <4>2, <4>3
    <3> QED
      BY <3>1, <3>2
  <2>2. D = [s \in SUBSET S |-> D[s]]
    OBVIOUS
  <2> HIDE DEF D, Ref
  <2>3. D = [s \in SUBSET S |-> Ref(D, s)]
    BY <2>1, <2>2
  <2> QED
    BY <2>3, Zenon
<1>6. PICK D : /\ D = [s \in SUBSET S |-> Ref(D, s)]
               /\ RefArea(points, Gated(points), n) = D[S]
  BY <1>4, <1>5, Zenon
<1>7. D[{}] = 0
  BY <1>6
<1>8. ASSUME NEW s \in SUBSET S, s # {}
      PROVE  \E x \in s : D[s] = f[x] + D[s \ {x}]
  <2>1. PICK x \in s : x = Choice(s)
    BY <1>8, Zenon
  <2>2. f[x] = BestDistortion(points, Gated(points), x)
    OBVIOUS
  <2> HIDE DEF f, Choice
  <2>3. D[s] = f[x] + D[s \ {x}]
    BY <1>6, <1>8, <2>1, <2>2
  <2> QED
    BY <2>3
<1>9. total[S] = Cardinality(Cells(points, S))
  OBVIOUS
<1> HIDE DEF f, total, S
<1>10. PICK g, sum : g = f /\ sum = total
  OBVIOUS
<1>11. DOMAIN f = S
  BY DEF f
<1>12. \A s \in SUBSET DOMAIN g : \A x \in s : sum[s] = g[x] + sum[s \ {x}]
  BY <1>3, <1>10, <1>11
<1>13. \A s \in SUBSET DOMAIN g : s # {} => \E x \in s : D[s] = g[x] + D[s \ {x}]
  BY <1>8, <1>10, <1>11
<1>14. sum[{}] = 0 /\ IsFiniteSet(DOMAIN g)
  BY <1>1, <1>2, <1>10, <1>11
<1>15. D[DOMAIN g] = sum[DOMAIN g]
  BY <1>7, <1>12, <1>13, <1>14, SumsAreTotal
<1> QED
  BY <1>6, <1>9, <1>10, <1>11, <1>15 DEF S

(* The points of a frontier, in the order of their lengths.                *)
LEMMA FrontierIsStrict ==
  ASSUME NEW points, Scored(points), NEW p \in Envelope(points), NEW q \in Envelope(points)
  PROVE  /\ p \in DOMAIN points /\ p \notin Gated(points)
         /\ points[p].tokens \in Nat
         /\ points[p].distortion \in 0..Unit
         /\ points[p].tokens = points[q].tokens => p = q
         /\ points[p].tokens < points[q].tokens => points[q].distortion < points[p].distortion
<1>1. /\ Unit \in Nat /\ Eligible(points) \subseteq Nat
      /\ Eligible(points) = DOMAIN points \ Gated(points)
      /\ \A r \in DOMAIN points :
              /\ points[r].tokens \in Nat /\ points[r].distortion \in Nat
              /\ points[r].distortion <= Unit
  BY PointFacts
<1>2. /\ p \in Eligible(points) /\ q \in Eligible(points)
      /\ p \in ByLength(points) /\ q \in ByLength(points)
      /\ points[p].tokens < points[q].tokens => points[q].distortion < points[p].distortion
  BY DEF Envelope, ByLength
<1>3. ASSUME points[p].tokens = points[q].tokens PROVE p = q
  <2>1. \/ points[p].distortion < points[q].distortion
        \/ points[p].distortion = points[q].distortion /\ p <= q
    BY <1>2, <1>3 DEF ByLength
  <2>2. \/ points[q].distortion < points[p].distortion
        \/ points[q].distortion = points[p].distortion /\ q <= p
    BY <1>2, <1>3 DEF ByLength
  <2> QED
    BY <1>1, <1>2, <2>1, <2>2
<1> QED
  BY <1>1, <1>2, <1>3

LEMMA FrontierFinite ==
  ASSUME NEW points, Scored(points)
  PROVE  IsFiniteSet(Envelope(points)) /\ Cardinality(Envelope(points)) \in Nat
<1>1. IsFiniteSet(DOMAIN points)
  BY ListFacts DEF Scored
<1>2. Envelope(points) \in SUBSET DOMAIN points
  BY DEF Envelope, ByLength, Eligible
<1> QED
  BY <1>1, <1>2, FS_Subset, FS_CardinalityType

(* The order exists: a point's place is the number of points up to its     *)
(* length.                                                                 *)
LEMMA ByTokensFacts ==
  ASSUME NEW points, Scored(points)
  PROVE  LET E == Envelope(points)
             steps == ByTokens(points, E)
         IN /\ steps \in [1..Cardinality(E) -> E]
            /\ \A m, n \in 1..Cardinality(E) : m < n => points[steps[m]].tokens < points[steps[n]].tokens
            /\ \A p \in E : \E m \in 1..Cardinality(E) : steps[m] = p
<1> DEFINE E == Envelope(points)
           N == Cardinality(E)
           Upto(p) == {q \in E : points[q].tokens <= points[p].tokens}
           rank == [p \in E |-> Cardinality(Upto(p))]
           Sorted(s) == \A m, n \in 1..N : m < n => points[s[m]].tokens < points[s[n]].tokens
<1>1. IsFiniteSet(E) /\ N \in Nat
  BY FrontierFinite
<1>2. \A p, q \in E : /\ points[p].tokens \in Nat
                      /\ points[p].tokens = points[q].tokens => p = q
  BY FrontierIsStrict
<1> HIDE DEF E
<1>3. ASSUME NEW p \in E
      PROVE  IsFiniteSet(Upto(p)) /\ p \in Upto(p) /\ rank[p] = Cardinality(Upto(p)) /\ rank[p] \in 1..N
  <2>1. Upto(p) \in SUBSET E /\ p \in Upto(p) /\ rank[p] = Cardinality(Upto(p))
    BY <1>2
  <2>2. IsFiniteSet(Upto(p)) /\ Cardinality(Upto(p)) \in Nat /\ Cardinality(Upto(p)) <= N
    BY <1>1, <2>1, FS_Subset, FS_CardinalityType
  <2>3. Cardinality(Upto(p)) # 0
    <3>1. Upto(p) # {}
      BY <2>1
    <3> QED
      BY <2>2, <3>1, FS_EmptySet
  <2> HIDE DEF Upto, N, rank
  <2> QED
    BY <1>1, <2>1, <2>2, <2>3
<1>4. ASSUME NEW p \in E, NEW q \in E, points[p].tokens < points[q].tokens
      PROVE  rank[p] < rank[q]
  <2>1. Upto(p) \in SUBSET Upto(q) /\ q \notin Upto(p)
    BY <1>2, <1>4
  <2>2. Cardinality(Upto(p)) <= Cardinality(Upto(q)) /\ Cardinality(Upto(p)) # Cardinality(Upto(q))
    BY <1>3, <2>1, FS_Subset
  <2> HIDE DEF Upto, N, rank
  <2> QED
    BY <1>1, <1>3, <2>2
<1>5. rank \in Surjection(E, 1..N)
  <2>1. rank \in [E -> 1..N]
    BY <1>3
  <2>2. \A p, q \in E : rank[p] = rank[q] => p = q
    <3> SUFFICES ASSUME NEW p \in E, NEW q \in E, p # q PROVE rank[p] # rank[q]
      OBVIOUS
    <3>1. points[p].tokens < points[q].tokens \/ points[q].tokens < points[p].tokens
      <4>1. /\ points[p].tokens \in Nat /\ points[q].tokens \in Nat
            /\ points[p].tokens # points[q].tokens
        BY <1>2
      <4> QED
        BY <4>1
    <3> HIDE DEF rank, N
    <3>2. rank[p] \in Nat /\ rank[q] \in Nat
      <4>1. rank[p] \in 1..N /\ rank[q] \in 1..N
        BY <1>3
      <4> QED
        BY <1>1, <4>1
    <3>3. rank[p] < rank[q] \/ rank[q] < rank[p]
      BY <1>4, <3>1
    <3> QED
      BY <3>2, <3>3
  <2> HIDE DEF rank
  <2>3. rank \in Injection(E, 1..N)
    BY <2>1, <2>2 DEF Injection, IsInjective
  <2>4. IsFiniteSet(1..N) /\ Cardinality(1..N) = N
    BY <1>1, FS_Interval
  <2> QED
    BY <2>3, <2>4, FS_Injection
<1>6. PICK s : s \in [1..N -> E] /\ \A m \in 1..N : rank[s[m]] = m
  <2> DEFINE s == [m \in 1..N |-> CHOOSE p \in E : rank[p] = m]
  <2>1. ASSUME NEW m \in 1..N PROVE s[m] \in E /\ rank[s[m]] = m
    <3> HIDE DEF rank
    <3>1. \E p \in E : rank[p] = m
      BY <1>5 DEF Surjection
    <3>2. s[m] = CHOOSE p \in E : rank[p] = m
      OBVIOUS
    <3> HIDE DEF s
    <3> QED
      BY <3>1, <3>2, Zenon
  <2>2. s \in [1..N -> E]
    BY <2>1
  <2> HIDE DEF s, rank
  <2> QED
    BY <2>1, <2>2, Zenon
<1>7. Sorted(s)
  <2> SUFFICES ASSUME NEW m \in 1..N, NEW n \in 1..N, m < n
               PROVE  points[s[m]].tokens < points[s[n]].tokens
    OBVIOUS
  <2>1. s[m] \in E /\ s[n] \in E /\ rank[s[m]] = m /\ rank[s[n]] = n
    BY <1>6
  <2> HIDE DEF rank
  <2>2. ~(points[s[n]].tokens < points[s[m]].tokens) /\ s[n] # s[m]
    BY <1>4, <2>1
  <2> QED
    BY <1>2, <2>1, <2>2
<1> DEFINE Choice == CHOOSE t \in [1..N -> E] :
             \A m, n \in DOMAIN t : m < n => points[t[m]].tokens < points[t[n]].tokens
<1>8. Choice \in [1..N -> E] /\ Sorted(Choice)
  <2> DEFINE Good(t) == \A m, n \in DOMAIN t : m < n => points[t[m]].tokens < points[t[n]].tokens
  <2>1. s \in [1..N -> E] /\ Good(s)
    BY <1>6, <1>7
  <2> HIDE DEF Good
  <2>2. \E t \in [1..N -> E] : Good(t)
    BY <2>1, Zenon
  <2>3. (CHOOSE t \in [1..N -> E] : Good(t)) \in [1..N -> E] /\ Good(CHOOSE t \in [1..N -> E] : Good(t))
    BY <2>2, Zenon
  <2>4. Choice \in [1..N -> E] /\ Good(Choice)
    BY <2>3, Zenon DEF Good
  <2> HIDE DEF Choice
  <2> QED
    BY <2>4 DEF Good
<1>9. ByTokens(points, E) = Choice
  BY Zenon DEF ByTokens
<1> HIDE DEF Choice, Sorted
<1>10. PICK t : t = Choice
  OBVIOUS
<1>11. t \in [1..N -> E] /\ Sorted(t)
  BY <1>8, <1>10
<1>12. ASSUME NEW p \in E PROVE \E m \in 1..N : t[m] = p
  <2>1. ASSUME NEW m \in 1..N, NEW n \in 1..N, t[m] = t[n] PROVE m = n
    <3>1. t[m] \in E /\ points[t[m]].tokens \in Nat
      BY <1>2, <1>11
    <3>2. ~(m < n) /\ ~(n < m)
      BY <1>11, <2>1, <3>1 DEF Sorted
    <3> QED
      BY <1>1, <3>2
  <2>2. t \in Injection(1..N, E)
    BY <1>11, <2>1 DEF Injection, IsInjective
  <2>3. IsFiniteSet(1..N) /\ Cardinality(1..N) = N
    BY <1>1, FS_Interval
  <2>4. t \in Surjection(1..N, E)
    BY <1>1, <2>2, <2>3, FS_Injection
  <2> QED
    BY <2>4 DEF Surjection
<1> QED
  BY <1>9, <1>10, <1>11, <1>12 DEF E, Sorted

(* The staircase drops at one point after the other.                       *)
DropAt(points, n, curve, i) ==
  LET x == Max({curve.x, Min({n, points[i].tokens})})
  IN [x |-> x, distortion |-> points[i].distortion,
      area |-> curve.area + (x - curve.x) * curve.distortion]
AreaAt(n, end) == end.area + (n - end.x) * end.distortion
AurcAt(frontier, n, end) ==
  IF frontier = {} THEN Unit ELSE (2 * AreaAt(n, end) + n) \div (2 * n)
Top == [x |-> 0, distortion |-> Unit, area |-> 0]

CurveOf(points, n, steps, curve) ==
  /\ curve[0] = Top
  /\ \A i \in 1..Len(steps) : curve[i] = DropAt(points, n, curve[i - 1], steps[i])

LEMMA CurveRows ==
  ASSUME NEW points, NEW frontier, NEW normalizer, NEW n, n = Max({1, normalizer}),
         NEW steps, steps = ByTokens(points, frontier), IsList(steps)
  PROVE  \E curve : /\ CurveOf(points, n, steps, curve)
                    /\ Aurc(points, frontier, normalizer) = AurcAt(frontier, n, curve[Len(steps)])
<1> DEFINE N == Len(steps)
           Step(it, s) == IF s = {} THEN Top
                          ELSE DropAt(points, n, it[s \ {Max(s)}], steps[Max(s)])
           Good(k) == \E it : \A s \in Small(N, k) : it[s] = Step(it, s)
<1>1. N \in Nat /\ DOMAIN steps = 1..N
  BY ListFacts
<1>2. Aurc(points, frontier, normalizer) =
        AurcAt(frontier, n, (CHOOSE it : it = [s \in SUBSET DOMAIN steps |-> Step(it, s)])[DOMAIN steps])
  <2> DEFINE Curve(m, t) ==
               FoldLeft(LAMBDA curve, i : DropAt(points, m, curve, i), Top, t)
  <2>1. Aurc(points, frontier, normalizer) =
          AurcAt(frontier, Max({1, normalizer}), Curve(Max({1, normalizer}), ByTokens(points, frontier)))
    BY Zenon DEF Aurc, AurcAt, AreaAt, DropAt, Top
  <2>2. Curve(n, steps) = (CHOOSE it : it = [s \in SUBSET DOMAIN steps |-> Step(it, s)])[DOMAIN steps]
    BY Zenon DEF FoldLeft, MapThenFoldSet
  <2> HIDE DEF Curve
  <2> QED
    BY <2>1, <2>2
<1> HIDE DEF N
<1>3. Good(N)
  <2>1. Good(0)
    <3> DEFINE it == [s \in {{}} |-> Top]
    <3>1. \A s \in Small(N, 0) : it[s] = Step(it, s)
      BY <1>1, SmallSets
    <3> QED
      BY <3>1
  <2>2. ASSUME NEW k \in Nat, Good(k) PROVE Good(k + 1)
    <3>1. PICK it : \A s \in Small(N, k) : it[s] = Step(it, s)
      BY <2>2
    <3> DEFINE new == [s \in Small(N, k + 1) |-> Step(it, s)]
    <3>2. Small(N, k) \subseteq Small(N, k + 1)
      BY <1>1, SmallSets
    <3>3. \A s \in Small(N, k) : new[s] = it[s]
      BY <3>1, <3>2
    <3>4. ASSUME NEW s \in Small(N, k + 1) PROVE new[s] = Step(new, s)
      <4>1. s # {} => s \ {Max(s)} \in Small(N, k)
        BY <1>1, SmallSets
      <4>2. s # {} => new[s \ {Max(s)}] = it[s \ {Max(s)}]
        BY <3>3, <4>1
      <4>3. new[s] = Step(it, s)
        OBVIOUS
      <4> HIDE DEF new
      <4> QED
        BY <4>2, <4>3
    <3> QED
      BY <3>4
  <2> DEFINE T == {k \in 0..N : Good(k)}
  <2> HIDE DEF Good
  <2>3. 0 \in T /\ N \in 0..N /\ \A k \in Nat : k < N /\ k \in T => k + 1 \in T
    BY <1>1, <2>1, <2>2
  <2>4. N \in T
    <3> HIDE DEF T
    <3> QED
      BY <1>1, <2>3, UpTo, Zenon
  <2> QED
    BY <2>4
<1>4. PICK it : /\ it = [s \in SUBSET DOMAIN steps |-> Step(it, s)]
                /\ Aurc(points, frontier, normalizer) = AurcAt(frontier, n, it[DOMAIN steps])
  <2>1. PICK g : \A s \in Small(N, N) : g[s] = Step(g, s)
    BY <1>3
  <2> DEFINE it == [s \in SUBSET DOMAIN steps |-> g[s]]
  <2>2. it = [s \in SUBSET DOMAIN steps |-> Step(it, s)]
    BY <1>1, <2>1, SmallSets
  <2> HIDE DEF it, Step
  <2> QED
    BY <1>2, <2>2, Zenon
<1> DEFINE curve == [i \in 0..N |-> it[1..i]]
<1>5. curve[0] = Top
  BY <1>1, <1>4
<1>6. ASSUME NEW i \in 1..N PROVE curve[i] = DropAt(points, n, curve[i - 1], steps[i])
  <2>1. /\ 1..i \in SUBSET DOMAIN steps /\ 1..i # {} /\ Max(1..i) = i
        /\ (1..i) \ {Max(1..i)} = 1..(i - 1)
    BY <1>1, InitialSegments, Zenon
  <2>2. it[1..i] = DropAt(points, n, it[1..(i - 1)], steps[i])
    BY <1>4, <2>1
  <2>3. i \in 0..N /\ i - 1 \in 0..N
    BY <1>1
  <2> QED
    BY <2>2, <2>3
<1>7. Aurc(points, frontier, normalizer) = AurcAt(frontier, n, curve[N])
  BY <1>1, <1>4
<1> HIDE DEF curve
<1> QED
  BY <1>5, <1>6, <1>7 DEF N, CurveOf

LEMMA MinOfPair ==
  ASSUME NEW p \in Nat, NEW q \in Nat
  PROVE  Min({p, q}) = IF p <= q THEN p ELSE q
<1>1. {p, q} \subseteq Nat /\ {p, q} # {}
  OBVIOUS
<1>2. PICK m : m = Min({p, q})
  OBVIOUS
<1>3. m \in {p, q} /\ m \in Nat /\ \A y \in {p, q} : m <= y
  BY <1>1, <1>2, LeastIsLeast
<1>4. m = IF p <= q THEN p ELSE q
  BY <1>3
<1> QED
  BY <1>2, <1>4

(* From one drop to the next the staircase is level.                       *)
Stairs(points, steps) ==
  LET E == Envelope(points)
  IN /\ steps \in [1..Cardinality(E) -> E]
     /\ \A m, n \in 1..Cardinality(E) : m < n => points[steps[m]].tokens < points[steps[n]].tokens
     /\ \A p \in E : \E m \in 1..Cardinality(E) : steps[m] = p
Level(points, steps, k) == IF k = 0 THEN Unit ELSE points[steps[k]].distortion

LEMMA LevelBetween ==
  ASSUME NEW points, Scored(points), NEW steps, Stairs(points, steps),
         NEW N \in Nat, N = Cardinality(Envelope(points)), NEW k \in 0..N, NEW x \in Nat,
         k > 0 => points[steps[k]].tokens <= x,
         k < N => x < points[steps[k + 1]].tokens
  PROVE  BestDistortion(points, Gated(points), x) = Level(points, steps, k)
<1> DEFINE E == Envelope(points)
           A == Affordable(points, Gated(points), x)
<1>1. /\ steps \in [1..N -> E]
      /\ \A m, n \in 1..N : m < n => points[steps[m]].tokens < points[steps[n]].tokens
      /\ \A p \in E : \E m \in 1..N : steps[m] = p
  BY DEF Stairs
<1>2. \A p, q \in E :
        /\ p \in DOMAIN points /\ p \notin Gated(points)
        /\ points[p].tokens \in Nat
        /\ points[p].distortion \in 0..Unit
        /\ points[p].tokens < points[q].tokens => points[q].distortion < points[p].distortion
  BY FrontierIsStrict
<1>3. \A q \in A : /\ q \in Eligible(points) /\ points[q].tokens <= x
                   /\ points[q].tokens \in Nat /\ points[q].distortion \in Nat
  BY PointFacts DEF Affordable
<1>4. PICK best : best = BestDistortion(points, Gated(points), x)
  OBVIOUS
<1>5. /\ best \in Nat /\ best <= Unit /\ Unit \in Nat
      /\ \A p \in A : best <= points[p].distortion
      /\ best = Unit \/ \E p \in A : best = points[p].distortion
  BY <1>4, BestFacts, MetricsAssumption
<1> HIDE DEF E
<1>6. ASSUME NEW q \in A
      PROVE  \E m \in 1..N : m <= k /\ points[steps[m]].distortion <= points[q].distortion
  <2>1. PICK p \in E : points[p].tokens <= points[q].tokens /\ points[p].distortion <= points[q].distortion
    BY <1>3, FrontierCovers DEF E
  <2>2. PICK m \in 1..N : steps[m] = p
    BY <1>1
  <2>3. points[steps[m]].tokens <= x /\ points[steps[m]].tokens \in Nat
    BY <1>2, <1>3, <2>1, <2>2
  <2>4. ASSUME m > k PROVE FALSE
    <3>1. k + 1 \in 1..N /\ k < N /\ (m = k + 1 \/ k + 1 < m)
      BY <2>4
    <3>2. steps[k + 1] \in E /\ points[steps[k + 1]].tokens \in Nat
      BY <1>1, <1>2, <3>1
    <3>3. m = k + 1 \/ points[steps[k + 1]].tokens < points[steps[m]].tokens
      BY <1>1, <3>1
    <3> QED
      BY <2>3, <3>1, <3>2, <3>3
  <2> QED
    BY <2>1, <2>2, <2>4
<1>7. CASE k = 0
  <2>1. A = {}
    BY <1>6, <1>7
  <2> QED
    BY <1>4, <1>5, <1>7, <2>1 DEF Level
<1>8. CASE k > 0
  <2>1. k \in 1..N /\ steps[k] \in E
    BY <1>1, <1>8
  <2>2. steps[k] \in A /\ points[steps[k]].distortion \in 0..Unit /\ points[steps[k]].tokens <= x
    BY <1>2, <1>8, <2>1 DEF Affordable
  <2>3. ASSUME NEW q \in A PROVE points[steps[k]].distortion <= points[q].distortion
    <3>1. PICK m \in 1..N : m <= k /\ points[steps[m]].distortion <= points[q].distortion
      BY <1>6
    <3>2. CASE m = k
      BY <3>1, <3>2
    <3>3. CASE m # k
      <4>1. m < k
        BY <3>1, <3>3
      <4>2. steps[m] \in E /\ points[steps[m]].tokens < points[steps[k]].tokens
        BY <1>1, <2>1, <4>1
      <4>3. points[steps[k]].distortion < points[steps[m]].distortion /\ points[steps[m]].distortion \in 0..Unit
        BY <1>2, <2>1, <4>2
      <4> QED
        BY <1>3, <1>5, <2>2, <3>1, <4>3
    <3> QED
      BY <3>2, <3>3
  <2>4. best = points[steps[k]].distortion
    <3>1. best <= points[steps[k]].distortion
      BY <1>5, <2>2
    <3>2. points[steps[k]].distortion <= best
      BY <1>5, <2>2, <2>3
    <3> QED
      BY <1>5, <2>2, <3>1, <3>2
  <2> QED
    BY <1>4, <1>8, <2>4 DEF Level
<1> QED
  BY <1>7, <1>8

(* After each drop the code has counted the cells left of it.              *)
Counted(points, steps, n, k, here) ==
  /\ here.x \in 0..n
  /\ here.x = IF k = 0 THEN 0
            ELSE IF points[steps[k]].tokens <= n THEN points[steps[k]].tokens ELSE n
  /\ here.distortion = Level(points, steps, k)
  /\ here.area = Cardinality(Cells(points, 0..here.x - 1))

(* What is level from here to there has so many cells.                     *)
LEMMA CellsUpTo ==
  ASSUME NEW points, NEW x \in Nat, NEW y \in Nat, x <= y, NEW d \in 0..Unit,
         \A z \in x..y - 1 : BestDistortion(points, Gated(points), z) = d
  PROVE  Cardinality(Cells(points, 0..y - 1)) = Cardinality(Cells(points, 0..x - 1)) + (y - x) * d
<1>1. /\ IsFiniteSet(0..x - 1) /\ IsFiniteSet(x..y - 1) /\ Cardinality(x..y - 1) = y - x
  <2>1. 0 \in Int /\ x - 1 \in Int /\ x \in Int /\ y - 1 \in Int
    OBVIOUS
  <2>2. Cardinality(x..y - 1) = IF x > y - 1 THEN 0 ELSE y - 1 - x + 1
    BY <2>1, FS_Interval
  <2>3. IsFiniteSet(0..x - 1) /\ IsFiniteSet(x..y - 1)
    BY <2>1, FS_Interval
  <2> QED
    BY <2>2, <2>3
<1>2. (0..x - 1) \cup (x..y - 1) = 0..y - 1 /\ (0..x - 1) \cap (x..y - 1) = {}
  OBVIOUS
<1>3. IsFiniteSet(Cells(points, x..y - 1)) /\ Cardinality(Cells(points, x..y - 1)) = (y - x) * d
  <2>1. PICK s : s = x..y - 1
    OBVIOUS
  <2>2. IsFiniteSet(Cells(points, s)) /\ Cardinality(Cells(points, s)) = Cardinality(s) * d
    BY <1>1, <2>1, CellsOfLevel
  <2> QED
    BY <1>1, <2>1, <2>2
<1>4. IsFiniteSet(Cells(points, 0..x - 1))
  BY <1>1, CellsFinite
<1>5. Cardinality(Cells(points, (0..x - 1) \cup (x..y - 1)))
        = Cardinality(Cells(points, 0..x - 1)) + Cardinality(Cells(points, x..y - 1))
  <2>1. PICK s, t : s = 0..x - 1 /\ t = x..y - 1
    OBVIOUS
  <2>2. s \cap t = {} /\ IsFiniteSet(Cells(points, s)) /\ IsFiniteSet(Cells(points, t))
    BY <1>2, <1>3, <1>4, <2>1
  <2>3. Cardinality(Cells(points, s \cup t)) = Cardinality(Cells(points, s)) + Cardinality(Cells(points, t))
    BY <2>2, CellsAdd
  <2> QED
    BY <2>1, <2>3
<1> QED
  BY <1>2, <1>3, <1>5

LEMMA CountedNext ==
  ASSUME NEW points, Scored(points), NEW steps, Stairs(points, steps),
         NEW N \in Nat, N = Cardinality(Envelope(points)), NEW k \in 0..N - 1, NEW n \in Nat,
         NEW from, Counted(points, steps, n, k, from)
  PROVE  Counted(points, steps, n, k + 1, DropAt(points, n, from, steps[k + 1]))
<1> DEFINE t == points[steps[k + 1]].tokens
           y == IF t <= n THEN t ELSE n
           next == DropAt(points, n, from, steps[k + 1])
           d == Level(points, steps, k)
<1>1. /\ steps \in [1..N -> Envelope(points)]
      /\ \A m, l \in 1..N : m < l => points[steps[m]].tokens < points[steps[l]].tokens
  BY DEF Stairs
<1>2. \A m \in 1..N : /\ points[steps[m]].tokens \in Nat
                      /\ points[steps[m]].distortion \in 0..Unit
  BY <1>1, FrontierIsStrict
<1>3. t \in Nat /\ k + 1 \in 1..N
  BY <1>2
<1>4. d \in 0..Unit
  <2>1. k > 0 => k \in 1..N
    OBVIOUS
  <2> QED
    BY <1>2, <2>1, MetricsAssumption DEF Level
<1>5. k > 0 => points[steps[k]].tokens \in Nat /\ points[steps[k]].tokens < t
  <2>1. k > 0 => k \in 1..N /\ k < k + 1
    OBVIOUS
  <2> QED
    BY <1>1, <1>2, <1>3, <2>1
<1>6. /\ from.x \in 0..n /\ from.distortion = d
      /\ from.x = IF k = 0 THEN 0
                  ELSE IF points[steps[k]].tokens <= n THEN points[steps[k]].tokens ELSE n
      /\ from.area = Cardinality(Cells(points, 0..from.x - 1))
  BY DEF Counted
<1> HIDE DEF t, d
<1>7. y \in Nat /\ from.x <= y /\ y <= n /\ y <= t
  BY <1>3, <1>5, <1>6
<1>8. Min({n, t}) = y
  BY <1>3, MinOfPair
<1>9. Max({from.x, y}) = y
  <2>1. Max({from.x, y}) = IF from.x >= y THEN from.x ELSE y
    <3>1. PICK p \in Int, q \in Int : p = from.x /\ q = y
      BY <1>6, <1>7
    <3> HIDE DEF y
    <3>2. Max({p, q}) = IF p >= q THEN p ELSE q
      BY MaxOfPair
    <3> QED
      BY <3>1, <3>2
  <2> HIDE DEF y
  <2> QED
    BY <1>6, <1>7, <2>1
<1>10. /\ next.x = y /\ next.distortion = points[steps[k + 1]].distortion
       /\ next.area = from.area + (y - from.x) * d
  BY <1>6, <1>8, <1>9 DEF DropAt, t
<1> HIDE DEF next, y
<1>11. ASSUME NEW z \in from.x..y - 1
       PROVE  BestDistortion(points, Gated(points), z) = d
  <2>1. z \in Nat /\ from.x <= z /\ z < y
    BY <1>6, <1>7
  <2>2. z < t /\ z < n
    BY <1>3, <1>7, <2>1
  <2>3. k > 0 => points[steps[k]].tokens <= z
    BY <1>5, <1>6, <2>1, <2>2
  <2> QED
    BY <2>1, <2>2, <2>3, LevelBetween DEF d, t
<1>12. Cardinality(Cells(points, 0..y - 1)) = from.area + (y - from.x) * d
  <2>1. PICK x \in Nat, u \in Nat, e \in 0..Unit : x = from.x /\ u = y /\ e = d
    BY <1>4, <1>6, <1>7
  <2>2. \A z \in x..u - 1 : BestDistortion(points, Gated(points), z) = e
    BY <1>11, <2>1
  <2>3. x <= u
    BY <1>7, <2>1
  <2>4. Cardinality(Cells(points, 0..u - 1)) = Cardinality(Cells(points, 0..x - 1)) + (u - x) * e
    BY <2>2, <2>3, CellsUpTo
  <2> QED
    BY <1>6, <2>1, <2>4
<1>13. Level(points, steps, k + 1) = points[steps[k + 1]].distortion
  BY DEF Level
<1>14. next.x = IF k + 1 = 0 THEN 0
                ELSE IF points[steps[k + 1]].tokens <= n THEN points[steps[k + 1]].tokens ELSE n
  BY <1>10 DEF y, t
<1> QED
  BY <1>7, <1>10, <1>12, <1>13, <1>14 DEF Counted, next

(* The area of any ladder, rounded, is what its budgets buy.               *)
LEMMA AurcOfLadder ==
  ASSUME NEW points, Scored(points), NEW normalizer,
         NEW n \in Nat \ {0}, n = Max({1, normalizer})
  PROVE  LET aurc == Aurc(points, Envelope(points), normalizer)
             sum == RefArea(points, Gated(points), n)
         IN 2 * sum - n <= 2 * n * aurc /\ 2 * n * aurc <= 2 * sum + n
<1> DEFINE E == Envelope(points)
<1>1. PICK N \in Nat : N = Cardinality(E)
  BY FrontierFinite
<1>2. PICK steps : steps = ByTokens(points, E)
  OBVIOUS
<1>3. Stairs(points, steps)
  BY <1>2, ByTokensFacts DEF Stairs
<1>4. steps \in [1..N -> E]
  BY <1>1, <1>3 DEF Stairs
<1>5. IsList(steps) /\ Len(steps) = N
  <2>1. steps \in Seq(E) /\ Len(steps) = N
    BY <1>4
  <2> QED
    BY <2>1, SeqIsList
<1>6. PICK curve : /\ CurveOf(points, n, steps, curve)
                   /\ Aurc(points, E, normalizer) = AurcAt(E, n, curve[N])
  BY <1>2, <1>5, CurveRows
<1>7. ASSUME NEW k \in 0..N PROVE Counted(points, steps, n, k, curve[k])
  <2> DEFINE T == {j \in 0..N : Counted(points, steps, n, j, curve[j])}
  <2>1. 0 \in T
    <3>1. Cells(points, 0..0 - 1) = {}
      BY DEF Cells
    <3>2. Cardinality(Cells(points, 0..0 - 1)) = 0
      BY <3>1, FS_EmptySet
    <3>3. curve[0] = Top
      BY <1>6 DEF CurveOf
    <3> QED
      BY <3>2, <3>3 DEF Counted, Level, Top
  <2>2. ASSUME NEW j \in Nat, j < N, j \in T PROVE j + 1 \in T
    <3>1. j \in 0..N - 1 /\ j + 1 \in 1..N /\ j + 1 \in 0..N
      BY <2>2
    <3>2. curve[j + 1] = DropAt(points, n, curve[j], steps[j + 1])
      <4>1. (j + 1) - 1 = j
        OBVIOUS
      <4>2. curve[j + 1] = DropAt(points, n, curve[(j + 1) - 1], steps[j + 1])
        BY <1>5, <1>6, <3>1 DEF CurveOf
      <4> QED
        BY <4>1, <4>2
    <3>3. Counted(points, steps, n, j, curve[j])
      BY <2>2
    <3>4. Counted(points, steps, n, j + 1, DropAt(points, n, curve[j], steps[j + 1]))
      BY <1>1, <1>3, <3>1, <3>3, CountedNext
    <3> QED
      BY <3>1, <3>2, <3>4
  <2> HIDE DEF T
  <2>3. \A j \in 0..N : j \in T
    BY <2>1, <2>2, UpTo
  <2> QED
    BY <2>3 DEF T
<1>8. PICK end : end = curve[N]
  OBVIOUS
<1>9. Counted(points, steps, n, N, end)
  BY <1>7, <1>8
<1> DEFINE d == Level(points, steps, N)
           total == Cardinality(Cells(points, 0..n - 1))
<1>10. d \in 0..Unit
  <2>1. N > 0 => steps[N] \in Envelope(points)
    BY <1>4
  <2>2. N > 0 => points[steps[N]].distortion \in 0..Unit
    BY <2>1, FrontierIsStrict
  <2> QED
    BY <2>2, MetricsAssumption DEF Level
<1>11. /\ end.x \in 0..n /\ end.distortion = d
       /\ end.area = Cardinality(Cells(points, 0..end.x - 1))
       /\ N > 0 => end.x = IF points[steps[N]].tokens <= n THEN points[steps[N]].tokens ELSE n
  BY <1>9 DEF Counted
<1>12. ASSUME NEW z \in end.x..n - 1
       PROVE  BestDistortion(points, Gated(points), z) = d
  <2>1. z \in Nat /\ end.x <= z /\ z < n
    BY <1>11
  <2>2. N > 0 => points[steps[N]].tokens <= z
    BY <1>11, <2>1
  <2>3. N \in 0..N
    OBVIOUS
  <2> QED
    BY <1>1, <1>3, <2>1, <2>2, <2>3, LevelBetween DEF d
<1> HIDE DEF d
<1>13. total = end.area + (n - end.x) * d /\ end.area \in Nat
  <2>1. PICK x \in Nat, u \in Nat, e \in 0..Unit : x = end.x /\ u = n /\ e = d
    BY <1>10, <1>11
  <2>2. \A z \in x..u - 1 : BestDistortion(points, Gated(points), z) = e
    BY <1>12, <2>1
  <2>3. x <= u
    BY <1>11, <2>1
  <2>4. Cardinality(Cells(points, 0..u - 1)) = Cardinality(Cells(points, 0..x - 1)) + (u - x) * e
    BY <2>2, <2>3, CellsUpTo
  <2>5. Cardinality(Cells(points, 0..x - 1)) \in Nat
    <3>1. IsFiniteSet(0..x - 1)
      BY FS_Interval
    <3> QED
      BY <3>1, CellsFinite
  <2> QED
    BY <1>11, <2>1, <2>4, <2>5
<1>14. RefArea(points, Gated(points), n) = total
  BY AreaIsCells
<1>15. AreaAt(n, end) = total
  BY <1>11, <1>13 DEF AreaAt
<1>16. total \in Nat
  <2>1. IsFiniteSet(0..n - 1)
    BY FS_Interval
  <2> QED
    BY <2>1, CellsFinite
<1> HIDE DEF total
<1>17. CASE E = {}
  <2>1. N = 0
    BY <1>1, <1>17, FS_EmptySet
  <2>2. d = Unit /\ end.x = 0 /\ end.area = 0
    <3>1. end = Top
      BY <1>6, <1>8, <2>1 DEF CurveOf
    <3> QED
      BY <2>1, <3>1 DEF d, Level, Top
  <2>3. total = n * Unit
    BY <1>13, <2>2, MetricsAssumption
  <2>4. Aurc(points, E, normalizer) = Unit
    BY <1>17 DEF Aurc
  <2>5. 2 * total - n <= 2 * n * Unit /\ 2 * n * Unit <= 2 * total + n
    BY <2>3, MetricsAssumption
  <2> QED
    BY <1>14, <2>4, <2>5
<1>18. CASE E # {}
  <2> DEFINE a == (2 * total + n) \div (2 * n)
  <2>1. Aurc(points, E, normalizer) = a
    BY <1>6, <1>8, <1>15, <1>18 DEF AurcAt
  <2>2. 2 * n * a <= 2 * total + n /\ 2 * total + n < 2 * n * a + 2 * n /\ a \in Int
    <3>1. PICK m \in Nat, w \in Nat : m = 2 * total + n /\ w = 2 * n /\ w > 0
      BY <1>16
    <3>2. w * (m \div w) <= m /\ m < w * (m \div w) + w /\ m \div w \in Int
      BY <3>1, Division
    <3> QED
      BY <3>1, <3>2
  <2> HIDE DEF a
  <2>3. 2 * total - n <= 2 * n * a
    <3>1. PICK prod \in Int : prod = 2 * n * a
      BY <2>2
    <3> QED
      BY <1>16, <2>2, <3>1
  <2> QED
    BY <1>14, <2>1, <2>2, <2>3
<1> QED
  BY <1>17, <1>18

-----------------------------------------------------------------------------
(* The frontiers of what the verifier accepts.                             *)

(* An accepted result has no second run of a pair: every run that it holds *)
(* is the one that the verifier replayed.                                  *)
LEMMA RunIsReplayed ==
  ASSUME NEW items, NEW result, Shaped(result), ResultCovers(items, result),
         NEW k \in DOMAIN result.itemRuns
  PROVE  \E r \in DOMAIN result.models : \E i \in DOMAIN items :
           /\ result.itemRuns[k] = RunOf(result, result.models[r].model, items[i])
           /\ result.itemRuns[k].item = items[i].id
<1> DEFINE pair == [n \in DOMAIN result.itemRuns |->
                      <<result.itemRuns[n].model, result.itemRuns[n].item>>]
           N == DOMAIN result.itemRuns
           pairs == {<<result.itemRuns[n].model, result.itemRuns[n].item>> :
                       n \in DOMAIN result.itemRuns}
<1>1. /\ pairs = ResultModels(result) \X ItemIds(items)
      /\ Cardinality(pairs) = Len(result.itemRuns)
  BY DEF ResultCovers
<1>2. pair \in Surjection(N, pairs)
  BY DEF Surjection
<1>3. IsFiniteSet(N) /\ Cardinality(N) = Len(result.itemRuns)
  <2>1. IsList(result.itemRuns)
    BY DEF Shaped
  <2>2. N = 1..Len(result.itemRuns) /\ Len(result.itemRuns) \in Nat
    BY <2>1, ListFacts
  <2> HIDE DEF N
  <2> QED
    BY <2>2, FS_Interval
<1>4. pair \in Injection(N, pairs)
  <2> HIDE DEF pair, pairs, N
  <2> QED
    BY <1>1, <1>2, <1>3, FS_SurjSameCardinalityImpliesInj
<1>5. \A n \in N : pair[n] = pair[k] => n = k
  BY <1>4 DEF Injection, IsInjective
<1>6. pair[k] \in ResultModels(result) \X ItemIds(items)
  BY <1>1
<1>7. PICK r \in DOMAIN result.models : result.itemRuns[k].model = result.models[r].model
  BY <1>6 DEF ResultModels
<1>8. PICK i \in DOMAIN items : result.itemRuns[k].item = items[i].id
  BY <1>6 DEF ItemIds
<1>9. PICK n \in DOMAIN result.itemRuns :
        /\ RunOf(result, result.models[r].model, items[i]) = result.itemRuns[n]
        /\ result.itemRuns[n].model = result.models[r].model
        /\ result.itemRuns[n].item = items[i].id
  <2>1. IsList(result.itemRuns)
    BY DEF Shaped
  <2> QED
    BY <1>7, <1>8, <2>1, RunIsFound
<1>10. n = k
  BY <1>5, <1>7, <1>8, <1>9
<1> QED
  BY <1>8, <1>9, <1>10

(* The size of a bag is the number of its copies.                          *)
Copies(B, N) == {p \in (DOMAIN B) \X (1..N) : p[2] <= B[p[1]]}

LEMMA BagIsCopies ==
  ASSUME NEW B, IsFiniteSet(DOMAIN B), NEW N \in Nat, \A x \in DOMAIN B : B[x] \in 0..N
  PROVE  IsFiniteSet(Copies(B, N)) /\ BagCardinality(B) = Cardinality(Copies(B, N))
<1> DEFINE D == DOMAIN B
           Of(s) == {p \in s \X (1..N) : p[2] <= B[p[1]]}
           total == [s \in SUBSET D |-> Cardinality(Of(s))]
<1>1. total[{}] = 0
  <2>1. Of({}) = {}
    OBVIOUS
  <2> QED
    BY <2>1, FS_EmptySet
<1>2. ASSUME NEW s \in SUBSET D PROVE IsFiniteSet(Of(s))
  <2>1. IsFiniteSet(s) /\ IsFiniteSet(1..N)
    BY FS_Subset, FS_Interval
  <2>2. IsFiniteSet(s \X (1..N)) /\ Of(s) \subseteq s \X (1..N)
    BY <2>1, FS_Product
  <2> QED
    BY <2>2, FS_Subset
<1>3. ASSUME NEW s \in SUBSET D, NEW x \in s PROVE total[s] = B[x] + total[s \ {x}]
  <2>1. Of(s) = Of({x}) \cup Of(s \ {x}) /\ Of({x}) \cap Of(s \ {x}) = {}
    OBVIOUS
  <2>2. PICK m \in 0..N : m = B[x]
    OBVIOUS
  <2>3. Of({x}) = {x} \X (1..m)
    <3>1. \A k \in Nat : k \in 1..N /\ k <= m <=> k \in 1..m
      OBVIOUS
    <3> QED
      BY <2>2, <3>1
  <2>4. IsFiniteSet(Of({x})) /\ Cardinality(Of({x})) = m
    <3>1. m \in Nat
      OBVIOUS
    <3> HIDE DEF Of
    <3>2. IsFiniteSet({x} \X (1..m)) /\ Cardinality({x} \X (1..m)) = m
      BY <3>1, CountOf, Zenon
    <3> QED
      BY <2>3, <3>2, Zenon
  <2>5. IsFiniteSet(Of(s \ {x}))
    BY <1>2
  <2>6. total[s] = Cardinality(Of(s)) /\ total[s \ {x}] = Cardinality(Of(s \ {x}))
    OBVIOUS
  <2> HIDE DEF Of, total
  <2>7. /\ Cardinality(Of(s)) = Cardinality(Of({x})) + Cardinality(Of(s \ {x})) - Cardinality({})
        /\ Cardinality(Of(s \ {x})) \in Nat /\ Cardinality({}) = 0
    BY <2>1, <2>4, <2>5, FS_Union, FS_EmptySet, FS_CardinalityType
  <2> QED
    BY <2>2, <2>4, <2>6, <2>7
<1>4. BagCardinality(B) = total[D]
  <2> HIDE DEF total
  <2> QED
    BY <1>1, <1>3, SizeOfBag
<1>5. total[D] = Cardinality(Of(D)) /\ Of(D) = Copies(B, N) /\ IsFiniteSet(Of(D))
  BY <1>2 DEF Copies
<1> QED
  BY <1>4, <1>5

(* The bag of a list, and what two of them share.                          *)
LEMMA ToBagFacts ==
  ASSUME NEW q, IsList(q)
  PROVE  /\ IsFiniteSet(DOMAIN ToBag(q))
         /\ \A x \in DOMAIN ToBag(q) : ToBag(q)[x] \in 0..Len(q)
         /\ BagCardinality(ToBag(q)) = Len(q)
         /\ q = <<>> => ToBag(q) = EmptyBag
<1>1. PICK l \in Nat : l = Len(q) /\ DOMAIN q = 1..l
  BY ListFacts
<1>2. IsFiniteSet(1..l) /\ Cardinality(1..l) = l
  BY FS_Interval
<1>3. ToBag(q) = [x \in Range(q) |-> Cardinality({i \in 1..l : q[i] = x})]
  BY <1>1 DEF ToBag
<1>4. IsFiniteSet(Range(q))
  <2>1. q \in Surjection(1..l, Range(q))
    <3>1. q \in [1..l -> Range(q)]
      BY <1>1 DEF IsList
    <3> QED
      BY <1>1, <3>1 DEF Surjection, Range
  <2> QED
    BY <1>2, <2>1, FS_Surjection
<1>5. ASSUME NEW x PROVE Cardinality({i \in 1..l : q[i] = x}) \in 0..l
  <2> DEFINE S == {i \in 1..l : q[i] = x}
  <2>1. S \subseteq 1..l
    OBVIOUS
  <2> HIDE DEF S
  <2>2. IsFiniteSet(S) /\ Cardinality(S) <= l
    BY <1>2, <2>1, FS_Subset
  <2>3. Cardinality(S) \in Nat
    BY <2>2, FS_CardinalityType
  <2> QED
    BY <2>2, <2>3 DEF S
<1>6. BagCardinality(ToBag(q)) = l
  <2>1. l \in Int
    OBVIOUS
  <2> QED
    BY <1>1, <1>2, <2>1, SizeOfSequence
<1>7. q = <<>> => ToBag(q) = EmptyBag
  <2> SUFFICES ASSUME q = <<>> PROVE ToBag(q) = EmptyBag
    OBVIOUS
  <2>1. Range(q) = {}
    BY DEF Range
  <2>2. EmptyBag = [x \in {} |-> Cardinality({i \in 1..l : q[i] = x})]
    BY DEF EmptyBag, SetToBag
  <2> QED
    BY <1>3, <2>1, <2>2
<1>8. DOMAIN ToBag(q) = Range(q) /\ \A x \in Range(q) : ToBag(q)[x] \in 0..l
  <2>1. DOMAIN ToBag(q) = Range(q)
    BY <1>3
  <2>2. ASSUME NEW x \in Range(q) PROVE ToBag(q)[x] \in 0..l
    <3>1. ToBag(q)[x] = Cardinality({i \in 1..l : q[i] = x})
      BY <1>3
    <3> QED
      BY <1>5, <3>1
  <2> QED
    BY <2>1, <2>2
<1> QED
  BY <1>1, <1>4, <1>6, <1>7, <1>8

LEMMA OverlapBounded ==
  ASSUME NEW p, IsList(p), NEW q, IsList(q)
  PROVE  /\ Overlap(ToBag(p), ToBag(q)) \in Nat
         /\ Overlap(ToBag(p), ToBag(q)) <= Len(p) /\ Overlap(ToBag(p), ToBag(q)) <= Len(q)
<1> DEFINE A == ToBag(p)
           B == ToBag(q)
           w == [g \in BagToSet(A) \cap BagToSet(B) |-> Min({A[g], B[g]})]
<1>1. PICK l \in Nat, m \in Nat : l = Len(p) /\ m = Len(q)
  BY ListFacts
<1> DEFINE N == l + m
<1>2. /\ IsFiniteSet(DOMAIN A) /\ (\A x \in DOMAIN A : A[x] \in 0..l) /\ BagCardinality(A) = l
      /\ IsFiniteSet(DOMAIN B) /\ (\A x \in DOMAIN B : B[x] \in 0..m) /\ BagCardinality(B) = m
  BY <1>1, ToBagFacts
<1>3. N \in Nat
  OBVIOUS
<1>4. Overlap(A, B) = BagCardinality(w)
  BY DEF Overlap
<1> HIDE DEF A, B
<1>5. DOMAIN w = DOMAIN A \cap DOMAIN B
  BY DEF BagToSet
<1>6. ASSUME NEW g \in DOMAIN w
      PROVE  w[g] \in 0..N /\ \A k \in Nat : k <= w[g] => k <= A[g] /\ k <= B[g]
  <2>1. PICK a \in Nat, b \in Nat : a = A[g] /\ b = B[g] /\ a <= l
    BY <1>2, <1>5
  <2>2. w[g] = Min({a, b})
    BY <2>1
  <2>3. Min({a, b}) \in Nat /\ \A k \in Nat : k <= Min({a, b}) <=> k <= a /\ k <= b
    BY LeastOfPair
  <2>4. PICK c \in Nat : c = Min({a, b})
    BY <2>3
  <2>5. c <= a
    BY <2>3, <2>4
  <2> HIDE DEF w
  <2> QED
    BY <2>1, <2>2, <2>3, <2>4, <2>5
<1>7. IsFiniteSet(DOMAIN w)
  <2>1. DOMAIN w \subseteq DOMAIN A
    BY <1>5
  <2> HIDE DEF w
  <2> QED
    BY <1>2, <2>1, FS_Subset
<1> HIDE DEF w
<1>8. IsFiniteSet(Copies(w, N)) /\ BagCardinality(w) = Cardinality(Copies(w, N))
  BY <1>3, <1>6, <1>7, BagIsCopies
<1>9. IsFiniteSet(Copies(A, N)) /\ l = Cardinality(Copies(A, N))
  <2>1. \A x \in DOMAIN A : A[x] \in 0..N
    BY <1>2
  <2> HIDE DEF N
  <2> QED
    BY <1>2, <1>3, <2>1, BagIsCopies
<1>10. IsFiniteSet(Copies(B, N)) /\ m = Cardinality(Copies(B, N))
  <2>1. \A x \in DOMAIN B : B[x] \in 0..N
    BY <1>2
  <2> HIDE DEF N
  <2> QED
    BY <1>2, <1>3, <2>1, BagIsCopies
<1> HIDE DEF N
<1>11. Copies(w, N) \subseteq Copies(A, N) /\ Copies(w, N) \subseteq Copies(B, N)
  <2> SUFFICES ASSUME NEW c \in Copies(w, N)
               PROVE  c \in Copies(A, N) /\ c \in Copies(B, N)
    OBVIOUS
  <2>1. c \in (DOMAIN w) \X (1..N) /\ c[2] <= w[c[1]]
    BY DEF Copies
  <2>2. c[1] \in DOMAIN w /\ c[2] \in Nat
    BY <1>3, <2>1
  <2>3. c[2] <= A[c[1]] /\ c[2] <= B[c[1]]
    BY <1>6, <2>1, <2>2
  <2> QED
    BY <1>5, <2>1, <2>3 DEF Copies
<1>12. Cardinality(Copies(w, N)) <= l /\ Cardinality(Copies(w, N)) <= m
  BY <1>9, <1>10, <1>11, FS_Subset
<1>13. Cardinality(Copies(w, N)) \in Nat
  BY <1>8, FS_CardinalityType
<1> QED
  BY <1>1, <1>4, <1>8, <1>12, <1>13 DEF A, B

(* A sum grows by one value after the other.                               *)
SumsOf(values, part) ==
  /\ part[0] = 0
  /\ \A i \in 1..Len(values) : part[i] = part[i - 1] + values[i]
  /\ Total(values) = part[Len(values)]

LEMMA SumRows ==
  ASSUME NEW values, IsList(values)
  PROVE  \E part : SumsOf(values, part)
<1> DEFINE n == Len(values)
           Step(it, s) == IF s = {} THEN 0
                          ELSE it[s \ {Max(s)}] + values[Max(s)]
           Good(k) == \E it : \A s \in Small(n, k) : it[s] = Step(it, s)
<1>1. n \in Nat /\ DOMAIN values = 1..n
  BY ListFacts
<1>2. Total(values) =
        (CHOOSE it : it = [s \in SUBSET DOMAIN values |-> Step(it, s)])[DOMAIN values]
  BY Zenon DEF Total, FoldLeft, MapThenFoldSet
<1> HIDE DEF n
<1>3. Good(n)
  <2>1. Good(0)
    <3> DEFINE it == [s \in {{}} |-> 0]
    <3>1. \A s \in Small(n, 0) : it[s] = Step(it, s)
      BY <1>1, SmallSets
    <3> QED
      BY <3>1
  <2>2. ASSUME NEW k \in Nat, Good(k) PROVE Good(k + 1)
    <3>1. PICK it : \A s \in Small(n, k) : it[s] = Step(it, s)
      BY <2>2
    <3> DEFINE new == [s \in Small(n, k + 1) |-> Step(it, s)]
    <3>2. Small(n, k) \subseteq Small(n, k + 1)
      BY <1>1, SmallSets
    <3>3. \A s \in Small(n, k) : new[s] = it[s]
      BY <3>1, <3>2
    <3>4. ASSUME NEW s \in Small(n, k + 1) PROVE new[s] = Step(new, s)
      <4>1. s # {} => s \ {Max(s)} \in Small(n, k)
        BY <1>1, SmallSets
      <4>2. s # {} => new[s \ {Max(s)}] = it[s \ {Max(s)}]
        BY <3>3, <4>1
      <4>3. new[s] = Step(it, s)
        OBVIOUS
      <4> HIDE DEF new
      <4> QED
        BY <4>2, <4>3
    <3> QED
      BY <3>4
  <2> DEFINE T == {k \in 0..n : Good(k)}
  <2> HIDE DEF Good
  <2>3. 0 \in T /\ n \in 0..n /\ \A k \in Nat : k < n /\ k \in T => k + 1 \in T
    BY <1>1, <2>1, <2>2
  <2>4. n \in T
    <3> HIDE DEF T
    <3> QED
      BY <1>1, <2>3, UpTo, Zenon
  <2> QED
    BY <2>4
<1>4. PICK it : /\ it = [s \in SUBSET DOMAIN values |-> Step(it, s)]
                /\ Total(values) = it[DOMAIN values]
  <2>1. PICK g : \A s \in Small(n, n) : g[s] = Step(g, s)
    BY <1>3
  <2> DEFINE it == [s \in SUBSET DOMAIN values |-> g[s]]
  <2>2. it = [s \in SUBSET DOMAIN values |-> Step(it, s)]
    BY <1>1, <2>1, SmallSets
  <2> HIDE DEF it, Step
  <2> QED
    BY <1>2, <2>2, Zenon
<1> DEFINE part == [i \in 0..n |-> it[1..i]]
<1>5. part[0] = 0
  BY <1>1, <1>4
<1>6. ASSUME NEW i \in 1..n PROVE part[i] = part[i - 1] + values[i]
  <2>1. /\ 1..i \in SUBSET DOMAIN values /\ 1..i # {} /\ Max(1..i) = i
        /\ (1..i) \ {Max(1..i)} = 1..(i - 1)
    BY <1>1, InitialSegments, Zenon
  <2>2. it[1..i] = it[1..(i - 1)] + values[i]
    BY <1>4, <2>1
  <2>3. i \in 0..n /\ i - 1 \in 0..n
    BY <1>1
  <2> QED
    BY <2>2, <2>3
<1>7. Total(values) = part[n]
  BY <1>1, <1>4
<1> HIDE DEF part
<1> QED
  BY <1>5, <1>6, <1>7 DEF n, SumsOf

(* A share, rounded, and the mean of shares are shares.                    *)
LEMMA QuotientInUnit ==
  ASSUME NEW s \in Nat, NEW n \in Nat \ {0}, s <= n * Unit
  PROVE  (2 * s + n) \div (2 * n) \in 0..Unit
<1>1. PICK u \in Nat : u = Unit
  BY MetricsAssumption
<1>2. PICK x \in Nat, w \in Nat : x = 2 * s + n /\ w = 2 * n /\ w > 0
  OBVIOUS
<1>3. PICK q \in Nat : q = x \div w /\ w * q <= x
  BY <1>2, Division
<1>4. q <= u
  <2> SUFFICES ASSUME u + 1 <= q PROVE FALSE
    OBVIOUS
  <2>1. (u + 1) * w <= q * w
    BY <1>2, Monotone
  <2>2. (u + 1) * w = 2 * (n * u) + 2 * n
    BY <1>2
  <2>3. q * w = w * q
    OBVIOUS
  <2>4. PICK m \in Nat : m = n * u /\ s <= m
    BY <1>1
  <2> QED
    BY <1>2, <1>3, <2>1, <2>2, <2>3, <2>4
<1> QED
  BY <1>1, <1>2, <1>3, <1>4

LEMMA RoundedInUnit ==
  ASSUME NEW n \in Nat \ {0}, NEW c \in 0..n
  PROVE  Rounded(c, n) \in 0..Unit
<1>1. PICK u \in Nat : u = Unit
  BY MetricsAssumption
<1>2. c * u <= n * u /\ c * u \in Nat
  BY Monotone, Product
<1>3. PICK s \in Nat : s = c * u
  BY <1>2
<1>4. (2 * s + n) \div (2 * n) \in 0..Unit
  BY <1>1, <1>2, <1>3, QuotientInUnit
<1>5. 2 * c * u = 2 * s
  BY <1>3
<1> QED
  BY <1>1, <1>4, <1>5 DEF Rounded

LEMMA MeanInUnit ==
  ASSUME NEW values, IsList(values), values # <<>>,
         \A i \in DOMAIN values : values[i] \in 0..Unit
  PROVE  MeanOf(values) \in 0..Unit
<1>1. PICK n \in Nat \ {0} : n = Len(values) /\ DOMAIN values = 1..n
  BY ListFacts
<1>2. PICK part : SumsOf(values, part)
  BY SumRows, Zenon
<1>3. PICK u \in Nat : u = Unit
  BY MetricsAssumption
<1> DEFINE T == {i \in 0..n : part[i] \in Nat /\ part[i] <= i * u}
<1>4. 0 \in T
  <2>1. part[0] = 0 /\ 0 * u = 0
    BY <1>2 DEF SumsOf
  <2> QED
    BY <2>1
<1>5. ASSUME NEW i \in Nat, i < n, i \in T PROVE i + 1 \in T
  <2>1. i + 1 \in 1..n /\ i + 1 \in 0..n /\ (i + 1) - 1 = i
    BY <1>5
  <2>2. part[i + 1] = part[i] + values[i + 1]
    BY <1>1, <1>2, <2>1 DEF SumsOf
  <2>3. PICK v \in Nat : v = values[i + 1] /\ v <= u
    BY <1>1, <1>3, <2>1
  <2>4. PICK p \in Nat : p = part[i] /\ p <= i * u
    BY <1>5
  <2>5. (i + 1) * u = i * u + u
    OBVIOUS
  <2>6. PICK m \in Nat : m = i * u
    BY Product
  <2>7. part[i + 1] \in Nat /\ part[i + 1] <= (i + 1) * u
    BY <2>2, <2>3, <2>4, <2>5, <2>6
  <2> QED
    BY <2>1, <2>7
<1>6. n \in T
  <2>1. n \in 0..n
    OBVIOUS
  <2> HIDE DEF T
  <2> QED
    BY <1>4, <1>5, <2>1, UpTo, Zenon
<1>7. PICK s \in Nat : s = Total(values) /\ s <= n * Unit
  <2>1. part[n] \in Nat /\ part[n] <= n * u /\ part[n] = Total(values)
    BY <1>1, <1>2, <1>6 DEF SumsOf
  <2> QED
    BY <1>3, <2>1
<1>8. MeanOf(values) = (2 * s + n) \div (2 * n)
  <2>1. MeanOf(values) = (2 * Total(values) + Len(values)) \div (2 * Len(values))
    BY Zenon DEF MeanOf
  <2> QED
    BY <1>1, <1>7, <2>1
<1> QED
  BY <1>7, <1>8, QuotientInUnit

(* Two texts are at most as far apart as the longer of them is long.       *)
LEMMA DistanceBounded ==
  ASSUME NEW a, IsList(a), NEW b, IsList(b)
  PROVE  Levenshtein(a, b) \in 0..Max({Len(a), Len(b)})
<1>1. PICK m \in Nat, n \in Nat : m = Len(a) /\ n = Len(b)
  BY ListFacts
<1> DEFINE C == UNION {{m + n - 2 * k + Differ(a, f, b, g, k) :
                          f \in Rising(k, m), g \in Rising(k, n)} : k \in 0..m}
<1>2. Levenshtein(a, b) = Min(C)
  BY <1>1, DistanceIsExact, SMTT(40) DEF RefDistance
<1>3. PICK k \in 0..m : k <= n /\ (k = m \/ k = n)
  <2>1. (IF m <= n THEN m ELSE n) \in 0..m
    OBVIOUS
  <2> QED
    BY <2>1
<1>4. PICK f : f = [i \in 1..k |-> i]
  OBVIOUS
<1>5. f \in Rising(k, m) /\ f \in Rising(k, n)
  BY <1>3, <1>4 DEF Rising
<1>6. PICK e \in Nat : e = Differ(a, f, b, f, k) /\ e <= k
  <2> DEFINE S == {i \in 1..k : a[f[i]] # b[f[i]]}
  <2>1. IsFiniteSet(1..k) /\ Cardinality(1..k) = k /\ S \subseteq 1..k
    <3>1. PICK l \in Nat : l = k
      OBVIOUS
    <3>2. IsFiniteSet(1..l) /\ Cardinality(1..l) = l
      BY FS_Interval
    <3> QED
      BY <3>1, <3>2
  <2> HIDE DEF S
  <2>2. IsFiniteSet(S) /\ Cardinality(S) <= k
    BY <2>1, FS_Subset
  <2>3. Cardinality(S) \in Nat
    BY <2>2, FS_CardinalityType
  <2> QED
    BY <2>2, <2>3 DEF S, Differ
<1>7. PICK c \in C : c = m + n - 2 * k + e
  BY <1>5, <1>6
<1>8. \A x \in C : x \in Nat
  <2> SUFFICES ASSUME NEW j \in 0..m, NEW l \in Rising(j, m), NEW g \in Rising(j, n)
               PROVE  m + n - 2 * j + Differ(a, l, b, g, j) \in Nat
    OBVIOUS
  <2>1. j <= n
    BY RisingFits
  <2>2. PICK d \in Nat : d = Differ(a, l, b, g, j)
    BY DifferFacts, SMTT(40)
  <2> QED
    BY <2>1, <2>2
<1> HIDE DEF C
<1>9. C \subseteq Nat /\ C # {}
  BY <1>7, <1>8
<1>10. Min(C) \in C /\ Min(C) <= c
  BY <1>7, <1>9, LeastIsLeast
<1>11. PICK x \in Nat : x = Min(C)
  BY <1>9, <1>10
<1>12. c <= Max({m, n}) /\ Max({m, n}) \in Int
  <2>1. Max({m, n}) >= m /\ Max({m, n}) >= n /\ Max({m, n}) \in Int
    BY MaxOfPair
  <2> QED
    BY <1>3, <1>6, <1>7, <2>1
<1>13. c \in Nat
  BY <1>9
<1> QED
  BY <1>1, <1>2, <1>10, <1>11, <1>12, <1>13

-----------------------------------------------------------------------------
(* Fidelity is a share.                                                    *)

LEMMA NormalizedIsSeq ==
  ASSUME NEW text, IsText(text)
  PROVE  NormalizeUnicode(text) \in Seq(DOMAIN Compatible) /\ IsList(NormalizeLexical(text))
<1>1. text \in Seq(DOMAIN Compatible)
  BY ListIsSeq DEF IsText
<1>2. NormalizeUnicode(text) \in Seq(DOMAIN Compatible)
  BY <1>1, NewlinesIsSeq, NormalIsSeq DEF NormalizeUnicode
<1>3. Normal(Folded, NormalizeUnicode(text)) \in Seq(DOMAIN Compatible)
  BY <1>2, NormalIsSeq
<1>4. NormalizeLexical(text) \in Seq(DOMAIN Compatible \cup {Blank})
  BY <1>3, CollapsedIsNeat DEF NormalizeLexical
<1>5. IsList(NormalizeLexical(text))
  BY <1>4, SeqIsList
<1> QED
  BY <1>2, <1>5

LEMMA EditInUnit ==
  ASSUME NEW target, IsText(target), NEW output, IsText(output)
  PROVE  EditSimilarity(target, output) \in 0..Unit
<1> DEFINE t == NormalizeUnicode(target)
           o == NormalizeUnicode(output)
<1>1. IsList(t) /\ IsList(o)
  BY NormalizedIsSeq, SeqIsList
<1>2. PICK m \in Nat, n \in Nat : m = Len(t) /\ n = Len(o)
  BY <1>1, ListFacts
<1>3. PICK scale \in Nat : scale = Max({m, n})
  <2>1. Max({m, n}) \in Int /\ Max({m, n}) >= m
    BY MaxOfPair
  <2> QED
    BY <2>1
<1>4. PICK d \in 0..scale : d = Levenshtein(t, o)
  BY <1>1, <1>2, <1>3, DistanceBounded
<1>5. EditSimilarity(target, output) =
        IF scale = 0 THEN Unit ELSE IF m = 0 \/ n = 0 THEN 0 ELSE Rounded(scale - d, scale)
  BY <1>2, <1>3, <1>4 DEF EditSimilarity, Similarity
<1>6. scale # 0 => Rounded(scale - d, scale) \in 0..Unit
  BY RoundedInUnit
<1>7. 0 \in 0..Unit /\ Unit \in 0..Unit
  BY MetricsAssumption
<1> QED
  BY <1>5, <1>6, <1>7

(* The runs of three characters of a text, or the whole of a shorter one.  *)
GramList(clean) ==
  IF clean # <<>> /\ Len(clean) < 3 THEN <<clean>>
  ELSE [i \in 1..Len(clean) - 3 + 1 |-> SubSeq(clean, i, i + 3 - 1)]

LEMMA GramListIsList ==
  ASSUME NEW clean, IsList(clean)
  PROVE  IsList(GramList(clean))
<1>1. CASE clean # <<>> /\ Len(clean) < 3
  <2>1. <<clean>> \in Seq({clean})
    OBVIOUS
  <2>2. GramList(clean) = <<clean>>
    BY <1>1 DEF GramList
  <2> QED
    BY <2>1, <2>2, SeqIsList
<1>2. CASE ~(clean # <<>> /\ Len(clean) < 3)
  <2> DEFINE l == Len(clean) - 3 + 1
             g == [i \in 1..l |-> SubSeq(clean, i, i + 3 - 1)]
  <2>1. l \in Int
    BY ListFacts
  <2>2. PICK n \in Nat : 1..l = 1..n
    <3>1. IF l >= 0 THEN l \in Nat /\ 1..l = 1..l ELSE 1..l = 1..0
      BY <2>1
    <3> QED
      BY <3>1
  <2>3. g \in [1..n -> Range(g)]
    BY <2>2 DEF Range
  <2>4. GramList(clean) = g
    BY <1>2 DEF GramList
  <2> HIDE DEF g
  <2>5. g \in Seq(Range(g))
    BY <2>3
  <2> QED
    BY <2>4, <2>5 DEF IsList
<1> QED
  BY <1>1, <1>2

LEMMA NgramInUnit ==
  ASSUME NEW target, IsText(target), NEW output, IsText(output)
  PROVE  NgramSimilarity(target, output) \in 0..Unit
<1> DEFINE p == GramList(NormalizeLexical(target))
           q == GramList(NormalizeLexical(output))
<1>1. IsList(p) /\ IsList(q)
  BY NormalizedIsSeq, GramListIsList
<1>2. NgramSimilarity(target, output) =
        IF ToBag(p) = EmptyBag /\ ToBag(q) = EmptyBag THEN Unit
        ELSE IF ToBag(p) = EmptyBag \/ ToBag(q) = EmptyBag THEN 0
        ELSE Rounded(Overlap(ToBag(p), ToBag(q)),
                     BagCardinality(ToBag(p)) + BagCardinality(ToBag(q))
                       - Overlap(ToBag(p), ToBag(q)))
  <2> DEFINE t == Trigrams(NormalizeLexical(target))
             o == Trigrams(NormalizeLexical(output))
             common == Overlap(t, o)
  <2>1. NgramSimilarity(target, output) =
          IF t = EmptyBag /\ o = EmptyBag THEN Unit
          ELSE IF t = EmptyBag \/ o = EmptyBag THEN 0
          ELSE Rounded(common, BagCardinality(t) + BagCardinality(o) - common)
    BY Zenon DEF NgramSimilarity, Jaccard
  <2>2. ASSUME NEW clean PROVE Trigrams(clean) = ToBag(GramList(clean))
    <3>1. CASE clean # <<>> /\ Len(clean) < 3
      <4>1. GramList(clean) = <<clean>>
        BY <3>1, Zenon DEF GramList
      <4> QED
        BY <3>1, <4>1, Zenon DEF Trigrams
    <3>2. CASE ~(clean # <<>> /\ Len(clean) < 3)
      <4>1. GramList(clean) = [i \in 1..Len(clean) - 3 + 1 |-> SubSeq(clean, i, i + 3 - 1)]
        BY <3>2, Zenon DEF GramList
      <4>2. Ngrams(clean, 3) = ToBag(GramList(clean))
        BY <4>1, Zenon DEF Ngrams
      <4> QED
        BY <3>2, <4>2, Zenon DEF Trigrams
    <3> QED
      BY <3>1, <3>2, Zenon
  <2>3. t = ToBag(p) /\ o = ToBag(q)
    BY <2>2
  <2> HIDE DEF t, o, p, q
  <2> QED
    BY <2>1, <2>3
<1> HIDE DEF p, q
<1>3. PICK m \in Nat, n \in Nat : m = Len(p) /\ n = Len(q)
  BY <1>1, ListFacts
<1>4. /\ BagCardinality(ToBag(p)) = m /\ BagCardinality(ToBag(q)) = n
      /\ ToBag(p) # EmptyBag => m > 0
  BY <1>1, <1>3, ToBagFacts, ListFacts
<1>5. PICK c \in Nat : c = Overlap(ToBag(p), ToBag(q)) /\ c <= m /\ c <= n
  BY <1>1, <1>3, OverlapBounded
<1>6. m > 0 => Rounded(c, m + n - c) \in 0..Unit
  <2> SUFFICES ASSUME m > 0 PROVE Rounded(c, m + n - c) \in 0..Unit
    OBVIOUS
  <2>1. PICK u \in Nat \ {0} : u = m + n - c /\ c \in 0..u
    BY <1>5
  <2> QED
    BY <2>1, RoundedInUnit
<1>7. 0 \in 0..Unit /\ Unit \in 0..Unit
  BY MetricsAssumption
<1> QED
  BY <1>2, <1>4, <1>5, <1>6, <1>7

LEMMA FidelityInUnit ==
  ASSUME NEW target, IsText(target), NEW output, IsText(output),
         NEW class \in MetricClasses
  PROVE  Fidelity(target, output, class) \in 0..Unit
<1>1. EditSimilarity(target, output) \in 0..Unit /\ NgramSimilarity(target, output) \in 0..Unit
  BY EditInUnit, NgramInUnit
<1>2. 0 \in 0..Unit /\ Unit \in 0..Unit
  BY MetricsAssumption
<1> QED
  BY <1>1, <1>2 DEF Fidelity, MetricClasses

-----------------------------------------------------------------------------
(* The metrics of a ladder.                                                *)

(* A text's length is a count.                                             *)
LEMMA TokensAreCounted ==
  ASSUME NEW text, IsText(text)
  PROVE  TokenCount(text) \in Nat
<1> DEFINE starts == {n \in DOMAIN text : text[n] \in Alnum /\ (n = 1 \/ text[n - 1] \notin Alnum)}
<1>1. IsList(text)
  BY DEF IsText
<1>2. IsFiniteSet(starts)
  <2>1. IsFiniteSet(DOMAIN text) /\ starts \subseteq DOMAIN text
    BY <1>1, ListFacts
  <2> QED
    BY <2>1, FS_Subset
<1>3. TokenCount(text) = Cardinality(starts)
  BY DEF TokenCount
<1> QED
  BY <1>2, <1>3, FS_CardinalityType

(* The axis of an area is at least one token long.                         *)
LEMMA MaxOfThree ==
  ASSUME NEW p \in Nat, NEW q \in Nat
  PROVE  /\ Max({1, q, p}) \in Nat \ {0}
         /\ Max({1, q, p}) = Max({1, Max({p, q, 1})})
<1> DEFINE S == {1, q, p}
           m == IF p >= q THEN (IF p >= 1 THEN p ELSE 1) ELSE (IF q >= 1 THEN q ELSE 1)
<1>1. m \in S /\ (\A y \in S : m >= y) /\ m \in Nat \ {0}
  OBVIOUS
<1>2. \A x \in S : (\A y \in S : x >= y) => x = m
  OBVIOUS
<1>3. {p, q, 1} = S
  OBVIOUS
<1>4. m >= 1
  BY <1>1
<1> HIDE DEF m, S
<1>5. Max(S) = m
  BY <1>1, <1>2, Zenon DEF Max
<1>6. Max({1, m}) = m
  BY <1>1, <1>4, MaxOfPair
<1> QED
  BY <1>1, <1>3, <1>5, <1>6 DEF S

(* The measurements of an item, and what leaks of it.                      *)
LadderOf(item, points) ==
  /\ Scored(points) /\ DOMAIN points = DOMAIN item.ladder
  /\ \A p \in DOMAIN points :
       /\ points[p].tokens = TokenCount(item.ladder[p].text)
       /\ points[p].disqualified = Gate(item.ladder[p], item).disqualified
LeaksAt(item) ==
  {p \in DOMAIN item.ladder : RefLeaks(item.ladder[p].text, item.target)}
Metered(item, run) ==
  RefFrontier(item, LeaksAt(item), run) /\ RefAurc(item, LeaksAt(item), run)

LEMMA LadderIsMetered ==
  ASSUME NEW items \in Datasets, NEW i \in DOMAIN items, NEW model,
         NEW points, LadderOf(items[i], points)
  PROVE  Metered(items[i], ItemRun(model, items[i], points))
<1> DEFINE item == items[i]
           run == ItemRun(model, item, points)
           first == TokenCount(item.ladder[1].text)
           whole == TokenCount(item.target)
<1>1. /\ run.measurements = points
      /\ run.frontier = Envelope(points)
      /\ run.metrics.ecl = EclAtTau(points, Envelope(points), Tau)
      /\ run.metrics.elicit = ElicitAtK(points, Tau, K)
      /\ run.metrics.aurc = Aurc(points, Envelope(points), Max({first, whole, 1}))
  BY DEF ItemRun
<1>2. Scored(points) /\ DOMAIN points = DOMAIN item.ladder
  BY DEF LadderOf
<1>3. LeaksAt(item) = Gated(points)
  <2>1. ASSUME NEW p \in DOMAIN item.ladder
        PROVE  points[p].disqualified <=> RefLeaks(item.ladder[p].text, item.target)
    <3>1. points[p].disqualified = Gate(item.ladder[p], item).disqualified
      BY <1>2 DEF LadderOf
    <3>2. Gate(item.ladder[p], item).disqualified
            <=> RefLeaks(item.ladder[p].text, item.target)
      BY GateIsExact
    <3>3. Gate(item.ladder[p], item).disqualified \in BOOLEAN
      BY DEF Gate, EvaluateLeakage, Verdict
    <3> QED
      BY <3>1, <3>2, <3>3
  <2> HIDE DEF item
  <2> QED
    BY <1>2, <2>1 DEF LeaksAt, Gated
<1>4. IsList(item.ladder) /\ item.ladder # <<>> /\ IsText(item.target)
      /\ \A p \in DOMAIN item.ladder : IsText(item.ladder[p].text)
  BY DatasetAssumption
<1>5. 1 \in DOMAIN item.ladder
  BY <1>4, ListFacts
<1>6. first \in Nat /\ whole \in Nat /\ points[1].tokens = first
  BY <1>2, <1>4, <1>5, TokensAreCounted DEF LadderOf
<1> HIDE DEF item, run
<1>7. PICK n \in Nat \ {0} : n = Max({1, whole, first}) /\ n = Max({1, Max({first, whole, 1})})
  BY <1>6, MaxOfThree
<1>8. /\ 2 * RefArea(points, Gated(points), n) - n <= 2 * n * run.metrics.aurc
      /\ 2 * n * run.metrics.aurc <= 2 * RefArea(points, Gated(points), n) + n
  BY <1>1, <1>2, <1>7, AurcOfLadder
<1>9. RefAurc(item, LeaksAt(item), run)
  BY <1>1, <1>3, <1>6, <1>7, <1>8 DEF RefAurc
<1>10. /\ FrontierIsBest(points, Gated(points), run.frontier)
       /\ EclIsLeast(points, Gated(points), run.metrics.ecl)
       /\ run.metrics.elicit <=> Reaching(points, Gated(points), K)
  BY <1>1, <1>2, FrontierOfLadder, EclOfLadder, ElicitOfLadder
<1>11. RefFrontier(item, LeaksAt(item), run)
  BY <1>1, <1>2, <1>3, <1>10 DEF RefFrontier
<1> QED
  BY <1>9, <1>11 DEF Metered, item, run

(* An item of a dataset that was not refused is found by its name.         *)
LEMMA ItemIsFound ==
  ASSUME dataset \in Datasets, ~Refused(dataset), NEW i \in DOMAIN dataset,
         NEW run, run.item = dataset[i].id, Metered(dataset[i], run)
  PROVE  ItemMetrics(run)
<1>1. ItemOf(run) = i
  <2>1. \A j \in DOMAIN dataset : dataset[j].id = dataset[i].id => j = i
    BY DEF Refused, IsInjective
  <2> QED
    BY <2>1 DEF ItemOf
<1>2. LeaksIn(i) = LeaksAt(dataset[i])
  <2>1. LeaksOf[dataset] =
          UNION {{<<j, p>> : p \in {q \in DOMAIN dataset[j].ladder :
                    RefLeaks(dataset[j].ladder[q].text, dataset[j].target)}} :
                 j \in DOMAIN dataset}
    BY DEF LeaksOf
  <2>2. ASSUME NEW leak \in LeaksOf[dataset], leak[1] = i
        PROVE  leak[2] \in LeaksAt(dataset[i])
    <3>1. PICK j \in DOMAIN dataset :
            leak \in {<<j, p>> : p \in {q \in DOMAIN dataset[j].ladder :
                        RefLeaks(dataset[j].ladder[q].text, dataset[j].target)}}
      BY <2>1, Zenon
    <3>2. PICK p \in DOMAIN dataset[j].ladder :
            leak = <<j, p>> /\ RefLeaks(dataset[j].ladder[p].text, dataset[j].target)
      BY <3>1
    <3>3. j = i /\ leak[2] = p
      BY <2>2, <3>2
    <3> QED
      BY <3>2, <3>3 DEF LeaksAt
  <2>3. ASSUME NEW p \in LeaksAt(dataset[i])
        PROVE  <<i, p>> \in LeaksOf[dataset] /\ <<i, p>>[1] = i /\ <<i, p>>[2] = p
    BY <2>1 DEF LeaksAt
  <2> QED
    BY <2>2, <2>3 DEF LeaksIn
<1> QED
  BY <1>1, <1>2 DEF ItemMetrics, FrontierMatches, Metered

-----------------------------------------------------------------------------
(* The metrics of what the verifier accepts.                               *)

(* A replayed run's measurements are those of a ladder.                    *)
LEMMA ReplayedIsLadder ==
  ASSUME NEW items \in Datasets, NEW i \in DOMAIN items, NEW model,
         NEW run, run = Replayed(items[i], model, run),
         IsList(run.measurements),
         \A p \in DOMAIN run.measurements : run.measurements[p].fidelity \in 0..Unit
  PROVE  Metered(items[i], run)
<1> DEFINE item == items[i]
           Answered(q) ==
             LET r == run.measurements[q]
             IN [n \in DOMAIN r.outputs |->
                   [text |-> r.outputs[n],
                    source |-> IF EvidenceMode(model) = "mock" THEN "none" ELSE r.receipts[n]]]
           points == [q \in DOMAIN item.ladder |-> Measurement(model, item, q, Answered(q))]
<1>1. run = ItemRun(model, item, points)
  BY DEF Replayed
<1>2. ItemRun(model, item, points).measurements = points
  BY SMTT(40) DEF ItemRun
<1>3. run.measurements = points
  BY <1>1, <1>2
<1>4. ASSUME NEW p \in DOMAIN item.ladder
      PROVE  /\ points[p].tokens \in Nat
             /\ points[p].tokens = TokenCount(item.ladder[p].text)
             /\ points[p].distortion = Unit - points[p].fidelity
             /\ points[p].disqualified \in BOOLEAN
             /\ points[p].disqualified = Gate(item.ladder[p], item).disqualified
  <2>1. points[p] = Measurement(model, item, p, Answered(p))
    OBVIOUS
  <2> HIDE DEF points, Answered
  <2>2. /\ points[p].tokens = TokenCount(item.ladder[p].text)
        /\ points[p].distortion = Unit - points[p].fidelity
        /\ points[p].disqualified = Gate(item.ladder[p], item).disqualified
    BY <2>1 DEF Measurement
  <2>3. Gate(item.ladder[p], item).disqualified \in BOOLEAN
    BY DEF Gate, EvaluateLeakage, Verdict
  <2>4. TokenCount(item.ladder[p].text) \in Nat
    BY DatasetAssumption, TokensAreCounted
  <2> QED
    BY <2>2, <2>3, <2>4
<1>5. DOMAIN points = DOMAIN item.ladder
  OBVIOUS
<1> HIDE DEF points, item
<1>6. Scored(points)
  BY <1>3, <1>4, <1>5 DEF Scored
<1>7. LadderOf(item, points)
  BY <1>4, <1>5, <1>6 DEF LadderOf
<1> QED
  BY <1>1, <1>7, LadderIsMetered, SMTT(40) DEF item

(* Every frontier, area, ECL and Elicit of a result that the verifier      *)
(* accepts, whatever was edited or forged, is that of its own measurements *)
(* and of what leaks in the frozen dataset (verify.py:745, metrics.py:35): *)
(* the half of MetricsMatchReference about the verifier.                   *)
THEOREM VerifiedFrontiersProved ==
  Spec => [](Verified => \A run \in Range(read.result.itemRuns) : ItemMetrics(run))
<1> DEFINE Inv == Verified => \A run \in Range(read.result.itemRuns) : ItemMetrics(run)
<1>1. CommandInv /\ VerdictInv => Inv
  <2> SUFFICES ASSUME CommandInv, VerdictInv, Verified,
                      NEW run \in Range(read.result.itemRuns)
               PROVE  ItemMetrics(run)
    OBVIOUS
  <2> DEFINE result == read.result
  <2>1. Accepts(read.dataset, result, read.manifest)
    BY DEF VerdictInv, Verified
  <2>2. read.dataset = dataset /\ dataset \in Datasets /\ ~Refused(dataset)
    BY <2>1 DEF Accepts, CommandInv, CommandTypeOK, Started, VerdictInv, Verified
  <2>3. /\ Shaped(result) /\ ResultCovers(dataset, result) /\ ResultReplays(dataset, result)
    BY <2>1, <2>2 DEF Accepts
  <2>4. PICK k \in DOMAIN result.itemRuns : run = result.itemRuns[k]
    BY DEF Range
  <2>5. /\ IsList(run.measurements)
        /\ \A p \in DOMAIN run.measurements : run.measurements[p].fidelity \in 0..Unit
    BY <2>3, <2>4 DEF Shaped
  <2>6. PICK r \in DOMAIN result.models : \E i \in DOMAIN dataset :
          /\ run = RunOf(result, result.models[r].model, dataset[i])
          /\ run.item = dataset[i].id
    BY <2>3, <2>4, RunIsReplayed
  <2>7. PICK i \in DOMAIN dataset :
          /\ run = RunOf(result, result.models[r].model, dataset[i])
          /\ run.item = dataset[i].id
    BY <2>6
  <2>8. run = Replayed(dataset[i], result.models[r].model, run)
    BY <2>3, <2>7 DEF ResultReplays
  <2>9. Metered(dataset[i], run)
    BY <2>2, <2>5, <2>8, ReplayedIsLadder
  <2> QED
    BY <2>2, <2>7, <2>9, ItemIsFound
<1> QED
  BY <1>1, CommandInvariant, VerdictInvariant, PTL

-----------------------------------------------------------------------------
(* What the command measures.                                              *)

(* The answers of a model's adapter: texts, each with where it came from.  *)
Given(model, answers) ==
  /\ IsList(answers)
  /\ \A n \in DOMAIN answers :
       /\ answers[n] = [text |-> answers[n].text, source |-> answers[n].source]
       /\ IsText(answers[n].text)
       /\ answers[n].source \in
            (IF EvidenceMode(model) = "mock" THEN {"none"} ELSE {"provider", "cache"})

(* A row is measured from all the answers that the prompt asks for, none   *)
(* if it leaks, and the scorer took each of them.                          *)
Measured(model, item, p, row) ==
  \E answers :
    /\ Given(model, answers)
    /\ \A n \in DOMAIN answers :
         ~FidelityRaises(item.target, answers[n].text, item.metricClass)
    /\ Len(answers) = IF Gate(item.ladder[p], item).disqualified THEN 0
                      ELSE EffectiveReruns(model)
    /\ row = Measurement(model, item, p, answers)

Climbed(model, item, points) ==
  /\ IsList(points) /\ DOMAIN points = DOMAIN item.ladder
  /\ \A p \in DOMAIN points : Measured(model, item, p, points[p])

ModelOf(items, n) == Models[((n - 1) \div Len(items)) + 1]
ItemFor(items, n) == items[((n - 1) % Len(items)) + 1]

(* The runs come one item after the other, one model after the other.      *)
Finished(items, n, run) ==
  \E points : /\ Climbed(ModelOf(items, n), ItemFor(items, n), points)
              /\ run = ItemRun(ModelOf(items, n), ItemFor(items, n), points)

MeasuredInv ==
  /\ phase = "run" => /\ Given(Model, outs)
                      /\ \A p \in DOMAIN ladder : Measured(Model, Item, p, ladder[p])
  /\ \A n \in DOMAIN runs : Finished(dataset, n, runs[n])
  /\ phase = "done" => Len(runs) = Len(Models) * Len(dataset)
  /\ runs # <<>> => ~Refused(dataset)

LEMMA AppendAt ==
  ASSUME NEW s, IsList(s), NEW e
  PROVE  /\ DOMAIN Append(s, e) = 1..Len(s) + 1
         /\ \A i \in 1..Len(s) : Append(s, e)[i] = s[i]
         /\ Append(s, e)[Len(s) + 1] = e
<1>1. s \in Seq(Range(s) \cup {e}) /\ s \in Seq(Range(s))
  BY DEF IsList
<1> QED
  BY <1>1

LEMMA NoneGiven ==
  ASSUME NEW model
  PROVE  Given(model, <<>>) /\ Len(<<>>) = 0 /\ DOMAIN <<>> = {}
BY EmptyList DEF Given

LEMMA AllGiven ==
  ASSUME NEW model, NEW item, NEW p, NEW answers, Given(model, answers),
         \A n \in DOMAIN answers :
           ~FidelityRaises(item.target, answers[n].text, item.metricClass),
         Len(answers) = IF Gate(item.ladder[p], item).disqualified THEN 0
                        ELSE EffectiveReruns(model)
  PROVE  Measured(model, item, p, Measurement(model, item, p, answers))
BY Zenon DEF Measured

LEMMA RecordMeasures ==
  ASSUME RunInv, MeasuredInv, AtPrompt, NEW answers, Record(answers),
         UNCHANGED <<dataset, env, phase, runs>>,
         Measured(Model, Item, Prompt, Measurement(Model, Item, Prompt, answers))
  PROVE  MeasuredInv'
<1>1. phase = "run" /\ IsList(ladder) /\ Len(ladder) \in Nat /\ DOMAIN ladder = 1..Len(ladder)
  BY ListFacts DEF AtPrompt, RunInv, CommandTypeOK
<1> DEFINE row == Measurement(Model, Item, Prompt, answers)
<1>2. /\ Model' = Model /\ Item' = Item /\ outs' = <<>>
      /\ ladder' = Append(ladder, row) /\ Prompt = Len(ladder) + 1
  BY DEF Record, Model, Item, Prompt
<1> HIDE DEF row
<1>3. ASSUME NEW p \in DOMAIN ladder'
      PROVE  Measured(Model, Item, p, ladder'[p])
  <2>1. p \in 1..Len(ladder) + 1
    BY <1>1, <1>2, AppendAt
  <2>2. CASE p \in 1..Len(ladder)
    <3>1. ladder'[p] = ladder[p]
      BY <1>1, <1>2, <2>2, AppendAt
    <3>2. p \in DOMAIN ladder
      BY <1>1, <2>2
    <3> QED
      BY <1>1, <3>1, <3>2 DEF MeasuredInv
  <2>3. CASE p = Len(ladder) + 1
    <3>1. ladder'[p] = row
      BY <1>1, <1>2, <2>3, AppendAt
    <3> QED
      BY <1>2, <2>3, <3>1 DEF row
  <2> QED
    BY <1>1, <2>1, <2>2, <2>3
<1>4. Given(Model', outs')
  BY <1>2, NoneGiven
<1>5. \A p \in DOMAIN ladder' : Measured(Model', Item', p, ladder'[p])
  BY <1>2, <1>3
<1>6. /\ \A n \in DOMAIN runs' : Finished(dataset', n, runs'[n])
      /\ phase' # "done"
      /\ runs' # <<>> => ~Refused(dataset')
  BY <1>1 DEF MeasuredInv
<1> HIDE DEF row
<1>7. /\ Given(Model, outs)'
      /\ (\A p \in DOMAIN ladder : Measured(Model, Item, p, ladder[p]))'
      /\ (\A n \in DOMAIN runs : Finished(dataset, n, runs[n]))'
  BY <1>4, <1>5, <1>6
<1> QED
  BY <1>6, <1>7 DEF MeasuredInv

LEMMA GatekeepMeasures ==
  ASSUME RunInv, MeasuredInv, Gatekeep
  PROVE  MeasuredInv'
<1>1. /\ AtPrompt /\ ~cleared /\ phase = "run"
      /\ UNCHANGED <<dataset, env, phase, runs, attempts, sent>>
  BY DEF Gatekeep, AtPrompt
<1>2. CASE Gate(Item.ladder[Prompt], Item).disqualified
  <2>1. Record(<<>>)
    BY <1>2 DEF Gatekeep
  <2>2. PICK none : none = <<>>
    OBVIOUS
  <2>3. Given(Model, none) /\ Len(none) = 0 /\ DOMAIN none = {}
    BY <2>2, NoneGiven
  <2>4. Measured(Model, Item, Prompt, Measurement(Model, Item, Prompt, none))
    BY <1>2, <2>3, AllGiven
  <2> QED
    BY <1>1, <2>1, <2>2, <2>4, RecordMeasures
<1>3. CASE ~Gate(Item.ladder[Prompt], Item).disqualified
  <2>1. UNCHANGED <<ladder, outs>>
    BY <1>3 DEF Gatekeep
  <2> QED
    BY <1>1, <2>1 DEF MeasuredInv, Model, Item
<1> QED
  BY <1>2, <1>3

LEMMA ScoreMeasures ==
  ASSUME RunInv, MeasuredInv, Score
  PROVE  MeasuredInv'
<1>1. /\ AtPrompt /\ cleared /\ phase = "run" /\ Len(outs) = EffectiveReruns(Model)
      /\ UNCHANGED <<dataset, env, runs, attempts, sent>>
  BY DEF Score, AtPrompt
<1>2. CASE phase' = "failed"
  BY <1>1, <1>2 DEF MeasuredInv
<1>3. CASE \A n \in DOMAIN outs :
             ~FidelityRaises(Item.target, outs[n].text, Item.metricClass)
  <2>1. Record(outs) /\ UNCHANGED phase
    BY <1>3 DEF Score
  <2>2. ~Gate(Item.ladder[Prompt], Item).disqualified
    BY <1>1 DEF RunInv, InPlace
  <2>3. Given(Model, outs)
    BY <1>1 DEF MeasuredInv
  <2>4. Measured(Model, Item, Prompt, Measurement(Model, Item, Prompt, outs))
    BY <1>1, <1>3, <2>2, <2>3, AllGiven
  <2> QED
    BY <1>1, <2>1, <2>4, RecordMeasures
<1> QED
  BY <1>2, <1>3 DEF Score

LEMMA AnswerMeasures ==
  ASSUME RunInv, MeasuredInv, phase = "run", NEW text, NEW source,
         IsText(text),
         source \in (IF EvidenceMode(Model) = "mock" THEN {"none"} ELSE {"provider", "cache"}),
         outs' = Append(outs, [text |-> text, source |-> source]),
         UNCHANGED <<dataset, env, phase, runs, ladder>>
  PROVE  MeasuredInv'
<1> DEFINE answer == [text |-> text, source |-> source]
<1>1. IsList(outs) /\ Len(outs) \in Nat /\ DOMAIN outs = 1..Len(outs)
  BY ListFacts DEF RunInv, CommandTypeOK
<1>2. answer = [text |-> answer.text, source |-> answer.source]
        /\ answer.text = text /\ answer.source = source
  OBVIOUS
<1> HIDE DEF answer
<1>3. outs' = Append(outs, answer)
  BY DEF answer
<1>4. IsList(outs')
  BY <1>1, <1>3, AppendList
<1>5. ASSUME NEW n \in DOMAIN outs'
      PROVE  /\ outs'[n] = [text |-> outs'[n].text, source |-> outs'[n].source]
             /\ IsText(outs'[n].text)
             /\ outs'[n].source \in
                  (IF EvidenceMode(Model) = "mock" THEN {"none"} ELSE {"provider", "cache"})
  <2>1. n \in 1..Len(outs) + 1
    BY <1>1, <1>3, AppendAt
  <2>2. CASE n \in 1..Len(outs)
    <3>1. outs'[n] = outs[n] /\ n \in DOMAIN outs
      BY <1>1, <1>3, <2>2, AppendAt
    <3>2. Given(Model, outs)
      BY DEF MeasuredInv
    <3> QED
      BY <3>1, <3>2 DEF Given
  <2>3. CASE n = Len(outs) + 1
    <3>1. outs'[n] = answer
      BY <1>1, <1>3, <2>3, AppendAt
    <3> QED
      BY <1>2, <3>1
  <2> QED
    BY <1>1, <2>1, <2>2, <2>3
<1>6. Model' = Model /\ Item' = Item
  BY DEF Model, Item
<1>7. Given(Model, outs)'
  <2>1. Given(Model', outs')
    BY <1>4, <1>5, <1>6 DEF Given
  <2> QED
    BY <2>1
<1> QED
  BY <1>6, <1>7 DEF MeasuredInv

LEMMA ShareBounded ==
  ASSUME NEW x \in Int, NEW c \in Nat
  PROVE  Max({0, Min({c, x})}) \in 0..c
<1> DEFINE m == IF c <= x THEN c ELSE x
<1>1. m \in {c, x} /\ (\A y \in {c, x} : m <= y) /\ m \in Int /\ m <= c
  OBVIOUS
<1>2. \A z \in {c, x} : (\A y \in {c, x} : z <= y) => z = m
  OBVIOUS
<1> HIDE DEF m
<1>3. Min({c, x}) = m
  BY <1>1, <1>2, Zenon DEF Min
<1>4. PICK k \in Int : k = m /\ k <= c
  BY <1>1
<1>5. PICK z \in Int : z = 0
  OBVIOUS
<1>6. Max({z, k}) = IF z >= k THEN z ELSE k
  BY MaxOfPair
<1> QED
  BY <1>3, <1>4, <1>5, <1>6

(* A share of a text is a text.                                            *)
LEMMA PartIsText ==
  ASSUME NEW text, IsText(text), NEW k \in 0..Len(text)
  PROVE  IsText(SubSeq(text, 1, k)) /\ Len(SubSeq(text, 1, k)) = k
<1> DEFINE C == DOMAIN Compatible
<1>1. text \in Seq(C)
  BY ListIsSeq DEF IsText
<1>2. Len(text) \in Nat
  BY <1>1
<1> HIDE DEF C
<1>3. 0 \in 0..Len(text) /\ 0 <= k /\ 0 + 1 = 1 /\ k - 0 = k
  BY <1>2
<1>4. SubSeq(text, 0 + 1, k) \in Seq(C) /\ Len(SubSeq(text, 0 + 1, k)) = k - 0
  BY <1>1, <1>3, SubSeqFacts
<1>5. SubSeq(text, 1, k) \in Seq(C) /\ Len(SubSeq(text, 1, k)) = k
  BY <1>3, <1>4
<1> QED
  BY <1>5, SeqIsList DEF IsText, C

LEMMA ShareFits ==
  ASSUME NEW l \in Nat, NEW c \in Nat \ {0}, NEW share \in 0..c
  PROVE  (2 * l * share + c) \div (2 * c) \in 0..l
<1>1. l * share \in Nat /\ share * l <= c * l /\ share * l = l * share
        /\ c * l \in Nat /\ c * l = l * c
  BY Monotone, Product
<1>2. PICK x \in Nat : x = l * share /\ x <= l * c
  BY <1>1
<1>3. PICK w \in Nat : w = 2 * c /\ w > 0
  OBVIOUS
<1>4. PICK z \in Nat : z = l * c
  BY <1>1
<1>5. l * w = 2 * z
  BY <1>3, <1>4
<1>6. PICK y \in Nat : y = 2 * l * share + c /\ y <= 2 * z + c
  <2>1. 2 * l * share = 2 * (l * share)
    OBVIOUS
  <2> QED
    BY <1>2, <1>4, <2>1
<1>7. PICK q \in Nat : q = y \div w /\ w * q <= y
  <2>1. y \div w \in Nat /\ y % w \in 0..w - 1 /\ y = w * (y \div w) + (y % w)
    BY <1>3, Division
  <2>2. PICK k \in Nat, r \in Nat : k = y \div w /\ y = w * k + r
    BY <2>1, <1>3
  <2>3. w * k <= y
    <3>1. PICK p \in Nat : p = w * k
      BY Product
    <3> QED
      BY <2>2, <3>1
  <2> QED
    BY <2>2, <2>3
<1>8. ~(l + 1 <= q)
  <2> SUFFICES ASSUME l + 1 <= q PROVE FALSE
    OBVIOUS
  <2>1. (l + 1) * w <= q * w
    BY <1>3, Monotone
  <2>2. (l + 1) * w = l * w + w /\ q * w = w * q /\ w * q \in Nat /\ l * w \in Nat
    BY <1>3, Product
  <2> QED
    BY <1>3, <1>4, <1>5, <1>6, <1>7, <2>1, <2>2
<1> QED
  BY <1>3, <1>6, <1>7, <1>8

LEMMA MockIsText ==
  ASSUME NEW item, IsText(item.target), NEW rung \in DOMAIN Profile, NEW wobble \in Int
  PROVE  IsText(MockOutput(item, rung, wobble))
<1> DEFINE target == item.target
           share == Max({0, Min({1000, Profile[rung] + wobble})})
           kept == SubSeq(target, 1, (2 * Len(target) * share + 1000) \div 2000)
           T == {n \in 1..Len(kept) : kept[n] \notin Space}
           end == IF T # {} THEN Max(T) ELSE 0
<1>1. MockOutput(item, rung, wobble) =
        IF rung = 0 \/ share >= 985 THEN target ELSE SubSeq(kept, 1, end)
  BY Zenon DEF MockOutput, SelectLastInSeq
<1>2. share \in 0..1000
  <2>1. Profile[rung] \in 0..1000
    BY LadderAssumption, ZenonT(60)
  <2>2. PICK x \in Int : x = Profile[rung] + wobble
    BY <2>1
  <2>3. PICK c \in Nat : c = 1000
    OBVIOUS
  <2>4. Max({0, Min({c, x})}) \in 0..c
    BY ShareBounded
  <2> QED
    BY <2>2, <2>3, <2>4
<1>3. Len(target) \in Nat
  BY ListFacts DEF IsText
<1>4. (2 * Len(target) * share + 1000) \div 2000 \in 0..Len(target)
  <2> HIDE DEF share, target
  <2>1. PICK c \in Nat \ {0} : c = 1000
    OBVIOUS
  <2>9. share \in 0..c
    BY <1>2, <2>1
  <2>2. PICK l \in Nat, s \in 0..c : l = Len(target) /\ s = share
    BY <1>3, <2>9, Zenon
  <2>3. PICK n, d : n = 2 * l * s + c /\ d = 2 * c
    OBVIOUS
  <2>4. n \div d \in 0..l
    BY <2>3, ShareFits
  <2>5. n = 2 * Len(target) * share + 1000 /\ d = 2000
    BY <2>1, <2>2, <2>3
  <2>6. n \in Int /\ d \in Int
    <3>1. PICK k \in Nat : k = l * s
      BY Product
    <3>2. 2 * l * s = 2 * k
      BY <3>1
    <3> QED
      BY <2>1, <2>3, <3>2
  <2> DEFINE num == 2 * Len(target) * share + 1000
             den == 2000
  <2>7. n = num /\ d = den
    BY <2>5
  <2> HIDE DEF num, den
  <2>8. num \div den \in 0..Len(target)
    BY <2>2, <2>4, <2>7
  <2> QED
    BY <2>8 DEF num, den
<1> HIDE DEF share, target
<1>5. IsText(target)
  BY DEF target
<1> HIDE DEF kept
<1>6. IsText(kept) /\ Len(kept) \in Nat
  <2>1. IsText(kept)
    BY <1>4, <1>5, PartIsText DEF kept
  <2> QED
    BY <2>1, ListFacts DEF IsText
<1>7. end \in 0..Len(kept)
  <2>1. CASE T = {}
    BY <1>6, <2>1
  <2>2. CASE T # {}
    <3>1. T \in SUBSET (1..Len(kept))
      OBVIOUS
    <3> HIDE DEF T
    <3>2. Max(T) \in 1..Len(kept)
      BY <1>6, <2>2, <3>1, LastOfSet
    <3> QED
      BY <1>6, <2>2, <3>2
  <2> QED
    BY <2>1, <2>2
<1> HIDE DEF end
<1>8. IsText(SubSeq(kept, 1, end))
  BY <1>6, <1>7, PartIsText
<1> QED
  BY <1>1, <1>5, <1>8

LEMMA LoadMeasures ==
  ASSUME RunInv, MeasuredInv, Load
  PROVE  MeasuredInv'
<1>1. /\ phase = "load" /\ phase' \in {"failed", "run"}
      /\ UNCHANGED <<dataset, env, runs, ladder, outs>>
  BY DEF Load
<1>2. runs = <<>> /\ ladder = <<>> /\ outs = <<>>
  BY <1>1 DEF RunInv, NotYet
<1>3. Given(Model', outs') /\ DOMAIN ladder' = {} /\ runs' = <<>> /\ DOMAIN runs' = {}
  BY <1>1, <1>2, NoneGiven
<1>4. /\ Given(Model, outs)'
      /\ (\A p \in DOMAIN ladder : Measured(Model, Item, p, ladder[p]))'
      /\ (\A n \in DOMAIN runs : Finished(dataset, n, runs[n]))'
  BY <1>3
<1> QED
  BY <1>1, <1>3, <1>4 DEF MeasuredInv

LEMMA MockMeasures ==
  ASSUME RunInv, MeasuredInv, NEW wobble \in {-4, 4}, GenerateMock(wobble)
  PROVE  MeasuredInv'
<1>1. /\ AtPrompt /\ phase = "run" /\ EvidenceMode(Model) = "mock"
      /\ UNCHANGED <<dataset, env, phase, runs, ladder>>
  BY DEF GenerateMock, AtPrompt, Hosted, EvidenceMode
<1> DEFINE text == MockOutput(Item, Item.ladder[Prompt].rung, wobble)
<1>2. outs' = Append(outs, [text |-> text, source |-> "none"])
  BY DEF GenerateMock
<1>3. IsText(text)
  <2>1. /\ dataset \in Datasets /\ Prompt \in DOMAIN Item.ladder
        /\ ItemAt \in DOMAIN dataset /\ Item = dataset[ItemAt]
    BY <1>1, Place DEF RunInv, CommandTypeOK, AtPrompt
  <2>2. IsText(Item.target) /\ Item.ladder[Prompt].rung \in DOMAIN Profile
    BY <2>1, DatasetAssumption
  <2>3. wobble \in Int
    OBVIOUS
  <2> QED
    BY <2>2, <2>3, MockIsText
<1> HIDE DEF text
<1> QED
  BY <1>1, <1>2, <1>3, AnswerMeasures

LEMMA HostedMeasures ==
  ASSUME RunInv, MeasuredInv, NEW answer \in Answers, GenerateHosted(answer)
  PROVE  MeasuredInv'
<1>1. /\ AtPrompt /\ phase = "run" /\ EvidenceMode(Model) # "mock"
      /\ UNCHANGED <<dataset, env, phase, runs, ladder>>
      /\ outs' = Append(outs, [text |-> answer.text, source |-> answer.source])
  BY DEF GenerateHosted, AtPrompt, Hosted, EvidenceMode
<1>2. IsText(answer.text) /\ answer.source \in {"provider", "cache"}
  BY LadderAssumption
<1> QED
  BY <1>1, <1>2, AnswerMeasures

LEMMA FinishMeasures ==
  ASSUME RunInv, MeasuredInv, FinishItem
  PROVE  MeasuredInv'
<1> DEFINE run == ItemRun(Model, Item, ladder)
<1>1. /\ phase = "run" /\ Prompt \notin DOMAIN Item.ladder /\ ladder' = <<>>
      /\ runs' = Append(runs, run)
      /\ phase' = IF Len(runs) + 1 = Len(Models) * Len(dataset) THEN "done" ELSE "run"
      /\ UNCHANGED <<dataset, env, cleared, outs, attempts, sent>>
  BY DEF FinishItem
<1>2. /\ Len(Item.ladder) \in Nat /\ DOMAIN Item.ladder = 1..Len(Item.ladder)
      /\ Len(ladder) \in Nat /\ Len(ladder) <= Len(Item.ladder) /\ Prompt = Len(ladder) + 1
      /\ outs = <<>>
  BY <1>1, Place DEF RunInv, InPlace, Prompt
<1>3. /\ IsList(ladder) /\ DOMAIN ladder = 1..Len(ladder)
      /\ IsList(runs) /\ Len(runs) \in Nat /\ DOMAIN runs = 1..Len(runs)
  BY ListFacts DEF RunInv, CommandTypeOK
<1>4. Climbed(Model, Item, ladder)
  <2>1. DOMAIN ladder = DOMAIN Item.ladder
    BY <1>1, <1>2, <1>3
  <2> QED
    BY <1>1, <1>3, <2>1 DEF Climbed, MeasuredInv
<1>5. Finished(dataset, Len(runs) + 1, run)
  <2>1. (Len(runs) + 1) - 1 = Len(runs)
    BY <1>3
  <2>2. ModelOf(dataset, Len(runs) + 1) = Model /\ ItemFor(dataset, Len(runs) + 1) = Item
    BY <2>1 DEF ModelOf, ItemFor, Model, Item
  <2> QED
    BY <1>4, <2>2, Zenon DEF Finished
<1> HIDE DEF run
<1>6. ASSUME NEW n \in DOMAIN runs'
      PROVE  Finished(dataset, n, runs'[n])
  <2>1. n \in 1..Len(runs) + 1
    BY <1>1, <1>3, AppendAt
  <2>2. CASE n \in 1..Len(runs)
    <3>1. runs'[n] = runs[n] /\ n \in DOMAIN runs
      BY <1>1, <1>3, <2>2, AppendAt
    <3> QED
      BY <3>1 DEF MeasuredInv
  <2>3. CASE n = Len(runs) + 1
    <3>1. runs'[n] = run
      BY <1>1, <1>3, <2>3, AppendAt
    <3> QED
      BY <1>5, <2>3, <3>1
  <2> QED
    BY <1>3, <2>1, <2>2, <2>3
<1>7. Given(Model', outs') /\ DOMAIN ladder' = {} /\ Len(runs') = Len(runs) + 1
  BY <1>1, <1>2, <1>3, NoneGiven, AppendList
<1>8. ~Refused(dataset')
  BY <1>1 DEF RunInv, Started
<1>9. phase' = "done" => Len(runs') = Len(Models) * Len(dataset')
  BY <1>1, <1>7
<1>10. /\ Given(Model, outs)'
       /\ (\A p \in DOMAIN ladder : Measured(Model, Item, p, ladder[p]))'
       /\ (\A n \in DOMAIN runs : Finished(dataset, n, runs[n]))'
  BY <1>1, <1>6, <1>7
<1> QED
  BY <1>8, <1>9, <1>10 DEF MeasuredInv

LEMMA BenchMeasures ==
  ASSUME RunInv, MeasuredInv, BenchNext
  PROVE  MeasuredInv'
<1>1. CASE \E tries \in 1..env.retries + 1 : GenerateFails(tries)
  BY <1>1 DEF GenerateFails, MeasuredInv
<1>2. CASE \E wobble \in {-4, 4} : GenerateMock(wobble)
  BY <1>2, MockMeasures
<1>3. CASE \E answer \in Answers : GenerateHosted(answer)
  BY <1>3, HostedMeasures
<1> QED
  BY <1>1, <1>2, <1>3, LoadMeasures, GatekeepMeasures, ScoreMeasures, FinishMeasures
     DEF BenchNext

LEMMA MeasuredStep ==
  ASSUME CommandInv, MeasuredInv, [Next]_vars
  PROVE  MeasuredInv'
<1>1. CASE UNCHANGED benchVars
  BY <1>1 DEF benchVars, MeasuredInv, Model, Item
<1>2. CASE Bench
  BY <1>2, BenchMeasures DEF Bench, CommandInv, RunInv
<1>3. CASE \E environment \in Environments : WriteManifest(environment)
  BY <1>1, <1>3 DEF WriteManifest
<1>4. CASE WriteResult \/ Edit
  BY <1>1, <1>4 DEF WriteResult, Edit
<1>5. CASE VerifyStep
  BY <1>1, <1>5 DEF VerifyStep, StartVerify, Open, Read, Check, Recheck
<1>6. CASE UNCHANGED vars
  BY <1>1, <1>6 DEF vars
<1> QED
  BY <1>2, <1>3, <1>4, <1>5, <1>6 DEF Next

(* Every row that the command measured, for any models, datasets and       *)
(* answers, is that of all the answers its prompt asked for, and every     *)
(* finished run has one for each prompt of its item.                       *)
THEOREM MeasuredInvariant == Spec => []MeasuredInv
<1>1. Init => MeasuredInv
  <2> SUFFICES ASSUME Init PROVE MeasuredInv
    OBVIOUS
  <2>1. phase = "load" /\ runs = <<>>
    BY DEF Init, BenchInit
  <2> QED
    BY <2>1 DEF MeasuredInv
<1>2. CommandInv /\ MeasuredInv /\ [Next]_vars => MeasuredInv'
  BY MeasuredStep
<1> QED
  BY <1>1, <1>2, CommandInvariant, PTL DEF Spec

(* What a measured row says of its prompt.                                 *)
LEMMA RowFacts ==
  ASSUME NEW items \in Datasets, NEW i \in DOMAIN items, NEW p \in DOMAIN items[i].ladder,
         NEW model, NEW row, Measured(model, items[i], p, row)
  PROVE  /\ row.tokens \in Nat /\ row.tokens = TokenCount(items[i].ladder[p].text)
         /\ row.fidelity \in 0..Unit /\ row.distortion = Unit - row.fidelity
         /\ row.disqualified \in BOOLEAN
         /\ row.disqualified = Gate(items[i].ladder[p], items[i]).disqualified
<1> DEFINE item == items[i]
           gated == Gate(item.ladder[p], item).disqualified
<1>1. PICK answers :
        /\ Given(model, answers)
        /\ Len(answers) = IF gated THEN 0 ELSE EffectiveReruns(model)
        /\ row = Measurement(model, item, p, answers)
  BY Zenon DEF Measured
<1> DEFINE values == [n \in DOMAIN answers |->
                        Fidelity(item.target, answers[n].text, item.metricClass)]
<1>2. /\ row.tokens = TokenCount(item.ladder[p].text)
      /\ row.fidelity = IF gated THEN 0 ELSE MeanOf(values)
      /\ row.distortion = Unit - row.fidelity
      /\ row.disqualified = gated
  BY <1>1 DEF Measurement
<1>3. gated \in BOOLEAN
  BY DEF Gate, EvaluateLeakage, Verdict
<1>4. TokenCount(item.ladder[p].text) \in Nat
  BY DatasetAssumption, TokensAreCounted
<1>5. row.fidelity \in 0..Unit
  <2>1. CASE gated
    BY <1>2, <2>1, MetricsAssumption
  <2>2. CASE ~gated
    <3>1. PICK l \in Nat : l = Len(answers) /\ l > 0 /\ DOMAIN answers = 1..l
      <4>1. EffectiveReruns(model) \in Nat \ {0}
        BY LadderAssumption DEF EffectiveReruns
      <4>2. IsList(answers)
        BY <1>1 DEF Given
      <4> QED
        BY <1>1, <2>2, <4>1, <4>2, ListFacts
    <3>2. ASSUME NEW n \in DOMAIN answers
          PROVE  values[n] \in 0..Unit
      <4>1. IsText(answers[n].text)
        BY <1>1 DEF Given
      <4>2. IsText(item.target) /\ item.metricClass \in MetricClasses
        BY DatasetAssumption
      <4> HIDE DEF item
      <4>3. Fidelity(item.target, answers[n].text, item.metricClass) \in 0..Unit
        BY <4>1, <4>2, FidelityInUnit
      <4> QED
        BY <4>3
    <3>3. /\ values \in Seq(0..Unit) /\ Len(values) = l
          /\ \A n \in DOMAIN values : values[n] \in 0..Unit
      <4>1. values \in [DOMAIN answers -> 0..Unit]
        BY <3>2
      <4> HIDE DEF values
      <4>2. values \in [1..l -> 0..Unit]
        BY <3>1, <4>1
      <4>3. values \in Seq(0..Unit)
        <5> DEFINE R == 0..Unit
        <5>1. values \in [1..l -> R]
          BY <4>2
        <5> HIDE DEF R
        <5>2. values \in Seq(R)
          BY <5>1
        <5> QED
          BY <5>2 DEF R
      <4>4. DOMAIN values = 1..l /\ \A n \in 1..l : values[n] \in 0..Unit
        BY <4>2
      <4> QED
        BY <3>1, <4>3, <4>4
    <3> HIDE DEF values
    <3>4. IsList(values) /\ DOMAIN values = 1..l /\ values # <<>>
      <4>1. IsList(values)
        BY <3>3, SeqIsList
      <4>2. DOMAIN values = 1..l
        BY <3>3, <4>1, ListFacts
      <4>3. values # <<>>
        BY <3>1, <3>3, EmptyList
      <4> QED
        BY <4>1, <4>2, <4>3
    <3>5. MeanOf(values) \in 0..Unit
      BY <3>3, <3>4, MeanInUnit
    <3> QED
      BY <1>2, <2>2, <3>5
  <2> QED
    BY <1>3, <2>1, <2>2
<1> HIDE DEF item, values
<1> QED
  BY <1>2, <1>3, <1>4, <1>5 DEF item

LEMMA ClimbedIsLadder ==
  ASSUME NEW items \in Datasets, NEW i \in DOMAIN items,
         NEW model, NEW points, Climbed(model, items[i], points)
  PROVE  LadderOf(items[i], points)
<1>1. IsList(points) /\ DOMAIN points = DOMAIN items[i].ladder
  BY DEF Climbed
<1>2. ASSUME NEW p \in DOMAIN points
      PROVE  /\ points[p].tokens \in Nat
             /\ points[p].tokens = TokenCount(items[i].ladder[p].text)
             /\ points[p].fidelity \in 0..Unit
             /\ points[p].distortion = Unit - points[p].fidelity
             /\ points[p].disqualified \in BOOLEAN
             /\ points[p].disqualified = Gate(items[i].ladder[p], items[i]).disqualified
  <2>1. Measured(model, items[i], p, points[p])
    BY DEF Climbed
  <2>2. p \in DOMAIN items[i].ladder
    BY <1>1
  <2> QED
    BY <2>1, <2>2, RowFacts
<1>3. Scored(points)
  BY <1>1, <1>2 DEF Scored
<1> QED
  BY <1>1, <1>2, <1>3 DEF LadderOf

(* The item of a finished run.                                             *)
LEMMA RunPlace ==
  ASSUME NEW items \in Datasets, items # <<>>, NEW n \in Nat \ {0}
  PROVE  /\ ((n - 1) % Len(items)) + 1 \in DOMAIN items
         /\ ItemFor(items, n) = items[((n - 1) % Len(items)) + 1]
<1>1. Len(items) \in Nat /\ Len(items) > 0 /\ DOMAIN items = 1..Len(items)
  BY DatasetFacts, SMTT(40)
<1>2. PICK l \in Nat : l = Len(items) /\ l > 0
  BY <1>1
<1>3. PICK a \in Nat : a = n - 1
  OBVIOUS
<1>4. a % l \in 0..l - 1
  BY <1>2, Division
<1>5. (a % l) + 1 \in 1..l
  BY <1>2, <1>4
<1>6. ((n - 1) % Len(items)) + 1 \in DOMAIN items
  BY <1>1, <1>2, <1>3, <1>5
<1> QED
  BY <1>6 DEF ItemFor

LEMMA FinishedIsMetered ==
  ASSUME dataset \in Datasets, ~Refused(dataset), NEW n \in Nat \ {0}, NEW run,
         Finished(dataset, n, run)
  PROVE  ItemMetrics(run)
<1>1. dataset # <<>>
  BY DEF Refused
<1>2. PICK i \in DOMAIN dataset : ItemFor(dataset, n) = dataset[i]
  BY <1>1, RunPlace
<1>3. PICK points : /\ Climbed(ModelOf(dataset, n), dataset[i], points)
                    /\ run = ItemRun(ModelOf(dataset, n), dataset[i], points)
  BY <1>2 DEF Finished
<1>4. Metered(dataset[i], run)
  BY <1>3, ClimbedIsLadder, LadderIsMetered
<1>5. run.item = dataset[i].id
  BY <1>3 DEF ItemRun
<1> QED
  BY <1>4, <1>5, ItemIsFound

(* The frontier, the area, the ECL and the Elicit of every run that the    *)
(* command finishes, and of every one that the verifier accepts, are what  *)
(* its measurements say by the reference definitions (metrics.py:35-120),  *)
(* for any alphabet, dataset, models and answers.                          *)
THEOREM MetricsMatchReferenceProved == Spec => []MetricsMatchReference
<1> DEFINE Accepted == Verified => \A run \in Range(read.result.itemRuns) : ItemMetrics(run)
<1>1. CommandInv /\ MeasuredInv /\ Accepted => MetricsMatchReference
  <2> SUFFICES ASSUME CommandInv, MeasuredInv, runs # <<>>
               PROVE  ItemMetrics(Last(runs))
    BY DEF MetricsMatchReference
  <2>1. dataset \in Datasets /\ ~Refused(dataset)
    BY DEF CommandInv, CommandTypeOK, MeasuredInv
  <2>2. Len(runs) \in Nat \ {0} /\ Len(runs) \in DOMAIN runs
    BY ListFacts DEF CommandInv, CommandTypeOK
  <2>3. Finished(dataset, Len(runs), runs[Len(runs)])
    BY <2>2 DEF MeasuredInv
  <2>4. ItemMetrics(runs[Len(runs)])
    BY <2>1, <2>2, <2>3, FinishedIsMetered
  <2> QED
    BY <2>4 DEF Last
<1> QED
  BY <1>1, CommandInvariant, MeasuredInvariant, VerifiedFrontiersProved, PTL

-----------------------------------------------------------------------------
(* What the verifier finds in the result of a run.                         *)

(* The answers that a row retains, as they are measured again.             *)
RowAnswers(model, row) ==
  [n \in DOMAIN row.outputs |->
     [text |-> row.outputs[n],
      source |-> IF EvidenceMode(model) = "mock" THEN "none" ELSE row.receipts[n]]]

(* A measured row has the outputs and receipts that are asked of it, and   *)
(* is measured again from them.                                            *)
LEMMA RowReplays ==
  ASSUME NEW items \in Datasets, ~Refused(items),
         NEW i \in DOMAIN items, NEW p \in DOMAIN items[i].ladder,
         NEW model, NEW row, Measured(model, items[i], p, row), NEW count,
         count = IF items[i].ladder[p].leaky THEN 0 ELSE EffectiveReruns(model)
  PROVE  /\ IsList(row.outputs) /\ Len(row.outputs) = count
         /\ Len(row.receipts) = IF EvidenceMode(model) = "mock" THEN 0 ELSE count
         /\ Range(row.receipts) \subseteq {"provider", "cache"}
         /\ \A n \in DOMAIN row.outputs :
              ~FidelityRaises(items[i].target, row.outputs[n], items[i].metricClass)
         /\ row = Measurement(model, items[i], p, RowAnswers(model, row))
<1> DEFINE item == items[i]
           gated == Gate(item.ladder[p], item).disqualified
           mock == EvidenceMode(model) = "mock"
<1>1. PICK answers :
        /\ Given(model, answers)
        /\ \A n \in DOMAIN answers :
             ~FidelityRaises(item.target, answers[n].text, item.metricClass)
        /\ Len(answers) = IF gated THEN 0 ELSE EffectiveReruns(model)
        /\ row = Measurement(model, item, p, answers)
  BY Zenon DEF Measured
<1>2. gated = items[i].ladder[p].leaky
  BY DEF Refused
<1>3. Len(answers) = count
  BY <1>1, <1>2
<1>4. /\ row.outputs = [n \in DOMAIN answers |-> answers[n].text]
      /\ row.receipts = IF mock THEN <<>> ELSE [n \in DOMAIN answers |-> answers[n].source]
  BY <1>1 DEF Measurement, Receipts
<1>5. /\ IsList(answers) /\ Len(answers) \in Nat /\ DOMAIN answers = 1..Len(answers)
      /\ \A n \in DOMAIN answers :
           /\ answers[n] = [text |-> answers[n].text, source |-> answers[n].source]
           /\ answers[n].source \in IF mock THEN {"none"} ELSE {"provider", "cache"}
  BY <1>1, ListFacts, SMTT(40) DEF Given
<1> HIDE DEF item, gated, mock
<1>6. PICK l \in Nat : l = Len(answers) /\ DOMAIN answers = 1..l
  BY <1>5
<1>7. IsList(row.outputs) /\ Len(row.outputs) = l /\ DOMAIN row.outputs = 1..l
  <2>1. row.outputs \in [1..l -> Range(row.outputs)]
    BY <1>4, <1>6 DEF Range
  <2>2. row.outputs \in Seq(Range(row.outputs))
    BY <1>6, <2>1
  <2>3. DOMAIN row.outputs = 1..l
    BY <1>4, <1>6
  <2> QED
    BY <1>6, <2>2, <2>3 DEF IsList
<1>8. /\ Len(row.receipts) = IF mock THEN 0 ELSE l
      /\ Range(row.receipts) \subseteq {"provider", "cache"}
  <2>1. CASE mock
    BY <1>4, <2>1, EmptyList DEF Range
  <2>2. CASE ~mock
    <3>1. row.receipts = [n \in 1..l |-> answers[n].source]
      BY <1>4, <1>6, <2>2
    <3>2. \A n \in 1..l : row.receipts[n] \in {"provider", "cache"}
      BY <1>5, <1>6, <2>2, <3>1
    <3>3. DOMAIN row.receipts = 1..l /\ Len(row.receipts) = l
      BY <1>6, <3>1
    <3> QED
      BY <2>2, <3>2, <3>3 DEF Range
  <2> QED
    BY <2>1, <2>2
<1> DEFINE retained == [n \in DOMAIN row.outputs |->
                          [text |-> row.outputs[n],
                           source |-> IF mock THEN "none" ELSE row.receipts[n]]]
<1>9. retained = answers
  <2>1. ASSUME NEW n \in 1..l
        PROVE  retained[n] = answers[n]
    <3>1. row.outputs[n] = answers[n].text
      BY <1>4, <1>6
    <3>2. (IF mock THEN "none" ELSE row.receipts[n]) = answers[n].source
      BY <1>4, <1>5, <1>6
    <3>3. n \in DOMAIN row.outputs
      BY <1>7
    <3>4. retained[n] = [text |-> row.outputs[n],
                         source |-> IF mock THEN "none" ELSE row.receipts[n]]
      BY <3>3
    <3> QED
      BY <1>5, <1>6, <3>1, <3>2, <3>4
  <2>2. DOMAIN retained = 1..l /\ retained = [n \in 1..l |-> retained[n]]
    BY <1>7
  <2>3. answers = [n \in 1..l |-> answers[n]]
    BY <1>5, <1>6 DEF IsList
  <2> HIDE DEF retained
  <2> QED
    BY <2>1, <2>2, <2>3
<1>10. row = Measurement(model, item, p, RowAnswers(model, row))
  <2>1. RowAnswers(model, row) = retained
    BY DEF RowAnswers, mock
  <2> HIDE DEF retained
  <2> QED
    BY <1>1, <1>9, <2>1
<1>11. \A n \in DOMAIN row.outputs :
         ~FidelityRaises(item.target, row.outputs[n], item.metricClass)
  BY <1>1, <1>4
<1> QED
  BY <1>3, <1>6, <1>7, <1>8, <1>10, <1>11 DEF item, mock

-----------------------------------------------------------------------------
(* The positions of the runs.                                              *)

At(items, m, i) == (m - 1) * Len(items) + i

LEMMA PositionAt ==
  ASSUME NEW items \in Datasets, items # <<>>,
         NEW m \in DOMAIN Models, NEW i \in DOMAIN items
  PROVE  /\ At(items, m, i) \in 1..Len(Models) * Len(items)
         /\ ModelOf(items, At(items, m, i)) = Models[m]
         /\ ItemFor(items, At(items, m, i)) = items[i]
<1>1. PICK l \in Nat : l = Len(items) /\ l > 0 /\ i \in 1..l
  BY DatasetFacts
<1>2. PICK k \in Nat : k = Len(Models) /\ m \in 1..k
  BY LadderAssumption, ListFacts
<1>3. PICK q \in Nat, r \in 0..l - 1 : q = m - 1 /\ r = i - 1
  BY <1>1, <1>2
<1>4. PICK x \in Nat : x = q * l
  BY Product
<1>5. At(items, m, i) = x + i
  BY <1>1, <1>3, <1>4 DEF At
<1>6. x + i \in 1..k * l
  <2>1. m * l <= k * l /\ m * l = x + l /\ k * l \in Nat
    <3>1. m \in Nat /\ m <= k /\ m = q + 1
      BY <1>2, <1>3
    <3>2. (q + 1) * l = q * l + l
      OBVIOUS
    <3> QED
      BY <1>4, <3>1, <3>2, Monotone, Product
  <2> QED
    BY <1>1, <2>1
<1>7. PICK a \in Nat : a = (x + i) - 1 /\ a = x + r
  BY <1>1, <1>3
<1>8. /\ a \div l \in Nat /\ a % l \in 0..l - 1
      /\ a = l * (a \div l) + (a % l)
  BY <1>1, Division
<1>9. a \div l = q /\ a % l = r
  <2>1. PICK qa \in Nat, ra \in 0..l - 1 : qa = a \div l /\ ra = a % l /\ a = l * qa + ra
    BY <1>8
  <2>2. l * q + r = l * qa + ra
    BY <1>4, <1>7, <2>1
  <2>3. q = qa /\ r = ra
    <3>1. l \in Nat /\ l > 0 /\ q \in Nat /\ r \in 0..l - 1 /\ qa \in Nat /\ ra \in 0..l - 1
      BY <1>1
    <3> QED
      BY <2>2, <3>1, DivisionUnique
  <2> QED
    BY <2>1, <2>3
<1>10. ((At(items, m, i) - 1) \div Len(items)) + 1 = m
       /\ ((At(items, m, i) - 1) % Len(items)) + 1 = i
  <2>1. (a \div l) + 1 = m /\ (a % l) + 1 = i
    BY <1>1, <1>2, <1>3, <1>9
  <2> QED
    BY <1>1, <1>5, <1>7, <2>1
<1> QED
  BY <1>1, <1>2, <1>5, <1>6, <1>10 DEF ModelOf, ItemFor

LEMMA PlaceOf ==
  ASSUME NEW items \in Datasets, items # <<>>, NEW n \in 1..Len(Models) * Len(items)
  PROVE  \E m \in DOMAIN Models, i \in DOMAIN items : n = At(items, m, i)
<1>1. PICK l \in Nat : l = Len(items) /\ l > 0 /\ DOMAIN items = 1..l
  BY DatasetFacts
<1>2. PICK k \in Nat : k = Len(Models) /\ DOMAIN Models = 1..k
  BY LadderAssumption, ListFacts
<1>3. PICK t \in Nat : t = k * l
  BY Product
<1>4. PICK a \in Nat : a = n - 1 /\ a < t /\ n = a + 1
  BY <1>1, <1>2, <1>3
<1>5. PICK q \in Nat, r \in 0..l - 1 : q = a \div l /\ r = a % l /\ a = l * q + r /\ q < k
  <2>1. a \div l \in Nat /\ a % l \in 0..l - 1 /\ a = l * (a \div l) + (a % l)
    BY <1>1, Division
  <2>2. a \div l < k
    BY <1>1, <1>3, <1>4, QuotientBound
  <2> QED
    BY <2>1, <2>2
<1>6. q + 1 \in DOMAIN Models /\ r + 1 \in DOMAIN items
  BY <1>1, <1>2, <1>5
<1>7. At(items, q + 1, r + 1) = n
  <2>1. (q + 1) - 1 = q
    OBVIOUS
  <2>2. At(items, q + 1, r + 1) = q * l + (r + 1)
    BY <1>1, <2>1 DEF At
  <2>3. PICK x \in Nat : x = q * l /\ x = l * q
    BY Product
  <2> QED
    BY <1>4, <1>5, <2>2, <2>3
<1> QED
  BY <1>6, <1>7

LEMMA FunctionIsList ==
  ASSUME NEW k \in Nat, NEW f, f = [n \in 1..k |-> f[n]]
  PROVE  IsList(f) /\ Len(f) = k /\ DOMAIN f = 1..k
<1>1. DOMAIN f = 1..k
  OBVIOUS
<1>2. f \in [1..k -> Range(f)]
  BY DEF Range
<1>3. f \in Seq(Range(f)) /\ Len(f) = k
  BY <1>1, <1>2
<1> QED
  BY <1>1, <1>3 DEF IsList

-----------------------------------------------------------------------------
(* The result of a whole run.                                              *)

WholeRun(items, rs) ==
  /\ items \in Datasets /\ ~Refused(items)
  /\ IsList(rs) /\ Len(rs) = Len(Models) * Len(items)
  /\ \A n \in DOMAIN rs : Finished(items, n, rs[n])

LEMMA RunMade ==
  ASSUME NEW items, NEW rs, WholeRun(items, rs), NEW m \in DOMAIN Models, NEW i \in DOMAIN items
  PROVE  /\ At(items, m, i) \in DOMAIN rs
         /\ \E points : /\ Climbed(Models[m], items[i], points)
                        /\ rs[At(items, m, i)] = ItemRun(Models[m], items[i], points)
<1> DEFINE n == At(items, m, i)
<1>1. items \in Datasets /\ items # <<>> /\ IsList(rs) /\ DOMAIN rs = 1..Len(Models) * Len(items)
  BY ListFacts DEF WholeRun, Refused
<1>2. n \in DOMAIN rs /\ ModelOf(items, n) = Models[m] /\ ItemFor(items, n) = items[i]
  BY <1>1, PositionAt
<1> HIDE DEF n
<1>3. PICK points : /\ Climbed(Models[m], items[i], points)
                    /\ rs[n] = ItemRun(Models[m], items[i], points)
  BY <1>2 DEF WholeRun, Finished
<1> QED
  BY <1>2, <1>3, Zenon DEF n

LEMMA RunNamed ==
  ASSUME NEW items, NEW rs, WholeRun(items, rs), NEW m \in DOMAIN Models, NEW i \in DOMAIN items
  PROVE  /\ At(items, m, i) \in DOMAIN rs
         /\ rs[At(items, m, i)].model = Models[m]
         /\ rs[At(items, m, i)].item = items[i].id
<1>1. /\ At(items, m, i) \in DOMAIN rs
      /\ \E points : /\ Climbed(Models[m], items[i], points)
                     /\ rs[At(items, m, i)] = ItemRun(Models[m], items[i], points)
  BY RunMade
<1>2. PICK points : rs[At(items, m, i)] = ItemRun(Models[m], items[i], points)
  BY <1>1
<1> QED
  BY <1>1, <1>2 DEF ItemRun

(* Nobody else has the name of a model, or of an item.                     *)
LEMMA NamesApart ==
  ASSUME NEW items, ~Refused(items)
  PROVE  /\ \A m, o \in DOMAIN Models : Models[m] = Models[o] => m = o
         /\ \A i, j \in DOMAIN items : items[i].id = items[j].id => i = j
<1>1. IsInjective(Models) /\ IsInjective([i \in DOMAIN items |-> items[i].id])
  BY LadderAssumption DEF Refused
<1>2. \A m, o \in DOMAIN Models : Models[m] = Models[o] => m = o
  BY <1>1 DEF IsInjective
<1>3. \A i, j \in DOMAIN items : items[i].id = items[j].id => i = j
  BY <1>1 DEF IsInjective
<1> QED
  BY <1>2, <1>3

LEMMA WholeRunFound ==
  ASSUME NEW items, NEW rs, WholeRun(items, rs), NEW m \in DOMAIN Models, NEW i \in DOMAIN items,
         NEW result, result.itemRuns = rs
  PROVE  RunOf(result, Models[m], items[i]) = rs[At(items, m, i)]
<1> DEFINE k == At(items, m, i)
<1>1. k \in DOMAIN rs /\ rs[k].model = Models[m] /\ rs[k].item = items[i].id
  BY RunNamed
<1>2. IsList(rs) /\ DOMAIN rs = 1..Len(Models) * Len(items) /\ items \in Datasets /\ items # <<>>
  BY ListFacts DEF WholeRun, Refused
<1> HIDE DEF k
<1>3. PICK n \in DOMAIN rs :
        /\ RunOf(result, Models[m], items[i]) = rs[n]
        /\ rs[n].model = Models[m] /\ rs[n].item = items[i].id
  <2> DEFINE model == Models[m]
             item == items[i]
  <2>1. /\ IsList(result.itemRuns) /\ k \in DOMAIN result.itemRuns
        /\ result.itemRuns[k].model = model /\ result.itemRuns[k].item = item.id
    BY <1>1, <1>2
  <2> HIDE DEF model, item
  <2>2. PICK n \in DOMAIN result.itemRuns :
          /\ RunOf(result, model, item) = result.itemRuns[n]
          /\ result.itemRuns[n].model = model /\ result.itemRuns[n].item = item.id
    BY <2>1, RunIsFound
  <2> QED
    BY <2>2 DEF model, item
<1>4. PICK o \in DOMAIN Models, j \in DOMAIN items : n = At(items, o, j)
  BY <1>2, PlaceOf
<1>5. rs[n].model = Models[o] /\ rs[n].item = items[j].id
  BY <1>4, RunNamed
<1>6. o = m /\ j = i
  BY <1>3, <1>5, NamesApart DEF WholeRun
<1> QED
  BY <1>3, <1>4, <1>6 DEF k

(* A model's own runs are the block of its items.                          *)
LEMMA OwnRuns ==
  ASSUME NEW items, NEW rs, WholeRun(items, rs), NEW m \in DOMAIN Models
  PROVE  SubSeq(rs, (m - 1) * Len(items) + 1, m * Len(items))
           = [i \in DOMAIN items |-> rs[At(items, m, i)]]
<1> DEFINE own == SubSeq(rs, (m - 1) * Len(items) + 1, m * Len(items))
<1>1. PICK l \in Nat : l = Len(items) /\ l > 0 /\ DOMAIN items = 1..l
  BY DatasetFacts DEF WholeRun, Refused
<1>2. PICK k \in Nat : k = Len(Models) /\ m \in 1..k
  BY LadderAssumption, ListFacts
<1>3. PICK t \in Nat : t = k * l /\ Len(rs) = t
  BY <1>1, <1>2, Product DEF WholeRun
<1>4. PICK x \in Nat, y \in Nat : x = (m - 1) * l /\ y = m * l /\ y = x + l /\ y <= t
  <2>1. PICK q \in Nat : q = m - 1 /\ m = q + 1
    BY <1>2
  <2>2. q * l \in Nat /\ m * l \in Nat /\ m * l = q * l + l /\ m * l <= k * l
    <3>1. m \in Nat /\ m <= k
      BY <1>2
    <3>2. (q + 1) * l = q * l + l
      BY <2>1
    <3> QED
      BY <2>1, <3>1, <3>2, Monotone, Product
  <2> QED
    BY <1>3, <2>1, <2>2
<1>5. own = SubSeq(rs, x + 1, y)
  BY <1>1, <1>4
<1>6. rs \in Seq(Range(rs)) /\ x \in 0..Len(rs) /\ y \in 0..Len(rs) /\ x <= y
  BY <1>1, <1>3, <1>4 DEF WholeRun, IsList
<1>7. /\ own \in Seq(Range(rs)) /\ Len(own) = y - x
      /\ \A n \in 1..(y - x) : own[n] = rs[x + n]
  <2> HIDE DEF own
  <2> QED
    BY <1>5, <1>6, SubSeqFacts
<1> HIDE DEF own
<1>8. y - x = l
  BY <1>4
<1>9. \A i \in 1..l : own[i] = rs[At(items, m, i)]
  <2>1. \A i \in 1..l : At(items, m, i) = x + i
    BY <1>1, <1>4 DEF At
  <2> QED
    BY <1>7, <1>8, <2>1
<1>10. own = [i \in 1..l |-> own[i]]
  BY <1>7, <1>8
<1> QED
  BY <1>1, <1>9, <1>10 DEF own

LEMMA TotalOfSame ==
  ASSUME NEW k \in Nat, NEW c \in Nat
  PROVE  Total([n \in 1..k |-> c]) = k * c
<1> DEFINE values == [n \in 1..k |-> c]
<1>1. IsList(values) /\ Len(values) = k
  <2>1. values = [n \in 1..k |-> values[n]]
    OBVIOUS
  <2> HIDE DEF values
  <2> QED
    BY <2>1, FunctionIsList
<1>2. PICK part : SumsOf(values, part)
  BY <1>1, SumRows, Zenon
<1>3. /\ part[0] = 0
      /\ \A i \in 1..k : part[i] = part[i - 1] + c
      /\ Total(values) = part[k]
  BY <1>1, <1>2 DEF SumsOf
<1> HIDE DEF values
<1> DEFINE T == {i \in 0..k : part[i] = i * c}
<1>4. 0 \in T
  BY <1>3
<1>5. ASSUME NEW i \in Nat, i < k, i \in T
      PROVE  i + 1 \in T
  <2>1. i + 1 \in 1..k /\ (i + 1) - 1 = i
    BY <1>5
  <2>2. part[i + 1] = part[i] + c
    BY <1>3, <2>1
  <2>3. part[i] = i * c
    BY <1>5
  <2>4. (i + 1) * c = i * c + c
    OBVIOUS
  <2> QED
    BY <2>1, <2>2, <2>3, <2>4
<1> HIDE DEF T
<1>6. \A i \in 0..k : i \in T
  BY <1>4, <1>5, UpTo
<1>7. k \in 0..k
  OBVIOUS
<1> QED
  BY <1>3, <1>6, <1>7 DEF T, values

LEMMA SameIdentity ==
  ASSUME NEW model, NEW environment, NEW own
  PROVE  /\ ModelSummary(model, AdapterIdentity(model, environment), own)
              = ModelSummary(model, environment, own)
         /\ EvidenceMode(model) = "black_box" =>
              AdapterIdentity(model, environment).retries = environment.retries
<1>1. AdapterIdentity(model, AdapterIdentity(model, environment))
        = AdapterIdentity(model, environment)
  BY DEF AdapterIdentity
<1>2. EvidenceMode(model) = "black_box" =>
        AdapterIdentity(model, environment).retries = environment.retries
  BY DEF AdapterIdentity
<1>3. ASSUME NEW e, NEW f, AdapterIdentity(model, e) = AdapterIdentity(model, f)
      PROVE  ModelSummary(model, e, own) = ModelSummary(model, f, own)
  BY <1>3, Zenon DEF ModelSummary
<1> QED
  BY <1>1, <1>2, <1>3

(* What the command writes after a whole run, part by part.                *)
Own(items, rs, n) == [i \in DOMAIN items |-> rs[At(items, n, i)]]
ResultOf(items, rs, environment, result) ==
  /\ result.scope = "canonical" /\ result.itemCount = Len(items) /\ result.sealed = TRUE
  /\ result.canary = items[1].canary
  /\ result.metricClasses = {items[i].metricClass : i \in DOMAIN items}
  /\ result.evidenceModes = {EvidenceMode(m) : m \in Range(Models)}
  /\ result.itemRuns = rs
  /\ IsList(result.models) /\ Len(result.models) = Len(Models)
  /\ DOMAIN result.models = DOMAIN Models
  /\ \A n \in DOMAIN Models :
       LET row == result.models[n]
       IN /\ row = ModelSummary(Models[n], environment, Own(items, rs, n))
          /\ row.model = Models[n] /\ row.evidenceMode = EvidenceMode(Models[n])
          /\ row.itemCount = Len(items)
          /\ row.identity = AdapterIdentity(Models[n], environment)

LEMMA SummaryFields ==
  ASSUME NEW items, NEW rs, WholeRun(items, rs), NEW environment, NEW n \in DOMAIN Models,
         NEW row, row = ModelSummary(Models[n], environment, Own(items, rs, n))
  PROVE  /\ row.model = Models[n] /\ row.evidenceMode = EvidenceMode(Models[n])
         /\ row.itemCount = Len(items)
         /\ row.identity = AdapterIdentity(Models[n], environment)
<1> DEFINE own == Own(items, rs, n)
<1>1. PICK l \in Nat : l = Len(items) /\ DOMAIN items = 1..l
  BY DatasetFacts DEF WholeRun
<1>2. own = [i \in 1..l |-> own[i]]
  BY <1>1 DEF Own
<1>3. row = ModelSummary(Models[n], environment, own)
  OBVIOUS
<1> HIDE DEF own
<1>4. Len(own) = l
  BY <1>2, FunctionIsList
<1>5. \E aurc, ecl, coverage, elicit, hits, capture :
        row = [model |-> Models[n], evidenceMode |-> EvidenceMode(Models[n]),
               itemCount |-> Len(own), aurc |-> aurc, ecl |-> ecl, coverage |-> coverage,
               elicit |-> elicit, leakageHitRate |-> hits,
               identity |-> AdapterIdentity(Models[n], environment), capture |-> capture]
  BY <1>3, Zenon DEF ModelSummary
<1>6. /\ row.model = Models[n] /\ row.evidenceMode = EvidenceMode(Models[n])
      /\ row.itemCount = Len(own)
      /\ row.identity = AdapterIdentity(Models[n], environment)
  BY <1>5
<1> QED
  BY <1>1, <1>4, <1>6

LEMMA ResultWritten ==
  ASSUME NEW items, NEW rs, WholeRun(items, rs), NEW environment
  PROVE  ResultOf(items, rs, environment, BenchResult(items, environment, rs))
<1> DEFINE own(n) == SubSeq(rs, (n - 1) * Len(items) + 1, n * Len(items))
<1>1. PICK result : result = BenchResult(items, environment, rs)
  OBVIOUS
<1>2. /\ result.scope = "canonical" /\ result.itemCount = Len(items)
      /\ result.sealed = TRUE /\ result.canary = items[1].canary
      /\ result.metricClasses = {items[i].metricClass : i \in DOMAIN items}
      /\ result.evidenceModes = {EvidenceMode(m) : m \in Range(Models)}
      /\ result.itemRuns = rs
      /\ result.models =
           [n \in DOMAIN Models |-> ModelSummary(Models[n], environment, own(n))]
  BY <1>1 DEF BenchResult
<1>3. ASSUME NEW n \in DOMAIN Models
      PROVE  result.models[n] = ModelSummary(Models[n], environment, Own(items, rs, n))
  <2>1. own(n) = Own(items, rs, n)
    BY OwnRuns DEF Own
  <2> HIDE DEF own
  <2> QED
    BY <1>2, <2>1
<1>4. PICK k \in Nat : k = Len(Models) /\ DOMAIN Models = 1..k
  BY LadderAssumption, ListFacts
<1> HIDE DEF own
<1>5. result.models = [n \in 1..k |-> result.models[n]]
  BY <1>2, <1>4
<1>6. IsList(result.models) /\ Len(result.models) = k /\ DOMAIN result.models = 1..k
  BY <1>5, FunctionIsList
<1>7. \A n \in DOMAIN Models :
        /\ result.models[n].model = Models[n]
        /\ result.models[n].evidenceMode = EvidenceMode(Models[n])
        /\ result.models[n].itemCount = Len(items)
        /\ result.models[n].identity = AdapterIdentity(Models[n], environment)
  BY <1>3, SummaryFields
<1>8. ResultOf(items, rs, environment, result)
  BY <1>2, <1>3, <1>4, <1>6, <1>7 DEF ResultOf
<1> QED
  BY <1>1, <1>8

LEMMA WholeRunShaped ==
  ASSUME NEW items, NEW rs, WholeRun(items, rs), NEW n \in DOMAIN rs
  PROVE  /\ IsList(rs[n].measurements)
         /\ \A p \in DOMAIN rs[n].measurements :
              /\ IsList(rs[n].measurements[p].outputs)
              /\ rs[n].measurements[p].fidelity \in 0..Unit
<1>1. /\ items \in Datasets /\ items # <<>> /\ ~Refused(items)
      /\ DOMAIN rs = 1..Len(Models) * Len(items)
  BY ListFacts DEF WholeRun, Refused
<1>2. PICK m \in DOMAIN Models, i \in DOMAIN items : n = At(items, m, i)
  BY <1>1, PlaceOf
<1>3. /\ At(items, m, i) \in DOMAIN rs
      /\ \E points : /\ Climbed(Models[m], items[i], points)
                     /\ rs[At(items, m, i)] = ItemRun(Models[m], items[i], points)
  BY RunMade
<1>4. PICK points : /\ Climbed(Models[m], items[i], points)
                    /\ rs[n] = ItemRun(Models[m], items[i], points)
  BY <1>2, <1>3
<1>5. rs[n].measurements = points
  BY <1>4 DEF ItemRun
<1>6. ASSUME NEW p \in DOMAIN points
      PROVE  IsList(points[p].outputs) /\ points[p].fidelity \in 0..Unit
  <2>1. Measured(Models[m], items[i], p, points[p]) /\ p \in DOMAIN items[i].ladder
    BY <1>4 DEF Climbed
  <2> QED
    BY <1>1, <2>1, RowFacts, RowReplays
<1> QED
  BY <1>4, <1>5, <1>6 DEF Climbed

LEMMA ResultShaped ==
  ASSUME NEW items, NEW rs, WholeRun(items, rs), NEW environment,
         NEW result, ResultOf(items, rs, environment, result)
  PROVE  Shaped(result)
<1>1. IsList(result.models) /\ result.itemRuns = rs
  BY DEF ResultOf
<1>2. IsList(rs)
  BY DEF WholeRun
<1> QED
  BY <1>1, <1>2, WholeRunShaped DEF Shaped

(* As many values as places, when no value stands at two of them.          *)
LEMMA ImageSize ==
  ASSUME NEW k \in Nat, NEW f, f = [n \in 1..k |-> f[n]],
         \A m, n \in 1..k : f[m] = f[n] => m = n
  PROVE  Cardinality({f[n] : n \in 1..k}) = k
<1> DEFINE S == {f[n] : n \in 1..k}
<1>1. f \in Bijection(1..k, S)
  BY DEF Bijection, Injection, Surjection, IsInjective
<1>2. ExistsBijection(1..k, S)
  BY <1>1 DEF ExistsBijection
<1> HIDE DEF S
<1>3. Cardinality(S) = k
  BY <1>2, FS_CountingElements
<1> QED
  BY <1>3 DEF S

LEMMA ModelsFound ==
  ASSUME NEW items, NEW rs, NEW environment, NEW result,
         ResultOf(items, rs, environment, result)
  PROVE  ResultModels(result) = Range(Models)
<1>1. DOMAIN result.models = DOMAIN Models
  BY DEF ResultOf
<1>2. \A n \in DOMAIN Models : result.models[n].model = Models[n]
  BY DEF ResultOf
<1> QED
  BY <1>1, <1>2 DEF ResultModels, Range

LEMMA ItemsCounted ==
  ASSUME NEW items, NEW rs, WholeRun(items, rs), NEW environment, NEW result,
         ResultOf(items, rs, environment, result)
  PROVE  /\ Len(result.itemRuns) = ItemTotal(result.models)
         /\ Cardinality(ResultModels(result)) = Len(result.models)
<1>1. PICK l \in Nat : l = Len(items)
  BY DatasetFacts DEF WholeRun
<1>2. PICK k \in Nat : k = Len(Models) /\ DOMAIN Models = 1..k
  BY LadderAssumption, ListFacts
<1>3. /\ DOMAIN result.models = 1..k /\ Len(result.models) = k /\ result.itemRuns = rs
      /\ \A n \in 1..k : result.models[n].model = Models[n] /\ result.models[n].itemCount = l
  BY <1>1, <1>2 DEF ResultOf
<1>4. ItemTotal(result.models) = k * l
  <2>1. [n \in DOMAIN result.models |-> result.models[n].itemCount] = [n \in 1..k |-> l]
    BY <1>3
  <2>2. Total([n \in 1..k |-> l]) = k * l
    BY <1>1, <1>2, TotalOfSame
  <2> QED
    BY <2>1, <2>2 DEF ItemTotal
<1>5. Len(rs) = k * l
  BY <1>1, <1>2 DEF WholeRun
<1>6. Cardinality(ResultModels(result)) = k
  <2> DEFINE f == [n \in 1..k |-> Models[n]]
  <2>1. f = [n \in 1..k |-> f[n]]
    OBVIOUS
  <2>2. \A m, n \in 1..k : f[m] = f[n] => m = n
    BY <1>2, NamesApart DEF WholeRun
  <2>3. ResultModels(result) = {f[n] : n \in 1..k}
    BY <1>3 DEF ResultModels
  <2> HIDE DEF f
  <2> QED
    BY <2>1, <2>2, <2>3, ImageSize
<1> QED
  BY <1>3, <1>4, <1>5, <1>6

(* A run of each pair of a model and an item, and one only.                *)
LEMMA PairsCovered ==
  ASSUME NEW items, NEW rs, WholeRun(items, rs), NEW pairs,
         pairs = {<<rs[n].model, rs[n].item>> : n \in DOMAIN rs}
  PROVE  Cardinality(pairs) = Len(rs) /\ pairs = Range(Models) \X ItemIds(items)
<1>1. /\ items \in Datasets /\ items # <<>> /\ ~Refused(items)
      /\ DOMAIN rs = 1..Len(Models) * Len(items) /\ Len(rs) = Len(Models) * Len(items)
  BY ListFacts DEF WholeRun, Refused
<1>2. PICK t \in Nat : t = Len(rs) /\ DOMAIN rs = 1..t
  BY ListFacts DEF WholeRun
<1> DEFINE f == [n \in 1..t |-> <<rs[n].model, rs[n].item>>]
<1>3. f = [n \in 1..t |-> f[n]]
  OBVIOUS
<1>4. ASSUME NEW n \in 1..t
      PROVE  \E m \in DOMAIN Models, i \in DOMAIN items :
               n = At(items, m, i) /\ rs[n].model = Models[m] /\ rs[n].item = items[i].id
  <2>1. PICK m \in DOMAIN Models, i \in DOMAIN items : n = At(items, m, i)
    BY <1>1, <1>2, PlaceOf
  <2>2. rs[n].model = Models[m] /\ rs[n].item = items[i].id
    BY <2>1, RunNamed
  <2> QED
    BY <2>1, <2>2
<1>5. ASSUME NEW n \in 1..t, NEW o \in 1..t, f[n] = f[o]
      PROVE  n = o
  <2>1. PICK m \in DOMAIN Models, i \in DOMAIN items :
          n = At(items, m, i) /\ rs[n].model = Models[m] /\ rs[n].item = items[i].id
    BY <1>4
  <2>2. PICK q \in DOMAIN Models, j \in DOMAIN items :
          o = At(items, q, j) /\ rs[o].model = Models[q] /\ rs[o].item = items[j].id
    BY <1>4
  <2>3. rs[n].model = rs[o].model /\ rs[n].item = rs[o].item
    BY <1>5
  <2>4. m = q /\ i = j
    BY <1>1, <2>1, <2>2, <2>3, NamesApart
  <2> QED
    BY <2>1, <2>2, <2>4
<1>6. pairs = {f[n] : n \in 1..t}
  BY <1>2
<1>7. Cardinality(pairs) = t
  <2> HIDE DEF f
  <2> QED
    BY <1>3, <1>5, <1>6, ImageSize
<1>8. ASSUME NEW pair \in pairs
      PROVE  pair \in Range(Models) \X ItemIds(items)
  <2>1. PICK n \in 1..t : pair = <<rs[n].model, rs[n].item>>
    BY <1>2
  <2>2. PICK m \in DOMAIN Models, i \in DOMAIN items :
          rs[n].model = Models[m] /\ rs[n].item = items[i].id
    BY <1>4
  <2>3. Models[m] \in Range(Models) /\ items[i].id \in ItemIds(items)
    BY DEF Range, ItemIds
  <2> QED
    BY <2>1, <2>2, <2>3
<1>9. ASSUME NEW model \in Range(Models), NEW id \in ItemIds(items)
      PROVE  <<model, id>> \in pairs
  <2>1. PICK m \in DOMAIN Models : model = Models[m]
    BY DEF Range
  <2>2. PICK i \in DOMAIN items : id = items[i].id
    BY DEF ItemIds
  <2>3. /\ At(items, m, i) \in DOMAIN rs
        /\ rs[At(items, m, i)].model = Models[m]
        /\ rs[At(items, m, i)].item = items[i].id
    BY RunNamed
  <2> QED
    BY <2>1, <2>2, <2>3
<1> HIDE DEF f
<1>10. pairs = Range(Models) \X ItemIds(items)
  BY <1>8, <1>9
<1> QED
  BY <1>2, <1>7, <1>10

LEMMA ResultIsCovered ==
  ASSUME NEW items, NEW rs, WholeRun(items, rs), NEW environment, NEW result,
         ResultOf(items, rs, environment, result)
  PROVE  ResultCovers(items, result)
<1>1. /\ result.canary = items[1].canary /\ result.itemRuns = rs
      /\ DOMAIN result.models = DOMAIN Models
  BY DEF ResultOf
<1>2. \A n \in DOMAIN Models : result.models[n].itemCount = Len(items)
  BY DEF ResultOf
<1>3. ResultModels(result) = Range(Models)
  BY ModelsFound
<1>4. /\ Len(result.itemRuns) = ItemTotal(result.models)
      /\ Cardinality(ResultModels(result)) = Len(result.models)
  BY ItemsCounted
<1>5. PICK pairs : pairs = {<<rs[n].model, rs[n].item>> : n \in DOMAIN rs}
  OBVIOUS
<1>6. Cardinality(pairs) = Len(rs) /\ pairs = Range(Models) \X ItemIds(items)
  BY <1>5, PairsCovered
<1>7. ASSUME NEW i \in DOMAIN items, NEW model \in ResultModels(result)
      PROVE  DOMAIN RunOf(result, model, items[i]).measurements = DOMAIN items[i].ladder
  <2>1. PICK m \in DOMAIN Models : model = Models[m]
    BY <1>3 DEF Range
  <2>2. RunOf(result, Models[m], items[i]) = rs[At(items, m, i)]
    BY <1>1, WholeRunFound
  <2>3. \E points : /\ Climbed(Models[m], items[i], points)
                    /\ rs[At(items, m, i)] = ItemRun(Models[m], items[i], points)
    BY RunMade
  <2>4. PICK points : /\ Climbed(Models[m], items[i], points)
                      /\ rs[At(items, m, i)] = ItemRun(Models[m], items[i], points)
    BY <2>3
  <2>5. rs[At(items, m, i)].measurements = points
    BY <2>4 DEF ItemRun
  <2> QED
    BY <2>1, <2>2, <2>4, <2>5 DEF Climbed
<1> QED
  BY <1>1, <1>2, <1>3, <1>4, <1>5, <1>6, <1>7 DEF ResultCovers

(* A finished run is replayed as it was.                                   *)
LEMMA RunReplays ==
  ASSUME NEW items \in Datasets, ~Refused(items), NEW i \in DOMAIN items, NEW model,
         NEW points, Climbed(model, items[i], points),
         NEW run, run = ItemRun(model, items[i], points)
  PROVE  /\ Replayable(items[i], model, run)
         /\ ~ReplayRaises(items[i], run)
         /\ run = Replayed(items[i], model, run)
<1> DEFINE item == items[i]
           mock == EvidenceMode(model) = "mock"
           again == [p \in DOMAIN item.ladder |->
                      Measurement(model, item, p, RowAnswers(model, run.measurements[p]))]
<1>1. run.measurements = points
  BY DEF ItemRun
<1>2. IsList(points) /\ DOMAIN points = DOMAIN item.ladder
  BY DEF Climbed
<1>3. ASSUME NEW p \in DOMAIN item.ladder, NEW row, row = run.measurements[p], NEW count,
             count = IF item.ladder[p].leaky THEN 0 ELSE EffectiveReruns(model)
      PROVE  /\ Len(row.outputs) = count
             /\ Len(row.receipts) = IF mock THEN 0 ELSE count
             /\ Range(row.receipts) \subseteq {"provider", "cache"}
             /\ \A n \in DOMAIN row.outputs :
                  ~FidelityRaises(item.target, row.outputs[n], item.metricClass)
             /\ row = Measurement(model, item, p, RowAnswers(model, row))
  <2>1. Measured(model, items[i], p, row)
    BY <1>1, <1>2, <1>3 DEF Climbed
  <2>2. /\ items \in Datasets /\ ~Refused(items) /\ p \in DOMAIN items[i].ladder
        /\ count = IF items[i].ladder[p].leaky THEN 0 ELSE EffectiveReruns(model)
    BY <1>3
  <2>3. Range(row.receipts) \subseteq {"provider", "cache"}
    BY <2>1, <2>2, RowReplays
  <2>7. Len(row.outputs) = count
    BY <2>1, <2>2, RowReplays
  <2>6. Len(row.receipts) = IF EvidenceMode(model) = "mock" THEN 0 ELSE count
    BY <2>1, <2>2, RowReplays
  <2>4. \A n \in DOMAIN row.outputs :
          ~FidelityRaises(items[i].target, row.outputs[n], items[i].metricClass)
    BY <2>1, <2>2, RowReplays
  <2>5. row = Measurement(model, items[i], p, RowAnswers(model, row))
    BY <2>1, <2>2, RowReplays
  <2> QED
    BY <2>3, <2>4, <2>5, <2>6, <2>7
<1>4. Replayable(item, model, run)
  BY <1>3 DEF Replayable
<1>5. ~ReplayRaises(item, run)
  BY <1>3 DEF ReplayRaises
<1>6. ASSUME NEW p \in DOMAIN item.ladder
      PROVE  points[p] = Measurement(model, item, p, RowAnswers(model, run.measurements[p]))
  BY <1>1, <1>3
<1>7. Replayed(item, model, run) = ItemRun(model, item, again)
  BY Zenon DEF Replayed, RowAnswers
<1>8. \A p \in DOMAIN item.ladder : again[p] = points[p]
  BY <1>6
<1>9. points = [p \in DOMAIN item.ladder |-> points[p]]
  BY <1>2 DEF IsList
<1>10. again = [p \in DOMAIN item.ladder |-> again[p]]
  OBVIOUS
<1> HIDE DEF again
<1>11. again = points
  BY <1>8, <1>9, <1>10
<1>12. run = Replayed(item, model, run)
  BY <1>7, <1>11
<1> QED
  BY <1>4, <1>5, <1>12

LEMMA ResultIsReplayed ==
  ASSUME NEW items, NEW rs, WholeRun(items, rs), NEW environment, NEW result,
         ResultOf(items, rs, environment, result)
  PROVE  ResultReplays(items, result)
<1>1. /\ result.scope = "canonical" /\ result.itemCount = Len(items) /\ result.sealed
      /\ result.metricClasses = {items[i].metricClass : i \in DOMAIN items}
      /\ result.itemRuns = rs /\ DOMAIN result.models = DOMAIN Models
  BY DEF ResultOf
<1>2. result.evidenceModes = {EvidenceMode(m) : m \in ResultModels(result)}
  <2>1. result.evidenceModes = {EvidenceMode(m) : m \in Range(Models)}
    BY DEF ResultOf
  <2> QED
    BY <2>1, ModelsFound
<1>3. ASSUME NEW n \in DOMAIN Models, NEW row, row = result.models[n]
      PROVE  /\ row.evidenceMode = EvidenceMode(row.model)
             /\ \A i \in DOMAIN items :
                  LET run == RunOf(result, row.model, items[i])
                  IN /\ Replayable(items[i], row.model, run)
                     /\ ~ReplayRaises(items[i], run)
                     /\ run = Replayed(items[i], row.model, run)
             /\ row = ModelSummary(row.model, row.identity,
                        [i \in DOMAIN items |-> RunOf(result, row.model, items[i])])
  <2>1. /\ row = ModelSummary(Models[n], environment, Own(items, rs, n))
        /\ row.model = Models[n] /\ row.evidenceMode = EvidenceMode(Models[n])
        /\ row.identity = AdapterIdentity(Models[n], environment)
    BY <1>3 DEF ResultOf
  <2>2. ASSUME NEW i \in DOMAIN items
        PROVE  RunOf(result, Models[n], items[i]) = rs[At(items, n, i)]
    BY <1>1, WholeRunFound
  <2>3. ASSUME NEW i \in DOMAIN items, NEW run, run = RunOf(result, Models[n], items[i])
        PROVE  /\ Replayable(items[i], Models[n], run)
               /\ ~ReplayRaises(items[i], run)
               /\ run = Replayed(items[i], Models[n], run)
    <3>1. \E points : /\ Climbed(Models[n], items[i], points)
                      /\ rs[At(items, n, i)] = ItemRun(Models[n], items[i], points)
      BY RunMade
    <3>2. PICK points : /\ Climbed(Models[n], items[i], points)
                        /\ rs[At(items, n, i)] = ItemRun(Models[n], items[i], points)
      BY <3>1
    <3>3. run = ItemRun(Models[n], items[i], points)
      BY <2>2, <2>3, <3>2
    <3>4. items \in Datasets /\ ~Refused(items)
      BY DEF WholeRun
    <3> QED
      BY <3>2, <3>3, <3>4, RunReplays
  <2>4. [i \in DOMAIN items |-> RunOf(result, Models[n], items[i])] = Own(items, rs, n)
    BY <2>2 DEF Own
  <2>5. ModelSummary(Models[n], row.identity, Own(items, rs, n)) = row
    BY <2>1, SameIdentity
  <2> QED
    BY <2>1, <2>3, <2>4, <2>5
<1> QED
  BY <1>1, <1>2, <1>3 DEF ResultReplays

-----------------------------------------------------------------------------
(* What the verifier finds in a manifest.                                  *)

(* The calls for a prompt, counted model by model.                         *)
LEMMA HostedTotal ==
  ASSUME NEW hosted,
         hosted = [n \in DOMAIN Models |->
                    IF EvidenceMode(Models[n]) = "mock" THEN 0 ELSE EffectiveReruns(Models[n])]
  PROVE  Total(hosted) = HostedReruns
<1> DEFINE First(i) == {c \in HostedCalls : c[1] <= i}
<1>1. PICK k \in Nat : k = Len(Models) /\ DOMAIN Models = 1..k
  BY LadderAssumption, ListFacts
<1>2. PICK reruns \in Nat : reruns = Reruns
  BY LadderAssumption
<1>3. \A n \in 1..k :
        hosted[n] = IF EvidenceMode(Models[n]) = "mock" THEN 0 ELSE reruns
  BY <1>1, <1>2 DEF EffectiveReruns
<1>4. IsList(hosted) /\ Len(hosted) = k
  <2>1. hosted = [n \in 1..k |-> hosted[n]]
    BY <1>1
  <2> QED
    BY <2>1, FunctionIsList
<1>5. PICK part : SumsOf(hosted, part)
  BY <1>4, SumRows, Zenon
<1>6. /\ part[0] = 0
      /\ \A i \in 1..k : part[i] = part[i - 1] + hosted[i]
      /\ Total(hosted) = part[k]
  BY <1>4, <1>5 DEF SumsOf
<1>7. /\ HostedCalls \subseteq (1..k) \X (1..reruns)
      /\ \A n \in 1..k : EvidenceMode(Models[n]) # "mock" =>
           \A r \in 1..reruns : <<n, r>> \in HostedCalls
      /\ \A c \in HostedCalls : EvidenceMode(Models[c[1]]) # "mock"
      /\ IsFiniteSet(HostedCalls)
  BY <1>1, <1>2, HostedFinite
<1> DEFINE T == {i \in 0..k : part[i] = Cardinality(First(i))}
<1>8. 0 \in T
  <2>1. First(0) = {}
    BY <1>7
  <2> QED
    BY <1>6, <2>1, FS_EmptySet
<1>9. ASSUME NEW i \in Nat, i < k, i \in T
      PROVE  i + 1 \in T
  <2>1. PICK j \in 1..k : j \in Nat /\ j = i + 1 /\ j - 1 = i
    BY <1>9
  <2> DEFINE new == {c \in HostedCalls : c[1] = j}
  <2>2. First(j) = First(i) \cup new /\ First(i) \cap new = {}
    BY <1>7, <2>1
  <2>3. IsFiniteSet(First(i)) /\ IsFiniteSet(new)
    <3>1. First(i) \subseteq HostedCalls /\ new \subseteq HostedCalls
      OBVIOUS
    <3> QED
      BY <1>7, <3>1, FS_Subset
  <2>4. Cardinality(new) = hosted[j]
    <3>1. CASE EvidenceMode(Models[j]) = "mock"
      <4>1. new = {}
        BY <1>7, <2>1, <3>1
      <4> QED
        BY <1>3, <2>1, <3>1, <4>1, FS_EmptySet
    <3>2. CASE EvidenceMode(Models[j]) # "mock"
      <4>1. new = {j} \X (1..reruns)
        BY <1>7, <2>1, <3>2
      <4>2. IsFiniteSet({j}) /\ Cardinality({j}) = 1
        BY FS_Singleton
      <4>3. IsFiniteSet(1..reruns) /\ Cardinality(1..reruns) = reruns
        <5>1. /\ IsFiniteSet(1..reruns)
              /\ Cardinality(1..reruns) = IF 1 > reruns THEN 0 ELSE reruns - 1 + 1
          BY FS_Interval
        <5> QED
          BY <5>1
      <4>4. PICK S : S = 1..reruns
        OBVIOUS
      <4>5. Cardinality({j} \X S) = Cardinality({j}) * Cardinality(S)
        BY <4>2, <4>3, <4>4, FS_Product
      <4>6. Cardinality(new) = 1 * reruns
        BY <4>1, <4>2, <4>3, <4>4, <4>5
      <4> QED
        BY <1>3, <2>1, <3>2, <4>6
    <3> QED
      BY <3>1, <3>2
  <2>5. Cardinality(First(j)) = Cardinality(First(i)) + Cardinality(new)
    <3> HIDE DEF First, new
    <3>1. Cardinality(First(j))
            = Cardinality(First(i)) + Cardinality(new) - Cardinality(First(i) \cap new)
      BY <2>2, <2>3, FS_Union
    <3>2. Cardinality(First(i) \cap new) = 0
      BY <2>2, FS_EmptySet
    <3>3. Cardinality(First(i)) \in Nat /\ Cardinality(new) \in Nat
      BY <2>3, FS_CardinalityType
    <3> QED
      BY <3>1, <3>2, <3>3
  <2>6. part[j] = part[i] + hosted[j] /\ part[i] = Cardinality(First(i))
    BY <1>6, <1>9, <2>1
  <2> QED
    BY <2>1, <2>4, <2>5, <2>6
<1> HIDE DEF T
<1>10. \A i \in 0..k : i \in T
  BY <1>8, <1>9, UpTo
<1>11. part[k] = Cardinality(First(k))
  BY <1>10 DEF T
<1>12. First(k) = HostedCalls
  BY <1>7
<1> QED
  BY <1>6, <1>11, <1>12 DEF HostedReruns

(* A manifest is verified that the command made for the dataset.           *)
LEMMA ManifestIsHeld ==
  ASSUME NEW items \in Datasets, NEW environment, NEW manifest,
         manifest = BenchManifest(items, environment)
  PROVE  ManifestHolds(items, manifest)
<1> DEFINE rows == manifest.models
           row(n) == [model |-> Models[n], evidenceMode |-> EvidenceMode(Models[n]),
                      effectiveReruns |-> EffectiveReruns(Models[n]), status |-> "ready",
                      identity |-> AdapterIdentity(Models[n], environment)]
           retries == IF HostedReruns = 0 THEN 0 ELSE environment.retries
           prompts == PromptReceipts(items, FALSE)
           gated == PromptReceipts(items, TRUE)
           reruns == [n \in DOMAIN rows |-> rows[n].effectiveReruns]
           hosted == [n \in DOMAIN rows |->
                       IF rows[n].evidenceMode = "mock" THEN 0 ELSE rows[n].effectiveReruns]
<1>1. /\ manifest.sealed /\ manifest.itemCount = Len(items)
      /\ manifest.prompts = prompts /\ manifest.gatedPrompts = gated
      /\ manifest.promptCount = Cardinality(prompts) + Cardinality(gated)
      /\ manifest.estimatedGenerations = Cardinality(prompts) * AllReruns
      /\ manifest.hostedMaxRetries = retries
      /\ manifest.estimatedMaxHttpAttempts = Cardinality(prompts) * HostedReruns * (retries + 1)
  BY DEF BenchManifest
<1>2. manifest.models = [n \in DOMAIN Models |-> row(n)]
  BY DEF BenchManifest
<1>3. /\ DOMAIN rows = DOMAIN Models
      /\ \A n \in DOMAIN Models :
           /\ rows[n].model = Models[n] /\ rows[n].evidenceMode = EvidenceMode(Models[n])
           /\ rows[n].effectiveReruns = EffectiveReruns(Models[n])
           /\ rows[n].status = "ready"
           /\ rows[n].identity = AdapterIdentity(Models[n], environment)
  BY <1>2
<1>4. PICK k \in Nat : k = Len(Models) /\ DOMAIN Models = 1..k
  BY LadderAssumption, ListFacts
<1>5. Len(rows) = k
  BY <1>2, <1>4
<1> HIDE DEF rows, prompts, gated
<1>6. Total(reruns) = AllReruns
  <2>1. reruns = [n \in DOMAIN Models |-> EffectiveReruns(Models[n])]
    BY <1>3
  <2> HIDE DEF reruns
  <2> QED
    BY <2>1 DEF AllReruns
<1>7. Total(hosted) = HostedReruns
  <2>1. hosted = [n \in DOMAIN Models |->
                   IF EvidenceMode(Models[n]) = "mock" THEN 0 ELSE EffectiveReruns(Models[n])]
    BY <1>3
  <2> HIDE DEF hosted
  <2> QED
    BY <2>1, HostedTotal
<1>8. Cardinality({rows[n].model : n \in DOMAIN rows}) = Len(rows)
  <2> DEFINE f == [n \in 1..k |-> Models[n]]
  <2>1. f = [n \in 1..k |-> f[n]]
    OBVIOUS
  <2>2. \A m, n \in 1..k : f[m] = f[n] => m = n
    <3>1. IsInjective(Models)
      BY LadderAssumption
    <3> QED
      BY <1>4, <3>1 DEF IsInjective
  <2>3. {rows[n].model : n \in DOMAIN rows} = {f[n] : n \in 1..k}
    BY <1>3, <1>4
  <2> HIDE DEF f
  <2> QED
    BY <1>5, <2>1, <2>2, <2>3, ImageSize
<1>9. ASSUME NEW n \in DOMAIN Models, EvidenceMode(Models[n]) = "black_box"
      PROVE  AdapterIdentity(Models[n], environment).retries = retries
  <2>1. AdapterIdentity(Models[n], environment).retries = environment.retries
    BY <1>9, SameIdentity
  <2>2. HostedReruns # 0
    <3>1. Reruns \in Nat \ {0}
      BY LadderAssumption
    <3>2. 1 \in 1..Reruns /\ EvidenceMode(Models[n]) # "mock"
      BY <1>9, <3>1
    <3>3. <<n, 1>> \in HostedCalls
      BY <3>2, HostedFinite
    <3>4. HostedCalls # {} /\ IsFiniteSet(HostedCalls)
      BY <3>3, HostedFinite
    <3> QED
      BY <3>4, FS_EmptySet DEF HostedReruns
  <2> QED
    BY <2>1, <2>2
<1> HIDE DEF retries, reruns, hosted
<1>10. /\ manifest.estimatedGenerations = Cardinality(prompts) * Total(reruns)
       /\ manifest.estimatedMaxHttpAttempts
            = Cardinality(prompts) * Total(hosted) * (manifest.hostedMaxRetries + 1)
  BY <1>1, <1>6, <1>7
<1>11. \A n \in DOMAIN rows :
         /\ rows[n].evidenceMode = EvidenceMode(rows[n].model)
         /\ rows[n].effectiveReruns = EffectiveReruns(rows[n].model)
         /\ rows[n].status = "ready"
         /\ rows[n].evidenceMode = "black_box" =>
              rows[n].identity.retries = manifest.hostedMaxRetries
  BY <1>1, <1>3, <1>9
<1> QED
  BY <1>1, <1>8, <1>10, <1>11, Zenon DEF ManifestHolds, rows, prompts, gated, reruns, hosted

-----------------------------------------------------------------------------
(* An honest run verifies.                                                 *)

LEMMA HonestAccepted ==
  ASSUME WholeRun(dataset, runs), NEW environment, NEW e, NEW result, NEW manifest,
         result = BenchResult(dataset, environment, runs),
         manifest = BenchManifest(dataset, e),
         \A n \in DOMAIN Models :
           manifest.models[n].identity = AdapterIdentity(Models[n], environment)
  PROVE  Accepts(dataset, result, manifest)
<1>1. ResultOf(dataset, runs, environment, result)
  BY ResultWritten
<1>2. Shaped(result) /\ ResultCovers(dataset, result) /\ ResultReplays(dataset, result)
  BY <1>1, ResultShaped, ResultIsCovered, ResultIsReplayed
<1>3. ManifestHolds(dataset, manifest)
  BY ManifestIsHeld DEF WholeRun
<1>4. Agree(result, manifest)
  <2>1. DOMAIN manifest.models = DOMAIN Models
    BY DEF BenchManifest
  <2>2. \A n \in DOMAIN Models : manifest.models[n].model = Models[n]
    BY DEF BenchManifest
  <2>3. DOMAIN result.models = DOMAIN Models
    BY <1>1 DEF ResultOf
  <2>4. \A n \in DOMAIN Models :
          /\ result.models[n].model = Models[n]
          /\ result.models[n].identity = AdapterIdentity(Models[n], environment)
    BY <1>1 DEF ResultOf
  <2> QED
    BY <2>1, <2>2, <2>3, <2>4 DEF Agree
<1> QED
  BY <1>2, <1>3, <1>4 DEF Accepts

(* While nobody edits, the dataset on the disk is the frozen one, the      *)
(* result that of the run, and the verifier reads what is there.           *)
HonestDisk ==
  /\ disk.dataset = dataset
  /\ disk.result # NoFile => phase = "done" /\ disk.result = BenchResult(dataset, env, runs)
HonestReads ==
  /\ vpc # "idle" => disk.result # NoFile
  /\ vpc = "idle" => ~errors /\ \A a \in Artifacts : read[a] = NoFile
  /\ vpc = "read" => opened = version[Artifact]
  /\ \A a \in Artifacts : read[a] # NoFile => read[a] = disk[a] /\ seen[a] = version[a]
NoErrors == PlannedHere => ~errors
HonestInv == edits = 0 => HonestDisk /\ HonestReads /\ NoErrors

LEMMA InitHonest == Init => HonestInv
<1> SUFFICES ASSUME Init PROVE HonestInv
  OBVIOUS
<1>1. /\ disk = [a \in Artifacts |-> IF a = "dataset" THEN dataset ELSE NoFile]
      /\ read = [a \in Artifacts |-> NoFile]
      /\ vpc = "idle" /\ errors = FALSE
  BY DEF Init
<1>2. "dataset" \in Artifacts /\ "result" \in Artifacts
  BY DEF Artifacts
<1>3. HonestDisk /\ HonestReads /\ NoErrors
  BY <1>1, <1>2 DEF HonestDisk, HonestReads, NoErrors
<1> QED
  BY <1>3 DEF HonestInv

(* The command writes nothing while the verifier reads.                    *)
LEMMA CommandHonest ==
  ASSUME VerifierTypeOK, HonestInv, edits = 0,
         \/ \E environment \in Environments : WriteManifest(environment)
         \/ WriteResult \/ Bench
  PROVE  HonestInv'
<1> USE DEF HonestInv
<1>1. phase # "done" \/ disk.result = NoFile
  <2>1. CASE Bench
    BY <2>1 DEF Bench, BenchNext, Load, Gatekeep, Score, FinishItem, AtPrompt, GenerateFails,
         GenerateMock, GenerateHosted
  <2> QED
    BY <2>1 DEF WriteManifest, WriteResult
<1>2. disk.result = NoFile /\ vpc = "idle"
  BY <1>1 DEF HonestDisk, HonestReads
<1>3. UNCHANGED <<vpc, at, opened, read, seen, errors, snapshot, edits>>
  BY DEF WriteManifest, WriteResult, Bench, verifyVars, fileVars
<1>4. dataset' = dataset /\ env' = env
  BY DEF WriteManifest, WriteResult, Bench, BenchNext, Load, Gatekeep, Score, FinishItem,
     GenerateFails, GenerateMock, GenerateHosted, benchVars
<1>5. HonestReads' /\ NoErrors'
  BY <1>2, <1>3 DEF HonestReads, NoErrors
<1>6. HonestDisk'
  <2>1. "dataset" \in Artifacts /\ "result" \in Artifacts /\ "manifest" \in Artifacts
    BY DEF Artifacts
  <2>2. DOMAIN disk = Artifacts
    BY DEF VerifierTypeOK
  <2>3. CASE \E environment \in Environments : WriteManifest(environment)
    <3>1. disk'.dataset = disk.dataset /\ disk'.result = disk.result
      BY <2>2, <2>3 DEF WriteManifest, Put
    <3> QED
      BY <1>2, <1>4, <3>1 DEF HonestDisk
  <2>4. CASE WriteResult
    <3>1. /\ disk'.dataset = disk.dataset
          /\ disk'.result = BenchResult(dataset, env, runs)
      BY <2>1, <2>2, <2>4 DEF WriteResult, Put
    <3>2. phase' = "done" /\ runs' = runs
      BY <2>4 DEF WriteResult, benchVars
    <3>3. BenchResult(dataset, env, runs)' = BenchResult(dataset, env, runs)
      BY <1>4, <3>2, Zenon DEF BenchResult
    <3> QED
      BY <1>4, <3>1, <3>2, <3>3 DEF HonestDisk
  <2>5. CASE Bench
    <3>1. disk' = disk
      BY <2>5 DEF Bench, fileVars
    <3> QED
      BY <1>2, <1>4, <3>1 DEF HonestDisk
  <2> QED
    BY <2>3, <2>4, <2>5
<1> QED
  BY <1>5, <1>6

(* Each artifact is read as it is, and found to be what the command wrote. *)
LEMMA VerifierHonest ==
  ASSUME VerifierInv, CommandInv, MeasuredInv, VerdictInv, HonestInv, edits = 0, VerifyStep
  PROVE  HonestInv'
<1> USE DEF HonestInv
<1>1. /\ UNCHANGED <<dataset, env, phase, runs, disk, version, edits>>
  BY DEF VerifyStep, StartVerify, Open, Read, Check, Recheck, benchVars, fileVars
<1>2. HonestDisk'
  BY <1>1, Zenon DEF HonestDisk, BenchResult
<1>3. PlannedHere' = PlannedHere
  BY <1>1 DEF PlannedHere
<1>4. at \in 1..3 /\ Artifact \in Artifacts /\ VerifierTypeOK
  BY OrderCovers DEF VerifierInv, VerifierTypeOK, Artifact
<1>5. CASE StartVerify
  <2>1. /\ UNCHANGED <<read, seen, errors>> /\ vpc' = "open" /\ vpc = "idle"
        /\ disk.result # NoFile
    BY <1>5 DEF StartVerify
  <2> QED
    BY <1>1, <1>2, <1>3, <2>1 DEF HonestReads, NoErrors
<1>6. CASE Open
  <2>1. /\ UNCHANGED <<read, seen, errors, at>> /\ vpc' = "read" /\ vpc = "open"
        /\ opened' = version[Artifact]
    BY <1>6 DEF Open
  <2> QED
    BY <1>1, <1>2, <1>3, <2>1 DEF HonestReads, NoErrors, Artifact
<1>7. CASE Read
  <2>1. /\ vpc = "read" /\ vpc' \in {"open", "check"}
        /\ IF disk[Artifact] # NoFile /\ version[Artifact] = opened
           THEN /\ read' = [read EXCEPT ![Artifact] = disk[Artifact]]
                /\ seen' = [seen EXCEPT ![Artifact] = opened]
                /\ errors' = errors
           ELSE errors' = TRUE /\ UNCHANGED <<read, seen>>
    BY <1>7 DEF Read, Advance
  <2>2. opened = version[Artifact] /\ disk.result # NoFile
    BY <2>1 DEF HonestReads
  <2>3. PlannedHere => disk[Artifact] # NoFile
    <3>1. disk.dataset # NoFile
      BY DatasetAssumption DEF HonestDisk, CommandInv, CommandTypeOK
    <3>2. PlannedHere => disk.manifest # NoFile
      BY DEF PlannedHere
    <3> QED
      BY <1>4, <2>2, <3>1, <3>2 DEF Artifacts
  <2>4. HonestReads'
    <3>1. \A a \in Artifacts : read'[a] # NoFile => read'[a] = disk[a] /\ seen'[a] = version[a]
      BY <1>4, <2>1, <2>2 DEF HonestReads, VerifierTypeOK
    <3> QED
      BY <1>1, <2>1, <2>2, <3>1 DEF HonestReads
  <2>5. NoErrors'
    BY <1>3, <2>1, <2>2, <2>3 DEF NoErrors
  <2> QED
    BY <1>2, <2>4, <2>5
<1>8. CASE Check
  <2>1. /\ vpc = "check" /\ vpc' = "recheck" /\ UNCHANGED <<read, seen>>
        /\ errors' = \/ errors
                     \/ \E a \in Artifacts : read[a] = NoFile
                     \/ ~Accepts(read.dataset, read.result, read.manifest)
    BY <1>8 DEF Check
  <2>2. HonestReads'
    BY <1>1, <2>1 DEF HonestReads
  <2>3. ASSUME PlannedHere
        PROVE  ~errors'
    <3>1. ~errors
      BY <2>3 DEF NoErrors
    <3>2. \A a \in Artifacts : read[a] # NoFile
      BY <2>1, <3>1 DEF VerifierInv, ReadOrError, Done
    <3>3. "dataset" \in Artifacts /\ "result" \in Artifacts /\ "manifest" \in Artifacts
      BY DEF Artifacts
    <3>4. /\ read.dataset = dataset /\ read.manifest = disk.manifest
          /\ read.result = BenchResult(dataset, env, runs) /\ phase = "done"
      BY <3>2, <3>3 DEF HonestReads, HonestDisk
    <3>5. PICK e \in Environments : read.manifest = BenchManifest(dataset, e)
      BY <2>3, <3>4 DEF CommandInv, ManifestMade, PlannedHere
    <3>6. \A n \in DOMAIN Models :
            read.manifest.models[n].identity = AdapterIdentity(Models[n], env)
      BY <2>3, <3>4 DEF PlannedHere
    <3>7. WholeRun(dataset, runs)
      BY <3>4 DEF WholeRun, CommandInv, CommandTypeOK, Started, MeasuredInv
    <3>8. Accepts(dataset, read.result, read.manifest)
      BY <3>4, <3>5, <3>6, <3>7, HonestAccepted
    <3> QED
      BY <2>1, <3>1, <3>2, <3>4, <3>8
  <2> QED
    BY <1>2, <1>3, <2>2, <2>3 DEF NoErrors
<1>9. CASE Recheck
  <2>1. /\ vpc = "recheck" /\ vpc' \in {"recheck", "reported"} /\ UNCHANGED <<read, seen>>
        /\ errors' = (errors \/ (read[Artifact] # NoFile /\ version[Artifact] # seen[Artifact]))
    BY <1>9 DEF Recheck, Advance
  <2>2. HonestReads'
    BY <1>1, <2>1 DEF HonestReads
  <2>3. NoErrors'
    BY <1>3, <1>4, <2>1 DEF NoErrors, HonestReads
  <2> QED
    BY <1>2, <2>2, <2>3
<1> QED
  BY <1>5, <1>6, <1>7, <1>8, <1>9 DEF VerifyStep

LEMMA HonestStep ==
  ASSUME VerifierInv, CommandInv, MeasuredInv, VerdictInv, HonestInv, [Next]_vars
  PROVE  HonestInv'
<1>1. CASE edits' # 0
  BY <1>1 DEF HonestInv
<1>2. CASE edits' = 0
  <2>1. CASE Edit
    <3>1. edits' = edits + 1 /\ edits \in Nat
      BY <2>1 DEF Edit, CommandInv, CommandTypeOK
    <3> QED
      BY <1>2, <3>1
  <2>2. CASE \/ \E environment \in Environments : WriteManifest(environment)
             \/ WriteResult \/ Bench
    <3>1. edits = 0 /\ VerifierTypeOK
      BY <1>2, <2>2 DEF WriteManifest, WriteResult, Bench, fileVars, VerifierInv
    <3> QED
      BY <2>2, <3>1, CommandHonest
  <2>3. CASE VerifyStep
    <3>1. edits = 0
      BY <1>2, <2>3
         DEF VerifyStep, StartVerify, Open, Read, Check, Recheck, fileVars
    <3> QED
      BY <2>3, <3>1, VerifierHonest
  <2>4. CASE UNCHANGED vars
    <3>1. UNCHANGED <<dataset, env, phase, runs, vpc, at, opened, read, seen, errors, disk,
                      version, edits>>
      BY <2>4 DEF vars, benchVars, verifyVars, fileVars
    <3>2. HonestDisk' = HonestDisk
      BY <3>1, Zenon DEF HonestDisk, BenchResult
    <3>3. HonestReads' = HonestReads /\ NoErrors' = NoErrors
      BY <3>1 DEF HonestReads, NoErrors, PlannedHere, Artifact
    <3> QED
      BY <3>1, <3>2, <3>3 DEF HonestInv
  <2> QED
    BY <2>1, <2>2, <2>3, <2>4 DEF Next
<1> QED
  BY <1>1, <1>2

(* What the run command wrote verifies, whatever the models answered, when *)
(* nobody edited it and its manifest was made in the environment of the    *)
(* run: counts, pairs, receipts, replays and summaries of verify.py:687,   *)
(* 745, 893 and 1018 are those of run_benchmark and build_manifest.        *)
THEOREM HonestRunVerifiesProved == Spec => []HonestRunVerifies
<1>1. VerifierInv /\ CommandInv /\ MeasuredInv /\ VerdictInv /\ HonestInv /\ [Next]_vars
        => HonestInv'
  BY HonestStep
<1>2. HonestInv => HonestRunVerifies
  BY DEF HonestInv, NoErrors, HonestRunVerifies, PlannedHere
<1> QED
  BY <1>1, <1>2, InitHonest, VerifierInvariant, CommandInvariant, MeasuredInvariant,
     VerdictInvariant, PTL DEF Spec
=============================================================================
