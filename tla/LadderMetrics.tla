---------------------------- MODULE LadderMetrics ----------------------------
(***************************************************************************)
(* The metrics of one frozen ladder, bench/engine/metrics.py.  points is   *)
(* the sequence of the ladder's scored prompts; a point has its prompt     *)
(* length (tokens), its fidelity and distortion in 1/Unit, and the gate's  *)
(* verdict (disqualified).  A frontier is the set of its points' indices.  *)
(***************************************************************************)
EXTENDS ScoringCore

CONSTANT NoEcl  \* None: no prompt reaches tau

ASSUME MetricsAssumption ==
  /\ Unit \in Nat \ {0}
  /\ NoEcl \notin Nat

Eligible(points) == {i \in DOMAIN points : ~points[i].disqualified}

(* by_length: of the eligible points of one length, the first of the least *)
(* distortion.                                                             *)
ByLength(points) ==
  {i \in Eligible(points) :
     \A j \in Eligible(points) :
       points[j].tokens = points[i].tokens =>
         \/ points[i].distortion < points[j].distortion
         \/ points[i].distortion = points[j].distortion /\ i <= j}

(* Mutated Envelope: an equal distortion for more tokens enters as well.   *)
LooseEnvelope(points) ==
  {i \in ByLength(points) :
     \A j \in ByLength(points) :
       points[j].tokens < points[i].tokens =>
         points[i].distortion <= points[j].distortion}

(* monotone_lower_envelope: scanned by length, a point enters when it is   *)
(* better than every shorter one.                                          *)
Envelope(points) ==
  {i \in ByLength(points) :
     \A j \in ByLength(points) :
       points[j].tokens < points[i].tokens =>
         points[i].distortion < points[j].distortion}

(* A frontier in the order of its lengths, in which it is returned.        *)
ByTokens(points, frontier) ==
  CHOOSE steps \in [1..Cardinality(frontier) -> frontier] :
    \A m, n \in DOMAIN steps : m < n => points[steps[m]].tokens < points[steps[n]].tokens

(* aurc: the area under the staircase that starts at distortion 1.0 and    *)
(* drops at each frontier point, over 0..normalizer; rounded to 1/Unit.    *)
Aurc(points, frontier, normalizer) ==
  LET n == Max({1, normalizer})
      Drop(curve, i) ==
        LET x == Max({curve.x, Min({n, points[i].tokens})})
        IN [x |-> x, distortion |-> points[i].distortion,
            area |-> curve.area + (x - curve.x) * curve.distortion]
      end == FoldLeft(Drop, [x |-> 0, distortion |-> Unit, area |-> 0],
                      ByTokens(points, frontier))
      area == end.area + (n - end.x) * end.distortion
  IN IF frontier = {} THEN Unit ELSE (2 * area + n) \div (2 * n)

(* frontierRank.                                                           *)
FrontierRank(points, i) ==
  Cardinality({j \in Envelope(points) : points[j].tokens <= points[i].tokens})

Hits(points, candidates, tau) ==
  {points[i].tokens : i \in {j \in candidates : points[j].fidelity >= tau}}

EclAtTau(points, frontier, tau) ==
  IF Hits(points, frontier, tau) = {} THEN NoEcl
  ELSE CHOOSE n \in Hits(points, frontier, tau) :
         \A m \in Hits(points, frontier, tau) : n <= m

ElicitAtK(points, tau, k) ==
  \E i \in Eligible(points) : points[i].tokens <= k /\ points[i].fidelity >= tau

(* sum.                                                                    *)
Total(values) == FoldLeft(+, 0, values)

(* summarize without its bootstrap interval: the rounded mean.             *)
MeanOf(values) == (2 * Total(values) + Len(values)) \div (2 * Len(values))
=============================================================================
