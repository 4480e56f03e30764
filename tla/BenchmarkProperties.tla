------------------------- MODULE BenchmarkProperties -------------------------
(***************************************************************************)
(* What the benchmark command and its verifier promise, against reference  *)
(* definitions of the scorer, of the gate and of the metrics that share    *)
(* nothing with the dynamic programs and scans of the code.                *)
(***************************************************************************)
EXTENDS ResultVerifier

-----------------------------------------------------------------------------
(* Reference definitions.                                                  *)

(* k places of m, in order; the most that two sequences agree on.          *)
Rising(k, m) == {f \in [1..k -> 1..m] : \A p, q \in 1..k : p < q => f[p] < f[q]}
Matches(a, f, b, g) == \A n \in DOMAIN f : a[f[n]] = b[g[n]]
RefLcs(a, b) ==
  Max({k \in 0..Len(a) :
         \E f \in Rising(k, Len(a)), g \in Rising(k, Len(b)) : Matches(a, f, b, g)})

(* The longest run of one that is a run of the other.                      *)
RefSpan(a, b) == Max({Len(s) : s \in SubSeqs(a) \cap SubSeqs(b)})

(* The least number of insertions, deletions and replacements: what an     *)
(* alignment leaves out of its pairs, and the pairs that differ.           *)
Differ(a, f, b, g, k) == Cardinality({n \in 1..k : a[f[n]] # b[g[n]]})
RefDistance(a, b) ==
  Min(UNION {{Len(a) + Len(b) - 2 * k + Differ(a, f, b, g, k) :
                f \in Rising(k, Len(a)), g \in Rising(k, Len(b))} : k \in 0..Len(a)})

(* Where a run of n elements of a stands in a sequence.                    *)
Places(g, a) == {i \in DOMAIN a : i + Len(g) - 1 \in DOMAIN a /\ SubSeq(a, i, i + Len(g) - 1) = g}
Grams(a, n) == {s \in SubSeqs(a) : Len(s) = n}
RefOverlap(a, b, n) ==
  Cardinality({p \in Grams(a, n) \X (1..Len(a)) :
                 /\ p[2] <= Cardinality(Places(p[1], a))
                 /\ p[2] <= Cardinality(Places(p[1], b))})

RefReaches(prompt, target, bound) ==
  /\ prompt # <<>> /\ target # <<>>
  /\ \/ RefLcs(prompt, target) * bound.lcs[2] >= bound.lcs[1] * Len(target)
     \/ /\ Len(target) >= 3
        /\ RefOverlap(target, prompt, 3) * bound.recall[2]
             >= bound.recall[1] * (Len(target) - 2)
     \/ RefSpan(prompt, target) >= bound.span

RefLeaks(prompt, target) ==
  \/ \E i \in DOMAIN prompt : prompt[i] \in Bidi \cup Compat
  \/ RefReaches(LexicalUnits(prompt), LexicalUnits(target), Thresholds.units)
  \/ RefReaches(Skeleton(prompt), Skeleton(target), Thresholds.skeleton)

(* The prompts of a dataset that give their target away.                   *)
LeaksOf ==
  [items \in Datasets |->
    UNION {{<<i, p>> : p \in {q \in DOMAIN items[i].ladder :
                                RefLeaks(items[i].ladder[q].text, items[i].target)}} :
           i \in DOMAIN items}]
Leaks == {<<dataset[leak[1]].id, leak[2]>> : leak \in LeaksOf[dataset]}

(* The best a budget of n tokens buys, and what follows from it.           *)
Affordable(points, leaks, n) ==
  {p \in DOMAIN points : p \notin leaks /\ points[p].tokens <= n}
BestDistortion(points, leaks, n) ==
  Min({Unit} \cup {points[p].distortion : p \in Affordable(points, leaks, n)})
RefArea(points, leaks, n) ==
  MapThenSumSet(LAMBDA x : BestDistortion(points, leaks, x), 0..n - 1)
Reaching(points, leaks, n) ==
  \E p \in Affordable(points, leaks, n) : points[p].fidelity >= Tau

Longest(points) == Max({points[p].tokens : p \in DOMAIN points})

(* The points that are best at their length and better than any shorter.   *)
FrontierIsBest(points, leaks, frontier) ==
  frontier =
    {p \in Affordable(points, leaks, Longest(points)) :
       /\ points[p].distortion = BestDistortion(points, leaks, points[p].tokens)
       /\ \A q \in Affordable(points, leaks, points[p].tokens) \ {p} :
            points[q].distortion = points[p].distortion =>
              points[q].tokens = points[p].tokens /\ p < q}

(* The least budget that reaches tau, if any does.                         *)
EclIsLeast(points, leaks, ecl) ==
  IF ecl = NoEcl THEN ~Reaching(points, leaks, Longest(points))
  ELSE Reaching(points, leaks, ecl) /\ ~Reaching(points, leaks, ecl - 1)

(* A run's frontier, ECL and Elicit say what its own measurements say, and *)
(* so does the area under its staircase.                                   *)
RefFrontier(item, leaks, run) ==
  LET points == run.measurements
  IN /\ DOMAIN points = DOMAIN item.ladder
     /\ FrontierIsBest(points, leaks, run.frontier)
     /\ EclIsLeast(points, leaks, run.metrics.ecl)
     /\ run.metrics.elicit <=> Reaching(points, leaks, K)
RefAurc(item, leaks, run) ==
  LET points == run.measurements
      n == Max({1, TokenCount(item.target), points[1].tokens})
  IN /\ 2 * RefArea(points, leaks, n) - n <= 2 * n * run.metrics.aurc
     /\ 2 * n * run.metrics.aurc <= 2 * RefArea(points, leaks, n) + n

-----------------------------------------------------------------------------
(* The dynamic programs of the scorer compute, on all short sequences, what*)
(* their names say; both channels of the gate read the same characters.    *)
ShortTexts == BoundedSeq({1, 2}, 4)
ExactOn(texts) ==
  \A a, b \in texts :
    /\ LcsLength(a, b) = RefLcs(a, b)
    /\ LongestCommonSpan(a, b) = RefSpan(a, b)
    /\ \A n \in {2, 3} : Overlap(Ngrams(a, n), Ngrams(b, n)) = RefOverlap(a, b, n)
    /\ BagCardinality(Ngrams(a, 3)) = Max({0, Len(a) - 2})
Characters == DOMAIN Compatible
Concatenated(units) == FoldLeft(LAMBDA text, unit : text \o unit, <<>>, units)
Algorithms ==
  /\ ExactOn(ShortTexts)
  /\ \A a, b \in ShortTexts : Levenshtein(a, b) = RefDistance(a, b)
  /\ \A text \in BoundedSeq(Characters, 3) :
       /\ Concatenated(LexicalUnits(text)) = Skeleton(text)
       /\ <<>> \notin Range(LexicalUnits(text))
       /\ Collapsed(Collapsed(text)) = Collapsed(text)
ScorersMatchReference == phase = "load" => Algorithms

(* No prompt that gives its target away, disguised or not, reaches a       *)
(* hosted model, whatever the dataset's author declared of it.             *)
LeaksAreNeverSent == sent \cap Leaks = {}

(* The staircase, ECL and Elicit of every finished item, and of every item *)
(* of a result that the verifier accepts, are those of its measurements:   *)
(* what each budget can buy without a leaking prompt.                      *)
Verified == vpc = "reported" /\ ~errors
ItemOf(run) == CHOOSE i \in DOMAIN dataset : dataset[i].id = run.item
LeaksIn(item) == {leak[2] : leak \in {l \in LeaksOf[dataset] : l[1] = item}}
FrontierMatches(run) == RefFrontier(dataset[ItemOf(run)], LeaksIn(ItemOf(run)), run)
ItemMetrics(run) ==
  FrontierMatches(run) /\ RefAurc(dataset[ItemOf(run)], LeaksIn(ItemOf(run)), run)
MetricsMatchReference ==
  /\ ladder = <<>> /\ runs # <<>> /\ disk.result = NoFile => ItemMetrics(Last(runs))
  /\ Verified => \A run \in Range(read.result.itemRuns) : ItemMetrics(run)

PlannedHere ==
  /\ edits = 0 /\ disk.manifest # NoFile
  /\ \A n \in DOMAIN Models : disk.manifest.models[n].identity = AdapterIdentity(Models[n], env)

(* A run never makes more HTTP attempts than the preflight of its own      *)
(* environment announced, nor than a manifest made there, also when it     *)
(* fails; and it starts only where the preflight says that it can.         *)
CallsWithinBudget ==
  /\ PlannedHere => attempts <= disk.manifest.estimatedMaxHttpAttempts
  /\ phase \in {"done", "failed"} /\ disk.result = NoFile =>
       LET report == PreflightReport(dataset, env)
       IN /\ sent # {} => report.ready
          /\ report.ready => attempts <= report.estimatedMaxHttpAttempts
          /\ PlannedHere => Cardinality(disk.manifest.prompts) = report.nonLeakingPromptCount

(* The verifier accepts what the command wrote, when nobody edited it and  *)
(* the manifest was made in the environment of the run.                    *)
HonestRunVerifies ==
  PlannedHere /\ vpc = "reported" => ~errors

(* What the verifier accepts, forged or not, is a complete run of the      *)
(* frozen dataset by the models of the manifest, each in the configuration *)
(* announced: no output to a leaking prompt, all reruns of every other     *)
(* one, and every fidelity that of the retained outputs.                   *)
VerifiedIsScored ==
  Verified =>
    /\ read.dataset = dataset
    /\ \A n \in DOMAIN read.manifest.models :
         LET announced == read.manifest.models[n]
         IN /\ \E r \in DOMAIN read.result.models :
                 /\ read.result.models[r].model = announced.model
                 /\ read.result.models[r].identity = announced.identity
            /\ \A i \in DOMAIN dataset : \E run \in Range(read.result.itemRuns) :
                 /\ run.model = announced.model /\ run.item = dataset[i].id
                 /\ \A p \in DOMAIN dataset[i].ladder :
                      LET row == run.measurements[p]
                      IN IF <<i, p>> \in LeaksOf[dataset]
                         THEN row.outputs = <<>> /\ row.fidelity = 0
                         ELSE /\ Len(row.outputs) = EffectiveReruns(announced.model)
                              /\ row.fidelity = MeanOf([o \in DOMAIN row.outputs |->
                                   Fidelity(dataset[i].target, row.outputs[o],
                                            dataset[i].metricClass)])

(* The dataset, the result and the manifest that a clean report is about   *)
(* were on the disk together, at the moment the last of them was read.     *)
VerifiedCoexisted == Verified => read = snapshot
=============================================================================
