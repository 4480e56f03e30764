---------------------------- MODULE FrozenLadder ----------------------------
(***************************************************************************)
(* The frozen-ladder benchmark, run_benchmark and evaluate_item of         *)
(* bench/engine/frozen_ladder.py: every model answers every prompt of      *)
(* every item that the leakage gate lets through, the answers are scored,  *)
(* and the item's metrics are taken over its prompts.  A dataset is a      *)
(* sequence of items, an item's ladder a sequence of prompts.              *)
(***************************************************************************)
EXTENDS LadderMetrics

CONSTANTS
  Alnum,       \* the characters of TOKEN_RE
  Thresholds,  \* DEFAULT_LEAKAGE_THRESHOLDS
  Tau, K,      \* DEFAULT_TAU (in 1/Unit) and DEFAULT_K
  Reruns,      \* DEFAULT_RERUNS
  Models,      \* the sorted canonical model IDs of the run, a sequence
  Profile,     \* MockAdapter's fidelity of a rung, in 1/1000
  Answers,     \* what a hosted generate may return: [text, source, attempts]
  Environments \* hosted configurations: [ready, deployment, retries]

ASSUME LadderAssumption ==
  /\ ThresholdsValid(Thresholds)
  /\ \A bound \in {Thresholds.units, Thresholds.skeleton} :
       bound.lcs[1] > 0 /\ bound.recall[1] > 0
  /\ IsList(Models) /\ Models # <<>> /\ IsInjective(Models)
  /\ Tau \in 0..Unit /\ K \in Nat \ {0} /\ Reruns \in Nat \ {0}
  /\ \A a \in Answers :
       IsText(a.text) /\ a.source \in {"provider", "cache"} /\ a.attempts \in Nat
  /\ \A rung \in DOMAIN Profile : Profile[rung] \in 0..1000
  /\ \A e \in Environments : e.retries \in Nat

VARIABLES
  dataset,  \* the frozen dataset
  env,      \* the environment of the run
  phase,    \* where the command is
  runs,     \* finished item runs
  ladder,   \* measurements of the current item
  cleared,  \* the gate let the current prompt through
  outs,     \* answers to the current prompt
  attempts, \* history: HTTP attempts of this run
  sent      \* history: <<item, prompt>> pairs that reached a hosted model

benchVars == <<dataset, env, phase, runs, ladder, cleared, outs, attempts, sent>>

(* normalize_model_id and the adapter's reruns(): only hosted models rerun.*)
EvidenceMode(model) == IF model = "mock" THEN "mock" ELSE "black_box"
EffectiveReruns(model) == IF EvidenceMode(model) = "mock" THEN 1 ELSE Reruns

(* evidence_identity: fixed for a mock, the configuration for a hosted one.*)
AdapterIdentity(model, environment) ==
  IF EvidenceMode(model) = "mock" THEN [deployment |-> "mock", retries |-> 0]
  ELSE [deployment |-> environment.deployment, retries |-> environment.retries]

(* model_readiness: a hosted model needs its environment.                  *)
Ready(environment) ==
  environment.ready \/ \A n \in DOMAIN Models : EvidenceMode(Models[n]) = "mock"

TokenCount(text) ==
  Cardinality({i \in DOMAIN text :
                 text[i] \in Alnum /\ (i = 1 \/ text[i - 1] \notin Alnum)})

Gate(prompt, item) == EvaluateLeakage(prompt.text, item.target, Thresholds)

-----------------------------------------------------------------------------
(* load_items: the dataset is refused unless the gate judges every prompt  *)
(* as its author declared, and no target is empty to the gate.             *)

Refused(items) ==
  \/ items = <<>>
  \/ ~IsInjective([i \in DOMAIN items |-> items[i].id])
  \/ Cardinality({items[i].canary : i \in DOMAIN items}) # 1
  \/ \E i \in DOMAIN items :
       \/ FailClosedReason(items[i].target) # "none"
       \/ Skeleton(items[i].target) = <<>>
       \/ \E p \in DOMAIN items[i].ladder :
            LET prompt == items[i].ladder[p]
            IN \/ LeakageRaises(prompt.text, items[i].target)
               \/ Gate(prompt, items[i]).disqualified # prompt.leaky

-----------------------------------------------------------------------------
(* One prompt, one item, one model: what evaluate_item and                 *)
(* summarize_model_runs return.                                            *)

(* A hosted model leaves a receipt of each answer, a mock none.            *)
Receipts(model, answers) ==
  IF EvidenceMode(model) = "mock" THEN <<>>
  ELSE [n \in DOMAIN answers |-> answers[n].source]

(* A gated prompt has no outputs and fidelity 0.                           *)
Measurement(model, item, p, answers) ==
  LET prompt == item.ladder[p]
      gate == Gate(prompt, item)
      fit == IF gate.disqualified THEN 0
             ELSE MeanOf([n \in DOMAIN answers |->
                    Fidelity(item.target, answers[n].text, item.metricClass)])
  IN [tokens |-> TokenCount(prompt.text), disqualified |-> gate.disqualified,
      leakage |-> LeakageScore(gate, Thresholds),
      outputs |-> [n \in DOMAIN answers |-> answers[n].text],
      receipts |-> Receipts(model, answers),
      fidelity |-> fit, distortion |-> Unit - fit]

ItemRun(model, item, points) ==
  LET frontier == Envelope(points)
      explicit == Max({TokenCount(item.ladder[1].text), TokenCount(item.target), 1})
      hits == Cardinality({p \in DOMAIN points : points[p].disqualified})
  IN [model |-> model, item |-> item.id, sealed |-> TRUE,
      measurements |-> points, frontier |-> frontier,
      selected |-> IF frontier = {} THEN 1
                   ELSE CHOOSE p \in frontier : FrontierRank(points, p) = 1,
      metrics |-> [aurc |-> Aurc(points, frontier, explicit),
                   ecl |-> EclAtTau(points, frontier, Tau),
                   elicit |-> ElicitAtK(points, Tau, K),
                   leakageHitRate |-> Rounded(hits, Len(points))]]

(* responseCapture: how many responses, and where they came from.          *)
ResponseCapture(model, itemRuns) ==
  LET Count(row, source) ==
        Cardinality({r \in DOMAIN row.receipts : row.receipts[r] = source})
      From(source) ==
        Total([n \in DOMAIN itemRuns |->
          LET rows == itemRuns[n].measurements
          IN Total([p \in DOMAIN rows |-> Count(rows[p], source)])])
  IN IF EvidenceMode(model) = "mock" THEN [responses |-> 0, provider |-> 0, cache |-> 0]
     ELSE [responses |-> From("provider") + From("cache"),
           provider |-> From("provider"), cache |-> From("cache")]

ModelSummary(model, environment, itemRuns) ==
  LET Each(metric(_)) == [n \in DOMAIN itemRuns |-> metric(itemRuns[n].metrics)]
      ecls == SelectSeq(Each(LAMBDA m : m.ecl), LAMBDA e : e # NoEcl)
  IN [model |-> model, evidenceMode |-> EvidenceMode(model),
      itemCount |-> Len(itemRuns),
      aurc |-> MeanOf(Each(LAMBDA m : m.aurc)),
      ecl |-> IF ecls = <<>> THEN NoEcl ELSE MeanOf([n \in DOMAIN ecls |-> ecls[n] * Unit]),
      coverage |-> Rounded(Len(ecls), Len(itemRuns)),
      elicit |-> MeanOf(Each(LAMBDA m : IF m.elicit THEN Unit ELSE 0)),
      leakageHitRate |-> MeanOf(Each(LAMBDA m : m.leakageHitRate)),
      identity |-> AdapterIdentity(model, environment),
      capture |-> ResponseCapture(model, itemRuns)]

(* The item runs of one model after those of the other, in its summary the *)
(* model's own.                                                            *)
BenchResult(items, environment, itemRuns) ==
  [scope |-> "canonical", itemCount |-> Len(items), sealed |-> TRUE,
   metricClasses |-> {items[i].metricClass : i \in DOMAIN items},
   canary |-> items[1].canary,
   evidenceModes |-> {EvidenceMode(m) : m \in Range(Models)},
   models |-> [n \in DOMAIN Models |->
     ModelSummary(Models[n], environment,
       SubSeq(itemRuns, (n - 1) * Len(items) + 1, n * Len(items)))],
   itemRuns |-> itemRuns]

-----------------------------------------------------------------------------
(* run_benchmark, one model after the other, one item after the other.     *)

Model == Models[(Len(runs) \div Len(dataset)) + 1]
Item == dataset[(Len(runs) % Len(dataset)) + 1]
Prompt == Len(ladder) + 1
AtPrompt == phase = "run" /\ Prompt \in DOMAIN Item.ladder
Hosted == EvidenceMode(Model) = "black_box"

BenchInit(datasets, environments) ==
  /\ dataset \in datasets
  /\ env \in environments
  /\ phase = "load"
  /\ runs = <<>> /\ ladder = <<>> /\ cleared = FALSE /\ outs = <<>>
  /\ attempts = 0 /\ sent = {}

Load ==
  /\ phase = "load"
  /\ phase' = IF Refused(dataset) \/ ~Ready(env) THEN "failed" ELSE "run"
  /\ UNCHANGED <<dataset, env, runs, ladder, cleared, outs, attempts, sent>>

Record(answers) ==
  /\ ladder' = Append(ladder, Measurement(Model, Item, Prompt, answers))
  /\ outs' = <<>> /\ cleared' = FALSE

Gatekeep ==
  /\ AtPrompt /\ ~cleared
  /\ IF Gate(Item.ladder[Prompt], Item).disqualified
     THEN Record(<<>>)
     ELSE cleared' = TRUE /\ UNCHANGED <<ladder, outs>>
  /\ UNCHANGED <<dataset, env, phase, runs, attempts, sent>>

(* MockAdapter.generate: the target cut to a share that depends on rung    *)
(* and on a hash of the request (wobble), its trailing spaces removed.     *)
MockOutput(item, rung, wobble) ==
  LET share == Max({0, Min({1000, Profile[rung] + wobble})})
      kept == SubSeq(item.target, 1, (2 * Len(item.target) * share + 1000) \div 2000)
      end == SelectLastInSeq(kept, LAMBDA c : c \notin Space)
  IN IF rung = 0 \/ share >= 985 THEN item.target ELSE SubSeq(kept, 1, end)

GenerateMock(wobble) ==
  /\ AtPrompt /\ cleared /\ ~Hosted
  /\ Len(outs) < EffectiveReruns(Model)
  /\ outs' = Append(outs, [text |-> MockOutput(Item, Item.ladder[Prompt].rung, wobble),
                          source |-> "none"])
  /\ UNCHANGED <<dataset, env, phase, runs, ladder, cleared, attempts, sent>>

(* The hosted adapter, through the response cache: a cached answer costs   *)
(* no attempt, a provided one up to one more than the retries allowed.     *)
GenerateHosted(answer) ==
  /\ AtPrompt /\ cleared /\ Hosted
  /\ Len(outs) < EffectiveReruns(Model)
  /\ answer.attempts <= env.retries + 1
  /\ outs' = Append(outs, [text |-> answer.text, source |-> answer.source])
  /\ attempts' = attempts + answer.attempts
  /\ sent' = sent \cup {<<Item.id, Prompt>>}
  /\ UNCHANGED <<dataset, env, phase, runs, ladder, cleared>>

(* A refused or exhausted request: the exception ends the run, which       *)
(* writes no result.                                                       *)
GenerateFails(tries) ==
  /\ AtPrompt /\ cleared /\ Hosted
  /\ Len(outs) < EffectiveReruns(Model)
  /\ attempts' = attempts + tries
  /\ sent' = sent \cup {<<Item.id, Prompt>>}
  /\ phase' = "failed"
  /\ UNCHANGED <<dataset, env, runs, ladder, cleared, outs>>

(* The scorer raises on a text beyond its limits, after it was paid for.   *)
Score ==
  /\ AtPrompt /\ cleared
  /\ Len(outs) = EffectiveReruns(Model)
  /\ IF \E n \in DOMAIN outs : FidelityRaises(Item.target, outs[n].text, Item.metricClass)
     THEN phase' = "failed" /\ UNCHANGED <<ladder, cleared, outs>>
     ELSE Record(outs) /\ UNCHANGED phase
  /\ UNCHANGED <<dataset, env, runs, attempts, sent>>

FinishItem ==
  /\ phase = "run" /\ Prompt \notin DOMAIN Item.ladder
  /\ runs' = Append(runs, ItemRun(Model, Item, ladder))
  /\ ladder' = <<>>
  /\ phase' = IF Len(runs) + 1 = Len(Models) * Len(dataset) THEN "done" ELSE "run"
  /\ UNCHANGED <<dataset, env, cleared, outs, attempts, sent>>

BenchNext ==
  \/ Load \/ Gatekeep \/ Score \/ FinishItem
  \/ \E tries \in 1..env.retries + 1 : GenerateFails(tries)
  \/ \E wobble \in {-4, 4} : GenerateMock(wobble)
  \/ \E answer \in Answers : GenerateHosted(answer)
=============================================================================
