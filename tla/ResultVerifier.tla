--------------------------- MODULE ResultVerifier ---------------------------
(***************************************************************************)
(* The benchmark command, its manifest and the offline verifier: build a   *)
(* manifest (bench/engine/manifest.py), run, write the result, and let     *)
(* verify_artifacts (bench/engine/verify.py) read dataset, result and      *)
(* manifest while somebody edits them.                                     *)
(***************************************************************************)
EXTENDS FrozenLadder

CONSTANTS
  Datasets,   \* the datasets that may be frozen, or put in its place
  NoFile,     \* a file that is not there
  MaxEdits    \* bound: edits of the three artifacts

ASSUME DatasetAssumption ==
  \A items \in Datasets :
    /\ IsList(items) /\ items # NoFile
    /\ \A i \in DOMAIN items :
         /\ IsList(items[i].ladder) /\ items[i].ladder # <<>> /\ IsText(items[i].target)
         /\ items[i].metricClass \in MetricClasses
         /\ \A p \in DOMAIN items[i].ladder :
              IsText(items[i].ladder[p].text) /\ items[i].ladder[p].rung \in DOMAIN Profile

VARIABLES
  disk,     \* the content of each artifact
  version,  \* its stat: device, inode, size, times; every write changes it
  vpc,      \* the verifier's next step
  at,       \* the artifact it is at, an index of Order
  opened,   \* the version it opened
  read,     \* what the verifier read
  seen,     \* the version it read
  errors,   \* whether it found any
  snapshot, \* history: the disk when the last artifact had been read
  edits     \* edits so far

verifyVars == <<vpc, at, opened, read, seen, errors, snapshot>>
fileVars == <<disk, version, edits>>
vars == <<benchVars, verifyVars, fileVars>>

Artifacts == {"dataset", "result", "manifest"}
Order == <<"dataset", "result", "manifest">>

-----------------------------------------------------------------------------
(* build_manifest.                                                         *)

(* build_prompt_receipts: the prompts the gate stops, or lets through.     *)
PromptReceipts(items, gated) ==
  UNION {{[item |-> items[i].id, prompt |-> p, tokens |-> TokenCount(items[i].ladder[p].text)] :
            p \in {q \in DOMAIN items[i].ladder :
                    Gate(items[i].ladder[q], items[i]).disqualified = gated}} :
         i \in DOMAIN items}

(* Mutated HostedReruns: the models, not the reruns they ask for.          *)
HostedModels == Cardinality({m \in Range(Models) : EvidenceMode(m) # "mock"})

(* The requests for one prompt: each hosted model's reruns.                *)
HostedCalls ==
  UNION {{<<n, r>> : r \in 1..EffectiveReruns(Models[n])} :
           n \in {m \in DOMAIN Models : EvidenceMode(Models[m]) # "mock"}}
HostedReruns == Cardinality(HostedCalls)
AllReruns == Total([n \in DOMAIN Models |-> EffectiveReruns(Models[n])])

BenchManifest(items, environment) ==
  LET prompts == PromptReceipts(items, FALSE)
      gated == PromptReceipts(items, TRUE)
      retries == IF HostedReruns = 0 THEN 0 ELSE environment.retries
  IN [sealed |-> TRUE, itemCount |-> Len(items),
      models |-> [n \in DOMAIN Models |->
        [model |-> Models[n], evidenceMode |-> EvidenceMode(Models[n]),
         effectiveReruns |-> EffectiveReruns(Models[n]), status |-> "ready",
         identity |-> AdapterIdentity(Models[n], environment)]],
      prompts |-> prompts, gatedPrompts |-> gated,
      promptCount |-> Cardinality(prompts) + Cardinality(gated),
      estimatedGenerations |-> Cardinality(prompts) * AllReruns,
      hostedMaxRetries |-> retries,
      estimatedMaxHttpAttempts |-> Cardinality(prompts) * HostedReruns * (retries + 1)]

(* preflight: the same counts, taken without building the receipts; and    *)
(* whether the benchmark could start at all.                               *)
PreflightReport(items, environment) ==
  LET prompts == UNION {{<<i, p>> : p \in DOMAIN items[i].ladder} : i \in DOMAIN items}
      gated == {q \in prompts : Gate(items[q[1]].ladder[q[2]], items[q[1]]).disqualified}
      sendable == Cardinality(prompts) - Cardinality(gated)
  IN [ready |-> ~Refused(items) /\ Ready(environment),
      leakageByRung |-> [rung \in 0..3 |->
        Cardinality({q \in gated : items[q[1]].ladder[q[2]].rung = rung})],
      nonLeakingPromptCount |-> sendable,
      estimatedMaxHttpAttempts |-> sendable * HostedReruns * (environment.retries + 1)]

-----------------------------------------------------------------------------
(* verify_artifacts: the content.                                          *)

(* What the schema of a result says is a list, and the bounds of a score.  *)
Shaped(result) ==
  /\ IsList(result.models) /\ IsList(result.itemRuns)
  /\ \A n \in DOMAIN result.itemRuns :
       LET points == result.itemRuns[n].measurements
       IN /\ IsList(points)
          /\ \A p \in DOMAIN points :
               IsList(points[p].outputs) /\ points[p].fidelity \in 0..Unit

(* The first run of a pair, as runs_by_pair keeps it.                      *)
RunOf(result, model, item) ==
  result.itemRuns[SelectInSeq(result.itemRuns,
                    LAMBDA run : run.model = model /\ run.item = item.id)]

ResultModels(result) == {result.models[n].model : n \in DOMAIN result.models}
ItemIds(items) == {items[i].id : i \in DOMAIN items}

ItemTotal(rows) == Total([n \in DOMAIN rows |-> rows[n].itemCount])

(* The relations between the parts of a result, and with the dataset.      *)
ResultCovers(items, result) ==
  LET pairs == {<<result.itemRuns[n].model, result.itemRuns[n].item>> :
                  n \in DOMAIN result.itemRuns}
  IN /\ result.canary = items[1].canary
     /\ Len(result.itemRuns) = ItemTotal(result.models)
     /\ Cardinality(ResultModels(result)) = Len(result.models)
     /\ Cardinality(pairs) = Len(result.itemRuns)
     /\ pairs = ResultModels(result) \X ItemIds(items)
     /\ \A n \in DOMAIN result.models : result.models[n].itemCount = Len(items)
     /\ \A i \in DOMAIN items : \A m \in ResultModels(result) :
          DOMAIN RunOf(result, m, items[i]).measurements = DOMAIN items[i].ladder

(* Mutated Replayable: every model is held to the protocol's reruns.       *)
RerunsForAll(item, model, run) ==
  \A p \in DOMAIN item.ladder :
    LET row == run.measurements[p]
        count == IF item.ladder[p].leaky THEN 0 ELSE Reruns
    IN /\ Len(row.outputs) = count
       /\ Len(row.receipts) = IF EvidenceMode(model) = "mock" THEN 0 ELSE count
       /\ Range(row.receipts) \subseteq {"provider", "cache"}

(* What the receipts must be before they are replayed: as many outputs as  *)
(* the ladder's declaration asks for, one receipt for each hosted one.     *)
Replayable(item, model, run) ==
  \A p \in DOMAIN item.ladder :
    LET row == run.measurements[p]
        count == IF item.ladder[p].leaky THEN 0 ELSE EffectiveReruns(model)
    IN /\ Len(row.outputs) = count
       /\ Len(row.receipts) = IF EvidenceMode(model) = "mock" THEN 0 ELSE count
       /\ Range(row.receipts) \subseteq {"provider", "cache"}

(* RetainedOutputReplayAdapter: evaluate_item over the retained outputs.   *)
Replayed(item, model, run) ==
  LET Retained(p) ==
        LET row == run.measurements[p]
        IN [n \in DOMAIN row.outputs |->
              [text |-> row.outputs[n],
               source |-> IF EvidenceMode(model) = "mock" THEN "none" ELSE row.receipts[n]]]
  IN ItemRun(model, item,
       [p \in DOMAIN item.ladder |-> Measurement(model, item, p, Retained(p))])

ReplayRaises(item, run) ==
  \E p \in DOMAIN item.ladder : \E n \in DOMAIN run.measurements[p].outputs :
    FidelityRaises(item.target, run.measurements[p].outputs[n], item.metricClass)

(* Mutated ResultReplays: the summaries are checked, the rows are not.     *)
SummariesOnly(items, result) ==
  /\ result.scope = "canonical" /\ result.sealed
  /\ \A n \in DOMAIN result.models :
       LET row == result.models[n]
       IN row = ModelSummary(row.model, row.identity,
                  [i \in DOMAIN items |-> RunOf(result, row.model, items[i])])

(* _verify_v0_2_result_receipts.                                           *)
ResultReplays(items, result) ==
  /\ result.scope = "canonical"
  /\ result.itemCount = Len(items)
  /\ result.metricClasses = {items[i].metricClass : i \in DOMAIN items}
  /\ result.evidenceModes = {EvidenceMode(m) : m \in ResultModels(result)}
  /\ result.sealed
  /\ \A n \in DOMAIN result.models :
       LET row == result.models[n]
           Observed(i) == RunOf(result, row.model, items[i])
       IN /\ row.evidenceMode = EvidenceMode(row.model)
          /\ \A i \in DOMAIN items :
               /\ Replayable(items[i], row.model, Observed(i))
               /\ ~ReplayRaises(items[i], Observed(i))
               /\ Observed(i) = Replayed(items[i], row.model, Observed(i))
          /\ row = ModelSummary(row.model, row.identity, [i \in DOMAIN items |-> Observed(i)])

(* _verify_v0_2_manifest_receipts, and the counts of verify_artifacts.     *)
ManifestHolds(items, manifest) ==
  LET prompts == PromptReceipts(items, FALSE)
      gated == PromptReceipts(items, TRUE)
      rows == manifest.models
      hosted == [n \in DOMAIN rows |->
                  IF rows[n].evidenceMode = "mock" THEN 0 ELSE rows[n].effectiveReruns]
  IN /\ manifest.sealed
     /\ manifest.prompts = prompts /\ manifest.gatedPrompts = gated
     /\ manifest.itemCount = Len(items)
     /\ manifest.promptCount = Cardinality(prompts) + Cardinality(gated)
     /\ manifest.estimatedGenerations =
          Cardinality(prompts) * Total([n \in DOMAIN rows |-> rows[n].effectiveReruns])
     /\ manifest.estimatedMaxHttpAttempts =
          Cardinality(prompts) * Total(hosted) * (manifest.hostedMaxRetries + 1)
     /\ Cardinality({rows[n].model : n \in DOMAIN rows}) = Len(rows)
     /\ \A n \in DOMAIN rows :
          LET row == rows[n]
          IN /\ row.evidenceMode = EvidenceMode(row.model)
             /\ row.effectiveReruns = EffectiveReruns(row.model)
             /\ row.status = "ready"
             /\ row.evidenceMode = "black_box" =>
                  row.identity.retries = manifest.hostedMaxRetries

(* What result and manifest must share.                                    *)
Agree(result, manifest) ==
  LET Identities(rows) == {<<rows[n].model, rows[n].identity>> : n \in DOMAIN rows}
  IN Identities(result.models) = Identities(manifest.models)

Accepts(items, result, manifest) ==
  /\ items = dataset
  /\ Shaped(result)
  /\ ResultCovers(items, result)
  /\ ResultReplays(items, result)
  /\ ManifestHolds(items, manifest)
  /\ Agree(result, manifest)

-----------------------------------------------------------------------------
Init ==
  /\ BenchInit(Datasets, Environments)
  /\ disk = [a \in Artifacts |-> IF a = "dataset" THEN dataset ELSE NoFile]
  /\ version = [a \in Artifacts |-> 0]
  /\ vpc = "idle" /\ at = 1 /\ opened = 0
  /\ read = [a \in Artifacts |-> NoFile]
  /\ seen = [a \in Artifacts |-> 0]
  /\ errors = FALSE
  /\ snapshot = [a \in Artifacts |-> NoFile]
  /\ edits = 0

(* _safe_write_text, seen from a reader: a new file under the name.        *)
Put(a, content) ==
  /\ disk' = [disk EXCEPT ![a] = content]
  /\ version' = [version EXCEPT ![a] = @ + 1]

(* The manifest command, in its own environment, before the run.           *)
WriteManifest(environment) ==
  /\ phase = "load" /\ disk.manifest = NoFile
  /\ ~Refused(dataset) /\ Ready(environment)
  /\ Put("manifest", BenchManifest(dataset, environment))
  /\ UNCHANGED <<benchVars, verifyVars, edits>>

Bench ==
  /\ BenchNext
  /\ UNCHANGED <<verifyVars, fileVars>>

(* The run command's last step.                                            *)
WriteResult ==
  /\ phase = "done" /\ disk.result = NoFile
  /\ Put("result", BenchResult(dataset, env, runs))
  /\ UNCHANGED <<benchVars, verifyVars, edits>>

-----------------------------------------------------------------------------
(* Somebody edits an artifact, seals included; what was forged may be as   *)
(* consistent as a run.                                                    *)

RowEdits(row) ==
  {[row EXCEPT !.outputs = [n \in DOMAIN @ |-> a.text]] : a \in Answers}
    \cup {[row EXCEPT !.receipts = SubSeq(@, 2, Len(@))],
          [row EXCEPT !.receipts = [n \in DOMAIN @ |-> "cache"]],
          [row EXCEPT !.fidelity = Unit - @, !.distortion = Unit - @],
          [row EXCEPT !.disqualified = ~@]}

RunEdits(run) ==
  UNION {{[run EXCEPT !.measurements[p] = row] : row \in RowEdits(run.measurements[p])} :
           p \in DOMAIN run.measurements}
    \cup {[run EXCEPT !.metrics.aurc = 0], [run EXCEPT !.metrics.ecl = 1],
          [run EXCEPT !.sealed = FALSE]}

(* A result of the same run with other answers.                            *)
Forged(result, answer) ==
  LET Answered(run) ==
        LET item == CHOOSE item \in Range(dataset) : item.id = run.item
        IN Replayed(item, run.model,
             [run EXCEPT !.measurements = [p \in DOMAIN @ |->
               [@[p] EXCEPT !.outputs = [n \in DOMAIN @ |-> answer.text]]]])
  IN BenchResult(dataset, env, [n \in DOMAIN result.itemRuns |-> Answered(result.itemRuns[n])])

ResultEdits(result) ==
  {[result EXCEPT !.scope = "smoke"], [result EXCEPT !.sealed = FALSE],
   [result EXCEPT !.itemRuns = Tail(@)],
   [result EXCEPT !.itemRuns = Append(@, @[1])],
   [result EXCEPT !.models = Tail(@)],
   [result EXCEPT !.models[1].capture.provider = @ + 1],
   [result EXCEPT !.models[1].aurc = 0]}
    \cup {[result EXCEPT !.itemRuns[1] = run] : run \in RunEdits(result.itemRuns[1])}
    \cup {Forged(result, a) : a \in {b \in Answers :
            TextFits(b.text) /\ Len(result.itemRuns) = Len(runs)}}

ManifestEdits(manifest) ==
  {[manifest EXCEPT !.sealed = FALSE],
   [manifest EXCEPT !.estimatedMaxHttpAttempts = @ + 1],
   [manifest EXCEPT !.hostedMaxRetries = @ + 1],
   [manifest EXCEPT !.prompts = @ \cup manifest.gatedPrompts, !.gatedPrompts = {}],
   [manifest EXCEPT !.models[1].effectiveReruns = @ + 1]}

Edit ==
  /\ phase = "done" /\ vpc # "reported" /\ disk.manifest # NoFile
  /\ edits < MaxEdits
  /\ edits' = edits + 1
  /\ \/ \E other \in Datasets : Put("dataset", other)
     \/ disk.result # NoFile /\ \E other \in ResultEdits(disk.result) : Put("result", other)
     \/ \E other \in ManifestEdits(disk.manifest) : Put("manifest", other)
  /\ UNCHANGED <<benchVars, verifyVars>>

-----------------------------------------------------------------------------
(* verify_artifacts: the steps.                                            *)

Artifact == Order[at]

Advance(step) ==
  /\ at' = IF at = Len(Order) THEN 1 ELSE at + 1
  /\ vpc' = IF at = Len(Order) THEN step.after ELSE step.again

StartVerify ==
  /\ vpc = "idle" /\ phase = "done" /\ disk.result # NoFile
  /\ vpc' = "open"
  /\ UNCHANGED <<at, opened, read, seen, errors, snapshot, benchVars, fileVars>>

(* os.open, and the fstat before the first byte.                           *)
Open ==
  /\ vpc = "open"
  /\ opened' = version[Artifact]
  /\ vpc' = "read"
  /\ UNCHANGED <<at, read, seen, errors, snapshot, benchVars, fileVars>>

(* _read_regular_fd: the bytes, and the fstat after the last one.  An      *)
(* artifact that cannot be read is an error, and is not bound.             *)
Read ==
  /\ vpc = "read"
  /\ Advance([again |-> "open", after |-> "check"])
  /\ IF disk[Artifact] # NoFile /\ version[Artifact] = opened
     THEN /\ read' = [read EXCEPT ![Artifact] = disk[Artifact]]
          /\ seen' = [seen EXCEPT ![Artifact] = opened]
          /\ UNCHANGED errors
     ELSE errors' = TRUE /\ UNCHANGED <<read, seen>>
  /\ snapshot' = disk
  /\ UNCHANGED <<opened, benchVars, fileVars>>

Check ==
  /\ vpc = "check"
  /\ errors' = \/ errors
               \/ \E a \in Artifacts : read[a] = NoFile
               \/ ~Accepts(read.dataset, read.result, read.manifest)
  /\ vpc' = "recheck"
  /\ UNCHANGED <<at, opened, read, seen, snapshot, benchVars, fileVars>>

(* Mutated Recheck: the dataset, which nobody is expected to replace, is   *)
(* not looked at again.                                                    *)
RecheckOutputs ==
  /\ vpc = "recheck"
  /\ Advance([again |-> "recheck", after |-> "reported"])
  /\ errors' = \/ errors
               \/ /\ Artifact # "dataset" /\ read[Artifact] # NoFile
                  /\ version[Artifact] # seen[Artifact]
  /\ UNCHANGED <<opened, read, seen, snapshot, benchVars, fileVars>>

(* _recheck_dataset_binding and _recheck_file_binding.                     *)
Recheck ==
  /\ vpc = "recheck"
  /\ Advance([again |-> "recheck", after |-> "reported"])
  /\ errors' = (errors \/ (read[Artifact] # NoFile /\ version[Artifact] # seen[Artifact]))
  /\ UNCHANGED <<opened, read, seen, snapshot, benchVars, fileVars>>

VerifyStep == StartVerify \/ Open \/ Read \/ Check \/ Recheck

Next ==
  \/ \E environment \in Environments : WriteManifest(environment)
  \/ Bench \/ WriteResult \/ Edit \/ VerifyStep

Spec == Init /\ [][Next]_vars
=============================================================================
