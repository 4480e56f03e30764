# Formal model of aleph-benchmark

TLA+ modules, TLC configurations and TLAPS proofs for aleph-benchmark: the
commands that spend money or quota at Kaggle, the task that runs there and
spends it, the readers that later decide what was bought, the response cache
behind hosted models, the benchmark with its scorer and its offline verifier,
and the commands that publish files and packages. Paths below are relative to
the repository.

## 1. Inventory

| Component | State | Operations | Talks to |
|---|---|---|---|
| one-shot run (`bench/engine/kaggle_run_once.py`) | journal file, journal dict in memory, observations | preflight, paid `schedule_run`, reconciliation | Kaggle; journal file; evidence reader |
| one-shot push (`bench/engine/kaggle_push_once.py`) | journal file and dict | preflight of the latest version, `create_task` | Kaggle; journal file |
| capture task (rendered by `bench/tasks/kaggle/generate_v0_2_capture.py`) | checkpoint file, `rows`, `active` | preflight, one chat and one prompt per planned call, checkpoint after each step | hosted model; checkpoint file |
| capture verifier (`kaggle_capture.py`, `kaggle_capture_evidence.py`) | none | verify a checkpoint, bind it to a run, accept a run journal | files of the three above |
| deployment diagnostic (`generate_v0_2_diagnostic.py`, `kaggle_diagnostic_receipt.py`) | receipt file | as the capture task, older protocol | hosted model |
| creation output (`kaggle_creation_output.py`) | the answers it was given | task, paged runs, download, gate, review | Kaggle; evidence bundle |
| evidence bundle (`kaggle_capture_evidence.py`, `kaggle_creation_output.py`) | exclusive output files | write, roll back | files |
| response cache and hosted adapter (`response_cache.py`, `adapters/hosted_black_box.py`) | records and locks in a directory, retry counter | lookup, provider request with retries, record | provider; other processes on the same cache |
| frozen ladder benchmark (`frozen_ladder.py`, `preflight.py`, `manifest.py`) | outputs so far | gate, requests, reruns, item runs, summaries | adapters; dataset |
| scoring and metrics (`scoring_core.py`, `metrics.py`) | none | normalise, compare, leakage gate, frontier, AURC, ECL | – |
| result verification (`verify.py`, `adapters/replay.py`) | read artifacts and their stats | read, check, replay, recheck | dataset, manifest, result |
| runner (`bench/run.py`) | output file | inspect, replace, restore mode | files |
| package publisher (`platform_package_v0_2.py`) | staged directory | collect, stage, self-check, rename, clean up | files |
| portable strings, source import gate, platform mock | none / static data | audits, tables | – |

What is hard in this code is not one function but what may happen between two
of its lines: a process or machine crash around a paid call, an acknowledgement
that never arrives or contradicts the truth, a listing that lags, two people at
one journal path, a checkpoint that a later reader judges with code of its own,
a file that is edited while it is verified, a directory that is swapped while a
command publishes into it. `PROJECT.json` lists each such hazard at its line
with the properties that cover it.

What makes each modelled component correct:

* run: one paid call per journal path, behind a journal that survives every
  crash; verdicts ("not_scheduled", "reconciled") that are true and durable; a
  reconciled journal that the evidence reader accepts, with one exception
  (section 5); the command ends if its calls of the client do.
* push: the same barrier; "returned" names the version the call created;
  reported outcomes are durable.
* capture task: a crash or interrupt at any step leaves a checkpoint that the
  reader accepts and that accounts for each paid call; published rows are not
  rewritten; nothing unclean reaches assembly.
* diagnostic task: the receipt verifies, accounts for the paid calls, and asks
  for a review wherever the process ends before a call could be repeated.
* creation output: the metadata speaks of the one run that the creation
  triggered, and what it says of the gate and of the review is true.
* bundles: the file that vouches for the others is true whoever works on the
  run; a failed command leaves nothing; nobody removes what another retained.
* response cache: requests repeated only for a failure, a kill or a crash; one
  answer per request whoever asks; every run ends.
* benchmark: no prompt that gives its answer away is sent; scores and metrics
  are the ones their definitions say; announced budgets hold.
* verifier: it accepts what an honest run wrote, and what it accepts is a
  complete, rightly scored run whose three artifacts stood together.
* publishing: what stands under a public name is whole; what returned survives
  a crash; a standing package is not replaced, and an entry of somebody else not
  deleted that the command can still see; a failure cleans up, or what its
  cleanup could not remove stays without a public name; a package is made of
  sources that stood together. Section 3 says where the code cannot promise it.

## 2. Modules

| Module | Models | Notes |
|---|---|---|
| `DispatchBarrier` | abstract promise of both one-shot commands | arm, send once, at most one effect |
| `JournalStore` | `_write_initial_journal`, `_replace_journal`, `_fsync_parent_directory` | visible content `disk` and crash images `image` of a file; also used for checkpoint and cache records, which make the same system calls |
| `JournalCatalog` | `_dispatch_journal_catalog_record` and the check of observations | the reader of run journals |
| `RunOnce`, `MCRunOnce` | `run_once` and `schedule_and_reconcile_once` | extends the two modules above; Kaggle is external |
| `PushOnce`, `MCPushOnce` | `preflight_and_dispatch_once`, `dispatch_create_once` | extends `JournalStore`; Kaggle is external |
| `CaptureVerifier` | `verify_capture_payload`, platform binding | written from the reader |
| `CaptureTask` | `run_capture_canary` | written from the writer; composed with `CaptureVerifier` and `JournalStore` |
| `DiagnosticReceipt` | `verify_kaggle_diagnostic_receipt`, `_requires_manual_review` | written from the reader |
| `DiagnosticTask` | `run_deployment_diagnostic` | written from the writer; composed with `DiagnosticReceipt` and `JournalStore` |
| `CreationOutput` | `kaggle_creation_output.py` up to the bundle | extends `DiagnosticTask`: Kaggle runs the task while the operator reads |
| `EvidenceBundle`, `MCEvidenceBundle` | `write_capture_evidence_bundle`, `write_creation_bundle`, `_write_exclusive` | both functions in one module: `kind` says which, as their files have different names |
| `ResponseCache` | `ResponseCacheAdapter.generate` around `_post_chat_completion` | any number of runs over one cache |
| `ScoringCore` | `scoring_core.py`: normalisation, edit distance, LCS, common span, n-grams, fidelity, leakage gate | dynamic programs as folds over rows, as in the code |
| `LadderMetrics` | `metrics.py`: frontier, staircase, AURC, ECL, Elicit | numbers in 1/`Unit`, as the code rounds them |
| `FrozenLadder` | `load_items`, `run_benchmark`, `evaluate_item`, adapters, readiness | extends the two above; one step per answer |
| `ResultVerifier` | manifest, preflight, result, `verify_artifacts`, replay | extends `FrozenLadder`; somebody edits the files between the steps |
| `BenchmarkProperties`, `MCBenchmark` | reference definitions and properties; TLC instance | the references share nothing with the code's algorithms |
| `OutputParent` | the directory both publishing commands hold open, and who else works there | names, inodes, crash images |
| `OutputFile` | `_safe_write_text` of `bench/run.py` | extends `OutputParent` |
| `PackagePublish` | `write_v0_2_package`, `check_v0_2_package` | extends `OutputParent` |
| `Publication`, `MCPublication` | the two commands side by side, and their properties; TLC instance | composes the two above |
| `RunOnceProofs`, `PushOnceProofs`, `CaptureTaskProofs`, `CreationOutputProofs`, `EvidenceBundleProofs`, `ResponseCacheProofs`, `BenchmarkProofs`, `PublicationProofs` | theorems | section 4 |

How state and actions correspond to the code:

* A process is a program counter (`pc`) plus the locals that survive from one
  step to the next. Every system call that changes a file, and every call to
  Kaggle or to a provider, is a step of its own, because a crash can fall
  between any two; `open`, the write-and-sync of a new file, `os.replace` and
  the directory sync are four separate steps.
* `image[p]` is the set of contents that path `p` may have after power loss.
  File data is durable once the file is synced and an entry once its directory
  is; a directory sync leaves one content. `FreshParent` holds the paths whose
  directory `mkdir(parents=True)` has to create: the entry of the new directory
  is in its own parent, which nothing syncs, so "no file" stays possible.
* Journals, checkpoints and observations are records of the fields that decide
  something. Identities, digests, times other than the capture task's, quotas
  and messages are left out; failure fields say whether they are set.
* A model's output is a string or not one; a subclass of `str`, which the task
  would keep and the reader's exact type check would see as plain JSON, is not
  told apart. Token usage counts as absent or valid, invalid, or near the cap.
* In `EvidenceBundle` an interrupt may fall between a system call and the
  instruction that records it, or into a handler; `unrecorded` and `cut` keep
  which invocations lost track of a file and which were ended before their
  cleanup was. Everything verified before the first write is one step.
* Kaggle may create a run at any time after a request, answer late, wrongly or
  never, list a subset of the runs, and take requests of other people. For the
  creation output it lists the creation's run once the creation is terminal,
  pages may move under the reader and tokens repeat, and a run whose process
  did not return is in error. The operator stops after one retained bundle.
* A text is a sequence over a small alphabet whose characters stand for the
  classes that the code treats apart: white space, combining marks, ignorable
  and bidirectional characters, wide letters, letters that fold to others,
  compatibility forms, pairs that compose to one. The tables are constants. A
  normal form maps each character and then composes pairs from the left; CRLF
  and CR become LF first, as in the code.
* A benchmark's hosted answers, the cache and the HTTP attempts behind an
  answer are inputs there; `ResponseCache` has their protocol.
* The verifier reads by descriptor and compares `stat` before and after; a
  version per artifact stands for the `stat`, and every write raises it.
* In `OutputParent` a command's inode bears the command's name. Path walks are
  one step (`StillThere`), as they only compare; the two looks at the output
  and the rename are separate steps, and so are, in a cleanup, the look at the
  random name and its removal. Every call may raise, those of the cleanup too:
  a command that raised is "raised" after a whole cleanup and "uncleaned" after
  one that failed. `os.replace` overwrites what somebody put there after the
  second look, a directory's holder is synced only by the command that made it,
  and the package command does not sync its parent after the rename: the model
  has all three.
* The source files of a package are read one by one, in the order of the code,
  and read again for the self-check; somebody may edit them in between, also
  back to what they were. A package holds what was read, and the dataset is
  accepted in one version only. The generated `README.md` artifact, which has
  no source file, is left out.
* "Mutated ..." definitions are wrong variants of the operator below them, kept
  to show that each property notices such a bug; no specification uses them.

## 3. Runs

Where a run has a type invariant, it is the property `TypeOK` or the first
conjunct of one of its properties.

| Run | Bounds | Shows | Properties |
|---|---|---|---|
| `run_once` | 2 operators on one path, 2 runs, 2 models, 2 attempts, 2 starts each, 1 machine crash | safety of the run command and refinement of `DispatchBarrier` | `TypeOK`, `AtMostOneCall`, `BarrierDurable`, `SkippedMeansUnpaid`, `ReconciledIsEvidence`, `SuccessIsDurable`, `JournalOnlyAdvances`, `ImplementsBarrier` |
| `run_once_live` | 2 operators on one path, 1 start each, 1 run, 3 attempts, 1 machine crash | every command ends if its calls of the Kaggle client return or raise | `CommandEnds` |
| `run_once_fresh_parent` | as `run_once`, the directory is new | violation: second paid call (section 5) | `AtMostOneCall` |
| `run_once_foreign` | 1 operator and a foreign run | violation: somebody else's run is bound (section 5) | `BindsItsOwnRun` |
| `push_once` | 2 operators, 2 paths, 2 versions, 1 crash | safety of the push command and the same refinement | `ReturnedNamesItsVersion`, `OutcomeIsDurable`, `ImplementsBarrier` |
| `capture_task` | plan of 3 calls, 3 clock ticks, 1 crash | checkpoints, accounting, assembly, rows that only grow | `CheckpointsVerify`, `CallsAreAccounted`, `AssemblyIsClean`, `RowsOnlyGrow` |
| `diagnostic_task` | plan of 3 calls, 1 crash, 2 foreign runs, pages of one run | receipts of the task, composed with the download of its output: the metadata is true | `ReceiptsVerify`, `ReviewBeforeRerun`, `CallsAreAccounted`, `MetadataIsTrue` |
| `diagnostic_task_crash` | 2 calls, 1 crash | violation: a receipt from before the paid call survives (section 5) | `ReviewSurvivesCrash` |
| `evidence_bundle` | 2 commands on one run, 2 invocations each | truth, permanence and cleanup of bundles | `EvidenceIsTrue`, `RetainedStays`, `FailureLeavesNothing` |
| `response_cache` | 2 runs of 2 requests, 1 retry, 2 starts each, 1 crash | accounting, one answer, termination | `PaidCallsAccounted`, `OneAnswerPerRequest`, `RunEnds` |
| `benchmark` | 1 mock and 1 hosted model, 4 datasets (2 of them refused), 3 environments, 3 answers, 1 edit | scorer and metrics against references, gate, budgets, both directions of the verifier | `ScorersMatchReference`, `LeaksAreNeverSent`, `MetricsMatchReference`, `CallsWithinBudget`, `HonestRunVerifies`, `VerifiedIsScored`, `VerifiedCoexisted` |
| `publication` | 2 commands at a time of 2 writers and 2 publishers, 2 directories, 1 intervention; or 1 publisher alone beside 6 edits of 2 source files | whole, durable, clean and exact publication | `PublishedIsWhole`, `SuccessSurvives`, `ModeKept`, `FailureCleansUp`, `PackageCoexisted`, `CheckIsExact`, `OthersAreLeftAlone` |

Why these bounds are enough to be interesting. Two operators are what a race
for one path needs, and `MaxStarts = 2` lets a command be repeated after every
outcome. Two runs let the difference of two listings be empty, the command's
own run, a foreign run, or both; a second model makes the mismatch possible.
Two attempts let a failed or empty observation come before the decisive one.
One machine crash may fall before or after every step, and the commands may be
started again after it. A plan of three calls has a first, a middle and a last
call. Two commands invoked twice give a race, and a retry after every way a
first invocation can end. Two requests let a resumed run hit one record and
miss the next. Pages of one run with three runs and three pages reach the
limit, a page that moves, and a repeated token. One edit at any moment is what
separates two reads; a forged result may be as consistent as a run. The
algorithms are compared with their references on all sequences up to length 4
over two symbols, and the normalisation on all texts up to length 3 over the
whole alphabet. One intervention may fall between any two steps of two commands
that publish. Six edits let two source files, the dataset and a schema, change
and change back between and after the two times that each is read; edits beside
a single publisher are enough, as commands share nothing but the files they
read. Bounds are constants named `Max...`, `Together`, `Beside`, `Editable` or
`EditCost` and guards of the environment only, except that `RequestCount`, `PlanLength`,
`Attempts`, `MaxRetries`, `MaxListed`, `MaxPages`, `MaxText`, `MaxNormalized`
and `MaxCells` are parameters of the code itself, like `SampleCount`. Symmetry
is used in safety runs only.

`CHECK_DEADLOCK FALSE`: commands, tasks and runs end, and no bound is a wait of
the code.

What is excused, and why. Each exception is what the code cannot or does not
exclude.

* `ModeKept`: a second writer that read the mode of an output after the rename
  of a first one and before its `fchmod` (`window`), also when the first one
  died or failed there.
* `SuccessSurvives`: a parent directory that another command made and has not
  synced, because it has yet to, was killed or could not (`maker`). A writer
  syncs the holder of a directory only if it made the directory, so that an
  output reported as written may be lost with a directory left behind by a
  command that failed.
* `OthersAreLeftAlone`: an entry that was put under a random name after the
  command had looked at the name for the last time (`late`; section 5). There
  is no `unlink` on condition of the inode, as the comment at
  `platform_package_v0_2.py:917` says.
* `FailureCleansUp`: a temporary entry whose cleanup failed. `run.py:365`
  swallows the error of a cleanup in favour of the first one, the package
  command reports it. The property then asks that it has no public name.
* `PackageCoexisted`: a source file that was edited after it was read and edited
  back before it was read again (`restored`). The self-check compares bytes.
* `EvidenceIsTrue`: an invocation interrupted between a write and its record.
* `OneAnswerPerRequest` is stated up to the first machine crash: the cache does
  not sync its directory.
* `ReconciledIsEvidence`: a run that Kaggle scheduled with a reason (section 5).
* `HonestRunVerifies` is about a manifest made in the environment of the run.

Fairness. `RunOnce!FairSpec` has weak fairness of every operator's own steps
(`OwnStep`): the writes, replacements and syncs of the journal and the sending
of the request, which the operating system lets finish. No call of the Kaggle
client has a timeout, neither `schedule_run` nor the reads of the task, model,
runs and quota before and after it, so none of the steps that wait for one
(`ClientStep`) is assumed to be fair. `CommandEnds` has it as a hypothesis, for
each command by itself: if its calls return or raise, it ends, whatever they
return and whatever the other commands wait for. `ResponseCache!Spec` has weak
fairness of each worker's steps: every attempt has a timeout and `flock` wakes
a waiter. A waiter needs no strong fairness because a finished run never asks
for the same key again. Nothing is assumed of Kaggle, of operators, or of
crashes. The other specifications have no fairness and no liveness.

## 4. Proofs

Each theorem holds for every value of the constants that satisfies the named
assumptions of its modules. Two of these recur. `FileAssumption` says that "no
file" is not itself a payload, a receipt or the content of a file.
`FreshParent = {}`, where a theorem has it as a hypothesis, is the case in which
every journal's directory existed before: the run `run_once_fresh_parent` shows
what goes wrong otherwise.

`RunOnceProofs`, for every number of operators, paths, runs, models, attempts,
starts and crashes:

* `TypeCorrect`, and with `FreshParent = {}` `AtMostOneCallProved`,
  `BarrierDurableProved` and the refinement `BarrierImplemented`
  (`ImplementsBarrier`).
* The verdicts. `ReconciledIsEvidenceProved`, in both directions (accepted
  without a reason, refused with one), and the action property
  `JournalOnlyAdvancesProved` need no assumption: what the reader accepts and
  in which order a journal is written does not depend on what a crash leaves.
  `SkippedMeansUnpaidProved` and `SuccessIsDurableProved` need
  `FreshParent = {}`.

`AtMostOneCall` alone is not inductive: it says nothing of an operator that is
about to call. The inductive invariant ties, for each path, the operators that
are past the exclusive creation to the file. At most one of them owns a path.
As long as an owner is between creation and the call, the path was not called
before, and no crash image beyond "no file" and the owner's own writes is
possible. When it reaches the call, every image blocks a retry. Once the call
is sent, every image keeps blocking, and everything an operator will still
write under that path is at least "dispatching". Requests in flight and the
runs they paid for add up to at most one per called path, which gives the
effects of the refinement. The verdicts follow from what an owner's local
journal must say at each step, and from what each image, once written by an
owner, says of the runs that Kaggle has. The proof has one step per action of
`Next`.

`PushOnceProofs`, for every number of operators, paths, versions and crashes:
`TypeCorrect`; `ReturnedNamesItsVersionProved`, whatever others create and
whatever Kaggle answers; `BarrierImplemented` and `OutcomeIsDurableProved` with
`FreshParent = {}`. The argument is that of `RunOnce` with one more fact: the
answer in flight and the version in a journal, where they name one, are in the
set of versions which that path's call created.

`CaptureTaskProofs`, for every plan length, number of clock ticks and crashes:
`TypeCorrect`, `CheckpointsVerifyProved`, `CallsAreAccountedProved`,
`AssemblyIsCleanProved` and the action property `RowsOnlyGrowProved`. The
invariant says what the rows, the active call and their times look like
(`LocalsInv`), how many rows there are and how good they are at each program
counter (`PlaceInv`), that outside of a publish the file holds the rows and the
active call as they are, in every crash image, and that during one the rows on
disk can only have grown (`FileInv`); that no paid call follows a bad one
(`OrderInv`); and of every checkpoint that may be found, on disk, in a crash
image or about to be written, that the reader accepts it and that it accounts
for every call (`CheckpointInv`). The reader's code is not the writer's: the
proof shows the two agreeing on checkpoints of any length, where the run has
three calls.

`CreationOutputProofs`, for every plan length, number of crashes, foreign runs,
page size and limit of pages: `TypeCorrect` of the diagnostic task by itself,
and of its composition with the download `ReceiptsVerifyProved`,
`ReviewBeforeRerunProved`, `CallsAreAccountedProved` and `MetadataIsTrueProved`.
`TaskInv` is about the task: where it is determines how many calls there were
and that those behind it had no flaw (`LocalsInv`, `OrderInv`), and as long as
no machine crashed the receipt on disk covers every call handed to `llm.prompt`
(`ReceiptInv`). `OutputInv` adds that the creation's run is the oldest of
Kaggle's list and the only one with its identity, and is over before the
creation is (`RunsInv`); that the operator gets past the list only with an
answer that holds this run in its last state, so that a single match for the
version is this run, whatever moved between two pages (`OperatorInv`); and that
the metadata is true (`MetaInv`). A crash that loses a receipt also ends the run
in error, which is why the download then asks for a review.

`EvidenceBundleProofs`, for every number of writers and invocations:
`TypeCorrect`, `EvidenceIsTrueProved`, `RetainedStaysProved`,
`FailureLeavesNothingProved`. For each writer the invariant says which files of
the bundle are its own: what it has written stands, as it wrote it, under the
names it tracks, unless an interrupt made it lose track; numbers of invocations
never come back. Exclusive creation then does the rest: a name that one
invocation holds is not written, hence not removed, by another.

`ResponseCacheProofs` proves `PaidCallsAccounted` and `OneAnswerPerRequest`
(`PaidCallsAccountedProved`, `OneAnswerProved`) for every number of runs,
requests, retries, starts and crashes. The invariant is what the entry lock is
for: a worker between lock and release holds the entry it is at, hence at most
one worker pays for a key; while one does, the entry has no record; a crash can
take a record away and never bring back another. The sum of the account then
changes by one on both sides in every step. The crash counts the workers that
pay for a key, of which the lock allows one.

`BenchmarkProofs`, for all alphabets, models, datasets, environments, thresholds
and answers: every property of its run. Its assumptions: `CharacterAssumption`,
every form of a character is a text of the same alphabet, to which the
composites and the characters of a newline belong; `LadderAssumption`,
there are models to run, no two of one name (`run_benchmark` raises otherwise),
an answer is a text, the mock's profile is in 0..1000, retries and reruns are
natural numbers, `k` and reruns positive, and the thresholds valid ratios and
positive, as the defaults are; `DatasetAssumption`, an item has texts, a ladder
that is not empty, rungs of the profile and a metric class of the schema (a
frozen dataset is validated against it before it is used); `MetricsAssumption`,
the unit is positive and "no ECL" is not a number.

* `VerifiedCoexistedProved`, for every number of edits: the double collect.
  Versions never come back, so an artifact whose version is still the one that
  was read holds what was read. When the last artifact is read, all those that
  later pass the recheck have not changed since they were read, so at that
  moment all three stood together. The proof needs no type of what an artifact
  holds.
* `CallsWithinBudgetProved`. The code counts in three places: the manifest by
  its receipts, the preflight by the prompts minus the gated ones, and the run
  by what it does. The proof counts one set, the pairs of a sendable prompt and
  a hosted call (`Plan`). The receipts are as many as the sendable prompts
  because no two items of an accepted dataset share a name, and the preflight's
  difference is the same number. The requests that the command is done with
  (`Made`) follow from where it stands, a division of the number of item runs
  by the number of items; each answer adds exactly one, the position after the
  last prompt of the last item is the first of the next model, and so attempts
  stay at most `|Made| * (retries + 1)`, and at most `|Plan| * (retries + 1)`
  also when the last request failed. A manifest of another environment is tied
  to this one by the identity of a hosted model; without a hosted model nothing
  is paid.
* The scorer, for lists of any length. `ScorerIsExact`: each row of the LCS
  table holds the references of the prefixes (`LcsRowOf`), a row of the span
  table the longest common ends, and a bag of n-grams counts the places of each
  gram, so that an overlap of bags counts pairs of a gram and a place.
  `DistanceIsExact` is the same argument for alignments, where the cheapest
  alignment of two prefixes extends that of a shorter pair. `UnitsFacts`: what
  the word splitter has emitted and holds back is, at each character, what the
  skeleton has kept. `CollapsedOnce`: a collapsed text has no white space but
  single blanks inside. `ScorersMatchReferenceProved` is the instance that the
  run evaluates.
* `LeaksAreNeverSentProved`. What was sent had passed the gate of its own item,
  and the gate stops whatever the reference definitions call a leak: a control
  or compatibility character anywhere, or a threshold of either channel, whose
  texts are lists, on which the scorer is exact.
* `VerifiedIsScoredProved`: whatever was edited or forged, a clean report's
  result has for each model of the manifest and each item a run whose rows are
  what the verifier's own replay makes of the retained outputs. `VerdictInv`
  carries what the check accepted to the report. The proof needs nothing of
  where a result came from but that it has the shape of its schema (`Shaped`),
  and both directions of the gate: it stops nothing but leaks, either, because
  the default thresholds are positive.
* `MetricsMatchReferenceProved`, with `VerifiedFrontiersProved` for its half
  about accepted results. For any ladder, `FrontierOfLadder` and `EclOfLadder`
  show that the code's scan by length keeps exactly the points that are best at
  their length, better than every shorter one and first among equals, and that
  the frontier is enough to find the least budget that reaches tau: whatever an
  eligible point offers, a point of the frontier offers for no more tokens
  (`FrontierCovers`). The area that the staircase has collected at a step is the
  sum of the best distortions up to there, and rounding moves it by at most
  half a unit. A result has as many runs as pairs, so no run of a pair hides
  behind the one that the verifier replays; its scores are in the bounds of the
  schema. For the command's own runs, `MeasuredInvariant` says from which
  answers each row was measured, and every metric class of the scorer returns a
  share of the unit (`ShareBounded` and what it rests on).
* `HonestRunVerifiesProved` compares two programs over one dataset. The writer
  counts by loops over models and items, the verifier by pairs, sets and names;
  `WholeRun` says that the item runs are those of each model and item at their
  place (`At`), from which follow the counts, the pairs and that the run the
  verifier finds under a name is the one at that place (`WholeRunFound`). Each
  row is measured again from the outputs and receipts it retains
  (`RowReplays`), each summary again from the model's own runs (`OwnRuns`), and
  the verifier's sum over the manifest's rows is the number of hosted calls
  (`HostedTotal`). `HonestInv` carries it to the report: while nobody edits,
  what is read is what is on the disk, the command writes nothing while the
  verifier reads, and no error arises. The manifest of the same environment is
  needed: another one announces other identities, and is rightly refused.

The prover has no induction over data, as its library's theorems take an
operator as a parameter; these proofs do it with sets. `UpTo` is induction over
0..n for a set of numbers, `LastOfSet` and `SmallSets` what is needed to unfold
the folds of the community modules, which are recursive functions over finite
sets: each fold is first described as a sequence of rows (`LcsRows`,
`EditRows`, `SumRows`, ...), and the rest is `UpTo` over its rows.

`PublicationProofs`, for every number of commands side by side, directories,
interventions and crashes, and for every set of versions and number of edits of
the source files beside any of these commands: every property of its run, with
the exceptions that section 3 lists.

* `PublishedIsWholeProved`. A random name stands for nothing, for the command's
  own inode, or for what somebody else put there; an inode has no public name
  before its command is past the sync; a command that may rename has a whole and
  synced inode; so whatever gets a public name is whole, and a crash, which
  spoils unsynced inodes only, leaves it so.
* `OthersAreLeftAloneProved`, an action property. A command that is about to
  remove a name either still holds its own inode there, or is in `late`, because
  only an intervention after its last look can have put another there.
* `FailureCleansUpProved`: a random name is held only while its command is at
  work or by one whose cleanup failed, which never renamed anything; and what a
  package command has put under its staging directory is known at each of its
  steps.
* `SuccessSurvivesProved`: an output that once was renamed into place stays
  there in every image once its directory is synced, which is the command's
  last step. Its path may lead nowhere only while there is a `maker`, which is a
  writer that stands right after its `mkdir`, died or raised there, and hence is
  not the one that returned.
* `ModeKeptProved`: the mode travels from the output that was inspected to the
  new inode, unless a command looked in between, which `window` records.
* `PackageCoexistedProved`: when the first reading has ended, either what it
  found stands in the repository at that moment, or some file has changed since
  it was read. From then on such a file stays changed until it is read again,
  and then differs from what was read first, unless it was edited back in
  between, which `restored` records. The self-check passes only if nothing
  differs.
* `CheckedIsExpected` is about the checker alone: whatever entries, modes, link
  counts and contents a tree has, it is accepted only if it is the tree the
  sources ask for, without a bound on how it differs. `CheckIsExactProved` is
  what the run checks of it, with the converse: the staged tree is accepted.

Assumptions: writers and publishers are different commands, and the inodes of
others are not theirs (`ParentAssumption`); versions are positive numbers, one
of them that of the frozen dataset, and what is edited are source files
(`SourceAssumption`).

Only model-checked: liveness (`CommandEnds`, `RunEnds`), because fairness needs
ENABLED, which is out of the prover's reach. Every invariant and every action
property that a passing run checks is proved.

## 5. Findings

* `run_once_fresh_parent`. When the journal's directory does not exist yet,
  `_write_initial_journal` creates it but syncs only `path.parent`, not the
  directory that holds its entry. A machine crash after the paid call may take
  the directory away, and the next command on that path pays again, which the
  comment above `_fsync_parent_directory` sets out to exclude. `bench/run.py`
  syncs the holder of each directory it creates, and `SuccessSurvives` checks
  it, with the exception of section 3.
* `run_once_foreign`. Reconciliation binds any single new run of the requested
  model; while a request made no run at all, one that somebody else scheduled
  for the same version is bound as "its unique run ID". The journal still tells
  that the response was missing, and nothing the client can read distinguishes
  the two runs.
* `diagnostic_task_crash`. `_write_receipt` replaces the receipt but does not
  sync its directory, so power loss may leave the receipt published before the
  call was dispatched. It verifies and `_requires_manual_review` says that
  nothing could be duplicated. The capture task, written later, does sync. The
  download asks for a review of every run that Kaggle does not call completed,
  and so `MetadataIsTrue` holds in spite of it.

A disagreement that has no run of its own, because `ReconciledIsEvidence` states
it exactly: `_schedule_response_record` (`kaggle_run_once.py:298-306`) takes an
answer that says the run is scheduled and gives a reason for skipping it. The
command goes on, binds the run, writes "reconciled" and exits with 0. The
evidence reader (`kaggle_capture_evidence.py:482-494`) refuses every journal
whose response carries a reason, although its option asks for the "exact
reconciled kaggle_run_once journal for a scheduled run" (line 1172). The run is
paid for and recorded, but its journal cannot be promoted. The property says
that this is the only reconciled journal that is refused.

Another one, which `OthersAreLeftAlone` excepts: the comment of
`_safe_write_text` (`bench/run.py:276`) says "without following or deleting
untrusted entries", but an entry put under the random name between the look at
line 353 and the `unlink` at line 364 is deleted. The package command has the
same gap before its `rmdir`, and its comment names it.

Not findings, as nothing in the repository promises otherwise. A writer that
fails between `mkdir` and the sync of the holder leaves a directory that no
later command syncs, and their outputs may go with it in a machine crash. A
source file edited back between the two times it is read lets a package hold
files that never stood together. An interrupt between the write of the creation
metadata and `written.append` takes the archive and the receipt back and leaves
the metadata. `EvidenceIsTrue` excuses exactly such an invocation. An output edited after the second look is
overwritten without notice, and a published package may vanish with a machine
crash, as its parent is not synced.

## 6. Not modelled

* Portable string semantics and its generator: tables of Unicode properties and
  algorithms over single code points; `ScoringCore` takes what they say of a
  character as constants.
* Source import gate: a sequential, read-only audit of a source tree.
* Platform mock: a frozen predecessor and its recorded evidence.
* The generators that render the two tasks: text, without state. The tasks they
  render are modelled.
* Of `verify.py`: the optional audit and bundle files, of the JSON schemas all
  but which parts of a result are lists and the bounds of a score (`Shaped`), the
  report's rendering. Of the scorer: Unicode tables, formatting and the
  descriptive statistics.
* Pure input validation (URLs, slugs, schemas, file permissions), rendering,
  digests and wording, in all components. The capture task's clock is taken to
  be monotone. Machine crashes are left out of `EvidenceBundle`: the writers
  sync files but not their directory and claim nothing, and the verifier reads
  and hashes every file.

## 7. Plan

1. `RunOnce`, `PushOnce`, `CaptureTask`, `DiagnosticTask` with
   `CreationOutput`, `EvidenceBundle`: every safety property of their runs is
   proved.
2. `ResponseCache`: every safety property is proved; termination is
   model-checked.
3. `Publication`: every property of its run is proved.
4. The benchmark: every property of its run is proved.

What is left is liveness, which stays with the runs, and the parts that section
6 lists as not modelled.
