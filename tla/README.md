# A verification project for token-prediction

`token-prediction` records the events of an LLM agent run, replays them into
causal features and after-the-fact labels, trains estimators on them, and
evaluates a frozen selection once on a permanent holdout. Most of it is
straight-line data processing. What is hard is where two computations must agree
although they see different parts of a trajectory, and where files must stay
consistent although processes are killed and restarted. That is what the modules
here describe; TLC checks them on small instances, TLAPS proves the central
invariants for every instance.

## Inventory

Paths are under `src/src/token_prediction/` unless they start with `scripts/`.

| Component | State it keeps | Operations | Talks to | What makes it correct |
|---|---|---|---|---|
| Contracts (`contracts.py`) | none (frozen values) | construct and validate events, usage, capabilities | everything | absent is never zero |
| Event store (`recording/store.py`) | append-only SQLite table | append, replay | collectors write, replay reads | events of a trajectory in `event_seq` order |
| Collectors (`collection/*`) | parser state per source file | convert a source log into canonical events | event store, trajectory | the emitted trajectory validates; usage is not counted twice |
| Trajectory (`trajectory.py`) | validator tables | validate one event list | reducer, labels | calls are contiguous, attempts end once |
| Reducer (`features/reducer.py`) | `FeatureState` | apply one event, snapshot | prediction points | features are functions of the prefix and agree with the labels |
| Labels (`dataset/labels.py`) | none | ledgers, task, call and generation labels | dataset builder | each token is counted once; missing is never zero |
| Points, lifecycle (`dataset/points.py`, `dataset/lifecycle.py`, `lifecycle.py`) | a session's pending transition | observe, predict, advance | estimators | observe and predict alternate; spend is exact or unknown |
| Sequential estimators (`estimators/deduct.py`, `estimators/cross_position_deduct.py`) | the carried forecast | open, observe, predict | lifecycle driver | a forecast is carried by exactly the visible operands |
| Online shadow (`online_shadow.py`, `telemetry.py`) | driver plus sink | observe a live event, emit telemetry | collectors, estimators | a number names one forecast, in visibility order |
| Splits and cross-fitting (`dataset/splits.py`, `crossfit.py`) | none | plan folds and holdout, fit out of fold | estimators | no task is in its own training fold |
| Estimators, bundles (`estimators/*`) | fitted parameters | fit, predict, save, load | checkpoints | a resumed fit equals an uninterrupted one |
| Checkpoints (`checkpoint.py`, `experiment.py`) | files per candidate, fold and epoch | save, load, resume, clear | estimators, runner | a stale file is never taken for a current one |
| Lineage (`lineage.py`) | artifact directories with a manifest | publish, verify | every stage | a manifest describes the files it is next to |
| Evaluation (`evaluation/*`) | none | metrics, calibration, comparison, budget | experiment runner | quantile and coverage arithmetic at the boundary |
| Retrieval, final ensemble (`retrieval.py`, `final_ensemble.py`) | indices, member sets | build, query, combine | final evaluation | members come from the frozen selection |
| One-time final run (`scripts/run_stage4_final.py`) | lock, tombstone, ledger, cell checkpoints, artifact | run, resume, refuse | lineage, ensembles | one run, one artifact, no scored cell opened again |
| Matrices, config, CLI, other scripts | none | enumerate candidates, parse arguments, audit, download, report | all | configuration and I/O |

What is hard to test, each at its line, is the `hazards` list of `PROJECT.json`.

## Modules

```
Contracts --+-- Trajectory -- Labels --+
            |                          +-- TokenAccounting -- TokenAccountingProofs
            +-- FeatureState ----------+         |
                VisibleSpend (INSTANCE) ---------+      MCTokenAccounting

InductionTheorems -- TokenAccountingProofs, LifecycleSessionProofs, CrossfitProofs

HoldoutPromise (INSTANCE) -- FinalHoldout -- FinalHoldoutProofs, MCFinalHoldout

EarlyStopping --+-- EpochCheckpoints -- EpochCheckpointsProofs, MCEpochCheckpoints
                +-- TrainingPromise (INSTANCE)

VisibleSpend --+-- LifecycleSession -- LifecycleSessionProofs, MCLifecycleSession
               SessionPromise (INSTANCE)

ArtifactLineage -- RunPublication -- RunPublicationProofs, MCRunPublication
                   ArtifactPromise (INSTANCE)

Labels (above) -- CollectedLog --+-- SwebenchLog -------+
                                 +-- SokobanLog --------+
                                 +-- OpenHandsLog ------+-- Collection -- CollectionProofs,
                                     OpenHandsArchive --+                 MCCollection
                                           EventStore --+

TaskFolds -- Crossfit -- CrossfitProofs, MCCrossfit
```

**Contracts** holds what the event side shares: a provider's usage report and a
label value. `None` is a model value outside `Nat`, so adding a missing count is
an evaluation error and not a zero. `Observed` keeps the code's rule that a
negative label is invalid.

**Trajectory** is `validate_trajectory` turned inside out: one action per event
type, whose guard is the conjunction of the validator's checks for that type, and
`Refuse` for the error. Its variables are the validator's tables; a call's
terminals are kept in order with their usage. Event ids and sequence numbers are
left out because the model appends one event at a time.

**FeatureState** is the reducer: one operator per event type of
`FeatureState.apply`, with the Python fields grouped by what moves them.

**Labels** is the label ledger, written as functions of the validator's tables.

**VisibleSpend** is the arithmetic between two prediction points.

**TokenAccounting** composes them: each event is applied to the validator and to
the reducer in one step, a request leaves the prediction point taken there, and
the properties compare the prefix with the whole.

**FinalHoldout** is the one-time evaluation. A process is always between two file
operations; `Crash` is its death, or an exception, at any of them. A version
stands for the run id, which hashes the tagged commit and its code.
**HoldoutPromise** is its abstract specification.

**EpochCheckpoints** is one candidate of an experiment: `ExperimentRunner.run`
looks for a published result, fits fold after fold, saves every epoch as a
generation in `fits/<key>/fold-NN`, and publishes the candidate. A runner's `pc`
is the file operation it does next, so `Crash` can fall between any two. A
generation is the record of what a fit is: epoch, optimizer steps embodied in the
weights, best epoch, stale epochs, history. Training is deterministic once model,
optimizer and RNG are restored, so the validation loss is a function of the steps
(`loss`, chosen in `Init`, so every curve is explored). `publish_artifact` and
`verify_artifact` are one step each. Temporary and obsolete directories have no
`epoch-` name, nobody lists them, and they are not kept.
**EarlyStopping** says what a fit must be as a property of the whole loss curve,
without the loop's counters; the loop is compared with it.
**TrainingPromise** is the abstract specification: folds trained in order, each to
its stopping epoch, no epoch lost or repeated, then one publication.

**LifecycleSession** is one online session: the shadow, its driver and a seeded
session, `CrossPositionDeductSession` or `GRUResidualSession` with its residual.
`ReachBoundary` is the agent run producing the next request; `ObserveBoundary(i)`
is one call of `observe_boundary` with any visible boundary, so callers that skip,
repeat or reorder are included. The code is sequential, so a call is one step, but
every exception is an outcome of its own (`RefuseBoundary`, `PredictFails`,
`CalibratorFails`, a sink that raises), which leaves behind exactly what had been
stored before it. The point forecast stands for the three quantiles.
**SessionPromise** is the abstract turn order.

**ArtifactLineage** is `publish_artifact` and `verify_artifact`, one file-system
step at a time: three walks of a tree, two hashings between them, then the
manifest, its rename and the marker. A directory entry is its content and the
stamp a metadata snapshot shows; a silent write changes the first and not the
second. **RunPublication** is what a run does around them: bind the inputs, read the
source, look for an existing artifact, train (one step), write, recheck, publish
and, for a stage runner, move its temporary directory into place. `mode` says
whether the runs are stage runners (staged) or the configured pipeline, which
works in the output directory itself. `EditPayload`, `ChangeInputs` and `Crash` are
what others do. **ArtifactPromise** is the abstract specification of one output
directory: absent, then an artifact that never changes.

**CollectedLog** is what every reader of a preserved log shares: the list of
canonical events it has made and the validator it hands them to, which is
**Trajectory** itself. **SwebenchLog**, **SokobanLog** and **OpenHandsLog** are the
readers, one action per message, turn or completion; the content of the log is
chosen as it is read. **OpenHandsArchive** is the pass over an archive that comes
before **OpenHandsLog**: an action per member, by kind, and the end of a run, where
its tasks are yielded and its tables dropped. Each yielded task carries the
positions of the members it rests on, so that the properties can say where
evidence went; the reader itself keeps what the members say.
**EventStore** is the SQLite store under concurrent replays: the sequence check and
the insert are two steps, and a file that was collected again under the same name
is another version of the same trajectory. **Collection** composes them: a log is
read (from an archive: the archive to the task the log is about, then that task),
validated, written by the readers' caller to a canonical file, and replayed.

**TaskFolds** holds the operators of `splits.py`: groups large enough to be
balanced, the greedy choice of a fold and both partitions. Which of several
equally good folds a task gets, and the order of tasks that weigh the same, is a
hash in the code and a free choice here. **Crossfit** is one candidate under
cross-validation: folds are assigned, every check that can refuse the run is made,
and a model is the set of tasks it has seen. A cohort names the groups of the whole
dataset, one per condition, position and target and any number of them, all of which
are balanced together (`_development_balance_groups`); two of them, `Own`, hold the
labels of the candidate. The code plans the inner folds of all
outer folds before the first fit, whatever the candidate; the model draws those of a
fold when the fold begins, because they depend on nothing in between.

Operators marked "Mutant" are variants of the definition below them with a
plausible bug in it. No specification uses them; they are there to show that the
property named with them in `PROJECT.json` would notice.

## What the runs check

| Run | Instance | Shows |
|---|---|---|
| `ledger` | 2 calls x 2 attempts, 3 usages in the first and 2 in the second, local count known or not, 1 checkpoint; or 5 calls x 1 attempt, 2 usages, 1 tool event (`Shape`) | the reducer is on the validator's call; closed outputs are labels; missing usage hides only its own transitions; the mechanical update is exact; finished tasks are uncensored; past, generated and remaining output add up; earlier labels are final; the three-call window after it has started to slide; the error-round counter |
| `final` | 2 process slots, 2 versions, 3 cells, 3 crashes, weak fairness | one run owns the holdout, evaluations are accounted for, labels are guarded; `HoldoutPromise` is implemented; the lock is released; an uncrashed run is published |
| `final_once` | 2 slots, 1 version, 2 cells, 1 crash | violation: a cell can be evaluated twice (see Findings) |
| `resume` | 1 runner, 2 folds, 3 epochs, patience 2, 2 losses, 2 crashes, weak fairness | a lone runner never raises; `TrainingPromise` is implemented; a run that is not killed publishes, also from a fit that had already stopped |
| `resume_shared` | 2 runners, 1 fold, 3 epochs, patience 1, 1 crash | generations on disk are true and resuming leaves no trace, also when two runners delete each other's generations |
| `session` | 3 boundaries, 5 kinds of round, 3 residuals, both selections, model, calibrator and sink failures | implements `SessionPromise`; the carried forecast is the clamped walk of the visible spend; only failures break step, finally; the sink's numbers are true |
| `publish` | 1 run with 2 interferences, or 2 racing runs with 1; 2 payload files; staged or in place; weak fairness | what a verified manifest says was true at the second and third walk; an artifact names the source it was computed from; staged artifacts appear whole and never change (`ArtifactPromise`); one appears if nobody interferes |
| `publish_in_place` | 2 pipeline runs, nobody interferes | violation: a published artifact is rewritten (see Findings) |
| `collect` | logs of up to 3 calls and 3 tools, rollouts of up to 2 turns, archives of up to 5 members of 2 runs and 2 tasks; 2 replaying processes x 2 replays, 2 file versions | reader and ledger agree on the total; only late tool results are refused; every tool ends once; an archive's evidence stays with its run and task, and only a split run repeats a task; the store holds the beginning of one file; a replay is refused at its first event or never |
| `collect_missing` | rollouts only | violation: missing usage counts as zero (see Findings) |
| `archive` | archives of up to 4 members only | violation: a task of a run is yielded twice (see Findings) |
| `crossfit` | 8 tasks, 6 outer and 3 inner folds, 4 cohorts of up to 3 groups | nothing is predicted by what has seen it; a planned run is refused only when a label of its own is too rare; there is always a plan for two groups, and none only if a label is too rare or a third group crowds them |

Bounds. Two attempts give every order of two overlapping attempts, and a
checkpoint can fall before, between and after them. Five calls are two more than
the window. The usages are complete, complete but contradicting the reported
total, and half missing. Two versions are the one that opened the holdout and one
that did not; three crashes are more than the process has kinds of windows between
two consecutive cells. Three epochs with two losses give every pattern of
improvement, tie and staleness up to patience 2, and stopping before, at and
without patience; a second fold shows that a fold's generations are its own.
`MaxToolEvents`, `MaxCheckpoints` and `MaxCrashes` are the only bounds in guards of
these modules (`MaxEpochs` is the estimator's parameter). The runners of
`resume_shared`, and tools, replays and runs in `collect` and `archive`, are symmetric sets; the runs with liveness use no
symmetry. A trajectory ends, so `ledger` does not check deadlock; the four `final`
and `resume` runs do.

`ledger` asks two questions of one instance, and its constraint `Shape` keeps to
the states that matter to either: two calls with everything but tools, or five
calls of one attempt each with a tool. Identifiers carry no meaning for the code
and no table keeps the order in which attempts start, so `InOrder` keeps one
representative: calls are requested, and attempts started and ended, in the order
of their identifiers (attempts still overlap). A constraint is right here because
`ledger` checks no liveness.

In `publish` two processes are enough because a third could only repeat the part
of one; two payload files are one that is hashed before and one that is hashed
after an edit, and one whose bytes depend on who wrote it (`Timed`). `MaxEvents`
bounds edits, input changes and crashes together while runs race, `MaxAlone` while
one run is alone, `MaxSilent` the edits that no snapshot shows. Runs end, so
deadlock is not checked.

In `collect` three tools are two of one reply and one of another; three calls are
an answered call, a late answer to it and one more. `MaxToolsPerReply`, `MaxTurns`,
`MaxInteractions`, `MaxActions`, `MaxCallTools`, `MaxMembers`, `MaxReplays` and the
number of `CallIds` bound what is read; two `Runs` and two `Tasks` with five members
are enough for a run that is interrupted and taken up again with completions on
both sides, and `Limits` are no `max_trajectories` and two; `Lengths` are the lengths of files that are replayed, long enough
for a replay to be overtaken before, in and after another's beginning. The store
asks only for a file's length and version, so accepted logs that agree on the
length share their replays. A log and its replays end, so deadlock is not checked.

In `crossfit` six outer folds leave three for training (validation, calibration and
test take one each), the fewest that three inner folds (fit, validation, holdout)
can split, so with eight tasks most parts are as small as they can be, and two folds
or one are larger. The lifecycle runner itself insists on five outer and five inner folds
with more tasks; the partitions wrap around in the same way. The cohorts have two
groups of labels that overlap; a third group over them with a task of another
condition; three groups that overlap so that some tie-breaks spread them over all
folds and others leave one of them without a task in a fold, outer or inner, though
each has tasks enough; and a group too small to be balanced. Four tasks are in the
same groups in every cohort and are a symmetric set. A run ends, so deadlock is not
checked.

In `session` a round is progress, progress hidden by a missing report, an unknown
offset, a drop below zero, or no change; three boundaries are one to skip, one to
answer after it and one to ask for after a failure. `MaxPoints` bounds them. A
boundary can always be asked for, but refusals are stuttering steps and the
last boundary ends the run, so deadlock is not checked.

Fairness. The event side has none: nobody is obliged to emit an event, to read a
log or to replay a file. In `final` (`FairSpec`) each process is weakly fair in its
own steps, which wait for no one (a process that finds the lock held raises), and
starting a process is not fair. `resume` (`LiveSpec`) assumes the same of a runner,
and `publish` (`FairSpec`) of a run. Crashes and interference are bounded, so a run
is not killed for ever.

## What is proved

`InductionTheorems` holds what the others rest on. The library's induction
theorems take an operator, which none of the provers here can instantiate, so
induction is stated over sets: a set of numbers that holds 0 and every successor
holds them all, and a family of sets closed under adding an element of `S` holds
the finite set `S`. From these follow the lemmas about sums over finite sets, which
the community modules define by a recursive function: a sum does not depend on the
order, an element may be split off, disjoint parts add up, what is zero adds nothing,
and a sum of sums may be taken element by element.

`TokenAccountingProofs`, for any calls, attempts, usages and bounds, from
`ContractsAssumption` and `GeneratedAssumption`:

* `TypeCorrect`: in particular no counter is ever `None` and every sum is a number.
* `ReducerFollows`: the reducer re-checks nothing; the invariant it relies on is
  inductive together with the types, because a request is only accepted when the
  active call has no open attempt.
* `ClosedLedgerFinal`: from it, no event changes an earlier call's ledger entry:
  only the active call's tables move.
* `ClosedOutputsLabelled`, `MissingUsageCancelsOut`, `DeductionExact`,
  `GenerationSplits`, `ErrorRoundsTrail`, `FinishedUncensored`: what the prefix
  accumulates against what the whole trajectory sums up. Their inductive invariant is
  `Facts`. The reducer's running totals are sums over the calls (`SpendFollowsCalls`),
  its scratch is that of the active call (`ScratchFollowsCall`), and an attempt ends
  once and only if it started (`AttemptsEndOnce`, `OnlyStartedEnd`): without the last
  two a late terminal could be counted again. Each point keeps what was so when its
  request came (`RequestsHavePoints`, `PointsFollowCalls`), and a finished trajectory
  leaves no call open (`FinishedLeavesNoneOpen`). The rest is sums: a label is the
  sum over the calls from the point on, so past, generation and remainder are
  disjoint parts of one sum.

`FinalHoldoutProofs`, for any processes, versions, cells and number of crashes,
from `FinalAssumption`:

* `Safety`: the inductive invariant `Inv`. `OnePublication` by itself is not
  inductive: that the rename finds every cell checkpointed rests on what the
  process read many steps before (`Inside`), that nobody changed it since rests on
  the lock (`Exclusive`), and that a newcomer at another version finds nothing of
  its own rests on `Records`.
* `OnePublicationHolds`, `EvaluationsAreAccounted`, `LabelsAreGuarded` follow.
* `ImplementsThePromise`: the refinement. Writing the tombstone is `Open`, a
  checkpoint is `Score`, the rename is `Publish`, returning a summary is `Report`,
  and every other step, crashes included, is a stutter.

`EpochCheckpointsProofs`, for any runners, folds, epochs, patience, losses and
number of crashes, from `EarlyStoppingAssumption` and `CheckpointAssumption`:

* `AfterEpochIsTrue`, `FitEndsStops`: the loop's running minimum and stale counter
  are the first minimum of the curve and the distance to it, so the loop stops
  exactly where the curve says.
* `Safety`: the inductive invariant `Inv`. What is on disk is true because what a
  runner holds in memory is (`RunnerIsTrue`), and that is true because it was read
  from disk while others were writing there; neither half is inductive alone.
* `TypeCorrect`, `GenerationsStayTrue`, `ResumeLeavesNoTrace` follow.
* `LoneRunnerIsNeverRefused` and `LoneRunnerImplementsTraining`, when all runners are
  one (`Lone`), which is the hypothesis of the run `resume` and of the refinement:
  with two, another's sweep makes both false. `LoneInv` says that the runner never
  raised, that there is no candidate before it places one, that the generation it
  has listed is there, which epoch is the newest on disk at each `pc`, that what
  remains to be removed is older than the fit, and that the folds behind it are
  finished; so what a restarted runner reads is what the last one wrote. The rename
  of an epoch is `Train`,
  placing the candidate is `Publish`, and every other step, crashes included, is a
  stutter.

`LifecycleSessionProofs`, for any number of boundaries, rounds, residuals,
selections and failures, from `SessionAssumption`:

* `CallsArePredictable`: what the driver and `observe` check before storing
  anything implies what `predict` checks after it.
* `Safety`: the invariant `IInv`. `SinkSeesTrueNumbers` needs that forecasts are
  answered in order (`OrderInv`); the bound on the forecast needs that the driver
  and the session measure the same transition, which holds only in step
  (`SpendInv` with `StepInv`).
* `OnlyFailuresBreak`, `NumbersAreTrue`, `OutOfStepStays` follow, and `SkippedSpend`, what
  the carried forecast means to a caller who skips boundaries.
* `ForecastFollows`: the forecast is carried step by step, `ForecastFollowsVisibleSpend`
  is a closed form over all answers. It is inductive with the session's invariant and
  the fact that only later boundaries than the first are answered (`AnsweredLater`);
  together they are `WalkInv`. The step shows that an answer extends the walk by one term, with the
  sums of `InductionTheorems`, and that one clamped step more is again the whole walk
  clamped.
* `ImplementsTheSession`: an answer is `Answer`, a failure is `Close`, the rest
  stutters.

`CollectionProofs`, from `StoreAssumption`, `ArchiveAssumption`, `ToolIdsAssumption`,
`ContractsAssumption` and `SokobanAssumption`, for any replaying processes, versions,
file lengths, restarts, runs, tasks, limits and archives, calls, attempts and tools:

* `StoreIsOneFile`, `OnlyFirstIsRefused`, for `StoreSpec`: the invariant says that the
  rows are the first events of one version and that a replay past its first event is
  the one that stored them, up to the event before its own. Whoever stores the first
  event is alone from then on: any other replay starts at an event that is there.
* `EvidenceStays`, `OnlySplitRepeats`, `ArchiveTyped`, for `ArchiveSpec`: the invariant
  follows every member from the moment it is handled: it is among the evidence of its
  run and task while that task is pending, and in one trajectory from then on. That
  `_finalize_run` loses nothing rests on its check that completions and reports are
  of tasks on its list (`Consistent`). If a pending task was yielded before, it was
  for an earlier stretch of its run, and the run between the two has a member there
  (`StretchInv`, `RepeatInv`).
* `CollectedStoreIsOneFile`, `CollectedOnlyFirstIsRefused`, `CollectedEvidenceStays`,
  `CollectedOnlySplitRepeats`: the same for `Collection`, where readers drive the
  archive and write the file that is replayed. A composed step is a step of one
  part or leaves it alone, except that the length of the file is not known before it
  is written: until then the store is untouched (`BeforeReplays`), so any length
  satisfies its invariant. When a task is followed (`FollowTask`), the archive's tables
  are dropped (`ArchiveIsDropped`).
* `ToolsEndOnce`: `EveryToolEndsOnce`. `ToolsInv` ties what a reader remembers to the
  events it has written: a tool is unanswered or was answered once, and which of the
  two is what the reader says (`pending` and `seenTools` for SWE-bench, the responses
  read so far for OpenHands). At most one tool is pending when the exit message
  comes, and that message answers it.
* `OnlyLateAreRefused`: `OnlyLateToolsAreRefused`, for all three readers. `Ordered` says
  what shape a reader's list has at any moment: each call is requested once and the
  calls in order, an attempt ends with the very next event, results are of requested
  calls only, and nothing follows the end. A reader only ever appends the block of a
  call, results, or the end, and each keeps that. `TablesFollow` says that the
  validator's tables are what the events it has passed say. The guards of the grammar
  follow from both, except that a result may come after a later request; so the
  validator's check (`Admits`) fails there and nowhere else.
* `AggregateAgreesWithLedger`: `AggregateIsLedgerSum`, for all three readers and any
  usages. The reader and the ledger never look at each other, so `AggregateInv` compares
  both with a third sum, `TotalOf(events)`, of what the terminal events say themselves.
  `LogAdds`: the list of usages a reader keeps (or the two sums of a rollout) adds up
  to `TotalOf` of the events written so far, and holds an incomplete usage if and only
  if an event does; so the usage stated in the last event is that sum, or, in a
  SWE-bench log, is withheld exactly when a terminal is missing or incomplete. An
  OpenHands log may state its usages itself; that these add up to the same rests on
  the reader's check that they agree wherever a response is complete (`Agrees`).
  `LedgerFollows`: the sum over the events passed so far is the sum, over the requests,
  of the sums over the call's terminals. It needs that no call is requested twice and
  that none has a terminal without a request, and it is not inductive without
  `TablesFollow` and `Ordered`, which admit only terminals of known calls. A log is
  accepted by its last event, its end; then all events are passed and the sums meet.

`RunPublicationProofs`, for any processes, payload files and bounds, from
`LineageAssumption` and `PublicationAssumption`:

* `Safety`: the inductive invariant `Inv`. A staged run's own directory is sealed
  (its marker is its manifest) because its verification found it so and nobody
  else writes control files there; a non-empty output directory of staged runs is
  sealed because only a rename fills it; the source a run used is the bound one
  once it has been rechecked, so no manifest names a changed source.
* `SourceIsTheBoundOne`, `PublishedStaysPut` and `ImplementsThePromise` follow.
  `Place` is `Publish`; every other step is a stutter.
* `ReturnedWasTrue`, `ReturnedWasTrueLater`: what a verification returns was true at
  the second walk if at most one write was silent, and at the third if none was
  (`VerifiedAtRescan`, `VerifiedAtFinalScan`). The files change under the
  verification's feet, and it never looks at two of them at once. `VerifyInv`
  therefore speaks of stamps, which only grow: a file that was hashed and still
  shows the stamp of the first walk is as found, or a silent write was at it
  (`HashedOK`); and if the directory was not as found at the second walk, a file that
  is still to be hashed again shows it, unless a second silent write undoes the
  first (`RescanOK`). It needs that `None` is not a number (`LineageAssumption`), or
  a missing entry could pass for a stamp.

`CrossfitProofs`, for any tasks, folds and cohorts and every assignment of folds,
from the assumptions of `TaskFolds` and `Crossfit`:

* `NothingLeaks`: `NothingSeesItsTest`. The parts that `BeginFold` found disjoint
  stay so to the end of the fold, and what a seed or a model has seen lies in
  them: a training task's seed in the other inner folds, an external task's in the
  outer training tasks.
* `OnlyRareLabelsAreRefused`: `RefusedOnlyIfSmall`, for any number of groups. Once the
  folds have passed the check of the plan (`splits.py:157-163`, outer and inner), every
  later check (parts that are not empty, one producer per seed, one score per task) is
  met (`BoundInv`), because the groups of the candidate are among those checked unless
  they are too small.
* `TwoGroupsArePlanned`: `UnplannedOnlyIfCrowded`, that this check is itself met when
  the candidate's two groups are the only ones that are balanced. The greedy choice is
  followed task by task: as long as a fold has no task of a group, no two of its tasks
  share one (`Spread`), so by the pigeonhole a group of at least as many tasks as folds
  reaches them all. That a fold which is free of one group is free of the task's other group
  too holds because the tasks of both groups come first (`Placement`): the proof is
  about the order of `Rank` as much as about `Score`. It does not carry over to three
  groups, and neither does the fact. Take five folds and A = a1..a5, B = a1 a2 b1 b2 b3,
  C = a3 a4 a5 b1 b2 b3: all tasks rank alike, and when the hash takes the a's first, one
  for each fold, all folds are as good for b1; on the fold of a1 it leaves two tasks
  of B for three folds that have none. The code raises and there is no plan; the third
  cohort of `MCCohorts` is of this kind.

Only model-checked is liveness: `ENABLED` and liveness under fairness are out of the
prover's reach. Every safety invariant and action property that a passing run checks
is stated by a theorem.

## Findings

* `final_once`: the runner's docstring and the manifest's `evaluation_count: 1`
  speak of one evaluation; a crash between the evaluation of a cell and its
  checkpoint makes the resumed run open that cell's labels again. `final` and
  `EvaluationsAreAccounted` show that this is the only way it can happen.

* `publish_in_place`: `docs/architecture.md` says that published artifacts are
  immutable. The configured pipeline looks at its output directory before it
  trains and writes there afterwards without looking again, so the slower of two
  runs of one configuration truncates the files of the artifact that the faster one
  has published. The staged runners do not (`StagedIsImmutable`, proved).
* `collect_missing`: `docs/data-contract.md` says that missing usage is unknown,
  never zero. A Sokoban rollout with an interaction without usage is accepted with a
  total in which that interaction counts as zero, while the call ledger says
  missing.

* `archive`: the OpenHands reader raises on completions of one run and task that are
  not contiguous. It looks for them only within a stretch of the archive: the
  tables are dropped when a member of another run comes, so an archive in which a
  run is interrupted yields a task of it twice, with a part of its completions
  each. `OnlySplitRunsRepeat` (proved) shows that this is the only way, and
  `EvidenceStaysWithItsTask` (proved) that nothing is mixed up or counted twice;
  `build_prediction_points` refuses the pair if both reach one dataset.

Observations that contradict nothing the repository says:

* `CandidateCheckpointStore.save` clears `fits/<key>`, where only `fold-NN`
  directories are; the epoch generations of a finished candidate stay on disk
  (`ClearFits`).
* Two runners that share a store can sweep each other's newest generation, so a
  durable epoch can be lost and both can raise; nothing false is ever published
  (`resume_shared`, `ResumeLeavesNoTrace`).
* A replay that has stored a part of its file and stopped can never be completed:
  every later replay is refused at its first event (`RefusedAtFirstEvent`).
* A pipeline run that dies while it writes leaves files that every later run of
  that configuration refuses (`RefuseLeftovers`).
* A SWE-bench log in which a tool answers after the next call is refused as a whole
  (`OnlyLateToolsAreRefused`, proved).
* A feature selection that drops `missing_usage_attempts` makes the first
  transition of every session fall back, because the seed keeps the canonical
  Task-pre point and the later points are selected (`SelectionHides`).
* After a raising model or calibrator the same online session can never be used
  again, and after a raising sink the prediction cannot be asked for again; the
  repository promises neither.

## Plan

What is left, in this order; each is one component with its run and its proofs.

1. **DeductOnlySession** and the masks of a lifecycle slice
   (`estimators/deduct.py`, `dataset/lifecycle.py`): the cold start, and which steps
   of a slice are scored, lost or context.
2. **Estimation** operators: the telemetry gate as a decision on capabilities, the
   conformal rank, the budget decisions at their thresholds.

## Not modelled

Wording and identity hashing of records; numerical estimators and metrics; the
bucket hash that draws the permanent holdout; what bundles serialise and reload;
network and archive download; links, size limits and legacy markers in artifact
directories; loss of flushed pages at a power failure (a completed write survives
a crash in `FinalHoldout`); the Codex reader, which makes a two-event trajectory out of
one file without keeping any state, and the field-level schema checks of the third-party logs, which are
one rejecting action. Most of the scripts are
batch programs that run once over frozen inputs (audits, downloads, release
checks, reports): they hash, compare and format, and have no state that a model
could tell apart. `PROJECT.json` lists every component with its status.
