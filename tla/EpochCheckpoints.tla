-------------------------- MODULE EpochCheckpoints --------------------------
(***************************************************************************)
(* One candidate of an experiment with the checkpoints of checkpoint.py:   *)
(* ExperimentRunner.run, the fit loop of a neural estimator, the epoch     *)
(* generations of _AtomicFitCheckpoint and the candidate result of         *)
(* CandidateCheckpointStore.  Runners are killed between any two file      *)
(* operations and started again; several may share a store, nothing locks  *)
(* it.                                                                     *)
(*                                                                         *)
(* A generation is visible once its directory has its epoch-NNN name, so   *)
(* temporary and obsolete directories, which no one lists, are not kept.   *)
(* Training is deterministic: the loss after an epoch depends on the       *)
(* optimizer steps the weights embody, and weights, optimizer and RNG      *)
(* travel together in `steps`.                                             *)
(***************************************************************************)
EXTENDS EarlyStopping

CONSTANTS Runners, NumFolds, Losses, MaxCrashes, None

ASSUME CheckpointAssumption ==
    /\ NumFolds \in Nat \ {0}
    /\ Losses \subseteq 0 .. Infinity - 1
    /\ MaxCrashes \in Nat
    /\ None \notin Fit
    /\ None \notin [0 .. NumFolds - 1 -> Fit]

VARIABLES
    loss,        \* per fold, the validation loss after each number of steps
    zero,        \* residual_scale is 0.0: evaluate, do not train
    gens,        \* per fold, the epoch-* directories
    candidate,   \* candidates/<key>: the fits of all folds, or None
    pc, fold, fit, pending, fits, outcome,   \* per runner
    crashes

disk == <<gens, candidate>>
local == <<pc, fold, fit, pending, fits, outcome>>
vars == <<loss, zero, gens, candidate, pc, fold, fit, pending, fits, outcome, crashes>>

Folds == 0 .. NumFolds - 1

NoBest == [epoch |-> 0, loss |-> Infinity, state |-> 0]
FreshFit == [epoch |-> 0, steps |-> 0, best |-> NoBest, stale |-> 0, history |-> <<>>]

Init ==
    /\ loss \in [Folds -> [0 .. MaxEpochs -> Losses]]
    /\ zero \in BOOLEAN
    /\ gens = [f \in Folds |-> {}]
    /\ candidate = None
    /\ pc = [r \in Runners |-> "idle"]
    /\ fold = [r \in Runners |-> 0]
    /\ fit = [r \in Runners |-> FreshFit]
    /\ pending = [r \in Runners |-> {}]
    /\ fits = [r \in Runners |-> [f \in Folds |-> None]]
    /\ outcome = [r \in Runners |-> "none"]
    /\ crashes = 0

GoTo(r, label) == pc' = [pc EXCEPT ![r] = label]

(* A run ends; its memory is gone with it.                                 *)
Leave(r, how) ==
    /\ GoTo(r, "idle")
    /\ outcome' = [outcome EXCEPT ![r] = how]
    /\ UNCHANGED <<fold, fit, pending, fits>>

Fail(r) == Leave(r, "raised") /\ UNCHANGED disk

(*************************** ExperimentRunner.run **************************)

Start(r) ==
    /\ pc[r] = "idle"
    /\ GoTo(r, "lookup")
    /\ outcome' = [outcome EXCEPT ![r] = "none"]
    /\ UNCHANGED <<gens, candidate, fold, fit, pending, fits>>

(* A published result is returned, otherwise the folds are fitted.         *)
LookUpCandidate(r) ==
    /\ pc[r] = "lookup"
    /\ \/ /\ candidate # None
          /\ Leave(r, "returned")
       \/ /\ candidate = None
          /\ GoTo(r, "list")
          /\ fold' = [fold EXCEPT ![r] = 0]
          /\ fits' = [fits EXCEPT ![r] = [f \in Folds |-> None]]
          /\ UNCHANGED <<fit, pending, outcome>>
    /\ UNCHANGED disk

(************************ _AtomicFitCheckpoint.load ************************)

ListGenerations(r) ==
    /\ pc[r] = "list"
    /\ GoTo(r, "verify")
    /\ pending' = [pending EXCEPT ![r] = gens[fold[r]]]
    /\ fit' = [fit EXCEPT ![r] = FreshFit]
    /\ UNCHANGED <<gens, candidate, fold, fits, outcome>>

Oldest(g, S) == \A h \in S : g.epoch <= h.epoch

(* Mutant: more than one generation is taken for corruption.               *)
VerifyOnlyGeneration(r) ==
    /\ pc[r] = "verify"
    /\ \E g \in pending[r] :
          IF pending[r] = {g}
            THEN /\ fit' = [fit EXCEPT ![r] = g]
                 /\ pending' = [pending EXCEPT ![r] = {}]
                 /\ UNCHANGED <<gens, candidate, pc, fold, fits, outcome>>
            ELSE Fail(r)

(* Every listed generation must verify, in the order of their names; the   *)
(* newest is remembered.                                                   *)
VerifyGeneration(r) ==
    /\ pc[r] = "verify"
    /\ \E g \in pending[r] :
          /\ Oldest(g, pending[r])
          /\ \/ /\ g \in gens[fold[r]]
                /\ fit' = [fit EXCEPT ![r] = g]
                /\ pending' = [pending EXCEPT ![r] = @ \ {g}]
                /\ UNCHANGED <<gens, candidate, pc, fold, fits, outcome>>
             \/ /\ g \notin gens[fold[r]]
                /\ Fail(r)

(* What load_neural_epoch and save_neural_epoch accept.                    *)
WellFormed(s) ==
    /\ s.epoch > 0
    /\ s.best.epoch \in 1 .. s.epoch
    /\ Len(s.history) = s.epoch

(* Mutant: the history is not restored.                                    *)
ReadGenerationWithoutHistory(r) ==
    /\ pc[r] = "verify"
    /\ pending[r] = {}
    /\ GoTo(r, "train")
    /\ fit' = [fit EXCEPT ![r] = [@ EXCEPT !.history = <<>>]]
    /\ UNCHANGED <<gens, candidate, fold, pending, fits, outcome>>

(* load_neural_epoch restores model, optimizer, RNG, best state and the    *)
(* stopping state of the newest generation, all or nothing.                *)
ReadGeneration(r) ==
    /\ pc[r] = "verify"
    /\ pending[r] = {}
    /\ \/ /\ fit[r].epoch = 0
          /\ GoTo(r, "train")
          /\ UNCHANGED <<gens, candidate, fold, fit, pending, fits, outcome>>
       \/ /\ fit[r].epoch # 0
          /\ fit[r] \in gens[fold[r]]
          /\ WellFormed(fit[r])
          /\ GoTo(r, "train")
          /\ UNCHANGED <<gens, candidate, fold, fit, pending, fits, outcome>>
       \/ /\ fit[r].epoch # 0
          /\ fit[r] \notin gens[fold[r]] \/ ~WellFormed(fit[r])
          /\ Fail(r)

(******************************* the fit loop ******************************)

(* Mutant: one epoch of patience too many.                                 *)
FitEndsLate(s) ==
    \/ s.stale > Patience
    \/ s.epoch = MaxEpochs
    \/ zero /\ s.epoch > 0

(* Nothing is left to train: out of patience, out of epochs, or the zero   *)
(* residual has been evaluated.                                            *)
FitEnds(s) ==
    \/ s.stale >= Patience
    \/ s.epoch = MaxEpochs
    \/ zero /\ s.epoch > 0

(* Mutant: an equal loss counts as an improvement.                         *)
ImprovesOrEquals(s, value) == value <= s.best.loss

Improves(s, value) == value < s.best.loss

AfterEpoch(s, value) ==
    LET better == Improves(s, value) IN
    [epoch |-> s.epoch + 1,
     steps |-> s.steps + 1,
     best |-> IF better
                THEN [epoch |-> s.epoch + 1, loss |-> value, state |-> s.steps + 1]
                ELSE s.best,
     stale |-> IF better THEN 0 ELSE s.stale + 1,
     history |-> Append(s.history, value)]

(* The zero-residual path scores the untrained model as epoch 1.           *)
Evaluated(value) ==
    [epoch |-> 1, steps |-> 0,
     best |-> [epoch |-> 1, loss |-> value, state |-> 0],
     stale |-> 0, history |-> <<value>>]

(* One epoch and the temporary directory of its checkpoint.                *)
TrainEpoch(r) ==
    LET s == IF zero THEN Evaluated(loss[fold[r]][0])
                     ELSE AfterEpoch(fit[r], loss[fold[r]][fit[r].steps + 1])
    IN /\ pc[r] = "train"
       /\ ~FitEnds(fit[r])
       /\ IF WellFormed(s)
            THEN /\ fit' = [fit EXCEPT ![r] = s]
                 /\ GoTo(r, "find")
                 /\ UNCHANGED <<gens, candidate, fold, pending, fits, outcome>>
            ELSE Fail(r)

(************************ _AtomicFitCheckpoint.save ************************)

(* Equal bytes have equal names: the generation may be there already.      *)
FindGeneration(r) ==
    /\ pc[r] = "find"
    /\ GoTo(r, IF fit[r] \in gens[fold[r]] THEN "check" ELSE "rename")
    /\ UNCHANGED <<gens, candidate, fold, fit, pending, fits, outcome>>

(* os.replace gives it its name, unless another has been put there since.  *)
PublishGeneration(r) ==
    /\ pc[r] = "rename"
    /\ \/ /\ fit[r] \notin gens[fold[r]]
          /\ gens' = [gens EXCEPT ![fold[r]] = @ \cup {fit[r]}]
          /\ GoTo(r, "check")
          /\ UNCHANGED <<candidate, fold, fit, pending, fits, outcome>>
       \/ /\ fit[r] \in gens[fold[r]]
          /\ Fail(r)

CheckGeneration(r) ==
    /\ pc[r] = "check"
    /\ \/ /\ fit[r] \in gens[fold[r]]
          /\ GoTo(r, "sweep")
          /\ UNCHANGED <<gens, candidate, fold, fit, pending, fits, outcome>>
       \/ /\ fit[r] \notin gens[fold[r]]
          /\ Fail(r)

(* Mutant: the sweep does not spare the generation just published.         *)
ListAll(r) ==
    /\ pc[r] = "sweep"
    /\ pending' = [pending EXCEPT ![r] = gens[fold[r]]]
    /\ GoTo(r, "remove")
    /\ UNCHANGED <<gens, candidate, fold, fit, fits, outcome>>

ListObsolete(r) ==
    /\ pc[r] = "sweep"
    /\ pending' = [pending EXCEPT ![r] = gens[fold[r]] \ {fit[r]}]
    /\ GoTo(r, "remove")
    /\ UNCHANGED <<gens, candidate, fold, fit, fits, outcome>>

(* The other generations are renamed away one by one; one that somebody    *)
(* else has moved already is an error.                                     *)
RemoveObsolete(r) ==
    /\ pc[r] = "remove"
    /\ \E g \in pending[r] :
          /\ Oldest(g, pending[r])
          /\ \/ /\ g \in gens[fold[r]]
                /\ gens' = [gens EXCEPT ![fold[r]] = @ \ {g}]
                /\ pending' = [pending EXCEPT ![r] = @ \ {g}]
                /\ UNCHANGED <<candidate, pc, fold, fit, fits, outcome>>
             \/ /\ g \notin gens[fold[r]]
                /\ Fail(r)

EpochSaved(r) ==
    /\ pc[r] = "remove"
    /\ pending[r] = {}
    /\ GoTo(r, "train")
    /\ UNCHANGED <<gens, candidate, fold, fit, pending, fits, outcome>>

(************************** the folds of a candidate ***********************)

IsLast(f) == f = NumFolds - 1

FinishFold(r) ==
    /\ pc[r] = "train"
    /\ FitEnds(fit[r])
    /\ fits' = [fits EXCEPT ![r] = [@ EXCEPT ![fold[r]] = fit[r]]]
    /\ \/ /\ IsLast(fold[r])
          /\ GoTo(r, "save")
          /\ UNCHANGED fold
       \/ /\ ~IsLast(fold[r])
          /\ GoTo(r, "list")
          /\ fold' = [fold EXCEPT ![r] = @ + 1]
    /\ UNCHANGED <<gens, candidate, fit, pending, outcome>>

(*********************** CandidateCheckpointStore.save *********************)

(* A result that is already there must be the same.                        *)
FindCandidate(r) ==
    /\ pc[r] = "save"
    /\ \/ /\ candidate = None
          /\ GoTo(r, "place")
          /\ UNCHANGED <<gens, candidate, fold, fit, pending, fits, outcome>>
       \/ /\ candidate # None
          /\ Leave(r, IF candidate = fits[r] THEN "returned" ELSE "raised")
          /\ UNCHANGED disk

(* os.replace of a directory refuses a destination that has files in it.   *)
PlaceCandidate(r) ==
    /\ pc[r] = "place"
    /\ \/ /\ candidate = None
          /\ candidate' = fits[r]
          /\ GoTo(r, "clear")
          /\ UNCHANGED <<gens, fold, fit, pending, fits, outcome>>
       \/ /\ candidate # None
          /\ Fail(r)

(* clear() looks for epoch-* directly under fits/<key>, where only the     *)
(* fold-NN directories are: it removes nothing.                            *)
ClearFits(r) ==
    /\ pc[r] = "clear"
    /\ Leave(r, "returned")
    /\ UNCHANGED disk

Step(r) ==
    \/ LookUpCandidate(r)
    \/ ListGenerations(r) \/ VerifyGeneration(r) \/ ReadGeneration(r)
    \/ TrainEpoch(r)
    \/ FindGeneration(r) \/ PublishGeneration(r) \/ CheckGeneration(r)
    \/ ListObsolete(r) \/ RemoveObsolete(r) \/ EpochSaved(r)
    \/ FinishFold(r)
    \/ FindCandidate(r) \/ PlaceCandidate(r) \/ ClearFits(r)

(* The process is killed.                                                  *)
Crash(r) ==
    /\ pc[r] # "idle"
    /\ crashes < MaxCrashes
    /\ crashes' = crashes + 1
    /\ Leave(r, "crashed")
    /\ UNCHANGED <<gens, candidate, loss, zero>>

Next ==
    \E r \in Runners :
        \/ (Start(r) \/ Step(r)) /\ UNCHANGED <<loss, zero, crashes>>
        \/ Crash(r)

Spec == Init /\ [][Next]_vars

(* A runner's own steps wait for nobody; nobody has to start it.           *)
LiveSpec == Spec /\ \A r \in Runners :
    WF_vars(Step(r) /\ UNCHANGED <<loss, zero, crashes>>)

(******************************** properties *******************************)

Fits == [Folds -> Fit]
MaybeFits == [Folds -> Fit \cup {None}]

Labels == {"idle", "lookup", "list", "verify", "train", "find", "rename",
           "check", "sweep", "remove", "save", "place", "clear"}

(* The types; a candidate on disk has a fit for every fold.                *)
TypeOK ==
    /\ loss \in [Folds -> [0 .. MaxEpochs -> Losses]]
    /\ zero \in BOOLEAN
    /\ gens \in [Folds -> SUBSET Fit]
    /\ candidate \in Fits \cup {None}
    /\ pc \in [Runners -> Labels]
    /\ fold \in [Runners -> Folds]
    /\ fit \in [Runners -> Fit]
    /\ pending \in [Runners -> SUBSET Fit]
    /\ fits \in [Runners -> MaybeFits]
    /\ outcome \in [Runners -> {"none", "returned", "raised", "crashed"}]
    /\ crashes \in 0 .. MaxCrashes

(* Every generation on disk is the state of an uninterrupted fit after that *)
(* epoch, and no fit ran past its stopping epoch, whatever crashed.        *)
GenerationIsTrue(f, g) ==
    /\ g.epoch > 0
    /\ TrueFit(loss[f], zero, g.epoch, g)
    /\ Reaches(loss[f], zero, g.epoch)

GenerationsAreTrue == \A f \in Folds : \A g \in gens[f] : GenerationIsTrue(f, g)

(* The published candidate is the one of a run that was never interrupted, *)
(* also when several runners shared the store.                             *)
ResumeIsTransparent ==
    candidate # None => \A f \in Folds : CompleteFit(loss[f], zero, candidate[f])

(* A runner that is alone in the store never finds files it refuses: no    *)
(* crash leaves a fit that cannot be resumed.                              *)
LoneRunnerNeverRaises == \A r \in Runners : outcome[r] # "raised"

(* A run that is not killed ends with a published candidate.               *)
RunPublishes ==
    \A r \in Runners :
        (pc[r] = "lookup") ~> (candidate # None \/ outcome[r] = "crashed")

(* For a lone runner an epoch is durable from its rename on.               *)
Durable(f) == IF gens[f] = {} THEN 0
              ELSE CHOOSE e \in 0 .. MaxEpochs :
                      /\ \E g \in gens[f] : g.epoch = e
                      /\ \A g \in gens[f] : g.epoch <= e

Promise == INSTANCE TrainingPromise WITH
    trained <- [f \in Folds |-> Durable(f)],
    published <- candidate # None

(* A lone runner with crashes implements uninterrupted training: every     *)
(* durable epoch is trained once, in order, and none too many.             *)
ImplementsTraining == Promise!Spec
=============================================================================
