------------------------------ MODULE Crossfit ------------------------------
(***************************************************************************)
(* One candidate under cross-validation (experiment.run_candidate_cv,      *)
(* lifecycle_experiment.run_lifecycle_candidate_cv) on the folds of the    *)
(* development protocol.  A model is what it has seen: the tasks that its  *)
(* fit, its early stopping, its calibration, or the seeds it was fitted    *)
(* with have used.  An exception is a Refuse.                              *)
(***************************************************************************)
EXTENDS TaskFolds

(* The groups are the tasks with an observed label, of each condition,     *)
(* position and target of the dataset.  The cohort is the tasks of the     *)
(* candidate's condition, and two of the groups are its own: "pre" for the *)
(* Task-pre point and "update" for the Task-update points.                 *)
CONSTANTS Cohorts

Own == {"pre", "update"}

ASSUME CohortsAssumption ==
  \A c \in Cohorts : /\ DOMAIN c = {"all", "groups"}
                     /\ c.all \subseteq Tasks
                     /\ Own \subseteq DOMAIN c.groups
                     /\ \A g \in DOMAIN c.groups : c.groups[g] \subseteq Tasks
                     /\ \A g \in Own : c.groups[g] \subseteq c.all

VARIABLES
  kind,        \* "point" or "lifecycle" candidate
  cohort,
  outer,       \* the folds assigned so far, from task to outer fold
  inner,       \* the same inside the current outer training tasks, until they are fitted
  at,          \* what is done next
  fold,        \* the outer fold under test
  components,  \* the initializers of this fold, by inner fold, until they have seeded
  seeds,       \* what the session seeds still to be used have seen
  seen,        \* what the fitted model has seen
  forecasts,   \* the forecasts made in this fold
  scored       \* how often each task has been scored

runVars == <<components, seeds, seen, forecasts>>
vars == <<kind, cohort, outer, inner, at, fold, runVars, scored>>

Stages == {"outer", "fold", "inner", "initializers", "seeds", "fit", "calibrate", "score", "done",
           "no_plan", "refused"}

Init ==
  /\ kind \in {"point", "lifecycle"}
  /\ cohort \in Cohorts
  /\ outer = <<>>
  /\ inner = <<>>
  /\ at = "outer"
  /\ fold = 0
  /\ components = <<>>
  /\ seeds = <<>>
  /\ seen = {}
  /\ forecasts = {}
  /\ scored = [t \in Tasks |-> 0]

Refuse(stage) ==
  /\ at' = stage
  /\ UNCHANGED <<kind, cohort, outer, inner, fold, runVars, scored>>

-----------------------------------------------------------------------------
(* The folds: build_development_protocol                                   *)

(* _development_balance_groups *)
Groups == Balanced(cohort.groups, Tasks, OuterFolds)

(* assign_task_folds deals the tasks out in turn when there is no group. *)
AssignOuter ==
  /\ at = "outer"
  /\ DOMAIN outer # Tasks
  /\ \E t \in FirstTasks(outer, Tasks, Groups) :
       \E f \in IF DOMAIN Groups = {}
                THEN {Cardinality(DOMAIN outer) % OuterFolds}
                ELSE BestFolds(t, outer, Groups, OuterFolds) :
         outer' = [u \in DOMAIN outer \cup {t} |-> IF u = t THEN f ELSE outer[u]]
  /\ UNCHANGED <<kind, cohort, inner, at, fold, runVars, scored>>

BindOuter ==
  /\ at = "outer"
  /\ DOMAIN outer = Tasks
  /\ IF Covers(outer, Groups, OuterFolds)
     THEN /\ at' = "fold"
          /\ UNCHANGED <<kind, cohort, outer, inner, fold, runVars, scored>>
     ELSE Refuse("no_plan")

Outer == OuterPartition(outer, fold)

InnerGroups == Balanced(Groups, Outer.train, InnerFolds)

(* The inner folds of all outer folds are planned before the first fit,    *)
(* for every kind of candidate; here those of a fold are drawn when it     *)
(* begins.                                                                 *)
AssignInner ==
  /\ at = "inner"
  /\ DOMAIN inner # Outer.train
  /\ IF Cardinality(Outer.train) < InnerFolds
     THEN Refuse("no_plan")
     ELSE /\ \E t \in FirstTasks(inner, Outer.train, InnerGroups) :
               \E f \in BestFolds(t, inner, InnerGroups, InnerFolds) :
                 inner' = [u \in DOMAIN inner \cup {t} |->
                             IF u = t THEN f ELSE inner[u]]
          /\ UNCHANGED <<kind, cohort, outer, at, fold, runVars, scored>>

(* A point candidate has no initializers. *)
BindInner ==
  /\ at = "inner"
  /\ DOMAIN inner = Outer.train
  /\ IF Covers(inner, InnerGroups, InnerFolds)
     THEN /\ IF kind = "point"
             THEN inner' = <<>> /\ at' = "fit"
             ELSE UNCHANGED inner /\ at' = "initializers"
          /\ UNCHANGED <<kind, cohort, outer, fold, runVars, scored>>
     ELSE Refuse("no_plan")

-----------------------------------------------------------------------------
(* One outer fold                                                          *)

(* The tasks that have rows: a point candidate has eligible rows only. *)
Present == IF kind = "point" THEN cohort.groups.update ELSE cohort.all

Part(role) == Outer[role] \cap Present

Roles == {"train", "validation", "calibration", "test"}

BeginFold ==
  /\ at = "fold"
  /\ fold < OuterFolds
  /\ IF Disjoint(Outer) /\ \A role \in Roles : Part(role) # {}
     THEN /\ at' = "inner"
          /\ UNCHANGED <<kind, cohort, outer, inner, fold, runVars, scored>>
     ELSE Refuse("refused")

(* _condition_inner_partition *)
Projected(h) ==
  LET frozen == InnerPartition(inner, h)
  IN  [role \in DOMAIN frozen |-> frozen[role] \cap Part("train")]

(* What InnerFoldPartition and _make_initializer_view accept. *)
Fittable(parts) ==
  /\ Disjoint(parts)
  /\ \A role \in DOMAIN parts : parts[role] # {}
  /\ parts.fit \cap cohort.groups.pre # {}
  /\ parts.validation \cap cohort.groups.pre # {}

FitInitializers ==
  /\ at = "initializers"
  /\ IF \A h \in FoldsOf(InnerFolds) : Fittable(Projected(h))
     THEN /\ components' = [h \in FoldsOf(InnerFolds) |-> Projected(h)]
          /\ inner' = <<>>
          /\ at' = "seeds"
          /\ UNCHANGED <<kind, cohort, outer, fold, seeds, seen, forecasts, scored>>
     ELSE Refuse("refused")

External == Part("validation") \cup Part("calibration") \cup Part("test")

Universe == UNION {UNION {components[h][role] : role \in DOMAIN components[h]} :
                     h \in DOMAIN components}

(* Mutant: the component must not have been fitted on the task, but may    *)
(* have been stopped by it.                                                *)
ProducersNotFitted(t) ==
  IF t \in Part("train") THEN {h \in DOMAIN components : t \notin components[h].fit}
                         ELSE DOMAIN components

(* A training task is seeded by the one component that held it out. *)
Producers(t) ==
  IF t \in Part("train") THEN {h \in DOMAIN components : t \in components[h].holdout}
                         ELSE DOMAIN components

(* What generate_crossfit_seeds accepts. *)
Seedable ==
  /\ Part("train") \cap External = {}
  /\ Universe = Part("train")
  /\ \A t \in Part("train") :
       Cardinality({h \in DOMAIN components : t \in components[h].holdout}) = 1

GenerateSeeds ==
  /\ at = "seeds"
  /\ IF Seedable
     THEN /\ seeds' = [t \in Part("train") \cup External |->
                         UNION {components[h].fit \cup components[h].validation :
                                  h \in Producers(t)}]
          /\ components' = <<>>
          /\ at' = "fit"
          /\ UNCHANGED <<kind, cohort, outer, inner, fold, seen, forecasts, scored>>
     ELSE Refuse("refused")

SeedOf(t) == IF kind = "point" THEN {} ELSE seeds[t]

(* The updater learns from its sequences and from their seeds, and is      *)
(* stopped by the validation sequences.                                    *)
FitModel ==
  /\ at = "fit"
  /\ LET learns == Part("train") \cup Part("validation")
     IN  IF \A role \in {"train", "validation"} : Part(role) \cap cohort.groups.update # {}
         THEN /\ seen' = learns \cup UNION {SeedOf(t) : t \in learns}
              /\ seeds' = [t \in DOMAIN seeds \ learns |-> seeds[t]]
              /\ at' = "calibrate"
              /\ UNCHANGED <<kind, cohort, outer, inner, fold, components, forecasts,
                             scored>>
         ELSE Refuse("refused")

(* A forecast, and all that the models behind it have seen. *)
Forecast(t) == [task |-> t, seen |-> seen \cup SeedOf(t)]

Calibrate ==
  /\ at = "calibrate"
  /\ IF Part("calibration") \cap cohort.groups.update # {}
     THEN /\ forecasts' = {Forecast(t) : t \in Part("calibration")}
          /\ seen' = seen \cup Part("calibration")
          /\ at' = "score"
          /\ UNCHANGED <<kind, cohort, outer, inner, fold, components, seeds, scored>>
     ELSE Refuse("refused")

ScoreTest ==
  /\ at = "score"
  /\ IF Part("test") \cap cohort.groups.update # {}
     THEN /\ forecasts' = {Forecast(t) : t \in Part("test")}
          /\ scored' = [t \in Tasks |->
               scored[t] + IF t \in Part("test") \cap cohort.groups.update THEN 1 ELSE 0]
          /\ at' = "fold"
          /\ fold' = fold + 1
          /\ seeds' = <<>>
          /\ seen' = {}
          /\ UNCHANGED <<kind, cohort, outer, inner, components>>
     ELSE Refuse("refused")

(* The run ends by comparing what was scored with what was eligible. *)
Finish ==
  /\ at = "fold"
  /\ fold = OuterFolds
  /\ IF scored = [t \in Tasks |-> IF t \in cohort.groups.update THEN 1 ELSE 0]
     THEN /\ at' = "done"
          /\ UNCHANGED <<kind, cohort, outer, inner, fold, runVars, scored>>
     ELSE Refuse("refused")

Next ==
  \/ AssignOuter \/ BindOuter \/ AssignInner \/ BindInner
  \/ BeginFold \/ FitInitializers \/ GenerateSeeds \/ FitModel \/ Calibrate
  \/ ScoreTest \/ Finish

Spec == Init /\ [][Next]_vars

-----------------------------------------------------------------------------
(* Nothing is predicted by what has seen it.  No session seed comes from   *)
(* an initializer that was fitted on, or stopped by, its task, and no      *)
(* forecast used for calibration or scoring from models any of which,      *)
(* through the seeds they learned from, has seen the task.                 *)
NothingSeesItsTest ==
  /\ \A t \in DOMAIN seeds : t \notin seeds[t]
  /\ \A r \in forecasts : r.task \notin r.seen

(* A label of the candidate is too rare for the folds: it has too few      *)
(* tasks for the outer folds, or too few for the inner folds of some outer *)
(* training set.                                                           *)
Small ==
  \/ \E g \in Own : Cardinality(cohort.groups[g]) < OuterFolds
  \/ \E f \in FoldsOf(OuterFolds) : \E g \in Own :
       Cardinality(cohort.groups[g] \cap OuterPartition(outer, f).train) < InnerFolds

(* However many groups there are: what the plan was checked for is enough. *)
(* Unless a label of the candidate is too rare, none of the checks after   *)
(* the plan fails, of disjoint parts, of labels in each part, of the       *)
(* seeds' task universe, of exactly one score for each task.               *)
RefusedOnlyIfSmall == at = "refused" => Small

Crowded == \E g \in DOMAIN Groups : g \notin Own

(* The greedy choice gives each fold a task of two groups, however they    *)
(* overlap, and there is a plan.  With a third group it may leave a fold   *)
(* without one, though each group has tasks enough, and there is no plan.  *)
UnplannedOnlyIfCrowded == at = "no_plan" => Small \/ Crowded
=============================================================================
