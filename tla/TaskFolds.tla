------------------------------ MODULE TaskFolds ------------------------------
(***************************************************************************)
(* dataset/splits.py: tasks are put on folds one by one, so that every     *)
(* group of tasks is spread evenly, and each fold in turn is the test (or  *)
(* inner holdout) fold.  The hashes that break ties are a choice.          *)
(***************************************************************************)
EXTENDS Integers, FiniteSets, FiniteSetsExt, Functions

CONSTANTS Tasks, OuterFolds, InnerFolds

ASSUME FoldsAssumption ==
  /\ IsFiniteSet(Tasks)
  /\ OuterFolds \in Nat /\ OuterFolds >= 4
  /\ InnerFolds \in Nat /\ InnerFolds >= 3

FoldsOf(n) == 0 .. n - 1

On(assigned, f) == {t \in DOMAIN assigned : assigned[t] = f}

Disjoint(parts) ==
  \A r, s \in DOMAIN parts : r # s => parts[r] \cap parts[s] = {}

-----------------------------------------------------------------------------
(* _balanced_assignments.  groups maps group ids to sets of tasks.         *)

(* Keys are compared like Python tuples. *)
Before(a, b) ==
  \E i \in DOMAIN a : a[i] < b[i] /\ \A j \in 1 .. i - 1 : a[j] = b[j]

GroupsOf(t, groups) == {g \in DOMAIN groups : t \in groups[g]}

(* A task in no group comes after all that are in one. *)
Rank(t, groups) ==
  <<Min({Cardinality(groups[g]) : g \in GroupsOf(t, groups)}
          \cup {Cardinality(Tasks) + 1}),
    -Cardinality(GroupsOf(t, groups))>>

(* The tasks that may come first of those that have no fold yet: a hash    *)
(* orders equally ranked ones.                                             *)
FirstTasks(assigned, tasks, groups) ==
  LET left == tasks \ DOMAIN assigned
  IN  {t \in left : \A u \in left : ~Before(Rank(u, groups), Rank(t, groups))}

(* Mutant: groups are not looked at. *)
ScoreOfSize(t, f, assigned, groups) == <<Cardinality(On(assigned, f))>>

Score(t, f, assigned, groups) ==
  LET Count(g) == Cardinality(groups[g] \cap On(assigned, f))
  IN  <<Max({Count(g) : g \in GroupsOf(t, groups)} \cup {0}),
        SumFunction([g \in GroupsOf(t, groups) |-> Count(g)]),
        Cardinality(On(assigned, f))>>

BestFolds(t, assigned, groups, n) ==
  {f \in FoldsOf(n) : \A g \in FoldsOf(n) :
     ~Before(Score(t, g, assigned, groups), Score(t, f, assigned, groups))}

(* Mutant: a group may miss a fold. *)
CoversFolds(assigned, groups, n) == \A f \in FoldsOf(n) : On(assigned, f) # {}

(* What is checked of a finished assignment. *)
Covers(assigned, groups, n) ==
  \A f \in FoldsOf(n) :
    /\ On(assigned, f) # {}
    /\ \A g \in DOMAIN groups : groups[g] \cap On(assigned, f) # {}

(* Groups that cannot cover the folds are not balanced. *)
Balanced(groups, tasks, n) ==
  LET large == {g \in DOMAIN groups : Cardinality(groups[g] \cap tasks) >= n}
  IN  [g \in large |-> groups[g] \cap tasks]

-----------------------------------------------------------------------------
(* SplitPlan.partition and InnerTaskFoldAssignment.partition               *)

OuterPartition(outer, f) ==
  LET calibration == (f + 1) % OuterFolds
      validation == (f + 2) % OuterFolds
  IN  [train |-> {t \in DOMAIN outer : outer[t] \notin {f, calibration, validation}},
       validation |-> On(outer, validation),
       calibration |-> On(outer, calibration),
       test |-> On(outer, f)]

InnerPartition(inner, h) ==
  LET validation == (h + 1) % InnerFolds
  IN  [fit |-> {t \in DOMAIN inner : inner[t] \notin {h, validation}},
       validation |-> On(inner, validation),
       holdout |-> On(inner, h)]
=============================================================================
