----------------------------- MODULE MCCrossfit -----------------------------
EXTENDS Crossfit, TLC

CONSTANTS a, b, c, d, t1, t2, t3, t4

Alike == {t1, t2, t3, t4}

MCTasks == {a, b, c, d} \cup Alike

(* The four tasks that are in the same groups, whatever the cohort. *)
MCSymmetry == Permutations(Alike)

(* The third group is one of another condition or target. *)
Cohort(all, pre, update, other) ==
  [all |-> all, groups |-> [pre |-> pre, update |-> update, other |-> other]]

(* Two groups that overlap; a third group, with a task of another          *)
(* condition; three groups of which the greedy choice may leave one        *)
(* without a task in a fold, though all could be covered; a group too      *)
(* small to be balanced.                                                   *)
MCCohorts ==
  {Cohort(MCTasks \ {d}, Alike \cup {a, b}, Alike \cup {b, c}, {}),
   Cohort(MCTasks \ {d}, Alike \cup {a, b}, Alike \cup {b, c}, MCTasks),
   Cohort(MCTasks, Alike \cup {a, b}, Alike \cup {a, c}, Alike \cup {b, c, d}),
   Cohort(MCTasks, Alike \cup {a, b}, Alike \cup {c}, {})}
=============================================================================
