---------------------------- MODULE VisibleSpend ----------------------------
(***************************************************************************)
(* What one lifecycle transition may learn from the features of its two    *)
(* end points (lifecycle.py visible_spend_delta), and the operands of the  *)
(* mechanical update built on it (cross_position_deduct.py                 *)
(* mechanical_deduct_operands).  A point is a record of the features the   *)
(* two functions read; a field the source does not expose is None.  The    *)
(* ValueErrors on decreasing counters are the callers' failure path and    *)
(* are stated by Decreased.                                                *)
(***************************************************************************)
EXTENDS Integers

CONSTANT None

SpendPoint == [ missing : Nat \cup {None}, input  : Nat \cup {None},
                output  : Nat \cup {None}, offset : Nat \cup {None} ]

SpendKnown(p) == p.input # None /\ p.output # None

CountersEqual(p, q) ==
  /\ p.missing # None
  /\ q.missing # None
  /\ p.missing = q.missing

(* Mutant: the missing-usage counters are not compared. *)
SpendDeltaOfKnown(p, q) ==
  IF SpendKnown(p) /\ SpendKnown(q)
  THEN (q.input + q.output) - (p.input + p.output)
  ELSE None

SpendDelta(p, q) ==
  IF CountersEqual(p, q) /\ SpendKnown(p) /\ SpendKnown(q)
  THEN (q.input + q.output) - (p.input + p.output)
  ELSE None

(* The inputs on which the two functions raise instead of returning. *)
CounterDecreased(p, q) ==
  p.missing # None /\ q.missing # None /\ q.missing < p.missing

Decreased(p, q) ==
  \/ CounterDecreased(p, q)
  \/ SpendDelta(p, q) # None /\ SpendDelta(p, q) < 0

(* fallback_reason is not None. *)
FallsBack(p, q, spend) ==
  \/ p.offset = None
  \/ spend = None
  \/ q.offset = None
  \/ (p.missing = None) # (q.missing = None)
  \/ p.missing # None /\ q.missing # None /\ q.missing > p.missing

(* Mutant: the offset of the earlier point is dropped. *)
DeltaTokensOneSided(p, q, spend) ==
  IF FallsBack(p, q, spend) THEN None ELSE 0 - spend - q.offset

DeltaTokens(p, q, spend) ==
  IF FallsBack(p, q, spend) THEN None ELSE p.offset - spend - q.offset
=============================================================================
