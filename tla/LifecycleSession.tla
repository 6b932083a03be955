-------------------------- MODULE LifecycleSession --------------------------
(***************************************************************************)
(* One online session: OnlineShadowSession over LifecycleSessionDriver     *)
(* over a seeded PredictionSession (CrossPositionDeductSession, or         *)
(* GRUResidualSession with its residual).  The driver and the session each *)
(* remember the last point, and the session a pending transition; none of  *)
(* it is rolled back when a later step of the same call raises.            *)
(*                                                                         *)
(* points[1] is the Task-pre point of the seed and points[i] the boundary  *)
(* that became visible i-th; its cutoff_event_seq is i.  A caller may hand *)
(* over any visible boundary: skip one, repeat one or hand over an old one.*)
(* A point's identity and scope checks always hold here; lower and upper   *)
(* move by the same delta as the point forecast and are left out, like the *)
(* hidden state of the GRU, which is stored with lastForecast.             *)
(***************************************************************************)
EXTENDS VisibleSpend, Sequences, Functions

CONSTANTS
  TaskPre,         (* the features of the Task-pre point                   *)
  SeedForecast,    (* the seed's uncalibrated point forecast               *)
  Rounds,          (* what may happen between boundaries: missing attempts,*)
                   (* provider tokens spent, and the next known offset     *)
  Residuals,       (* what the fitted model may add; {0} for the mechanical*)
                   (* session                                              *)
  PredictFailures, (* "model": predict raises before its session commits;  *)
                   (* "calibrator": after                                  *)
  SinkFails,       (* the shadow's sink may raise                          *)
  MaxPoints

Transition == [from : Nat, to : Nat, spend : Nat \cup {None}]

ASSUME SessionAssumption ==
  /\ None \notin Int
  /\ None \notin Transition
  /\ TaskPre \in SpendPoint
  /\ SeedForecast \in Nat
  /\ Rounds \subseteq [missing : Nat, spent : Nat, offset : Nat \cup {None}]
  /\ Residuals \subseteq Int
  /\ PredictFailures \subseteq {"model", "calibrator"}
  /\ SinkFails \in BOOLEAN
  /\ MaxPoints \in Nat \ {0}

VARIABLES
  keepsCounter,  (* the feature selection keeps missing_usage_attempts     *)
  points,        (* the boundaries visible so far                          *)
  previous,      (* LifecycleSessionDriver._previous                       *)
  lastPoint,     (* the session's _last_point ...                          *)
  lastForecast,  (* ... _last_forecast.point ...                           *)
  pending,       (* ... _pending_transition ...                            *)
  fallbacks,     (* ... and fallback_count                                 *)
  ordinal,       (* OnlineShadowSession._ordinal                           *)
  received,      (* what the sink took                                     *)
  forecasts,     (* history: the boundaries answered, with their residual  *)
  failed         (* history: predict raised for a reason of the model      *)

sessionVars == <<lastPoint, lastForecast, pending, fallbacks>>

shadowVars == <<ordinal, received, forecasts>>

vars == <<keepsCounter, points, previous, sessionVars, shadowVars, failed>>

TypeOK ==
  /\ keepsCounter \in BOOLEAN
  /\ points \in Seq(SpendPoint)
  /\ previous \in 1..Len(points)
  /\ lastPoint \in 1..Len(points)
  /\ lastForecast \in Nat
  /\ pending \in Transition \cup {None}
  /\ fallbacks \in Nat
  /\ ordinal \in Nat
  /\ received \in Seq([ordinal : Nat, point : Nat])
  /\ forecasts \in Seq([point : Nat, residual : Int])
  /\ failed \in BOOLEAN

Init ==
  /\ keepsCounter \in BOOLEAN
  /\ points = <<TaskPre>>
  /\ previous = 1
  /\ lastPoint = 1
  /\ lastForecast = SeedForecast
  /\ pending = None
  /\ fallbacks = 0
  /\ ordinal = 0
  /\ received = << >>
  /\ forecasts = << >>
  /\ failed = FALSE

-----------------------------------------------------------------------------
Plus(value, more) == IF value = None THEN None ELSE value + more

(* The trajectory reaches its next request: the cumulative counters of the *)
(* reducer only grow.                                                      *)
ReachBoundary(round) ==
  /\ Len(points) < MaxPoints
  /\ LET p == points[Len(points)]
     IN points' = Append(points,
          [ missing |-> Plus(p.missing, round.missing),
            input   |-> Plus(p.input, round.spent),
            output  |-> p.output,
            offset  |-> round.offset ])
  /\ UNCHANGED <<keepsCounter, previous, sessionVars, shadowVars, failed>>

(* The seed holds the canonical Task-pre point; later points reach the     *)
(* session through the feature selection.                                  *)
SessionPoint(i) ==
  IF i = 1 \/ keepsCounter THEN points[i] ELSE [points[i] EXCEPT !.missing = None]

Spend(i) == SpendDelta(points[previous], points[i])

(* Mutant: the cutoffs are not compared. *)
DriverAcceptsAny(i) == ~Decreased(points[previous], points[i])

(* visible_spend_delta returns instead of raising. *)
DriverAccepts(i) ==
  /\ i > previous
  /\ ~Decreased(points[previous], points[i])

(* Mutants: a pending transition is overwritten; the origin is not checked.*)
SessionAcceptsPending(i) == previous = lastPoint /\ i # previous

SessionAcceptsAnyOrigin(i) == pending = None /\ i # previous

(* PredictionSession.observe returns instead of raising. *)
SessionAccepts(i) ==
  /\ pending = None
  /\ previous = lastPoint
  /\ i # previous

Observed(i) == [from |-> previous, to |-> i, spend |-> Spend(i)]

(* The session's own checks in predict and mechanical_deduct_operands. *)
Predictable(i) ==
  /\ i > lastPoint
  /\ ~CounterDecreased(SessionPoint(lastPoint), SessionPoint(i))

Carried(i) == FallsBack(SessionPoint(lastPoint), SessionPoint(i), Spend(i))

Repaired(value) == IF value < 0 THEN 0 ELSE value

Mechanical(i) ==
  LET delta == DeltaTokens(SessionPoint(lastPoint), SessionPoint(i), Spend(i))
  IN IF delta = None THEN lastForecast ELSE lastForecast + delta

CountFallback(i) == fallbacks' = IF Carried(i) THEN fallbacks + 1 ELSE fallbacks

(* The end of predict: the uncalibrated forecast becomes the state. *)
CommitSession(i, residual) ==
  /\ lastForecast' = Repaired(Repaired(Mechanical(i)) + residual)
  /\ lastPoint' = i
  /\ pending' = None
  /\ CountFallback(i)

Calls(i) == i \in 2..Len(points) /\ DriverAccepts(i) /\ SessionAccepts(i)

(* Either check raises before anything was stored. *)
RefuseBoundary(i) ==
  /\ i \in 2..Len(points)
  /\ ~DriverAccepts(i) \/ ~SessionAccepts(i)
  /\ UNCHANGED vars

(* predict raises, on a check of its own or, after the fallback count, in   *)
(* the encoder or the model: the transition stays pending.                 *)
PredictFails(i) ==
  /\ Calls(i)
  /\ Predictable(i) => "model" \in PredictFailures
  /\ pending' = Observed(i)
  /\ fallbacks' = IF Predictable(i) /\ Carried(i) THEN fallbacks + 1 ELSE fallbacks
  /\ failed' = (failed \/ Predictable(i))
  /\ UNCHANGED <<keepsCounter, points, previous, lastPoint, lastForecast, shadowVars>>

(* The calibrator raises after the session stored its state: the driver    *)
(* stays behind.                                                           *)
CalibratorFails(i, residual) ==
  /\ "calibrator" \in PredictFailures
  /\ Calls(i)
  /\ Predictable(i)
  /\ CommitSession(i, residual)
  /\ failed' = TRUE
  /\ UNCHANGED <<keepsCounter, points, previous, shadowVars>>

(* Mutant: a boundary gets its number only when the sink took it. *)
EmitAfterSink(i, taken) ==
  /\ ordinal' = IF taken THEN ordinal + 1 ELSE ordinal
  /\ received' = IF taken THEN Append(received, [ordinal |-> ordinal + 1, point |-> i])
                          ELSE received

(* observe_boundary after advance: a raising sink loses the prediction,    *)
(* which is numbered already and cannot be asked for again.                *)
Emit(i, taken) ==
  /\ ordinal' = ordinal + 1
  /\ received' = IF taken THEN Append(received, [ordinal |-> ordinal', point |-> i])
                          ELSE received

AnswerBoundary(i, residual, taken) ==
  /\ Calls(i)
  /\ Predictable(i)
  /\ CommitSession(i, residual)
  /\ previous' = i
  /\ Emit(i, taken)
  /\ forecasts' = Append(forecasts, [point |-> i, residual |-> residual])
  /\ UNCHANGED <<keepsCounter, points, failed>>

ObserveBoundary(i) ==
  \/ RefuseBoundary(i)
  \/ PredictFails(i)
  \/ \E residual \in Residuals : CalibratorFails(i, residual)
  \/ \E residual \in Residuals : AnswerBoundary(i, residual, TRUE)
  \/ SinkFails /\ \E residual \in Residuals : AnswerBoundary(i, residual, FALSE)

Next ==
  \/ \E round \in Rounds : ReachBoundary(round)
  \/ \E i \in 2..Len(points) : ObserveBoundary(i)

Spec == Init /\ [][Next]_vars

-----------------------------------------------------------------------------
(* The session holds a transition nobody will consume, or is ahead of its  *)
(* driver.                                                                 *)
OutOfStep == pending # None \/ lastPoint # previous

(* Whatever order boundaries are handed over in, the checks that run       *)
(* before anything is stored imply every later check of the same call:     *)
(* only a failure of the model or its calibrator can leave the driver      *)
(* (lifecycle.py:186-214) and the session out of step.                     *)
OnlyFailuresBreakStep == OutOfStep => failed

(* A session out of step with its driver answers nothing any more, whether *)
(* it is asked for the same boundary again or for a later one: no forecast *)
(* is ever made from a transition that was observed for another point.     *)
OutOfStepIsFinal ==
  [][OutOfStep => OutOfStep' /\ UNCHANGED <<lastForecast, shadowVars>>]_vars

(* Numbers identify forecasts: the sink gets them in visibility order, a   *)
(* number names the forecast it was given to although the sink lost others *)
(* on the way, and two boundaries never share one.                         *)
SinkSeesTrueNumbers ==
  /\ \A k \in 1..Len(received) :
       /\ received[k].ordinal \in 1..Len(forecasts)
       /\ forecasts[received[k].ordinal].point = received[k].point
  /\ \A j, k \in 1..Len(received) :
       j < k => /\ received[j].ordinal < received[k].ordinal
                /\ received[j].point < received[k].point

-----------------------------------------------------------------------------
Origin(k) == IF k = 1 THEN 1 ELSE forecasts[k - 1].point

Provider(p) == p.input + p.output

SelectionHides(k) ==
  k = 1 /\ ~keepsCounter /\ points[1].missing # None

(* What was really visible between two answered boundaries: nothing is     *)
(* deducted across a missing usage report or an unknown offset.            *)
TrueDelta(k) ==
  LET p == points[Origin(k)]
      q == points[forecasts[k].point]
  IN IF /\ CountersEqual(p, q) /\ SpendKnown(p) /\ SpendKnown(q)
        /\ p.offset # None /\ q.offset # None
        /\ ~SelectionHides(k)
     THEN p.offset + Provider(p) - Provider(q) - q.offset
     ELSE 0

(* How far answer k moved the forecast, and where the first n answers      *)
(* would have moved it from zero.                                          *)
Moved == [k \in 1..Len(forecasts) |-> TrueDelta(k) + forecasts[k].residual]

Walk(n) == SumFunctionOnSet(Moved, 1..n)

(* The forecast the session carries is the seed moved by everything that   *)
(* was visible, kept at or above zero on the way, before and after every   *)
(* residual: its closed form is the larger of the unclamped sum and the    *)
(* climb since some earlier answer.  Repeated, skipped, refused and lost   *)
(* boundaries leave no trace in it.                                        *)
ForecastFollowsVisibleSpend ==
  ~OutOfStep =>
    LET answered == Len(forecasts)
        end      == Walk(answered)
        heights  ==
          {SeedForecast + end}
            \cup {end - Walk(k) : k \in 1..answered}
            \cup {end - (Walk(k) - forecasts[k].residual) : k \in 1..answered}
    IN /\ lastForecast \in heights
       /\ \A height \in heights : height <= lastForecast

OnlyMechanical ==
  ~OutOfStep /\ \A k \in 1..Len(forecasts) : forecasts[k].residual = 0

(* A boundary the caller skipped is deducted with the next one: a forecast *)
(* that was only moved mechanically and never had to fall back is at least *)
(* the seed less all that became known since the Task-pre point, whichever *)
(* boundaries were handed over.                                            *)
SkippedSpendIsDeductedOnce ==
  (OnlyMechanical /\ fallbacks = 0 /\ lastPoint > 1) =>
    LET p == points[1]
        q == points[lastPoint]
    IN lastForecast >=
         SeedForecast + p.offset + Provider(p) - Provider(q) - q.offset

Promise == INSTANCE SessionPromise
  WITH Boundaries <- 1..MaxPoints,
       answered <- [k \in 1..Len(forecasts) |-> forecasts[k].point],
       open <- ~OutOfStep

(* Driver, session and shadow together keep the abstract turn order.       *)
ImplementsSession == Promise!PromiseSpec
=============================================================================
