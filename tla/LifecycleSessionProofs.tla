----------------------- MODULE LifecycleSessionProofs -----------------------
(***************************************************************************)
(* What an online session keeps for any number of boundaries, any residual *)
(* and any failure of its model, calibrator or sink.                       *)
(***************************************************************************)
EXTENDS LifecycleSession, InductionTheorems, SequenceTheorems, TLAPS

LastAnswered ==
  IF forecasts = << >> THEN 1 ELSE forecasts[Len(forecasts)].point

(* The driver remembers the last boundary that was answered; the session   *)
(* may be one ahead of it and only a failure makes it so.                  *)
StepInv ==
  /\ previous = LastAnswered
  /\ previous <= lastPoint
  /\ Len(points) <= MaxPoints
  /\ OnlyFailuresBreakStep

(* Boundaries are answered in visibility order and numbered as they are.   *)
OrderInv ==
  /\ ordinal = Len(forecasts)
  /\ \A j, k \in 1..Len(forecasts) : j < k => forecasts[j].point < forecasts[k].point
  /\ \A k \in 1..Len(forecasts) : forecasts[k].point <= previous

(* The bound of SkippedSpendIsDeductedOnce with what makes its terms       *)
(* numbers.                                                                *)
SpendInv ==
  /\ points[1] = TaskPre
  /\ lastPoint = 1 => lastForecast = SeedForecast
  /\ (OnlyMechanical /\ fallbacks = 0 /\ lastPoint > 1) =>
       LET p == points[1]
           q == points[lastPoint]
       IN /\ SpendKnown(p) /\ p.offset # None
          /\ SpendKnown(q) /\ q.offset # None
          /\ lastForecast >=
               SeedForecast + p.offset + Provider(p) - Provider(q) - q.offset

IInv == TypeOK /\ StepInv /\ OrderInv /\ SinkSeesTrueNumbers /\ SpendInv

-----------------------------------------------------------------------------
(* A visible spend is a number or absent, and it is a number only when     *)
(* both ends expose their counters.                                        *)
LEMMA SpendDeltaType ==
  ASSUME NEW p \in SpendPoint, NEW q \in SpendPoint, ~Decreased(p, q)
  PROVE  /\ SpendDelta(p, q) \in Nat \cup {None}
         /\ SpendDelta(p, q) # None =>
              /\ SpendKnown(p) /\ SpendKnown(q)
              /\ SpendDelta(p, q) = Provider(q) - Provider(p)
BY SessionAssumption DEF SpendDelta, Decreased, SpendPoint, SpendKnown, Provider

(* The two transitions of a mechanical forecast: carried, or moved by a    *)
(* number.                                                                 *)
LEMMA DeltaTokensType ==
  ASSUME NEW p \in SpendPoint, NEW q \in SpendPoint, NEW spend \in Nat \cup {None}
  PROVE  /\ DeltaTokens(p, q, spend) \in Int \cup {None}
         /\ DeltaTokens(p, q, spend) = None <=> FallsBack(p, q, spend)
         /\ ~FallsBack(p, q, spend) =>
              /\ p.offset # None /\ q.offset # None /\ spend # None
              /\ DeltaTokens(p, q, spend) = p.offset - spend - q.offset
BY SessionAssumption DEF DeltaTokens, FallsBack, SpendPoint

(* A feature selection hides at most the counter.                          *)
LEMMA SessionPointType ==
  ASSUME TypeOK, NEW i \in 1..Len(points)
  PROVE  /\ points[i] \in SpendPoint
         /\ SessionPoint(i) \in SpendPoint
         /\ SessionPoint(i).offset = points[i].offset
         /\ SessionPoint(i).missing \in {points[i].missing, None}
<1>1. points[i] \in SpendPoint
  BY DEF TypeOK
<1>2. CASE i = 1 \/ keepsCounter
  BY <1>1, <1>2 DEF SessionPoint
<1>3. CASE ~(i = 1 \/ keepsCounter)
  BY <1>1, <1>3 DEF SessionPoint, SpendPoint
<1> QED BY <1>1, <1>2, <1>3

(* The checks before the first store imply the checks after it.            *)
LEMMA CallsArePredictable ==
  ASSUME TypeOK, NEW i \in 2..Len(points), Calls(i)
  PROVE  Predictable(i)
<1>1. previous = lastPoint /\ i > previous /\ ~Decreased(points[previous], points[i])
  BY DEF Calls, DriverAccepts, SessionAccepts
<1>2. i \in 1..Len(points) /\ lastPoint \in 1..Len(points) /\ Len(points) \in Nat
  BY DEF TypeOK
<1>3. ~CounterDecreased(points[lastPoint], points[i])
  BY <1>1 DEF Decreased
<1>4. ~CounterDecreased(SessionPoint(lastPoint), SessionPoint(i))
  BY <1>2, <1>3, SessionPointType DEF CounterDecreased
<1> QED BY <1>1, <1>4 DEF Predictable

(* A point whose operands are known has numbers for operands.              *)
LEMMA KnownAreNumbers ==
  ASSUME NEW p \in SpendPoint, SpendKnown(p), p.offset # None
  PROVE  Provider(p) \in Nat /\ p.offset \in Nat
<1>1. p.input \in Nat /\ p.output \in Nat /\ p.offset \in Nat
  BY DEF SpendPoint, SpendKnown
<1> QED BY <1>1 DEF Provider

(* A deduction written with the provider total at its two ends.            *)
LEMMA Deducts ==
  ASSUME NEW f1 \in Nat, NEW f0 \in Nat, NEW o1 \in Nat, NEW o2 \in Nat,
         NEW t1 \in Nat, NEW t2 \in Nat, NEW spend, spend = t2 - t1,
         f1 >= f0 + (o1 - spend - o2)
  PROVE  f1 >= f0 + o1 + t1 - t2 - o2
OBVIOUS

(* The forecast after an answered or half-answered call.                   *)
LEMMA CommitBounds ==
  ASSUME TypeOK, NEW i \in 2..Len(points), Calls(i), NEW residual \in Int,
         CommitSession(i, residual)
  PROVE  /\ lastForecast' \in Nat
         /\ fallbacks' \in Nat
         /\ fallbacks' = 0 =>
              /\ fallbacks = 0
              /\ SpendKnown(points[previous]) /\ points[previous].offset # None
              /\ SpendKnown(points[i]) /\ points[i].offset # None
              /\ residual = 0 =>
                   lastForecast' >= lastForecast + points[previous].offset
                                      + Provider(points[previous])
                                      - Provider(points[i]) - points[i].offset
<1> DEFINE p == SessionPoint(lastPoint)
           q == SessionPoint(i)
           d == DeltaTokens(p, q, Spend(i))
<1>1. previous = lastPoint /\ ~Decreased(points[previous], points[i])
  BY DEF Calls, DriverAccepts, SessionAccepts
<1>2. i \in 1..Len(points) /\ lastPoint \in 1..Len(points) /\ Len(points) \in Nat
  BY DEF TypeOK
<1>3. /\ points[previous] \in SpendPoint /\ points[i] \in SpendPoint
      /\ p \in SpendPoint /\ q \in SpendPoint
      /\ p.offset = points[previous].offset /\ q.offset = points[i].offset
  BY <1>1, <1>2, SessionPointType
<1>4. /\ Spend(i) \in Nat \cup {None}
      /\ Spend(i) # None =>
           /\ SpendKnown(points[previous]) /\ SpendKnown(points[i])
           /\ Spend(i) = Provider(points[i]) - Provider(points[previous])
  BY <1>1, <1>3, SpendDeltaType DEF Spend
<1>5. /\ d \in Int \cup {None}
      /\ d = None <=> Carried(i)
      /\ ~Carried(i) => /\ p.offset # None /\ q.offset # None /\ Spend(i) # None
                        /\ d = p.offset - Spend(i) - q.offset
  BY <1>3, <1>4, DeltaTokensType DEF Carried
<1>6. lastForecast \in Nat /\ fallbacks \in Nat
  BY DEF TypeOK
<1>7. Mechanical(i) = IF d = None THEN lastForecast ELSE lastForecast + d
  BY DEF Mechanical
<1>8. Mechanical(i) \in Int
  BY <1>5, <1>6, <1>7
<1>9. /\ lastForecast' \in Nat
      /\ residual = 0 => lastForecast' >= Mechanical(i)
  BY <1>8 DEF CommitSession, Repaired
<1>10. fallbacks' = IF Carried(i) THEN fallbacks + 1 ELSE fallbacks
  BY DEF CommitSession, CountFallback
<1>11. ASSUME fallbacks' = 0
       PROVE  fallbacks = 0 /\ ~Carried(i)
  BY <1>6, <1>10, <1>11
<1>12. ASSUME ~Carried(i), residual = 0
       PROVE  lastForecast' >= lastForecast + points[previous].offset
                                + Provider(points[previous])
                                - Provider(points[i]) - points[i].offset
  <2>1. lastForecast' >= lastForecast + (p.offset - Spend(i) - q.offset)
    BY <1>5, <1>7, <1>9, <1>12, SessionAssumption
  <2>2. Spend(i) = Provider(points[i]) - Provider(points[previous])
    BY <1>4, <1>5, <1>12
  <2>3. /\ Provider(points[i]) \in Nat /\ Provider(points[previous]) \in Nat
        /\ points[previous].offset \in Nat /\ points[i].offset \in Nat
    BY <1>3, <1>4, <1>5, <1>12, KnownAreNumbers
  <2>4. lastForecast' >= lastForecast + (points[previous].offset - Spend(i) - points[i].offset)
    BY <1>3, <2>1
  <2> HIDE DEF p, q, d
  <2> QED BY <1>6, <1>9, <2>2, <2>3, <2>4, Deducts
<1> QED BY <1>3, <1>4, <1>5, <1>6, <1>9, <1>10, <1>11, <1>12

-----------------------------------------------------------------------------
(* A boundary that becomes visible changes no earlier one.                 *)
LEMMA ReachKeeps ==
  ASSUME IInv, NEW round \in Rounds, ReachBoundary(round)
  PROVE  IInv'
<1>1. /\ Len(points) \in Nat \ {0} /\ points \in Seq(SpendPoint)
      /\ points[Len(points)] \in SpendPoint
  BY DEF IInv, TypeOK
<1> DEFINE p == points[Len(points)]
           next == [ missing |-> Plus(p.missing, round.missing),
                     input   |-> Plus(p.input, round.spent),
                     output  |-> p.output,
                     offset  |-> round.offset ]
<1>2. next \in SpendPoint
  BY <1>1, SessionAssumption DEF SpendPoint, Plus
<1>3. points' = Append(points, next)
  BY DEF ReachBoundary
<1> HIDE DEF next
<1>4. /\ points' \in Seq(SpendPoint) /\ Len(points') = Len(points) + 1
      /\ \A i \in 1..Len(points) : points'[i] = points[i]
  BY <1>1, <1>2, <1>3
<1>5. UNCHANGED <<keepsCounter, previous, sessionVars, shadowVars, failed>> /\ Len(points) < MaxPoints
  BY DEF ReachBoundary
<1>6. TypeOK'
  BY <1>1, <1>4, <1>5 DEF IInv, TypeOK, sessionVars, shadowVars
<1>7. StepInv' /\ OrderInv' /\ SinkSeesTrueNumbers'
  <2>1. UNCHANGED <<previous, lastPoint, pending, failed, ordinal, received, forecasts>>
    BY <1>5 DEF sessionVars, shadowVars
  <2>2. Len(points') <= MaxPoints
    BY <1>1, <1>4, <1>5, SessionAssumption
  <2>3. StepInv'
    BY <2>1, <2>2 DEF IInv, StepInv, LastAnswered, OnlyFailuresBreakStep, OutOfStep
  <2>4. OrderInv' /\ SinkSeesTrueNumbers'
    BY <2>1 DEF IInv, OrderInv, SinkSeesTrueNumbers
  <2> QED BY <2>3, <2>4
<1>8. points'[1] = points[1] /\ points'[lastPoint] = points[lastPoint]
  BY <1>1, <1>4 DEF IInv, TypeOK
<1>9. SpendInv'
  BY <1>5, <1>8 DEF IInv, SpendInv, SpendKnown, Provider, sessionVars, shadowVars,
                    OnlyMechanical, OutOfStep
<1> QED BY <1>6, <1>7, <1>9 DEF IInv

(* The bound carries over an answer: the deltas telescope.                 *)
LEMMA CommitKeepsSpend ==
  ASSUME IInv, NEW i \in 2..Len(points), Calls(i), NEW residual \in Residuals,
         CommitSession(i, residual), UNCHANGED points,
         OnlyMechanical' => OnlyMechanical /\ residual = 0
  PROVE  SpendInv'
<1>1. TypeOK /\ SpendInv /\ residual \in Int /\ previous = lastPoint
  BY SessionAssumption DEF IInv, Calls, SessionAccepts
<1>2. lastPoint' = i /\ i > 1 /\ points' = points
  BY DEF CommitSession
<1>3. SUFFICES ASSUME OnlyMechanical, residual = 0, fallbacks' = 0
               PROVE  /\ SpendKnown(points[1]) /\ points[1].offset # None
                      /\ SpendKnown(points[i]) /\ points[i].offset # None
                      /\ lastForecast' >=
                           SeedForecast + points[1].offset + Provider(points[1])
                             - Provider(points[i]) - points[i].offset
  BY <1>1, <1>2 DEF SpendInv
<1>4. /\ fallbacks = 0 /\ lastForecast' \in Nat
      /\ SpendKnown(points[lastPoint]) /\ points[lastPoint].offset # None
      /\ SpendKnown(points[i]) /\ points[i].offset # None
      /\ lastForecast' >= lastForecast + points[lastPoint].offset
                            + Provider(points[lastPoint])
                            - Provider(points[i]) - points[i].offset
  BY <1>1, <1>3, CommitBounds
<1>5. /\ lastForecast \in Nat /\ SeedForecast \in Nat
      /\ points[1] \in SpendPoint /\ points[lastPoint] \in SpendPoint
      /\ points[i] \in SpendPoint
      /\ lastPoint \in 1..Len(points)
  BY <1>1, SessionAssumption DEF TypeOK
<1>6. CASE lastPoint = 1
  BY <1>1, <1>4, <1>5, <1>6 DEF SpendInv
<1>7. CASE lastPoint > 1
  <2>1. /\ SpendKnown(points[1]) /\ points[1].offset # None
        /\ lastForecast >= SeedForecast + points[1].offset + Provider(points[1])
                              - Provider(points[lastPoint]) - points[lastPoint].offset
    BY <1>1, <1>3, <1>4, <1>7 DEF SpendInv
  <2>2. /\ Provider(points[1]) \in Nat /\ points[1].offset \in Nat
        /\ Provider(points[lastPoint]) \in Nat /\ points[lastPoint].offset \in Nat
        /\ Provider(points[i]) \in Nat /\ points[i].offset \in Nat
    BY <1>4, <1>5, <2>1, KnownAreNumbers
  <2>3. lastForecast' >= SeedForecast + points[1].offset + Provider(points[1])
                           - Provider(points[i]) - points[i].offset
    <3> DEFINE o0 == points[1].offset
               o1 == points[lastPoint].offset
               o2 == points[i].offset
               t0 == Provider(points[1])
               t1 == Provider(points[lastPoint])
               t2 == Provider(points[i])
               f2 == lastForecast'
    <3>1. /\ o0 \in Nat /\ o1 \in Nat /\ o2 \in Nat
          /\ t0 \in Nat /\ t1 \in Nat /\ t2 \in Nat
          /\ f2 \in Nat
      BY <1>4, <2>2
    <3>2. lastForecast >= SeedForecast + o0 + t0 - t1 - o1
      BY <2>1
    <3>3. f2 >= lastForecast + o1 + t1 - t2 - o2
      BY <1>4
    <3> HIDE DEF o0, o1, o2, t0, t1, t2, f2
    <3>4. f2 >= SeedForecast + o0 + t0 - t2 - o2
      BY <1>5, <3>1, <3>2, <3>3
    <3> QED BY <3>4 DEF o0, t0, t2, o2, f2
  <2> QED BY <1>4, <2>1, <2>3
<1> QED BY <1>5, <1>6, <1>7

(* A raising predict leaves a pending transition and a failure behind.     *)
LEMMA PredictFailsKeeps ==
  ASSUME IInv, NEW i \in 2..Len(points), PredictFails(i)
  PROVE  IInv'
<1>1. TypeOK /\ Calls(i) /\ Predictable(i)
  BY CallsArePredictable DEF IInv, PredictFails
<1>2. /\ failed' = TRUE /\ fallbacks' \in {fallbacks, fallbacks + 1}
      /\ fallbacks \in Nat
      /\ UNCHANGED <<keepsCounter, points, previous, lastPoint, lastForecast, shadowVars>>
  BY <1>1 DEF PredictFails, TypeOK
<1>3. Spend(i) \in Nat \cup {None}
  BY <1>1, SpendDeltaType DEF Spend, Calls, DriverAccepts, TypeOK
<1>4. pending' \in Transition
  BY <1>1, <1>3 DEF PredictFails, Observed, Transition, TypeOK
<1>5. TypeOK'
  BY <1>1, <1>2, <1>4 DEF TypeOK, shadowVars
<1>6. StepInv' /\ OrderInv' /\ SinkSeesTrueNumbers'
  BY <1>2 DEF IInv, StepInv, OrderInv, SinkSeesTrueNumbers, LastAnswered,
              OnlyFailuresBreakStep, shadowVars
<1>7. ~OnlyMechanical'
  BY <1>4, SessionAssumption DEF OnlyMechanical, OutOfStep
<1>8. SpendInv'
  BY <1>2, <1>7 DEF IInv, SpendInv
<1> QED BY <1>5, <1>6, <1>8 DEF IInv

(* A raising calibrator leaves the session ahead of its driver.            *)
LEMMA CalibratorFailsKeeps ==
  ASSUME IInv, NEW i \in 2..Len(points), NEW residual \in Residuals,
         CalibratorFails(i, residual)
  PROVE  IInv'
<1>1. /\ TypeOK /\ Calls(i) /\ CommitSession(i, residual) /\ residual \in Int
      /\ failed' = TRUE /\ UNCHANGED <<keepsCounter, points, previous, shadowVars>>
  BY SessionAssumption DEF IInv, CalibratorFails
<1>2. lastForecast' \in Nat /\ fallbacks' \in Nat
  BY <1>1, CommitBounds
<1>3. lastPoint' = i /\ pending' = None /\ i > previous
  BY <1>1 DEF CommitSession, Calls, DriverAccepts
<1>4. TypeOK'
  BY <1>1, <1>2, <1>3 DEF TypeOK, shadowVars
<1>5. StepInv' /\ OrderInv' /\ SinkSeesTrueNumbers'
  BY <1>1, <1>3 DEF IInv, TypeOK, StepInv, OrderInv, SinkSeesTrueNumbers, LastAnswered,
                    OnlyFailuresBreakStep, shadowVars
<1>6. SpendInv'
  BY <1>1, <1>3, CommitKeepsSpend DEF OnlyMechanical, OutOfStep, IInv, TypeOK
<1> QED BY <1>4, <1>5, <1>6 DEF IInv

(* An answered boundary takes the next number, whether the sink took it or *)
(* not.                                                                    *)
LEMMA AnswerKeeps ==
  ASSUME IInv, NEW i \in 2..Len(points), NEW residual \in Residuals,
         NEW taken \in BOOLEAN, AnswerBoundary(i, residual, taken)
  PROVE  IInv'
<1>1. /\ TypeOK /\ Calls(i) /\ CommitSession(i, residual) /\ residual \in Int
      /\ previous' = i /\ UNCHANGED <<keepsCounter, points, failed>> /\ Emit(i, taken)
  BY SessionAssumption DEF IInv, AnswerBoundary
<1>2. lastForecast' \in Nat /\ fallbacks' \in Nat
  BY <1>1, CommitBounds
<1>3. lastPoint' = i /\ pending' = None /\ i > previous /\ i \in Nat
  BY <1>1 DEF CommitSession, Calls, DriverAccepts
<1> DEFINE answer == [point |-> i, residual |-> residual]
           number == [ordinal |-> ordinal + 1, point |-> i]
<1>4. /\ forecasts' = Append(forecasts, answer)
      /\ forecasts' \in Seq([point : Nat, residual : Int])
      /\ Len(forecasts') = Len(forecasts) + 1 /\ Len(forecasts) \in Nat
      /\ forecasts'[Len(forecasts) + 1].point = i
      /\ \A k \in 1..Len(forecasts) : forecasts'[k] = forecasts[k]
  BY <1>1, <1>3 DEF AnswerBoundary, TypeOK
<1>5. /\ ordinal' = ordinal + 1
      /\ received' = received \/ received' = Append(received, number)
  BY <1>1 DEF Emit
<1>6. TypeOK'
  <2>1. ordinal \in Nat /\ received \in Seq([ordinal : Nat, point : Nat])
    BY <1>1 DEF TypeOK
  <2>5. number \in [ordinal : Nat, point : Nat]
    BY <1>3, <2>1
  <2> HIDE DEF number
  <2>2. received' \in Seq([ordinal : Nat, point : Nat]) /\ ordinal' \in Nat
    <3>1. Append(received, number) \in Seq([ordinal : Nat, point : Nat])
      BY <2>1, <2>5
    <3>2. received' \in Seq([ordinal : Nat, point : Nat])
      BY <1>5, <2>1, <3>1, Zenon
    <3>3. ordinal' \in Nat
      BY <1>5, <2>1
    <3> QED BY <3>2, <3>3
  <2>3. previous' \in 1..Len(points') /\ lastPoint' \in 1..Len(points')
    BY <1>1, <1>3
  <2>4. points' \in Seq(SpendPoint) /\ failed' \in BOOLEAN /\ keepsCounter' \in BOOLEAN
    BY <1>1 DEF TypeOK
  <2> QED BY <1>2, <1>3, <1>4, <2>2, <2>3, <2>4 DEF TypeOK
<1>12. /\ previous \in Nat
       /\ \A k \in 1..Len(forecasts) : forecasts[k].point \in Nat
  <2>1. previous \in 1..Len(points) /\ Len(points) \in Nat
    BY <1>1 DEF TypeOK
  <2>2. forecasts \in Seq([point : Nat, residual : Int])
    BY <1>1 DEF TypeOK
  <2>3. \A k \in 1..Len(forecasts) : forecasts[k] \in [point : Nat, residual : Int]
    BY <2>2, ElementOfSeq
  <2> QED BY <2>1, <2>3
<1>13. \A k \in 1..Len(forecasts) : forecasts[k].point < i
  BY <1>3, <1>12 DEF IInv, OrderInv
<1>14. /\ Len(forecasts') = Len(forecasts) + 1 /\ Len(forecasts) \in Nat
       /\ forecasts'[Len(forecasts) + 1].point = i
       /\ \A k \in 1..Len(forecasts) : forecasts'[k] = forecasts[k]
  BY <1>4
<1>7. OrderInv'
  <2>1. /\ ordinal = Len(forecasts)
        /\ \A j, k \in 1..Len(forecasts) : j < k => forecasts[j].point < forecasts[k].point
    BY DEF IInv, OrderInv
  <2>2. \A j, k \in 1..Len(forecasts') : j < k => forecasts'[j].point < forecasts'[k].point
    BY <1>13, <1>14, <2>1
  <2>3. \A k \in 1..Len(forecasts') : forecasts'[k].point <= i
    BY <1>3, <1>12, <1>13, <1>14, SMTT(30)
  <2> QED BY <1>1, <1>14, <1>5, <2>1, <2>2, <2>3 DEF OrderInv
<1>8. forecasts' # << >>
  BY <1>4
<1>9. StepInv'
  BY <1>1, <1>3, <1>4, <1>8
     DEF IInv, StepInv, LastAnswered, OnlyFailuresBreakStep, OutOfStep
<1>10. SinkSeesTrueNumbers'
  <2>1. \A k \in 1..Len(received) :
          /\ received[k].ordinal \in 1..Len(forecasts)
          /\ forecasts[received[k].ordinal].point = received[k].point
    BY DEF IInv, SinkSeesTrueNumbers
  <2>2. \A k \in 1..Len(received) :
          /\ received[k].ordinal \in 1..Len(forecasts')
          /\ forecasts'[received[k].ordinal].point = received[k].point
          /\ received[k].ordinal < Len(forecasts) + 1
          /\ received[k].point < i
    <3> SUFFICES ASSUME NEW k \in 1..Len(received), NEW n, n = received[k].ordinal
                 PROVE  /\ n \in 1..Len(forecasts')
                        /\ forecasts'[n].point = received[k].point
                        /\ n < Len(forecasts) + 1
                        /\ received[k].point < i
      OBVIOUS
    <3>1. n \in 1..Len(forecasts) /\ forecasts[n].point = received[k].point
      BY <2>1
    <3> QED BY <1>13, <1>14, <3>1
  <2>3. \A j, k \in 1..Len(received) :
          j < k => /\ received[j].ordinal < received[k].ordinal
                   /\ received[j].point < received[k].point
    BY DEF IInv, SinkSeesTrueNumbers
  <2>4. CASE received' = received
    BY <2>2, <2>3, <2>4 DEF SinkSeesTrueNumbers
  <2>5. CASE received' = Append(received, number)
    <3>1. /\ Len(received') = Len(received) + 1 /\ Len(received) \in Nat
          /\ received'[Len(received) + 1] = number
          /\ \A k \in 1..Len(received) : received'[k] = received[k]
      BY <1>1, <1>3, <2>5 DEF TypeOK
    <3>2. number.ordinal = Len(forecasts) + 1 /\ number.point = i
      BY DEF IInv, OrderInv
    <3> HIDE DEF number
    <3>3. /\ number.ordinal \in 1..Len(forecasts')
          /\ forecasts'[number.ordinal].point = number.point
      BY <1>14, <3>2
    <3>4. \A k \in 1..Len(received') :
            /\ received'[k].ordinal \in 1..Len(forecasts')
            /\ forecasts'[received'[k].ordinal].point = received'[k].point
      <4> SUFFICES ASSUME NEW k \in 1..Len(received')
                   PROVE  /\ received'[k].ordinal \in 1..Len(forecasts')
                          /\ forecasts'[received'[k].ordinal].point = received'[k].point
        OBVIOUS
      <4>1. CASE k \in 1..Len(received)
        BY <2>2, <3>1, <4>1
      <4>2. CASE k = Len(received) + 1
        BY <3>1, <3>3, <4>2
      <4> QED BY <3>1, <4>1, <4>2
    <3>5. \A j, k \in 1..Len(received') :
            j < k => /\ received'[j].ordinal < received'[k].ordinal
                     /\ received'[j].point < received'[k].point
      <4> SUFFICES ASSUME NEW j \in 1..Len(received'), NEW k \in 1..Len(received'), j < k
                   PROVE  /\ received'[j].ordinal < received'[k].ordinal
                          /\ received'[j].point < received'[k].point
        OBVIOUS
      <4>1. j \in 1..Len(received) /\ received'[j] = received[j]
        BY <3>1
      <4>2. CASE k \in 1..Len(received)
        <5>1. received'[k] = received[k]
          BY <3>1, <4>2
        <5> QED
          BY <2>3, <4>1, <4>2, <5>1
      <4>3. CASE k = Len(received) + 1
        <5>1. received'[k].ordinal = Len(forecasts) + 1 /\ received'[k].point = i
          BY <3>1, <3>2, <4>3
        <5>2. received[j].ordinal < Len(forecasts) + 1 /\ received[j].point < i
          BY <2>2, <4>1
        <5> QED
          BY <4>1, <5>1, <5>2
      <4> QED BY <3>1, <4>2, <4>3
    <3> QED BY <3>4, <3>5 DEF SinkSeesTrueNumbers
  <2> QED BY <1>5, <2>4, <2>5
<1>11. SpendInv'
  <2>1. ~OutOfStep
    BY <1>1 DEF Calls, SessionAccepts, OutOfStep
  <2>2. OnlyMechanical' => OnlyMechanical /\ residual = 0
    BY <1>4, <2>1 DEF OnlyMechanical
  <2> QED BY <1>1, <2>2, CommitKeepsSpend
<1> QED BY <1>6, <1>7, <1>9, <1>10, <1>11 DEF IInv

-----------------------------------------------------------------------------
LEMMA InitIsSafe == Init => IInv
<1> SUFFICES ASSUME Init PROVE IInv
  OBVIOUS
<1>1. /\ Len(points) = 1 /\ points[1] = TaskPre /\ points \in Seq(SpendPoint)
      /\ Len(forecasts) = 0 /\ Len(received) = 0
  BY SessionAssumption DEF Init
<1>2. TypeOK
  <2>1. /\ received \in Seq([ordinal : Nat, point : Nat])
        /\ forecasts \in Seq([point : Nat, residual : Int])
    BY DEF Init
  <2>2. previous \in 1..Len(points) /\ lastPoint \in 1..Len(points)
    BY <1>1 DEF Init
  <2> QED BY <1>1, <2>1, <2>2, SessionAssumption DEF Init, TypeOK
<1>3. StepInv /\ OrderInv /\ SinkSeesTrueNumbers
  BY <1>1, SessionAssumption
     DEF Init, StepInv, OrderInv, SinkSeesTrueNumbers, LastAnswered,
         OnlyFailuresBreakStep, OutOfStep
<1>4. SpendInv
  BY <1>1 DEF Init, SpendInv
<1> QED BY <1>2, <1>3, <1>4 DEF IInv

LEMMA NextIsSafe == IInv /\ [Next]_vars => IInv'
<1> SUFFICES ASSUME IInv, [Next]_vars PROVE IInv'
  OBVIOUS
<1>1. ASSUME NEW round \in Rounds, ReachBoundary(round)
      PROVE  IInv'
  BY <1>1, ReachKeeps
<1>2. ASSUME NEW i \in 2..Len(points), PredictFails(i)
      PROVE  IInv'
  BY <1>2, PredictFailsKeeps
<1>3. ASSUME NEW i \in 2..Len(points), NEW residual \in Residuals,
             CalibratorFails(i, residual)
      PROVE  IInv'
  BY <1>3, CalibratorFailsKeeps
<1>4. ASSUME NEW i \in 2..Len(points), NEW residual \in Residuals,
             NEW taken \in BOOLEAN, AnswerBoundary(i, residual, taken)
      PROVE  IInv'
  BY <1>4, AnswerKeeps
<1>5. ASSUME UNCHANGED vars
      PROVE  IInv'
  BY <1>5 DEF vars, sessionVars, shadowVars, IInv, TypeOK, StepInv, OrderInv,
              SinkSeesTrueNumbers, SpendInv, OnlyMechanical, LastAnswered, OnlyFailuresBreakStep,
              OutOfStep, SpendKnown, Provider
<1> QED BY <1>1, <1>2, <1>3, <1>4, <1>5 DEF Next, ObserveBoundary, RefuseBoundary

(* The invariant holds in every reachable state (lifecycle.py advance and  *)
(* online_shadow.py observe_boundary over any session with these steps).   *)
THEOREM Safety == Spec => []IInv
<1>1. Init => IInv BY InitIsSafe
<1>2. IInv /\ [Next]_vars => IInv' BY NextIsSafe
<1> QED BY <1>1, <1>2, PTL DEF Spec

(* Only a raising model or calibrator ever separates the driver from its   *)
(* session: the driver's own checks cover every check of the session.      *)
THEOREM OnlyFailuresBreak == Spec => []OnlyFailuresBreakStep
<1>1. IInv => OnlyFailuresBreakStep BY DEF IInv, StepInv
<1> QED BY <1>1, Safety, PTL

(* The sink never sees a number that stands for another forecast, nor      *)
(* boundaries out of order, however many predictions it lost.              *)
THEOREM NumbersAreTrue == Spec => []SinkSeesTrueNumbers
<1>1. IInv => SinkSeesTrueNumbers BY DEF IInv
<1> QED BY <1>1, Safety, PTL

(* Whatever boundaries the caller skipped, a mechanical forecast deducts   *)
(* what was spent since Task-pre once and no more.                         *)
THEOREM SkippedSpend == Spec => []SkippedSpendIsDeductedOnce
<1>1. IInv => SkippedSpendIsDeductedOnce
  BY DEF IInv, SpendInv, SkippedSpendIsDeductedOnce
<1> QED BY <1>1, Safety, PTL

(* Nothing is answered, numbered or emitted once driver and session are    *)
(* out of step.                                                            *)
THEOREM OutOfStepStays == Spec => OutOfStepIsFinal
<1>1. [Next]_vars => [OutOfStep => OutOfStep' /\ UNCHANGED <<lastForecast, shadowVars>>]_vars
  BY DEF Next, ReachBoundary, ObserveBoundary, RefuseBoundary, PredictFails, CalibratorFails,
         AnswerBoundary, Calls, SessionAccepts, OutOfStep, vars, sessionVars
<1> QED BY <1>1, PTL DEF Spec, OutOfStepIsFinal

-----------------------------------------------------------------------------
(* The forecast as a closed form over all answers.                         *)
AnsweredLater == \A k \in 1..Len(forecasts) : forecasts[k].point > 1

WalkInv == IInv /\ AnsweredLater /\ ForecastFollowsVisibleSpend

(* What is visible between two points, for a session that sees both        *)
(* counters or neither.                                                    *)
Visible(p, q) ==
  IF CountersEqual(p, q) /\ SpendKnown(p) /\ SpendKnown(q)
       /\ p.offset # None /\ q.offset # None
  THEN p.offset + Provider(p) - Provider(q) - q.offset
  ELSE 0

(* What a session that answered n boundaries gets of it.                   *)
Hidden(n) == n = 0 /\ ~keepsCounter /\ points[1].missing # None

Delta(n, p, q) == IF Hidden(n) THEN 0 ELSE Visible(p, q)

(* What becomes visible between two points is a number, known or not.      *)
LEMMA VisibleType ==
  ASSUME NEW p \in SpendPoint, NEW q \in SpendPoint
  PROVE  Visible(p, q) \in Int
<1>1. CASE SpendKnown(p) /\ SpendKnown(q) /\ p.offset # None /\ q.offset # None
  BY <1>1, KnownAreNumbers DEF Visible
<1>2. CASE ~(SpendKnown(p) /\ SpendKnown(q) /\ p.offset # None /\ q.offset # None)
  BY <1>2 DEF Visible
<1> QED BY <1>1, <1>2

(* Answers are of boundaries, and the deltas between them are numbers.     *)
AnswerFacts ==
  /\ Len(forecasts) \in Nat
  /\ previous = Origin(Len(forecasts) + 1)
  /\ \A k \in 1..Len(forecasts) :
       /\ forecasts[k].point \in 2..Len(points)
       /\ forecasts[k].residual \in Int
       /\ Origin(k) \in 1..Len(points)
       /\ TrueDelta(k) = Delta(k - 1, points[Origin(k)], points[forecasts[k].point])
       /\ Moved[k] = TrueDelta(k) + forecasts[k].residual
       /\ Moved[k] \in Int

LEMMA AnswerTypes == IInv /\ AnsweredLater => AnswerFacts
<1> SUFFICES ASSUME IInv, AnsweredLater PROVE AnswerFacts
  OBVIOUS
<1>1. /\ Len(forecasts) \in Nat /\ Len(points) \in Nat
      /\ previous \in 1..Len(points)
      /\ forecasts = << >> <=> Len(forecasts) = 0
  BY EmptySeq, LenProperties DEF IInv, TypeOK
<1>2. \A k \in 1..Len(forecasts) :
        /\ forecasts[k].point \in Nat
        /\ forecasts[k].residual \in Int
  <2>1. \A k \in 1..Len(forecasts) : forecasts[k] \in [point : Nat, residual : Int]
    BY ElementOfSeq DEF IInv, TypeOK
  <2> QED BY <2>1
<1>3. \A k \in 1..Len(forecasts) : forecasts[k].point \in 2..Len(points)
  BY <1>1, <1>2 DEF IInv, OrderInv, AnsweredLater
<1>4. \A k \in 1..Len(forecasts) : Origin(k) \in 1..Len(points)
  <2> SUFFICES ASSUME NEW k \in 1..Len(forecasts) PROVE Origin(k) \in 1..Len(points)
    OBVIOUS
  <2>1. CASE k = 1
    BY <1>1, <2>1 DEF Origin
  <2>2. CASE k > 1
    <3>1. k - 1 \in 1..Len(forecasts)
      BY <1>1, <2>2
    <3> QED BY <1>1, <1>3, <2>2, <3>1 DEF Origin
  <2> QED BY <1>1, <2>1, <2>2
<1>5. ASSUME NEW k \in 1..Len(forecasts)
      PROVE  TrueDelta(k) = Delta(k - 1, points[Origin(k)], points[forecasts[k].point])
  BY <1>1 DEF TrueDelta, Delta, Visible, SelectionHides, Hidden
<1>6. ASSUME NEW k \in 1..Len(forecasts) PROVE TrueDelta(k) \in Int
  <2>1. points[Origin(k)] \in SpendPoint /\ points[forecasts[k].point] \in SpendPoint
    <3>1. \A j \in 1..Len(points) : points[j] \in SpendPoint
      BY DEF IInv, TypeOK
    <3>2. Origin(k) \in 1..Len(points) /\ forecasts[k].point \in 1..Len(points)
      BY <1>1, <1>3, <1>4
    <3> QED BY <3>1, <3>2
  <2>2. Visible(points[Origin(k)], points[forecasts[k].point]) \in Int
    BY <2>1, VisibleType
  <2> QED BY <1>5, <2>2 DEF Delta
<1>7. previous = Origin(Len(forecasts) + 1)
  <2>1. CASE Len(forecasts) = 0
    BY <1>1, <2>1 DEF IInv, StepInv, LastAnswered, Origin
  <2>2. CASE Len(forecasts) # 0
    BY <1>1, <2>2 DEF IInv, StepInv, LastAnswered, Origin
  <2> QED BY <2>1, <2>2
<1> QED BY <1>1, <1>2, <1>3, <1>4, <1>5, <1>6, <1>7 DEF Moved, AnswerFacts

(* The masked comparison of the session and the canonical one of the       *)
(* driver agree, except over the first transition of a selection that      *)
(* drops the counter: there the session falls back.                        *)
LEMMA MechanicalIsVisible ==
  ASSUME IInv, AnsweredLater, NEW i \in 2..Len(points), Calls(i)
  PROVE  Mechanical(i) = lastForecast + Delta(Len(forecasts), points[previous], points[i])
<1> DEFINE P == points[previous]
           Q == points[i]
           p == SessionPoint(lastPoint)
           q == SessionPoint(i)
<1>1. /\ TypeOK /\ previous = lastPoint /\ ~Decreased(P, Q) /\ i > previous
      /\ Len(points) \in Nat /\ previous \in 1..Len(points) /\ lastForecast \in Nat
      /\ Len(forecasts) \in Nat
  BY LenProperties DEF IInv, TypeOK, Calls, DriverAccepts, SessionAccepts
<1>2. /\ P \in SpendPoint /\ Q \in SpendPoint /\ p \in SpendPoint /\ q \in SpendPoint
      /\ p.offset = P.offset /\ q.offset = Q.offset
      /\ p.missing = IF previous = 1 \/ keepsCounter THEN P.missing ELSE None
      /\ q.missing = IF keepsCounter THEN Q.missing ELSE None
  <2>1. /\ P \in SpendPoint /\ Q \in SpendPoint /\ p \in SpendPoint /\ q \in SpendPoint
        /\ p.offset = P.offset /\ q.offset = Q.offset
    BY <1>1, SessionPointType
  <2>2. p.missing = IF previous = 1 \/ keepsCounter THEN P.missing ELSE None
    BY <1>1, <2>1 DEF SessionPoint, SpendPoint
  <2>3. q.missing = IF keepsCounter THEN Q.missing ELSE None
    <3>1. i # 1
      OBVIOUS
    <3>2. CASE keepsCounter
      BY <3>2 DEF SessionPoint
    <3>3. CASE ~keepsCounter
      BY <2>1, <3>1, <3>3 DEF SessionPoint, SpendPoint
    <3> QED BY <3>2, <3>3
  <2> QED BY <2>1, <2>2, <2>3
<1>3. previous = 1 <=> Len(forecasts) = 0
  <2>1. previous = Origin(Len(forecasts) + 1)
    BY AnswerTypes DEF AnswerFacts
  <2>2. CASE Len(forecasts) = 0
    BY <2>1, <2>2 DEF Origin
  <2>3. CASE Len(forecasts) # 0
    BY <1>1, <2>1, <2>3, AnswerTypes DEF Origin, AnswerFacts
  <2> QED BY <2>2, <2>3
<1>4. Hidden(Len(forecasts)) <=> previous = 1 /\ ~keepsCounter /\ P.missing # None
  BY <1>3 DEF Hidden
<1>5. /\ Spend(i) = SpendDelta(P, Q) /\ Spend(i) \in Nat \cup {None}
      /\ Spend(i) # None <=> CountersEqual(P, Q) /\ SpendKnown(P) /\ SpendKnown(Q)
      /\ Spend(i) # None => Spend(i) = Provider(Q) - Provider(P)
  <2>1. /\ Spend(i) = SpendDelta(P, Q) /\ Spend(i) \in Nat \cup {None}
        /\ Spend(i) # None => SpendKnown(P) /\ SpendKnown(Q)
                               /\ Spend(i) = Provider(Q) - Provider(P)
    BY <1>1, <1>2, SpendDeltaType DEF Spend
  <2>2. CountersEqual(P, Q) /\ SpendKnown(P) /\ SpendKnown(Q)
        => (Q.input + Q.output) - (P.input + P.output) # None
    BY <1>2, SessionAssumption DEF SpendPoint, SpendKnown
  <2> QED BY <2>1, <2>2 DEF SpendDelta
<1>6. ~Carried(i) <=> /\ ~Hidden(Len(forecasts))
                      /\ CountersEqual(P, Q) /\ SpendKnown(P) /\ SpendKnown(Q)
                      /\ P.offset # None /\ Q.offset # None
  <2>1. Carried(i) <=> \/ P.offset = None \/ Spend(i) = None \/ Q.offset = None
                       \/ (p.missing = None) # (q.missing = None)
                       \/ p.missing # None /\ q.missing # None /\ q.missing > p.missing
    BY <1>2 DEF Carried, FallsBack
  <2> HIDE DEF p, q
  <2>2. CASE ~CountersEqual(P, Q)
    BY <1>5, <2>1, <2>2
  <2>3. CASE CountersEqual(P, Q)
    <3>1. P.missing = Q.missing /\ P.missing # None /\ P.missing \in Nat
      BY <1>2, <2>3 DEF CountersEqual, SpendPoint
    <3>2. /\ (p.missing = None) # (q.missing = None) <=> previous = 1 /\ ~keepsCounter
          /\ ~(p.missing # None /\ q.missing # None /\ q.missing > p.missing)
      BY <1>2, <3>1
    <3> QED BY <1>4, <1>5, <2>1, <2>3, <3>1, <3>2
  <2> QED BY <2>2, <2>3
<1>7. Mechanical(i) = IF Carried(i) THEN lastForecast
                      ELSE lastForecast + (P.offset - Spend(i) - Q.offset)
  <2>1. P.offset - Spend(i) - Q.offset # None \/ Carried(i)
    BY <1>2, <1>5, SessionAssumption DEF Carried, FallsBack, SpendPoint
  <2> QED BY <1>2, <2>1 DEF Mechanical, DeltaTokens, Carried
<1> HIDE DEF p, q
<1>8. CASE Carried(i)
  BY <1>1, <1>6, <1>7, <1>8 DEF Delta, Visible
<1>9. CASE ~Carried(i)
  <2>1. Delta(Len(forecasts), P, Q) = P.offset + Provider(P) - Provider(Q) - Q.offset
    BY <1>6, <1>9 DEF Delta, Visible
  <2>2. /\ P.offset \in Nat /\ Q.offset \in Nat
        /\ Provider(P) \in Nat /\ Provider(Q) \in Nat
    BY <1>2, <1>6, <1>9, KnownAreNumbers
  <2>3. Spend(i) = Provider(Q) - Provider(P)
    BY <1>5, <1>6, <1>9
  <2>4. Mechanical(i) = lastForecast + Delta(Len(forecasts), P, Q)
    <3> HIDE DEF P, Q
    <3> QED BY <1>1, <1>7, <1>9, <2>1, <2>2, <2>3
  <2> QED BY <2>4
<1> QED BY <1>8, <1>9

(* An answer adds one term to the walk and changes none before it.         *)
Extends(n, move, residual) ==
  /\ AnsweredLater'
  /\ n \in Nat /\ Len(forecasts') = n + 1
  /\ \A k \in 1..n : forecasts'[k] = forecasts[k]
  /\ forecasts'[n + 1].residual = residual
  /\ \A k \in 1..n : forecasts[k].residual \in Int
  /\ move \in Int /\ residual \in Int
  /\ \A k \in 0..n : Walk(k)' = Walk(k) /\ Walk(k) \in Int
  /\ Walk(n + 1)' = Walk(n) + move + residual

LEMMA AnswerExtendsWalk ==
  ASSUME WalkInv, NEW i \in 2..Len(points), NEW residual \in Residuals,
         NEW taken \in BOOLEAN, AnswerBoundary(i, residual, taken),
         NEW n, n = Len(forecasts),
         NEW move, move = Delta(n, points[previous], points[i])
  PROVE  Extends(n, move, residual)
<1>1. /\ IInv /\ AnsweredLater /\ IInv' /\ residual \in Int
      /\ Calls(i) /\ UNCHANGED <<points, keepsCounter>>
      /\ forecasts' = Append(forecasts, [point |-> i, residual |-> residual])
      /\ i \in Nat /\ n \in Nat
  BY AnswerKeeps, SessionAssumption, LenProperties DEF WalkInv, AnswerBoundary, IInv, TypeOK
<1>2. /\ Len(forecasts') = n + 1
      /\ \A k \in 1..n : forecasts'[k] = forecasts[k]
      /\ forecasts'[n + 1] = [point |-> i, residual |-> residual]
  BY <1>1 DEF IInv, TypeOK
<1>3. AnsweredLater'
  BY <1>1, <1>2 DEF AnsweredLater
<1>4. \A k \in 1..n : /\ forecasts[k].residual \in Int
                      /\ Moved[k] \in Int
                      /\ Moved[k] = Delta(k - 1, points[Origin(k)], points[forecasts[k].point])
                                     + forecasts[k].residual
  BY <1>1, AnswerTypes DEF AnswerFacts
<1>5. \A k \in 1..(n + 1) :
        /\ Moved'[k] \in Int
        /\ Moved'[k] = Delta(k - 1, points[Origin(k)'], points[forecasts'[k].point])
                        + forecasts'[k].residual
  <2>1. \A k \in 1..Len(forecasts') :
          /\ Moved'[k] \in Int
          /\ TrueDelta(k)' = Delta(k - 1, points[Origin(k)], points[forecasts[k].point])'
          /\ Moved'[k] = TrueDelta(k)' + forecasts'[k].residual
    <3>1. AnswerFacts'
      BY <1>1, <1>3, AnswerTypes, PTL
    <3> QED BY <3>1 DEF AnswerFacts
  <2> QED BY <1>1, <1>2, <2>1 DEF Delta, Hidden
<1>6. \A k \in 1..(n + 1) : Origin(k)' = Origin(k)
  BY <1>1, <1>2 DEF Origin
<1>7. \A k \in 1..n : Moved'[k] = Moved[k]
  <2> SUFFICES ASSUME NEW k \in 1..n PROVE Moved'[k] = Moved[k]
    OBVIOUS
  <2>1. k \in 1..(n + 1) /\ forecasts'[k] = forecasts[k] /\ Origin(k)' = Origin(k)
    BY <1>1, <1>2, <1>6
  <2>2. Moved'[k] = Delta(k - 1, points[Origin(k)], points[forecasts[k].point])
                    + forecasts[k].residual
    BY <1>5, <2>1
  <2> QED BY <1>4, <2>2
<1>8. Moved'[n + 1] = move + residual
  <2>1. Origin(n + 1)' = previous
    BY <1>1, <1>6, AnswerTypes DEF AnswerFacts
  <2>2. Moved'[n + 1] = Delta(n, points[Origin(n + 1)'], points[forecasts'[n + 1].point])
                        + forecasts'[n + 1].residual
    BY <1>1, <1>5
  <2> QED BY <1>2, <2>1, <2>2
<1>9. move \in Int
  <2>1. points[previous] \in SpendPoint /\ points[i] \in SpendPoint
    BY <1>1, SMTT(30) DEF IInv, TypeOK
  <2>2. Visible(points[previous], points[i]) \in Int
    BY <2>1, VisibleType
  <2> QED BY <2>2 DEF Delta
<1>10. \A k \in 0..n : Walk(k)' = Walk(k) /\ Walk(k) \in Int
  <2> SUFFICES ASSUME NEW k \in 0..n PROVE Walk(k)' = Walk(k) /\ Walk(k) \in Int
    OBVIOUS
  <2>0. IsFiniteSet(1..k)
    BY <1>1, FS_Interval
  <2>1. IsFiniteSet(1..k) /\ \A x \in 1..k : Moved[x] \in Int /\ Moved'[x] = Moved[x]
    <3>1. \A x \in 1..k : x \in 1..n
      BY <1>1
    <3> QED BY <1>4, <1>7, <2>0, <3>1
  <2>2. SumFunctionOnSet(Moved, 1..k) \in Int
    BY <2>1, SumType
  <2>3. SumFunctionOnSet(Moved', 1..k) = SumFunctionOnSet(Moved, 1..k)
    BY <2>1, SumSame
  <2> QED BY <2>2, <2>3 DEF Walk
<1>11. Walk(n + 1)' = Walk(n) + (move + residual)
  <2>1. PICK M, N : M = Moved /\ N = Moved'
    OBVIOUS
  <2>2. n \in Nat /\ \A k \in 1..n : M[k] = N[k]
    BY <1>1, <1>7, <2>1
  <2>3. \A k \in 1..(n + 1) : N[k] \in Int
    BY <1>5, <2>1
  <2>4. SumFunctionOnSet(N, 1..(n + 1)) = SumFunctionOnSet(M, 1..n) + N[n + 1]
    BY <2>2, <2>3, SumNext
  <2> QED BY <1>8, <2>1, <2>4 DEF Walk
<1>12. Walk(n) \in Int
  BY <1>1, <1>10
<1> QED BY <1>1, <1>2, <1>3, <1>4, <1>9, <1>10, <1>11, <1>12 DEF Extends

(* The largest of the heights is the forecast: one more step, with a clamp *)
(* before and after the residual.                                          *)
Highest(value, n, W, r) ==
  /\ \/ value = SeedForecast + W[n]
     \/ \E k \in 1..n : value = W[n] - W[k]
     \/ \E k \in 1..n : value = W[n] - (W[k] - r[k])
  /\ SeedForecast + W[n] <= value
  /\ \A k \in 1..n : W[n] - W[k] <= value /\ W[n] - (W[k] - r[k]) <= value

LEMMA ClampedStep ==
  ASSUME NEW n \in Nat, NEW W, NEW V, NEW r, NEW s,
         NEW last \in Nat, NEW next, NEW move \in Int,
         \A k \in 0..n : W[k] \in Int /\ V[k] = W[k],
         \A k \in 1..n : r[k] \in Int /\ s[k] = r[k],
         s[n + 1] \in Int,
         V[n + 1] = W[n] + move + s[n + 1],
         next = Repaired(Repaired(last + move) + s[n + 1]),
         Highest(last, n, W, r)
  PROVE  Highest(next, n + 1, V, s)
<1> DEFINE D == move + s[n + 1]
<1>1. /\ D \in Int /\ V[n + 1] \in Int /\ V[n + 1] = W[n] + D /\ W[n] \in Int
      /\ \A k \in 1..n : /\ k \in 1..(n + 1) /\ k \in 0..n
                         /\ W[k] \in Int /\ V[k] = W[k] /\ r[k] \in Int /\ s[k] = r[k]
      /\ \A k \in 1..(n + 1) : k \in 1..n \/ k = n + 1
      /\ n + 1 \in 1..(n + 1) /\ SeedForecast \in Nat
  BY SessionAssumption
<1>2. /\ next = 0 \/ next = s[n + 1] \/ next = last + D
      /\ next >= 0 /\ next >= s[n + 1] /\ next >= last + D /\ next \in Int
  BY DEF Repaired
<1> HIDE DEF D
<1>3. \/ next = SeedForecast + V[n + 1]
      \/ \E k \in 1..(n + 1) : next = V[n + 1] - V[k]
      \/ \E k \in 1..(n + 1) : next = V[n + 1] - (V[k] - s[k])
  <2>1. CASE next = 0
    <3>1. next = V[n + 1] - V[n + 1]
      BY <1>1, <2>1
    <3> QED BY <1>1, <3>1
  <2>2. CASE next = s[n + 1]
    <3>1. next = V[n + 1] - (V[n + 1] - s[n + 1])
      BY <1>1, <2>2
    <3> QED BY <1>1, <3>1
  <2>3. CASE next = last + D
    <3>1. CASE last = SeedForecast + W[n]
      BY <1>1, <2>3, <3>1
    <3>2. ASSUME NEW k \in 1..n, last = W[n] - W[k]
          PROVE  \E j \in 1..(n + 1) : next = V[n + 1] - V[j]
      <4>1. next = V[n + 1] - V[k]
        BY <1>1, <2>3, <3>2
      <4> QED BY <1>1, <4>1
    <3>3. ASSUME NEW k \in 1..n, last = W[n] - (W[k] - r[k])
          PROVE  \E j \in 1..(n + 1) : next = V[n + 1] - (V[j] - s[j])
      <4>1. next = V[n + 1] - (V[k] - s[k])
        BY <1>1, <2>3, <3>3
      <4> QED BY <1>1, <4>1
    <3> QED BY <3>1, <3>2, <3>3 DEF Highest
  <2> QED BY <1>2, <2>1, <2>2, <2>3
<1>4. SeedForecast + V[n + 1] <= next
  <2>1. SeedForecast + W[n] <= last
    BY DEF Highest
  <2> QED BY <1>1, <1>2, <2>1
<1>5. ASSUME NEW k \in 1..(n + 1)
      PROVE  V[n + 1] - V[k] <= next /\ V[n + 1] - (V[k] - s[k]) <= next
  <2>1. CASE k = n + 1
    BY <1>1, <1>2, <2>1
  <2>2. CASE k \in 1..n
    <3>1. W[n] - W[k] <= last /\ W[n] - (W[k] - r[k]) <= last
      BY <2>2 DEF Highest
    <3> QED BY <1>1, <1>2, <2>2, <3>1
  <2> QED BY <1>1, <2>1, <2>2
<1> QED BY <1>3, <1>4, <1>5 DEF Highest

(* An answer extends the walk by the transition from the previous point:    *)
(* clamping the carried forecast once is clamping the whole walk.           *)
LEMMA AnswerKeepsWalk ==
  ASSUME WalkInv, NEW i \in 2..Len(points), NEW residual \in Residuals,
         NEW taken \in BOOLEAN, AnswerBoundary(i, residual, taken)
  PROVE  ForecastFollowsVisibleSpend'
<1>1. PICK n : n = Len(forecasts)
  OBVIOUS
<1>2. PICK move : move = Delta(n, points[previous], points[i])
  OBVIOUS
<1>3. PICK W : W = [k \in 0..n |-> Walk(k)]
  OBVIOUS
<1>4. PICK V : V = [k \in 0..(n + 1) |-> Walk(k)']
  OBVIOUS
<1>5. PICK r : r = [k \in 1..n |-> forecasts[k].residual]
  OBVIOUS
<1>6. PICK s : s = [k \in 1..(n + 1) |-> forecasts'[k].residual]
  OBVIOUS
<1>8. Extends(n, move, residual)
  BY <1>1, <1>2, AnswerExtendsWalk
<1>9. /\ n \in Nat /\ Len(forecasts') = n + 1
      /\ \A k \in 1..n : forecasts'[k] = forecasts[k]
      /\ forecasts'[n + 1].residual = residual
      /\ \A k \in 1..n : forecasts[k].residual \in Int
      /\ move \in Int /\ residual \in Int
      /\ \A k \in 0..n : Walk(k)' = Walk(k) /\ Walk(k) \in Int
      /\ Walk(n + 1)' = Walk(n) + move + residual
  BY <1>8 DEF Extends
<1>10. /\ \A k \in 0..n : W[k] = Walk(k) /\ W[k] \in Int /\ V[k] = W[k]
       /\ \A k \in 0..(n + 1) : V[k] = Walk(k)'
  BY <1>3, <1>4, <1>9
<1>11. /\ \A k \in 1..n : r[k] = forecasts[k].residual /\ r[k] \in Int /\ s[k] = r[k]
       /\ \A k \in 1..(n + 1) : s[k] = forecasts'[k].residual
       /\ s[n + 1] = residual
  BY <1>5, <1>6, <1>9
<1>12. V[n + 1] = W[n] + move + s[n + 1]
  BY <1>9, <1>10, <1>11
<1>13. /\ lastForecast \in Nat
       /\ lastForecast' = Repaired(Repaired(lastForecast + move) + s[n + 1])
       /\ ~OutOfStep
  <2>1. IInv /\ AnsweredLater /\ Calls(i) /\ CommitSession(i, residual)
    BY DEF WalkInv, AnswerBoundary
  <2>2. Mechanical(i) = lastForecast + move
    BY <1>1, <1>2, <2>1, MechanicalIsVisible
  <2> QED BY <1>11, <2>1, <2>2
          DEF CommitSession, IInv, TypeOK, Calls, SessionAccepts, OutOfStep
<1>14. Highest(lastForecast, n, W, r)
  <2>1. /\ \/ lastForecast = SeedForecast + Walk(n)
           \/ \E k \in 1..n : lastForecast = Walk(n) - Walk(k)
           \/ \E k \in 1..n : lastForecast = Walk(n) - (Walk(k) - forecasts[k].residual)
        /\ SeedForecast + Walk(n) <= lastForecast
        /\ \A k \in 1..n : /\ Walk(n) - Walk(k) <= lastForecast
                           /\ Walk(n) - (Walk(k) - forecasts[k].residual) <= lastForecast
    BY <1>1, <1>13 DEF WalkInv, ForecastFollowsVisibleSpend
  <2>2. /\ W[n] = Walk(n)
        /\ \A k \in 1..n : W[k] = Walk(k) /\ r[k] = forecasts[k].residual
    <3>1. n \in 0..n /\ \A k \in 1..n : k \in 0..n
      BY <1>9
    <3> QED BY <1>10, <1>11, <3>1
  <2> QED BY <2>1, <2>2 DEF Highest
<1>15. Highest(lastForecast', n + 1, V, s)
  <2>1. /\ \A k \in 0..n : W[k] \in Int /\ V[k] = W[k]
        /\ \A k \in 1..n : r[k] \in Int /\ s[k] = r[k]
        /\ s[n + 1] \in Int
    BY <1>9, <1>10, <1>11
  <2>2. PICK next : next = lastForecast'
    OBVIOUS
  <2>3. next = Repaired(Repaired(lastForecast + move) + s[n + 1])
    BY <1>13, <2>2
  <2>4. n \in Nat /\ move \in Int /\ lastForecast \in Nat
    BY <1>9, <1>13
  <2>5. Highest(next, n + 1, V, s)
    BY <1>12, <1>14, <2>1, <2>3, <2>4, ClampedStep
  <2> QED BY <2>2, <2>5
<1>16. /\ V[n + 1] = Walk(n + 1)'
       /\ \A k \in 1..(n + 1) : V[k] = Walk(k)' /\ s[k] = forecasts'[k].residual
  BY <1>9, <1>10, <1>11
<1>17. /\ \/ lastForecast' = SeedForecast + Walk(n + 1)'
          \/ \E k \in 1..(n + 1) : lastForecast' = Walk(n + 1)' - Walk(k)'
          \/ \E k \in 1..(n + 1) :
               lastForecast' = Walk(n + 1)' - (Walk(k)' - forecasts'[k].residual)
       /\ SeedForecast + Walk(n + 1)' <= lastForecast'
       /\ \A k \in 1..(n + 1) :
            /\ Walk(n + 1)' - Walk(k)' <= lastForecast'
            /\ Walk(n + 1)' - (Walk(k)' - forecasts'[k].residual) <= lastForecast'
  BY <1>15, <1>16 DEF Highest
<1> QED BY <1>9, <1>17 DEF ForecastFollowsVisibleSpend

(* Steps that answer nothing leave the walk where it is, or the session    *)
(* out of step.                                                            *)
LEMMA OthersKeepWalk ==
  ASSUME WalkInv, IInv', UNCHANGED <<forecasts, keepsCounter>>,
         \A k \in 1..Len(points) : points'[k] = points[k],
         ~OutOfStep' => ~OutOfStep /\ UNCHANGED lastForecast
  PROVE  WalkInv'
<1>1. IInv /\ AnsweredLater
  BY DEF WalkInv
<1>2. AnsweredLater'
  BY <1>1 DEF AnsweredLater
<1>3. Moved' = Moved
  <2>1. /\ \A k \in 1..Len(forecasts) :
             /\ Moved[k] = TrueDelta(k) + forecasts[k].residual
             /\ forecasts[k].point \in 1..Len(points)
             /\ Origin(k) \in 1..Len(points)
        /\ points'[1] = points[1]
    <3>1. 1 \in 1..Len(points) /\ Len(points) \in Nat
      BY <1>1 DEF IInv, TypeOK
    <3>2. AnswerFacts
      BY <1>1, AnswerTypes
    <3> QED BY <3>1, <3>2 DEF AnswerFacts
  <2>2. \A k \in 1..Len(forecasts) : TrueDelta(k)' = TrueDelta(k)
    <3> SUFFICES ASSUME NEW k \in 1..Len(forecasts) PROVE TrueDelta(k)' = TrueDelta(k)
      OBVIOUS
    <3>1. Origin(k)' = Origin(k) /\ forecasts'[k].point = forecasts[k].point
      BY DEF Origin
    <3>2. /\ points'[Origin(k)'] = points[Origin(k)]
          /\ points'[forecasts'[k].point] = points[forecasts[k].point]
      BY <2>1, <3>1
    <3> QED BY <2>1, <3>2 DEF TrueDelta, SelectionHides
  <2> QED BY <2>2 DEF Moved
<1>4. ForecastFollowsVisibleSpend'
  <2>1. CASE OutOfStep'
    BY <2>1 DEF ForecastFollowsVisibleSpend
  <2>2. CASE ~OutOfStep'
    BY <1>3, <2>2 DEF WalkInv, ForecastFollowsVisibleSpend, Walk
  <2> QED BY <2>1, <2>2
<1> QED BY <1>2, <1>4 DEF WalkInv

(* The closed form holds at first, and every step keeps it: only an answer  *)
(* moves the forecast.                                                      *)
LEMMA WalkInvHolds ==
  /\ Init => WalkInv
  /\ WalkInv /\ [Next]_vars => WalkInv'
<1>1. ASSUME Init PROVE WalkInv
  <2>1. Len(forecasts) = 0 /\ IInv
    BY <1>1, InitIsSafe DEF Init
  <2>2. Walk(0) = 0
    BY SumEmpty DEF Walk
  <2>3. lastForecast = SeedForecast /\ SeedForecast \in Nat
    BY <1>1, SessionAssumption DEF Init
  <2> QED BY <2>1, <2>2, <2>3 DEF WalkInv, AnsweredLater, ForecastFollowsVisibleSpend
<1>2. ASSUME WalkInv, [Next]_vars PROVE WalkInv'
  <2>1. IInv /\ IInv'
    BY <1>2, NextIsSafe DEF WalkInv
  <2>2. ASSUME NEW round \in Rounds, ReachBoundary(round)
        PROVE  WalkInv'
    <3>1. UNCHANGED <<forecasts, keepsCounter, lastForecast, lastPoint, previous, pending>>
      BY <2>2 DEF ReachBoundary, sessionVars, shadowVars
    <3>2. \A k \in 1..Len(points) : points'[k] = points[k]
      BY <2>1, <2>2 DEF ReachBoundary, IInv, TypeOK
    <3> QED BY <1>2, <2>1, <3>1, <3>2, OthersKeepWalk DEF OutOfStep
  <2>3. ASSUME NEW i \in 2..Len(points), PredictFails(i)
        PROVE  WalkInv'
    <3>1. UNCHANGED <<forecasts, keepsCounter, points, previous, lastPoint, lastForecast>> /\ ~OutOfStep
      BY <2>3 DEF PredictFails, Calls, SessionAccepts, OutOfStep, shadowVars
    <3> QED BY <1>2, <2>1, <3>1, OthersKeepWalk
  <2>4. ASSUME NEW i \in 2..Len(points), NEW residual \in Residuals,
               CalibratorFails(i, residual)
        PROVE  WalkInv'
    <3>1. UNCHANGED <<forecasts, keepsCounter, points>> /\ OutOfStep'
      BY <2>4 DEF CalibratorFails, CommitSession, Calls, DriverAccepts, OutOfStep, shadowVars
    <3> QED BY <1>2, <2>1, <3>1, OthersKeepWalk
  <2>5. ASSUME NEW i \in 2..Len(points), NEW residual \in Residuals,
               NEW taken \in BOOLEAN, AnswerBoundary(i, residual, taken)
        PROVE  WalkInv'
    <3>1. \E n, move : Extends(n, move, residual)
      BY <1>2, <2>5, AnswerExtendsWalk
    <3>2. AnsweredLater'
      BY <3>1 DEF Extends
    <3> QED BY <1>2, <2>1, <2>5, <3>2, AnswerKeepsWalk DEF WalkInv
  <2>6. CASE UNCHANGED vars
    BY <1>2, <2>1, <2>6, OthersKeepWalk DEF vars, sessionVars, OutOfStep, shadowVars
  <2> QED BY <1>2, <2>2, <2>3, <2>4, <2>5, <2>6 DEF Next, ObserveBoundary, RefuseBoundary
<1> QED BY <1>1, <1>2

(* The forecast a session in step carries is the clamped walk of what was  *)
(* visible and of the residuals (estimators/cross_position_deduct.py and   *)
(* gru.py predict), after any number of answers and whatever was skipped.  *)
THEOREM ForecastFollows == Spec => []ForecastFollowsVisibleSpend
<1>1. WalkInv => ForecastFollowsVisibleSpend BY DEF WalkInv
<1> QED BY <1>1, WalkInvHolds, PTL DEF Spec

-----------------------------------------------------------------------------
answers == [k \in 1..Len(forecasts) |-> forecasts[k].point]

(* An appended answer is an appended boundary of the promise.              *)
LEMMA AnswersAppend ==
  ASSUME forecasts \in Seq([point : Nat, residual : Int]),
         NEW i \in Nat, NEW residual \in Int,
         forecasts' = Append(forecasts, [point |-> i, residual |-> residual])
  PROVE  /\ answers \in Seq(Nat)
         /\ answers' = Append(answers, i)
<1>1. /\ Len(forecasts) \in Nat
      /\ \A k \in 1..Len(forecasts) : forecasts[k].point \in Nat
  <2>1. \A k \in 1..Len(forecasts) : forecasts[k] \in [point : Nat, residual : Int]
    BY ElementOfSeq
  <2> QED BY <2>1
<1>2. answers \in Seq(Nat) /\ Len(answers) = Len(forecasts)
  BY <1>1 DEF answers
<1> DEFINE answer == [point |-> i, residual |-> residual]
<1>3. /\ Len(forecasts') = Len(forecasts) + 1
      /\ forecasts'[Len(forecasts) + 1].point = i
      /\ \A k \in 1..Len(forecasts) : forecasts'[k] = forecasts[k]
  OBVIOUS
<1>4. /\ answers' \in Seq(Nat) /\ Len(answers') = Len(forecasts) + 1
      /\ \A k \in 1..Len(forecasts) + 1 :
           answers'[k] = IF k <= Len(forecasts) THEN forecasts[k].point ELSE i
  <2>1. answers' = [k \in 1..Len(forecasts) + 1 |-> forecasts'[k].point]
    BY <1>3 DEF answers
  <2>2. \A k \in 1..Len(forecasts) + 1 :
          /\ forecasts'[k].point = IF k <= Len(forecasts) THEN forecasts[k].point ELSE i
          /\ forecasts'[k].point \in Nat
    BY <1>1, <1>3
  <2> QED BY <1>1, <2>1, <2>2
<1>5. /\ Append(answers, i) \in Seq(Nat)
      /\ Len(Append(answers, i)) = Len(forecasts) + 1
      /\ \A k \in 1..Len(forecasts) + 1 :
           Append(answers, i)[k] = IF k <= Len(forecasts) THEN forecasts[k].point ELSE i
  BY <1>1, <1>2 DEF answers
<1>6. answers' = Append(answers, i)
  BY <1>4, <1>5, SeqEqual
<1> QED BY <1>2, <1>6

LEMMA AnswersLast ==
  ASSUME TypeOK
  PROVE  /\ answers = << >> <=> forecasts = << >>
         /\ forecasts # << >> => answers[Len(answers)] = forecasts[Len(forecasts)].point
<1>1. Len(forecasts) \in Nat /\ (forecasts = << >> <=> Len(forecasts) = 0)
  BY EmptySeq, LenProperties DEF TypeOK
<1>2. answers \in Seq(Nat) /\ Len(answers) = Len(forecasts)
  <2>1. forecasts \in Seq([point : Nat, residual : Int])
    BY DEF TypeOK
  <2>2. \A k \in 1..Len(forecasts) : forecasts[k] \in [point : Nat, residual : Int]
    BY <2>1, ElementOfSeq
  <2> QED BY <1>1, <2>2 DEF answers
<1>3. answers = << >> <=> Len(answers) = 0
  BY <1>1, <1>2, EmptySeq
<1>4. forecasts # << >> => Len(forecasts) \in 1..Len(forecasts)
  BY <1>1
<1> QED BY <1>1, <1>2, <1>3, <1>4 DEF answers

(* Every step of driver, session and shadow is a step of the promise or    *)
(* none.                                                                   *)
LEMMA StepsKeepPromise ==
  ASSUME IInv, [Next]_vars
  PROVE  [Promise!PromiseNext]_(Promise!promiseVars)
<1> USE DEF Promise!promiseVars
<1>1. TypeOK /\ OnlyFailuresBreakStep /\ previous = LastAnswered
  BY DEF IInv, StepInv
<1>2. ASSUME NEW round \in Rounds, ReachBoundary(round)
      PROVE  UNCHANGED Promise!promiseVars
  BY <1>2 DEF ReachBoundary, sessionVars, shadowVars, OutOfStep
<1>3. ASSUME NEW i \in 2..Len(points), PredictFails(i)
      PROVE  Promise!Close
  <2>1. ~OutOfStep /\ forecasts' = forecasts /\ pending' = Observed(i)
    BY <1>3 DEF PredictFails, Calls, SessionAccepts, OutOfStep, shadowVars
  <2>2. previous \in Nat /\ Spend(i) \in Nat \cup {None}
    BY <1>1, <1>3, SpendDeltaType DEF PredictFails, Calls, DriverAccepts, Spend, TypeOK
  <2>3. Observed(i) \in Transition
    BY <2>2 DEF Observed, Transition
  <2>4. OutOfStep'
    BY <2>1, <2>3, SessionAssumption DEF OutOfStep
  <2> QED BY <2>1, <2>4 DEF Promise!Close
<1>4. ASSUME NEW i \in 2..Len(points), NEW residual \in Residuals,
             CalibratorFails(i, residual)
      PROVE  Promise!Close
  BY <1>4 DEF CalibratorFails, CommitSession, Calls, SessionAccepts, OutOfStep, shadowVars,
              Promise!Close
<1>5. ASSUME NEW i \in 2..Len(points), NEW residual \in Residuals,
             NEW taken \in BOOLEAN, AnswerBoundary(i, residual, taken)
      PROVE  Promise!Answer
  <2>1. ~OutOfStep /\ ~OutOfStep' /\ i > previous
    BY <1>5 DEF AnswerBoundary, CommitSession, Calls, DriverAccepts, SessionAccepts, OutOfStep
  <2>2. i \in 1..MaxPoints
    BY SessionAssumption DEF IInv, StepInv, TypeOK
  <2>3. answers' = Append(answers, i)
    BY <1>1, <1>5, SessionAssumption, AnswersAppend DEF AnswerBoundary, TypeOK
  <2>4. i > IF answers = << >> THEN 1 ELSE answers[Len(answers)]
    BY <1>1, <2>1, AnswersLast DEF LastAnswered
  <2> QED BY <2>1, <2>2, <2>3, <2>4 DEF Promise!Answer, Promise!LastAnswered, answers
<1>6. CASE UNCHANGED vars
  BY <1>6 DEF vars, sessionVars, shadowVars, OutOfStep
<1> QED BY <1>2, <1>3, <1>4, <1>5, <1>6
        DEF Next, ObserveBoundary, RefuseBoundary, Promise!PromiseNext

(* The online session implements the abstract turn order.                  *)
THEOREM ImplementsTheSession == Spec => ImplementsSession
<1>1. Init => Promise!PromiseInit
  BY SessionAssumption DEF Init, Promise!PromiseInit, OutOfStep
<1>2. IInv /\ [Next]_vars => [Promise!PromiseNext]_(Promise!promiseVars)
  BY StepsKeepPromise
<1> QED BY <1>1, <1>2, Safety, PTL DEF Spec, ImplementsSession, Promise!PromiseSpec
=============================================================================
