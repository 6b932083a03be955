------------------------ MODULE TokenAccountingProofs ------------------------
(***************************************************************************)
(* Theorems of TokenAccounting for every set of calls, attempts, usages    *)
(* and tools and every bound.                                              *)
(***************************************************************************)
EXTENDS TokenAccounting, InductionTheorems, SequenceTheorems, TLAPS

-----------------------------------------------------------------------------
(* Slicing the last three elements off a sequence keeps its element type   *)
(* (the recent windows of features/reducer.py).                            *)
LEMMA LastThreeType ==
  ASSUME NEW S, NEW s \in Seq(S)
  PROVE  LastThree(s) \in Seq(S)
<1>1. CASE Len(s) <= 3
  BY <1>1 DEF LastThree
<1>2. CASE ~(Len(s) <= 3)
  <2>1. Len(s) \in Nat /\ Len(s) - 2 \in Int
    BY LenProperties
  <2>2. \A i \in (Len(s) - 2)..Len(s) : s[i] \in S
    BY <2>1, <1>2, ElementOfSeq
  <2>3. SubSeq(s, Len(s) - 2, Len(s)) \in Seq(S)
    BY <2>1, <2>2, SubSeqProperties
  <2>4. QED
    BY <1>2, <2>3 DEF LastThree
<1>3. QED
  BY <1>1, <1>2

(* A complete usage holds two natural numbers. *)
LEMMA CompleteUsage ==
  ASSUME NEW usage \in Usages, IsComplete(usage)
  PROVE  usage.input_tokens \in Nat /\ usage.output_tokens \in Nat
BY ContractsAssumption DEF IsComplete, TokenUsage, OptNat

LEMMA ClosedOutputType ==
  ASSUME FeatureTypeOK
  PROVE  ClosedOutput \in OptNat
BY DEF FeatureTypeOK, CurrentUsage, ClosedOutput, OptNat

LEMMA FreshType ==
  ASSUME NEW c \in CallIds \cup {None}
  PROVE  /\ FreshCurrent(c) \in Current
         /\ FreshUsage \in CurrentUsage
         /\ FreshTools \in CurrentTools
BY DEF FreshCurrent, Current, FreshUsage, CurrentUsage, FreshTools, CurrentTools

LEMMA ClosedCallType ==
  ASSUME FeatureTypeOK, current.logical_call_id # None
  PROVE  ClosedCall \in Closed
<1> DEFINE recent == LastThree(Append(closed.recent_call_outputs, ClosedOutput))
<1>1. recent \in Seq(OptNat)
  <2>1. Append(closed.recent_call_outputs, ClosedOutput) \in Seq(OptNat)
    BY ClosedOutputType DEF FeatureTypeOK, Closed
  <2>2. QED
    BY <2>1, LastThreeType
<1> HIDE DEF recent
<1>2. closed \in Closed /\ current \in Current /\ currentTools \in CurrentTools
  BY DEF FeatureTypeOK
<1>3. ClosedCall.recent_call_outputs = recent
  BY DEF ClosedCall, recent
<1>4. QED
  BY <1>1, <1>2 DEF ClosedCall, Closed, Current, CurrentTools, OptNat, recent

-----------------------------------------------------------------------------
(* The reducer's part of the type invariant, one lemma per apply branch.   *)

LEMMA ApplyRequestBuiltType ==
  ASSUME FeatureTypeOK, NEW c \in CallIds, NEW count \in OptNat,
         ApplyRequestBuilt(c, count)
  PROVE  FeatureTypeOK'
<1>1. closed' \in Closed
  BY ClosedCallType DEF ApplyRequestBuilt, StartLogicalCall, FeatureTypeOK
<1>2. /\ current' \in Current
      /\ currentUsage' \in CurrentUsage
      /\ currentTools' \in CurrentTools
  BY FreshType DEF ApplyRequestBuilt, StartLogicalCall
<1>3. local' \in [previous : OptNat, current : OptNat]
  BY DEF ApplyRequestBuilt, FeatureTypeOK, OptNat
<1>4. QED
  BY <1>1, <1>2, <1>3 DEF ApplyRequestBuilt, FeatureTypeOK

LEMMA ApplyApiAttemptStartedType ==
  ASSUME FeatureTypeOK, NEW c \in CallIds, NEW a \in AttemptIds,
         ApplyApiAttemptStarted(c, a)
  PROVE  FeatureTypeOK'
BY DEF FeatureTypeOK, ApplyApiAttemptStarted, Current, counterVars

LEMMA ApplyApiTerminalType ==
  ASSUME FeatureTypeOK, NEW c \in CallIds, NEW a \in AttemptIds,
         NEW completed \in BOOLEAN, NEW usage \in Usages,
         ApplyApiTerminal(c, a, completed, usage)
  PROVE  FeatureTypeOK'
<1>1. apiCounts' \in ApiCounts
  BY DEF FeatureTypeOK, ApplyApiTerminal, ApiCounts
<1>2. usageCounts' \in UsageCounts
  <2>1. usageCounts \in UsageCounts /\ CountUsage(usage)
    BY DEF FeatureTypeOK, ApplyApiTerminal
  <2>2. CASE IsComplete(usage)
    <3> DEFINE input  == usageCounts.cumulative_provider_input_tokens
                           + usage.input_tokens
               output == usageCounts.cumulative_provider_output_tokens
                           + usage.output_tokens
               known  == usageCounts.known_usage_attempts + 1
    <3>1. input \in Nat /\ output \in Nat /\ known \in Nat
      BY <2>1, <2>2, CompleteUsage DEF UsageCounts
    <3>2. usageCounts' = [usageCounts EXCEPT
                            !.known_usage_attempts = known,
                            !.cumulative_provider_input_tokens = input,
                            !.cumulative_provider_output_tokens = output]
      BY <2>1, <2>2 DEF CountUsage
    <3> HIDE DEF input, output, known
    <3> DEFINE step1 == [usageCounts EXCEPT !.known_usage_attempts = known]
               step2 == [step1 EXCEPT !.cumulative_provider_input_tokens = input]
               step3 == [step2 EXCEPT !.cumulative_provider_output_tokens = output]
    <3>3. step1 \in UsageCounts
      BY <2>1, <3>1 DEF UsageCounts
    <3>4. step2 \in UsageCounts
      <4> HIDE DEF step1
      <4>1. QED
        BY <3>1, <3>3 DEF UsageCounts
    <3>5. step3 \in UsageCounts
      <4> HIDE DEF step2
      <4>1. QED
        BY <3>1, <3>4 DEF UsageCounts
    <3>6. QED
      BY <3>2, <3>5
  <2>3. CASE ~IsComplete(usage)
    BY <2>1, <2>3 DEF CountUsage, UsageCounts
  <2>4. QED
    BY <2>2, <2>3
<1>3. current' \in Current
  BY DEF FeatureTypeOK, ApplyApiTerminal, Current, currentVars
<1>4. currentUsage' \in CurrentUsage
  <2>1. /\ currentUsage \in CurrentUsage
        /\ CountCurrentUsage(usage) \/ currentUsage' = currentUsage
    BY DEF FeatureTypeOK, ApplyApiTerminal, currentVars
  <2>2. CASE IsComplete(usage)
    BY <2>1, <2>2, CompleteUsage DEF CountCurrentUsage, CurrentUsage
  <2>3. CASE ~IsComplete(usage)
    BY <2>1, <2>3 DEF CountCurrentUsage, CurrentUsage
  <2>4. QED
    BY <2>2, <2>3
<1>5. currentTools' \in CurrentTools
  BY DEF FeatureTypeOK, ApplyApiTerminal, CurrentTools, currentVars
<1>6. QED
  BY <1>1, <1>2, <1>3, <1>4, <1>5 DEF FeatureTypeOK, ApplyApiTerminal

LEMMA ApplyToolEventType ==
  ASSUME FeatureTypeOK, NEW c \in CallIds, NEW kind \in ToolKinds,
         NEW tool \in ToolTypes, NEW key \in ActionKeys,
         ApplyToolEvent(c, kind, tool, key)
  PROVE  FeatureTypeOK'
<1>1. toolCounts' \in ToolCounts
  BY DEF FeatureTypeOK, ApplyToolEvent, ToolCounts, ToolKinds
<1>2. currentTools' \in CurrentTools
  <2> DEFINE named == IF tool = None
                      THEN currentTools
                      ELSE [currentTools EXCEPT !.last_tool_type = tool]
  <2>1. named \in CurrentTools
    BY DEF FeatureTypeOK, CurrentTools
  <2>2. [named EXCEPT !.tool_error_count = @ + 1, !.has_error = TRUE] \in CurrentTools
    <3> DEFINE counted == [named EXCEPT !.tool_error_count = @ + 1]
    <3> HIDE DEF named
    <3>1. counted \in CurrentTools
      BY <2>1 DEF CurrentTools
    <3>2. [counted EXCEPT !.has_error = TRUE] \in CurrentTools
      <4> HIDE DEF counted
      <4>1. QED
        BY <3>1 DEF CurrentTools
    <3>3. QED
      BY <3>2
  <2>3. currentTools' \in {currentTools, named,
          [named EXCEPT !.tool_error_count = @ + 1, !.has_error = TRUE]}
    BY DEF ApplyToolEvent
  <2>4. QED
    BY <2>1, <2>2, <2>3 DEF FeatureTypeOK
<1>3. actions' \in Seq(ActionKeys)
  <2>1. Append(actions, key) \in Seq(ActionKeys)
    BY DEF FeatureTypeOK
  <2>2. LastThree(Append(actions, key)) \in Seq(ActionKeys)
    BY <2>1, LastThreeType
  <2>3. QED
    BY <2>2 DEF FeatureTypeOK, ApplyToolEvent
<1>4. QED
  BY <1>1, <1>2, <1>3 DEF FeatureTypeOK, ApplyToolEvent

-----------------------------------------------------------------------------
(* Every reachable state is well typed: in particular no count the reducer *)
(* adds up is ever the missing value, and no window ever leaves its type.  *)
THEOREM TypeCorrect == Spec => []TypeOK
<1>1. Init => TypeOK
  <2> SUFFICES ASSUME Init PROVE TypeOK
    OBVIOUS
  <2>1. TrajectoryTypeOK
    BY DEF Init, TrajectoryInit, TrajectoryTypeOK
  <2>2. FeatureTypeOK
    BY FreshType
    DEF Init, FeatureInit, FeatureTypeOK, ApiCounts, UsageCounts, ToolCounts,
        Closed, OptNat
  <2>3. QED
    BY <2>1, <2>2 DEF Init, TypeOK
<1>2. TypeOK /\ [Next]_vars => TypeOK'
  <2> SUFFICES ASSUME TypeOK, [Next]_vars PROVE TypeOK'
    OBVIOUS
  <2> USE DEF TypeOK
  <2>1. CASE StartTask
    BY <2>1 DEF StartTask, TaskStarted, featureVars, counterVars, currentVars, TrajectoryTypeOK,
                FeatureTypeOK
  <2>2. ASSUME NEW c \in CallIds, NEW offset \in LocalCounts,
               BuildRequest(c, offset)
        PROVE  TypeOK'
    <3>1. offset \in OptNat
      BY ContractsAssumption
    <3>2. FeatureTypeOK'
      BY <2>2, <3>1, ApplyRequestBuiltType DEF BuildRequest
    <3>3. TrajectoryTypeOK'
      BY <2>2, <3>1 DEF MayRequest, BuildRequest, RequestBuilt, TrajectoryTypeOK, Request
    <3>4. PointAt(offset) \in Spend!SpendPoint
      BY <3>1 DEF PointAt, Spend!SpendPoint, FeatureTypeOK, UsageCounts, OptNat
    <3>5. points' \in Seq(Spend!SpendPoint)
      BY <2>2, <3>4 DEF BuildRequest
    <3>6. QED
      BY <2>2, <3>2, <3>3, <3>5 DEF BuildRequest
  <2>3. ASSUME NEW c \in CallIds, NEW a \in AttemptIds, StartAttempt(c, a)
        PROVE  TypeOK'
    <3>1. FeatureTypeOK'
      BY <2>3, ApplyApiAttemptStartedType DEF StartAttempt
    <3>2. TrajectoryTypeOK'
      BY <2>3 DEF MayAttempt, StartAttempt, ApiAttemptStarted, TrajectoryTypeOK
    <3>3. QED
      BY <2>3, <3>1, <3>2 DEF StartAttempt
  <2>4. ASSUME NEW c \in CallIds, NEW a \in AttemptIds,
               NEW generated \in GeneratedCounts,
               TakeCheckpoint(c, a, generated)
        PROVE  TypeOK'
    <3>1. FeatureTypeOK'
      BY <2>4 DEF TakeCheckpoint, ApplyGenerationCheckpoint, featureVars, counterVars, currentVars,
                  FeatureTypeOK
    <3>2. [call |-> c, attempt |-> a, generated |-> generated,
           before |-> Len(terminals[c])] \in Checkpoint
      BY GeneratedAssumption DEF TrajectoryTypeOK, Checkpoint
    <3>3. TrajectoryTypeOK'
      BY <2>4, <3>2 DEF IsOpen, TakeCheckpoint, GenerationCheckpoint, TrajectoryTypeOK
    <3>4. QED
      BY <2>4, <3>1, <3>3 DEF TakeCheckpoint
  <2>5. ASSUME NEW c \in CallIds, NEW a \in AttemptIds,
               NEW completed \in BOOLEAN, NEW usage \in Usages,
               EndAttempt(c, a, completed, usage)
        PROVE  TypeOK'
    <3>1. FeatureTypeOK'
      BY <2>5, ApplyApiTerminalType DEF EndAttempt
    <3>2. [attempt |-> a, completed |-> completed, usage |-> usage] \in Terminal
      BY DEF Terminal
    <3>3. TrajectoryTypeOK'
      BY <2>5, <3>2 DEF IsOpen, EndAttempt, ApiTerminal, TrajectoryTypeOK
    <3>4. QED
      BY <2>5, <3>1, <3>3 DEF EndAttempt
  <2>6. ASSUME NEW c \in CallIds, NEW kind \in ToolKinds,
               NEW tool \in ToolTypes, NEW key \in ActionKeys,
               RunTool(c, kind, tool, key)
        PROVE  TypeOK'
    <3>1. FeatureTypeOK'
      BY <2>6, ApplyToolEventType DEF RunTool
    <3>2. TrajectoryTypeOK'
      BY <2>6 DEF RunTool, ToolEvent, trajectoryVars, TrajectoryTypeOK
    <3>3. QED
      BY <2>6, <3>1, <3>2 DEF RunTool
  <2>7. CASE EndTask
    BY <2>7 DEF MayFinish, EndTask, TaskFinished, TaskAborted, Refuse, featureVars, counterVars, currentVars,
                TrajectoryTypeOK, FeatureTypeOK, Ends
  <2>8. CASE UNCHANGED vars
    BY <2>8 DEF vars, trajectoryVars, featureVars, counterVars, currentVars, TrajectoryTypeOK,
                FeatureTypeOK
  <2>9. QED
    BY <2>1, <2>2, <2>3, <2>4, <2>5, <2>6, <2>7, <2>8 DEF Next
<1>3. QED
  BY <1>1, <1>2, PTL DEF Spec
-----------------------------------------------------------------------------
(* Appending a terminal adds its attempt to the attempts of the call. *)
LEMMA AttemptsOfAppend ==
  ASSUME NEW events \in Seq(Terminal), NEW e \in Terminal
  PROVE  AttemptsOf(Append(events, e)) = AttemptsOf(events) \cup {e.attempt}
<1> DEFINE longer == Append(events, e)
<1>1. /\ DOMAIN events = 1..Len(events)
      /\ DOMAIN longer = 1..(Len(events) + 1)
      /\ Len(events) \in Nat
  OBVIOUS
<1>2. \A i \in DOMAIN events : longer[i] = events[i]
  OBVIOUS
<1>3. longer[Len(events) + 1] = e
  OBVIOUS
<1> HIDE DEF longer
<1>4. QED
  BY <1>1, <1>2, <1>3 DEF AttemptsOf, longer

(* Appending a request closes every earlier one and adds its call. *)
LEMMA RequestAppended ==
  ASSUME TypeOK, NEW c \in CallIds, NEW count \in OptNat,
         requests' = Append(requests, [call |-> c, local |-> count])
  PROVE  /\ {CallAt(i) : i \in ClosedIndices}' = {CallAt(i) : i \in DOMAIN requests}
         /\ CallAt(Len(requests))' = c
         /\ \A d : Requested(d)' <=> Requested(d) \/ d = c
         /\ requests' # << >>
<1> DEFINE r == [call |-> c, local |-> count]
<1>1. requests \in Seq(Request) /\ r \in Request /\ r.call = c
  BY DEF TypeOK, TrajectoryTypeOK, Request
<1> HIDE DEF r
<1>2. /\ requests' = Append(requests, r)
      /\ Len(requests) \in Nat
      /\ DOMAIN requests = 1..Len(requests)
      /\ Len(requests') = Len(requests) + 1
      /\ DOMAIN requests' = 1..(Len(requests) + 1)
  BY <1>1 DEF r
<1>3. \A i \in DOMAIN requests : requests'[i] = requests[i]
  BY <1>1, <1>2
<1>4. requests'[Len(requests) + 1] = r
  BY <1>1, <1>2
<1>5. {CallAt(i) : i \in ClosedIndices}' = {CallAt(i) : i \in DOMAIN requests}
  BY <1>2, <1>3 DEF CallAt, ClosedIndices
<1>6. CallAt(Len(requests))' = c
  BY <1>1, <1>2, <1>4 DEF CallAt
<1>7. \A d : Requested(d)' <=> Requested(d) \/ d = c
  BY <1>1, <1>2, <1>3, <1>4 DEF Requested
<1>8. requests' # << >>
  <2>1. Len(requests') # Len(<< >>)
    BY <1>2
  <2>2. QED
    BY <2>1
<1>9. QED
  BY <1>5, <1>6, <1>7, <1>8

(* An event that leaves the request list alone leaves the closed calls and *)
(* the requested calls alone.                                              *)
LEMMA RequestsUnchanged ==
  ASSUME requests' = requests
  PROVE  /\ {CallAt(i) : i \in ClosedIndices}' = {CallAt(i) : i \in ClosedIndices}
         /\ CallAt(Len(requests))' = CallAt(Len(requests))
         /\ \A d : Requested(d)' <=> Requested(d)
BY DEF CallAt, ClosedIndices, Requested

(* The active call is a requested one. *)
LEMMA ActiveRequested ==
  ASSUME TypeOK, ReducerFollowsTrajectory, active \in CallIds
  PROVE  Requested(active)
<1>1. requests # << >> /\ active = CallAt(Len(requests))
  BY ContractsAssumption DEF ReducerFollowsTrajectory
<1>2. Len(requests) \in DOMAIN requests
  BY <1>1, EmptySeq, LenProperties DEF TypeOK, TrajectoryTypeOK
<1>3. QED
  BY <1>1, <1>2 DEF Requested, CallAt

-----------------------------------------------------------------------------
(* The reducer's scratch state is the validator's table of the active call *)
(* and its closed calls are the earlier requests, in every reachable       *)
(* state: what _start_logical_call publishes is about exactly the attempts *)
(* of the call it closes.                                                  *)
THEOREM ReducerFollows == Spec => []ReducerFollowsTrajectory
<1> DEFINE Inv == ReducerFollowsTrajectory
<1>1. Init => Inv
  <2> SUFFICES ASSUME Init PROVE Inv
    OBVIOUS
  <2>1. requests = << >> /\ Len(requests) = 0
    BY DEF Init, TrajectoryInit
  <2>2. {CallAt(i) : i \in ClosedIndices} = {}
    BY <2>1 DEF ClosedIndices
  <2>3. \A c \in CallIds : Terminated(c) = {}
    BY DEF Init, TrajectoryInit, Terminated, AttemptsOf
  <2>4. QED
    BY <2>1, <2>2, <2>3
    DEF Init, TrajectoryInit, FeatureInit, FreshCurrent, Dangling,
        ReducerFollowsTrajectory
<1>2. TypeOK /\ Inv /\ [Next]_vars => Inv'
  <2> SUFFICES ASSUME TypeOK, Inv, [Next]_vars PROVE Inv'
    OBVIOUS
  <2>1. CASE StartTask
    BY <2>1, RequestsUnchanged
    DEF StartTask, TaskStarted, featureVars, currentVars,
        ReducerFollowsTrajectory, Dangling, Terminated
  <2>2. ASSUME NEW c \in CallIds, NEW offset \in LocalCounts,
               BuildRequest(c, offset)
        PROVE  Inv'
    <3>1. /\ ~Requested(c)
          /\ active # None => Dangling(active) = {}
          /\ requests' = Append(requests, [call |-> c, local |-> offset])
          /\ active' = c
          /\ starts' = starts /\ terminals' = terminals
          /\ current' = FreshCurrent(c)
          /\ closed' = IF active = None THEN closed ELSE ClosedCall
      BY <2>2 DEF MayRequest, BuildRequest, RequestBuilt, ApplyRequestBuilt,
                  StartLogicalCall, ReducerFollowsTrajectory
    <3>2. offset \in OptNat
      BY ContractsAssumption
    <3>3. /\ {CallAt(i) : i \in ClosedIndices}' = {CallAt(i) : i \in DOMAIN requests}
          /\ CallAt(Len(requests))' = c
          /\ \A d : Requested(d)' <=> Requested(d) \/ d = c
      BY <3>1, <3>2, RequestAppended
    <3>4. closed'.completed_logical_call_ids = {CallAt(i) : i \in DOMAIN requests}
      <4>0. requests \in Seq(Request)
        BY DEF TypeOK, TrajectoryTypeOK
      <4>1. CASE requests = << >>
        <5>1. DOMAIN requests = {} /\ ClosedIndices = {} /\ active = None
          BY <4>1 DEF ClosedIndices, ReducerFollowsTrajectory
        <5>2. {CallAt(i) : i \in DOMAIN requests} = {CallAt(i) : i \in ClosedIndices}
          BY <5>1
        <5>3. QED
          BY <3>1, <5>1, <5>2 DEF ReducerFollowsTrajectory
      <4>2. CASE requests # << >>
        <5>0. Len(requests) \in Nat \ {0} /\ DOMAIN requests = 1..Len(requests)
          BY <4>0, <4>2, EmptySeq, LenProperties
        <5>1. active = CallAt(Len(requests)) /\ active \in CallIds
          <6>1. requests[Len(requests)] \in Request
            BY <4>0, <5>0, ElementOfSeq
          <6>2. QED
            BY <4>2, <6>1 DEF ReducerFollowsTrajectory, CallAt, Request
        <5>2. closed'.completed_logical_call_ids =
                closed.completed_logical_call_ids \cup {active}
          BY <3>1, <5>1, ContractsAssumption DEF ClosedCall, ReducerFollowsTrajectory
        <5>3. DOMAIN requests = ClosedIndices \cup {Len(requests)}
          BY <5>0 DEF ClosedIndices
        <5>4. {CallAt(i) : i \in DOMAIN requests} =
                {CallAt(i) : i \in ClosedIndices} \cup {CallAt(Len(requests))}
          BY <5>3
        <5>5. QED
          BY <5>1, <5>2, <5>4 DEF ReducerFollowsTrajectory
      <4>3. QED
        BY <4>1, <4>2
    <3>5. starts[c] = {} /\ Terminated(c) = {}
      BY <3>1 DEF ReducerFollowsTrajectory
    <3>6. \A d \in CallIds : Terminated(d)' = Terminated(d) /\ Dangling(d)' = Dangling(d)
      BY <3>1 DEF Terminated, Dangling
    <3>7. \A d \in CallIds : d # c => Dangling(d) = {}
      BY <3>1, ContractsAssumption DEF ReducerFollowsTrajectory
    <3>8. requests' # << >>
      BY <3>1, <3>2, RequestAppended
    <3>9. /\ current'.logical_call_id = c
          /\ current'.started_attempt_ids = {}
          /\ current'.terminal_attempt_ids = {}
      BY <3>1 DEF FreshCurrent
    <3>10. \A d \in CallIds :
             /\ d # active' => Dangling(d)' = {}
             /\ ~Requested(d)' => starts'[d] = {} /\ Terminated(d)' = {}
      BY <3>1, <3>3, <3>6, <3>7 DEF ReducerFollowsTrajectory
    <3>11. QED
      BY <3>1, <3>3, <3>4, <3>5, <3>6, <3>8, <3>9, <3>10
      DEF ReducerFollowsTrajectory
  <2>3. ASSUME NEW c \in CallIds, NEW a \in AttemptIds, StartAttempt(c, a)
        PROVE  Inv'
    <3>1. /\ c = active /\ active' = active /\ requests' = requests
          /\ starts' = [starts EXCEPT ![c] = @ \cup {a}]
          /\ terminals' = terminals /\ closed' = closed
          /\ current' = [current EXCEPT !.started_attempt_ids = @ \cup {a}]
      BY <2>3 DEF MayAttempt, StartAttempt, ApiAttemptStarted, Contiguous,
                  ApplyApiAttemptStarted, Belongs, ReducerFollowsTrajectory
    <3>2. /\ starts'[c] = starts[c] \cup {a}
          /\ \A d \in CallIds \ {c} : starts'[d] = starts[d]
      BY <3>1 DEF TypeOK, TrajectoryTypeOK
    <3>3. /\ current'.logical_call_id = active
          /\ current'.started_attempt_ids = current.started_attempt_ids \cup {a}
          /\ current'.terminal_attempt_ids = current.terminal_attempt_ids
      BY <3>1 DEF TypeOK, FeatureTypeOK, Current, ReducerFollowsTrajectory
    <3>4. \A d \in CallIds : Terminated(d)' = Terminated(d)
      BY <3>1 DEF Terminated
    <3>5. Requested(c)
      BY <3>1, ActiveRequested
    <3>6. QED
      BY <3>1, <3>2, <3>3, <3>4, <3>5, RequestsUnchanged, SMTT(30)
      DEF ReducerFollowsTrajectory, Dangling
  <2>4. ASSUME NEW c \in CallIds, NEW a \in AttemptIds,
               NEW generated \in GeneratedCounts,
               TakeCheckpoint(c, a, generated)
        PROVE  Inv'
    BY <2>4, RequestsUnchanged
    DEF IsOpen, TakeCheckpoint, GenerationCheckpoint, ApplyGenerationCheckpoint,
        featureVars, currentVars, ReducerFollowsTrajectory, Dangling, Terminated
  <2>5. ASSUME NEW c \in CallIds, NEW a \in AttemptIds,
               NEW completed \in BOOLEAN, NEW usage \in Usages,
               EndAttempt(c, a, completed, usage)
        PROVE  Inv'
    <3> DEFINE e == [attempt |-> a, completed |-> completed, usage |-> usage]
    <3>1. /\ c = active /\ active' = active /\ requests' = requests
          /\ starts' = starts /\ closed' = closed
          /\ terminals' = [terminals EXCEPT ![c] = Append(@, e)]
          /\ current' = [current EXCEPT !.terminal_attempt_ids = @ \cup {a}]
      BY <2>5 DEF IsOpen, EndAttempt, ApiTerminal, Contiguous, ApplyApiTerminal,
                  Belongs, ReducerFollowsTrajectory
    <3>2. Terminated(c)' = Terminated(c) \cup {a}
      <4>1. e \in Terminal /\ e.attempt = a
        BY DEF Terminal
      <4>2. terminals[c] \in Seq(Terminal)
        BY DEF TypeOK, TrajectoryTypeOK
      <4>3. terminals'[c] = Append(terminals[c], e)
        BY <3>1 DEF TypeOK, TrajectoryTypeOK
      <4> HIDE DEF e
      <4>4. QED
        BY <4>1, <4>2, <4>3, AttemptsOfAppend DEF Terminated
    <3>3. \A d \in CallIds \ {c} : Terminated(d)' = Terminated(d)
      BY <3>1 DEF Terminated, TypeOK, TrajectoryTypeOK
    <3> HIDE DEF e
    <3>4. /\ current'.logical_call_id = active
          /\ current'.started_attempt_ids = current.started_attempt_ids
          /\ current'.terminal_attempt_ids = current.terminal_attempt_ids \cup {a}
      BY <3>1 DEF TypeOK, FeatureTypeOK, Current, ReducerFollowsTrajectory
    <3>5. Requested(c)
      BY <3>1, ActiveRequested
    <3>6. QED
      BY <3>1, <3>2, <3>3, <3>4, <3>5, RequestsUnchanged
      DEF ReducerFollowsTrajectory, Dangling
  <2>6. ASSUME NEW c \in CallIds, NEW kind \in ToolKinds,
               NEW tool \in ToolTypes, NEW key \in ActionKeys,
               RunTool(c, kind, tool, key)
        PROVE  Inv'
    BY <2>6, RequestsUnchanged
    DEF RunTool, ToolEvent, ApplyToolEvent, trajectoryVars,
        ReducerFollowsTrajectory, Dangling, Terminated
  <2>7. CASE EndTask
    BY <2>7, RequestsUnchanged
    DEF MayFinish, EndTask, TaskFinished, TaskAborted, Refuse, featureVars, currentVars,
        ReducerFollowsTrajectory, Dangling, Terminated
  <2>8. CASE UNCHANGED vars
    BY <2>8, RequestsUnchanged
    DEF vars, trajectoryVars, featureVars, currentVars,
        ReducerFollowsTrajectory, Dangling, Terminated
  <2>9. QED
    BY <2>1, <2>2, <2>3, <2>4, <2>5, <2>6, <2>7, <2>8 DEF Next
<1>3. QED
  BY <1>1, <1>2, TypeCorrect, PTL DEF Spec

-----------------------------------------------------------------------------
(* No event changes the tables of a call that is not the active one: the   *)
(* contiguity rule of validate_trajectory.                                 *)
LEMMA OnlyActiveCallChanges ==
  ASSUME TypeOK, [Next]_vars, NEW c \in CallIds, c # active
  PROVE  starts'[c] = starts[c] /\ terminals'[c] = terminals[c]
<1> USE DEF TypeOK, TrajectoryTypeOK
<1>1. CASE StartTask \/ EndTask \/ UNCHANGED vars
  BY <1>1 DEF MayFinish, StartTask, EndTask, TaskStarted, TaskFinished, TaskAborted,
              Refuse, vars, trajectoryVars
<1>2. ASSUME NEW d \in CallIds, NEW offset \in LocalCounts,
             BuildRequest(d, offset)
      PROVE  starts' = starts /\ terminals' = terminals
  BY <1>2 DEF MayRequest, BuildRequest, RequestBuilt
<1>3. ASSUME NEW d \in CallIds, NEW a \in AttemptIds, StartAttempt(d, a)
      PROVE  starts'[c] = starts[c] /\ terminals' = terminals
  BY <1>3 DEF MayAttempt, StartAttempt, ApiAttemptStarted, Contiguous
<1>4. ASSUME NEW d \in CallIds, NEW a \in AttemptIds,
             NEW generated \in GeneratedCounts, TakeCheckpoint(d, a, generated)
      PROVE  starts' = starts /\ terminals' = terminals
  BY <1>4 DEF IsOpen, TakeCheckpoint, GenerationCheckpoint
<1>5. ASSUME NEW d \in CallIds, NEW a \in AttemptIds,
             NEW completed \in BOOLEAN, NEW usage \in Usages,
             EndAttempt(d, a, completed, usage)
      PROVE  starts' = starts /\ terminals'[c] = terminals[c]
  BY <1>5 DEF IsOpen, EndAttempt, ApiTerminal, Contiguous
<1>6. ASSUME NEW d \in CallIds, NEW kind \in ToolKinds,
             NEW tool \in ToolTypes, NEW key \in ActionKeys,
             RunTool(d, kind, tool, key)
      PROVE  starts' = starts /\ terminals' = terminals
  BY <1>6 DEF RunTool, ToolEvent, trajectoryVars
<1>7. QED
  BY <1>1, <1>2, <1>3, <1>4, <1>5, <1>6 DEF Next

(* The label of a closed call is final: whatever the rest of the           *)
(* trajectory holds, the ledger entry that the task labels are summed from *)
(* is the one that stood when the next request was built.                  *)
THEOREM ClosedLedgerFinal == Spec => ClosedLedgerIsFinal
<1> DEFINE Final(c) == /\ CallBillableTotal(c)' = CallBillableTotal(c)
                       /\ FinalResponseOutput(c)' = FinalResponseOutput(c)
<1>1. TypeOK /\ [Next]_vars => \A c \in CallIds : c # active => Final(c)
  <2> SUFFICES ASSUME TypeOK, [Next]_vars, NEW c \in CallIds, c # active
               PROVE  Final(c)
    OBVIOUS
  <2>1. starts'[c] = starts[c] /\ terminals'[c] = terminals[c]
    BY OnlyActiveCallChanges
  <2>2. QED
    BY <2>1 DEF CallBillableTotal, FinalResponseOutput
<1>2. TypeOK /\ [Next]_vars =>
        [\A c \in CallIds : Requested(c) /\ c # active => Final(c)]_vars
  BY <1>1
<1>3. QED
  BY <1>2, TypeCorrect, PTL DEF Spec, ClosedLedgerIsFinal

-----------------------------------------------------------------------------
(* The rest of the proofs rests on more inductive facts.                   *)

AllComplete(events) == \A u \in UsagesIn(events) : IsComplete(u)

Failed(c) == \/ c \in toolFailures
             \/ \E i \in DOMAIN terminals[c] : ~terminals[c][i].completed

(* Every request has its point, with all counts known, no call is          *)
(* requested twice, and a tool failure belongs to a requested call.        *)
RequestsHavePoints ==
  /\ Len(points) = Len(requests)
  /\ \A i \in DOMAIN points :
       /\ points[i].offset = requests[i].local
       /\ points[i].missing \in Nat /\ points[i].input \in Nat /\ points[i].output \in Nat
  /\ \A i, j \in DOMAIN requests : CallAt(i) = CallAt(j) => i = j
  /\ \A c \in toolFailures : Requested(c)

(* The per-call scratch is what the terminals of the active call say.      *)
ScratchFollowsCall ==
  /\ requests = << >> =>
       /\ closed.recent_call_outputs = << >>
       /\ closed.consecutive_error_rounds = 0
  /\ active # None =>
       /\ currentUsage.has_unknown_usage <=> ~AllComplete(terminals[active])
       /\ AllComplete(terminals[active]) =>
            currentUsage.output_tokens =
              SumOver(terminals[active], DOMAIN terminals[active], OutputOf)
       /\ currentTools.has_error <=> Failed(active)

BilledTo(c) == SumOver(terminals[c], DOMAIN terminals[c], AccountedTotal)

CallsFrom(i) == {CallAt(k) : k \in i..Len(requests)}

(* What the counters gained since request i is what the calls from i on    *)
(* have been billed so far.                                                *)
SpendFollowsCalls ==
  \A i \in DOMAIN points :
    LET unseen == \E c \in CallsFrom(i) : ~AllComplete(terminals[c])
    IN /\ points[i].missing <= usageCounts.missing_usage_attempts
       /\ points[i].missing = usageCounts.missing_usage_attempts <=> ~unseen
       /\ ~unseen =>
            usageCounts.cumulative_provider_input_tokens
              + usageCounts.cumulative_provider_output_tokens =
            points[i].input + points[i].output
              + SumFunction([c \in CallsFrom(i) |-> BilledTo(c)])

(* An attempt ends once, and the attempt of a checkpoint started before it *)
(* and ends after it.                                                      *)
AttemptsEndOnce ==
  /\ \A c \in CallIds : \A i, j \in DOMAIN terminals[c] :
       terminals[c][i].attempt = terminals[c][j].attempt => i = j
  /\ \A k \in DOMAIN checkpoints :
       LET point  == checkpoints[k]
           events == terminals[point.call]
       IN /\ point.attempt \in starts[point.call]
          /\ point.before <= Len(events)
          /\ \A i \in DOMAIN events : events[i].attempt = point.attempt => i > point.before


-----------------------------------------------------------------------------
(* What one more terminal does to the facts about the events of a call.    *)

LEMMA EventsEmpty ==
  /\ AllComplete(<< >>)
  /\ SumOver(<< >>, DOMAIN << >>, OutputOf) = 0
  /\ SumOver(<< >>, DOMAIN << >>, AccountedTotal) = 0
<1>1. DOMAIN << >> = {}
  OBVIOUS
<1>2. UsagesIn(<< >>) = {}
  BY <1>1 DEF UsagesIn
<1>3. \A f : SumFunctionOnSet(f, {}) = 0
  BY SumEmpty
<1>4. QED
  BY <1>1, <1>2, <1>3 DEF AllComplete, SumOver, SumFunction

LEMMA EventType ==
  ASSUME NEW events \in Seq(Terminal), NEW i \in DOMAIN events
  PROVE  /\ events[i].usage \in Usages /\ events[i].usage \in UsagesIn(events)
         /\ events[i].completed \in BOOLEAN
         /\ events[i].attempt \in AttemptIds
<1>1. events[i] \in Terminal
  BY ElementOfSeq
<1>2. QED
  BY <1>1 DEF Terminal, UsagesIn

LEMMA CompleteAmounts ==
  ASSUME NEW usage \in Usages, IsComplete(usage)
  PROVE  OutputOf(usage) \in Nat /\ AccountedTotal(usage) \in Nat
BY CompleteUsage DEF OutputOf, AccountedTotal

(* The sums over any of the events of a call that reported all usage. *)
LEMMA EventSumType ==
  ASSUME NEW events \in Seq(Terminal), AllComplete(events),
         NEW I, I \subseteq DOMAIN events
  PROVE  /\ IsFiniteSet(I)
         /\ \A i \in I : /\ OutputOf(events[i].usage) \in Nat
                         /\ AccountedTotal(events[i].usage) \in Nat
         /\ SumOver(events, I, OutputOf) \in Nat
         /\ SumOver(events, I, AccountedTotal) \in Nat
<1>1. IsFiniteSet(I)
  <2>1. DOMAIN events = 1..Len(events) /\ Len(events) \in Nat
    BY LenProperties
  <2>2. IsFiniteSet(1..Len(events))
    BY <2>1, FS_Interval
  <2>3. QED
    BY <2>1, <2>2, FS_Subset
<1>2. \A i \in I : /\ OutputOf(events[i].usage) \in Nat
                  /\ AccountedTotal(events[i].usage) \in Nat
  BY EventType, CompleteAmounts DEF AllComplete
<1>3. SumOver(events, I, OutputOf) \in Nat
  <2> DEFINE f == [i \in I |-> OutputOf(events[i].usage)]
  <2>1. \A i \in I : f[i] \in Nat
    BY <1>2
  <2>2. DOMAIN f = I
    OBVIOUS
  <2> HIDE DEF f
  <2>3. SumFunction(f) \in Nat
    BY <1>1, <2>1, <2>2, SumType DEF SumFunction
  <2>4. QED
    BY <2>3 DEF SumOver, f
<1>4. SumOver(events, I, AccountedTotal) \in Nat
  <2> DEFINE f == [i \in I |-> AccountedTotal(events[i].usage)]
  <2>1. \A i \in I : f[i] \in Nat
    BY <1>2
  <2>2. DOMAIN f = I
    OBVIOUS
  <2> HIDE DEF f
  <2>3. SumFunction(f) \in Nat
    BY <1>1, <2>1, <2>2, SumType DEF SumFunction
  <2>4. QED
    BY <2>3 DEF SumOver, f
<1>5. QED
  BY <1>1, <1>2, <1>3, <1>4

LEMMA EventsAppend ==
  ASSUME NEW events \in Seq(Terminal), NEW e \in Terminal, NEW longer,
         longer = Append(events, e)
  PROVE  /\ longer \in Seq(Terminal)
         /\ Len(longer) = Len(events) + 1
         /\ DOMAIN longer = DOMAIN events \cup {Len(events) + 1}
         /\ \A i \in DOMAIN events : longer[i] = events[i]
         /\ longer[Len(events) + 1] = e
         /\ UsagesIn(longer) = UsagesIn(events) \cup {e.usage}
         /\ AllComplete(longer) <=> AllComplete(events) /\ IsComplete(e.usage)
<1>1. /\ longer \in Seq(Terminal)
      /\ Len(longer) = Len(events) + 1
      /\ \A i \in DOMAIN events : longer[i] = events[i]
      /\ longer[Len(events) + 1] = e
  OBVIOUS
<1>2. DOMAIN longer = DOMAIN events \cup {Len(events) + 1}
  <2>1. DOMAIN longer = 1..(Len(events) + 1) /\ DOMAIN events = 1..Len(events)
    BY <1>1, LenProperties
  <2>2. QED
    BY <2>1, LenProperties
<1>3. UsagesIn(longer) = UsagesIn(events) \cup {e.usage}
  BY <1>1, <1>2 DEF UsagesIn
<1>4. QED
  BY <1>1, <1>2, <1>3 DEF AllComplete

LEMMA EventsAppendSum ==
  ASSUME NEW events \in Seq(Terminal), NEW e \in Terminal, NEW longer,
         longer = Append(events, e), AllComplete(longer)
  PROVE  /\ SumOver(longer, DOMAIN longer, OutputOf) =
              SumOver(events, DOMAIN events, OutputOf) + OutputOf(e.usage)
         /\ SumOver(longer, DOMAIN longer, AccountedTotal) =
              SumOver(events, DOMAIN events, AccountedTotal) + AccountedTotal(e.usage)
<1> DEFINE n == Len(events)
<1>1. /\ longer \in Seq(Terminal) /\ n \in Nat
      /\ DOMAIN events = 1..n /\ DOMAIN longer = 1..(n + 1)
      /\ \A i \in 1..n : longer[i] = events[i]
      /\ longer[n + 1] = e
  BY EventsAppend, LenProperties
<1>2. \A i \in 1..(n + 1) : /\ OutputOf(longer[i].usage) \in Nat
                            /\ AccountedTotal(longer[i].usage) \in Nat
  BY <1>1, EventSumType
<1> HIDE DEF n
<1>3. SumOver(longer, DOMAIN longer, OutputOf) =
        SumOver(events, DOMAIN events, OutputOf) + OutputOf(e.usage)
  <2> DEFINE f == [i \in 1..n |-> OutputOf(events[i].usage)]
             g == [i \in 1..(n + 1) |-> OutputOf(longer[i].usage)]
  <2>1. /\ \A i \in 1..n : f[i] = g[i]
        /\ \A i \in 1..(n + 1) : g[i] \in Int
        /\ g[n + 1] = OutputOf(e.usage)
        /\ DOMAIN f = 1..n /\ DOMAIN g = 1..(n + 1)
    BY <1>1, <1>2
  <2> HIDE DEF f, g
  <2>2. SumFunctionOnSet(g, 1..(n + 1)) = SumFunctionOnSet(f, 1..n) + g[n + 1]
    BY <1>1, <2>1, SumNext
  <2>3. SumFunction(g) = SumFunction(f) + OutputOf(e.usage)
    BY <2>1, <2>2 DEF SumFunction
  <2>4. QED
    BY <1>1, <2>3 DEF SumOver, f, g
<1>4. SumOver(longer, DOMAIN longer, AccountedTotal) =
        SumOver(events, DOMAIN events, AccountedTotal) + AccountedTotal(e.usage)
  <2> DEFINE f == [i \in 1..n |-> AccountedTotal(events[i].usage)]
             g == [i \in 1..(n + 1) |-> AccountedTotal(longer[i].usage)]
  <2>1. /\ \A i \in 1..n : f[i] = g[i]
        /\ \A i \in 1..(n + 1) : g[i] \in Int
        /\ g[n + 1] = AccountedTotal(e.usage)
        /\ DOMAIN f = 1..n /\ DOMAIN g = 1..(n + 1)
    BY <1>1, <1>2
  <2> HIDE DEF f, g
  <2>2. SumFunctionOnSet(g, 1..(n + 1)) = SumFunctionOnSet(f, 1..n) + g[n + 1]
    BY <1>1, <2>1, SumNext
  <2>3. SumFunction(g) = SumFunction(f) + AccountedTotal(e.usage)
    BY <2>1, <2>2 DEF SumFunction
  <2>4. QED
    BY <1>1, <2>3 DEF SumOver, f, g
<1>5. QED
  BY <1>3, <1>4

-----------------------------------------------------------------------------
(* The three events that move what the properties relate; every other step *)
(* is quiet.                                                               *)

Quiet ==
  UNCHANGED <<requests, active, terminals, points, toolFailures, usageCounts,
              currentUsage, currentTools, closed>>

LEMMA NextSteps ==
  ASSUME [Next]_vars
  PROVE  \/ Quiet
         \/ \E c \in CallIds, offset \in LocalCounts : BuildRequest(c, offset)
         \/ \E c \in CallIds, a \in AttemptIds, completed \in BOOLEAN, usage \in Usages :
              EndAttempt(c, a, completed, usage)
         \/ \E c \in CallIds, kind \in ToolKinds, tool \in ToolTypes, key \in ActionKeys :
              RunTool(c, kind, tool, key)
<1>1. CASE StartTask
  BY <1>1 DEF StartTask, TaskStarted, featureVars, counterVars, currentVars, Quiet
<1>2. CASE \E c \in CallIds, a \in AttemptIds : StartAttempt(c, a)
  BY <1>2 DEF MayAttempt, StartAttempt, ApiAttemptStarted, ApplyApiAttemptStarted, counterVars, Quiet
<1>3. CASE \E c \in CallIds, a \in AttemptIds, generated \in GeneratedCounts :
             TakeCheckpoint(c, a, generated)
  BY <1>3 DEF IsOpen, TakeCheckpoint, GenerationCheckpoint, ApplyGenerationCheckpoint,
              featureVars, counterVars, currentVars, Quiet
<1>4. CASE EndTask
  BY <1>4 DEF MayFinish, EndTask, TaskFinished, TaskAborted, Refuse, featureVars, counterVars,
              currentVars, Quiet
<1>5. CASE UNCHANGED vars
  BY <1>5 DEF vars, trajectoryVars, featureVars, counterVars, currentVars, Quiet
<1>6. QED
  BY <1>1, <1>2, <1>3, <1>4, <1>5 DEF Next

LEMMA BuildRequestEffect ==
  ASSUME TypeOK, ReducerFollowsTrajectory, NEW c \in CallIds,
         NEW offset \in LocalCounts, BuildRequest(c, offset)
  PROVE  /\ ~Requested(c) /\ terminals[c] = << >>
         /\ active # None => active \in CallIds /\ Dangling(active) = {}
         /\ requests' = Append(requests, [call |-> c, local |-> offset])
         /\ points' = Append(points, PointAt(offset))
         /\ active' = c /\ terminals' = terminals /\ starts' = starts
         /\ checkpoints' = checkpoints
         /\ toolFailures' = toolFailures /\ usageCounts' = usageCounts
         /\ closed' = IF active = None THEN closed ELSE ClosedCall
         /\ currentUsage' = FreshUsage /\ currentTools' = FreshTools
<1>1. /\ ~Requested(c)
      /\ active # None => Dangling(active) = {}
      /\ requests' = Append(requests, [call |-> c, local |-> offset])
      /\ points' = Append(points, PointAt(offset))
      /\ active' = c /\ terminals' = terminals /\ starts' = starts
      /\ checkpoints' = checkpoints
      /\ toolFailures' = toolFailures /\ usageCounts' = usageCounts
      /\ closed' = IF active = None THEN closed ELSE ClosedCall
      /\ currentUsage' = FreshUsage /\ currentTools' = FreshTools
  BY DEF MayRequest, BuildRequest, RequestBuilt, ApplyRequestBuilt, StartLogicalCall,
         ReducerFollowsTrajectory
<1>2. terminals[c] = << >>
  <2>1. terminals[c] \in Seq(Terminal) /\ Terminated(c) = {}
    BY <1>1 DEF TypeOK, TrajectoryTypeOK, ReducerFollowsTrajectory
  <2>2. DOMAIN terminals[c] = {}
    BY <2>1 DEF Terminated, AttemptsOf
  <2>3. Len(terminals[c]) = 0
    <3>1. Len(terminals[c]) \in Nat /\ 1 \notin 1..Len(terminals[c])
      BY <2>1, <2>2, LenProperties
    <3>2. QED
      BY <3>1
  <2>4. QED
    BY <2>1, <2>3, EmptySeq
<1>3. QED
  BY <1>1, <1>2 DEF TypeOK, TrajectoryTypeOK

LEMMA EndAttemptEffect ==
  ASSUME TypeOK, ReducerFollowsTrajectory, NEW c \in CallIds, NEW a \in AttemptIds,
         NEW completed \in BOOLEAN, NEW usage \in Usages,
         EndAttempt(c, a, completed, usage),
         NEW e, e = [attempt |-> a, completed |-> completed, usage |-> usage]
  PROVE  /\ c = active /\ active' = active /\ active # None
         /\ requests # << >> /\ c = CallAt(Len(requests))
         /\ a \in starts[c] /\ a \notin Terminated(c)
         /\ requests' = requests /\ points' = points /\ toolFailures' = toolFailures
         /\ closed' = closed /\ starts' = starts /\ checkpoints' = checkpoints
         /\ e \in Terminal /\ terminals[c] \in Seq(Terminal)
         /\ terminals'[c] = Append(terminals[c], e)
         /\ \A d \in CallIds \ {c} : terminals'[d] = terminals[d]
         /\ CountUsage(usage) /\ CountCurrentUsage(usage)
         /\ currentTools' = IF completed THEN currentTools
                                         ELSE [currentTools EXCEPT !.has_error = TRUE]
<1>1. /\ c = active /\ active' = active /\ active # None
      /\ a \in starts[c] /\ a \notin Terminated(c)
      /\ requests' = requests /\ points' = points /\ toolFailures' = toolFailures
      /\ closed' = closed /\ starts' = starts /\ checkpoints' = checkpoints
      /\ terminals' = [terminals EXCEPT ![c] = Append(@, e)]
      /\ CountUsage(usage) /\ CountCurrentUsage(usage)
      /\ currentTools' = IF completed THEN currentTools
                                      ELSE [currentTools EXCEPT !.has_error = TRUE]
  BY ContractsAssumption
  DEF IsOpen, EndAttempt, ApiTerminal, Contiguous, Dangling, ApplyApiTerminal, Belongs,
      ReducerFollowsTrajectory
<1>2. e \in Terminal
  BY DEF Terminal
<1>3. terminals \in [CallIds -> Seq(Terminal)]
  BY DEF TypeOK, TrajectoryTypeOK
<1>4. requests # << >> /\ c = CallAt(Len(requests))
  BY <1>1 DEF ReducerFollowsTrajectory
<1>5. QED
  BY <1>1, <1>2, <1>3, <1>4

LEMMA RunToolEffect ==
  ASSUME TypeOK, ReducerFollowsTrajectory, NEW c \in CallIds, NEW kind \in ToolKinds,
         NEW tool \in ToolTypes, NEW key \in ActionKeys,
         RunTool(c, kind, tool, key)
  PROVE  /\ c = active /\ active # None
         /\ UNCHANGED <<requests, active, terminals, points, usageCounts,
                        currentUsage, closed, starts, checkpoints>>
         /\ toolFailures' = IF kind = "tool_failed" THEN toolFailures \cup {c}
                                                    ELSE toolFailures
         /\ currentTools'.has_error = (kind = "tool_failed" \/ currentTools.has_error)
<1>1. /\ c = active /\ active # None /\ Belongs(c)
      /\ UNCHANGED <<requests, active, terminals, points, usageCounts,
                     currentUsage, closed, starts, checkpoints>>
      /\ toolFailures' = IF kind = "tool_failed" THEN toolFailures \cup {c}
                                                 ELSE toolFailures
  BY ContractsAssumption
  DEF RunTool, ToolEvent, Contiguous, trajectoryVars, ApplyToolEvent, Belongs,
      ReducerFollowsTrajectory
<1>2. currentTools \in CurrentTools
  BY DEF TypeOK, FeatureTypeOK
<1> DEFINE named == IF tool = None
                    THEN currentTools
                    ELSE [currentTools EXCEPT !.last_tool_type = tool]
<1>3. named \in CurrentTools /\ named.has_error = currentTools.has_error
  BY <1>2 DEF CurrentTools
<1>4. currentTools' = IF kind = "tool_failed"
                      THEN [named EXCEPT !.tool_error_count = @ + 1, !.has_error = TRUE]
                      ELSE named
  BY <1>1 DEF RunTool, ApplyToolEvent
<1> HIDE DEF named
<1>5. currentTools'.has_error = (kind = "tool_failed" \/ currentTools.has_error)
  <2>1. CASE kind = "tool_failed"
    BY <1>3, <1>4, <2>1 DEF CurrentTools
  <2>2. CASE kind # "tool_failed"
    BY <1>3, <1>4, <2>2 DEF CurrentTools
  <2>3. QED
    BY <2>1, <2>2
<1>6. QED
  BY <1>1, <1>5

-----------------------------------------------------------------------------
(* Each of the four facts is preserved by every step.                      *)

LEMMA AppendFacts ==
  ASSUME NEW T, NEW s \in Seq(T), NEW x \in T, NEW t, t = Append(s, x)
  PROVE  /\ t \in Seq(T) /\ Len(s) \in Nat /\ Len(t) = Len(s) + 1 /\ t # << >>
         /\ DOMAIN s = 1..Len(s) /\ DOMAIN t = 1..(Len(s) + 1)
         /\ \A i \in 1..Len(s) : t[i] = s[i] /\ s[i] \in T
         /\ t[Len(s) + 1] = x
<1>1. /\ t \in Seq(T) /\ Len(s) \in Nat /\ Len(t) = Len(s) + 1
      /\ DOMAIN s = 1..Len(s) /\ DOMAIN t = 1..(Len(s) + 1)
      /\ \A i \in 1..Len(s) : t[i] = s[i] /\ s[i] \in T
      /\ t[Len(s) + 1] = x
  OBVIOUS
<1>2. t # << >>
  BY <1>1, EmptySeq
<1>3. QED
  BY <1>1, <1>2

LEMMA BuildRequestTables ==
  ASSUME TypeOK, ReducerFollowsTrajectory, RequestsHavePoints,
         NEW c \in CallIds, NEW offset \in LocalCounts, BuildRequest(c, offset)
  PROVE  /\ Len(requests) \in Nat
         /\ DOMAIN requests = 1..Len(requests) /\ DOMAIN points = 1..Len(requests)
         /\ DOMAIN requests' = 1..(Len(requests) + 1)
         /\ DOMAIN points' = 1..(Len(requests) + 1)
         /\ Len(requests') = Len(requests) + 1 /\ Len(points') = Len(requests) + 1
         /\ requests' # << >>
         /\ \A i \in 1..Len(requests) :
              /\ requests'[i] = requests[i] /\ points'[i] = points[i]
              /\ CallAt(i)' = CallAt(i) /\ CallAt(i) \in CallIds /\ CallAt(i) # c
         /\ requests'[Len(requests) + 1] = [call |-> c, local |-> offset]
         /\ CallAt(Len(requests))' = c
         /\ points'[Len(requests) + 1] = PointAt(offset)
<1> DEFINE r == [call |-> c, local |-> offset]
           p == PointAt(offset)
<1>0. offset \in OptNat
  BY ContractsAssumption
<1>1. requests \in Seq(Request) /\ r \in Request
  <2>1. r \in Request
    BY <1>0 DEF Request
  <2>2. QED
    BY <2>1 DEF TypeOK, TrajectoryTypeOK
<1>2. points \in Seq(Spend!SpendPoint) /\ p \in Spend!SpendPoint
  <2>1. usageCounts \in UsageCounts
    BY DEF TypeOK, FeatureTypeOK
  <2>2. p \in Spend!SpendPoint
    BY <1>0, <2>1 DEF PointAt, Spend!SpendPoint, UsageCounts, OptNat
  <2>3. QED
    BY <2>2 DEF TypeOK
<1>3. requests' = Append(requests, r) /\ points' = Append(points, p) /\ ~Requested(c)
  BY BuildRequestEffect
<1>4. r.call = c
  OBVIOUS
<1> HIDE DEF r, p
<1>5. /\ Len(requests) \in Nat /\ DOMAIN requests = 1..Len(requests)
      /\ DOMAIN requests' = 1..(Len(requests) + 1)
      /\ Len(requests') = Len(requests) + 1 /\ requests' # << >>
      /\ \A i \in 1..Len(requests) : requests'[i] = requests[i] /\ requests[i] \in Request
      /\ requests'[Len(requests) + 1] = r
  BY <1>1, <1>3, AppendFacts
<1>6. /\ DOMAIN points = 1..Len(requests)
      /\ DOMAIN points' = 1..(Len(requests) + 1) /\ Len(points') = Len(requests) + 1
      /\ \A i \in 1..Len(requests) : points'[i] = points[i]
      /\ points'[Len(requests) + 1] = p
  <2>1. Len(points) = Len(requests)
    BY DEF RequestsHavePoints
  <2>2. /\ DOMAIN points = 1..Len(points)
        /\ DOMAIN points' = 1..(Len(points) + 1) /\ Len(points') = Len(points) + 1
        /\ \A i \in 1..Len(points) : points'[i] = points[i]
        /\ points'[Len(points) + 1] = p
    BY <1>2, <1>3, AppendFacts
  <2>3. QED
    BY <2>1, <2>2
<1>7. \A i \in 1..Len(requests) :
        CallAt(i)' = CallAt(i) /\ CallAt(i) \in CallIds /\ CallAt(i) # c
  <2> TAKE i \in 1..Len(requests)
  <2>1. requests[i] \in Request
    BY <1>5
  <2>2. QED
    BY <1>3, <1>5, <2>1 DEF CallAt, Requested, Request
<1>8. CallAt(Len(requests))' = c
  BY <1>4, <1>5 DEF CallAt
<1>9. QED
  BY <1>5, <1>6, <1>7, <1>8 DEF r, p

LEMMA RequestsHavePointsStep ==
  ASSUME TypeOK, ReducerFollowsTrajectory, RequestsHavePoints, [Next]_vars
  PROVE  RequestsHavePoints'
<1>1. CASE Quiet
  BY <1>1 DEF Quiet, RequestsHavePoints, CallAt, Requested
<1>2. ASSUME NEW c \in CallIds, NEW offset \in LocalCounts, BuildRequest(c, offset)
      PROVE  RequestsHavePoints'
  <2>0. PICK n : n = Len(requests)
    OBVIOUS
  <2>1. /\ n \in Nat /\ DOMAIN requests = 1..n /\ DOMAIN points = 1..n
        /\ DOMAIN requests' = 1..(n + 1) /\ DOMAIN points' = 1..(n + 1)
        /\ Len(requests') = n + 1 /\ Len(points') = n + 1
        /\ \A i \in 1..n : /\ requests'[i] = requests[i] /\ points'[i] = points[i]
                           /\ CallAt(i)' = CallAt(i) /\ CallAt(i) # c
        /\ requests'[n + 1] = [call |-> c, local |-> offset]
        /\ points'[n + 1] = PointAt(offset)
    BY <1>2, <2>0, BuildRequestTables
  <2>2. \A i \in DOMAIN points' :
          /\ points'[i].offset = requests'[i].local
          /\ points'[i].missing \in Nat /\ points'[i].input \in Nat
          /\ points'[i].output \in Nat
    <3>1. /\ PointAt(offset).offset = offset
          /\ PointAt(offset).missing \in Nat /\ PointAt(offset).input \in Nat
          /\ PointAt(offset).output \in Nat
      BY DEF PointAt, TypeOK, FeatureTypeOK, UsageCounts
    <3>2. /\ points'[n + 1].offset = requests'[n + 1].local
          /\ points'[n + 1].missing \in Nat /\ points'[n + 1].input \in Nat
          /\ points'[n + 1].output \in Nat
      BY <2>1, <3>1
    <3>3. QED
      BY <2>1, <3>2 DEF RequestsHavePoints
  <2>3. \A i, j \in DOMAIN requests' : CallAt(i)' = CallAt(j)' => i = j
    <3> SUFFICES ASSUME NEW i \in 1..(n + 1), NEW j \in 1..(n + 1), CallAt(i)' = CallAt(j)'
                 PROVE  i = j
      BY <2>1
    <3>1. CASE i \in 1..n /\ j \in 1..n
      BY <2>1, <3>1 DEF RequestsHavePoints
    <3>2. CallAt(n + 1)' = c
      BY <2>1 DEF CallAt
    <3>3. CASE i \notin 1..n \/ j \notin 1..n
      <4>1. i = n + 1 \/ j = n + 1
        BY <2>1, <3>3
      <4>2. QED
        BY <2>1, <3>2, <4>1
    <3>4. QED
      BY <3>1, <3>3
  <2>4. \A d : Requested(d) => Requested(d)'
    <3>1. \A i \in 1..n : i \in 1..(n + 1)
      BY <2>1
    <3>2. QED
      BY <2>1, <3>1 DEF Requested
  <2>5. toolFailures' = toolFailures
    BY <1>2, BuildRequestEffect
  <2>6. QED
    BY <2>1, <2>2, <2>3, <2>4, <2>5 DEF RequestsHavePoints
<1>3. ASSUME NEW c \in CallIds, NEW a \in AttemptIds, NEW completed \in BOOLEAN,
             NEW usage \in Usages, EndAttempt(c, a, completed, usage)
      PROVE  RequestsHavePoints'
  <2>1. PICK e : e = [attempt |-> a, completed |-> completed, usage |-> usage]
    OBVIOUS
  <2>2. requests' = requests /\ points' = points /\ toolFailures' = toolFailures
    BY <1>3, <2>1, EndAttemptEffect
  <2>3. QED
    BY <2>2 DEF RequestsHavePoints, CallAt, Requested
<1>4. ASSUME NEW c \in CallIds, NEW kind \in ToolKinds, NEW tool \in ToolTypes,
             NEW key \in ActionKeys, RunTool(c, kind, tool, key)
      PROVE  RequestsHavePoints'
  <2>1. /\ c = active /\ active # None
        /\ UNCHANGED <<requests, points>>
        /\ toolFailures' = IF kind = "tool_failed" THEN toolFailures \cup {c}
                                                   ELSE toolFailures
    BY <1>4, RunToolEffect
  <2>2. Requested(c)
    BY <2>1, ActiveRequested
  <2>3. QED
    BY <2>1, <2>2 DEF RequestsHavePoints, CallAt, Requested
<1>5. QED
  BY <1>1, <1>2, <1>3, <1>4, NextSteps

LEMMA ScratchFollowsCallStep ==
  ASSUME TypeOK, ReducerFollowsTrajectory, RequestsHavePoints, ScratchFollowsCall,
         [Next]_vars
  PROVE  ScratchFollowsCall'
<1>1. CASE Quiet
  BY <1>1 DEF Quiet, ScratchFollowsCall, Failed
<1>2. ASSUME NEW c \in CallIds, NEW offset \in LocalCounts, BuildRequest(c, offset)
      PROVE  ScratchFollowsCall'
  <2>0. /\ active' = c /\ terminals'[c] = << >> /\ toolFailures' = toolFailures
        /\ currentUsage' = FreshUsage /\ currentTools' = FreshTools /\ ~Requested(c)
    BY <1>2, BuildRequestEffect
  <2>1. /\ active' = c /\ terminals'[c] = << >> /\ toolFailures' = toolFailures
        /\ ~currentUsage'.has_unknown_usage /\ currentUsage'.output_tokens = 0
        /\ ~currentTools'.has_error /\ ~Requested(c)
    BY <2>0 DEF FreshUsage, FreshTools
  <2>2. requests' # << >>
    BY <1>2, BuildRequestTables
  <2>3. ~Failed(c)'
    BY <2>1 DEF Failed, RequestsHavePoints
  <2>4. QED
    BY <2>1, <2>2, <2>3, EventsEmpty DEF ScratchFollowsCall
<1>3. ASSUME NEW c \in CallIds, NEW a \in AttemptIds, NEW completed \in BOOLEAN,
             NEW usage \in Usages, EndAttempt(c, a, completed, usage)
      PROVE  ScratchFollowsCall'
  <2> DEFINE events == terminals[c]
  <2>1. PICK e : e = [attempt |-> a, completed |-> completed, usage |-> usage]
    OBVIOUS
  <2>2. /\ c = active /\ active' = active /\ active # None /\ requests # << >>
        /\ requests' = requests /\ toolFailures' = toolFailures
        /\ e \in Terminal /\ events \in Seq(Terminal)
        /\ terminals'[c] = Append(events, e)
        /\ CountCurrentUsage(usage)
        /\ currentTools' = IF completed THEN currentTools
                                        ELSE [currentTools EXCEPT !.has_error = TRUE]
    BY <1>3, <2>1, EndAttemptEffect
  <2>3. PICK longer : longer = terminals'[c]
    OBVIOUS
  <2>4. longer = Append(events, e) /\ e.usage = usage /\ e.completed = completed
    BY <2>1, <2>2, <2>3
  <2>5. /\ currentUsage \in CurrentUsage /\ currentTools \in CurrentTools
    BY DEF TypeOK, FeatureTypeOK
  <2>6. AllComplete(longer) <=> AllComplete(events) /\ IsComplete(usage)
    BY <2>2, <2>4, EventsAppend
  <2>7. currentUsage'.has_unknown_usage <=> ~AllComplete(longer)
    BY <2>2, <2>5, <2>6 DEF CountCurrentUsage, CurrentUsage, ScratchFollowsCall
  <2>8. AllComplete(longer) =>
          currentUsage'.output_tokens = SumOver(longer, DOMAIN longer, OutputOf)
    <3> SUFFICES ASSUME AllComplete(longer)
                 PROVE  currentUsage'.output_tokens = SumOver(longer, DOMAIN longer, OutputOf)
      OBVIOUS
    <3>1. SumOver(longer, DOMAIN longer, OutputOf) =
            SumOver(events, DOMAIN events, OutputOf) + OutputOf(usage)
      BY <2>2, <2>4, EventsAppendSum
    <3>2. currentUsage.output_tokens = SumOver(events, DOMAIN events, OutputOf)
      BY <2>2, <2>6 DEF ScratchFollowsCall
    <3>3. currentUsage'.output_tokens = currentUsage.output_tokens + usage.output_tokens
      BY <2>2, <2>5, <2>6 DEF CountCurrentUsage, CurrentUsage
    <3>4. QED
      BY <3>1, <3>2, <3>3 DEF OutputOf
  <2>9. currentTools'.has_error <=> Failed(c)'
    <3>1. Failed(c)' <=> Failed(c) \/ ~completed
      BY <2>2, <2>3, <2>4, EventsAppend, SMTT(30) DEF Failed
    <3>2. currentTools'.has_error <=> currentTools.has_error \/ ~completed
      BY <2>2, <2>5 DEF CurrentTools
    <3>3. QED
      BY <2>2, <3>1, <3>2 DEF ScratchFollowsCall
  <2>10. QED
    BY <2>2, <2>3, <2>7, <2>8, <2>9 DEF ScratchFollowsCall
<1>4. ASSUME NEW c \in CallIds, NEW kind \in ToolKinds, NEW tool \in ToolTypes,
             NEW key \in ActionKeys, RunTool(c, kind, tool, key)
      PROVE  ScratchFollowsCall'
  <2>1. /\ c = active /\ active # None
        /\ UNCHANGED <<requests, active, terminals, currentUsage, closed>>
        /\ toolFailures' = IF kind = "tool_failed" THEN toolFailures \cup {c}
                                                   ELSE toolFailures
        /\ currentTools'.has_error = (kind = "tool_failed" \/ currentTools.has_error)
    BY <1>4, RunToolEffect
  <2>2. Failed(c)' <=> Failed(c) \/ kind = "tool_failed"
    BY <2>1 DEF Failed
  <2>3. QED
    BY <2>1, <2>2 DEF ScratchFollowsCall
<1>5. QED
  BY <1>1, <1>2, <1>3, <1>4, NextSteps

(* A request that has a point is answered for by finitely many calls, the  *)
(* active one among them.                                                  *)
LEMMA CallsFromType ==
  ASSUME TypeOK, RequestsHavePoints, NEW i \in DOMAIN points
  PROVE  /\ i \in 1..Len(requests) /\ Len(requests) \in Nat
         /\ IsFiniteSet(CallsFrom(i)) /\ CallsFrom(i) \subseteq CallIds
         /\ CallAt(Len(requests)) \in CallsFrom(i)
<1>1. requests \in Seq(Request) /\ points \in Seq(Spend!SpendPoint)
  BY DEF TypeOK, TrajectoryTypeOK
<1>2. Len(requests) \in Nat /\ i \in 1..Len(requests)
  BY <1>1, LenProperties DEF RequestsHavePoints
<1>3. \A k \in i..Len(requests) : CallAt(k) \in CallIds
  <2> TAKE k \in i..Len(requests)
  <2>1. requests[k] \in Request
    BY <1>1, <1>2
  <2>2. QED
    BY <2>1 DEF CallAt, Request
<1>4. IsFiniteSet(CallsFrom(i))
  <2>1. IsFiniteSet(i..Len(requests))
    BY <1>2, FS_Interval
  <2> DEFINE at == [k \in i..Len(requests) |-> CallAt(k)]
  <2>2. at \in Surjection(i..Len(requests), CallsFrom(i))
    BY DEF Surjection, CallsFrom
  <2>3. QED
    BY <2>1, <2>2, FS_Surjection
<1>5. QED
  BY <1>2, <1>3, <1>4 DEF CallsFrom

LEMMA BilledType ==
  ASSUME TypeOK, NEW c \in CallIds, AllComplete(terminals[c])
  PROVE  BilledTo(c) \in Nat
<1>1. terminals[c] \in Seq(Terminal)
  BY DEF TypeOK, TrajectoryTypeOK
<1>2. QED
  BY <1>1, EventSumType DEF BilledTo

LEMMA SpendFollowsSameTables ==
  ASSUME SpendFollowsCalls, UNCHANGED <<requests, terminals, points, usageCounts>>
  PROVE  SpendFollowsCalls'
<1>1. \A c : BilledTo(c)' = BilledTo(c)
  BY DEF BilledTo
<1>2. \A i : CallsFrom(i)' = CallsFrom(i)
  BY DEF CallsFrom, CallAt
<1>3. \A i : SumFunction([c \in CallsFrom(i) |-> BilledTo(c)])' =
             SumFunction([c \in CallsFrom(i) |-> BilledTo(c)])
  BY <1>1, <1>2
<1>4. QED
  BY <1>2, <1>3 DEF SpendFollowsCalls

LEMMA SpendFollowsBuild ==
  ASSUME TypeOK, ReducerFollowsTrajectory, RequestsHavePoints, SpendFollowsCalls,
         NEW c \in CallIds, NEW offset \in LocalCounts, BuildRequest(c, offset)
  PROVE  SpendFollowsCalls'
<1>0. PICK n : n = Len(requests)
  OBVIOUS
<1>1. /\ n \in Nat /\ DOMAIN points = 1..n /\ DOMAIN points' = 1..(n + 1)
      /\ Len(requests') = n + 1
      /\ \A i \in 1..n : /\ points'[i] = points[i]
                         /\ requests'[i] = requests[i] /\ CallAt(i) # c
      /\ requests'[n + 1].call = c
      /\ points'[n + 1] = PointAt(offset)
  <2>1. /\ n \in Nat /\ DOMAIN points = 1..n /\ DOMAIN points' = 1..(n + 1)
        /\ Len(requests') = n + 1
        /\ \A i \in 1..n : /\ points'[i] = points[i]
                           /\ requests'[i] = requests[i] /\ CallAt(i) # c
        /\ requests'[n + 1] = [call |-> c, local |-> offset]
        /\ points'[n + 1] = PointAt(offset)
    BY <1>0, BuildRequestTables
  <2>2. QED
    BY <2>1
<1>2. terminals[c] = << >> /\ terminals' = terminals /\ usageCounts' = usageCounts
  BY BuildRequestEffect
<1>3. /\ AllComplete(terminals[c])' /\ BilledTo(c) = 0
      /\ \A d : BilledTo(d)' = BilledTo(d)
  BY <1>2, EventsEmpty DEF BilledTo
<1>4. /\ usageCounts.missing_usage_attempts \in Nat
      /\ usageCounts.cumulative_provider_input_tokens \in Nat
      /\ usageCounts.cumulative_provider_output_tokens \in Nat
  BY DEF TypeOK, FeatureTypeOK, UsageCounts
<1>5. ASSUME NEW i \in 1..n
      PROVE  CallsFrom(i)' = CallsFrom(i) \cup {c} /\ c \notin CallsFrom(i)
  <2>1. i..(n + 1) = (i..n) \cup {n + 1}
    BY <1>1
  <2>2. \A k \in i..n : requests'[k] = requests[k] /\ CallAt(k) # c
    BY <1>1
  <2>3. QED
    BY <1>0, <1>1, <2>1, <2>2 DEF CallsFrom, CallAt
<1>6. CallsFrom(n + 1)' = {c}
  <2>1. (n + 1)..Len(requests') = {n + 1}
    BY <1>1
  <2>2. QED
    BY <1>1, <2>1 DEF CallsFrom, CallAt
<1> DEFINE Unseen(S) == \E d \in S : ~AllComplete(terminals[d])
           Billed(S) == SumFunction([d \in S |-> BilledTo(d)])
<1>7. ASSUME NEW i \in 1..n
      PROVE  /\ points'[i].missing <= usageCounts'.missing_usage_attempts
             /\ points'[i].missing = usageCounts'.missing_usage_attempts
                  <=> ~Unseen(CallsFrom(i))'
             /\ ~Unseen(CallsFrom(i))' =>
                  usageCounts'.cumulative_provider_input_tokens
                    + usageCounts'.cumulative_provider_output_tokens =
                  points'[i].input + points'[i].output + Billed(CallsFrom(i))'
  <2>1. /\ points[i].missing <= usageCounts.missing_usage_attempts
        /\ points[i].missing = usageCounts.missing_usage_attempts <=> ~Unseen(CallsFrom(i))
        /\ ~Unseen(CallsFrom(i)) =>
              usageCounts.cumulative_provider_input_tokens
                + usageCounts.cumulative_provider_output_tokens =
              points[i].input + points[i].output + Billed(CallsFrom(i))
    BY <1>1 DEF SpendFollowsCalls
  <2>2. Unseen(CallsFrom(i))' <=> Unseen(CallsFrom(i))
    BY <1>2, <1>3, <1>5
  <2>3. ~Unseen(CallsFrom(i)) => Billed(CallsFrom(i))' = Billed(CallsFrom(i))
    <3> SUFFICES ASSUME ~Unseen(CallsFrom(i))
                 PROVE  Billed(CallsFrom(i))' = Billed(CallsFrom(i))
      OBVIOUS
    <3>1. PICK S : S = CallsFrom(i)
      OBVIOUS
    <3>2. IsFiniteSet(S) /\ S \subseteq CallIds /\ c \notin S
      BY <1>1, <1>5, <3>1, CallsFromType
    <3> DEFINE f == [d \in S |-> BilledTo(d)]
               g == [d \in S \cup {c} |-> BilledTo(d)]
    <3>3. \A d \in S \cup {c} : g[d] \in Int
      BY <1>3, <3>1, <3>2, BilledType
    <3>4. /\ DOMAIN f = S /\ DOMAIN g = S \cup {c} /\ g[c] = 0
          /\ \A d \in S : f[d] = g[d]
      BY <1>3
    <3> HIDE DEF f, g
    <3>5. SumFunction(g) = SumFunctionOnSet(g, S) + 0
      BY <3>2, <3>3, <3>4, SumAdd DEF SumFunction
    <3>6. SumFunctionOnSet(g, S) \in Int
      <4>1. \A d \in S : g[d] \in Int
        BY <3>3
      <4>2. QED
        BY <3>2, <4>1, SumType
    <3>7. SumFunction(f) = SumFunctionOnSet(g, S)
      BY <3>2, <3>4, SumSame DEF SumFunction
    <3>8. SumFunction(g) = SumFunction(f)
      BY <3>5, <3>6, <3>7
    <3>9. Billed(CallsFrom(i))' = SumFunction(g)
      BY <1>3, <1>5, <3>1 DEF g
    <3>10. Billed(CallsFrom(i)) = SumFunction(f)
      BY <3>1 DEF f
    <3>11. QED
      BY <3>8, <3>9, <3>10
  <2> HIDE DEF Unseen, Billed
  <2>4. points'[i] = points[i] /\ usageCounts' = usageCounts
    BY <1>1, <1>2
  <2>5. QED
    BY <2>1, <2>2, <2>3, <2>4
<1>8. /\ points'[n + 1].missing <= usageCounts'.missing_usage_attempts
      /\ points'[n + 1].missing = usageCounts'.missing_usage_attempts
           <=> ~Unseen(CallsFrom(n + 1))'
      /\ ~Unseen(CallsFrom(n + 1))' =>
           usageCounts'.cumulative_provider_input_tokens
             + usageCounts'.cumulative_provider_output_tokens =
           points'[n + 1].input + points'[n + 1].output + Billed(CallsFrom(n + 1))'
  <2>1. ~Unseen(CallsFrom(n + 1))'
    BY <1>3, <1>6
  <2>2. Billed(CallsFrom(n + 1))' = 0
    <3> DEFINE f == [d \in {c} |-> BilledTo(d)]
    <3>1. DOMAIN f = {} \cup {c} /\ f[c] = 0 /\ IsFiniteSet({})
      BY <1>3, FS_EmptySet
    <3>2. Billed(CallsFrom(n + 1))' = SumFunction(f)
      BY <1>3, <1>6
    <3> HIDE DEF f
    <3>3. SumFunction(f) = SumFunctionOnSet(f, {}) + 0
      BY <3>1, SumAdd DEF SumFunction
    <3>4. SumFunctionOnSet(f, {}) = 0
      BY SumEmpty
    <3>5. QED
      BY <3>2, <3>3, <3>4
  <2>3. /\ points'[n + 1].missing = usageCounts.missing_usage_attempts
        /\ points'[n + 1].input = usageCounts.cumulative_provider_input_tokens
        /\ points'[n + 1].output = usageCounts.cumulative_provider_output_tokens
    BY <1>1 DEF PointAt
  <2> HIDE DEF Unseen, Billed
  <2>4. QED
    BY <1>2, <1>4, <2>1, <2>2, <2>3
<1> HIDE DEF Unseen, Billed
<1>9. \A i \in DOMAIN points' :
        /\ points'[i].missing <= usageCounts'.missing_usage_attempts
        /\ points'[i].missing = usageCounts'.missing_usage_attempts
             <=> ~Unseen(CallsFrom(i))'
        /\ ~Unseen(CallsFrom(i))' =>
             usageCounts'.cumulative_provider_input_tokens
               + usageCounts'.cumulative_provider_output_tokens =
             points'[i].input + points'[i].output + Billed(CallsFrom(i))'
  <2>1. \A i \in DOMAIN points' : i \in 1..n \/ i = n + 1
    BY <1>1
  <2>2. QED
    BY <1>7, <1>8, <2>1
<1>10. QED
  BY <1>9 DEF SpendFollowsCalls, Unseen, Billed

LEMMA SpendFollowsEnd ==
  ASSUME TypeOK, ReducerFollowsTrajectory, RequestsHavePoints, SpendFollowsCalls,
         NEW c \in CallIds, NEW a \in AttemptIds, NEW completed \in BOOLEAN,
         NEW usage \in Usages, EndAttempt(c, a, completed, usage)
  PROVE  SpendFollowsCalls'
<1>1. PICK e : e = [attempt |-> a, completed |-> completed, usage |-> usage]
  OBVIOUS
<1>2. /\ c = CallAt(Len(requests))
      /\ requests' = requests /\ points' = points
      /\ e \in Terminal /\ terminals[c] \in Seq(Terminal)
      /\ terminals'[c] = Append(terminals[c], e)
      /\ \A d \in CallIds \ {c} : terminals'[d] = terminals[d]
      /\ CountUsage(usage)
  BY <1>1, EndAttemptEffect
<1>3. e.usage = usage
  BY <1>1
<1>4. PICK longer : longer = terminals'[c]
  OBVIOUS
<1>5. AllComplete(longer) <=> AllComplete(terminals[c]) /\ IsComplete(usage)
  <2>1. PICK events : events = terminals[c]
    OBVIOUS
  <2>2. events \in Seq(Terminal) /\ e \in Terminal /\ longer = Append(events, e)
    BY <1>2, <1>4, <2>1
  <2>3. AllComplete(longer) <=> AllComplete(events) /\ IsComplete(e.usage)
    BY <2>2, EventsAppend
  <2>4. QED
    BY <1>3, <2>1, <2>3
<1>6. usageCounts \in UsageCounts
  BY DEF TypeOK, FeatureTypeOK
<1>7. points \in Seq(Spend!SpendPoint)
  BY DEF TypeOK
<1>8. \A i : CallsFrom(i)' = CallsFrom(i)
  BY <1>2 DEF CallsFrom, CallAt
<1> SUFFICES ASSUME NEW i \in DOMAIN points
             PROVE  LET unseen == \E d \in CallsFrom(i) : ~AllComplete(terminals'[d])
                    IN /\ points[i].missing <= usageCounts'.missing_usage_attempts
                       /\ points[i].missing = usageCounts'.missing_usage_attempts <=> ~unseen
                       /\ ~unseen =>
                            usageCounts'.cumulative_provider_input_tokens
                              + usageCounts'.cumulative_provider_output_tokens =
                            points[i].input + points[i].output
                              + SumFunction([d \in CallsFrom(i) |-> BilledTo(d)'])
  BY <1>2, <1>8 DEF SpendFollowsCalls
<1> DEFINE S == CallsFrom(i)
           unseen == \E d \in S : ~AllComplete(terminals[d])
           unseenNext == \E d \in S : ~AllComplete(terminals'[d])
           billed == SumFunction([d \in S |-> BilledTo(d)])
           billedNext == SumFunction([d \in S |-> BilledTo(d)'])
           spent == usageCounts.cumulative_provider_input_tokens
                      + usageCounts.cumulative_provider_output_tokens
           spentNext == usageCounts'.cumulative_provider_input_tokens
                          + usageCounts'.cumulative_provider_output_tokens
<1>9. IsFiniteSet(S) /\ S \subseteq CallIds /\ c \in S
  BY <1>2, CallsFromType
<1>10. /\ points[i].missing <= usageCounts.missing_usage_attempts
       /\ points[i].missing = usageCounts.missing_usage_attempts <=> ~unseen
       /\ ~unseen => spent = points[i].input + points[i].output + billed
  BY DEF SpendFollowsCalls
<1> HIDE DEF S
<1>11. unseenNext <=> unseen \/ ~IsComplete(usage)
  <2>1. \A d \in S \ {c} : terminals'[d] = terminals[d]
    BY <1>2, <1>9
  <2>2. QED
    BY <1>4, <1>5, <1>9, <2>1
<1>12. points[i].missing \in Nat
  BY DEF RequestsHavePoints
<1>13. CASE ~IsComplete(usage)
  <2>1. usageCounts'.missing_usage_attempts = usageCounts.missing_usage_attempts + 1
    BY <1>2, <1>6, <1>13 DEF CountUsage, UsageCounts
  <2>2. usageCounts.missing_usage_attempts \in Nat
    BY <1>6 DEF UsageCounts
  <2>3. unseenNext
    BY <1>11, <1>13
  <2> HIDE DEF unseen, unseenNext, billed, billedNext, spent, spentNext
  <2>4. QED
    BY <1>10, <1>12, <2>1, <2>2, <2>3 DEF S, unseenNext
<1>14. CASE IsComplete(usage)
  <2>1. usageCounts'.missing_usage_attempts = usageCounts.missing_usage_attempts
    BY <1>2, <1>6, <1>14 DEF CountUsage, UsageCounts
  <2>2. unseenNext <=> unseen
    BY <1>11, <1>14
  <2>3. ASSUME ~unseenNext
        PROVE  spentNext = points[i].input + points[i].output + billedNext
    <3>1. spentNext = spent + AccountedTotal(usage)
      <4>1. /\ usageCounts'.cumulative_provider_input_tokens =
                 usageCounts.cumulative_provider_input_tokens + usage.input_tokens
            /\ usageCounts'.cumulative_provider_output_tokens =
                 usageCounts.cumulative_provider_output_tokens + usage.output_tokens
        BY <1>2, <1>6, <1>14 DEF CountUsage, UsageCounts
      <4>2. /\ usageCounts.cumulative_provider_input_tokens \in Nat
            /\ usageCounts.cumulative_provider_output_tokens \in Nat
            /\ usage.input_tokens \in Nat /\ usage.output_tokens \in Nat
        BY <1>6, <1>14, CompleteUsage DEF UsageCounts
      <4>3. QED
        BY <4>1, <4>2 DEF AccountedTotal
    <3>2. billedNext = billed + AccountedTotal(usage)
      <4> DEFINE f == [d \in S |-> BilledTo(d)]
                 g == [d \in S |-> BilledTo(d)']
      <4>1. AllComplete(longer)
        BY <1>4, <1>9, <2>3
      <4>2. SumOver(longer, DOMAIN longer, AccountedTotal) =
              BilledTo(c) + AccountedTotal(usage)
        BY <1>2, <1>3, <1>4, <4>1, EventsAppendSum DEF BilledTo
      <4>3. g[c] = f[c] + AccountedTotal(usage)
        BY <1>4, <1>9, <4>2 DEF BilledTo
      <4>4. \A d \in S \ {c} : f[d] = g[d]
        BY <1>2, <1>9 DEF BilledTo
      <4>5. \A d \in S : f[d] \in Int
        <5>1. \A d \in S : AllComplete(terminals[d])
          BY <2>2, <2>3
        <5>2. QED
          BY <1>9, <5>1, BilledType
      <4>6. AccountedTotal(usage) \in Int
        BY <1>14, CompleteAmounts
      <4>7. DOMAIN f = S /\ DOMAIN g = S
        OBVIOUS
      <4>8. billed = SumFunction(f) /\ billedNext = SumFunction(g)
        OBVIOUS
      <4> HIDE DEF f, g, billed, billedNext
      <4>9. \A d \in S : f[d] \in Int /\ g[d] \in Int
        BY <1>9, <4>3, <4>4, <4>5, <4>6
      <4>10. SumFunction(g) = SumFunction(f) + (g[c] - f[c])
        BY <1>9, <4>4, <4>7, <4>9, SumUpdate DEF SumFunction
      <4>11. SumFunction(f) \in Int
        BY <1>9, <4>5, <4>7, SumType DEF SumFunction
      <4>12. g[c] - f[c] = AccountedTotal(usage)
        BY <1>9, <4>3, <4>6, <4>9
      <4>13. QED
        BY <4>8, <4>10, <4>12
    <3>3. spent = points[i].input + points[i].output + billed
      BY <1>10, <2>2, <2>3
    <3>4. billed \in Int /\ AccountedTotal(usage) \in Int
      <4> DEFINE f == [d \in S |-> BilledTo(d)]
      <4>1. \A d \in S : f[d] \in Int
        <5>1. \A d \in S : AllComplete(terminals[d])
          BY <2>2, <2>3
        <5>2. QED
          BY <1>9, <5>1, BilledType
      <4>2. DOMAIN f = S /\ billed = SumFunction(f)
        OBVIOUS
      <4> HIDE DEF f, billed
      <4>3. QED
        BY <1>9, <1>14, <4>1, <4>2, SumType, CompleteAmounts DEF SumFunction
    <3>5. points[i].input \in Int /\ points[i].output \in Int
      BY DEF RequestsHavePoints
    <3> HIDE DEF unseen, unseenNext, billed, billedNext, spent, spentNext
    <3>6. QED
      BY <3>1, <3>2, <3>3, <3>4, <3>5
  <2> HIDE DEF unseen, unseenNext, billed, billedNext, spent, spentNext
  <2>4. QED
    BY <1>10, <2>1, <2>2, <2>3 DEF S, unseenNext, billedNext, spentNext
<1>15. QED
  BY <1>13, <1>14

LEMMA SpendFollowsCallsStep ==
  ASSUME TypeOK, ReducerFollowsTrajectory, RequestsHavePoints, SpendFollowsCalls,
         [Next]_vars
  PROVE  SpendFollowsCalls'
<1>1. CASE Quiet
  BY <1>1, SpendFollowsSameTables DEF Quiet
<1>2. ASSUME NEW c \in CallIds, NEW kind \in ToolKinds, NEW tool \in ToolTypes,
             NEW key \in ActionKeys, RunTool(c, kind, tool, key)
      PROVE  SpendFollowsCalls'
  <2>1. UNCHANGED <<requests, terminals, points, usageCounts>>
    BY <1>2, RunToolEffect
  <2>2. QED
    BY <2>1, SpendFollowsSameTables
<1>3. QED
  BY <1>1, <1>2, NextSteps, SpendFollowsBuild, SpendFollowsEnd

LEMMA AttemptsEndOnceStep ==
  ASSUME TypeOK, ReducerFollowsTrajectory, AttemptsEndOnce, [Next]_vars
  PROVE  AttemptsEndOnce'
<1> USE DEF AttemptsEndOnce
<1>1. CASE StartTask
  BY <1>1 DEF StartTask, TaskStarted
<1>2. ASSUME NEW c \in CallIds, NEW offset \in LocalCounts, BuildRequest(c, offset)
      PROVE  AttemptsEndOnce'
  BY <1>2 DEF MayRequest, BuildRequest, RequestBuilt
<1>3. ASSUME NEW c \in CallIds, NEW a \in AttemptIds, StartAttempt(c, a)
      PROVE  AttemptsEndOnce'
  <2>1. /\ starts' = [starts EXCEPT ![c] = @ \cup {a}]
        /\ terminals' = terminals /\ checkpoints' = checkpoints
    BY <1>3 DEF MayAttempt, StartAttempt, ApiAttemptStarted
  <2>2. \A d \in CallIds : starts[d] \subseteq starts'[d]
    BY <2>1 DEF TypeOK, TrajectoryTypeOK
  <2>3. \A k \in DOMAIN checkpoints : checkpoints[k].call \in CallIds
    <3>1. \A k \in DOMAIN checkpoints : checkpoints[k] \in Checkpoint
      BY ElementOfSeq DEF TypeOK, TrajectoryTypeOK
    <3>2. QED
      BY <3>1 DEF Checkpoint
  <2>4. QED
    BY <2>1, <2>2, <2>3
<1>4. ASSUME NEW c \in CallIds, NEW a \in AttemptIds, NEW generated \in GeneratedCounts,
             TakeCheckpoint(c, a, generated)
      PROVE  AttemptsEndOnce'
  <2>1. PICK point : point = [call |-> c, attempt |-> a, generated |-> generated,
                              before |-> Len(terminals[c])]
    OBVIOUS
  <2>2. /\ starts' = starts /\ terminals' = terminals
        /\ checkpoints' = Append(checkpoints, point)
        /\ a \in starts[c] /\ a \notin Terminated(c)
    BY <1>4, <2>1 DEF IsOpen, TakeCheckpoint, GenerationCheckpoint, Dangling
  <2>3. terminals[c] \in Seq(Terminal) /\ checkpoints \in Seq(Checkpoint)
    BY DEF TypeOK, TrajectoryTypeOK
  <2>4. point \in Checkpoint
    <3>1. generated \in OptNat /\ Len(terminals[c]) \in Nat
      BY <2>3, GeneratedAssumption
    <3>2. QED
      BY <2>1, <3>1 DEF Checkpoint
  <2>5. \A k \in DOMAIN checkpoints' :
          \/ k \in DOMAIN checkpoints /\ checkpoints'[k] = checkpoints[k]
          \/ checkpoints'[k] = point
    BY <2>2, <2>3, <2>4, AppendFacts
  <2>6. /\ point.call = c /\ point.attempt = a /\ point.before = Len(terminals[c])
    BY <2>1
  <2>7. \A i \in DOMAIN terminals[c] : terminals[c][i].attempt # a
    BY <2>2 DEF Terminated, AttemptsOf
  <2>8. Len(terminals[c]) <= Len(terminals[c])
    BY <2>3, LenProperties
  <2>9. QED
    BY <2>2, <2>5, <2>6, <2>7, <2>8
<1>5. ASSUME NEW c \in CallIds, NEW a \in AttemptIds, NEW completed \in BOOLEAN,
             NEW usage \in Usages, EndAttempt(c, a, completed, usage)
      PROVE  AttemptsEndOnce'
  <2>1. PICK e : e = [attempt |-> a, completed |-> completed, usage |-> usage]
    OBVIOUS
  <2>2. /\ a \notin Terminated(c) /\ starts' = starts /\ checkpoints' = checkpoints
        /\ e \in Terminal /\ terminals[c] \in Seq(Terminal)
        /\ terminals'[c] = Append(terminals[c], e)
        /\ \A d \in CallIds \ {c} : terminals'[d] = terminals[d]
    BY <1>5, <2>1, EndAttemptEffect
  <2>3. e.attempt = a
    BY <2>1
  <2>4. PICK longer : longer = terminals'[c]
    OBVIOUS
  <2>5. PICK n : n = Len(terminals[c])
    OBVIOUS
  <2>6. /\ n \in Nat /\ DOMAIN terminals[c] = 1..n /\ DOMAIN longer = 1..(n + 1)
        /\ Len(longer) = n + 1
        /\ \A i \in 1..n : longer[i] = terminals[c][i]
        /\ longer[n + 1] = e
    BY <2>2, <2>4, <2>5, AppendFacts
  <2>7. \A i \in 1..n : longer[i].attempt # a
    BY <2>2, <2>6, SMTT(30) DEF Terminated, AttemptsOf
  <2>8. \A i, j \in DOMAIN longer : longer[i].attempt = longer[j].attempt => i = j
    <3> SUFFICES ASSUME NEW i \in 1..(n + 1), NEW j \in 1..(n + 1),
                        longer[i].attempt = longer[j].attempt
                 PROVE  i = j
      BY <2>6
    <3>1. (i \in 1..n \/ i = n + 1) /\ (j \in 1..n \/ j = n + 1)
      BY <2>6
    <3>2. QED
      BY <2>3, <2>6, <2>7, <3>1
  <2>9. \A k \in DOMAIN checkpoints :
          checkpoints[k].call \in CallIds /\ checkpoints[k].before \in Nat
    <3>1. \A k \in DOMAIN checkpoints : checkpoints[k] \in Checkpoint
      BY ElementOfSeq DEF TypeOK, TrajectoryTypeOK
    <3>2. QED
      BY <3>1 DEF Checkpoint
  <2>10. ASSUME NEW k \in DOMAIN checkpoints, checkpoints[k].call = c
         PROVE  /\ checkpoints[k].before <= Len(longer)
                /\ \A i \in DOMAIN longer :
                     longer[i].attempt = checkpoints[k].attempt => i > checkpoints[k].before
    <3>1. /\ checkpoints[k].before <= n /\ checkpoints[k].before \in Nat
          /\ \A i \in 1..n : terminals[c][i].attempt = checkpoints[k].attempt
                              => i > checkpoints[k].before
      BY <2>5, <2>6, <2>9, <2>10
    <3>2. \A i \in DOMAIN longer : i \in 1..n \/ i = n + 1
      BY <2>6
    <3>3. QED
      BY <2>6, <3>1, <3>2
  <2>11. \A d \in CallIds : \A i, j \in DOMAIN terminals'[d] :
           terminals'[d][i].attempt = terminals'[d][j].attempt => i = j
    BY <2>2, <2>4, <2>8
  <2>12. \A k \in DOMAIN checkpoints :
           /\ checkpoints[k].before <= Len(terminals'[checkpoints[k].call])
           /\ \A i \in DOMAIN terminals'[checkpoints[k].call] :
                terminals'[checkpoints[k].call][i].attempt = checkpoints[k].attempt
                  => i > checkpoints[k].before
    <3> TAKE k \in DOMAIN checkpoints
    <3>1. CASE checkpoints[k].call = c
      BY <2>4, <2>10, <3>1
    <3>2. CASE checkpoints[k].call # c
      BY <2>2, <2>9, <3>2
    <3>3. QED
      BY <3>1, <3>2
  <2>13. QED
    BY <2>2, <2>11, <2>12
<1>6. ASSUME NEW c \in CallIds, NEW kind \in ToolKinds, NEW tool \in ToolTypes,
             NEW key \in ActionKeys, RunTool(c, kind, tool, key)
      PROVE  AttemptsEndOnce'
  BY <1>6 DEF RunTool, ToolEvent, trajectoryVars
<1>7. CASE EndTask
  BY <1>7 DEF MayFinish, EndTask, TaskFinished, TaskAborted, Refuse
<1>8. CASE UNCHANGED vars
  BY <1>8 DEF vars, trajectoryVars
<1>9. QED
  BY <1>1, <1>2, <1>3, <1>4, <1>5, <1>6, <1>7, <1>8 DEF Next

(* Only a started attempt ends.                                            *)
OnlyStartedEnd == \A c \in CallIds : Terminated(c) \subseteq starts[c]

LEMMA OnlyStartedEndStep ==
  ASSUME TypeOK, ReducerFollowsTrajectory, OnlyStartedEnd, [Next]_vars
  PROVE  OnlyStartedEnd'
<1> USE DEF OnlyStartedEnd
<1>1. ASSUME terminals' = terminals, \A c \in CallIds : starts[c] \subseteq starts'[c]
      PROVE  OnlyStartedEnd'
  BY <1>1 DEF Terminated
<1>2. CASE StartTask \/ EndTask \/ UNCHANGED vars
  BY <1>1, <1>2 DEF MayFinish, StartTask, EndTask, TaskStarted, TaskFinished, TaskAborted,
              Refuse, vars, trajectoryVars
<1>3. ASSUME NEW c \in CallIds, NEW offset \in LocalCounts, BuildRequest(c, offset)
      PROVE  OnlyStartedEnd'
  BY <1>1, <1>3 DEF MayRequest, BuildRequest, RequestBuilt
<1>4. ASSUME NEW c \in CallIds, NEW a \in AttemptIds, StartAttempt(c, a)
      PROVE  OnlyStartedEnd'
  <2>1. starts' = [starts EXCEPT ![c] = @ \cup {a}] /\ terminals' = terminals
    BY <1>4 DEF MayAttempt, StartAttempt, ApiAttemptStarted
  <2>2. \A d \in CallIds : starts[d] \subseteq starts'[d]
    BY <2>1 DEF TypeOK, TrajectoryTypeOK
  <2>3. QED
    BY <1>1, <2>1, <2>2
<1>5. ASSUME NEW c \in CallIds, NEW a \in AttemptIds, NEW generated \in GeneratedCounts,
             TakeCheckpoint(c, a, generated)
      PROVE  OnlyStartedEnd'
  BY <1>1, <1>5 DEF IsOpen, TakeCheckpoint, GenerationCheckpoint
<1>6. ASSUME NEW c \in CallIds, NEW a \in AttemptIds, NEW completed \in BOOLEAN,
             NEW usage \in Usages, EndAttempt(c, a, completed, usage)
      PROVE  OnlyStartedEnd'
  <2>1. PICK e : e = [attempt |-> a, completed |-> completed, usage |-> usage]
    OBVIOUS
  <2>2. /\ a \in starts[c] /\ starts' = starts
        /\ e \in Terminal /\ terminals[c] \in Seq(Terminal)
        /\ terminals'[c] = Append(terminals[c], e)
        /\ \A d \in CallIds \ {c} : terminals'[d] = terminals[d]
    BY <1>6, <2>1, EndAttemptEffect
  <2>3. AttemptsOf(terminals'[c]) = AttemptsOf(terminals[c]) \cup {a}
    BY <2>1, <2>2, AttemptsOfAppend
  <2>4. QED
    BY <2>2, <2>3 DEF Terminated
<1>7. ASSUME NEW c \in CallIds, NEW kind \in ToolKinds, NEW tool \in ToolTypes,
             NEW key \in ActionKeys, RunTool(c, kind, tool, key)
      PROVE  OnlyStartedEnd'
  BY <1>1, <1>7 DEF RunTool, ToolEvent, trajectoryVars
<1>8. QED
  BY <1>2, <1>3, <1>4, <1>5, <1>6, <1>7 DEF Next

(* The inductive invariant of the accounting.                              *)
Facts ==
  /\ TypeOK
  /\ ReducerFollowsTrajectory
  /\ RequestsHavePoints
  /\ ScratchFollowsCall
  /\ SpendFollowsCalls
  /\ AttemptsEndOnce
  /\ OnlyStartedEnd

LEMMA FactsHold == Spec => []Facts
<1> DEFINE Rest == /\ RequestsHavePoints /\ ScratchFollowsCall /\ SpendFollowsCalls
                   /\ AttemptsEndOnce /\ OnlyStartedEnd
<1>1. Init => Rest
  <2> SUFFICES ASSUME Init
               PROVE  Rest
    OBVIOUS
  <2>1. /\ requests = << >> /\ points = << >> /\ active = None /\ toolFailures = {}
        /\ checkpoints = << >> /\ \A c \in CallIds : terminals[c] = << >>
        /\ closed.recent_call_outputs = << >> /\ closed.consecutive_error_rounds = 0
    BY DEF Init, TrajectoryInit, FeatureInit
  <2>2. /\ DOMAIN requests = {} /\ DOMAIN points = {} /\ DOMAIN checkpoints = {}
        /\ \A c \in CallIds : DOMAIN terminals[c] = {}
    BY <2>1
  <2>3. RequestsHavePoints
    BY <2>1, <2>2 DEF RequestsHavePoints
  <2>4. ScratchFollowsCall
    BY <2>1 DEF ScratchFollowsCall
  <2>5. SpendFollowsCalls
    BY <2>2 DEF SpendFollowsCalls
  <2>6. AttemptsEndOnce /\ OnlyStartedEnd
    BY <2>2 DEF AttemptsEndOnce, OnlyStartedEnd, Terminated, AttemptsOf
  <2>7. QED
    BY <2>3, <2>4, <2>5, <2>6
<1>2. TypeOK /\ ReducerFollowsTrajectory /\ Rest /\ [Next]_vars => Rest'
  BY RequestsHavePointsStep, ScratchFollowsCallStep, SpendFollowsCallsStep,
     AttemptsEndOnceStep, OnlyStartedEndStep
<1>3. Facts <=> TypeOK /\ ReducerFollowsTrajectory /\ Rest
  BY DEF Facts
<1> HIDE DEF Rest
<1>4. QED
  BY <1>1, <1>2, <1>3, TypeCorrect, ReducerFollows, PTL DEF Spec

-----------------------------------------------------------------------------
(* A call is closed once a later one is requested; nothing changes its     *)
(* tables any more.                                                        *)
LEMMA RequestTables ==
  ASSUME Facts
  PROVE  /\ Len(requests) \in Nat
         /\ DOMAIN requests = 1..Len(requests) /\ DOMAIN points = 1..Len(requests)
         /\ \A i \in 1..Len(requests) : CallAt(i) \in CallIds
         /\ \A i, j \in 1..Len(requests) : CallAt(i) = CallAt(j) => i = j
         /\ Len(requests) # 0 => requests # << >> /\ active = CallAt(Len(requests))
         /\ Len(requests) = 0 => requests = << >> /\ active = None
         /\ \A i \in ClosedIndices : i \in 1..Len(requests) /\ CallAt(i) # active
<1>1. requests \in Seq(Request) /\ points \in Seq(Spend!SpendPoint)
  BY DEF Facts, TypeOK, TrajectoryTypeOK
<1>2. PICK n : n = Len(requests)
  OBVIOUS
<1>3. /\ n \in Nat /\ DOMAIN requests = 1..n /\ DOMAIN points = 1..n
  BY <1>1, <1>2, LenProperties DEF Facts, RequestsHavePoints
<1>4. \A i \in 1..n : CallAt(i) \in CallIds
  <2> TAKE i \in 1..n
  <2>1. requests[i] \in Request
    BY <1>1, <1>3, ElementOfSeq
  <2>2. QED
    BY <2>1 DEF Request, CallAt
<1>5. \A i, j \in 1..n : CallAt(i) = CallAt(j) => i = j
  BY <1>3 DEF Facts, RequestsHavePoints
<1>6. /\ n # 0 => requests # << >>
      /\ n = 0 => requests = << >>
  BY <1>1, <1>2, EmptySeq
<1>7. active = IF requests = << >> THEN None ELSE CallAt(n)
  BY <1>2 DEF Facts, ReducerFollowsTrajectory
<1>8. \A i \in 1..(n - 1) : i \in 1..n /\ n \in 1..n /\ i # n /\ n # 0
  BY <1>3
<1>9. \A i \in ClosedIndices : i \in 1..n /\ CallAt(i) # active
  BY <1>2, <1>5, <1>6, <1>7, <1>8 DEF ClosedIndices
<1>10. QED
  BY <1>2, <1>3, <1>4, <1>5, <1>6, <1>7, <1>9

LEMMA ClosedCallsRest ==
  ASSUME Facts, [Next]_vars, NEW i \in ClosedIndices
  PROVE  /\ starts'[CallAt(i)] = starts[CallAt(i)]
         /\ terminals'[CallAt(i)] = terminals[CallAt(i)]
<1>1. CallAt(i) \in CallIds /\ CallAt(i) # active
  BY RequestTables
<1>2. QED
  BY <1>1, OnlyActiveCallChanges DEF Facts

(* The output that closing a call publishes is the label of the call.      *)
LEMMA ClosedOutputIsLabel ==
  ASSUME Facts, active # None, active \in CallIds, Dangling(active) = {},
         NEW label, label = CallBillableOutput(active)
  PROVE  /\ ClosedOutput = None <=> label.status \in {"missing", "censored"}
         /\ IsObserved(label) => label.value = ClosedOutput
<1>1. PICK events : events = terminals[active]
  OBVIOUS
<1>2. /\ current.started_attempt_ids = starts[active]
      /\ current.terminal_attempt_ids = Terminated(active)
      /\ events \in Seq(Terminal)
  BY <1>1 DEF Facts, ReducerFollowsTrajectory, TypeOK, TrajectoryTypeOK
<1>3. starts[active] = AttemptsOf(events)
  BY <1>1 DEF Dangling, Terminated, Facts, OnlyStartedEnd
<1>4. /\ currentUsage.has_unknown_usage <=> ~AllComplete(events)
      /\ AllComplete(events) =>
           currentUsage.output_tokens = SumOver(events, DOMAIN events, OutputOf)
  BY <1>1 DEF Facts, ScratchFollowsCall
<1>5. currentUsage.output_tokens \in Nat
  BY DEF Facts, TypeOK, FeatureTypeOK, CurrentUsage
<1>6. AttemptsOf(events) = {} <=> events = << >>
  <2>1. AttemptsOf(events) = {} <=> DOMAIN events = {}
    BY DEF AttemptsOf
  <2>2. DOMAIN events = {} <=> events = << >>
    <3>1. DOMAIN events = 1..Len(events) /\ Len(events) \in Nat
      BY <1>2, LenProperties
    <3>2. Len(events) # 0 => 1 \in DOMAIN events
      BY <3>1
    <3>3. Len(events) = 0 <=> events = << >>
      BY <1>2, EmptySeq
    <3>4. QED
      BY <3>1, <3>2, <3>3
  <2>3. QED
    BY <2>1, <2>2
<1>7. ClosedOutput = IF events # << >> /\ AllComplete(events)
                     THEN currentUsage.output_tokens ELSE None
  BY <1>1, <1>2, <1>3, <1>4, <1>6 DEF ClosedOutput, Terminated
<1>8. PICK status : status = LedgerStatus(starts[active], events)
  OBVIOUS
<1>9. status = IF events = << >> THEN "missing"
               ELSE IF ~AllComplete(events) THEN "missing"
               ELSE IF \E usage \in UsagesIn(events) : TotalMismatch(usage)
                    THEN "invalid" ELSE "observed"
  BY <1>3, <1>8 DEF LedgerStatus, AllComplete
<1>10. ClosedOutput = None <=> status \in {"missing", "censored"}
  BY <1>5, <1>7, <1>9, ContractsAssumption
<1>11. CASE status # "observed"
  <2>1. label.status = status
    BY <1>1, <1>8, <1>11 DEF CallBillableOutput, LedgerOutput, LedgerSum, Unavailable
  <2>2. QED
    BY <1>10, <1>11, <2>1 DEF IsObserved
<1>12. CASE status = "observed"
  <2>1. events # << >> /\ AllComplete(events)
    BY <1>9, <1>12
  <2>2. ClosedOutput = SumOver(events, DOMAIN events, OutputOf) /\ ClosedOutput \in Nat
    BY <1>4, <1>5, <1>7, <2>1
  <2>3. label = Observed(ClosedOutput)
    BY <1>1, <1>8, <1>12, <2>2 DEF CallBillableOutput, LedgerOutput, LedgerSum
  <2>4. label = [status |-> "observed", value |-> ClosedOutput]
    BY <2>2, <2>3 DEF Observed
  <2>5. QED
    BY <1>10, <1>12, <2>4 DEF IsObserved
<1>13. QED
  BY <1>11, <1>12

LEMMA MinThree ==
  ASSUME NEW n \in Nat
  PROVE  Min({3, n}) = IF n < 3 THEN n ELSE 3
<1> DEFINE m == IF n < 3 THEN n ELSE 3
<1>1. m \in {3, n} /\ \A y \in {3, n} : m <= y
  OBVIOUS
<1>2. \A x \in {3, n} : (\A y \in {3, n} : x <= y) => x = m
  OBVIOUS
<1> HIDE DEF m
<1>3. Min({3, n}) = m
  BY <1>1, <1>2 DEF Min
<1>4. QED
  BY <1>3 DEF m

(* The window of three grows, or drops its oldest element. *)
Slides(s, x, t) ==
  /\ t \in Seq(OptNat)
  /\ Len(t) = (IF Len(s) < 3 THEN Len(s) + 1 ELSE 3)
  /\ t[Len(t)] = x
  /\ \A k \in 1..(Len(t) - 1) :
       /\ t[k] = s[Len(s) + 1 - Len(t) + k]
       /\ Len(s) + 1 - Len(t) + k \in 1..Len(s)

LEMMA LastThreeOfAppend ==
  ASSUME NEW s \in Seq(OptNat), NEW x \in OptNat, Len(s) <= 3,
         NEW t, t = LastThree(Append(s, x))
  PROVE  Slides(s, x, t)
<1> USE DEF Slides
<1>1. PICK longer : longer = Append(s, x)
  OBVIOUS
<1>2. /\ longer \in Seq(OptNat) /\ Len(s) \in Nat /\ Len(longer) = Len(s) + 1
      /\ DOMAIN s = 1..Len(s) /\ DOMAIN longer = 1..(Len(s) + 1)
      /\ \A i \in 1..Len(s) : longer[i] = s[i]
      /\ longer[Len(s) + 1] = x
  BY <1>1, AppendFacts
<1>3. t \in Seq(OptNat)
  BY <1>1, <1>2, LastThreeType
<1>4. CASE Len(s) < 3
  <2>1. t = longer
    BY <1>1, <1>2, <1>4 DEF LastThree
  <2>2. QED
    BY <1>2, <1>4, <2>1
<1>5. CASE Len(s) = 3
  <2>1. t = SubSeq(longer, 2, 4)
    BY <1>1, <1>2, <1>5 DEF LastThree
  <2>2. \A i \in 2..4 : longer[i] \in OptNat
    <3>1. DOMAIN longer = 1..4
      BY <1>2, <1>5
    <3>2. \A i \in 1..4 : longer[i] \in OptNat
      BY <1>2, <3>1, ElementOfSeq
    <3>3. QED
      BY <3>2
  <2>3. Len(t) = 3 /\ \A k \in 1..3 : t[k] = longer[2 + k - 1]
    BY <1>2, <1>5, <2>1, <2>2, SubSeqProperties
  <2>4. t[3] = longer[4] /\ \A k \in 1..2 : t[k] = longer[k + 1] /\ longer[k + 1] = s[k + 1]
    BY <1>2, <1>5, <2>3
  <2>5. QED
    BY <1>2, <1>3, <1>5, <2>3, <2>4
<1>6. QED
  BY <1>2, <1>4, <1>5

LabelFits(i, output) ==
  LET label == CallBillableOutput(CallAt(i))
  IN /\ output = None <=> label.status \in {"missing", "censored"}
     /\ IsObserved(label) => label.value = output

LEMMA LabelsOfClosedCallsStay ==
  ASSUME Facts, [Next]_vars, NEW i \in ClosedIndices, requests'[i] = requests[i]
  PROVE  \A output : LabelFits(i, output)' <=> LabelFits(i, output)
<1>1. /\ starts'[CallAt(i)] = starts[CallAt(i)]
      /\ terminals'[CallAt(i)] = terminals[CallAt(i)]
      /\ CallAt(i)' = CallAt(i)
  BY ClosedCallsRest DEF CallAt
<1>2. CallBillableOutput(CallAt(i))' = CallBillableOutput(CallAt(i))
  BY <1>1 DEF CallBillableOutput
<1>3. QED
  BY <1>2 DEF LabelFits

LEMMA RecentIndices ==
  ASSUME Facts, ClosedOutputsAreLabels, requests # << >>,
         NEW recent, recent = closed.recent_call_outputs,
         NEW n, n = Len(requests) - 1
  PROVE  /\ n \in Nat /\ recent \in Seq(OptNat) /\ Len(recent) \in Nat
         /\ Len(recent) = IF n < 3 THEN n ELSE 3
         /\ \A k \in 1..Len(recent) :
              /\ n - Len(recent) + k \in 1..n
              /\ LabelFits(n - Len(recent) + k, recent[k])
<1>1. n \in Nat
  BY RequestTables
<1>2. recent \in Seq(OptNat)
  BY DEF Facts, TypeOK, FeatureTypeOK, Closed
<1>3. Len(recent) \in Nat /\ DOMAIN recent = 1..Len(recent)
  BY <1>2, LenProperties
<1>4. /\ Len(recent) = Min({3, n})
      /\ \A k \in 1..Len(recent) : LabelFits(n - Len(recent) + k, recent[k])
  BY <1>3 DEF ClosedOutputsAreLabels, LabelFits
<1>5. Len(recent) = IF n < 3 THEN n ELSE 3
  BY <1>1, <1>4, MinThree
<1>6. \A k \in 1..Len(recent) : n - Len(recent) + k \in 1..n
  <2>1. PICK l : l = Len(recent)
    OBVIOUS
  <2>2. l \in Nat /\ l <= n
    BY <1>1, <1>5, <2>1
  <2>3. \A k \in 1..l : n - l + k \in 1..n
    BY <1>1, <2>2
  <2>4. QED
    BY <2>1, <2>3
<1>7. QED
  BY <1>1, <1>2, <1>3, <1>4, <1>5, <1>6

LEMMA ClosedOutputsAreLabelsStep ==
  ASSUME Facts, ClosedOutputsAreLabels, [Next]_vars
  PROVE  ClosedOutputsAreLabels'
<1>1. ASSUME requests' = requests, closed' = closed
      PROVE  ClosedOutputsAreLabels'
  <2> SUFFICES ASSUME requests # << >>
               PROVE  ClosedOutputsAreLabels'
    BY <1>1 DEF ClosedOutputsAreLabels
  <2>1. PICK recent : recent = closed.recent_call_outputs
    OBVIOUS
  <2>2. PICK n : n = Len(requests) - 1
    OBVIOUS
  <2>3. /\ n \in Nat /\ recent \in Seq(OptNat) /\ Len(recent) \in Nat
        /\ \A k \in 1..Len(recent) :
             /\ n - Len(recent) + k \in 1..n
             /\ LabelFits(n - Len(recent) + k, recent[k])
    BY <2>1, <2>2, RecentIndices
  <2>4. \A i \in 1..n : \A output : LabelFits(i, output)' <=> LabelFits(i, output)
    BY <1>1, <2>2, LabelsOfClosedCallsStay DEF ClosedIndices
  <2>5. \A k \in 1..Len(recent) : LabelFits(n - Len(recent) + k, recent[k])'
    BY <2>3, <2>4
  <2>6. Len(recent) = Min({3, n})
    BY <2>1, <2>2 DEF ClosedOutputsAreLabels
  <2>7. DOMAIN recent = 1..Len(recent)
    BY <2>3, LenProperties
  <2>8. QED
    BY <1>1, <2>1, <2>2, <2>5, <2>6, <2>7 DEF ClosedOutputsAreLabels, LabelFits
<1>2. ASSUME NEW c \in CallIds, NEW offset \in LocalCounts, BuildRequest(c, offset)
      PROVE  ClosedOutputsAreLabels'
  <2>1. PICK m : m = Len(requests)
    OBVIOUS
  <2>2. /\ m \in Nat /\ Len(requests') = m + 1
        /\ \A i \in 1..m : requests'[i] = requests[i]
    BY <1>2, <2>1, BuildRequestTables DEF Facts
  <2>3. /\ active # None => active \in CallIds /\ Dangling(active) = {}
        /\ closed' = IF active = None THEN closed ELSE ClosedCall
        /\ terminals' = terminals /\ starts' = starts
    BY <1>2, BuildRequestEffect DEF Facts
  <2>4. CASE m = 0
    <3>1. closed'.recent_call_outputs = << >>
      BY <2>1, <2>3, <2>4, RequestTables DEF Facts, ScratchFollowsCall
    <3>2. Len(requests') - 1 = 0 /\ 0 = Min({3, 0})
      BY <2>2, <2>4, MinThree
    <3>3. Len(<< >>) = 0 /\ DOMAIN << >> = {}
      OBVIOUS
    <3>4. QED
      BY <3>1, <3>2, <3>3 DEF ClosedOutputsAreLabels
  <2>5. CASE m # 0
    <3>1. active # None /\ active = CallAt(m) /\ requests # << >> /\ active \in CallIds
      BY <2>1, <2>2, <2>5, RequestTables, ContractsAssumption
    <3>2. PICK recent : recent = closed.recent_call_outputs
      OBVIOUS
    <3>3. PICK n : n = m - 1
      OBVIOUS
    <3>4. /\ n \in Nat /\ recent \in Seq(OptNat) /\ Len(recent) \in Nat
          /\ Len(recent) = IF n < 3 THEN n ELSE 3
          /\ \A k \in 1..Len(recent) :
               /\ n - Len(recent) + k \in 1..n
               /\ LabelFits(n - Len(recent) + k, recent[k])
      BY <2>1, <3>1, <3>2, <3>3, RecentIndices
    <3>5. PICK t : t = closed'.recent_call_outputs
      OBVIOUS
    <3>6. t = LastThree(Append(recent, ClosedOutput))
      BY <2>3, <3>1, <3>2, <3>5 DEF ClosedCall
    <3>7. ClosedOutput \in OptNat
      BY ClosedOutputType DEF Facts, TypeOK
    <3>8. /\ t \in Seq(OptNat)
          /\ Len(t) = IF Len(recent) < 3 THEN Len(recent) + 1 ELSE 3
          /\ t[Len(t)] = ClosedOutput
          /\ \A k \in 1..(Len(t) - 1) :
               /\ t[k] = recent[Len(recent) + 1 - Len(t) + k]
               /\ Len(recent) + 1 - Len(t) + k \in 1..Len(recent)
      <4>1. PICK output : output = ClosedOutput
        OBVIOUS
      <4>2. recent \in Seq(OptNat) /\ Len(recent) <= 3
        BY <3>4
      <4>3. output \in OptNat /\ t = LastThree(Append(recent, output))
        BY <3>6, <3>7, <4>1
      <4>4. Slides(recent, output, t)
        BY <4>2, <4>3, LastThreeOfAppend
      <4>5. QED
        BY <4>1, <4>4 DEF Slides
    <3>9. Len(t) = Min({3, m})
      BY <2>2, <3>3, <3>4, <3>8, MinThree, SMTT(30)
    <3>10. \A i \in 1..m : \A output : LabelFits(i, output)' <=> LabelFits(i, output)
      BY <2>2, <2>3 DEF LabelFits, CallBillableOutput, CallAt
    <3>11. LabelFits(m, ClosedOutput)
      <4>1. PICK label : label = CallBillableOutput(active)
        OBVIOUS
      <4>2. /\ ClosedOutput = None <=> label.status \in {"missing", "censored"}
            /\ IsObserved(label) => label.value = ClosedOutput
        BY <2>3, <3>1, <4>1, ClosedOutputIsLabel
      <4>3. QED
        BY <3>1, <4>1, <4>2 DEF LabelFits
    <3>12. ASSUME NEW k \in 1..Len(t)
           PROVE  LabelFits(m - Len(t) + k, t[k])'
      <4>1. CASE k = Len(t)
        <5>1. m - Len(t) + k = m /\ m \in 1..m
          BY <2>2, <2>5, <3>8, <3>4, <4>1
        <5>2. QED
          BY <3>8, <3>10, <3>11, <4>1, <5>1
      <4>2. CASE k # Len(t)
        <5>1. PICK j : j = Len(recent) + 1 - Len(t) + k
          OBVIOUS
        <5>2. k \in 1..(Len(t) - 1)
          BY <3>4, <3>8, <4>2
        <5>3. j \in 1..Len(recent) /\ t[k] = recent[j]
          BY <3>8, <5>1, <5>2
        <5>4. m - Len(t) + k = n - Len(recent) + j
          BY <2>2, <3>3, <3>4, <3>8, <5>1
        <5>5. n - Len(recent) + j \in 1..n /\ LabelFits(n - Len(recent) + j, recent[j])
          BY <3>4, <5>3
        <5>6. n - Len(recent) + j \in 1..m
          BY <2>2, <3>3, <5>5
        <5>7. QED
          BY <3>10, <5>3, <5>4, <5>5, <5>6
      <4>3. QED
        BY <4>1, <4>2
    <3>13. DOMAIN t = 1..Len(t)
      BY <3>8, LenProperties
    <3>14. Len(requests') - 1 = m
      BY <2>2
    <3>15. QED
      BY <3>5, <3>9, <3>12, <3>13, <3>14 DEF ClosedOutputsAreLabels, LabelFits
  <2>6. QED
    BY <2>4, <2>5
<1>3. ASSUME NEW c \in CallIds, NEW a \in AttemptIds, NEW completed \in BOOLEAN,
             NEW usage \in Usages, EndAttempt(c, a, completed, usage)
      PROVE  ClosedOutputsAreLabels'
  <2>1. PICK e : e = [attempt |-> a, completed |-> completed, usage |-> usage]
    OBVIOUS
  <2>2. requests' = requests /\ closed' = closed
    BY <1>3, <2>1, EndAttemptEffect DEF Facts
  <2>3. QED
    BY <1>1, <2>2
<1>4. ASSUME NEW c \in CallIds, NEW kind \in ToolKinds, NEW tool \in ToolTypes,
             NEW key \in ActionKeys, RunTool(c, kind, tool, key)
      PROVE  ClosedOutputsAreLabels'
  <2>1. requests' = requests /\ closed' = closed
    BY <1>4, RunToolEffect DEF Facts
  <2>2. QED
    BY <1>1, <2>1
<1>5. CASE Quiet
  BY <1>1, <1>5 DEF Quiet
<1>6. QED
  BY <1>2, <1>3, <1>4, <1>5, NextSteps

LEMMA MaxIs ==
  ASSUME NEW S, S \subseteq Int, NEW m \in S, \A y \in S : m >= y
  PROVE  Max(S) = m
<1>1. \A x \in S : (\A y \in S : x >= y) => x = m
  OBVIOUS
<1>2. QED
  BY <1>1 DEF Max

LEMMA MaxIn ==
  ASSUME NEW n \in Nat, NEW S, S # {}, S \subseteq 0..n
  PROVE  Max(S) \in S /\ \A y \in S : Max(S) >= y
<1>1. \E x \in S : \A y \in S : x >= y
  BY BoundedExtremes
<1>2. QED
  BY <1>1 DEF Max

(* The closed calls without a failed attempt or tool. *)
Clean == {i \in ClosedIndices : ~Failed(CallAt(i))}

LEMMA ErrorRoundsByClean ==
  ErrorRoundsAreTrailing <=>
    (requests # << >> =>
       closed.consecutive_error_rounds = Len(requests) - 1 - Max(Clean \cup {0}))
BY DEF ErrorRoundsAreTrailing, Clean, Failed

LEMMA ErrorRoundsAreTrailingStep ==
  ASSUME Facts, ErrorRoundsAreTrailing, [Next]_vars
  PROVE  ErrorRoundsAreTrailing'
<1>1. ASSUME UNCHANGED <<requests, closed>>,
             \A i \in ClosedIndices :
               CallAt(i) \in toolFailures' <=> CallAt(i) \in toolFailures
      PROVE  ErrorRoundsAreTrailing'
  <2>1. \A i \in ClosedIndices : terminals'[CallAt(i)] = terminals[CallAt(i)]
    BY ClosedCallsRest
  <2>2. ClosedIndices' = ClosedIndices /\ \A i : CallAt(i)' = CallAt(i)
    BY <1>1 DEF ClosedIndices, CallAt
  <2>3. \A i \in ClosedIndices : Failed(CallAt(i))' <=> Failed(CallAt(i))
    BY <1>1, <2>1, <2>2 DEF Failed
  <2>4. Clean' = Clean
    BY <2>2, <2>3 DEF Clean
  <2>5. QED
    BY <1>1, <2>4 DEF ErrorRoundsAreTrailing, Clean, Failed
<1>2. ASSUME NEW c \in CallIds, NEW offset \in LocalCounts, BuildRequest(c, offset)
      PROVE  ErrorRoundsAreTrailing'
  <2>1. PICK m : m = Len(requests)
    OBVIOUS
  <2>2. /\ m \in Nat /\ Len(requests') = m + 1
        /\ \A i \in 1..m : CallAt(i)' = CallAt(i)
    BY <1>2, <2>1, BuildRequestTables DEF Facts
  <2>3. /\ closed' = IF active = None THEN closed ELSE ClosedCall
        /\ terminals' = terminals /\ toolFailures' = toolFailures
    BY <1>2, BuildRequestEffect DEF Facts
  <2>4. ClosedIndices' = 1..m /\ ClosedIndices = 1..(m - 1)
    BY <2>1, <2>2 DEF ClosedIndices
  <2>5. \A i \in 1..m : Failed(CallAt(i))' <=> Failed(CallAt(i))
    BY <2>2, <2>3 DEF Failed
  <2>6. Clean' = {i \in 1..m : ~Failed(CallAt(i))}
    BY <2>4, <2>5 DEF Clean
  <2>7. Clean = {i \in 1..(m - 1) : ~Failed(CallAt(i))}
    BY <2>4 DEF Clean
  <2>8. CASE m = 0
    <3>1. closed'.consecutive_error_rounds = 0
      BY <2>1, <2>3, <2>8, RequestTables DEF Facts, ScratchFollowsCall
    <3>2. Clean' \cup {0} = {0}
      BY <2>6, <2>8
    <3>3. Max({0}) = 0
      BY MaxIs
    <3>4. closed'.consecutive_error_rounds = Len(requests') - 1 - Max(Clean' \cup {0})
      BY <2>2, <2>8, <3>1, <3>2, <3>3
    <3>5. QED
      BY <3>4 DEF ErrorRoundsAreTrailing, Clean, Failed
  <2>9. CASE m # 0
    <3>1. active # None /\ active = CallAt(m) /\ requests # << >>
      BY <2>1, <2>2, <2>9, RequestTables, ContractsAssumption
    <3>2. currentTools.has_error <=> Failed(CallAt(m))
      BY <3>1 DEF Facts, ScratchFollowsCall
    <3>3. closed'.consecutive_error_rounds =
            IF currentTools.has_error THEN closed.consecutive_error_rounds + 1 ELSE 0
      BY <2>3, <3>1 DEF ClosedCall
    <3>4. closed.consecutive_error_rounds = m - 1 - Max(Clean \cup {0})
      BY <2>1, <3>1 DEF ErrorRoundsAreTrailing, Clean, Failed
    <3>5. PICK S : S = Clean \cup {0}
      OBVIOUS
    <3>6. S \subseteq 0..(m - 1) /\ S # {} /\ m - 1 \in Nat
      BY <2>2, <2>7, <2>9, <3>5
    <3>7. Max(S) \in Int
      <4>1. PICK n : n = m - 1
        OBVIOUS
      <4>2. n \in Nat /\ S \subseteq 0..n /\ S # {}
        BY <3>6, <4>1
      <4>3. Max(S) \in S
        BY <4>2, MaxIn
      <4>4. S \subseteq Int
        BY <4>2
      <4>5. QED
        BY <4>3, <4>4
    <3>8. CASE Failed(CallAt(m))
      <4>1. Clean' \cup {0} = S
        BY <2>2, <2>6, <2>7, <2>9, <3>5, <3>8
      <4>2. PICK x : x = Max(S)
        OBVIOUS
      <4>3. closed.consecutive_error_rounds = m - 1 - x /\ x \in Int
        BY <3>4, <3>5, <3>7, <4>2
      <4>4. closed'.consecutive_error_rounds = m - 1 - x + 1
        BY <3>2, <3>3, <3>8, <4>3
      <4>5. m - 1 - x + 1 = Len(requests') - 1 - x
        BY <2>2, <4>3
      <4>6. closed'.consecutive_error_rounds = Len(requests') - 1 - Max(Clean' \cup {0})
        BY <4>1, <4>2, <4>4, <4>5
      <4>7. QED
        BY <4>6 DEF ErrorRoundsAreTrailing, Clean, Failed
    <3>9. CASE ~Failed(CallAt(m))
      <4>1. PICK T : T = Clean' \cup {0}
        OBVIOUS
      <4>2. T \subseteq 0..m /\ m \in T
        BY <2>2, <2>6, <2>9, <3>9, <4>1
      <4>3. T \subseteq Int /\ \A y \in T : m >= y
        BY <2>2, <4>2
      <4>4. Max(T) = m
        BY <4>2, <4>3, MaxIs
      <4>5. closed'.consecutive_error_rounds = Len(requests') - 1 - Max(Clean' \cup {0})
        BY <2>2, <3>2, <3>3, <3>9, <4>1, <4>4
      <4>6. QED
        BY <4>5 DEF ErrorRoundsAreTrailing, Clean, Failed
    <3>10. QED
      BY <3>8, <3>9
  <2>10. QED
    BY <2>8, <2>9
<1>3. ASSUME NEW c \in CallIds, NEW a \in AttemptIds, NEW completed \in BOOLEAN,
             NEW usage \in Usages, EndAttempt(c, a, completed, usage)
      PROVE  ErrorRoundsAreTrailing'
  <2>1. PICK e : e = [attempt |-> a, completed |-> completed, usage |-> usage]
    OBVIOUS
  <2>2. requests' = requests /\ closed' = closed /\ toolFailures' = toolFailures
    BY <1>3, <2>1, EndAttemptEffect DEF Facts
  <2>3. QED
    BY <1>1, <2>2
<1>4. ASSUME NEW c \in CallIds, NEW kind \in ToolKinds, NEW tool \in ToolTypes,
             NEW key \in ActionKeys, RunTool(c, kind, tool, key)
      PROVE  ErrorRoundsAreTrailing'
  <2>1. /\ c = active /\ requests' = requests /\ closed' = closed
        /\ toolFailures' = IF kind = "tool_failed" THEN toolFailures \cup {c}
                                                   ELSE toolFailures
    BY <1>4, RunToolEffect DEF Facts
  <2>2. \A i \in ClosedIndices : CallAt(i) # c
    BY <2>1, RequestTables
  <2>3. QED
    BY <1>1, <2>1, <2>2
<1>5. CASE Quiet
  BY <1>1, <1>5 DEF Quiet
<1>6. QED
  BY <1>2, <1>3, <1>4, <1>5, NextSteps

-----------------------------------------------------------------------------
CallsBetween(i, j) == {CallAt(k) : k \in i..(j - 1)}

Billed(calls) == SumFunction([c \in calls |-> BilledTo(c)])

Unseen(calls) == \E c \in calls : ~AllComplete(terminals[c])

(* What the counters gained between two requests is what the calls between *)
(* them were billed.                                                       *)
PointsFollowCalls ==
  \A i, j \in DOMAIN points :
    i < j =>
      LET between == CallsBetween(i, j)
      IN /\ points[i].missing <= points[j].missing
         /\ points[i].missing = points[j].missing <=> ~Unseen(between)
         /\ ~Unseen(between) =>
              points[j].input + points[j].output =
                points[i].input + points[i].output + Billed(between)

LEMMA BilledSame ==
  ASSUME NEW calls, \A c \in calls : terminals'[c] = terminals[c]
  PROVE  /\ SumFunction([c \in calls |-> BilledTo(c)']) = Billed(calls)
         /\ (\E c \in calls : ~AllComplete(terminals'[c])) <=> Unseen(calls)
<1>1. \A c \in calls : BilledTo(c)' = BilledTo(c)
  BY DEF BilledTo
<1>2. [c \in calls |-> BilledTo(c)'] = [c \in calls |-> BilledTo(c)]
  BY <1>1
<1>3. QED
  BY <1>2 DEF Billed, Unseen

LEMMA PointsFollowCallsStep ==
  ASSUME Facts, PointsFollowCalls, [Next]_vars
  PROVE  PointsFollowCalls'
<1>1. ASSUME NEW i, NEW j, NEW calls, calls = CallsBetween(i, j),
             CallsBetween(i, j)' = calls, \A c \in calls : terminals'[c] = terminals[c]
      PROVE  /\ Billed(CallsBetween(i, j))' = Billed(calls)
             /\ Unseen(CallsBetween(i, j))' <=> Unseen(calls)
  <2>1. /\ SumFunction([c \in calls |-> BilledTo(c)']) = Billed(calls)
        /\ (\E c \in calls : ~AllComplete(terminals'[c])) <=> Unseen(calls)
    BY <1>1, BilledSame
  <2>2. /\ Billed(CallsBetween(i, j))' = SumFunction([c \in calls |-> BilledTo(c)'])
        /\ Unseen(CallsBetween(i, j))' <=> (\E c \in calls : ~AllComplete(terminals'[c]))
    BY <1>1 DEF Billed, Unseen
  <2>3. QED
    BY <2>1, <2>2
<1>2. ASSUME UNCHANGED <<requests, points>>
      PROVE  PointsFollowCalls'
  <2> SUFFICES ASSUME NEW i \in DOMAIN points, NEW j \in DOMAIN points, i < j
               PROVE  /\ points[i].missing <= points[j].missing
                      /\ points[i].missing = points[j].missing
                           <=> ~Unseen(CallsBetween(i, j))'
                      /\ ~Unseen(CallsBetween(i, j))' =>
                           points[j].input + points[j].output =
                             points[i].input + points[i].output
                               + Billed(CallsBetween(i, j))'
    BY <1>2 DEF PointsFollowCalls
  <2>1. CallsBetween(i, j)' = CallsBetween(i, j)
    BY <1>2 DEF CallsBetween, CallAt
  <2>2. \A k \in i..(j - 1) : k \in ClosedIndices
    BY RequestTables DEF ClosedIndices
  <2>3. \A c \in CallsBetween(i, j) : terminals'[c] = terminals[c]
    BY <2>2, ClosedCallsRest DEF CallsBetween
  <2>4. PICK calls : calls = CallsBetween(i, j)
    OBVIOUS
  <2>5. /\ Billed(CallsBetween(i, j))' = Billed(calls)
        /\ Unseen(CallsBetween(i, j))' <=> Unseen(calls)
    BY <1>1, <2>1, <2>3, <2>4
  <2>6. QED
    BY <2>4, <2>5 DEF PointsFollowCalls
<1>3. ASSUME NEW c \in CallIds, NEW offset \in LocalCounts, BuildRequest(c, offset)
      PROVE  PointsFollowCalls'
  <2>1. PICK m : m = Len(requests)
    OBVIOUS
  <2>2. /\ m \in Nat /\ DOMAIN points = 1..m /\ DOMAIN points' = 1..(m + 1)
        /\ \A i \in 1..m : CallAt(i)' = CallAt(i) /\ points'[i] = points[i]
        /\ points'[m + 1] = PointAt(offset)
    BY <1>3, <2>1, BuildRequestTables DEF Facts
  <2>3. terminals' = terminals
    BY <1>3, BuildRequestEffect DEF Facts
  <2>4. /\ points'[m + 1].missing = usageCounts.missing_usage_attempts
        /\ points'[m + 1].input = usageCounts.cumulative_provider_input_tokens
        /\ points'[m + 1].output = usageCounts.cumulative_provider_output_tokens
    BY <2>2 DEF PointAt
  <2> SUFFICES ASSUME NEW i \in 1..(m + 1), NEW j \in 1..(m + 1), i < j
               PROVE  /\ points'[i].missing <= points'[j].missing
                      /\ points'[i].missing = points'[j].missing
                           <=> ~Unseen(CallsBetween(i, j))'
                      /\ ~Unseen(CallsBetween(i, j))' =>
                           points'[j].input + points'[j].output =
                             points'[i].input + points'[i].output
                               + Billed(CallsBetween(i, j))'
    BY <2>2 DEF PointsFollowCalls
  <2>5. i \in 1..m /\ \A k \in i..(j - 1) : k \in 1..m
    BY <2>2
  <2>6. CallsBetween(i, j)' = CallsBetween(i, j)
    BY <2>2, <2>5 DEF CallsBetween
  <2>7. PICK calls : calls = CallsBetween(i, j)
    OBVIOUS
  <2>8. /\ Billed(CallsBetween(i, j))' = Billed(calls)
        /\ Unseen(CallsBetween(i, j))' <=> Unseen(calls)
    BY <1>1, <2>3, <2>6, <2>7
  <2>9. CASE j \in 1..m
    BY <2>2, <2>5, <2>7, <2>8, <2>9 DEF PointsFollowCalls
  <2>10. CASE j \notin 1..m
    <3>1. j = m + 1 /\ j - 1 = m
      BY <2>2, <2>10
    <3>2. calls = CallsFrom(i)
      BY <2>1, <2>7, <3>1 DEF CallsBetween, CallsFrom
    <3>3. /\ points[i].missing <= usageCounts.missing_usage_attempts
          /\ points[i].missing = usageCounts.missing_usage_attempts <=> ~Unseen(calls)
          /\ ~Unseen(calls) =>
               usageCounts.cumulative_provider_input_tokens
                 + usageCounts.cumulative_provider_output_tokens =
               points[i].input + points[i].output + Billed(calls)
      BY <2>2, <2>5, <3>2 DEF Facts, SpendFollowsCalls, Unseen, Billed
    <3>4. QED
      BY <2>2, <2>4, <2>5, <2>8, <3>1, <3>3
  <2>11. QED
    BY <2>9, <2>10
<1>4. ASSUME NEW c \in CallIds, NEW a \in AttemptIds, NEW completed \in BOOLEAN,
             NEW usage \in Usages, EndAttempt(c, a, completed, usage)
      PROVE  PointsFollowCalls'
  <2>1. PICK e : e = [attempt |-> a, completed |-> completed, usage |-> usage]
    OBVIOUS
  <2>2. requests' = requests /\ points' = points
    BY <1>4, <2>1, EndAttemptEffect DEF Facts
  <2>3. QED
    BY <1>2, <2>2
<1>5. ASSUME NEW c \in CallIds, NEW kind \in ToolKinds, NEW tool \in ToolTypes,
             NEW key \in ActionKeys, RunTool(c, kind, tool, key)
      PROVE  PointsFollowCalls'
  <2>1. requests' = requests /\ points' = points
    BY <1>5, RunToolEffect DEF Facts
  <2>2. QED
    BY <1>2, <2>1
<1>6. CASE Quiet
  BY <1>2, <1>6 DEF Quiet
<1>7. QED
  BY <1>3, <1>4, <1>5, <1>6, NextSteps

-----------------------------------------------------------------------------
(* The delta between two points. *)
LEMMA DeltaBetween ==
  ASSUME Facts, PointsFollowCalls, NEW i \in DOMAIN points, NEW j \in DOMAIN points, i < j,
         NEW calls, calls = CallsBetween(i, j)
  PROVE  /\ IsFiniteSet(calls) /\ calls \subseteq CallIds
         /\ points[j].missing >= points[i].missing
         /\ points[i].missing = points[j].missing <=> ~Unseen(calls)
         /\ ~Unseen(calls) =>
              /\ Spend!SpendDelta(points[i], points[j]) = Billed(calls)
              /\ Billed(calls) \in Nat
         /\ Unseen(calls) => Spend!SpendDelta(points[i], points[j]) = None
<1>1. /\ points[i].missing \in Nat /\ points[j].missing \in Nat
      /\ points[i].input \in Nat /\ points[j].input \in Nat
      /\ points[i].output \in Nat /\ points[j].output \in Nat
  BY DEF Facts, RequestsHavePoints
<1>2. /\ points[i].missing <= points[j].missing
      /\ points[i].missing = points[j].missing <=> ~Unseen(calls)
      /\ ~Unseen(calls) =>
           points[j].input + points[j].output =
             points[i].input + points[i].output + Billed(calls)
  BY DEF PointsFollowCalls
<1>3. PICK S : S = i..(j - 1)
  OBVIOUS
<1>4. \A k \in S : k \in 1..Len(requests) /\ CallAt(k) \in CallIds
  BY <1>3, RequestTables
<1>5. IsFiniteSet(S)
  BY <1>3, FS_Interval, RequestTables
<1>6. calls = {CallAt(k) : k \in S}
  BY <1>3 DEF CallsBetween
<1>7. IsFiniteSet(calls)
  <2> DEFINE at == [k \in S |-> CallAt(k)]
  <2>1. at \in Surjection(S, calls)
    BY <1>6 DEF Surjection
  <2> HIDE DEF at
  <2>2. QED
    BY <1>5, <2>1, FS_Surjection
<1>8. calls \subseteq CallIds
  BY <1>4, <1>6
<1>9. ASSUME ~Unseen(calls)
      PROVE  Billed(calls) \in Nat
  <2> DEFINE f == [c \in calls |-> BilledTo(c)]
  <2>1. \A c \in calls : f[c] \in Nat
    BY <1>8, <1>9, BilledType DEF Facts, Unseen
  <2>2. DOMAIN f = calls
    OBVIOUS
  <2> HIDE DEF f
  <2>3. SumFunction(f) \in Nat
    BY <1>7, <2>1, <2>2, SumType DEF SumFunction
  <2>4. QED
    BY <2>3 DEF Billed, f
<1>10. ASSUME ~Unseen(calls)
       PROVE  Spend!SpendDelta(points[i], points[j]) = Billed(calls)
  <2>1. Spend!SpendDelta(points[i], points[j]) =
          (points[j].input + points[j].output) - (points[i].input + points[i].output)
    BY <1>1, <1>2, <1>10, ContractsAssumption
    DEF Spend!SpendDelta, Spend!CountersEqual, Spend!SpendKnown
  <2>2. QED
    BY <1>1, <1>2, <1>9, <1>10, <2>1
<1>11. ASSUME Unseen(calls)
       PROVE  Spend!SpendDelta(points[i], points[j]) = None
  BY <1>2, <1>11 DEF Spend!SpendDelta, Spend!CountersEqual
<1>12. QED
  BY <1>1, <1>2, <1>7, <1>8, <1>9, <1>10, <1>11

LEMMA MissingUsageCancelsState ==
  ASSUME Facts, PointsFollowCalls
  PROVE  MissingUsageCancels
<1>1. ASSUME NEW i \in DOMAIN points, NEW j \in DOMAIN points, i < j
      PROVE  LET between == CallsBetween(i, j)
                 delta   == Spend!SpendDelta(points[i], points[j])
             IN /\ delta # None <=>
                     \A c \in between : \A u \in UsagesIn(terminals[c]) : IsComplete(u)
                /\ delta # None => delta = Billed(between)
  <2>1. PICK calls : calls = CallsBetween(i, j)
    OBVIOUS
  <2>2. /\ ~Unseen(calls) =>
             /\ Spend!SpendDelta(points[i], points[j]) = Billed(calls)
             /\ Billed(calls) \in Nat
        /\ Unseen(calls) => Spend!SpendDelta(points[i], points[j]) = None
    BY <1>1, <2>1, DeltaBetween
  <2>3. Spend!SpendDelta(points[i], points[j]) # None <=> ~Unseen(calls)
    BY <2>2, ContractsAssumption
  <2>4. ~Unseen(calls) <=> \A c \in calls : \A u \in UsagesIn(terminals[c]) : IsComplete(u)
    BY DEF Unseen, AllComplete
  <2>5. QED
    BY <2>1, <2>2, <2>3, <2>4
<1>2. ASSUME NEW i \in DOMAIN points, NEW j \in DOMAIN points, i < j
      PROVE  LET between == {CallAt(k) : k \in i..(j - 1)}
                 delta   == Spend!SpendDelta(points[i], points[j])
             IN /\ delta # None <=>
                     \A c \in between : \A u \in UsagesIn(terminals[c]) : IsComplete(u)
                /\ delta # None =>
                     delta = SumFunction([c \in between |->
                               SumOver(terminals[c], DOMAIN terminals[c], AccountedTotal)])
  <2>1. PICK calls : calls = CallsBetween(i, j)
    OBVIOUS
  <2>2. {CallAt(k) : k \in i..(j - 1)} = calls
    BY <2>1 DEF CallsBetween
  <2>3. SumFunction([c \in calls |->
          SumOver(terminals[c], DOMAIN terminals[c], AccountedTotal)]) = Billed(calls)
    BY DEF Billed, BilledTo
  <2>4. PICK delta : delta = Spend!SpendDelta(points[i], points[j])
    OBVIOUS
  <2>5. /\ delta # None <=> \A c \in calls : \A u \in UsagesIn(terminals[c]) : IsComplete(u)
        /\ delta # None => delta = Billed(calls)
    BY <1>1, <1>2, <2>1, <2>4
  <2>6. QED
    BY <2>2, <2>3, <2>4, <2>5
<1>3. QED
  BY <1>2 DEF MissingUsageCancels

-----------------------------------------------------------------------------
(* What an observed label of a call says. *)
LEMMA ObservedTotal ==
  ASSUME Facts, NEW c \in CallIds, IsObserved(CallBillableTotal(c))
  PROVE  /\ AllComplete(terminals[c]) /\ BilledTo(c) \in Nat
         /\ CallBillableTotal(c).value = BilledTo(c)
<1>1. PICK status : status = LedgerStatus(starts[c], terminals[c])
  OBVIOUS
<1>2. CallBillableTotal(c) = IF status = "observed" THEN Observed(BilledTo(c))
                                                    ELSE Unavailable(status)
  BY <1>1 DEF CallBillableTotal, LedgerTotal, LedgerSum, BilledTo
<1>3. status = "observed"
  BY <1>2 DEF IsObserved, Unavailable
<1>4. AllComplete(terminals[c])
  BY <1>1, <1>3 DEF LedgerStatus, AllComplete
<1>5. BilledTo(c) \in Nat
  BY <1>4, BilledType DEF Facts
<1>6. CallBillableTotal(c) = Observed(BilledTo(c))
  BY <1>2, <1>3
<1>7. CallBillableTotal(c).value = BilledTo(c)
  BY <1>5, <1>6 DEF Observed
<1>8. QED
  BY <1>4, <1>5, <1>7

(* What the calls from a request on were billed, by request. *)
RestBilled(i) == SumFunction([k \in i..Len(requests) |-> BilledTo(CallAt(k))])

AllObserved(i) == \A k \in i..Len(requests) : IsObserved(CallBillableTotal(CallAt(k)))

LEMMA RestBilledType ==
  ASSUME Facts, NEW i \in 1..Len(requests), AllObserved(i)
  PROVE  RestBilled(i) \in Nat
<1>1. PICK S : S = i..Len(requests)
  OBVIOUS
<1>2. IsFiniteSet(S) /\ \A k \in S : CallAt(k) \in CallIds
  BY <1>1, RequestTables, FS_Interval
<1> DEFINE f == [k \in S |-> BilledTo(CallAt(k))]
<1>3. \A k \in S : f[k] \in Nat
  BY <1>1, <1>2, ObservedTotal DEF AllObserved
<1>4. DOMAIN f = S /\ RestBilled(i) = SumFunction(f)
  BY <1>1 DEF RestBilled
<1> HIDE DEF f
<1>5. QED
  BY <1>2, <1>3, <1>4, SumType DEF SumFunction

(* The task label is known exactly when every later call's is. *)
LEMMA TaskRemainingIs ==
  ASSUME Facts, NEW i \in 1..Len(requests)
  PROVE  /\ IsObserved(TaskRemaining(i)) <=>
              TerminationStatus = "observed" /\ AllObserved(i)
         /\ IsObserved(TaskRemaining(i)) =>
              TaskRemaining(i) = [status |-> "observed", value |-> RestBilled(i)]
<1>1. PICK S : S = i..Len(requests)
  OBVIOUS
<1> DEFINE total(k) == CallBillableTotal(requests[k].call)
           unavailable == {k \in S : ~IsObserved(total(k))}
           sum == SumFunction([k \in S |-> total(k).value])
<1>2. TaskRemaining(i) =
        IF TerminationStatus # "observed" THEN Unavailable(TerminationStatus)
        ELSE IF unavailable # {} THEN Unavailable(total(Min(unavailable)).status)
        ELSE Observed(sum)
  BY <1>1 DEF TaskRemaining
<1>3. unavailable = {} <=> AllObserved(i)
  BY <1>1 DEF AllObserved, CallAt
<1>4. CASE TerminationStatus # "observed"
  BY <1>2, <1>4 DEF Unavailable, IsObserved
<1>5. CASE TerminationStatus = "observed" /\ unavailable # {}
  <2>1. \A x \in S : x \in Int
    BY <1>1
  <2>2. PICK n : n = Len(requests)
    OBVIOUS
  <2>3. n \in Nat /\ S \subseteq 0..n
    BY <1>1, <2>2, RequestTables
  <2>4. unavailable \subseteq 0..n
    BY <2>3
  <2> HIDE DEF unavailable
  <2>5. Min(unavailable) \in unavailable
    BY <1>5, <2>3, <2>4, BoundedExtremes DEF Min
  <2>6. ~IsObserved(total(Min(unavailable)))
    BY <2>5 DEF unavailable
  <2>7. TaskRemaining(i) = Unavailable(total(Min(unavailable)).status)
    BY <1>2, <1>5
  <2>8. ~IsObserved(TaskRemaining(i))
    BY <2>6, <2>7 DEF IsObserved, Unavailable
  <2>9. QED
    BY <1>3, <1>5, <2>8
<1>6. CASE TerminationStatus = "observed" /\ unavailable = {}
  <2>1. AllObserved(i)
    BY <1>3, <1>6
  <2>2. \A k \in S : CallAt(k) \in CallIds
    BY <1>1, RequestTables
  <2>3. \A k \in S : total(k).value = BilledTo(CallAt(k))
    BY <1>1, <2>1, <2>2, ObservedTotal DEF AllObserved, CallAt
  <2>4. [k \in S |-> total(k).value] = [k \in S |-> BilledTo(CallAt(k))]
    BY <2>3
  <2>5. sum = RestBilled(i)
    BY <1>1, <2>4 DEF RestBilled
  <2>6. RestBilled(i) \in Nat
    BY <2>1, RestBilledType
  <2> HIDE DEF sum
  <2>7. TaskRemaining(i) = Observed(RestBilled(i))
    BY <1>2, <1>6, <2>5
  <2>8. TaskRemaining(i) = [status |-> "observed", value |-> RestBilled(i)]
    BY <2>6, <2>7 DEF Observed
  <2>9. QED
    BY <1>6, <2>1, <2>8 DEF IsObserved
<1>7. QED
  BY <1>4, <1>5, <1>6

(* The calls from i on are those before j and those from j on. *)
LEMMA RestSplits ==
  ASSUME Facts, NEW i \in 1..Len(requests), NEW j \in 1..Len(requests), i < j,
         AllObserved(i), NEW calls, calls = CallsBetween(i, j)
  PROVE  /\ ~Unseen(calls) /\ AllObserved(j)
         /\ RestBilled(i) = Billed(calls) + RestBilled(j)
<1>1. PICK n : n = Len(requests)
  OBVIOUS
<1>2. n \in Nat /\ i \in 1..n /\ j \in 1..n
  BY <1>1, RequestTables
<1>3. PICK A : A = i..(j - 1)
  OBVIOUS
<1>4. PICK B : B = j..n
  OBVIOUS
<1>5. IsFiniteSet(A) /\ IsFiniteSet(B) /\ A \cap B = {} /\ i..n = A \cup B
  <2>1. A \cap B = {} /\ i..n = A \cup B
    BY <1>2, <1>3, <1>4
  <2>2. i \in Int /\ j \in Int /\ j - 1 \in Int /\ n \in Int
    BY <1>2
  <2>3. IsFiniteSet(A)
    BY <1>3, <2>2, FS_Interval
  <2>4. IsFiniteSet(B)
    BY <1>4, <2>2, FS_Interval
  <2>5. QED
    BY <2>1, <2>3, <2>4
<1>6. \A k \in A \cup B : CallAt(k) \in CallIds /\ k \in 1..n
  BY <1>1, <1>2, <1>3, <1>4, RequestTables
<1>7. \A k \in A \cup B : AllComplete(terminals[CallAt(k)]) /\ BilledTo(CallAt(k)) \in Nat
  BY <1>1, <1>5, <1>6, ObservedTotal DEF AllObserved
<1>8. ~Unseen(calls)
  BY <1>3, <1>7 DEF Unseen, CallsBetween
<1>9. AllObserved(j)
  BY <1>1, <1>4, <1>5 DEF AllObserved
<1> DEFINE f == [k \in A \cup B |-> BilledTo(CallAt(k))]
           g == [k \in B |-> BilledTo(CallAt(k))]
           h == [k \in A |-> CallAt(k)]
           b == [c \in calls |-> BilledTo(c)]
           bh == [k \in A |-> b[h[k]]]
<1>10. /\ \A k \in A \cup B : f[k] \in Int
       /\ \A k \in B : f[k] = g[k]
       /\ DOMAIN f = A \cup B /\ DOMAIN g = B /\ DOMAIN b = calls
  BY <1>7
<1>11. calls = {h[k] : k \in A}
  BY <1>3 DEF CallsBetween
<1>12. \A x, y \in A : h[x] = h[y] => x = y
  BY <1>1, <1>6, RequestTables
<1>13. \A k \in A : b[h[k]] = f[k] /\ b[h[k]] \in Int
  BY <1>7, <1>11
<1>14. \A k \in A : bh[k] = f[k]
  BY <1>13
<1>15. /\ RestBilled(i) = SumFunction(f) /\ RestBilled(j) = SumFunction(g)
       /\ Billed(calls) = SumFunction(b)
  BY <1>1, <1>4, <1>5 DEF RestBilled, Billed
<1> HIDE DEF f, g, h, b
<1>16. SumFunctionOnSet(f, A \cup B) = SumFunctionOnSet(f, A) + SumFunctionOnSet(f, B)
  BY <1>5, <1>10, SumDisjoint
<1>17. SumFunctionOnSet(f, B) = SumFunctionOnSet(g, B)
  BY <1>5, <1>10, SumSame
<1>18. SumFunctionOnSet(b, {h[k] : k \in A}) = SumFunctionOnSet(bh, A)
  BY <1>5, <1>12, <1>13, SumImage
<1> HIDE DEF bh
<1>19. SumFunctionOnSet(bh, A) = SumFunctionOnSet(f, A)
  BY <1>5, <1>14, SumSame
<1>20. RestBilled(i) = Billed(calls) + RestBilled(j)
  BY <1>10, <1>11, <1>15, <1>16, <1>17, <1>18, <1>19 DEF SumFunction
<1>21. QED
  BY <1>8, <1>9, <1>20

(* The deduction from one point to a later one carries a known label. *)
LEMMA DeductionFits ==
  ASSUME Facts, PointsFollowCalls,
         NEW i \in 1..Len(requests), NEW j \in 1..Len(requests), i < j, AllObserved(i),
         NEW p, NEW q, p \in Spend!SpendPoint, q \in Spend!SpendPoint,
         p.missing = points[i].missing, p.input = points[i].input, p.output = points[i].output,
         q.missing = points[j].missing, q.input = points[j].input, q.output = points[j].output,
         p.offset \in Nat, q.offset \in Nat
  PROVE  /\ RestBilled(i) \in Nat /\ RestBilled(j) \in Nat
         /\ RestBilled(i) + Spend!DeltaTokens(p, q, Spend!SpendDelta(p, q)) =
              RestBilled(j) + p.offset - q.offset
         /\ Spend!DeltaTokens(p, q, Spend!SpendDelta(p, q)) =
              p.offset - (RestBilled(i) - RestBilled(j)) - q.offset
<1>1. PICK calls : calls = CallsBetween(i, j)
  OBVIOUS
<1>2. PICK delta : delta = Spend!SpendDelta(p, q)
  OBVIOUS
<1>3. i \in DOMAIN points /\ j \in DOMAIN points
  BY RequestTables
<1>4. /\ ~Unseen(calls) /\ AllObserved(j)
      /\ RestBilled(i) = Billed(calls) + RestBilled(j)
  BY <1>1, RestSplits
<1>5. RestBilled(i) \in Nat /\ RestBilled(j) \in Nat
  BY <1>4, RestBilledType
<1>6. /\ points[i].missing = points[j].missing
      /\ Spend!SpendDelta(points[i], points[j]) = Billed(calls)
      /\ Billed(calls) \in Nat
  BY <1>1, <1>3, <1>4, DeltaBetween
<1>7. delta = Spend!SpendDelta(points[i], points[j])
  BY <1>2 DEF Spend!SpendDelta, Spend!CountersEqual, Spend!SpendKnown
<1>8. delta \in Nat /\ delta = RestBilled(i) - RestBilled(j)
  BY <1>4, <1>5, <1>6, <1>7
<1>9. p.missing \in Nat /\ q.missing = p.missing
  BY <1>3, <1>6 DEF Facts, RequestsHavePoints
<1>10. ~Spend!FallsBack(p, q, delta)
  BY <1>8, <1>9, ContractsAssumption DEF Spend!FallsBack
<1>11. Spend!DeltaTokens(p, q, delta) = p.offset - delta - q.offset
  BY <1>10 DEF Spend!DeltaTokens
<1>12. QED
  BY <1>2, <1>5, <1>8, <1>11

LEMMA DeductIsExactState ==
  ASSUME Facts, PointsFollowCalls
  PROVE  DeductIsExact
<1> DEFINE atZero(p) == [p EXCEPT !.offset = 0]
           carried(label, p, q) ==
             Observed(label.value + Spend!DeltaTokens(p, q, Spend!SpendDelta(p, q)))
<1> SUFFICES ASSUME NEW i \in DOMAIN points, NEW j \in DOMAIN points, i < j
             PROVE  /\ ~Spend!Decreased(points[i], points[j])
                    /\ IsObserved(TaskRemaining(i)) =>
                         TaskRemaining(j) =
                           carried(TaskRemaining(i), atZero(points[i]), atZero(points[j]))
                    /\ IsObserved(TaskUnknownRemaining(i))
                         /\ IsObserved(TaskUnknownRemaining(j)) =>
                         TaskUnknownRemaining(j) =
                           carried(TaskUnknownRemaining(i), points[i], points[j])
  BY DEF DeductIsExact
<1> HIDE DEF atZero, carried
<1>1. i \in 1..Len(requests) /\ j \in 1..Len(requests)
  BY RequestTables
<1>2. PICK p : p = points[i]
  OBVIOUS
<1>3. PICK q : q = points[j]
  OBVIOUS
<1>4. p \in Spend!SpendPoint /\ q \in Spend!SpendPoint
  BY <1>2, <1>3, ElementOfSeq DEF Facts, TypeOK
<1>5. ~Spend!Decreased(p, q)
  <2>1. PICK calls : calls = CallsBetween(i, j)
    OBVIOUS
  <2>2. PICK delta : delta = Spend!SpendDelta(p, q)
    OBVIOUS
  <2>3. /\ q.missing >= p.missing
        /\ ~Unseen(calls) => delta = Billed(calls) /\ Billed(calls) \in Nat
        /\ Unseen(calls) => delta = None
    BY <1>2, <1>3, <2>1, <2>2, DeltaBetween
  <2>4. p.missing \in Nat /\ q.missing \in Nat
    BY <1>2, <1>3 DEF Facts, RequestsHavePoints
  <2>5. ~Spend!CounterDecreased(p, q)
    BY <2>3, <2>4 DEF Spend!CounterDecreased
  <2>6. delta # None => ~(delta < 0)
    BY <2>3
  <2>7. QED
    BY <2>2, <2>5, <2>6 DEF Spend!Decreased
<1>6. ASSUME IsObserved(TaskRemaining(i))
      PROVE  TaskRemaining(j) = carried(TaskRemaining(i), atZero(p), atZero(q))
  <2>1. PICK p0 : p0 = atZero(p)
    OBVIOUS
  <2>2. PICK q0 : q0 = atZero(q)
    OBVIOUS
  <2>3. /\ p0 \in Spend!SpendPoint /\ q0 \in Spend!SpendPoint
        /\ p0.missing = p.missing /\ p0.input = p.input /\ p0.output = p.output
        /\ q0.missing = q.missing /\ q0.input = q.input /\ q0.output = q.output
        /\ p0.offset = 0 /\ q0.offset = 0
    BY <1>4, <2>1, <2>2 DEF Spend!SpendPoint, atZero
  <2>4. TerminationStatus = "observed" /\ AllObserved(i)
    BY <1>1, <1>6, TaskRemainingIs
  <2>5. AllObserved(j)
    BY <1>1, <2>4, RestSplits
  <2>6. /\ TaskRemaining(i) = [status |-> "observed", value |-> RestBilled(i)]
        /\ TaskRemaining(j) = [status |-> "observed", value |-> RestBilled(j)]
    BY <1>1, <2>4, <2>5, TaskRemainingIs
  <2>7. p0.offset \in Nat /\ q0.offset \in Nat
    BY <2>3
  <2>8. /\ RestBilled(i) \in Nat /\ RestBilled(j) \in Nat
        /\ RestBilled(i) + Spend!DeltaTokens(p0, q0, Spend!SpendDelta(p0, q0)) =
             RestBilled(j) + p0.offset - q0.offset
    BY <1>1, <1>2, <1>3, <2>3, <2>4, <2>7, DeductionFits
  <2>9. RestBilled(j) + p0.offset - q0.offset = RestBilled(j)
    BY <2>3, <2>8
  <2>10. carried(TaskRemaining(i), p0, q0) = Observed(RestBilled(j))
    BY <2>6, <2>8, <2>9 DEF carried
  <2>11. Observed(RestBilled(j)) = [status |-> "observed", value |-> RestBilled(j)]
    BY <2>8 DEF Observed
  <2>12. QED
    BY <2>1, <2>2, <2>6, <2>10, <2>11
<1>7. ASSUME IsObserved(TaskUnknownRemaining(i)), IsObserved(TaskUnknownRemaining(j))
      PROVE  TaskUnknownRemaining(j) = carried(TaskUnknownRemaining(i), p, q)
  <2>1. p.offset = requests[i].local /\ q.offset = requests[j].local
    BY <1>2, <1>3 DEF Facts, RequestsHavePoints
  <2>2. IsObserved(TaskRemaining(i)) /\ IsObserved(TaskRemaining(j))
    BY <1>7 DEF TaskUnknownRemaining, LessLocalCount, IsObserved
  <2>3. /\ TaskRemaining(i) = [status |-> "observed", value |-> RestBilled(i)]
        /\ TaskRemaining(j) = [status |-> "observed", value |-> RestBilled(j)]
        /\ AllObserved(i)
    BY <1>1, <2>2, TaskRemainingIs
  <2>4. p.offset # None /\ q.offset # None
    BY <1>7, <2>1, <2>2
    DEF TaskUnknownRemaining, LessLocalCount, IsObserved, Unavailable
  <2>5. p.offset \in Nat /\ q.offset \in Nat
    BY <1>4, <2>4 DEF Spend!SpendPoint
  <2>6. /\ RestBilled(i) \in Nat /\ RestBilled(j) \in Nat
        /\ Spend!DeltaTokens(p, q, Spend!SpendDelta(p, q)) =
             p.offset - (RestBilled(i) - RestBilled(j)) - q.offset
    BY <1>1, <1>2, <1>3, <1>4, <2>3, <2>5, DeductionFits
  <2>7. /\ TaskUnknownRemaining(i) = Observed(RestBilled(i) - p.offset)
        /\ TaskUnknownRemaining(j) = Observed(RestBilled(j) - q.offset)
    BY <2>1, <2>2, <2>3, <2>4 DEF TaskUnknownRemaining, LessLocalCount
  <2>8. TaskUnknownRemaining(i).value = RestBilled(i) - p.offset
    BY <1>7, <2>7 DEF Observed, IsObserved, Unavailable
  <2>9. PICK d : d = Spend!DeltaTokens(p, q, Spend!SpendDelta(p, q))
    OBVIOUS
  <2>10. RestBilled(i) - p.offset + d = RestBilled(j) - q.offset
    BY <2>5, <2>6, <2>9
  <2>11. carried(TaskUnknownRemaining(i), p, q) = Observed(RestBilled(j) - q.offset)
    BY <2>8, <2>9, <2>10 DEF carried
  <2>12. QED
    BY <2>7, <2>11
<1>8. QED
  BY <1>2, <1>3, <1>5, <1>6, <1>7

-----------------------------------------------------------------------------
(* A finished task has no attempt left open, and nothing happens after it. *)
FinishedLeavesNoneOpen ==
  phase = "finished" => \A c \in CallIds : Dangling(c) = {}

LEMMA FinishedLeavesNoneOpenStep ==
  ASSUME TypeOK, FinishedLeavesNoneOpen, [Next]_vars
  PROVE  FinishedLeavesNoneOpen'
<1>1. CASE StartTask
  BY <1>1 DEF StartTask, TaskStarted, FinishedLeavesNoneOpen
<1>2. ASSUME NEW c \in CallIds, NEW offset \in LocalCounts, BuildRequest(c, offset)
      PROVE  FinishedLeavesNoneOpen'
  BY <1>2 DEF MayRequest, BuildRequest, RequestBuilt, FinishedLeavesNoneOpen
<1>3. ASSUME NEW c \in CallIds, NEW a \in AttemptIds, StartAttempt(c, a)
      PROVE  FinishedLeavesNoneOpen'
  BY <1>3 DEF MayAttempt, StartAttempt, ApiAttemptStarted, Contiguous, FinishedLeavesNoneOpen
<1>4. ASSUME NEW c \in CallIds, NEW a \in AttemptIds, NEW generated \in GeneratedCounts,
             TakeCheckpoint(c, a, generated)
      PROVE  FinishedLeavesNoneOpen'
  BY <1>4 DEF IsOpen, TakeCheckpoint, GenerationCheckpoint, Contiguous, FinishedLeavesNoneOpen
<1>5. ASSUME NEW c \in CallIds, NEW a \in AttemptIds, NEW completed \in BOOLEAN,
             NEW usage \in Usages, EndAttempt(c, a, completed, usage)
      PROVE  FinishedLeavesNoneOpen'
  BY <1>5 DEF IsOpen, EndAttempt, ApiTerminal, Contiguous, FinishedLeavesNoneOpen
<1>6. ASSUME NEW c \in CallIds, NEW kind \in ToolKinds, NEW tool \in ToolTypes,
             NEW key \in ActionKeys, RunTool(c, kind, tool, key)
      PROVE  FinishedLeavesNoneOpen'
  BY <1>6 DEF RunTool, ToolEvent, Contiguous, trajectoryVars, FinishedLeavesNoneOpen
<1>7. CASE EndTask
  BY <1>7 DEF MayFinish, EndTask, TaskFinished, TaskAborted, Refuse, FinishedLeavesNoneOpen,
              Dangling, Terminated
<1>8. CASE UNCHANGED vars
  BY <1>8 DEF vars, trajectoryVars, FinishedLeavesNoneOpen, Dangling, Terminated
<1>9. QED
  BY <1>1, <1>2, <1>3, <1>4, <1>5, <1>6, <1>7, <1>8 DEF Next

LEMMA CheckpointTables ==
  ASSUME Facts, NEW k \in DOMAIN checkpoints,
         NEW point, point = checkpoints[k], NEW events, events = terminals[point.call]
  PROVE  /\ point.call \in CallIds /\ point.before \in Nat /\ point.generated \in OptNat
         /\ events \in Seq(Terminal) /\ Len(events) \in Nat
         /\ DOMAIN events = 1..Len(events)
         /\ point.attempt \in starts[point.call]
         /\ \A i \in DOMAIN events : events[i].attempt = point.attempt => i > point.before
         /\ \A i, j \in DOMAIN events : events[i].attempt = events[j].attempt => i = j
<1>1. point \in Checkpoint
  BY ElementOfSeq DEF Facts, TypeOK, TrajectoryTypeOK
<1>2. point.call \in CallIds /\ point.before \in Nat /\ point.generated \in OptNat
  BY <1>1 DEF Checkpoint
<1>3. events \in Seq(Terminal)
  BY <1>2 DEF Facts, TypeOK, TrajectoryTypeOK
<1>4. Len(events) \in Nat /\ DOMAIN events = 1..Len(events)
  BY <1>3, LenProperties
<1>5. /\ point.attempt \in starts[point.call]
      /\ \A i \in DOMAIN events : events[i].attempt = point.attempt => i > point.before
      /\ \A i, j \in DOMAIN events : events[i].attempt = events[j].attempt => i = j
  BY <1>2 DEF Facts, AttemptsEndOnce
<1>6. QED
  BY <1>2, <1>3, <1>4, <1>5

LEMMA ObservedStatus ==
  ASSUME NEW value
  PROVE  Observed(value).status \in {"observed", "invalid"}
BY DEF Observed, Unavailable

LEMMA FinishedIsUncensoredState ==
  ASSUME Facts, FinishedLeavesNoneOpen
  PROVE  FinishedIsUncensored
<1> SUFFICES ASSUME phase = "finished"
             PROVE  /\ \A i \in DOMAIN requests :
                         /\ CallBillableTotal(CallAt(i)).status # "censored"
                         /\ TaskRemaining(i).status # "censored"
                    /\ \A k \in DOMAIN checkpoints : RemainingOutput(k).status # "censored"
  BY DEF FinishedIsUncensored
<1>1. ASSUME NEW c \in CallIds
      PROVE  CallBillableTotal(c).status # "censored"
  <2>1. PICK status : status = LedgerStatus(starts[c], terminals[c])
    OBVIOUS
  <2>2. starts[c] \ AttemptsOf(terminals[c]) = {}
    BY DEF FinishedLeavesNoneOpen, Dangling, Terminated
  <2>3. status # "censored"
    BY <2>1, <2>2 DEF LedgerStatus
  <2>4. PICK sum : sum = SumOver(terminals[c], DOMAIN terminals[c], AccountedTotal)
    OBVIOUS
  <2>5. CallBillableTotal(c) = IF status = "observed" THEN Observed(sum)
                                                      ELSE Unavailable(status)
    BY <2>1, <2>4 DEF CallBillableTotal, LedgerTotal, LedgerSum
  <2>6. QED
    BY <2>3, <2>5, ObservedStatus DEF Unavailable
<1>2. ASSUME NEW i \in 1..Len(requests)
      PROVE  TaskRemaining(i).status # "censored"
  <2> DEFINE S == i..Len(requests)
             total(k) == CallBillableTotal(requests[k].call)
             unavailable == {k \in S : ~IsObserved(total(k))}
             sum == SumFunction([k \in S |-> total(k).value])
  <2>1. TaskRemaining(i) =
          IF TerminationStatus # "observed" THEN Unavailable(TerminationStatus)
          ELSE IF unavailable # {} THEN Unavailable(total(Min(unavailable)).status)
          ELSE Observed(sum)
    BY DEF TaskRemaining
  <2>2. TerminationStatus = "observed"
    BY DEF TerminationStatus
  <2>3. CASE unavailable # {}
    <3>1. PICK n : n = Len(requests)
      OBVIOUS
    <3>2. n \in Nat /\ S \subseteq 1..n /\ \A k \in S : CallAt(k) \in CallIds
      BY <3>1, RequestTables
    <3>3. unavailable \subseteq 0..n
      BY <3>2
    <3> HIDE DEF unavailable
    <3>4. Min(unavailable) \in unavailable
      BY <2>3, <3>2, <3>3, BoundedExtremes DEF Min
    <3>5. Min(unavailable) \in S
      BY <3>4 DEF unavailable
    <3>6. total(Min(unavailable)).status # "censored"
      BY <1>1, <3>2, <3>5 DEF CallAt
    <3>7. QED
      BY <2>1, <2>2, <2>3, <3>6 DEF Unavailable
  <2>4. CASE unavailable = {}
    <3>1. TaskRemaining(i) = Observed(sum)
      BY <2>1, <2>2, <2>4
    <3> HIDE DEF sum
    <3>2. QED
      BY <3>1, ObservedStatus
  <2>5. QED
    BY <2>3, <2>4
<1>3. ASSUME NEW k \in DOMAIN checkpoints
      PROVE  RemainingOutput(k).status # "censored"
  <2>1. PICK point : point = checkpoints[k]
    OBVIOUS
  <2>2. PICK events : events = terminals[point.call]
    OBVIOUS
  <2>3. /\ point.call \in CallIds /\ point.before \in Nat
        /\ Len(events) \in Nat /\ DOMAIN events = 1..Len(events)
        /\ point.attempt \in starts[point.call]
        /\ \A i \in DOMAIN events : events[i].attempt = point.attempt => i > point.before
    BY <2>1, <2>2, CheckpointTables
  <2>4. PICK i \in DOMAIN events : events[i].attempt = point.attempt
    BY <2>2, <2>3 DEF FinishedLeavesNoneOpen, Dangling, Terminated, AttemptsOf
  <2>5. i \in (point.before + 1)..Len(events)
    BY <2>3, <2>4
  <2> DEFINE future   == (point.before + 1)..Len(events)
             own      == {x \in future : events[x].attempt = point.attempt}
             relevant == {x \in future : x >= Min(own)}
             usages   == {events[x].usage : x \in relevant}
             output   == SumOver(events, relevant, OutputOf) - point.generated
  <2>6. own # {}
    BY <2>4, <2>5
  <2>7. RemainingOutput(k) =
          IF point.generated = None THEN Unavailable("missing")
          ELSE IF own = {} THEN Unavailable("censored")
          ELSE IF \E usage \in usages : ~IsComplete(usage) THEN Unavailable("missing")
          ELSE IF \E usage \in usages : TotalMismatch(usage) THEN Unavailable("invalid")
          ELSE Observed(output)
    BY <2>1, <2>2 DEF RemainingOutput
  <2> HIDE DEF own, relevant, usages, output
  <2>8. QED
    BY <2>6, <2>7, ObservedStatus DEF Unavailable
<1>4. QED
  BY <1>1, <1>2, <1>3, RequestTables

-----------------------------------------------------------------------------
LEMMA MinOfOne ==
  ASSUME NEW i \in Int
  PROVE  Min({i}) = i
BY DEF Min

(* The output of a call is that of its attempts up to one and from it on.  *)
LEMMA OutputSplits ==
  ASSUME NEW events \in Seq(Terminal), AllComplete(events), NEW i \in DOMAIN events
  PROVE  /\ SumOver(events, DOMAIN events, OutputOf) =
              SumOver(events, 1..(i - 1), OutputOf)
                + SumOver(events, i..Len(events), OutputOf)
         /\ SumOver(events, 1..(i - 1), OutputOf) \in Nat
         /\ SumOver(events, i..Len(events), OutputOf) \in Nat
<1>1. PICK n : n = Len(events)
  OBVIOUS
<1>2. n \in Nat /\ DOMAIN events = 1..n /\ i \in 1..n
  BY <1>1, LenProperties
<1>3. PICK A : A = 1..(i - 1)
  OBVIOUS
<1>4. PICK B : B = i..n
  OBVIOUS
<1>5. A \subseteq 1..n /\ B \subseteq 1..n /\ A \cap B = {} /\ 1..n = A \cup B
  BY <1>2, <1>3, <1>4
<1>6. /\ IsFiniteSet(A) /\ IsFiniteSet(B)
      /\ SumOver(events, A, OutputOf) \in Nat /\ SumOver(events, B, OutputOf) \in Nat
      /\ \A x \in 1..n : OutputOf(events[x].usage) \in Nat
  BY <1>2, <1>5, EventSumType
<1> DEFINE f == [x \in A \cup B |-> OutputOf(events[x].usage)]
           fA == [x \in A |-> OutputOf(events[x].usage)]
           fB == [x \in B |-> OutputOf(events[x].usage)]
<1>7. /\ \A x \in A \cup B : f[x] \in Int
      /\ \A x \in A : f[x] = fA[x]
      /\ \A x \in B : f[x] = fB[x]
      /\ DOMAIN f = A \cup B /\ DOMAIN fA = A /\ DOMAIN fB = B
  BY <1>5, <1>6
<1>8. /\ SumOver(events, A \cup B, OutputOf) = SumFunction(f)
      /\ SumOver(events, A, OutputOf) = SumFunction(fA)
      /\ SumOver(events, B, OutputOf) = SumFunction(fB)
  BY DEF SumOver
<1> HIDE DEF f, fA, fB
<1>9. SumFunctionOnSet(f, A \cup B) = SumFunctionOnSet(f, A) + SumFunctionOnSet(f, B)
  BY <1>5, <1>6, <1>7, SumDisjoint
<1>10. SumFunctionOnSet(f, A) = SumFunctionOnSet(fA, A)
  BY <1>6, <1>7, SumSame
<1>11. SumFunctionOnSet(f, B) = SumFunctionOnSet(fB, B)
  BY <1>6, <1>7, SumSame
<1>12. SumOver(events, 1..n, OutputOf) =
         SumOver(events, A, OutputOf) + SumOver(events, B, OutputOf)
  BY <1>5, <1>7, <1>8, <1>9, <1>10, <1>11 DEF SumFunction
<1>13. QED
  BY <1>1, <1>2, <1>3, <1>4, <1>6, <1>12

LEMMA GenerationSplitsCallState ==
  ASSUME Facts
  PROVE  GenerationSplitsCall
<1> SUFFICES ASSUME NEW k \in DOMAIN checkpoints,
                    NEW point, point = checkpoints[k],
                    NEW events, events = terminals[point.call],
                    NEW call, call = CallBillableOutput(point.call),
                    IsObserved(call), point.generated # None,
                    NEW i \in DOMAIN events, events[i].attempt = point.attempt
             PROVE  RemainingOutput(k) =
                      Observed(call.value - SumOver(events, 1..(i - 1), OutputOf)
                               - point.generated)
  BY DEF GenerationSplitsCall
<1>1. /\ point.call \in CallIds /\ point.before \in Nat /\ point.generated \in OptNat
      /\ events \in Seq(Terminal) /\ Len(events) \in Nat
      /\ DOMAIN events = 1..Len(events)
      /\ \A x \in DOMAIN events : events[x].attempt = point.attempt => x > point.before
  BY CheckpointTables
<1>0. \A x \in DOMAIN events : events[x].attempt = point.attempt => x = i
  BY <1>1 DEF Facts, AttemptsEndOnce
<1>2. point.generated \in Nat
  BY <1>1 DEF OptNat
<1>3. PICK status : status = LedgerStatus(starts[point.call], events)
  OBVIOUS
<1>4. PICK sum : sum = SumOver(events, DOMAIN events, OutputOf)
  OBVIOUS
<1>5. call = IF status = "observed" THEN Observed(sum) ELSE Unavailable(status)
  BY <1>3, <1>4 DEF CallBillableOutput, LedgerOutput, LedgerSum
<1>6. status = "observed"
  BY <1>5 DEF IsObserved, Unavailable
<1>7. /\ AllComplete(events)
      /\ \A usage \in UsagesIn(events) : IsComplete(usage) /\ ~TotalMismatch(usage)
  BY <1>3, <1>6 DEF LedgerStatus, AllComplete
<1>8. PICK before : before = SumOver(events, 1..(i - 1), OutputOf)
  OBVIOUS
<1>9. PICK after : after = SumOver(events, i..Len(events), OutputOf)
  OBVIOUS
<1>10. sum = before + after /\ before \in Nat /\ after \in Nat
  BY <1>1, <1>4, <1>7, <1>8, <1>9, OutputSplits
<1>11. call.value = sum
  BY <1>5, <1>6, <1>10 DEF Observed
<1> DEFINE future   == (point.before + 1)..Len(events)
           own      == {x \in future : events[x].attempt = point.attempt}
           relevant == {x \in future : x >= Min(own)}
           usages   == {events[x].usage : x \in relevant}
<1>12. own = {i}
  BY <1>0, <1>1
<1>13. Min(own) = i
  BY <1>1, <1>12, MinOfOne
<1>14. relevant = i..Len(events)
  <2>1. i \in 1..Len(events) /\ i > point.before
    BY <1>1
  <2> HIDE DEF own
  <2>2. QED
    BY <1>1, <1>13, <2>1
<1>15. \A usage \in usages : IsComplete(usage) /\ ~TotalMismatch(usage)
  <2>1. \A x \in relevant : x \in DOMAIN events
    BY <1>1, <1>14
  <2> HIDE DEF relevant
  <2>2. QED
    BY <1>7, <2>1 DEF UsagesIn
<1>16. RemainingOutput(k) =
         IF point.generated = None THEN Unavailable("missing")
         ELSE IF own = {} THEN Unavailable("censored")
         ELSE IF \E usage \in usages : ~IsComplete(usage) THEN Unavailable("missing")
         ELSE IF \E usage \in usages : TotalMismatch(usage) THEN Unavailable("invalid")
         ELSE Observed(SumOver(events, relevant, OutputOf) - point.generated)
  BY DEF RemainingOutput
<1> HIDE DEF own, relevant, usages
<1>17. RemainingOutput(k) = Observed(after - point.generated)
  BY <1>9, <1>12, <1>14, <1>15, <1>16
<1>18. call.value - before - point.generated = after - point.generated
  BY <1>2, <1>10, <1>11
<1>19. QED
  BY <1>8, <1>17, <1>18

-----------------------------------------------------------------------------
(* What closing a call publishes is the label of the call: the reducer,    *)
(* which sees a prefix, and the ledger, which sees the whole trajectory,   *)
(* agree on the last three calls (FeatureState and _build_ledgers).        *)
THEOREM ClosedOutputsLabelled == Spec => []ClosedOutputsAreLabels
<1>1. Init => ClosedOutputsAreLabels
  BY DEF Init, TrajectoryInit, ClosedOutputsAreLabels
<1>2. Facts /\ ClosedOutputsAreLabels /\ [Next]_vars => ClosedOutputsAreLabels'
  BY ClosedOutputsAreLabelsStep
<1>3. QED
  BY <1>1, <1>2, FactsHold, PTL DEF Spec

(* The error-round counter, which only ever adds one or resets, is at      *)
(* every request the number of closed calls since the last clean one.      *)
THEOREM ErrorRoundsTrail == Spec => []ErrorRoundsAreTrailing
<1>1. Init => ErrorRoundsAreTrailing
  BY DEF Init, TrajectoryInit, ErrorRoundsAreTrailing
<1>2. Facts /\ ErrorRoundsAreTrailing /\ [Next]_vars => ErrorRoundsAreTrailing'
  BY ErrorRoundsAreTrailingStep
<1>3. QED
  BY <1>1, <1>2, FactsHold, PTL DEF Spec

LEMMA PointsFollow == Spec => []PointsFollowCalls
<1>1. Init => PointsFollowCalls
  <2> SUFFICES ASSUME Init
               PROVE  PointsFollowCalls
    OBVIOUS
  <2>1. DOMAIN points = {}
    BY DEF Init
  <2>2. QED
    BY <2>1 DEF PointsFollowCalls
<1>2. Facts /\ PointsFollowCalls /\ [Next]_vars => PointsFollowCalls'
  BY PointsFollowCallsStep
<1>3. QED
  BY <1>1, <1>2, FactsHold, PTL DEF Spec

(* Unknown usage hides exactly the transitions it lies in: the visible     *)
(* spend between any two requests is known when every terminal between     *)
(* them reported usage, and is then their accounted sum.                   *)
THEOREM MissingUsageCancelsOut == Spec => []MissingUsageCancels
<1>1. Facts /\ PointsFollowCalls => MissingUsageCancels
  BY MissingUsageCancelsState
<1>2. QED
  BY <1>1, FactsHold, PointsFollow, PTL

(* The mechanical update carries every observed task label to the label at *)
(* any later request exactly, whatever calls, retries and missing usage    *)
(* lie between, and never meets its error or its fallback.                 *)
THEOREM DeductionExact == Spec => []DeductIsExact
<1>1. Facts /\ PointsFollowCalls => DeductIsExact
  BY DeductIsExactState
<1>2. QED
  BY <1>1, FactsHold, PointsFollow, PTL

(* No label of a finished task is censored: every attempt of it ended, and *)
(* the attempt of a checkpoint ends after the checkpoint.                  *)
THEOREM FinishedUncensored == Spec => []FinishedIsUncensored
<1>1. Init => FinishedLeavesNoneOpen
  BY DEF Init, TrajectoryInit, FinishedLeavesNoneOpen
<1>2. TypeOK /\ FinishedLeavesNoneOpen /\ [Next]_vars => FinishedLeavesNoneOpen'
  BY FinishedLeavesNoneOpenStep
<1>3. Facts /\ FinishedLeavesNoneOpen => FinishedIsUncensored
  BY FinishedIsUncensoredState
<1>4. QED
  BY <1>1, <1>2, <1>3, TypeCorrect, FactsHold, PTL DEF Spec

(* A generation checkpoint splits its call's output into what ended before *)
(* its attempt, what was generated so far and the remaining-output label.  *)
THEOREM GenerationSplits == Spec => []GenerationSplitsCall
<1>1. Facts => GenerationSplitsCall
  BY GenerationSplitsCallState
<1>2. QED
  BY <1>1, FactsHold, PTL
=============================================================================
