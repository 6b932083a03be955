--------------------------- MODULE TokenAccounting ---------------------------
(***************************************************************************)
(* One trajectory read by its two consumers.  Every accepted event is      *)
(* applied to the validator's tables (Trajectory) and to the reducer       *)
(* (FeatureState) in the same step; a request also leaves the prediction   *)
(* point that dataset/points.py makes of the snapshot taken there.  The    *)
(* labels (Labels) are functions of the tables.  The properties relate the *)
(* prefix view to the whole-trajectory view.                               *)
(***************************************************************************)
EXTENDS Labels, FeatureState

CONSTANTS
  MaxToolEvents,    (* bound: terminal tool events in a trajectory *)
  MaxCheckpoints    (* bound: generation checkpoints               *)

VARIABLES
  points,       (* the Task-pre / Task-update points, one per request       *)
  toolFailures  (* history: the calls that had a TOOL_FAILED event          *)

vars == <<trajectoryVars, featureVars, points, toolFailures>>

Spend == INSTANCE VisibleSpend

TypeOK ==
  /\ TrajectoryTypeOK
  /\ FeatureTypeOK
  /\ points \in Seq(Spend!SpendPoint)
  /\ toolFailures \in SUBSET CallIds

Init ==
  /\ TrajectoryInit
  /\ FeatureInit
  /\ points = << >>
  /\ toolFailures = {}

(* The features of the snapshot at a request, with the local count as the  *)
(* known offset of the Task-unknown target (_trajectory_points).           *)
PointAt(offset) ==
  [ missing |-> usageCounts.missing_usage_attempts,
    input   |-> usageCounts.cumulative_provider_input_tokens,
    output  |-> usageCounts.cumulative_provider_output_tokens,
    offset  |-> offset ]

-----------------------------------------------------------------------------
StartTask ==
  TaskStarted /\ UNCHANGED <<featureVars, points, toolFailures>>

BuildRequest(c, offset) ==
  /\ RequestBuilt(c, offset)
  /\ ApplyRequestBuilt(c, offset)
  /\ points' = Append(points, PointAt(offset))
  /\ UNCHANGED toolFailures

StartAttempt(c, a) ==
  /\ ApiAttemptStarted(c, a)
  /\ ApplyApiAttemptStarted(c, a)
  /\ UNCHANGED <<points, toolFailures>>

TakeCheckpoint(c, a, generated) ==
  /\ Len(checkpoints) < MaxCheckpoints
  /\ GenerationCheckpoint(c, a, generated)
  /\ ApplyGenerationCheckpoint
  /\ UNCHANGED <<points, toolFailures>>

EndAttempt(c, a, completed, usage) ==
  /\ ApiTerminal(c, a, completed, usage)
  /\ ApplyApiTerminal(c, a, completed, usage)
  /\ UNCHANGED <<points, toolFailures>>

RunTool(c, kind, tool, key) ==
  /\ toolCounts.completed_tool_calls + toolCounts.failed_tool_calls < MaxToolEvents
  /\ ToolEvent(c)
  /\ ApplyToolEvent(c, kind, tool, key)
  /\ toolFailures' = IF kind = "tool_failed" THEN toolFailures \cup {c}
                                             ELSE toolFailures
  /\ UNCHANGED points

EndTask ==
  /\ TaskFinished \/ TaskAborted \/ Refuse
  /\ UNCHANGED <<featureVars, points, toolFailures>>

ToolKinds == {"tool_started", "tool_completed", "tool_failed"}

Next ==
  \/ StartTask
  \/ \E c \in CallIds, offset \in LocalCounts : BuildRequest(c, offset)
  \/ \E c \in CallIds, a \in AttemptIds : StartAttempt(c, a)
  \/ \E c \in CallIds, a \in AttemptIds, generated \in GeneratedCounts :
       TakeCheckpoint(c, a, generated)
  \/ \E c \in CallIds, a \in AttemptIds, completed \in BOOLEAN, usage \in Usages :
       EndAttempt(c, a, completed, usage)
  \/ \E c \in CallIds, kind \in ToolKinds, tool \in ToolTypes, key \in ActionKeys :
       RunTool(c, kind, tool, key)
  \/ EndTask

Spec == Init /\ [][Next]_vars

-----------------------------------------------------------------------------
(* The calls in request order; all but the last are closed. *)
CallAt(i) == requests[i].call

ClosedIndices == 1..(Len(requests) - 1)

(* The reducer trusts its input.  What it relies on: the call it is on is  *)
(* the validator's active call, the attempt sets it collects are exactly   *)
(* that call's, the calls it has closed are exactly the earlier requests,  *)
(* and no attempt of a closed call is still open.  A late terminal of an   *)
(* older call (the reducer would bill it to nobody) would break it.        *)
ReducerFollowsTrajectory ==
  /\ current.logical_call_id = active
  /\ closed.completed_logical_call_ids = {CallAt(i) : i \in ClosedIndices}
  /\ active = IF requests = << >> THEN None ELSE CallAt(Len(requests))
  /\ active # None =>
       /\ current.started_attempt_ids = starts[active]
       /\ current.terminal_attempt_ids = Terminated(active)
  /\ \A c \in CallIds :
       /\ c # active => Dangling(c) = {}
       /\ ~Requested(c) => starts[c] = {} /\ Terminated(c) = {}

(* The outputs the reducer publishes for the last three closed calls are   *)
(* the labels those calls get from the whole trajectory: known exactly     *)
(* when the usage of the call is complete, and equal to the billable       *)
(* output when that is observed (G1 features vs call_billable_output).     *)
ClosedOutputsAreLabels ==
  LET recent == closed.recent_call_outputs
      n      == Len(requests) - 1
  IN requests # << >> =>
       /\ Len(recent) = Min({3, n})
       /\ \A k \in DOMAIN recent :
            LET label == CallBillableOutput(CallAt(n - Len(recent) + k))
            IN /\ recent[k] = None <=> label.status \in {"missing", "censored"}
               /\ IsObserved(label) => label.value = recent[k]

(* consecutive_error_rounds counts the closed calls since the last one     *)
(* without a failed attempt or tool, whichever round the failures were in. *)
ErrorRoundsAreTrailing ==
  LET failed(c) == \/ c \in toolFailures
                   \/ \E i \in DOMAIN terminals[c] : ~terminals[c][i].completed
      clean     == {i \in ClosedIndices : ~failed(CallAt(i))}
  IN requests # << >> =>
       closed.consecutive_error_rounds = Len(requests) - 1 - Max(clean \cup {0})

(* Between any two requests the visible spend is known exactly when every  *)
(* terminal between them reported usage, and is then their accounted sum:  *)
(* an attempt with unknown usage hides only the transitions it lies in     *)
(* (docs/data-contract.md, Token ledger).                                  *)
MissingUsageCancels ==
  \A i, j \in DOMAIN points :
    i < j =>
      LET between == {CallAt(k) : k \in i..(j - 1)}
          delta   == Spend!SpendDelta(points[i], points[j])
      IN /\ delta # None <=> \A c \in between : \A u \in UsagesIn(terminals[c]) : IsComplete(u)
         /\ delta # None =>
              delta = SumFunction([c \in between |->
                        SumOver(terminals[c], DOMAIN terminals[c], AccountedTotal)])

(* The mechanical update is exact: an observed Task label at one request   *)
(* is carried to the label at any later request by the visible operands    *)
(* alone, for the provider-accounted target (offset zero) and for the      *)
(* unknown target (the local counts as offsets).  Neither the missing-     *)
(* operand fallback nor the "counters decrease" error is ever met there.   *)
DeductIsExact ==
  LET atZero(p) == [p EXCEPT !.offset = 0]
      carried(label, p, q) ==
        Observed(label.value
                 + Spend!DeltaTokens(p, q, Spend!SpendDelta(p, q)))
  IN \A i, j \in DOMAIN points :
       i < j =>
         /\ ~Spend!Decreased(points[i], points[j])
         /\ IsObserved(TaskRemaining(i)) =>
              TaskRemaining(j) =
                carried(TaskRemaining(i), atZero(points[i]), atZero(points[j]))
         /\ IsObserved(TaskUnknownRemaining(i)) /\ IsObserved(TaskUnknownRemaining(j)) =>
              TaskUnknownRemaining(j) =
                carried(TaskUnknownRemaining(i), points[i], points[j])

(* Nothing about a finished task is censored: every attempt of it ended.   *)
FinishedIsUncensored ==
  phase = "finished" =>
    /\ \A i \in DOMAIN requests :
         /\ CallBillableTotal(CallAt(i)).status # "censored"
         /\ TaskRemaining(i).status # "censored"
    /\ \A k \in DOMAIN checkpoints : RemainingOutput(k).status # "censored"

(* A checkpoint splits its call: the billable output of the call is what   *)
(* the attempts that ended before the checkpoint's attempt produced, what  *)
(* was generated so far, and the remaining-output label - which is known   *)
(* whenever the call's label and the generated count are, unless more was  *)
(* generated than the provider reports.                                    *)
GenerationSplitsCall ==
  \A k \in DOMAIN checkpoints :
    LET point  == checkpoints[k]
        events == terminals[point.call]
        call   == CallBillableOutput(point.call)
        own    == {i \in DOMAIN events : events[i].attempt = point.attempt}
    IN IsObserved(call) /\ point.generated # None =>
         \A i \in own :
           RemainingOutput(k) =
             Observed(call.value - SumOver(events, 1..(i - 1), OutputOf)
                      - point.generated)

(* Once the next request is built a call's ledger entry is final: no later *)
(* event of the trajectory can change the label of an earlier call.        *)
ClosedLedgerIsFinal ==
  [][\A c \in CallIds :
       Requested(c) /\ c # active =>
         /\ CallBillableTotal(c)' = CallBillableTotal(c)
         /\ FinalResponseOutput(c)' = FinalResponseOutput(c)]_vars
=============================================================================
