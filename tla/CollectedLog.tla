---------------------------- MODULE CollectedLog ----------------------------
(***************************************************************************)
(* What a log reader has normalized so far, and the validation of it       *)
(* (collection/bagen_swebench.py, collection/bagen_sokoban.py,             *)
(* Trajectory.from_events).  A reader appends canonical events to a list   *)
(* and hands the list to the validator when the log ends.  Either may      *)
(* raise: the reader on a log that fails one of its own checks, which      *)
(* leaves nothing behind, the validator on an event that the grammar does  *)
(* not allow.                                                              *)
(***************************************************************************)
EXTENDS Labels

CONSTANT ToolIds   (* the tool_call_id values of a log, which is finite *)

ASSUME ToolIdsAssumption == IsFiniteSet(ToolIds)

VARIABLES
  reading,    (* "reading", "validating", "accepted", "raised", "dropped" *)
  events,     (* the canonical events normalized so far                   *)
  checked     (* how many of them the validator has passed                *)

logVars == <<reading, events, checked>>

(* The single attempt of a call whose log does not tell attempts apart. *)
FirstAttempt == 1

ASSUME FirstAttemptAssumption == FirstAttempt \in AttemptIds

NoUsage == [ input_tokens |-> None, output_tokens |-> None,
             reported_total_tokens |-> None ]

(* The payload keys that later steps look at; the other events have none. *)
StartedEvent       == [type |-> "task_started"]
RequestEvent(c)    == [type |-> "request_built", call |-> c]
AttemptEvent(c, a) == [type |-> "api_attempt_started", call |-> c, attempt |-> a]
TerminalEvent(c, a, completed, usage) ==
  [ type |-> IF completed THEN "api_completed" ELSE "api_failed",
    call |-> c, attempt |-> a, usage |-> usage ]
ToolResultEvent(c, tool, failed) ==
  [ type |-> IF failed THEN "tool_failed" ELSE "tool_completed",
    call |-> c, tool |-> tool ]
EndEvent(type, usage) == [type |-> type, usage |-> usage]

ToolTypesOfEvents == {"tool_completed", "tool_failed"}
EndTypes          == {"task_finished", "task_aborted"}

IsToolResult(e) == e.type \in ToolTypesOfEvents

Emit(new) == events' = events \o new

LogInit ==
  /\ reading = "reading"
  /\ events = <<StartedEvent>>
  /\ checked = 0
  /\ TrajectoryInit

(* A schema error: the exception drops the list. *)
RaiseSchemaError ==
  /\ reading' = "raised"
  /\ events' = << >>
  /\ UNCHANGED <<checked, trajectoryVars>>

-----------------------------------------------------------------------------
(* The validator's checks for one event.                                   *)
Admits(e) ==
  \/ e.type = "task_started" /\ phase = "new"
  \/ e.type = "request_built" /\ MayRequest(e.call)
  \/ e.type = "api_attempt_started" /\ MayAttempt(e.call, e.attempt)
  \/ e.type \in {"api_completed", "api_failed"} /\ IsOpen(e.call, e.attempt)
  \/ IsToolResult(e) /\ Contiguous(e.call)
  \/ e.type = "task_finished" /\ MayFinish
  \/ e.type = "task_aborted" /\ phase = "open"

(* An event that passes them; a reader never counts the request itself,    *)
(* and none of the reasons for which it aborts ("max_turns", "task_error", *)
(* "logging_incomplete") counts as an observed end.                        *)
Allowed(e) ==
  \/ e.type = "task_started" /\ TaskStarted
  \/ e.type = "request_built" /\ RequestBuilt(e.call, None)
  \/ e.type = "api_attempt_started" /\ ApiAttemptStarted(e.call, e.attempt)
  \/ /\ e.type \in {"api_completed", "api_failed"}
     /\ ApiTerminal(e.call, e.attempt, e.type = "api_completed", e.usage)
  \/ IsToolResult(e) /\ ToolEvent(e.call)
  \/ e.type = "task_finished" /\ TaskFinished
  \/ e.type = "task_aborted" /\ TaskAborted /\ phase' = "aborted_censored"

Validate ==
  /\ reading = "validating"
  /\ LET e == events[checked + 1] IN
       \/ /\ Allowed(e)
          /\ checked' = checked + 1
          /\ reading' = IF checked' = Len(events) THEN "accepted" ELSE reading
       \/ /\ ~Admits(e)
          /\ Refuse
          /\ reading' = "raised"
          /\ UNCHANGED checked
  /\ UNCHANGED events

(* The usage the final event carries. *)
TaskUsage == events[Len(events)].usage

ToolResults(tool) ==
  {i \in DOMAIN events : IsToolResult(events[i]) /\ events[i].tool = tool}
=============================================================================
