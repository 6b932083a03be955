---------------------------- MODULE FeatureState ----------------------------
(***************************************************************************)
(* The causal feature reducer (features/reducer.py FeatureState).  Its     *)
(* fields are grouped by what moves them:                                  *)
(*                                                                         *)
(*   apiCounts, usageCounts, toolCounts, requestCount                      *)
(*                                totals over the whole prefix             *)
(*   current, currentUsage, currentTools                                   *)
(*                                the current_call_* scratch, reset by the *)
(*                                next request                             *)
(*   closed                       what closing a call publishes (G1 facts) *)
(*   local                        the last two local request counts        *)
(*   actions                      recent_action_keys                       *)
(*                                                                         *)
(* The reducer re-checks nothing the trajectory grammar guarantees: it     *)
(* compares an event's call with the current one and otherwise trusts its  *)
(* input.  The fields copied from task_started and the generation fields   *)
(* of a checkpoint are overwritten wholesale by one event and are left out.*)
(***************************************************************************)
EXTENDS Contracts

CONSTANTS
  ToolTypes,   (* tool names a tool event may carry, None when absent      *)
  ActionKeys   (* explicit action keys, None when the payload has none     *)

VARIABLES
  apiCounts, usageCounts, toolCounts, requestCount,
  current, currentUsage, currentTools,
  closed, local, actions

counterVars == <<apiCounts, usageCounts, toolCounts, requestCount>>

currentVars == <<current, currentUsage, currentTools>>

featureVars == <<counterVars, currentVars, closed, local, actions>>

ApiCounts   == [completed_api_attempts : Nat, failed_api_attempts : Nat]

UsageCounts == [ known_usage_attempts              : Nat,
                 missing_usage_attempts            : Nat,
                 cumulative_provider_input_tokens  : Nat,
                 cumulative_provider_output_tokens : Nat ]

ToolCounts  == [completed_tool_calls : Nat, failed_tool_calls : Nat]

Current == [ logical_call_id      : CallIds \cup {None},
             started_attempt_ids  : SUBSET AttemptIds,
             terminal_attempt_ids : SUBSET AttemptIds ]

CurrentUsage == [output_tokens : Nat, has_unknown_usage : BOOLEAN]

CurrentTools == [ last_tool_type   : ToolTypes \cup {None},
                  tool_error_count : Nat,
                  has_error        : BOOLEAN ]

Closed == [ completed_logical_call_ids  : SUBSET CallIds,
            recent_call_outputs         : Seq(OptNat),
            last_tool_type              : ToolTypes \cup {None},
            last_round_tool_error_count : OptNat,
            consecutive_error_rounds    : Nat ]

FeatureTypeOK ==
  /\ apiCounts \in ApiCounts
  /\ usageCounts \in UsageCounts
  /\ toolCounts \in ToolCounts
  /\ requestCount \in Nat
  /\ current \in Current
  /\ currentUsage \in CurrentUsage
  /\ currentTools \in CurrentTools
  /\ closed \in Closed
  /\ local \in [previous : OptNat, current : OptNat]
  /\ actions \in Seq(ActionKeys)

FreshCurrent(c) ==
  [logical_call_id |-> c, started_attempt_ids |-> {}, terminal_attempt_ids |-> {}]

FreshUsage == [output_tokens |-> 0, has_unknown_usage |-> FALSE]

FreshTools == [last_tool_type |-> None, tool_error_count |-> 0, has_error |-> FALSE]

FeatureInit ==
  /\ apiCounts = [completed_api_attempts |-> 0, failed_api_attempts |-> 0]
  /\ usageCounts = [ known_usage_attempts |-> 0, missing_usage_attempts |-> 0,
                     cumulative_provider_input_tokens |-> 0,
                     cumulative_provider_output_tokens |-> 0 ]
  /\ toolCounts = [completed_tool_calls |-> 0, failed_tool_calls |-> 0]
  /\ requestCount = 0
  /\ current = FreshCurrent(None)
  /\ currentUsage = FreshUsage
  /\ currentTools = FreshTools
  /\ closed = [ completed_logical_call_ids |-> {}, recent_call_outputs |-> << >>,
                last_tool_type |-> None, last_round_tool_error_count |-> None,
                consecutive_error_rounds |-> 0 ]
  /\ local = [previous |-> None, current |-> None]
  /\ actions = << >>

-----------------------------------------------------------------------------
(* The [-3:] slice after an append. *)
LastThree(s) == IF Len(s) <= 3 THEN s ELSE SubSeq(s, Len(s) - 2, Len(s))

(* Mutant: unknown usage does not hide the output of the call. *)
ClosedOutputOfKnown ==
  IF /\ current.terminal_attempt_ids # {}
     /\ current.started_attempt_ids = current.terminal_attempt_ids
  THEN currentUsage.output_tokens
  ELSE None

(* A call's output is published only when every started attempt ended and  *)
(* reported usage; anything else closes it as unknown.                     *)
ClosedOutput ==
  IF /\ current.terminal_attempt_ids # {}
     /\ current.started_attempt_ids = current.terminal_attempt_ids
     /\ ~currentUsage.has_unknown_usage
  THEN currentUsage.output_tokens
  ELSE None

ClosedCall ==
  [ completed_logical_call_ids |->
      closed.completed_logical_call_ids \cup {current.logical_call_id},
    recent_call_outputs |->
      LastThree(Append(closed.recent_call_outputs, ClosedOutput)),
    last_tool_type |->
      IF currentTools.last_tool_type # None THEN currentTools.last_tool_type
                                            ELSE closed.last_tool_type,
    last_round_tool_error_count |-> currentTools.tool_error_count,
    consecutive_error_rounds |->
      IF currentTools.has_error THEN closed.consecutive_error_rounds + 1
                                ELSE 0 ]

(* Mutant: the tool and error scratch survives the close. *)
StartLogicalCallKeepingTools(c) ==
  /\ closed' = IF current.logical_call_id = None THEN closed ELSE ClosedCall
  /\ current' = FreshCurrent(c)
  /\ currentUsage' = FreshUsage
  /\ UNCHANGED currentTools

(* _start_logical_call: publish the preceding call, reset the scratch. *)
StartLogicalCall(c) ==
  /\ closed' = IF current.logical_call_id = None THEN closed ELSE ClosedCall
  /\ current' = FreshCurrent(c)
  /\ currentUsage' = FreshUsage
  /\ currentTools' = FreshTools

ApplyRequestBuilt(c, count) ==
  /\ StartLogicalCall(c)
  /\ requestCount' = requestCount + 1
  /\ local' = [ previous |-> IF requestCount > 0 THEN local.current ELSE None,
                current  |-> count ]
  /\ UNCHANGED <<apiCounts, usageCounts, toolCounts, actions>>

Belongs(c) == c = current.logical_call_id

ApplyApiAttemptStarted(c, a) ==
  /\ current' = IF Belongs(c)
                THEN [current EXCEPT !.started_attempt_ids = @ \cup {a}]
                ELSE current
  /\ UNCHANGED <<counterVars, currentUsage, currentTools, closed, local, actions>>

(* Only the generation fields, which are not modelled. *)
ApplyGenerationCheckpoint == UNCHANGED featureVars

(* API_COMPLETED and API_FAILED.  Incomplete usage counts as missing and   *)
(* adds nothing, not even the half that was reported.                      *)
CountUsage(usage) ==
  usageCounts' =
    IF IsComplete(usage)
    THEN [usageCounts EXCEPT
            !.known_usage_attempts = @ + 1,
            !.cumulative_provider_input_tokens = @ + usage.input_tokens,
            !.cumulative_provider_output_tokens = @ + usage.output_tokens]
    ELSE [usageCounts EXCEPT !.missing_usage_attempts = @ + 1]

CountCurrentUsage(usage) ==
  currentUsage' =
    IF IsComplete(usage)
    THEN [currentUsage EXCEPT !.output_tokens = @ + usage.output_tokens]
    ELSE [currentUsage EXCEPT !.has_unknown_usage = TRUE]

ApplyApiTerminal(c, a, completed, usage) ==
  /\ apiCounts' = IF completed
                  THEN [apiCounts EXCEPT !.completed_api_attempts = @ + 1]
                  ELSE [apiCounts EXCEPT !.failed_api_attempts = @ + 1]
  /\ CountUsage(usage)
  /\ IF Belongs(c)
     THEN /\ current' = [current EXCEPT !.terminal_attempt_ids = @ \cup {a}]
          /\ CountCurrentUsage(usage)
          /\ currentTools' = IF completed
                             THEN currentTools
                             ELSE [currentTools EXCEPT !.has_error = TRUE]
     ELSE UNCHANGED currentVars
  /\ UNCHANGED <<toolCounts, requestCount, closed, local, actions>>

(* _apply_tool_event.  Any tool event names the tool; only a terminal one  *)
(* counts and is an observable action, and only a failure is an error.     *)
ApplyToolEvent(c, kind, tool, key) ==
  /\ toolCounts' =
       CASE kind = "tool_completed" -> [toolCounts EXCEPT !.completed_tool_calls = @ + 1]
         [] kind = "tool_failed"    -> [toolCounts EXCEPT !.failed_tool_calls = @ + 1]
         [] kind = "tool_started"   -> toolCounts
  /\ currentTools' =
       IF ~Belongs(c)
       THEN currentTools
       ELSE LET named == IF tool = None
                         THEN currentTools
                         ELSE [currentTools EXCEPT !.last_tool_type = tool]
            IN IF kind = "tool_failed"
               THEN [named EXCEPT !.tool_error_count = @ + 1, !.has_error = TRUE]
               ELSE named
  /\ actions' = IF kind # "tool_started" /\ key # None
                THEN LastThree(Append(actions, key))
                ELSE actions
  /\ UNCHANGED <<apiCounts, usageCounts, requestCount, current, currentUsage,
                 closed, local>>

=============================================================================
