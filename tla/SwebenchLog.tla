----------------------------- MODULE SwebenchLog -----------------------------
(***************************************************************************)
(* The reader of mini-swe-agent logs (collection/bagen_swebench.py         *)
(* _Normalizer): one pass over the messages of a log, with the tool calls  *)
(* that still wait for their result.  A tool result is written under the   *)
(* call that asked for it, whenever it comes; the reader itself does not   *)
(* look at the order of calls.  Every call has a single attempt, so a      *)
(* retry after a format error is a call of its own.                        *)
(***************************************************************************)
EXTENDS CollectedLog

CONSTANT MaxToolsPerReply   (* bound: tool calls in one assistant message *)

VARIABLES
  pending,    (* pending_tools: tool_call_id -> the call that asked for it *)
  seenTools,  (* seen_tool_ids                                             *)
  usages,     (* the usage of every attempt, in order                      *)
  callCount   (* call_count: the calls seen so far                         *)

swebenchVars == <<pending, seenTools, usages, callCount>>

SwebenchInit ==
  /\ pending = << >>
  /\ seenTools = {}
  /\ usages = << >>
  /\ callCount = 0

(* Calls are numbered; the bound on their number is CallIds. *)
NextCall == callCount + 1

(* _usage_from_response raises on a total that contradicts its parts and   *)
(* fills in one that is missing.                                           *)
Readable(usage) == ~TotalMismatch(usage)

WithTotal(usage) ==
  IF IsComplete(usage)
  THEN [usage EXCEPT !.reported_total_tokens = AccountedTotal(usage)]
  ELSE usage

(* Mutant: a call that fails is written without its attempt. *)
CallEventsWithoutAttempt(completed, usage) ==
  << RequestEvent(NextCall) >>
  \o (IF completed THEN << AttemptEvent(NextCall, FirstAttempt) >> ELSE << >>)
  \o << TerminalEvent(NextCall, FirstAttempt, completed, usage) >>

CallEvents(completed, usage) ==
  << RequestEvent(NextCall), AttemptEvent(NextCall, FirstAttempt),
     TerminalEvent(NextCall, FirstAttempt, completed, usage) >>

AddCall(completed, usage) ==
  /\ Emit(CallEvents(completed, usage))
  /\ usages' = Append(usages, usage)
  /\ callCount' = NextCall

-----------------------------------------------------------------------------
(* _consume_assistant *)
ConsumeAssistant(usage, tools) ==
  /\ reading = "reading"
  /\ NextCall \in CallIds
  /\ Readable(usage)
  /\ tools \cap seenTools = {}
  /\ AddCall(TRUE, WithTotal(usage))
  /\ seenTools' = seenTools \cup tools
  /\ pending' = [t \in DOMAIN pending \cup tools |->
                   IF t \in tools THEN NextCall ELSE pending[t]]
  /\ UNCHANGED <<reading, checked, trajectoryVars>>

(* _consume_interruption: a reply the agent could not parse, with or       *)
(* without the provider's response.                                        *)
ConsumeInterruption(usage) ==
  /\ reading = "reading"
  /\ NextCall \in CallIds
  /\ Readable(usage)
  /\ AddCall(FALSE, WithTotal(usage))
  /\ UNCHANGED <<reading, checked, trajectoryVars, pending, seenTools>>

(* _consume_tool *)
ConsumeTool(tool, failed) ==
  /\ reading = "reading"
  /\ tool \in DOMAIN pending
  /\ Emit(<< ToolResultEvent(pending[tool], tool, failed) >>)
  /\ pending' = [t \in DOMAIN pending \ {tool} |-> pending[t]]
  /\ UNCHANGED <<reading, checked, trajectoryVars, seenTools, usages, callCount>>

(* Mutant: what is known is added up. *)
AggregateOfKnown ==
  LET known  == {i \in DOMAIN usages : IsComplete(usages[i])}
      input  == SumFunction([i \in known |-> usages[i].input_tokens])
      output == SumFunction([i \in known |-> usages[i].output_tokens])
  IN [ input_tokens |-> input, output_tokens |-> output,
       reported_total_tokens |-> input + output ]

(* _aggregate_usage: one attempt without usage hides the sum. *)
Aggregate ==
  LET input  == SumFunction([i \in DOMAIN usages |-> usages[i].input_tokens])
      output == SumFunction([i \in DOMAIN usages |-> usages[i].output_tokens])
  IN IF usages = << >> \/ \E i \in DOMAIN usages : ~IsComplete(usages[i])
     THEN NoUsage
     ELSE [ input_tokens |-> input, output_tokens |-> output,
            reported_total_tokens |-> input + output ]

(* Mutant: the exit message answers nothing. *)
NothingIntercepted(submitted) == << >>

(* The exit message answers the tool call that ended the run, if any. *)
InterceptedTool(submitted) ==
  IF pending = << >> THEN << >>
  ELSE LET tool == CHOOSE t \in DOMAIN pending : TRUE
       IN << ToolResultEvent(pending[tool], tool, ~submitted) >>

(* _consume_exit, and finish: the log ends here and the evidence of calls  *)
(* is compared with the number the agent counted.                          *)
ConsumeExit(submitted, reported) ==
  /\ reading = "reading"
  /\ Cardinality(DOMAIN pending) <= 1
  /\ reported = callCount
  /\ Emit(InterceptedTool(submitted)
          \o << EndEvent(IF submitted THEN "task_finished" ELSE "task_aborted",
                         Aggregate) >>)
  /\ pending' = << >>
  /\ reading' = "validating"
  /\ UNCHANGED <<checked, trajectoryVars, seenTools, usages, callCount>>

(* Every other message raises: an unknown or answered tool id, a reused    *)
(* one, a contradicting total, more than one tool left at the exit, a      *)
(* wrong count, a truncated log, a malformed message.                      *)
RejectSwebench ==
  /\ reading = "reading"
  /\ RaiseSchemaError
  /\ pending' = << >>
  /\ seenTools' = {}
  /\ usages' = << >>
  /\ callCount' = 0

SwebenchStep ==
  \/ \E usage \in Usages, tools \in SUBSET ToolIds :
       /\ Cardinality(tools) <= MaxToolsPerReply
       /\ ConsumeAssistant(usage, tools)
  \/ \E usage \in Usages \cup {NoUsage} : ConsumeInterruption(usage)
  \/ \E tool \in ToolIds, failed \in BOOLEAN : ConsumeTool(tool, failed)
  \/ \E submitted \in BOOLEAN, reported \in CallIds \cup {0} :
       ConsumeExit(submitted, reported)
  \/ RejectSwebench
=============================================================================
