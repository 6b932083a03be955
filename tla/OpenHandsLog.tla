----------------------------- MODULE OpenHandsLog -----------------------------
(***************************************************************************)
(* One task of an OpenHands run (collection/openhands_trajectory.py        *)
(* _prepare_task_snapshots, _normalize_prepared_task): the completions in  *)
(* the order of their timestamps, each a call with one attempt that        *)
(* completed, and the task's line in the task log, if there is one.        *)
(*                                                                         *)
(* A tool result stands in the log's history, or, without a log, in the    *)
(* messages of the next completion.  Usage stands in each response and     *)
(* again, per response and accumulated, in the log's metrics.  Message     *)
(* contents, names and timestamps are compared by the reader and rejected  *)
(* where they disagree; here they agree or the task is rejected.           *)
(***************************************************************************)
EXTENDS CollectedLog

CONSTANT MaxCallTools   (* bound: tool calls in one response *)

VARIABLES
  task,       (* the task: the number of its completions, and whether the  *)
              (* task log has a line for it                                *)
  responses   (* of the completions read so far: usage and tool calls      *)

openHandsVars == <<task, responses>>

NoTask == [calls |-> 0, logged |-> FALSE]

OpenHandsInit ==
  /\ task = NoTask
  /\ responses = << >>

(* _parse_usage: the response's usage is absent, or complete with a total  *)
(* that is the sum.                                                        *)
ResponseUsages ==
  {NoUsage} \cup
  { [u EXCEPT !.reported_total_tokens = AccountedTotal(u)] :
      u \in {v \in Usages : IsComplete(v) /\ ~TotalMismatch(v)} }

AnnouncedTools == UNION {responses[i].tools : i \in DOMAIN responses}

CompletionEvents(c, usage) ==
  << RequestEvent(c), AttemptEvent(c, FirstAttempt),
     TerminalEvent(c, FirstAttempt, TRUE, usage) >>

(* The results of some tools under call c, in any order; outcome says of   *)
(* each whether it failed.                                                 *)
ResultsOf(c, outcome) ==
  LET tools == DOMAIN outcome IN
  { [i \in DOMAIN order |-> ToolResultEvent(c, order[i], outcome[order[i]])] :
      order \in Bijection(1..Cardinality(tools), tools) }

(* _parse_history: some of the tool calls of a response have an action in  *)
(* the history, and every such action one observation.                     *)
Histories(tools) == UNION {[acted -> BOOLEAN] : acted \in SUBSET tools}

(* A completion of a task with a log: the results that the history has of  *)
(* its tool calls.  A tool id is asked for once.                           *)
ReadLoggedCompletion(usage, tools) ==
  LET c == Len(responses) + 1 IN
  /\ reading = "reading"
  /\ task.logged
  /\ c <= task.calls
  /\ tools \cap AnnouncedTools = {}
  /\ \E outcome \in Histories(tools) : \E results \in ResultsOf(c, outcome) :
       Emit(CompletionEvents(c, usage) \o results)
  /\ responses' = Append(responses, [usage |-> usage, tools |-> tools])
  /\ UNCHANGED <<reading, checked, trajectoryVars, task>>

(* What the messages of the next completion say of the last response: all  *)
(* its tools are answered, or, when they repeat, reset or skip it, none.   *)
Answered ==
  LET n == Len(responses) IN
  IF n = 0 THEN {<< >>}
  ELSE {<< >>} \cup ResultsOf(n, [t \in responses[n].tools |-> FALSE])

(* A completion of a task without a log: the results of the call before it *)
(* come from its own messages.                                             *)
ReadCompletion(usage, tools) ==
  LET c == Len(responses) + 1 IN
  /\ reading = "reading"
  /\ ~task.logged
  /\ c <= task.calls
  /\ \E answers \in Answered : Emit(answers \o CompletionEvents(c, usage))
  /\ responses' = Append(responses, [usage |-> usage, tools |-> tools])
  /\ UNCHANGED <<reading, checked, trajectoryVars, task>>

-----------------------------------------------------------------------------
Complete(i) == IsComplete(responses[i].usage)

UsageSum(calls, of) ==
  LET input  == SumFunction([i \in calls |-> of[i].input_tokens])
      output == SumFunction([i \in calls |-> of[i].output_tokens])
  IN [ input_tokens |-> input, output_tokens |-> output,
       reported_total_tokens |-> input + output ]

(* _aggregate_usage of the responses. *)
ResponseSum ==
  LET calls == DOMAIN responses
  IN IF calls # {} /\ \A i \in calls : Complete(i)
     THEN UsageSum(calls, [i \in calls |-> responses[i].usage])
     ELSE NoUsage

(* _validate_task_log_alignment: the ledger agrees with the responses that *)
(* have usage; it may leave out responses, those of an earlier session.    *)
Agrees(ledger) ==
  \A i \in DOMAIN ledger \cap DOMAIN responses :
    Complete(i) => ledger[i] = responses[i].usage

(* _parse_task_metrics: the usage of responses, always complete.  A ledger *)
(* of a task without completions names responses that nobody has; they are *)
(* numbered like calls.                                                    *)
Ledgers ==
  LET named == IF task.calls = 0 THEN {1} ELSE DOMAIN responses
  IN {ledger \in UNION {[some -> ResponseUsages \ {NoUsage}] : some \in SUBSET named} :
        Agrees(ledger)}

(* _task_terminal_usage: the ledger's sum and the responses it leaves out. *)
LoggedUsage(ledger) ==
  LET extras == DOMAIN responses \ DOMAIN ledger
      usage == [i \in DOMAIN ledger \cup extras |->
                  IF i \in DOMAIN ledger THEN ledger[i] ELSE responses[i].usage]
  IN IF \A i \in extras : Complete(i) THEN UsageSum(DOMAIN usage, usage) ELSE NoUsage

FinishTask(ending, usage) ==
  /\ reading = "reading"
  /\ task # NoTask
  /\ Len(responses) = task.calls
  /\ Emit(<< EndEvent(ending, usage) >>)
  /\ reading' = "validating"
  /\ UNCHANGED <<checked, trajectoryVars, openHandsVars>>

(* _parse_task_log_line: a task whose line has no history carries an error *)
(* and no usage.                                                           *)
MayLackHistory == \A i \in DOMAIN events : ~IsToolResult(events[i])

(* Without a log nobody knows how the task ended. *)
EndOpenHandsTask ==
  \/ /\ task.logged => MayLackHistory
     /\ FinishTask("task_aborted", ResponseSum)
  \/ /\ task.logged
     /\ \E ending \in EndTypes, ledger \in Ledgers :
          FinishTask(ending, LoggedUsage(ledger))

RejectOpenHands ==
  /\ reading = "reading"
  /\ task # NoTask
  /\ RaiseSchemaError
  /\ task' = NoTask
  /\ responses' = << >>

OpenHandsStep ==
  \/ \E usage \in ResponseUsages, tools \in SUBSET ToolIds :
       /\ Cardinality(tools) <= MaxCallTools
       /\ ReadCompletion(usage, tools) \/ ReadLoggedCompletion(usage, tools)
  \/ EndOpenHandsTask
  \/ RejectOpenHands
=============================================================================
