------------------------------- MODULE Labels -------------------------------
(***************************************************************************)
(* The label ledger (dataset/labels.py): what the finished event list says *)
(* about every call and about the rest of the task from every request on.  *)
(* The features see a prefix, the labels see the whole trajectory; both    *)
(* are computed from the same terminals and must tell the same story.      *)
(***************************************************************************)
EXTENDS Trajectory, FiniteSetsExt

(* _build_ledgers is a function of one call's started attempts and its     *)
(* terminal events in order.                                               *)
UsagesIn(events) == {events[i].usage : i \in DOMAIN events}

SumOver(events, indices, Amount(_)) ==
  SumFunction([i \in indices |-> Amount(events[i].usage)])

OutputOf(usage) == usage.output_tokens

(* The status chain; the first rule that fits. *)
LedgerStatus(started, events) ==
  IF started \ AttemptsOf(events) # {} THEN "censored"
  ELSE IF events = << >> THEN "missing"
  ELSE IF \E usage \in UsagesIn(events) : ~IsComplete(usage) THEN "missing"
  ELSE IF \E usage \in UsagesIn(events) : TotalMismatch(usage) THEN "invalid"
  ELSE "observed"

LedgerSum(started, events, Amount(_)) ==
  IF LedgerStatus(started, events) = "observed"
  THEN Observed(SumOver(events, DOMAIN events, Amount))
  ELSE Unavailable(LedgerStatus(started, events))

(* Failed attempts are billable: every terminal of the call counts. *)
LedgerTotal(started, events)  == LedgerSum(started, events, AccountedTotal)
LedgerOutput(started, events) == LedgerSum(started, events, OutputOf)

(* The output of the last API_COMPLETED; retries before it do not count. *)
LedgerFinalOutput(started, events) ==
  LET status     == LedgerStatus(started, events)
      successful == {i \in DOMAIN events : events[i].completed}
  IN IF status # "observed" THEN Unavailable(status)
     ELSE IF successful = {} THEN Unavailable("missing")
     ELSE Observed(OutputOf(events[Max(successful)].usage))

CallBillableTotal(c)   == LedgerTotal(starts[c], terminals[c])
CallBillableOutput(c)  == LedgerOutput(starts[c], terminals[c])
FinalResponseOutput(c) == LedgerFinalOutput(starts[c], terminals[c])

-----------------------------------------------------------------------------
(* build_prediction_labels, per request i. *)

TerminationStatus ==
  IF phase \in {"finished", "aborted_observed"} THEN "observed" ELSE "censored"

TaskRemaining(i) ==
  LET remaining   == i..Len(requests)
      total(j)    == CallBillableTotal(requests[j].call)
      unavailable == {j \in remaining : ~IsObserved(total(j))}
  IN IF TerminationStatus # "observed" THEN Unavailable(TerminationStatus)
     ELSE IF unavailable # {} THEN Unavailable(total(Min(unavailable)).status)
     ELSE Observed(SumFunction([j \in remaining |-> total(j).value]))

LessLocalCount(label, offset) ==
  IF ~IsObserved(label) THEN label
  ELSE IF offset = None THEN Unavailable("missing")
  ELSE Observed(label.value - offset)

TaskUnknownRemaining(i) == LessLocalCount(TaskRemaining(i), requests[i].local)

(* build_task_aggregate_label: the label of the task as a whole, read from *)
(* the usage its final event carries and from no call.                     *)
TaskAggregate(usage) ==
  IF TerminationStatus # "observed" THEN Unavailable(TerminationStatus)
  ELSE IF ~IsComplete(usage) THEN Unavailable("missing")
  ELSE IF TotalMismatch(usage) THEN Unavailable("invalid")
  ELSE Observed(AccountedTotal(usage))

-----------------------------------------------------------------------------
(* Mutant: every terminal after the checkpoint counts, also those of other *)
(* attempts that end before the checkpoint's own.                          *)
RemainingOutputOfAll(k) ==
  LET point  == checkpoints[k]
      events == terminals[point.call]
      future == (point.before + 1)..Len(events)
      usages == {events[i].usage : i \in future}
  IN IF point.generated = None THEN Unavailable("missing")
     ELSE IF \A i \in future : events[i].attempt # point.attempt
          THEN Unavailable("censored")
     ELSE IF \E usage \in usages : ~IsComplete(usage) THEN Unavailable("missing")
     ELSE IF \E usage \in usages : TotalMismatch(usage) THEN Unavailable("invalid")
     ELSE Observed(SumOver(events, future, OutputOf) - point.generated)

(* build_generation_labels, for the checkpoint at position k: the output   *)
(* still to come in this attempt and in the attempts of the call that end  *)
(* after it.                                                               *)
RemainingOutput(k) ==
  LET point    == checkpoints[k]
      events   == terminals[point.call]
      future   == (point.before + 1)..Len(events)
      current  == {i \in future : events[i].attempt = point.attempt}
      relevant == {i \in future : i >= Min(current)}
      usages   == {events[i].usage : i \in relevant}
  IN IF point.generated = None THEN Unavailable("missing")
     ELSE IF current = {} THEN Unavailable("censored")
     ELSE IF \E usage \in usages : ~IsComplete(usage) THEN Unavailable("missing")
     ELSE IF \E usage \in usages : TotalMismatch(usage) THEN Unavailable("invalid")
     ELSE Observed(SumOver(events, relevant, OutputOf) - point.generated)
=============================================================================
