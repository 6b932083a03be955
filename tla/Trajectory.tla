----------------------------- MODULE Trajectory -----------------------------
(***************************************************************************)
(* The grammar of one trajectory (trajectory.py validate_trajectory): the  *)
(* events that a validated trajectory may hold, in the order it may hold   *)
(* them.  One action per event type; its guard is the conjunction of the   *)
(* validator's checks for that type, so an event whose guard is false is   *)
(* one the validator raises on, and Refuse is the raise: a refused         *)
(* trajectory never reaches the reducer or the label builder.              *)
(*                                                                         *)
(* The variables are the validator's tables.  A call's terminals are kept  *)
(* in event order with their usage, which is what _build_ledgers groups    *)
(* the same events into.  event_id uniqueness and the event_seq order are  *)
(* the event store's and hold here because the model appends one event at  *)
(* a time.                                                                 *)
(***************************************************************************)
EXTENDS Contracts

CONSTANT GeneratedCounts  (* generated_tokens_so_far values of a checkpoint *)

ASSUME GeneratedAssumption == GeneratedCounts \subseteq OptNat

VARIABLES
  phase,        (* "new", "open", then one of the four ends                *)
  requests,     (* the REQUEST_BUILT events in order                       *)
  active,       (* active_call_id, None before the first request           *)
  starts,       (* call -> the attempts started in it                      *)
  terminals,    (* call -> its API_COMPLETED / API_FAILED events in order  *)
  checkpoints   (* the GENERATION_CHECKPOINT events in order               *)

trajectoryVars == <<phase, requests, active, starts, terminals, checkpoints>>

Ends == {"finished", "aborted_observed", "aborted_censored"}

Request    == [call : CallIds, local : OptNat]
Terminal   == [attempt : AttemptIds, completed : BOOLEAN, usage : Usages]
Checkpoint == [call : CallIds, attempt : AttemptIds, generated : OptNat,
               before : Nat]   (* terminals of the call already seen *)

TrajectoryTypeOK ==
  /\ phase \in {"new", "open", "refused"} \cup Ends
  /\ requests \in Seq(Request)
  /\ active \in CallIds \cup {None}
  /\ starts \in [CallIds -> SUBSET AttemptIds]
  /\ terminals \in [CallIds -> Seq(Terminal)]
  /\ checkpoints \in Seq(Checkpoint)

TrajectoryInit ==
  /\ phase = "new"
  /\ requests = << >>
  /\ active = None
  /\ starts = [c \in CallIds |-> {}]
  /\ terminals = [c \in CallIds |-> << >>]
  /\ checkpoints = << >>

-----------------------------------------------------------------------------
Requested(c) == \E i \in DOMAIN requests : requests[i].call = c

AttemptsOf(events) == {events[i].attempt : i \in DOMAIN events}

Terminated(c) == AttemptsOf(terminals[c])

(* Attempts of c that started and have no terminal yet. *)
Dangling(c) == starts[c] \ Terminated(c)

-----------------------------------------------------------------------------
(* Exactly one leading task_started. *)
TaskStarted ==
  /\ phase = "new"
  /\ phase' = "open"
  /\ UNCHANGED <<requests, active, starts, terminals, checkpoints>>

(* Mutant: the active call's open attempts are not looked at. *)
RequestBuiltAnyTime(c, local) ==
  /\ phase = "open"
  /\ ~Requested(c)
  /\ requests' = Append(requests, [call |-> c, local |-> local])
  /\ active' = c
  /\ UNCHANGED <<phase, starts, terminals, checkpoints>>

(* A call is requested once, and only when the active call has no attempt  *)
(* left open.                                                              *)
MayRequest(c) ==
  /\ phase = "open"
  /\ ~Requested(c)
  /\ active # None => Dangling(active) = {}

RequestBuilt(c, local) ==
  /\ MayRequest(c)
  /\ requests' = Append(requests, [call |-> c, local |-> local])
  /\ active' = c
  /\ UNCHANGED <<phase, starts, terminals, checkpoints>>

(* Mutant: any requested call may have further events. *)
RequestedBefore(c) ==
  /\ phase = "open"
  /\ Requested(c)

(* Events of a call other than its request are contiguous: they belong to  *)
(* the active call.                                                        *)
Contiguous(c) ==
  /\ phase = "open"
  /\ c = active

MayAttempt(c, a) == Contiguous(c) /\ a \notin starts[c]

IsOpen(c, a) == Contiguous(c) /\ a \in Dangling(c)

ApiAttemptStarted(c, a) ==
  /\ MayAttempt(c, a)
  /\ starts' = [starts EXCEPT ![c] = @ \cup {a}]
  /\ UNCHANGED <<phase, requests, active, terminals, checkpoints>>

GenerationCheckpoint(c, a, generated) ==
  /\ IsOpen(c, a)
  /\ checkpoints' = Append(checkpoints,
                           [call |-> c, attempt |-> a, generated |-> generated,
                            before |-> Len(terminals[c])])
  /\ UNCHANGED <<phase, requests, active, starts, terminals>>

(* API_COMPLETED and API_FAILED: one terminal per started attempt. *)
ApiTerminal(c, a, completed, usage) ==
  /\ IsOpen(c, a)
  /\ terminals' = [terminals EXCEPT ![c] =
                     Append(@, [attempt |-> a, completed |-> completed,
                                usage |-> usage])]
  /\ UNCHANGED <<phase, requests, active, starts, checkpoints>>

(* TOOL_STARTED, TOOL_COMPLETED and TOOL_FAILED change no table. *)
ToolEvent(c) ==
  /\ Contiguous(c)
  /\ UNCHANGED trajectoryVars

(* Mutant: a task may finish over open attempts. *)
TaskFinishedAnyTime ==
  /\ phase = "open"
  /\ phase' = "finished"
  /\ UNCHANGED <<requests, active, starts, terminals, checkpoints>>

(* A finished task leaves no attempt open; an aborted one may.  The abort  *)
(* reason decides whether the task's outcome counts as observed.           *)
MayFinish ==
  /\ phase = "open"
  /\ \A c \in CallIds : Dangling(c) = {}

TaskFinished ==
  /\ MayFinish
  /\ phase' = "finished"
  /\ UNCHANGED <<requests, active, starts, terminals, checkpoints>>

TaskAborted ==
  /\ phase = "open"
  /\ phase' \in {"aborted_observed", "aborted_censored"}
  /\ UNCHANGED <<requests, active, starts, terminals, checkpoints>>

(* TrajectoryValidationError: the sequence is truncated or its next event  *)
(* fails a check.  Every prefix has such a continuation (for instance a    *)
(* second task_started), so the guard is only that it has not ended.       *)
Refuse ==
  /\ phase \in {"new", "open"}
  /\ phase' = "refused"
  /\ UNCHANGED <<requests, active, starts, terminals, checkpoints>>
=============================================================================
