------------------------------ MODULE Contracts ------------------------------
(***************************************************************************)
(* The data every other module of the event side shares: the usage a       *)
(* provider reports on an attempt terminal, and the value of a label.      *)
(* (contracts.py TokenUsage, dataset/labels.py LabelValue.)                *)
(*                                                                         *)
(* A missing Python value is the model value None.  It is not a number, so *)
(* "missing" can never be added up as zero by accident.                    *)
(***************************************************************************)
EXTENDS Integers, Sequences, FiniteSets

CONSTANTS
  CallIds,      (* logical_call_id values                                  *)
  AttemptIds,   (* attempt_id values, scoped by their call                 *)
  Usages,       (* the usage payloads that an attempt terminal may carry   *)
  LocalCounts,  (* request_tokens_local values a request may carry         *)
  None          (* an absent optional value                                *)

OptNat == Nat \cup {None}

TokenUsage == [ input_tokens          : OptNat,
                output_tokens         : OptNat,
                reported_total_tokens : OptNat ]

ASSUME ContractsAssumption ==
  /\ None \notin Nat
  /\ None \notin CallIds
  /\ Usages \subseteq TokenUsage
  /\ LocalCounts \subseteq OptNat

(* Both counts must be reported; a zero is a report, an absence is not. *)
IsComplete(usage) ==
  usage.input_tokens # None /\ usage.output_tokens # None

AccountedTotal(usage) == usage.input_tokens + usage.output_tokens

(* reported_total_matches is False: a total was reported and it disagrees. *)
TotalMismatch(usage) ==
  /\ IsComplete(usage)
  /\ usage.reported_total_tokens # None
  /\ usage.reported_total_tokens # AccountedTotal(usage)

-----------------------------------------------------------------------------
LabelStatus == {"observed", "missing", "censored", "invalid"}

LabelValue == [status : LabelStatus, value : OptNat]

Unavailable(status) == [status |-> status, value |-> None]

(* LabelValue.observed: a negative token count is no observation. *)
Observed(value) ==
  IF value < 0 THEN Unavailable("invalid")
               ELSE [status |-> "observed", value |-> value]

IsObserved(label) == label.status = "observed"
=============================================================================
