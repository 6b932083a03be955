-------------------------- MODULE MCTokenAccounting --------------------------
EXTENDS TokenAccounting, TLC

Usage(input, output, reported) ==
  [ input_tokens |-> input, output_tokens |-> output,
    reported_total_tokens |-> reported ]

(* Complete, complete but contradicting its reported total, and half       *)
(* missing: the output of the last is reported and must not be counted.    *)
MCUsages == { Usage(1, 2, 3), Usage(2, 0, 5), Usage(None, 1, None) }

PlainUsages == { Usage(1, 2, 3), Usage(None, 1, None) }

MCLocalCounts == {None, 1}

(* Unknown, and a count that one complete usage stays below and the usages *)
(* of two attempts exceed.                                                 *)
MCGenerated == {None, 3}

MCNoCounts == {None}

(* Identifiers are interchangeable, so calls are requested in order.  The  *)
(* tables do not keep the order in which attempts start, so attempts start *)
(* and end in order.                                                       *)
InOrder ==
  /\ \A i \in DOMAIN requests : requests[i].call = i
  /\ \A c \in CallIds :
       /\ starts[c] = 1..Cardinality(starts[c])
       /\ \A i \in DOMAIN terminals[c] : terminals[c][i].attempt = i

(* Two calls with everything but tools, the second without contradictions  *)
(* in its usage ... *)
Short ==
  /\ Len(requests) <= 2
  /\ \A i \in DOMAIN terminals[2] : terminals[2][i].usage \in PlainUsages
  /\ toolCounts = [completed_tool_calls |-> 0, failed_tool_calls |-> 0]

(* ... or as many calls as there are, of one attempt each, up to the end.  *)
Long ==
  /\ phase \in {"new", "open"}
  /\ checkpoints = << >>
  /\ \A i \in DOMAIN requests : requests[i].local = None
  /\ \A c \in CallIds :
       /\ starts[c] \subseteq {1}
       /\ \A i \in DOMAIN terminals[c] : terminals[c][i].usage \in PlainUsages

Shape == InOrder /\ (Short \/ Long)
=============================================================================
