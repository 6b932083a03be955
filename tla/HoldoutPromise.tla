--------------------------- MODULE HoldoutPromise ---------------------------
(***************************************************************************)
(* What the final holdout promises for one frozen selection, whatever      *)
(* processes, crashes and code versions are involved: one version opens    *)
(* it, the cells are scored one by one under that version, and the only    *)
(* artifact ever published is that version's, with every cell in it.  A    *)
(* caller is told of a result only after it was published.                 *)
(***************************************************************************)
CONSTANTS Versions, Cells, None

VARIABLES
  opened,     (* the version that opened the holdout, or None  *)
  scored,     (* the cells with a score on disk                *)
  published,  (* the version whose artifact is in place        *)
  reported    (* whether some caller has received a summary    *)

vars == <<opened, scored, published, reported>>

Init == opened = None /\ scored = {} /\ published = None /\ reported = FALSE

Open(v) ==
  /\ opened = None
  /\ opened' = v
  /\ UNCHANGED <<scored, published, reported>>

Score(c) ==
  /\ opened # None
  /\ published = None
  /\ scored' = scored \cup {c}
  /\ UNCHANGED <<opened, published, reported>>

Publish ==
  /\ opened # None
  /\ published = None
  /\ scored = Cells
  /\ published' = opened
  /\ UNCHANGED <<opened, scored, reported>>

Report ==
  /\ published # None
  /\ reported' = TRUE
  /\ UNCHANGED <<opened, scored, published>>

Next ==
  \/ \E v \in Versions : Open(v)
  \/ \E c \in Cells : Score(c)
  \/ Publish
  \/ Report

Spec == Init /\ [][Next]_vars
=============================================================================
