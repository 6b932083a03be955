--------------------------- MODULE SessionPromise ---------------------------
(***************************************************************************)
(* What an online session promises: boundaries are answered in the order   *)
(* they became visible, one forecast each, and a session that lost step    *)
(* with its driver never answers again.                                    *)
(***************************************************************************)
EXTENDS Naturals, Sequences

CONSTANT Boundaries

VARIABLES answered, open

promiseVars == <<answered, open>>

LastAnswered == IF answered = << >> THEN 1 ELSE answered[Len(answered)]

PromiseInit == answered = << >> /\ open = TRUE

Answer ==
  /\ open
  /\ \E boundary \in Boundaries : /\ boundary > LastAnswered
                                  /\ answered' = Append(answered, boundary)
  /\ UNCHANGED open

Close == open /\ open' = FALSE /\ UNCHANGED answered

PromiseNext == Answer \/ Close

PromiseSpec == PromiseInit /\ [][PromiseNext]_promiseVars
=============================================================================
