--------------------------- MODULE TrainingPromise ---------------------------
(***************************************************************************)
(* What resumable training promises: a durable epoch is never lost or      *)
(* repeated, folds are trained in order and each exactly to its stopping   *)
(* epoch, and the candidate is published once, when all of them are.       *)
(* There are no processes, crashes or files here.                          *)
(***************************************************************************)
EXTENDS EarlyStopping

CONSTANT NumFolds

VARIABLES loss, zero, trained, published

vars == <<loss, zero, trained, published>>

Folds == 0 .. NumFolds - 1

Finished(f) == StopsAt(loss[f], zero, trained[f])

Init ==
    /\ trained = [f \in Folds |-> 0]
    /\ published = FALSE

Train(f) ==
    /\ ~published
    /\ ~Finished(f)
    /\ \A g \in 0 .. f - 1 : Finished(g)
    /\ trained' = [trained EXCEPT ![f] = @ + 1]
    /\ UNCHANGED <<loss, zero, published>>

Publish ==
    /\ ~published
    /\ \A f \in Folds : Finished(f)
    /\ published' = TRUE
    /\ UNCHANGED <<loss, zero, trained>>

Next == Publish \/ \E f \in Folds : Train(f)

Spec == Init /\ [][Next]_vars
=============================================================================
