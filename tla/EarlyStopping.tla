---------------------------- MODULE EarlyStopping ----------------------------
(***************************************************************************)
(* What early stopping means, said about a whole loss curve instead of one *)
(* epoch at a time.  A curve maps an epoch to the validation loss of the   *)
(* weights after that many optimizer steps; point 0 is the untrained model.*)
(* The fit loops of estimators/mlp.py and estimators/gru.py are compared   *)
(* with these definitions; min_delta is 0.0, as in every frozen matrix.    *)
(***************************************************************************)
EXTENDS Integers, Sequences

CONSTANTS MaxEpochs, Patience, Infinity

ASSUME EarlyStoppingAssumption ==
    /\ MaxEpochs \in Nat \ {0}
    /\ Patience \in 1 .. MaxEpochs
    /\ Infinity \in Nat

(* The state of a fit: the epoch, the optimizer steps its current weights  *)
(* embody, the best epoch with its loss and weights, the epochs since then *)
(* and the validation losses.                                              *)
Best == [epoch : 0 .. MaxEpochs, loss : 0 .. Infinity, state : 0 .. MaxEpochs]
Fit == [epoch : 0 .. MaxEpochs, steps : 0 .. MaxEpochs, best : Best,
        stale : 0 .. MaxEpochs, history : Seq(Nat)]

(* The first epoch among 1..e at which the curve is lowest.                *)
IsFirstMin(curve, b, e) ==
    /\ b \in 1 .. e
    /\ \A i \in 1 .. e : curve[b] <= curve[i]
    /\ \A i \in 1 .. (b - 1) : curve[b] < curve[i]

(* A fit has to stop after epoch e.                                        *)
StopsAt(curve, zero, e) ==
    /\ e >= 1
    /\ \/ zero
       \/ e = MaxEpochs
       \/ \E b \in 1 .. e : IsFirstMin(curve, b, e) /\ e - b >= Patience

(* ... and had no reason to stop before.                                   *)
Reaches(curve, zero, e) == \A i \in 1 .. (e - 1) : ~StopsAt(curve, zero, i)

(* s is the state of a fit that has trained e epochs without interruption. *)
TrainedFit(curve, e, s) ==
    /\ s.epoch = e
    /\ s.steps = e
    /\ Len(s.history) = e
    /\ \A i \in 1 .. e : s.history[i] = curve[i]
    /\ s.stale = e - s.best.epoch
    /\ e = 0 => s.best.epoch = 0 /\ s.best.loss = Infinity
    /\ e > 0 => /\ IsFirstMin(curve, s.best.epoch, e)
               /\ s.best.loss = curve[s.best.epoch]
               /\ s.best.state = s.best.epoch

(* With a zero residual nothing is trained and the only epoch is a score.  *)
EvaluatedFit(curve, e, s) ==
    /\ s.epoch = e
    /\ s.steps = 0
    /\ Len(s.history) = e
    /\ e \in 0 .. 1
    /\ s.stale = 0
    /\ e = 1 => /\ s.history[1] = curve[0]
               /\ s.best = [epoch |-> 1, loss |-> curve[0], state |-> 0]

TrueFit(curve, zero, e, s) ==
    IF zero THEN EvaluatedFit(curve, e, s) ELSE TrainedFit(curve, e, s)

(* s is what an uninterrupted fit returns.                                 *)
CompleteFit(curve, zero, s) ==
    /\ Reaches(curve, zero, s.epoch)
    /\ StopsAt(curve, zero, s.epoch)
    /\ TrueFit(curve, zero, s.epoch, s)
=============================================================================
