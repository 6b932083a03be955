----------------------- MODULE EpochCheckpointsProofs -----------------------
(***************************************************************************)
(* Proofs about EpochCheckpoints, for any number of runners, folds, epochs *)
(* and crashes and any loss curves: whatever is killed and restarted, and  *)
(* however many runners share the store, a generation on disk is the state *)
(* of an uninterrupted fit and the candidate its result.  A runner that    *)
(* has the store for itself never refuses what it finds and implements the *)
(* training of TrainingPromise.                                            *)
(***************************************************************************)
EXTENDS EpochCheckpoints, TLAPS

Curves == [0 .. MaxEpochs -> Losses]

(* Two first minima of a prefix are the same epoch.                        *)
LEMMA FirstMinUnique ==
    ASSUME NEW curve \in Curves, NEW e \in 0 .. MaxEpochs, NEW a, NEW b,
           IsFirstMin(curve, a, e), IsFirstMin(curve, b, e)
    PROVE  a = b
<1>1. a \in 1 .. e /\ b \in 1 .. e
  BY DEF IsFirstMin
<1>2. \A i \in 1 .. e : curve[i] \in Int
  BY EarlyStoppingAssumption, CheckpointAssumption DEF Curves
<1>3. CASE a < b
  BY <1>1, <1>2, <1>3, EarlyStoppingAssumption DEF IsFirstMin
<1>4. CASE b < a
  BY <1>1, <1>2, <1>4, EarlyStoppingAssumption DEF IsFirstMin
<1>5. CASE a = b
  BY <1>5
<1> QED
  BY <1>1, <1>3, <1>4, <1>5, EarlyStoppingAssumption

(* The first minimum after one more epoch: the new one if it is lower than *)
(* the old minimum, else the old one.                                      *)
LEMMA FirstMinGrows ==
    ASSUME NEW curve \in Curves, NEW e \in 1 .. MaxEpochs - 1, NEW b,
           IsFirstMin(curve, b, e)
    PROVE  /\ curve[e + 1] < curve[b] => IsFirstMin(curve, e + 1, e + 1)
           /\ ~(curve[e + 1] < curve[b]) => IsFirstMin(curve, b, e + 1)
<1>1. b \in 1 .. e /\ e \in Nat /\ MaxEpochs \in Nat
  BY EarlyStoppingAssumption DEF IsFirstMin
<1>2. \A i \in 1 .. e + 1 : curve[i] \in Int
  BY <1>1, EarlyStoppingAssumption, CheckpointAssumption DEF Curves
<1>3. \A i \in 1 .. e + 1 : i \in 1 .. e \/ i = e + 1
  BY <1>1
<1>4. ASSUME curve[e + 1] < curve[b] PROVE IsFirstMin(curve, e + 1, e + 1)
  <2>1. \A i \in 1 .. e : curve[e + 1] < curve[i]
    BY <1>1, <1>2, <1>4 DEF IsFirstMin
  <2>2. (e + 1) - 1 = e /\ e + 1 \in 1 .. e + 1
    BY <1>1
  <2>3. \A i \in 1 .. e + 1 : curve[e + 1] <= curve[i]
    BY <1>1, <1>2, <1>3, <2>1
  <2> QED
    BY <2>1, <2>2, <2>3 DEF IsFirstMin
<1>5. ASSUME ~(curve[e + 1] < curve[b]) PROVE IsFirstMin(curve, b, e + 1)
  <2>1. \A i \in 1 .. e + 1 : curve[b] <= curve[i]
    BY <1>1, <1>2, <1>3, <1>5 DEF IsFirstMin
  <2> QED
    BY <1>1, <2>1 DEF IsFirstMin
<1> QED
  BY <1>4, <1>5

(* One more epoch of a true fit is a true fit.                             *)
LEMMA AfterEpochIsTrue ==
    ASSUME NEW curve \in Curves, NEW e \in 0 .. MaxEpochs - 1, NEW s \in Fit,
           TrainedFit(curve, e, s)
    PROVE  /\ AfterEpoch(s, curve[s.steps + 1]) \in Fit
           /\ TrainedFit(curve, e + 1, AfterEpoch(s, curve[s.steps + 1]))
<1> DEFINE v == curve[e + 1]
<1> DEFINE t == AfterEpoch(s, v)
<1>1. e \in Nat /\ MaxEpochs \in Nat /\ e + 1 \in 0 .. MaxEpochs
  BY EarlyStoppingAssumption
<1>2. /\ s.epoch = e /\ s.steps = e /\ Len(s.history) = e /\ s.history \in Seq(Nat)
      /\ s.best \in Best /\ s.stale = e - s.best.epoch
  BY DEF TrainedFit, Fit
<1>3. v \in 0 .. Infinity - 1 /\ v \in Nat
  BY <1>1, EarlyStoppingAssumption, CheckpointAssumption DEF Curves
<1>4. /\ t.epoch = e + 1 /\ t.steps = e + 1 /\ t.history = Append(s.history, v)
      /\ Improves(s, v) => /\ t.best = [epoch |-> e + 1, loss |-> v, state |-> e + 1]
                           /\ t.stale = 0
      /\ ~Improves(s, v) => t.best = s.best /\ t.stale = s.stale + 1
  BY <1>2 DEF AfterEpoch
<1>5. /\ t.history \in Seq(Nat) /\ Len(t.history) = e + 1
      /\ \A i \in 1 .. e + 1 : t.history[i] = curve[i]
  <2>1. \A i \in 1 .. e : s.history[i] = curve[i]
    BY DEF TrainedFit
  <2>2. Append(s.history, v) \in Seq(Nat) /\ Len(Append(s.history, v)) = e + 1
    BY <1>2, <1>3
  <2>3. \A i \in 1 .. e : Append(s.history, v)[i] = s.history[i]
    BY <1>1, <1>2, <1>3
  <2>4. Append(s.history, v)[e + 1] = v
    BY <1>1, <1>2, <1>3
  <2>5. \A i \in 1 .. e + 1 : i \in 1 .. e \/ i = e + 1
    BY <1>1
  <2> QED
    BY <1>4, <2>1, <2>2, <2>3, <2>4, <2>5
<1>6. /\ t.best \in Best /\ t.stale = (e + 1) - t.best.epoch
      /\ t.stale \in 0 .. MaxEpochs
      /\ IsFirstMin(curve, t.best.epoch, e + 1)
      /\ t.best.loss = curve[t.best.epoch]
      /\ t.best.state = t.best.epoch
  <2>1. CASE e = 0
    <3>1. s.best.epoch = 0 /\ s.best.loss = Infinity
      BY <2>1 DEF TrainedFit
    <3>2. Improves(s, v)
      BY <1>3, <3>1, EarlyStoppingAssumption DEF Improves
    <3>3. t.best = [epoch |-> 1, loss |-> v, state |-> 1] /\ t.stale = 0
      BY <1>4, <2>1, <3>2
    <3>4. IsFirstMin(curve, 1, 1)
      BY <1>3, <2>1 DEF IsFirstMin
    <3>5. t.best \in Best
      BY <1>1, <1>3, <2>1, <3>3, EarlyStoppingAssumption DEF Best
    <3> QED
      BY <1>1, <2>1, <3>3, <3>4, <3>5
  <2>2. CASE e > 0
    <3>1. /\ IsFirstMin(curve, s.best.epoch, e)
          /\ s.best.loss = curve[s.best.epoch]
          /\ s.best.state = s.best.epoch
      BY <2>2 DEF TrainedFit
    <3>2. e \in 1 .. MaxEpochs - 1 /\ s.best.epoch \in 1 .. e
      BY <1>1, <2>2, <3>1 DEF IsFirstMin
    <3>3. CASE Improves(s, v)
      <4>1. /\ t.best = [epoch |-> e + 1, loss |-> v, state |-> e + 1]
            /\ t.stale = 0
        BY <1>4, <3>3
      <4>2. IsFirstMin(curve, e + 1, e + 1)
        BY <3>1, <3>2, <3>3, FirstMinGrows DEF Improves
      <4>3. t.best \in Best
        BY <1>1, <1>3, <4>1, EarlyStoppingAssumption DEF Best
      <4> QED
        BY <1>1, <4>1, <4>2, <4>3
    <3>4. CASE ~Improves(s, v)
      <4>1. t.best = s.best /\ t.stale = s.stale + 1
        BY <1>4, <3>4
      <4>2. IsFirstMin(curve, s.best.epoch, e + 1)
        BY <3>1, <3>2, <3>4, FirstMinGrows DEF Improves
      <4>3. s.best.epoch \in Nat /\ s.best.epoch > 0 /\ s.best.epoch <= e
        BY <1>1, <3>2
      <4> HIDE DEF t
      <4>4. /\ t.stale = (e + 1) - t.best.epoch
            /\ t.stale \in 0 .. MaxEpochs
        BY <1>1, <1>2, <4>1, <4>3, SMTT(30)
      <4> QED
        BY <1>2, <3>1, <4>1, <4>2, <4>4
    <3> QED
      BY <3>3, <3>4
  <2> QED
    BY <1>1, <2>1, <2>2
<1>7. AfterEpoch(s, curve[s.steps + 1]) = t
  BY <1>2
<1>8. t \in Fit
  <2>1. t = [epoch |-> t.epoch, steps |-> t.steps, best |-> t.best,
             stale |-> t.stale, history |-> t.history]
    BY DEF AfterEpoch
  <2> HIDE DEF t
  <2> QED
    BY <1>1, <1>4, <1>5, <1>6, <2>1 DEF Fit
<1>9. TrainedFit(curve, e + 1, t)
  <2> HIDE DEF t
  <2> QED
    BY <1>1, <1>4, <1>5, <1>6 DEF TrainedFit
<1> QED
  BY <1>7, <1>8, <1>9

(* The fit loop stops exactly where the loss curve says it has to.         *)
LEMMA FitEndsStops ==
    ASSUME NEW curve \in Curves, NEW s \in Fit, zero \in BOOLEAN,
           TrueFit(curve, zero, s.epoch, s)
    PROVE  FitEnds(s) <=> StopsAt(curve, zero, s.epoch)
<1> DEFINE e == s.epoch
<1>1. /\ e \in 0 .. MaxEpochs /\ MaxEpochs \in Nat \ {0} /\ Patience \in 1 .. MaxEpochs
      /\ s.best \in Best /\ s.best.epoch \in Nat
  BY EarlyStoppingAssumption DEF Fit, Best
<1>2. CASE e = 0
  <2>1. s.stale = 0
    <3>1. CASE zero
      BY <3>1 DEF TrueFit, EvaluatedFit
    <3>2. CASE ~zero
      BY <1>2, <3>2 DEF TrueFit, TrainedFit
    <3> QED
      BY <3>1, <3>2
  <2> QED
    BY <1>1, <1>2, <2>1 DEF FitEnds, StopsAt
<1>3. CASE e > 0 /\ zero
  BY <1>1, <1>3 DEF FitEnds, StopsAt
<1>4. CASE e > 0 /\ ~zero
  <2>1. IsFirstMin(curve, s.best.epoch, e) /\ s.stale = e - s.best.epoch
    BY <1>4 DEF TrueFit, TrainedFit
  <2>2. s.best.epoch \in 1 .. e
    BY <2>1 DEF IsFirstMin
  <2>3. ASSUME NEW b \in 1 .. e, IsFirstMin(curve, b, e) PROVE b = s.best.epoch
    BY <1>1, <2>1, <2>3, FirstMinUnique
  <2>4. (\E b \in 1 .. e : IsFirstMin(curve, b, e) /\ e - b >= Patience)
          <=> e - s.best.epoch >= Patience
    BY <2>1, <2>2, <2>3
  <2> QED
    BY <1>1, <1>4, <2>1, <2>4 DEF FitEnds, StopsAt
<1> QED
  BY <1>1, <1>2, <1>3, <1>4

LEMMA ReachesGrows ==
    ASSUME NEW curve, NEW z, NEW e \in Nat, Reaches(curve, z, e), ~StopsAt(curve, z, e)
    PROVE  Reaches(curve, z, e + 1)
<1>1. \A i \in 1 .. (e + 1) - 1 : i \in 1 .. e - 1 \/ i = e
  OBVIOUS
<1> QED
  BY <1>1 DEF Reaches

-----------------------------------------------------------------------------
(* The inductive invariant and what a step adds to it.                     *)

(* A fit in memory or on disk is one an uninterrupted fit goes through.    *)
FitTrue(f, s) ==
    /\ TrueFit(loss[f], zero, s.epoch, s)
    /\ Reaches(loss[f], zero, s.epoch)

(* What one runner knows: what it has listed and not yet verified, what it *)
(* has restored or trained, and the folds it has behind it.                *)
InFit == {"verify", "train", "find", "rename", "check", "sweep", "remove"}

FoldComplete(r, f) == fits[r][f] \in Fit /\ CompleteFit(loss[f], zero, fits[r][f])

RunnerIsTrue(r) ==
    /\ pc[r] = "verify" => \A g \in pending[r] : GenerationIsTrue(fold[r], g)
    /\ pc[r] \in InFit => FitTrue(fold[r], fit[r])
    /\ pc[r] \in {"find", "rename"} => fit[r].epoch > 0
    /\ pc[r] \in InFit \cup {"list"} => \A f \in 0 .. fold[r] - 1 : FoldComplete(r, f)
    /\ pc[r] \in {"save", "place"} => \A f \in Folds : FoldComplete(r, f)

(* The inductive invariant.  Truth on disk rests on truth in memory, which *)
(* rests on what was read from disk while others were writing it.          *)
Inv ==
    /\ TypeOK
    /\ GenerationsAreTrue
    /\ ResumeIsTransparent
    /\ \A r \in Runners : RunnerIsTrue(r)

(* A fit that has not started is true.                                     *)
LEMMA FreshFitIsTrue ==
    ASSUME TypeOK, NEW f \in Folds
    PROVE  FreshFit \in Fit /\ FreshFit.epoch = 0 /\ FitTrue(f, FreshFit)
<1>1. /\ MaxEpochs \in Nat \ {0} /\ Infinity \in Nat
      /\ FreshFit = [epoch |-> 0, steps |-> 0, best |-> NoBest, stale |-> 0, history |-> <<>>]
      /\ NoBest = [epoch |-> 0, loss |-> Infinity, state |-> 0]
  BY EarlyStoppingAssumption DEF FreshFit, NoBest
<1>2. NoBest \in Best
  BY <1>1 DEF Best
<1>3. << >> \in Seq(Nat) /\ Len(<< >>) = 0
  OBVIOUS
<1>4. FreshFit \in Fit
  BY <1>1, <1>2, <1>3 DEF Fit
<1>5. TrainedFit(loss[f], 0, FreshFit) /\ EvaluatedFit(loss[f], 0, FreshFit)
  BY <1>1, <1>3 DEF TrainedFit, EvaluatedFit
<1>6. Reaches(loss[f], zero, 0)
  BY DEF Reaches
<1> QED
  BY <1>1, <1>4, <1>5, <1>6 DEF FitTrue, TrueFit

(* The epoch TrainEpoch adds: one more trained epoch, or the score of the  *)
(* untrained model.                                                        *)
LEMMA EpochIsTrue ==
    ASSUME TypeOK, NEW f \in Folds, NEW s \in Fit, FitTrue(f, s), ~FitEnds(s),
           NEW t, t = IF zero THEN Evaluated(loss[f][0])
                              ELSE AfterEpoch(s, loss[f][s.steps + 1])
    PROVE  t \in Fit /\ t.epoch > 0 /\ FitTrue(f, t)
<1>1. /\ loss[f] \in Curves /\ zero \in BOOLEAN /\ MaxEpochs \in Nat \ {0}
      /\ s.epoch \in 0 .. MaxEpochs /\ Infinity \in Nat
      /\ TrueFit(loss[f], zero, s.epoch, s)
  BY EarlyStoppingAssumption DEF TypeOK, Curves, Fit, FitTrue
<1>2. s.epoch \in 0 .. MaxEpochs - 1
  BY <1>1 DEF FitEnds
<1>3. Reaches(loss[f], zero, s.epoch + 1)
  <2>1. ~StopsAt(loss[f], zero, s.epoch)
    BY <1>1, FitEndsStops
  <2> QED
    BY <1>1, <2>1, ReachesGrows DEF FitTrue
<1>4. CASE zero
  <2>1. s.epoch = 0
    BY <1>1, <1>4 DEF FitEnds
  <2> DEFINE v == loss[f][0]
  <2> DEFINE b == [epoch |-> 1, loss |-> v, state |-> 0]
  <2> DEFINE h == <<v>>
  <2>2. v \in 0 .. Infinity /\ v \in Nat
    BY <1>1, CheckpointAssumption DEF Curves
  <2>3. t = [epoch |-> 1, steps |-> 0, best |-> b, stale |-> 0, history |-> h]
    BY <1>4 DEF Evaluated
  <2>4. h \in Seq(Nat) /\ Len(h) = 1 /\ h[1] = v
    BY <2>2
  <2>5. b \in Best
    BY <1>1, <2>2 DEF Best
  <2>6. t \in Fit
    <3> HIDE DEF v, b, h
    <3>1. 1 \in 0 .. MaxEpochs /\ 0 \in 0 .. MaxEpochs
      BY <1>1
    <3> QED
      BY <2>3, <2>4, <2>5, <3>1 DEF Fit
  <2>7. t.epoch = 1 /\ EvaluatedFit(loss[f], 1, t)
    <3>1. /\ t.epoch = 1 /\ t.steps = 0 /\ t.stale = 0
          /\ t.history = h /\ t.best = b
      BY <2>3
    <3>2. Len(t.history) = 1 /\ t.history[1] = v
      BY <2>4, <3>1
    <3> QED
      BY <3>1, <3>2 DEF EvaluatedFit
  <2> QED
    <3> HIDE DEF v, b, h
    <3>1. Reaches(loss[f], zero, t.epoch)
      BY <1>3, <2>1, <2>7
    <3>2. TrueFit(loss[f], zero, t.epoch, t)
      BY <1>4, <2>7 DEF TrueFit
    <3> QED
      BY <2>6, <2>7, <3>1, <3>2 DEF FitTrue
<1>5. CASE ~zero
  <2>1. TrainedFit(loss[f], s.epoch, s)
    BY <1>1, <1>5 DEF TrueFit
  <2>2. t \in Fit /\ TrainedFit(loss[f], s.epoch + 1, t)
    BY <1>1, <1>2, <1>5, <2>1, AfterEpochIsTrue
  <2>3. t.epoch = s.epoch + 1
    BY <2>2 DEF TrainedFit
  <2> QED
    BY <1>1, <1>3, <1>5, <2>2, <2>3 DEF FitTrue, TrueFit
<1> QED
  BY <1>4, <1>5

-----------------------------------------------------------------------------
(* Every step preserves the invariant.                                     *)

(* A step of r leaves the memory of the other runners alone.               *)
OthersUnchanged(r) ==
    \A q \in Runners \ {r} :
        /\ pc'[q] = pc[q] /\ fold'[q] = fold[q] /\ fit'[q] = fit[q]
        /\ pending'[q] = pending[q] /\ fits'[q] = fits[q]

LEMMA StepOfOne ==
    ASSUME Inv, NEW r \in Runners, UNCHANGED <<loss, zero>>, OthersUnchanged(r),
           TypeOK', GenerationsAreTrue', ResumeIsTransparent', RunnerIsTrue(r)'
    PROVE  Inv'
<1>1. ASSUME NEW q \in Runners \ {r} PROVE RunnerIsTrue(q)'
  <2>1. RunnerIsTrue(q)
    BY DEF Inv
  <2>2. /\ pc'[q] = pc[q] /\ fold'[q] = fold[q] /\ fit'[q] = fit[q]
        /\ pending'[q] = pending[q] /\ fits'[q] = fits[q]
    BY DEF OthersUnchanged
  <2> QED
    BY <2>1, <2>2 DEF RunnerIsTrue, GenerationIsTrue, FitTrue, FoldComplete, Folds
<1> QED
  BY <1>1 DEF Inv

(* A run that ends, for whatever reason, leaves only the disk behind.      *)
LEMMA LeaveKeepsInv ==
    ASSUME Inv, NEW r \in Runners, NEW how \in {"none", "returned", "raised", "crashed"},
           Leave(r, how), UNCHANGED <<loss, zero, gens, candidate>>,
           crashes' \in 0 .. MaxCrashes
    PROVE  Inv'
<1>1. TypeOK
  BY DEF Inv
<1>2. pc' \in [Runners -> Labels] /\ pc'[r] = "idle"
  BY <1>1 DEF Leave, GoTo, TypeOK, Labels
<1>3. outcome' \in [Runners -> {"none", "returned", "raised", "crashed"}]
  BY <1>1 DEF Leave, TypeOK
<1>4. TypeOK'
  BY <1>1, <1>2, <1>3 DEF Leave, TypeOK
<1>5. OthersUnchanged(r)
  BY <1>1 DEF OthersUnchanged, Leave, GoTo, TypeOK
<1>6. GenerationsAreTrue' /\ ResumeIsTransparent'
  BY DEF Inv, GenerationsAreTrue, GenerationIsTrue, ResumeIsTransparent
<1>7. RunnerIsTrue(r)'
  BY <1>2 DEF RunnerIsTrue, InFit
<1> QED
  BY <1>4, <1>5, <1>6, <1>7, StepOfOne

(* A step that only moves r on, to a place where no more is asked of it.   *)
LEMMA GoToKeepsInv ==
    ASSUME Inv, NEW r \in Runners, NEW label \in Labels, GoTo(r, label),
           UNCHANGED <<loss, zero, gens, candidate, fold, fit, pending, fits>>,
           outcome' \in [Runners -> {"none", "returned", "raised", "crashed"}],
           crashes' = crashes, RunnerIsTrue(r)'
    PROVE  Inv'
<1>1. TypeOK
  BY DEF Inv
<1>2. pc' \in [Runners -> Labels]
  BY <1>1 DEF GoTo, TypeOK
<1>3. TypeOK'
  BY <1>1, <1>2 DEF TypeOK
<1>4. OthersUnchanged(r)
  BY <1>1 DEF OthersUnchanged, GoTo, TypeOK
<1>5. GenerationsAreTrue' /\ ResumeIsTransparent'
  BY DEF Inv, GenerationsAreTrue, GenerationIsTrue, ResumeIsTransparent
<1> QED
  BY <1>3, <1>4, <1>5, StepOfOne

LEMMA StartKeepsInv ==
    ASSUME Inv, NEW r \in Runners, Start(r), UNCHANGED <<loss, zero, crashes>>
    PROVE  Inv'
<1>1. outcome' \in [Runners -> {"none", "returned", "raised", "crashed"}]
  BY DEF Inv, TypeOK, Start
<1>2. RunnerIsTrue(r)'
  BY DEF Inv, TypeOK, Start, GoTo, RunnerIsTrue, InFit
<1> QED
  BY <1>1, <1>2, GoToKeepsInv DEF Start, Labels

LEMMA LookUpCandidateKeepsInv ==
    ASSUME Inv, NEW r \in Runners, LookUpCandidate(r), UNCHANGED <<loss, zero, crashes>>
    PROVE  Inv'
<1>1. TypeOK /\ crashes' \in 0 .. MaxCrashes
  BY DEF Inv, TypeOK
<1>2. CASE Leave(r, "returned")
  BY <1>1, <1>2, LeaveKeepsInv DEF LookUpCandidate, disk
<1>3. CASE /\ GoTo(r, "list")
           /\ fold' = [fold EXCEPT ![r] = 0]
           /\ fits' = [fits EXCEPT ![r] = [f \in Folds |-> None]]
           /\ UNCHANGED <<fit, pending, outcome>>
  <2>1. UNCHANGED <<gens, candidate, fit, pending, outcome>>
    BY <1>3 DEF LookUpCandidate, disk
  <2>2. pc' \in [Runners -> Labels] /\ pc'[r] = "list"
    BY <1>1, <1>3 DEF GoTo, TypeOK, Labels
  <2>3. fold' \in [Runners -> Folds] /\ fold'[r] = 0
    BY <1>1, <1>3, CheckpointAssumption DEF TypeOK, Folds
  <2>4. fits' \in [Runners -> MaybeFits]
    BY <1>1, <1>3 DEF TypeOK, MaybeFits
  <2>5. TypeOK'
    BY <1>1, <2>1, <2>2, <2>3, <2>4 DEF TypeOK
  <2>6. OthersUnchanged(r)
    BY <1>1, <1>3, <2>1 DEF OthersUnchanged, GoTo, TypeOK
  <2>7. GenerationsAreTrue' /\ ResumeIsTransparent'
    BY <2>1 DEF Inv, GenerationsAreTrue, GenerationIsTrue, ResumeIsTransparent
  <2>8. \A f \in 0 .. fold'[r] - 1 : FALSE
    BY <2>3
  <2>9. RunnerIsTrue(r)'
    BY <2>2, <2>8 DEF RunnerIsTrue, InFit
  <2> QED
    BY <2>5, <2>6, <2>7, <2>9, StepOfOne
<1> QED
  BY <1>2, <1>3 DEF LookUpCandidate

LEMMA ListGenerationsKeepsInv ==
    ASSUME Inv, NEW r \in Runners, ListGenerations(r), UNCHANGED <<loss, zero, crashes>>
    PROVE  Inv'
<1>1. TypeOK /\ crashes' \in 0 .. MaxCrashes
  BY DEF Inv, TypeOK
<1>2. /\ UNCHANGED <<gens, candidate, fold, fits, outcome>>
      /\ pc[r] = "list" /\ GoTo(r, "verify")
      /\ pending' = [pending EXCEPT ![r] = gens[fold[r]]]
      /\ fit' = [fit EXCEPT ![r] = FreshFit]
  BY DEF ListGenerations
<1>3. fold[r] \in Folds /\ gens[fold[r]] \in SUBSET Fit
  BY <1>1 DEF TypeOK
<1>4. FreshFit \in Fit /\ FitTrue(fold[r], FreshFit)
  BY <1>1, <1>3, FreshFitIsTrue
<1>5. pc' \in [Runners -> Labels] /\ pc'[r] = "verify"
  BY <1>1, <1>2 DEF GoTo, TypeOK, Labels
<1>6. pending' \in [Runners -> SUBSET Fit] /\ pending'[r] = gens[fold[r]]
  BY <1>1, <1>2, <1>3 DEF TypeOK
<1>7. fit' \in [Runners -> Fit] /\ fit'[r] = FreshFit
  BY <1>1, <1>2, <1>4 DEF TypeOK
<1>8. TypeOK'
  BY <1>1, <1>2, <1>5, <1>6, <1>7 DEF TypeOK
<1>9. OthersUnchanged(r)
  BY <1>1, <1>2 DEF OthersUnchanged, GoTo, TypeOK
<1>10. GenerationsAreTrue' /\ ResumeIsTransparent'
  BY <1>2 DEF Inv, GenerationsAreTrue, GenerationIsTrue, ResumeIsTransparent
<1>11. RunnerIsTrue(r)'
  <2>1. \A g \in pending'[r] : GenerationIsTrue(fold[r], g)
    BY <1>3, <1>6 DEF Inv, GenerationsAreTrue
  <2>2. \A f \in 0 .. fold[r] - 1 : FoldComplete(r, f)
    BY <1>2 DEF Inv, RunnerIsTrue
  <2> QED
    BY <1>2, <1>4, <1>5, <1>7, <2>1, <2>2
       DEF RunnerIsTrue, InFit, GenerationIsTrue, FitTrue, FoldComplete
<1> QED
  BY <1>8, <1>9, <1>10, <1>11, StepOfOne

LEMMA VerifyGenerationKeepsInv ==
    ASSUME Inv, NEW r \in Runners, VerifyGeneration(r), UNCHANGED <<loss, zero, crashes>>
    PROVE  Inv'
<1>1. TypeOK /\ crashes' \in 0 .. MaxCrashes
  BY DEF Inv, TypeOK
<1>2. CASE Fail(r)
  BY <1>1, <1>2, LeaveKeepsInv DEF Fail, disk
<1>3. ASSUME NEW g \in pending[r],
             fit' = [fit EXCEPT ![r] = g],
             pending' = [pending EXCEPT ![r] = @ \ {g}],
             UNCHANGED <<gens, candidate, pc, fold, fits, outcome>>
      PROVE  Inv'
  <2>1. g \in Fit /\ FitTrue(fold[r], g)
    BY <1>1 DEF VerifyGeneration, Inv, RunnerIsTrue, TypeOK, GenerationIsTrue, FitTrue
  <2>2. fit' \in [Runners -> Fit] /\ fit'[r] = g
    BY <1>1, <1>3, <2>1 DEF TypeOK
  <2>3. pending' \in [Runners -> SUBSET Fit] /\ pending'[r] \subseteq pending[r]
    BY <1>1, <1>3 DEF TypeOK
  <2>4. TypeOK'
    BY <1>1, <1>3, <2>2, <2>3 DEF TypeOK
  <2>5. OthersUnchanged(r)
    BY <1>1, <1>3 DEF OthersUnchanged, TypeOK
  <2>6. GenerationsAreTrue' /\ ResumeIsTransparent'
    BY <1>3 DEF Inv, GenerationsAreTrue, GenerationIsTrue, ResumeIsTransparent
  <2>7. RunnerIsTrue(r)'
    BY <1>3, <2>1, <2>2, <2>3
       DEF VerifyGeneration, Inv, RunnerIsTrue, InFit, GenerationIsTrue, FitTrue, FoldComplete
  <2> QED
    BY <2>4, <2>5, <2>6, <2>7, StepOfOne
<1> QED
  BY <1>2, <1>3 DEF VerifyGeneration

LEMMA ReadGenerationKeepsInv ==
    ASSUME Inv, NEW r \in Runners, ReadGeneration(r), UNCHANGED <<loss, zero, crashes>>
    PROVE  Inv'
<1>1. TypeOK /\ crashes' \in 0 .. MaxCrashes
  BY DEF Inv, TypeOK
<1>2. CASE Fail(r)
  BY <1>1, <1>2, LeaveKeepsInv DEF Fail, disk
<1>3. CASE /\ GoTo(r, "train")
           /\ UNCHANGED <<gens, candidate, fold, fit, pending, fits, outcome>>
  <2>1. RunnerIsTrue(r)'
    BY <1>1, <1>3 DEF ReadGeneration, GoTo, Inv, TypeOK, RunnerIsTrue, InFit, FitTrue,
                      FoldComplete
  <2> QED
    BY <1>1, <1>3, <2>1, GoToKeepsInv DEF TypeOK, Labels
<1> QED
  BY <1>2, <1>3 DEF ReadGeneration

LEMMA TrainEpochKeepsInv ==
    ASSUME Inv, NEW r \in Runners, TrainEpoch(r), UNCHANGED <<loss, zero, crashes>>
    PROVE  Inv'
<1>1. TypeOK /\ crashes' \in 0 .. MaxCrashes
  BY DEF Inv, TypeOK
<1> DEFINE s == IF zero THEN Evaluated(loss[fold[r]][0])
                     ELSE AfterEpoch(fit[r], loss[fold[r]][fit[r].steps + 1])
<1>2. CASE ~WellFormed(s)
  <2>1. Fail(r)
    BY <1>2 DEF TrainEpoch
  <2> QED
    BY <1>1, <2>1, LeaveKeepsInv DEF Fail, disk
<1>3. CASE WellFormed(s)
  <2>1. /\ pc[r] = "train" /\ GoTo(r, "find") /\ fit' = [fit EXCEPT ![r] = s]
        /\ UNCHANGED <<gens, candidate, fold, pending, fits, outcome>>
        /\ ~FitEnds(fit[r])
    BY <1>3 DEF TrainEpoch
  <2>2. fit[r] \in Fit /\ fold[r] \in Folds /\ FitTrue(fold[r], fit[r])
    BY <1>1, <2>1 DEF Inv, TypeOK, RunnerIsTrue, InFit
  <2>3. s \in Fit /\ s.epoch > 0 /\ FitTrue(fold[r], s)
    BY <1>1, <2>1, <2>2, EpochIsTrue
  <2> HIDE DEF s
  <2>4. pc' \in [Runners -> Labels] /\ pc'[r] = "find"
    BY <1>1, <2>1 DEF GoTo, TypeOK, Labels
  <2>5. fit' \in [Runners -> Fit] /\ fit'[r] = s
    BY <1>1, <2>1, <2>3 DEF TypeOK
  <2>6. TypeOK'
    BY <1>1, <2>1, <2>4, <2>5 DEF TypeOK
  <2>7. OthersUnchanged(r)
    BY <1>1, <2>1 DEF OthersUnchanged, GoTo, TypeOK
  <2>8. GenerationsAreTrue' /\ ResumeIsTransparent'
    BY <2>1 DEF Inv, GenerationsAreTrue, GenerationIsTrue, ResumeIsTransparent
  <2>9. FitTrue(fold[r], fit[r])'
    BY <2>1, <2>3, <2>5 DEF FitTrue
  <2>10. RunnerIsTrue(r)'
    BY <2>1, <2>3, <2>4, <2>5, <2>9 DEF Inv, RunnerIsTrue, InFit, FoldComplete
  <2> QED
    BY <2>6, <2>7, <2>8, <2>10, StepOfOne
<1> QED
  BY <1>2, <1>3

LEMMA FindGenerationKeepsInv ==
    ASSUME Inv, NEW r \in Runners, FindGeneration(r), UNCHANGED <<loss, zero, crashes>>
    PROVE  Inv'
<1> DEFINE label == IF fit[r] \in gens[fold[r]] THEN "check" ELSE "rename"
<1>1. TypeOK /\ crashes' \in 0 .. MaxCrashes
  BY DEF Inv, TypeOK
<1>2. RunnerIsTrue(r)'
  BY <1>1 DEF FindGeneration, GoTo, Inv, TypeOK, RunnerIsTrue, InFit, FitTrue, FoldComplete
<1>3. label \in Labels /\ GoTo(r, label)
  BY DEF FindGeneration, Labels
<1> QED
  BY <1>1, <1>2, <1>3, GoToKeepsInv DEF FindGeneration, TypeOK

LEMMA PublishGenerationKeepsInv ==
    ASSUME Inv, NEW r \in Runners, PublishGeneration(r), UNCHANGED <<loss, zero, crashes>>
    PROVE  Inv'
<1>1. TypeOK /\ crashes' \in 0 .. MaxCrashes
  BY DEF Inv, TypeOK
<1>2. CASE Fail(r)
  BY <1>1, <1>2, LeaveKeepsInv DEF Fail, disk
<1>3. CASE ~Fail(r)
  <2>2. /\ pc[r] = "rename" /\ GoTo(r, "check")
        /\ gens' = [gens EXCEPT ![fold[r]] = @ \cup {fit[r]}]
        /\ UNCHANGED <<candidate, fold, fit, pending, fits, outcome>>
    BY <1>3 DEF PublishGeneration
  <2>3. /\ fit[r] \in Fit /\ fold[r] \in Folds
        /\ FitTrue(fold[r], fit[r]) /\ fit[r].epoch > 0
    BY <1>1, <2>2 DEF Inv, TypeOK, RunnerIsTrue, InFit
  <2>4. pc' \in [Runners -> Labels] /\ pc'[r] = "check"
    BY <1>1, <2>2 DEF GoTo, TypeOK, Labels
  <2>5. gens' \in [Folds -> SUBSET Fit]
    BY <1>1, <2>2, <2>3 DEF TypeOK
  <2>6. TypeOK'
    BY <1>1, <2>2, <2>4, <2>5 DEF TypeOK
  <2>7. OthersUnchanged(r)
    BY <1>1, <2>2 DEF OthersUnchanged, GoTo, TypeOK
  <2>8. GenerationsAreTrue'
    <3>1. ASSUME NEW f \in Folds, NEW g \in gens'[f] PROVE GenerationIsTrue(f, g)
      <4>1. g \in gens[f] \/ (f = fold[r] /\ g = fit[r])
        BY <1>1, <2>2 DEF TypeOK
      <4>2. CASE g \in gens[f]
        BY <4>2 DEF Inv, GenerationsAreTrue
      <4>3. CASE f = fold[r] /\ g = fit[r]
        BY <2>3, <4>3 DEF GenerationIsTrue, FitTrue
      <4> QED
        BY <4>1, <4>2, <4>3
    <3> QED
      BY <3>1 DEF GenerationsAreTrue, GenerationIsTrue
  <2>9. ResumeIsTransparent'
    BY <2>2 DEF Inv, ResumeIsTransparent
  <2>10. RunnerIsTrue(r)'
    BY <2>2, <2>3, <2>4 DEF Inv, RunnerIsTrue, InFit, FitTrue, FoldComplete
  <2> QED
    BY <2>6, <2>7, <2>8, <2>9, <2>10, StepOfOne
<1> QED
  BY <1>2, <1>3

LEMMA CheckGenerationKeepsInv ==
    ASSUME Inv, NEW r \in Runners, CheckGeneration(r), UNCHANGED <<loss, zero, crashes>>
    PROVE  Inv'
<1>1. TypeOK /\ crashes' \in 0 .. MaxCrashes
  BY DEF Inv, TypeOK
<1>2. CASE Fail(r)
  BY <1>1, <1>2, LeaveKeepsInv DEF Fail, disk
<1>3. CASE /\ GoTo(r, "sweep")
           /\ UNCHANGED <<gens, candidate, fold, fit, pending, fits, outcome>>
  <2>1. RunnerIsTrue(r)'
    BY <1>1, <1>3 DEF CheckGeneration, GoTo, Inv, TypeOK, RunnerIsTrue, InFit, FitTrue,
                      FoldComplete
  <2> QED
    BY <1>1, <1>3, <2>1, GoToKeepsInv DEF TypeOK, Labels
<1> QED
  BY <1>2, <1>3 DEF CheckGeneration

LEMMA ListObsoleteKeepsInv ==
    ASSUME Inv, NEW r \in Runners, ListObsolete(r), UNCHANGED <<loss, zero, crashes>>
    PROVE  Inv'
<1>1. TypeOK /\ crashes' \in 0 .. MaxCrashes
  BY DEF Inv, TypeOK
<1>2. /\ pc[r] = "sweep" /\ GoTo(r, "remove")
      /\ pending' = [pending EXCEPT ![r] = gens[fold[r]] \ {fit[r]}]
      /\ UNCHANGED <<gens, candidate, fold, fit, fits, outcome>>
  BY DEF ListObsolete
<1>3. pc' \in [Runners -> Labels] /\ pc'[r] = "remove"
  BY <1>1, <1>2 DEF GoTo, TypeOK, Labels
<1>4. gens[fold[r]] \in SUBSET Fit
  BY <1>1 DEF TypeOK
<1>5. pending' \in [Runners -> SUBSET Fit]
  BY <1>1, <1>2, <1>4 DEF TypeOK
<1>6. TypeOK'
  BY <1>1, <1>2, <1>3, <1>5 DEF TypeOK
<1>7. OthersUnchanged(r)
  BY <1>1, <1>2 DEF OthersUnchanged, GoTo, TypeOK
<1>8. GenerationsAreTrue' /\ ResumeIsTransparent'
  BY <1>2 DEF Inv, GenerationsAreTrue, GenerationIsTrue, ResumeIsTransparent
<1>9. RunnerIsTrue(r)'
  BY <1>2, <1>3 DEF Inv, RunnerIsTrue, InFit, FitTrue, FoldComplete
<1> QED
  BY <1>6, <1>7, <1>8, <1>9, StepOfOne

LEMMA RemoveObsoleteKeepsInv ==
    ASSUME Inv, NEW r \in Runners, RemoveObsolete(r), UNCHANGED <<loss, zero, crashes>>
    PROVE  Inv'
<1>1. TypeOK /\ crashes' \in 0 .. MaxCrashes
  BY DEF Inv, TypeOK
<1>2. CASE Fail(r)
  BY <1>1, <1>2, LeaveKeepsInv DEF Fail, disk
<1>3. ASSUME NEW g \in pending[r],
             gens' = [gens EXCEPT ![fold[r]] = @ \ {g}],
             pending' = [pending EXCEPT ![r] = @ \ {g}],
             UNCHANGED <<candidate, pc, fold, fit, fits, outcome>>
      PROVE  Inv'
  <2>1. pc[r] = "remove"
    BY DEF RemoveObsolete
  <2>2. /\ gens' \in [Folds -> SUBSET Fit]
        /\ \A f \in Folds : gens'[f] \subseteq gens[f]
    BY <1>1, <1>3 DEF TypeOK
  <2>3. pending' \in [Runners -> SUBSET Fit]
    BY <1>1, <1>3 DEF TypeOK
  <2>4. TypeOK'
    BY <1>1, <1>3, <2>2, <2>3 DEF TypeOK
  <2>5. OthersUnchanged(r)
    BY <1>1, <1>3 DEF OthersUnchanged, TypeOK
  <2>6. GenerationsAreTrue'
    BY <2>2 DEF Inv, GenerationsAreTrue, GenerationIsTrue
  <2>7. ResumeIsTransparent'
    BY <1>3 DEF Inv, ResumeIsTransparent
  <2>8. RunnerIsTrue(r)'
    BY <1>3, <2>1 DEF Inv, RunnerIsTrue, InFit, FitTrue, FoldComplete
  <2> QED
    BY <2>4, <2>5, <2>6, <2>7, <2>8, StepOfOne
<1> QED
  BY <1>2, <1>3 DEF RemoveObsolete

LEMMA EpochSavedKeepsInv ==
    ASSUME Inv, NEW r \in Runners, EpochSaved(r), UNCHANGED <<loss, zero, crashes>>
    PROVE  Inv'
<1>1. TypeOK /\ crashes' \in 0 .. MaxCrashes
  BY DEF Inv, TypeOK
<1>2. RunnerIsTrue(r)'
  BY <1>1 DEF EpochSaved, GoTo, Inv, TypeOK, RunnerIsTrue, InFit, FitTrue, FoldComplete
<1> QED
  BY <1>1, <1>2, GoToKeepsInv DEF EpochSaved, TypeOK, Labels

LEMMA FinishFoldKeepsInv ==
    ASSUME Inv, NEW r \in Runners, FinishFold(r), UNCHANGED <<loss, zero, crashes>>
    PROVE  Inv'
<1>1. TypeOK /\ crashes' \in 0 .. MaxCrashes
  BY DEF Inv, TypeOK
<1>2. /\ pc[r] = "train" /\ FitEnds(fit[r])
      /\ fits' = [fits EXCEPT ![r] = [@ EXCEPT ![fold[r]] = fit[r]]]
      /\ UNCHANGED <<gens, candidate, fit, pending, outcome>>
  BY DEF FinishFold
<1>3. /\ fit[r] \in Fit /\ fold[r] \in Folds /\ FitTrue(fold[r], fit[r])
      /\ zero \in BOOLEAN /\ loss[fold[r]] \in Curves /\ NumFolds \in Nat
  BY <1>1, <1>2, CheckpointAssumption DEF Inv, TypeOK, RunnerIsTrue, InFit, Curves
<1>4. CompleteFit(loss[fold[r]], zero, fit[r])
  BY <1>2, <1>3, FitEndsStops DEF FitTrue, CompleteFit
<1>5. /\ fits' \in [Runners -> MaybeFits]
      /\ fits'[r][fold[r]] = fit[r]
      /\ \A f \in Folds \ {fold[r]} : fits'[r][f] = fits[r][f]
  <2>1. fits[r] \in MaybeFits
    BY <1>1 DEF TypeOK
  <2>2. [fits[r] EXCEPT ![fold[r]] = fit[r]] \in MaybeFits
    BY <1>3, <2>1 DEF MaybeFits
  <2> QED
    BY <1>1, <1>2, <1>3, <2>1, <2>2 DEF TypeOK, MaybeFits
<1>6. \A f \in 0 .. fold[r] : f \in Folds /\ FoldComplete(r, f)'
  <2>1. ASSUME NEW f \in 0 .. fold[r] PROVE f \in Folds /\ FoldComplete(r, f)'
    <3>1. f \in Folds
      BY <1>3 DEF Folds
    <3>2. CASE f = fold[r]
      BY <1>3, <1>4, <1>5, <3>2 DEF FoldComplete
    <3>3. CASE f # fold[r]
      <4>1. f \in 0 .. fold[r] - 1
        BY <1>3, <3>3 DEF Folds
      <4>2. FoldComplete(r, f)
        BY <1>2, <4>1 DEF Inv, RunnerIsTrue, InFit
      <4> QED
        BY <1>5, <3>1, <3>3, <4>2 DEF FoldComplete
    <3> QED
      BY <3>1, <3>2, <3>3
  <2> QED
    BY <2>1
<1>7. CASE IsLast(fold[r]) /\ GoTo(r, "save") /\ UNCHANGED fold
  <2>1. pc' \in [Runners -> Labels] /\ pc'[r] = "save"
    BY <1>1, <1>7 DEF GoTo, TypeOK, Labels
  <2>2. TypeOK'
    BY <1>1, <1>2, <1>5, <1>7, <2>1 DEF TypeOK
  <2>3. OthersUnchanged(r)
    BY <1>1, <1>2, <1>7 DEF OthersUnchanged, GoTo, TypeOK
  <2>4. GenerationsAreTrue' /\ ResumeIsTransparent'
    BY <1>2 DEF Inv, GenerationsAreTrue, GenerationIsTrue, ResumeIsTransparent
  <2>5. \A f \in Folds : FoldComplete(r, f)'
    BY <1>3, <1>6, <1>7 DEF IsLast, Folds
  <2>6. RunnerIsTrue(r)'
    BY <2>1, <2>5 DEF RunnerIsTrue, InFit
  <2> QED
    BY <2>2, <2>3, <2>4, <2>6, StepOfOne
<1>8. CASE ~IsLast(fold[r]) /\ GoTo(r, "list") /\ fold' = [fold EXCEPT ![r] = @ + 1]
  <2>1. pc' \in [Runners -> Labels] /\ pc'[r] = "list"
    BY <1>1, <1>8 DEF GoTo, TypeOK, Labels
  <2>2. fold[r] + 1 \in Folds
    BY <1>3, <1>8 DEF IsLast, Folds
  <2>3. fold' \in [Runners -> Folds] /\ fold'[r] = fold[r] + 1
    BY <1>1, <1>8, <2>2 DEF TypeOK
  <2>4. TypeOK'
    BY <1>1, <1>2, <1>5, <2>1, <2>3 DEF TypeOK
  <2>5. OthersUnchanged(r)
    BY <1>1, <1>2, <1>8 DEF OthersUnchanged, GoTo, TypeOK
  <2>6. GenerationsAreTrue' /\ ResumeIsTransparent'
    BY <1>2 DEF Inv, GenerationsAreTrue, GenerationIsTrue, ResumeIsTransparent
  <2>7. 0 .. fold'[r] - 1 = 0 .. fold[r]
    BY <1>3, <2>3 DEF Folds
  <2>8. RunnerIsTrue(r)'
    BY <1>6, <2>1, <2>7 DEF RunnerIsTrue, InFit
  <2> QED
    BY <2>4, <2>5, <2>6, <2>8, StepOfOne
<1> QED
  BY <1>7, <1>8 DEF FinishFold

LEMMA FindCandidateKeepsInv ==
    ASSUME Inv, NEW r \in Runners, FindCandidate(r), UNCHANGED <<loss, zero, crashes>>
    PROVE  Inv'
<1>1. TypeOK /\ crashes' \in 0 .. MaxCrashes
  BY DEF Inv, TypeOK
<1>2. CASE /\ GoTo(r, "place")
           /\ UNCHANGED <<gens, candidate, fold, fit, pending, fits, outcome>>
  <2>1. RunnerIsTrue(r)'
    BY <1>1, <1>2 DEF FindCandidate, GoTo, Inv, TypeOK, RunnerIsTrue, InFit, FoldComplete
  <2> QED
    BY <1>1, <1>2, <2>1, GoToKeepsInv DEF TypeOK, Labels
<1>3. CASE /\ Leave(r, IF candidate = fits[r] THEN "returned" ELSE "raised")
           /\ UNCHANGED disk
  BY <1>1, <1>3, LeaveKeepsInv DEF disk
<1> QED
  BY <1>2, <1>3 DEF FindCandidate

LEMMA PlaceCandidateKeepsInv ==
    ASSUME Inv, NEW r \in Runners, PlaceCandidate(r), UNCHANGED <<loss, zero, crashes>>
    PROVE  Inv'
<1>1. TypeOK /\ crashes' \in 0 .. MaxCrashes
  BY DEF Inv, TypeOK
<1>2. CASE Fail(r)
  BY <1>1, <1>2, LeaveKeepsInv DEF Fail, disk
<1>3. CASE /\ candidate' = fits[r] /\ GoTo(r, "clear")
           /\ UNCHANGED <<gens, fold, fit, pending, fits, outcome>>
  <2>1. pc[r] = "place"
    BY DEF PlaceCandidate
  <2>2. \A f \in Folds : FoldComplete(r, f)
    BY <2>1 DEF Inv, RunnerIsTrue
  <2>3. candidate' \in Fits
    BY <1>1, <1>3, <2>2 DEF TypeOK, MaybeFits, Fits, FoldComplete
  <2>4. pc' \in [Runners -> Labels] /\ pc'[r] = "clear"
    BY <1>1, <1>3 DEF GoTo, TypeOK, Labels
  <2>5. TypeOK'
    BY <1>1, <1>3, <2>3, <2>4 DEF TypeOK
  <2>6. OthersUnchanged(r)
    BY <1>1, <1>3 DEF OthersUnchanged, GoTo, TypeOK
  <2>7. GenerationsAreTrue'
    BY <1>3 DEF Inv, GenerationsAreTrue, GenerationIsTrue
  <2>8. ResumeIsTransparent'
    BY <1>3, <2>2 DEF ResumeIsTransparent, FoldComplete
  <2>9. RunnerIsTrue(r)'
    BY <2>4 DEF RunnerIsTrue, InFit
  <2> QED
    BY <2>5, <2>6, <2>7, <2>8, <2>9, StepOfOne
<1> QED
  BY <1>2, <1>3 DEF PlaceCandidate

LEMMA StepKeepsInv ==
    ASSUME Inv, NEW r \in Runners, Step(r), UNCHANGED <<loss, zero, crashes>>
    PROVE  Inv'
<1>1. CASE ClearFits(r)
  <2>1. crashes' \in 0 .. MaxCrashes
    BY DEF Inv, TypeOK
  <2> QED
    BY <1>1, <2>1, LeaveKeepsInv DEF ClearFits, disk
<1> QED
  BY <1>1, LookUpCandidateKeepsInv, ListGenerationsKeepsInv, VerifyGenerationKeepsInv,
     ReadGenerationKeepsInv, TrainEpochKeepsInv, FindGenerationKeepsInv,
     PublishGenerationKeepsInv, CheckGenerationKeepsInv, ListObsoleteKeepsInv, RemoveObsoleteKeepsInv,
     EpochSavedKeepsInv, FinishFoldKeepsInv, FindCandidateKeepsInv,
     PlaceCandidateKeepsInv DEF Step

LEMMA CrashKeepsInv ==
    ASSUME Inv, NEW r \in Runners, Crash(r)
    PROVE  Inv'
<1>1. crashes' \in 0 .. MaxCrashes
  BY CheckpointAssumption DEF Inv, TypeOK, Crash
<1> QED
  BY <1>1, LeaveKeepsInv DEF Crash

LEMMA InitIsTrue ==
    ASSUME Init
    PROVE  Inv
<1>1. 0 \in Folds /\ Folds = 0 .. NumFolds - 1 /\ 0 \in 0 .. MaxCrashes
  BY CheckpointAssumption DEF Folds
<1>2. FreshFit \in Fit
  <2>1. MaxEpochs \in Nat /\ Infinity \in Nat
    BY EarlyStoppingAssumption
  <2>2. NoBest \in Best
    BY <2>1 DEF NoBest, Best
  <2>3. << >> \in Seq(Nat)
    OBVIOUS
  <2> QED
    BY <2>1, <2>2, <2>3 DEF FreshFit, Fit
<1>3. gens \in [Folds -> SUBSET Fit]
  BY DEF Init
<1>4. /\ pc \in [Runners -> Labels] /\ \A r \in Runners : pc[r] = "idle"
      /\ outcome \in [Runners -> {"none", "returned", "raised", "crashed"}]
  BY DEF Init, Labels
<1>5. fits \in [Runners -> MaybeFits]
  BY DEF Init, MaybeFits
<1>6. /\ fold \in [Runners -> Folds] /\ fit \in [Runners -> Fit]
      /\ pending \in [Runners -> SUBSET Fit]
  BY <1>1, <1>2 DEF Init
<1>7. TypeOK
  BY <1>1, <1>3, <1>4, <1>5, <1>6 DEF Init, TypeOK
<1>8. GenerationsAreTrue /\ ResumeIsTransparent
  BY DEF Init, GenerationsAreTrue, ResumeIsTransparent
<1>9. \A r \in Runners : RunnerIsTrue(r)
  BY <1>4 DEF RunnerIsTrue, InFit
<1> QED
  BY <1>7, <1>8, <1>9 DEF Inv

LEMMA StutterKeepsInv ==
    ASSUME Inv, UNCHANGED vars
    PROVE  Inv'
<1>1. TypeOK'
  BY DEF Inv, TypeOK, vars
<1>2. GenerationsAreTrue' /\ ResumeIsTransparent'
  BY DEF Inv, GenerationsAreTrue, GenerationIsTrue, ResumeIsTransparent, vars
<1>3. ASSUME NEW r \in Runners PROVE RunnerIsTrue(r)'
  BY DEF Inv, RunnerIsTrue, GenerationIsTrue, FitTrue, FoldComplete, vars
<1> QED
  BY <1>1, <1>2, <1>3 DEF Inv

-----------------------------------------------------------------------------

(* The invariant holds in every state, for any number of runners, folds,   *)
(* epochs and crashes and any validation losses.                           *)
THEOREM Safety == Spec => []Inv
<1>1. Init => Inv
  BY InitIsTrue
<1>2. Inv /\ [Next]_vars => Inv'
  <2> SUFFICES ASSUME Inv, [Next]_vars PROVE Inv'
    OBVIOUS
  <2>1. CASE UNCHANGED vars
    BY <2>1, StutterKeepsInv
  <2>2. CASE Next
    <3>1. PICK r \in Runners :
             \/ (Start(r) \/ Step(r)) /\ UNCHANGED <<loss, zero, crashes>>
             \/ Crash(r)
      BY <2>2 DEF Next
    <3> QED
      BY <3>1, StartKeepsInv, StepKeepsInv, CrashKeepsInv
  <2> QED
    BY <2>1, <2>2
<1> QED
  BY <1>1, <1>2, PTL DEF Spec

(* The types of the component's state, on disk and in memory.              *)
THEOREM TypeCorrect == Spec => []TypeOK
<1>1. Inv => TypeOK
  BY DEF Inv
<1> QED
  BY <1>1, Safety, PTL

(* _AtomicFitCheckpoint never holds the state of an epoch that an          *)
(* uninterrupted fit of that fold would not have gone through.             *)
THEOREM GenerationsStayTrue == Spec => []GenerationsAreTrue
<1>1. Inv => GenerationsAreTrue
  BY DEF Inv
<1> QED
  BY <1>1, Safety, PTL

(* CandidateCheckpointStore publishes what an uninterrupted run of the     *)
(* candidate would have: resuming leaves no trace in the result.           *)
THEOREM ResumeLeavesNoTrace == Spec => []ResumeIsTransparent
<1>1. Inv => ResumeIsTransparent
  BY DEF Inv
<1> QED
  BY <1>1, Safety, PTL
-----------------------------------------------------------------------------
(* A runner that is alone in its store.  What it refuses, it refuses        *)
(* because the disk is not as it left it; so its invariant says, for every *)
(* place it can be at, which epoch is the newest on disk.                  *)

Lone == \A q, r \in Runners : q = r

(* The newest epoch of a fold on disk is e; 0 when there is none.          *)
Newest(f, e) ==
    /\ e = 0 => gens[f] = {}
    /\ e # 0 => \E g \in gens[f] : g.epoch = e
    /\ \A g \in gens[f] : g.epoch <= e

(* What the runner listed is there; what it verified is older than what is *)
(* left, and the fit in memory is the newest of it.                        *)
ListedIsThere(r) ==
    /\ pending[r] \subseteq gens[fold[r]]
    /\ fit[r].epoch = 0 \/ fit[r] \in gens[fold[r]]
    /\ \A g \in gens[fold[r]] \ pending[r] : g.epoch <= fit[r].epoch
    /\ \A g \in pending[r] : fit[r].epoch <= g.epoch

(* The published generation is the newest; the sweep spares it.            *)
FitIsNewest(r) ==
    /\ fit[r] \in gens[fold[r]]
    /\ \A g \in gens[fold[r]] : g.epoch <= fit[r].epoch

FoldIsDone(f) == \E e \in 0 .. MaxEpochs : Newest(f, e) /\ StopsAt(loss[f], zero, e)

(* A runner never raised; before it trains, the fit in memory is the        *)
(* newest epoch on disk, after training it is one newer, and the folds     *)
(* behind it have their last epoch on disk.                                *)
LoneInv(r) ==
    /\ outcome[r] # "raised"
    /\ pc[r] \in InFit \cup {"list", "save", "place"} => candidate = None
    /\ pc[r] = "verify" => ListedIsThere(r)
    /\ pc[r] = "train" => Newest(fold[r], fit[r].epoch)
    /\ pc[r] \in {"find", "rename"} => Newest(fold[r], fit[r].epoch - 1)
    /\ pc[r] \in {"check", "sweep", "remove"} => FitIsNewest(r)
    /\ pc[r] = "remove" => pending[r] \subseteq gens[fold[r]] \ {fit[r]}
    /\ pc[r] \in InFit \cup {"list"} => \A f \in 0 .. fold[r] - 1 : FoldIsDone(f)
    /\ pc[r] \in {"save", "place"} => \A f \in Folds : FoldIsDone(f)

(* The invariants of the disk and the one of the runner.                   *)
LoneAndTrue(r) == Inv /\ LoneInv(r)

NewestGivesDurable ==
    \A f \in Folds : \A e \in 0 .. MaxEpochs : Newest(f, e) => Durable(f) = e

(* What the abstract specification calls trained is the newest epoch.      *)
LEMMA NewestIsDurable == TypeOK => NewestGivesDurable
<1> SUFFICES ASSUME TypeOK, NEW f \in Folds, NEW e \in 0 .. MaxEpochs, Newest(f, e)
             PROVE  Durable(f) = e
  BY DEF NewestGivesDurable
<1>1. gens[f] \in SUBSET Fit /\ MaxEpochs \in Nat
  BY EarlyStoppingAssumption DEF TypeOK
<1>2. CASE gens[f] = {}
  BY <1>1, <1>2 DEF Durable, Newest
<1>3. CASE gens[f] # {}
  <2>1. \A g \in gens[f] : g.epoch \in 0 .. MaxEpochs
    BY <1>1 DEF Fit
  <2>2. /\ \E g \in gens[f] : g.epoch = e
        /\ \A g \in gens[f] : g.epoch <= e
    BY <1>3 DEF Newest
  <2>3. ASSUME NEW d \in 0 .. MaxEpochs,
               \E g \in gens[f] : g.epoch = d,
               \A g \in gens[f] : g.epoch <= d
        PROVE  d = e
    BY <1>1, <2>1, <2>2, <2>3
  <2> QED
    BY <1>3, <2>2, <2>3 DEF Durable
<1> QED
  BY <1>2, <1>3

(* load_neural_epoch and save_neural_epoch accept every true fit.          *)
LEMMA TrueIsWellFormed ==
    ASSUME NEW f \in Folds, NEW s \in Fit, FitTrue(f, s), s.epoch > 0
    PROVE  WellFormed(s)
<1>1. s.epoch \in Nat
  BY EarlyStoppingAssumption DEF Fit
<1>2. CASE zero
  BY <1>1, <1>2 DEF FitTrue, TrueFit, EvaluatedFit, WellFormed
<1>3. CASE ~zero
  BY <1>1, <1>3 DEF FitTrue, TrueFit, TrainedFit, IsFirstMin, WellFormed
<1> QED
  BY <1>2, <1>3

(* Nothing about the epochs on disk changes with the runner's memory.      *)
LEMMA SameDisk ==
    ASSUME UNCHANGED <<gens, loss, zero>>
    PROVE  /\ \A f, e : Newest(f, e)' <=> Newest(f, e)
           /\ \A f : FoldIsDone(f)' <=> FoldIsDone(f)
<1>1. \A f, e : Newest(f, e)' <=> Newest(f, e)
  BY DEF Newest
<1> QED
  BY <1>1 DEF FoldIsDone

LEMMA TypesOf ==
    ASSUME TypeOK, NEW r \in Runners
    PROVE  /\ fold[r] \in Folds /\ fit[r] \in Fit /\ pending[r] \in SUBSET Fit
           /\ gens[fold[r]] \in SUBSET Fit
           /\ fit[r].epoch \in 0 .. MaxEpochs /\ MaxEpochs \in Nat
           /\ \A g \in gens[fold[r]] : g.epoch \in 0 .. MaxEpochs
           /\ DOMAIN pc = Runners /\ DOMAIN fold = Runners /\ DOMAIN fit = Runners
           /\ DOMAIN pending = Runners /\ DOMAIN outcome = Runners
<1>1. /\ fold[r] \in Folds /\ fit[r] \in Fit /\ pending[r] \in SUBSET Fit
      /\ gens[fold[r]] \in SUBSET Fit
  BY DEF TypeOK
<1> QED
  BY <1>1, EarlyStoppingAssumption DEF TypeOK, Fit

(* A run that ends well, or is killed, leaves nothing it would refuse.     *)
LEMMA LoneLeaves ==
    ASSUME TypeOK, NEW r \in Runners, NEW how \in {"none", "returned", "crashed"},
           Leave(r, how)
    PROVE  LoneInv(r)'
<1>1. pc'[r] = "idle" /\ outcome'[r] = how
  BY TypesOf DEF Leave, GoTo
<1> QED
  BY <1>1 DEF LoneInv, InFit

LEMMA LoneStarts ==
    ASSUME NEW r \in Runners, LoneAndTrue(r), Start(r)
    PROVE  LoneInv(r)'
<1>1. TypeOK
  BY DEF LoneAndTrue, Inv
<1>2. pc'[r] = "lookup" /\ outcome'[r] = "none"
  BY <1>1, TypesOf DEF Start, GoTo
<1> QED
  BY <1>2 DEF LoneInv, InFit

LEMMA LoneLooksUp ==
    ASSUME NEW r \in Runners, LoneAndTrue(r), LookUpCandidate(r), UNCHANGED <<loss, zero>>
    PROVE  LoneInv(r)'
<1>1. TypeOK /\ LoneInv(r)
  BY DEF LoneAndTrue, Inv
<1>2. CASE Leave(r, "returned")
  BY <1>1, <1>2, LoneLeaves
<1>3. CASE /\ candidate = None
           /\ GoTo(r, "list")
           /\ fold' = [fold EXCEPT ![r] = 0]
           /\ UNCHANGED outcome
  <2>1. pc'[r] = "list" /\ fold'[r] = 0 /\ outcome'[r] # "raised" /\ candidate' = None
    BY <1>1, <1>3, TypesOf DEF GoTo, LookUpCandidate, disk, LoneInv
  <2>2. \A f \in 0 .. fold'[r] - 1 : FALSE
    BY <2>1
  <2> QED
    BY <2>1, <2>2 DEF LoneInv, InFit
<1> QED
  BY <1>2, <1>3 DEF LookUpCandidate

LEMMA LoneLists ==
    ASSUME NEW r \in Runners, LoneAndTrue(r), ListGenerations(r), UNCHANGED <<loss, zero>>
    PROVE  LoneInv(r)'
<1>1. TypeOK /\ LoneInv(r)
  BY DEF LoneAndTrue, Inv
<1>2. /\ pc[r] = "list" /\ pc'[r] = "verify" /\ fold'[r] = fold[r]
      /\ pending'[r] = gens[fold[r]] /\ fit'[r].epoch = 0 /\ outcome'[r] = outcome[r]
      /\ UNCHANGED <<gens, candidate>>
  BY <1>1, TypesOf DEF ListGenerations, GoTo, FreshFit
<1>3. ListedIsThere(r)'
  BY <1>1, <1>2, TypesOf DEF ListedIsThere
<1>4. \A f \in 0 .. fold[r] - 1 : FoldIsDone(f)'
  BY <1>1, <1>2, SameDisk DEF LoneInv
<1> QED
  BY <1>1, <1>2, <1>3, <1>4 DEF LoneInv, InFit

LEMMA LoneVerifies ==
    ASSUME NEW r \in Runners, LoneAndTrue(r), VerifyGeneration(r), UNCHANGED <<loss, zero>>
    PROVE  LoneInv(r)'
<1>1. TypeOK /\ LoneInv(r) /\ pc[r] = "verify"
  BY DEF LoneAndTrue, Inv, VerifyGeneration
<1>2. ListedIsThere(r) /\ candidate = None /\ \A f \in 0 .. fold[r] - 1 : FoldIsDone(f)
  BY <1>1 DEF LoneInv, InFit
<1>3. PICK g \in pending[r] :
        /\ Oldest(g, pending[r])
        /\ fit' = [fit EXCEPT ![r] = g]
        /\ pending' = [pending EXCEPT ![r] = @ \ {g}]
        /\ UNCHANGED <<gens, candidate, pc, fold, fits, outcome>>
  BY <1>2 DEF VerifyGeneration, ListedIsThere
<1>4. /\ pc'[r] = "verify" /\ fold'[r] = fold[r] /\ outcome'[r] = outcome[r]
      /\ fit'[r] = g /\ pending'[r] = pending[r] \ {g} /\ gens' = gens /\ candidate' = None
      /\ g \in gens[fold[r]]
  BY <1>1, <1>2, <1>3, TypesOf DEF ListedIsThere
<1>5. ListedIsThere(r)'
  <2>1. pending'[r] \subseteq gens'[fold'[r]] /\ fit'[r] \in gens'[fold'[r]]
    BY <1>2, <1>4 DEF ListedIsThere
  <2>2. \A h \in pending'[r] : fit'[r].epoch <= h.epoch
    BY <1>3, <1>4 DEF Oldest
  <2>3. ASSUME NEW h \in gens[fold[r]] \ pending'[r] PROVE h.epoch <= g.epoch
    <3>1. CASE h \in pending[r]
      <4>1. h = g /\ g.epoch \in Nat
        BY <1>1, <1>4, <2>3, <3>1, TypesOf
      <4> QED
        BY <4>1
    <3>2. CASE h \notin pending[r]
      <4>1. h.epoch <= fit[r].epoch /\ fit[r].epoch <= g.epoch
        BY <1>2, <1>3, <2>3, <3>2 DEF ListedIsThere
      <4>2. h.epoch \in Nat /\ fit[r].epoch \in Nat /\ g.epoch \in Nat
        BY <1>1, <1>4, <2>3, TypesOf
      <4> QED
        BY <4>1, <4>2
    <3> QED
      BY <3>1, <3>2
  <2> QED
    BY <1>4, <2>1, <2>2, <2>3 DEF ListedIsThere
<1>6. \A f \in 0 .. fold[r] - 1 : FoldIsDone(f)'
  BY <1>2, <1>4, SameDisk
<1> QED
  BY <1>1, <1>4, <1>5, <1>6 DEF LoneInv, InFit

LEMMA LoneReads ==
    ASSUME NEW r \in Runners, LoneAndTrue(r), ReadGeneration(r), UNCHANGED <<loss, zero>>
    PROVE  LoneInv(r)'
<1>1. TypeOK /\ LoneInv(r) /\ pc[r] = "verify" /\ pending[r] = {} /\ GenerationsAreTrue
  BY DEF LoneAndTrue, Inv, ReadGeneration
<1>2. ListedIsThere(r) /\ candidate = None /\ \A f \in 0 .. fold[r] - 1 : FoldIsDone(f)
  BY <1>1 DEF LoneInv, InFit
<1>3. fit[r].epoch # 0 => fit[r] \in gens[fold[r]] /\ WellFormed(fit[r])
  <2>1. ASSUME fit[r].epoch # 0 PROVE fit[r] \in gens[fold[r]] /\ WellFormed(fit[r])
    <3>1. fit[r] \in gens[fold[r]]
      BY <1>2, <2>1 DEF ListedIsThere
    <3>2. fit[r].epoch > 0 /\ FitTrue(fold[r], fit[r])
      BY <1>1, <3>1, TypesOf DEF GenerationsAreTrue, GenerationIsTrue, FitTrue
    <3> QED
      BY <1>1, <3>1, <3>2, TrueIsWellFormed, TypesOf
  <2> QED
    BY <2>1
<1>4. GoTo(r, "train") /\ UNCHANGED <<gens, candidate, fold, fit, outcome>>
  BY <1>3 DEF ReadGeneration
<1>5. pc'[r] = "train"
  BY <1>1, <1>4, TypesOf DEF GoTo
<1>6. Newest(fold[r], fit[r].epoch)
  <2>1. CASE fit[r].epoch = 0
    <3>1. \A g \in gens[fold[r]] : g.epoch <= 0 /\ g.epoch > 0
      BY <1>1, <1>2, <2>1, TypesOf DEF ListedIsThere, GenerationsAreTrue, GenerationIsTrue
    <3>2. gens[fold[r]] = {}
      BY <1>1, <3>1, TypesOf
    <3> QED
      BY <2>1, <3>2 DEF Newest
  <2>2. CASE fit[r].epoch # 0
    BY <1>1, <1>2, <1>3, <2>2 DEF ListedIsThere, Newest
  <2> QED
    BY <2>1, <2>2
<1>7. Newest(fold[r], fit[r].epoch)' /\ \A f \in 0 .. fold[r] - 1 : FoldIsDone(f)'
  BY <1>2, <1>4, <1>6, SameDisk DEF Newest
<1> QED
  BY <1>1, <1>2, <1>4, <1>5, <1>7 DEF LoneInv, InFit

LEMMA LoneTrains ==
    ASSUME NEW r \in Runners, LoneAndTrue(r), TrainEpoch(r), UNCHANGED <<loss, zero>>
    PROVE  LoneInv(r)'
<1> DEFINE s == IF zero THEN Evaluated(loss[fold[r]][0])
                     ELSE AfterEpoch(fit[r], loss[fold[r]][fit[r].steps + 1])
<1>1. TypeOK /\ LoneInv(r) /\ pc[r] = "train" /\ ~FitEnds(fit[r]) /\ RunnerIsTrue(r)
  BY DEF LoneAndTrue, Inv, TrainEpoch
<1>2. /\ Newest(fold[r], fit[r].epoch) /\ candidate = None
      /\ \A f \in 0 .. fold[r] - 1 : FoldIsDone(f)
  BY <1>1 DEF LoneInv, InFit
<1>3. s \in Fit /\ s.epoch > 0 /\ FitTrue(fold[r], s)
  BY <1>1, EpochIsTrue, TypesOf DEF RunnerIsTrue, InFit
<1>4. WellFormed(s)
  <2> HIDE DEF s
  <2> QED
    BY <1>1, <1>3, TrueIsWellFormed, TypesOf
<1>5. s.epoch = fit[r].epoch + 1
  <2>1. CASE zero
    <3>1. fit[r].epoch = 0
      BY <1>1, <2>1, TypesOf DEF FitEnds
    <3> QED
      BY <2>1, <3>1 DEF Evaluated
  <2>2. CASE ~zero
    BY <2>2 DEF AfterEpoch
  <2> QED
    BY <2>1, <2>2
<1>6. /\ GoTo(r, "find") /\ fit' = [fit EXCEPT ![r] = s]
      /\ UNCHANGED <<gens, candidate, fold, outcome>>
  BY <1>4 DEF TrainEpoch
<1> HIDE DEF s
<1>7. pc'[r] = "find" /\ fit'[r] = s /\ fit'[r].epoch - 1 = fit[r].epoch
  BY <1>1, <1>5, <1>6, TypesOf DEF GoTo
<1>8. Newest(fold[r], fit[r].epoch - 1)'
  BY <1>2, <1>6, <1>7 DEF Newest
<1>9. \A f \in 0 .. fold[r] - 1 : FoldIsDone(f)'
  BY <1>2, <1>6, SameDisk
<1> QED
  BY <1>1, <1>2, <1>6, <1>7, <1>8, <1>9 DEF LoneInv, InFit

(* A trained epoch is newer than all on disk.                              *)
LEMMA NewIsAbsent ==
    ASSUME TypeOK, NEW r \in Runners, Newest(fold[r], fit[r].epoch - 1)
    PROVE  fit[r] \notin gens[fold[r]]
<1>1. fit[r] \in gens[fold[r]] => fit[r].epoch <= fit[r].epoch - 1
  BY DEF Newest
<1>2. fit[r].epoch \in Nat
  BY TypesOf
<1> QED
  BY <1>1, <1>2

LEMMA LoneFinds ==
    ASSUME NEW r \in Runners, LoneAndTrue(r), FindGeneration(r), UNCHANGED <<loss, zero>>
    PROVE  LoneInv(r)'
<1>1. TypeOK /\ LoneInv(r) /\ pc[r] = "find"
  BY DEF LoneAndTrue, Inv, FindGeneration
<1>2. /\ Newest(fold[r], fit[r].epoch - 1) /\ candidate = None
      /\ \A f \in 0 .. fold[r] - 1 : FoldIsDone(f)
  BY <1>1 DEF LoneInv, InFit
<1>3. GoTo(r, "rename") /\ UNCHANGED <<gens, candidate, fold, fit, outcome>>
  BY <1>1, <1>2, NewIsAbsent DEF FindGeneration
<1>4. pc'[r] = "rename"
  BY <1>1, <1>3, TypesOf DEF GoTo
<1>5. Newest(fold[r], fit[r].epoch - 1)' /\ \A f \in 0 .. fold[r] - 1 : FoldIsDone(f)'
  BY <1>2, <1>3, SameDisk DEF Newest
<1> QED
  BY <1>1, <1>2, <1>3, <1>4, <1>5 DEF LoneInv, InFit

(* The folds behind the runner are others than the one it writes to.       *)
LEMMA OtherFoldsStay ==
    ASSUME TypeOK, NEW r \in Runners, UNCHANGED <<loss, zero>>,
           \A f \in Folds \ {fold[r]} : gens'[f] = gens[f],
           \A f \in 0 .. fold[r] - 1 : FoldIsDone(f)
    PROVE  \A f \in 0 .. fold[r] - 1 : FoldIsDone(f)'
<1>1. \A f \in 0 .. fold[r] - 1 : f \in Folds \ {fold[r]}
  BY TypesOf, CheckpointAssumption DEF Folds
<1> QED
  BY <1>1 DEF FoldIsDone, Newest

LEMMA LonePublishes ==
    ASSUME NEW r \in Runners, LoneAndTrue(r), PublishGeneration(r), UNCHANGED <<loss, zero>>
    PROVE  /\ LoneInv(r)'
           /\ Newest(fold[r], fit[r].epoch - 1) /\ Newest(fold[r], fit[r].epoch)'
           /\ candidate = None /\ \A f \in 0 .. fold[r] - 1 : FoldIsDone(f)
           /\ \A f \in Folds \ {fold[r]} : gens'[f] = gens[f]
           /\ UNCHANGED <<fold, fit, candidate>>
<1>1. TypeOK /\ LoneInv(r) /\ pc[r] = "rename" /\ RunnerIsTrue(r)
  BY DEF LoneAndTrue, Inv, PublishGeneration
<1>2. /\ Newest(fold[r], fit[r].epoch - 1) /\ candidate = None
      /\ \A f \in 0 .. fold[r] - 1 : FoldIsDone(f)
  BY <1>1 DEF LoneInv, InFit
<1>3. /\ gens' = [gens EXCEPT ![fold[r]] = @ \cup {fit[r]}]
      /\ GoTo(r, "check")
      /\ UNCHANGED <<candidate, fold, fit, pending, fits, outcome>>
  BY <1>1, <1>2, NewIsAbsent DEF PublishGeneration
<1>4. /\ pc'[r] = "check" /\ gens'[fold[r]] = gens[fold[r]] \cup {fit[r]}
      /\ \A f \in Folds \ {fold[r]} : gens'[f] = gens[f]
  BY <1>1, <1>3, TypesOf DEF GoTo, TypeOK
<1>5. \A g \in gens'[fold[r]] : g.epoch <= fit[r].epoch
  BY <1>1, <1>2, <1>4, TypesOf DEF Newest
<1>6. fit[r].epoch > 0
  BY <1>1 DEF RunnerIsTrue
<1>7. FitIsNewest(r)' /\ Newest(fold[r], fit[r].epoch)'
  BY <1>1, <1>3, <1>4, <1>5, <1>6, TypesOf DEF FitIsNewest, Newest
<1>8. \A f \in 0 .. fold[r] - 1 : FoldIsDone(f)'
  BY <1>1, <1>2, <1>4, OtherFoldsStay
<1> QED
  BY <1>1, <1>2, <1>3, <1>4, <1>7, <1>8 DEF LoneInv, InFit

LEMMA LoneChecks ==
    ASSUME NEW r \in Runners, LoneAndTrue(r), CheckGeneration(r), UNCHANGED <<loss, zero>>
    PROVE  LoneInv(r)'
<1>1. TypeOK /\ LoneInv(r) /\ pc[r] = "check"
  BY DEF LoneAndTrue, Inv, CheckGeneration
<1>2. /\ FitIsNewest(r) /\ candidate = None
      /\ \A f \in 0 .. fold[r] - 1 : FoldIsDone(f)
  BY <1>1 DEF LoneInv, InFit
<1>3. GoTo(r, "sweep") /\ UNCHANGED <<gens, candidate, fold, fit, outcome>>
  BY <1>2 DEF CheckGeneration, FitIsNewest
<1>4. pc'[r] = "sweep"
  BY <1>1, <1>3, TypesOf DEF GoTo
<1>5. FitIsNewest(r)' /\ \A f \in 0 .. fold[r] - 1 : FoldIsDone(f)'
  BY <1>2, <1>3, SameDisk DEF FitIsNewest
<1> QED
  BY <1>1, <1>2, <1>3, <1>4, <1>5 DEF LoneInv, InFit

LEMMA LoneListsObsolete ==
    ASSUME NEW r \in Runners, LoneAndTrue(r), ListObsolete(r), UNCHANGED <<loss, zero>>
    PROVE  LoneInv(r)'
<1>1. TypeOK /\ LoneInv(r) /\ pc[r] = "sweep"
  BY DEF LoneAndTrue, Inv, ListObsolete
<1>2. /\ FitIsNewest(r) /\ candidate = None
      /\ \A f \in 0 .. fold[r] - 1 : FoldIsDone(f)
  BY <1>1 DEF LoneInv, InFit
<1>3. /\ pc'[r] = "remove" /\ pending'[r] = gens[fold[r]] \ {fit[r]}
      /\ UNCHANGED <<gens, candidate, fold, fit, outcome>>
  BY <1>1, TypesOf DEF ListObsolete, GoTo
<1>4. FitIsNewest(r)' /\ \A f \in 0 .. fold[r] - 1 : FoldIsDone(f)'
  BY <1>2, <1>3, SameDisk DEF FitIsNewest
<1> QED
  BY <1>1, <1>2, <1>3, <1>4 DEF LoneInv, InFit

LEMMA LoneRemoves ==
    ASSUME NEW r \in Runners, LoneAndTrue(r), RemoveObsolete(r), UNCHANGED <<loss, zero>>
    PROVE  /\ LoneInv(r)'
           /\ Newest(fold[r], fit[r].epoch) /\ Newest(fold[r], fit[r].epoch)'
           /\ \A f \in Folds \ {fold[r]} : gens'[f] = gens[f]
           /\ UNCHANGED <<fold, fit, candidate>>
<1>1. TypeOK /\ LoneInv(r) /\ pc[r] = "remove" /\ GenerationsAreTrue
  BY DEF LoneAndTrue, Inv, RemoveObsolete
<1>2. /\ FitIsNewest(r) /\ candidate = None /\ pending[r] \subseteq gens[fold[r]] \ {fit[r]}
      /\ \A f \in 0 .. fold[r] - 1 : FoldIsDone(f)
  BY <1>1 DEF LoneInv, InFit
<1>3. PICK g \in pending[r] :
        /\ gens' = [gens EXCEPT ![fold[r]] = @ \ {g}]
        /\ pending' = [pending EXCEPT ![r] = @ \ {g}]
        /\ UNCHANGED <<candidate, pc, fold, fit, fits, outcome>>
  BY <1>2 DEF RemoveObsolete
<1>4. /\ gens'[fold[r]] = gens[fold[r]] \ {g} /\ pending'[r] = pending[r] \ {g}
      /\ \A f \in Folds \ {fold[r]} : gens'[f] = gens[f]
      /\ g # fit[r]
  BY <1>1, <1>2, <1>3, TypesOf DEF TypeOK
<1>5. FitIsNewest(r)'
  BY <1>2, <1>3, <1>4 DEF FitIsNewest
<1>6. fit[r].epoch > 0
  BY <1>1, <1>2, TypesOf DEF FitIsNewest, GenerationsAreTrue, GenerationIsTrue
<1>7. Newest(fold[r], fit[r].epoch) /\ Newest(fold[r], fit[r].epoch)'
  BY <1>2, <1>3, <1>5, <1>6 DEF FitIsNewest, Newest
<1>8. \A f \in 0 .. fold[r] - 1 : FoldIsDone(f)'
  BY <1>1, <1>2, <1>4, OtherFoldsStay
<1> QED
  BY <1>1, <1>2, <1>3, <1>4, <1>5, <1>7, <1>8 DEF LoneInv, InFit

LEMMA LoneSaved ==
    ASSUME NEW r \in Runners, LoneAndTrue(r), EpochSaved(r), UNCHANGED <<loss, zero>>
    PROVE  LoneInv(r)'
<1>1. TypeOK /\ LoneInv(r) /\ pc[r] = "remove" /\ GenerationsAreTrue
  BY DEF LoneAndTrue, Inv, EpochSaved
<1>2. /\ FitIsNewest(r) /\ candidate = None
      /\ \A f \in 0 .. fold[r] - 1 : FoldIsDone(f)
  BY <1>1 DEF LoneInv, InFit
<1>3. pc'[r] = "train" /\ UNCHANGED <<gens, candidate, fold, fit, outcome>>
  BY <1>1, TypesOf DEF EpochSaved, GoTo
<1>4. fit[r].epoch > 0
  BY <1>1, <1>2, TypesOf DEF FitIsNewest, GenerationsAreTrue, GenerationIsTrue
<1>5. Newest(fold[r], fit[r].epoch)' /\ \A f \in 0 .. fold[r] - 1 : FoldIsDone(f)'
  BY <1>2, <1>3, <1>4, SameDisk DEF FitIsNewest, Newest
<1> QED
  BY <1>1, <1>2, <1>3, <1>5 DEF LoneInv, InFit

LEMMA LoneFinishes ==
    ASSUME NEW r \in Runners, LoneAndTrue(r), FinishFold(r), UNCHANGED <<loss, zero>>
    PROVE  LoneInv(r)'
<1>1. TypeOK /\ LoneInv(r) /\ pc[r] = "train" /\ FitEnds(fit[r]) /\ RunnerIsTrue(r)
  BY DEF LoneAndTrue, Inv, FinishFold
<1>2. /\ Newest(fold[r], fit[r].epoch) /\ candidate = None
      /\ \A f \in 0 .. fold[r] - 1 : FoldIsDone(f)
  BY <1>1 DEF LoneInv, InFit
<1>3. FoldIsDone(fold[r])
  <2>1. /\ fit[r] \in Fit /\ loss[fold[r]] \in Curves /\ zero \in BOOLEAN
        /\ fit[r].epoch \in 0 .. MaxEpochs
    BY <1>1, TypesOf DEF TypeOK, Curves
  <2>2. TrueFit(loss[fold[r]], zero, fit[r].epoch, fit[r])
    BY <1>1 DEF RunnerIsTrue, InFit, FitTrue
  <2>3. StopsAt(loss[fold[r]], zero, fit[r].epoch)
    BY <1>1, <2>1, <2>2, FitEndsStops
  <2> QED
    BY <1>2, <2>1, <2>3 DEF FoldIsDone
<1>4. /\ fold[r] \in Folds /\ NumFolds \in Nat
      /\ \A f \in 0 .. fold[r] : FoldIsDone(f)
  BY <1>1, <1>2, <1>3, TypesOf, CheckpointAssumption DEF Folds
<1>5. UNCHANGED <<gens, candidate, outcome>> /\ \A f \in 0 .. fold[r] : FoldIsDone(f)'
  BY <1>4, SameDisk DEF FinishFold
<1>6. CASE IsLast(fold[r]) /\ GoTo(r, "save")
  <2>1. pc'[r] = "save"
    BY <1>1, <1>6, TypesOf DEF GoTo
  <2>2. Folds = 0 .. fold[r]
    BY <1>4, <1>6 DEF IsLast, Folds
  <2> QED
    BY <1>1, <1>2, <1>5, <2>1, <2>2 DEF LoneInv, InFit
<1>7. CASE ~IsLast(fold[r]) /\ GoTo(r, "list") /\ fold' = [fold EXCEPT ![r] = @ + 1]
  <2>1. pc'[r] = "list" /\ fold'[r] = fold[r] + 1
    BY <1>1, <1>7, TypesOf DEF GoTo
  <2>2. 0 .. fold'[r] - 1 = 0 .. fold[r]
    BY <1>4, <2>1 DEF Folds
  <2> QED
    BY <1>1, <1>2, <1>5, <2>1, <2>2 DEF LoneInv, InFit
<1> QED
  BY <1>6, <1>7 DEF FinishFold

LEMMA LoneFindsNoCandidate ==
    ASSUME NEW r \in Runners, LoneAndTrue(r), FindCandidate(r), UNCHANGED <<loss, zero>>
    PROVE  LoneInv(r)'
<1>1. TypeOK /\ LoneInv(r) /\ pc[r] = "save"
  BY DEF LoneAndTrue, Inv, FindCandidate
<1>2. candidate = None /\ \A f \in Folds : FoldIsDone(f)
  BY <1>1 DEF LoneInv
<1>3. pc'[r] = "place" /\ UNCHANGED <<gens, candidate, outcome>>
  BY <1>1, <1>2, TypesOf DEF FindCandidate, GoTo
<1>4. \A f \in Folds : FoldIsDone(f)'
  BY <1>2, <1>3, SameDisk
<1> QED
  BY <1>1, <1>2, <1>3, <1>4 DEF LoneInv, InFit

LEMMA LonePlaces ==
    ASSUME NEW r \in Runners, LoneAndTrue(r), PlaceCandidate(r)
    PROVE  /\ LoneInv(r)' /\ gens' = gens
           /\ candidate = None /\ candidate' # None /\ \A f \in Folds : FoldIsDone(f)
<1>1. TypeOK /\ LoneInv(r) /\ pc[r] = "place" /\ RunnerIsTrue(r)
  BY DEF LoneAndTrue, Inv, PlaceCandidate
<1>2. candidate = None /\ \A f \in Folds : FoldIsDone(f)
  BY <1>1 DEF LoneInv
<1>3. /\ candidate' = fits[r] /\ pc'[r] = "clear" /\ UNCHANGED <<gens, outcome>>
  BY <1>1, <1>2, TypesOf DEF PlaceCandidate, GoTo
<1>4. fits[r] \in [Folds -> Fit]
  BY <1>1 DEF RunnerIsTrue, FoldComplete, TypeOK, MaybeFits
<1>5. candidate' # None
  BY <1>3, <1>4, CheckpointAssumption DEF Folds
<1> QED
  BY <1>1, <1>2, <1>3, <1>5 DEF LoneInv, InFit

LEMMA LoneClears ==
    ASSUME NEW r \in Runners, LoneAndTrue(r), ClearFits(r)
    PROVE  LoneInv(r)'
BY LoneLeaves DEF LoneAndTrue, Inv, ClearFits

LEMMA LoneStep ==
    ASSUME NEW r \in Runners, LoneAndTrue(r),
           \/ (Start(r) \/ Step(r)) /\ UNCHANGED <<loss, zero, crashes>>
           \/ Crash(r)
    PROVE  LoneInv(r)'
<1>1. CASE Crash(r)
  BY <1>1, LoneLeaves DEF LoneAndTrue, Inv, Crash
<1>2. CASE (Start(r) \/ Step(r)) /\ UNCHANGED <<loss, zero, crashes>>
  BY <1>2, LoneStarts, LoneLooksUp, LoneLists, LoneVerifies, LoneReads, LoneTrains, LoneFinds,
     LonePublishes, LoneChecks, LoneListsObsolete, LoneRemoves, LoneSaved, LoneFinishes,
     LoneFindsNoCandidate, LonePlaces, LoneClears DEF Step
<1> QED
  BY <1>1, <1>2

(* The invariant of a store that one runner has for itself.                *)
LoneStore == Inv /\ \A r \in Runners : LoneInv(r)

LEMMA LoneStoreStarts == Init => LoneStore
<1> SUFFICES ASSUME Init PROVE LoneStore
  OBVIOUS
<1>1. \A r \in Runners : pc[r] = "idle" /\ outcome[r] = "none"
  BY DEF Init
<1> QED
  BY <1>1, InitIsTrue DEF LoneStore, LoneInv, InFit

(* The only runner's step is the only step.                                *)
LEMMA LoneStoreHolds ==
    ASSUME Lone, LoneStore, [Next]_vars
    PROVE  LoneStore'
<1>1. CASE UNCHANGED vars
  <2>1. Inv'
    BY <1>1, StutterKeepsInv DEF LoneStore
  <2>2. \A f : FoldIsDone(f)' <=> FoldIsDone(f)
    BY <1>1, SameDisk DEF vars
  <2>3. ASSUME NEW r \in Runners PROVE LoneInv(r)'
    <3>1. LoneInv(r) /\ UNCHANGED <<gens, candidate, pc, fold, fit, pending, outcome>>
      BY <1>1 DEF LoneStore, vars
    <3> QED
      BY <2>2, <3>1 DEF LoneInv, ListedIsThere, FitIsNewest, Newest
  <2> QED
    BY <2>1, <2>3 DEF LoneStore
<1>2. CASE Next
  <2>1. PICK r \in Runners :
           \/ (Start(r) \/ Step(r)) /\ UNCHANGED <<loss, zero, crashes>>
           \/ Crash(r)
    BY <1>2 DEF Next
  <2>2. Inv'
    BY <2>1, StartKeepsInv, StepKeepsInv, CrashKeepsInv DEF LoneStore
  <2>3. LoneInv(r)'
    BY <2>1, LoneStep DEF LoneStore, LoneAndTrue
  <2>4. \A q \in Runners : q = r
    BY DEF Lone
  <2> QED
    BY <2>2, <2>3, <2>4 DEF LoneStore
<1> QED
  BY <1>1, <1>2

(* A runner that has its store for itself never refuses what it finds      *)
(* there, wherever it was killed before and however often.                 *)
THEOREM LoneRunnerIsNeverRefused ==
    ASSUME Lone
    PROVE  Spec => []LoneRunnerNeverRaises
<1>1. LoneStore => LoneRunnerNeverRaises
  BY DEF LoneStore, LoneInv, LoneRunnerNeverRaises
<1>2. LoneStore /\ [Next]_vars => LoneStore'
  BY LoneStoreHolds
<1> QED
  BY <1>1, <1>2, LoneStoreStarts, PTL DEF Spec

-----------------------------------------------------------------------------
(* A lone runner implements the training nobody interrupts.                *)

(* The abstract specification stops a fold where the fit loop stops it.    *)
LEMMA PromisedFinish ==
    ASSUME NEW f \in Folds
    PROVE  Promise!Finished(f) <=> StopsAt(loss[f], zero, Durable(f))
<1>1. \A curve, b, e : Promise!IsFirstMin(curve, b, e) <=> IsFirstMin(curve, b, e)
  BY DEF Promise!IsFirstMin, IsFirstMin
<1>2. \A curve, z, e : Promise!StopsAt(curve, z, e) <=> StopsAt(curve, z, e)
  BY <1>1 DEF Promise!StopsAt, StopsAt
<1> QED
  BY <1>2 DEF Promise!Finished

(* The rename of an epoch is the one step that trains.                     *)
LEMMA TrainIsPromised ==
    ASSUME NEW r \in Runners, LoneAndTrue(r), PublishGeneration(r), UNCHANGED <<loss, zero>>,
           TypeOK', NEW f \in Folds, f = fold[r]
    PROVE  Promise!Train(f)
<1>0. PICK e \in 0 .. MaxEpochs : e = fit[r].epoch
  BY TypesOf DEF LoneAndTrue, Inv
<1>1. TypeOK /\ pc[r] = "rename" /\ RunnerIsTrue(r)
  BY DEF LoneAndTrue, Inv, PublishGeneration
<1>2. /\ Newest(f, e - 1) /\ Newest(f, e)'
      /\ candidate = None /\ \A g \in 0 .. f - 1 : FoldIsDone(g)
      /\ \A g \in Folds \ {f} : gens'[g] = gens[g]
      /\ UNCHANGED <<candidate>>
  BY <1>0, LonePublishes DEF Newest
<1>3. /\ MaxEpochs \in Nat /\ e > 0 /\ e - 1 \in 0 .. MaxEpochs
      /\ Reaches(loss[f], zero, e)
  BY <1>0, <1>1, TypesOf DEF RunnerIsTrue, InFit, FitTrue
<1>4. NewestGivesDurable /\ NewestGivesDurable'
  BY <1>1, NewestIsDurable, PTL
<1>5. Durable(f) = e - 1
  BY <1>2, <1>3, <1>4 DEF NewestGivesDurable
<1>6. Durable(f)' = e
  BY <1>2, <1>3, <1>4 DEF NewestGivesDurable
<1>7. ~Promise!Finished(f)
  <2>1. ~StopsAt(loss[f], zero, e - 1)
    BY <1>3 DEF Reaches, StopsAt
  <2> QED
    BY <1>5, <2>1, PromisedFinish
<1>8. \A g \in 0 .. f - 1 : Promise!Finished(g)
  <2> SUFFICES ASSUME NEW g \in 0 .. f - 1 PROVE Promise!Finished(g)
    OBVIOUS
  <2>1. g \in Folds
    BY <1>3, CheckpointAssumption DEF Folds
  <2>2. PICK d \in 0 .. MaxEpochs : Newest(g, d) /\ StopsAt(loss[g], zero, d)
    BY <1>2 DEF FoldIsDone
  <2>3. Durable(g) = d
    BY <1>4, <2>1, <2>2 DEF NewestGivesDurable
  <2> QED
    BY <2>1, <2>2, <2>3, PromisedFinish
<1>9. ASSUME NEW g \in Folds
       PROVE  Durable(g)' = [[h \in Folds |-> Durable(h)] EXCEPT ![f] = @ + 1][g]
  <2>1. CASE g = f
    BY <1>3, <1>5, <1>6, <2>1
  <2>2. CASE g # f
    <3>1. gens'[g] = gens[g]
      BY <1>2, <2>2
    <3>2. Durable(g)' = Durable(g)
      BY <3>1 DEF Durable
    <3> QED
      BY <2>2, <3>2
  <2> QED
    BY <2>1, <2>2
<1>10. [h \in Folds |-> Durable(h)]' = [[h \in Folds |-> Durable(h)] EXCEPT ![f] = @ + 1]
  BY <1>9
<1> QED
  BY <1>2, <1>7, <1>8, <1>10 DEF Promise!Train

(* The sweep removes nothing that counts.                                  *)
LEMMA RemoveIsQuiet ==
    ASSUME NEW r \in Runners, LoneAndTrue(r), RemoveObsolete(r), UNCHANGED <<loss, zero>>,
           TypeOK'
    PROVE  UNCHANGED Promise!vars
<1>1. TypeOK
  BY DEF LoneAndTrue, Inv
<1>2. /\ Newest(fold[r], fit[r].epoch) /\ Newest(fold[r], fit[r].epoch)'
      /\ \A f \in Folds \ {fold[r]} : gens'[f] = gens[f]
      /\ UNCHANGED <<fold, fit, candidate>>
  BY LoneRemoves
<1>3. NewestGivesDurable /\ NewestGivesDurable'
  BY <1>1, NewestIsDurable, PTL
<1>4. fold[r] \in Folds /\ fit[r].epoch \in 0 .. MaxEpochs
  BY <1>1, TypesOf
<1>5. ASSUME NEW f \in Folds PROVE Durable(f)' = Durable(f)
  <2>1. CASE f = fold[r]
    BY <1>2, <1>3, <1>4, <2>1 DEF NewestGivesDurable
  <2>2. CASE f # fold[r]
    <3>1. gens'[f] = gens[f]
      BY <1>2, <2>2
    <3> QED
      BY <3>1 DEF Durable
  <2> QED
    BY <2>1, <2>2
<1>6. [f \in Folds |-> Durable(f)]' = [f \in Folds |-> Durable(f)]
  BY <1>5
<1> QED
  BY <1>2, <1>6 DEF Promise!vars

(* The candidate appears when every fold has its last epoch on disk.       *)
LEMMA PlaceIsPromised ==
    ASSUME NEW r \in Runners, LoneAndTrue(r), PlaceCandidate(r), UNCHANGED <<loss, zero>>
    PROVE  Promise!Publish
<1>1. TypeOK
  BY DEF LoneAndTrue, Inv
<1>2. /\ gens' = gens /\ candidate = None /\ candidate' # None
      /\ \A f \in Folds : FoldIsDone(f)
  BY LonePlaces
<1>3. NewestGivesDurable
  BY <1>1, NewestIsDurable
<1>4. ASSUME NEW f \in Folds PROVE Promise!Finished(f)
  <2>1. PICK d \in 0 .. MaxEpochs : Newest(f, d) /\ StopsAt(loss[f], zero, d)
    BY <1>2 DEF FoldIsDone
  <2>2. Durable(f) = d
    BY <1>3, <2>1 DEF NewestGivesDurable
  <2> QED
    BY <2>1, <2>2, PromisedFinish
<1>5. [f \in Folds |-> Durable(f)]' = [f \in Folds |-> Durable(f)]
  BY <1>2 DEF Durable
<1> QED
  BY <1>2, <1>4, <1>5 DEF Promise!Publish, Promise!Folds, Folds

(* Nothing else a runner does, a kill included, changes the disk.          *)
LEMMA OthersAreQuiet ==
    ASSUME NEW r \in Runners,
           \/ (Start(r) \/ Step(r)) /\ UNCHANGED <<loss, zero, crashes>>
           \/ Crash(r),
           ~PublishGeneration(r), ~RemoveObsolete(r), ~PlaceCandidate(r)
    PROVE  UNCHANGED <<gens, candidate, loss, zero>>
BY DEF Crash, Start, Step, LookUpCandidate, ListGenerations, VerifyGeneration, ReadGeneration,
       TrainEpoch, FindGeneration, CheckGeneration, ListObsolete, EpochSaved, FinishFold,
       FindCandidate, ClearFits, Fail, disk

LEMMA SameDiskIsQuiet ==
    ASSUME UNCHANGED <<gens, candidate, loss, zero>>
    PROVE  UNCHANGED Promise!vars
<1>1. [f \in Folds |-> Durable(f)]' = [f \in Folds |-> Durable(f)]
  BY DEF Durable
<1> QED
  BY <1>1 DEF Promise!vars

LEMMA StepIsPromised ==
    ASSUME Lone, LoneStore, [Next]_vars, TypeOK'
    PROVE  [Promise!Next]_(Promise!vars)
<1>1. CASE UNCHANGED vars
  BY <1>1, SameDiskIsQuiet DEF vars
<1>2. CASE Next
  <2>1. PICK r \in Runners :
           \/ (Start(r) \/ Step(r)) /\ UNCHANGED <<loss, zero, crashes>>
           \/ Crash(r)
    BY <1>2 DEF Next
  <2>2. LoneAndTrue(r) /\ fold[r] \in Folds /\ Folds = Promise!Folds
    BY DEF LoneStore, LoneAndTrue, Inv, TypeOK, Folds, Promise!Folds
  <2>3. UNCHANGED <<loss, zero>>
    BY <2>1 DEF Crash
  <2>4. CASE PublishGeneration(r)
    BY <2>2, <2>3, <2>4, TrainIsPromised DEF Promise!Next
  <2>5. CASE RemoveObsolete(r)
    BY <2>2, <2>3, <2>5, RemoveIsQuiet
  <2>6. CASE PlaceCandidate(r)
    BY <2>2, <2>3, <2>6, PlaceIsPromised DEF Promise!Next
  <2>7. CASE ~PublishGeneration(r) /\ ~RemoveObsolete(r) /\ ~PlaceCandidate(r)
    <3>1. UNCHANGED <<gens, candidate, loss, zero>>
      BY <2>1, <2>7, OthersAreQuiet
    <3> QED
      BY <3>1, SameDiskIsQuiet
  <2> QED
    BY <2>4, <2>5, <2>6, <2>7
<1> QED
  BY <1>1, <1>2

(* A lone runner that is killed and started again, any number of times,    *)
(* trains every durable epoch of every fold once, in order, none past the  *)
(* stopping epoch, and publishes when all folds have stopped.              *)
THEOREM LoneRunnerImplementsTraining ==
    ASSUME Lone
    PROVE  Spec => ImplementsTraining
<1>1. Init => Promise!Init
  BY DEF Init, Promise!Init, Durable, Folds, Promise!Folds
<1>2. LoneStore /\ [Next]_vars => LoneStore'
  BY LoneStoreHolds
<1>3. LoneStore /\ LoneStore' /\ [Next]_vars => [Promise!Next]_(Promise!vars)
  <2>1. LoneStore' => TypeOK'
    BY DEF LoneStore, Inv
  <2> QED
    BY <2>1, StepIsPromised
<1> QED
  BY <1>1, <1>2, <1>3, LoneStoreStarts, PTL DEF Spec, ImplementsTraining, Promise!Spec
=============================================================================
