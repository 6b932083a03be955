--------------------------- MODULE CrossfitProofs ---------------------------
(***************************************************************************)
(* Nothing is predicted by what has seen it, a run that is planned is      *)
(* refused only for a label that is too rare, and two overlapping groups   *)
(* are always spread over all folds: for any folds, tasks, cohorts and     *)
(* groups, and however the hashes break ties.                              *)
(***************************************************************************)
EXTENDS Crossfit, InductionTheorems, TLAPS

InFold == {"inner", "initializers", "seeds", "fit", "calibrate", "score"}

(* What BeginFold checked holds until the fold ends. *)
PartsInv == at \in InFold => Disjoint(Outer)

ComponentsInv ==
  at = "seeds" =>
    /\ Part("train") \cap External = {}
    /\ \A h \in DOMAIN components :
         /\ components[h].fit \cap components[h].holdout = {}
         /\ components[h].validation \cap components[h].holdout = {}
         /\ components[h].fit \subseteq Part("train")
         /\ components[h].validation \subseteq Part("train")

(* A seed has seen outer training tasks only, and not its own. *)
SeedsInv ==
  /\ \A t \in DOMAIN seeds : t \notin seeds[t]
  /\ at = "fit" /\ kind # "point" =>
       /\ Part("train") \cup External \subseteq DOMAIN seeds
       /\ \A t \in DOMAIN seeds : seeds[t] \subseteq Part("train")
  /\ at \in {"calibrate", "score"} /\ kind # "point" =>
       /\ Part("calibration") \cup Part("test") \subseteq DOMAIN seeds
       /\ \A t \in DOMAIN seeds : seeds[t] \subseteq Part("train")

SeenInv ==
  /\ at = "calibrate" => seen \subseteq Part("train") \cup Part("validation")
  /\ at = "score" =>
       seen \subseteq Part("train") \cup Part("validation") \cup Part("calibration")

ForecastsInv == \A r \in forecasts : r.task \notin r.seen

Inv == PartsInv /\ ComponentsInv /\ SeedsInv /\ SeenInv /\ ForecastsInv

-----------------------------------------------------------------------------
(* The parts of an outer fold are disjoint once FoldPartition accepts them. *)
LEMMA PartsAreDisjoint ==
  ASSUME Disjoint(Outer)
  PROVE  \A r, s \in Roles : r # s => Part(r) \cap Part(s) = {}
<1>1. DOMAIN Outer = Roles
  BY DEF Outer, OuterPartition, Roles
<1> QED
  BY <1>1 DEF Disjoint, Part

(* What SeedOf gives is inside the outer training tasks. *)
LEMMA SeedOfPart ==
  ASSUME SeedsInv, at \in {"calibrate", "score"}, NEW t,
         t \in Part("calibration") \cup Part("test")
  PROVE  SeedOf(t) \subseteq Part("train")
<1>1. CASE kind = "point"
  BY <1>1 DEF SeedOf
<1>2. CASE kind # "point"
  BY <1>2 DEF SeedOf, SeedsInv
<1> QED
  BY <1>1, <1>2

LEMMA RefusedKeepsInv ==
  ASSUME Inv, NEW stage \in {"no_plan", "refused"}, Refuse(stage)
  PROVE  Inv'
BY DEF Inv, Refuse, runVars, PartsInv, ComponentsInv, SeedsInv, SeenInv, ForecastsInv,
       InFold

LEMMA InitInv == Init => Inv
BY DEF Init, Inv, PartsInv, ComponentsInv, SeedsInv, SeenInv, ForecastsInv, InFold

-----------------------------------------------------------------------------
(* Planning a fold changes nothing that the invariant speaks of. *)
LEMMA PlanningKeepsInv ==
  ASSUME Inv, AssignOuter \/ BindOuter \/ AssignInner \/ BindInner \/ Finish
  PROVE  Inv'
<1>1. CASE AssignOuter
  BY <1>1 DEF AssignOuter, Inv, runVars, PartsInv, ComponentsInv, SeedsInv, SeenInv,
              ForecastsInv, InFold
<1>2. CASE BindOuter
  <2>1. CASE Refuse("no_plan")
    BY <2>1, RefusedKeepsInv
  <2>2. CASE ~Refuse("no_plan")
    BY <1>2, <2>2 DEF BindOuter, Inv, runVars, PartsInv, ComponentsInv, SeedsInv,
                      SeenInv, ForecastsInv, InFold
  <2> QED
    BY <2>1, <2>2
<1>3. CASE AssignInner
  <2>1. CASE Refuse("no_plan")
    BY <2>1, RefusedKeepsInv
  <2>2. CASE ~Refuse("no_plan")
    <3>1. UNCHANGED <<kind, cohort, outer, at, fold, runVars, scored>>
      BY <1>3, <2>2 DEF AssignInner
    <3> QED
      BY <1>3, <3>1 DEF AssignInner, Inv, runVars, PartsInv, ComponentsInv, SeedsInv,
                        SeenInv, ForecastsInv, InFold, Outer, Part, Present, External
  <2> QED
    BY <2>1, <2>2
<1>4. CASE BindInner
  <2>1. CASE Refuse("no_plan")
    BY <2>1, RefusedKeepsInv
  <2>2. CASE ~Refuse("no_plan")
    <3>1. /\ at = "inner"
          /\ \/ kind = "point" /\ at' = "fit"
             \/ at' = "initializers"
          /\ UNCHANGED <<kind, cohort, outer, fold, runVars, scored>>
      BY <1>4, <2>2 DEF BindInner
    <3> QED
      BY <3>1 DEF Inv, runVars, PartsInv, ComponentsInv, SeedsInv, SeenInv,
                  ForecastsInv, InFold, Outer
  <2> QED
    BY <2>1, <2>2
<1>5. CASE Finish
  <2>1. CASE Refuse("refused")
    BY <2>1, RefusedKeepsInv
  <2>2. CASE ~Refuse("refused")
    BY <1>5, <2>2 DEF Finish, Inv, runVars, PartsInv, ComponentsInv, SeedsInv,
                      SeenInv, ForecastsInv, InFold
  <2> QED
    BY <2>1, <2>2
<1> QED
  BY <1>1, <1>2, <1>3, <1>4, <1>5

(* A fold begins with disjoint parts and no seeds. *)
LEMMA BeginFoldKeepsInv ==
  ASSUME Inv, BeginFold
  PROVE  Inv'
<1>1. CASE Refuse("refused")
  BY <1>1, RefusedKeepsInv
<1>2. CASE ~Refuse("refused")
  <2>1. /\ Disjoint(Outer)
        /\ at' = "inner"
        /\ UNCHANGED <<kind, cohort, outer, inner, fold, runVars, scored>>
    BY <1>2 DEF BeginFold
  <2> QED
    BY <2>1 DEF Inv, runVars, PartsInv, ComponentsInv, SeedsInv, SeenInv, ForecastsInv,
                InFold, Outer
<1> QED
  BY <1>1, <1>2

(* The projection of an accepted inner partition is disjoint, and inside   *)
(* the outer training tasks.                                               *)
LEMMA FitInitializersKeepsInv ==
  ASSUME Inv, FitInitializers
  PROVE  Inv'
<1>1. CASE Refuse("refused")
  BY <1>1, RefusedKeepsInv
<1>2. CASE ~Refuse("refused")
  <2>1. /\ \A h \in FoldsOf(InnerFolds) : Fittable(Projected(h))
        /\ components' = [h \in FoldsOf(InnerFolds) |-> Projected(h)]
        /\ at = "initializers" /\ at' = "seeds"
        /\ UNCHANGED <<kind, cohort, outer, fold, seeds, seen, forecasts, scored>>
    BY <1>2 DEF FitInitializers
  <2>2. Disjoint(Outer)
    BY <2>1 DEF Inv, PartsInv, InFold
  <2>3. Part("train") \cap External = {}
    BY <2>2, PartsAreDisjoint DEF External, Roles
  <2>4. ASSUME NEW h \in FoldsOf(InnerFolds)
        PROVE  /\ Projected(h).fit \cap Projected(h).holdout = {}
               /\ Projected(h).validation \cap Projected(h).holdout = {}
               /\ Projected(h).fit \subseteq Part("train")
               /\ Projected(h).validation \subseteq Part("train")
    <3>1. DOMAIN Projected(h) = {"fit", "validation", "holdout"}
      BY DEF Projected, InnerPartition
    <3>2. Disjoint(Projected(h))
      BY <2>1 DEF Fittable
    <3>3. /\ Projected(h).fit \cap Projected(h).holdout = {}
          /\ Projected(h).validation \cap Projected(h).holdout = {}
      BY <3>1, <3>2 DEF Disjoint
    <3>4. /\ Projected(h).fit \subseteq Part("train")
          /\ Projected(h).validation \subseteq Part("train")
      BY DEF Projected, InnerPartition
    <3> QED
      BY <3>3, <3>4
  <2>5. ComponentsInv'
    <3>1. (Part("train") \cap External = {})'
      BY <2>1, <2>3 DEF Part, External, Outer, Present
    <3>2. Part("train")' = Part("train")
      BY <2>1 DEF Part, Outer, Present
    <3> QED
      BY <2>1, <2>4, <3>1, <3>2 DEF ComponentsInv
  <2> QED
    BY <2>1, <2>2, <2>5 DEF Inv, PartsInv, SeedsInv, SeenInv, ForecastsInv, InFold, Outer
<1> QED
  BY <1>1, <1>2

(* The component that held a training task out has not seen it; the other  *)
(* tasks are outside all components.                                       *)
LEMMA GenerateSeedsKeepsInv ==
  ASSUME Inv, GenerateSeeds
  PROVE  Inv'
<1>1. CASE Refuse("refused")
  BY <1>1, RefusedKeepsInv
<1>2. CASE ~Refuse("refused")
  <2> DEFINE Seen(t) == UNION {components[h].fit \cup components[h].validation :
                                 h \in Producers(t)}
  <2>1. /\ seeds' = [t \in Part("train") \cup External |-> Seen(t)]
        /\ at = "seeds" /\ at' = "fit"
        /\ UNCHANGED <<kind, cohort, outer, inner, fold, seen, forecasts, scored>>
    BY <1>2 DEF GenerateSeeds
  <2>2. ComponentsInv /\ Disjoint(Outer)
    BY <2>1 DEF Inv, PartsInv, InFold
  <2>3. ASSUME NEW t \in Part("train") \cup External
        PROVE  Seen(t) \subseteq Part("train") /\ t \notin Seen(t)
    <3>1. Producers(t) \subseteq DOMAIN components
      BY DEF Producers
    <3>2. Seen(t) \subseteq Part("train")
      BY <2>1, <2>2, <3>1 DEF ComponentsInv
    <3>3. CASE t \in Part("train")
      <4>1. \A h \in Producers(t) : h \in DOMAIN components /\ t \in components[h].holdout
        BY <3>3 DEF Producers
      <4>2. \A h \in Producers(t) : t \notin components[h].fit \cup components[h].validation
        BY <2>1, <2>2, <4>1 DEF ComponentsInv
      <4> QED
        BY <3>2, <4>2
    <3>4. CASE t \notin Part("train")
      BY <3>2, <3>4
    <3> QED
      BY <3>2, <3>3, <3>4
  <2> HIDE DEF Seen
  <2>4. /\ DOMAIN seeds' = Part("train") \cup External
        /\ \A t \in DOMAIN seeds' : seeds'[t] \subseteq Part("train") /\ t \notin seeds'[t]
    BY <2>1, <2>3
  <2>5. Part("train")' = Part("train") /\ External' = External
    BY <2>1 DEF Part, External, Outer, Present
  <2>6. SeedsInv'
    BY <2>1, <2>4, <2>5 DEF SeedsInv
  <2> QED
    BY <2>1, <2>2, <2>6 DEF Inv, PartsInv, ComponentsInv, SeenInv, ForecastsInv, InFold,
                            Outer
<1> QED
  BY <1>1, <1>2

(* The model has seen its training and validation tasks, and by their      *)
(* seeds no more than the training tasks.                                  *)
LEMMA FitModelKeepsInv ==
  ASSUME Inv, FitModel
  PROVE  Inv'
<1>1. CASE Refuse("refused")
  BY <1>1, RefusedKeepsInv
<1>2. CASE ~Refuse("refused")
  <2> DEFINE learns == Part("train") \cup Part("validation")
  <2>1. /\ seen' = learns \cup UNION {SeedOf(t) : t \in learns}
        /\ seeds' = [t \in DOMAIN seeds \ learns |-> seeds[t]]
        /\ at = "fit" /\ at' = "calibrate"
        /\ UNCHANGED <<kind, cohort, outer, inner, fold, components, forecasts, scored>>
    BY <1>2 DEF FitModel
  <2>2. Disjoint(Outer) /\ SeedsInv
    BY <2>1 DEF Inv, PartsInv, InFold
  <2>3. \A r \in Roles : Part(r)' = Part(r)
    BY <2>1 DEF Part, Outer, Present
  <2>4. \A t \in learns : SeedOf(t) \subseteq Part("train")
    <3>1. CASE kind = "point"
      BY <3>1 DEF SeedOf
    <3>2. CASE kind # "point"
      BY <2>1, <2>2, <3>2 DEF SeedOf, SeedsInv, External
    <3> QED
      BY <3>1, <3>2
  <2>5. seen' \subseteq learns
    BY <2>1, <2>4
  <2>6. SeenInv'
    BY <2>1, <2>3, <2>5 DEF SeenInv, Roles
  <2>7. (Part("calibration") \cup Part("test")) \cap learns = {}
    BY <2>2, PartsAreDisjoint DEF Roles
  <2>8. SeedsInv'
    <3>1. \A t \in DOMAIN seeds' : t \in DOMAIN seeds /\ seeds'[t] = seeds[t]
      BY <2>1
    <3>2. CASE kind = "point"
      BY <2>1, <2>2, <3>1, <3>2 DEF SeedsInv
    <3>3. CASE kind # "point"
      <4>1. Part("calibration") \cup Part("test") \subseteq DOMAIN seeds'
        BY <2>1, <2>2, <2>7, <3>3 DEF SeedsInv, External
      <4> QED
        BY <2>1, <2>2, <2>3, <3>1, <3>3, <4>1 DEF SeedsInv, Roles
    <3> QED
      BY <3>2, <3>3
  <2> QED
    BY <2>1, <2>2, <2>6, <2>8 DEF Inv, PartsInv, ComponentsInv, ForecastsInv, InFold, Outer
<1> QED
  BY <1>1, <1>2

(* A forecast for calibration or test comes from models that have seen     *)
(* only the parts before it.                                               *)
LEMMA ForecastKeepsInv ==
  ASSUME Inv, Calibrate \/ ScoreTest
  PROVE  Inv'
<1>1. CASE Refuse("refused")
  BY <1>1, RefusedKeepsInv
<1>2. CASE Calibrate /\ ~Refuse("refused")
  <2>1. /\ forecasts' = {Forecast(t) : t \in Part("calibration")}
        /\ seen' = seen \cup Part("calibration")
        /\ at = "calibrate" /\ at' = "score"
        /\ UNCHANGED <<kind, cohort, outer, inner, fold, components, seeds, scored>>
    BY <1>2 DEF Calibrate
  <2>2. Disjoint(Outer) /\ SeedsInv /\ SeenInv
    BY <2>1 DEF Inv, PartsInv, InFold
  <2>3. \A r \in Roles : Part(r)' = Part(r)
    BY <2>1 DEF Part, Outer, Present
  <2>4. ForecastsInv'
    <3>1. ASSUME NEW t \in Part("calibration")
          PROVE  t \notin seen \cup SeedOf(t)
      <4>1. SeedOf(t) \subseteq Part("train")
        BY <2>1, <2>2, SeedOfPart
      <4>2. seen \subseteq Part("train") \cup Part("validation")
        BY <2>1, <2>2 DEF SeenInv
      <4> QED
        BY <2>2, <4>1, <4>2, PartsAreDisjoint DEF Roles
    <3> QED
      BY <2>1, <3>1 DEF ForecastsInv, Forecast
  <2>5. SeenInv'
    BY <2>1, <2>2, <2>3 DEF SeenInv, Roles
  <2>6. SeedsInv'
    BY <2>1, <2>2, <2>3 DEF SeedsInv, Roles
  <2> QED
    BY <2>1, <2>2, <2>4, <2>5, <2>6 DEF Inv, PartsInv, ComponentsInv, InFold, Outer
<1>3. CASE ScoreTest /\ ~Refuse("refused")
  <2>1. /\ forecasts' = {Forecast(t) : t \in Part("test")}
        /\ at = "score" /\ at' = "fold"
        /\ seeds' = <<>>
    BY <1>3 DEF ScoreTest
  <2>2. Disjoint(Outer) /\ SeedsInv /\ SeenInv
    BY <2>1 DEF Inv, PartsInv, InFold
  <2>3. ASSUME NEW t \in Part("test")
        PROVE  t \notin seen \cup SeedOf(t)
    <3>1. SeedOf(t) \subseteq Part("train")
      BY <2>1, <2>2, SeedOfPart
    <3>2. seen \subseteq Part("train") \cup Part("validation") \cup Part("calibration")
      BY <2>1, <2>2 DEF SeenInv
    <3> QED
      BY <2>2, <3>1, <3>2, PartsAreDisjoint DEF Roles
  <2>4. ForecastsInv'
    BY <2>1, <2>3 DEF ForecastsInv, Forecast
  <2> QED
    BY <2>1, <2>4 DEF Inv, PartsInv, ComponentsInv, SeedsInv, SeenInv, InFold
<1> QED
  BY <1>1, <1>2, <1>3

(* The invariant is inductive. *)
THEOREM Safety == Spec => []Inv
<1>1. Inv /\ [Next]_vars => Inv'
  <2>1. ASSUME Inv, Next PROVE Inv'
    BY <2>1, PlanningKeepsInv, BeginFoldKeepsInv, FitInitializersKeepsInv,
       GenerateSeedsKeepsInv, FitModelKeepsInv, ForecastKeepsInv DEF Next
  <2>2. ASSUME Inv, UNCHANGED vars PROVE Inv'
    BY <2>2 DEF vars, runVars, Inv, PartsInv, ComponentsInv, SeedsInv, SeenInv,
                ForecastsInv, Outer, Part, Present, External
  <2> QED
    BY <2>1, <2>2
<1> QED
  BY InitInv, <1>1, PTL DEF Spec

(* NothingSeesItsTest, for every number of folds and every assignment of   *)
(* tasks to them.                                                          *)
THEOREM NothingLeaks == Spec => []NothingSeesItsTest
<1>1. Inv => NothingSeesItsTest
  BY DEF Inv, SeedsInv, ForecastsInv, NothingSeesItsTest
<1> QED
  BY Safety, <1>1, PTL

-----------------------------------------------------------------------------
(* The greedy assignment.  A group of tasks is spread over the folds while *)
(* no two of its tasks share a fold, as long as a fold has none of them.   *)
Sharing(S, a) ==
  \E t, u \in S \cap DOMAIN a : t # u /\ a[t] = a[u]

Spread(S, a, n) ==
  Sharing(S, a) => \A f \in FoldsOf(n) : S \cap On(a, f) # {}

(* The two groups of labels, inside the tasks that are assigned. *)
TwoGroups(groups, tasks) ==
  /\ IsFiniteSet(Tasks) /\ tasks \subseteq Tasks
  /\ groups \in [{"pre", "update"} -> SUBSET tasks]

Both(groups) == groups["pre"] \cap groups["update"]

(* The tasks of both groups are assigned first. *)
Placement(a, tasks, groups, n) ==
  /\ DOMAIN a \subseteq tasks
  /\ a \in [DOMAIN a -> FoldsOf(n)]
  /\ \A g \in {"pre", "update"} : Spread(groups[g], a, n)
  /\ Both(groups) \subseteq DOMAIN a \/ DOMAIN a \subseteq Both(groups)

(* Pairs are compared like words. *)
LEMMA PairsBefore ==
  ASSUME NEW a, NEW b, NEW c, NEW d
  PROVE  Before(<<a, b>>, <<c, d>>) <=> a < c \/ (a = c /\ b < d)
<1>1. DOMAIN <<a, b>> = {1, 2}
  OBVIOUS
<1>2. 1 .. 1 - 1 = {} /\ 1 .. 2 - 1 = {1}
  OBVIOUS
<1> QED
  BY <1>1, <1>2 DEF Before

(* Of triples that are not before each other the heads are not either. *)
LEMMA TriplesBefore ==
  ASSUME NEW a, NEW b, NEW c, NEW d, NEW e, NEW f, ~Before(<<a, b, c>>, <<d, e, f>>)
  PROVE  ~(a < d)
<1>1. 1 \in DOMAIN <<a, b, c>> /\ 1 .. 1 - 1 = {}
  OBVIOUS
<1>2. <<a, b, c>>[1] = a /\ <<d, e, f>>[1] = d
  OBVIOUS
<1> QED
  BY <1>1, <1>2 DEF Before

(* Where a task stands: its groups' smallest size, and how many they are. *)
LEMMA RankOf ==
  ASSUME NEW tasks, NEW groups, TwoGroups(groups, tasks), NEW t \in tasks
  PROVE  LET p == Cardinality(groups["pre"])
             u == Cardinality(groups["update"])
             n == Cardinality(Tasks) + 1
             least == IF p <= u THEN p ELSE u
         IN  /\ p \in Nat /\ u \in Nat /\ n \in Nat /\ p < n /\ u < n
             /\ Rank(t, groups) =
                  IF t \in Both(groups) THEN <<least, -2>>
                  ELSE IF t \in groups["pre"] THEN <<p, -1>>
                  ELSE IF t \in groups["update"] THEN <<u, -1>>
                  ELSE <<n, 0>>
<1> DEFINE p == Cardinality(groups["pre"])
           u == Cardinality(groups["update"])
           n == Cardinality(Tasks) + 1
           least == IF p <= u THEN p ELSE u
           of == GroupsOf(t, groups)
           sizes == {Cardinality(groups[g]) : g \in of} \cup {n}
<1>1. p \in Nat /\ u \in Nat /\ n \in Nat /\ p < n /\ u < n
  <2>1. groups["pre"] \in SUBSET Tasks /\ groups["update"] \in SUBSET Tasks
    BY DEF TwoGroups
  <2>2. IsFiniteSet(Tasks)
    BY DEF TwoGroups
  <2>3. /\ IsFiniteSet(groups["pre"]) /\ p <= Cardinality(Tasks)
        /\ IsFiniteSet(groups["update"]) /\ u <= Cardinality(Tasks)
    BY <2>1, <2>2, FS_Subset
  <2>4. p \in Nat /\ u \in Nat /\ Cardinality(Tasks) \in Nat
    BY <2>2, <2>3, FS_CardinalityType
  <2> QED
    BY <2>3, <2>4
<1>2. DOMAIN groups = {"pre", "update"}
  BY DEF TwoGroups
<1>3. Rank(t, groups) = <<Min(sizes), -Cardinality(of)>>
  BY DEF Rank
<1>4. ASSUME NEW m \in sizes, \A k \in sizes : m <= k, sizes \subseteq Nat
      PROVE  Min(sizes) = m
  <2> HIDE DEF sizes
  <2>1. Min(sizes) \in sizes /\ \A k \in sizes : Min(sizes) <= k
    BY <1>4 DEF Min
  <2>2. PICK k \in Nat : k = Min(sizes)
    BY <1>4, <2>1
  <2>3. m <= k /\ k <= m /\ m \in Nat
    BY <1>4, <2>1, <2>2
  <2> QED
    BY <2>2, <2>3
<1>5. CASE t \in Both(groups)
  <2>1. of = {"pre", "update"}
    BY <1>2, <1>5 DEF GroupsOf, Both
  <2>2. sizes = {p, u, n}
    BY <2>1
  <2>3. Min(sizes) = least
    <3>1. least \in sizes /\ (\A k \in sizes : least <= k) /\ sizes \subseteq Nat
      BY <1>1, <2>2
    <3> QED
      BY <1>4, <3>1
  <2>4. Cardinality(of) = 2
    <3>1. of = {"pre"} \cup {"update"} /\ "update" \notin {"pre"}
      BY <2>1
    <3>2. IsFiniteSet({"pre"}) /\ Cardinality({"pre"}) = 1
      BY FS_Singleton
    <3>3. Cardinality({"pre"} \cup {"update"}) = 1 + 1
      BY <3>1, <3>2, FS_AddElement
    <3> QED
      BY <3>1, <3>3
  <2> QED
    BY <1>1, <1>3, <1>5, <2>3, <2>4
<1>6. CASE t \in groups["pre"] /\ t \notin groups["update"]
  <2>1. of = {"pre"}
    BY <1>2, <1>6 DEF GroupsOf
  <2>2. sizes = {p, n}
    BY <2>1
  <2>3. Min(sizes) = p
    <3>1. p \in sizes /\ (\A k \in sizes : p <= k) /\ sizes \subseteq Nat
      BY <1>1, <2>2
    <3> QED
      BY <1>4, <3>1
  <2>4. Cardinality(of) = 1
    BY <2>1, FS_Singleton
  <2> QED
    BY <1>1, <1>3, <1>6, <2>3, <2>4 DEF Both
<1>7. CASE t \notin groups["pre"] /\ t \in groups["update"]
  <2>1. of = {"update"}
    BY <1>2, <1>7 DEF GroupsOf
  <2>2. sizes = {u, n}
    BY <2>1
  <2>3. Min(sizes) = u
    <3>1. u \in sizes /\ (\A k \in sizes : u <= k) /\ sizes \subseteq Nat
      BY <1>1, <2>2
    <3> QED
      BY <1>4, <3>1
  <2>4. Cardinality(of) = 1
    BY <2>1, FS_Singleton
  <2> QED
    BY <1>1, <1>3, <1>7, <2>3, <2>4 DEF Both
<1>8. CASE t \notin groups["pre"] /\ t \notin groups["update"]
  <2>1. of = {}
    BY <1>2, <1>8 DEF GroupsOf
  <2>2. sizes = {n}
    BY <2>1
  <2>3. Min(sizes) = n
    <3>1. n \in sizes /\ (\A k \in sizes : n <= k) /\ sizes \subseteq Nat
      BY <1>1, <2>2
    <3> QED
      BY <1>4, <3>1
  <2>4. Cardinality(of) = 0
    BY <2>1, FS_EmptySet
  <2> QED
    BY <1>1, <1>3, <1>8, <2>3, <2>4 DEF Both
<1> QED
  BY <1>5, <1>6, <1>7, <1>8 DEF Both

(* No other task is taken while a task of both groups is left. *)
LEMMA NextIsOfBoth ==
  ASSUME NEW a, NEW tasks, NEW groups, TwoGroups(groups, tasks),
         NEW t \in FirstTasks(a, tasks, groups)
  PROVE  /\ t \in tasks \ DOMAIN a
         /\ t \in Both(groups) \/ Both(groups) \subseteq DOMAIN a
<1>1. /\ t \in tasks \ DOMAIN a
      /\ \A u \in tasks \ DOMAIN a : ~Before(Rank(u, groups), Rank(t, groups))
  BY DEF FirstTasks
<1>2. ASSUME NEW u \in Both(groups), u \notin DOMAIN a, t \notin Both(groups)
      PROVE  FALSE
  <2>1. u \in tasks \ DOMAIN a
    BY <1>2 DEF Both, TwoGroups
  <2>2. PICK i \in Nat, j \in Nat, k \in {-1, 0} :
          Rank(u, groups) = <<i, -2>> /\ Rank(t, groups) = <<j, k>> /\ i <= j
    BY <1>1, <1>2, <2>1, RankOf
  <2>3. i < j \/ (i = j /\ -2 < k)
    BY <2>2
  <2> QED
    BY <1>1, <2>1, <2>2, <2>3, PairsBefore
<1> QED
  BY <1>1, <1>2

(* The chosen fold has no task of a group of t, if some fold has none.     *)
LEMMA BestIsFree ==
  ASSUME NEW a, NEW tasks, NEW groups, TwoGroups(groups, tasks), NEW n \in Nat,
         Placement(a, tasks, groups, n), NEW t \in tasks \ DOMAIN a,
         NEW f \in BestFolds(t, a, groups, n),
         NEW g \in {"pre", "update"}, t \in groups[g],
         NEW e \in FoldsOf(n), groups[g] \cap On(a, e) = {}
  PROVE  groups[g] \cap On(a, f) = {}
<1> DEFINE Count(h, x) == Cardinality(groups[h] \cap On(a, x))
           Counts(x) == {Count(h, x) : h \in GroupsOf(t, groups)} \cup {0}
<1>1. /\ DOMAIN groups = {"pre", "update"}
      /\ GroupsOf(t, groups) \subseteq {"pre", "update"}
      /\ g \in GroupsOf(t, groups)
  BY DEF TwoGroups, GroupsOf
<1>2. IsFiniteSet(Tasks) /\ Cardinality(Tasks) \in Nat
  BY FS_CardinalityType DEF TwoGroups
<1>3. ASSUME NEW x, NEW h \in {"pre", "update"}
      PROVE  /\ IsFiniteSet(groups[h] \cap On(a, x))
             /\ Count(h, x) \in 0..Cardinality(Tasks)
  <2>1. groups[h] \cap On(a, x) \in SUBSET Tasks
    BY DEF TwoGroups
  <2>2. /\ IsFiniteSet(groups[h] \cap On(a, x))
        /\ Count(h, x) <= Cardinality(Tasks)
    BY <1>2, <2>1, FS_Subset
  <2>3. Count(h, x) \in Nat
    BY <2>2, FS_CardinalityType
  <2> QED
    BY <1>2, <2>2, <2>3
<1>4. Max(Counts(e)) = 0
  <2>1. \A h \in GroupsOf(t, groups) : groups[h] \cap On(a, e) = {}
    <3>1. SUFFICES ASSUME NEW h \in GroupsOf(t, groups), h # g
                   PROVE  groups[h] \cap On(a, e) = {}
      OBVIOUS
    <3>2. t \in Both(groups)
      BY <1>1, <3>1 DEF GroupsOf, Both
    <3>3. DOMAIN a \subseteq groups[g]
      BY <3>2 DEF Placement, Both
    <3> QED
      BY <3>3 DEF On
  <2>2. \A h \in GroupsOf(t, groups) : Count(h, e) = 0
    BY <2>1, FS_EmptySet
  <2>3. Counts(e) = {0}
    BY <2>2
  <2> HIDE DEF Counts
  <2> QED
    BY <2>3 DEF Max
<1>5. /\ Counts(f) \subseteq 0..Cardinality(Tasks)
      /\ 0 \in Counts(f)
      /\ Count(g, f) \in Counts(f)
  <2>1. \A h \in GroupsOf(t, groups) : Count(h, f) \in 0..Cardinality(Tasks)
    BY <1>1, <1>3
  <2>2. 0 \in 0..Cardinality(Tasks)
    BY <1>2
  <2> HIDE DEF Count
  <2> QED
    BY <1>1, <2>1, <2>2
<1>6. f \in FoldsOf(n) /\ ~Before(Score(t, e, a, groups), Score(t, f, a, groups))
  BY DEF BestFolds
<1>7. ~(Max(Counts(e)) < Max(Counts(f)))
  <2>1. \A x : \E k : Score(t, x, a, groups) = <<Max(Counts(x)), k, Cardinality(On(a, x))>>
    BY DEF Score
  <2> HIDE DEF Counts
  <2> QED
    BY <1>6, <2>1, TriplesBefore
<1> HIDE DEF Counts
<1>8. Max(Counts(f)) \in Counts(f) /\ \A y \in Counts(f) : Max(Counts(f)) >= y
  <2>1. \E x \in Counts(f) : \A y \in Counts(f) : x >= y
    BY <1>2, <1>5, BoundedExtremes
  <2> QED
    BY <2>1 DEF Max
<1>9. Max(Counts(f)) \in Nat /\ Max(Counts(f)) >= Count(g, f) /\ Count(g, f) \in Nat
  BY <1>2, <1>3, <1>5, <1>8
<1>10. Count(g, f) = 0
  <2> HIDE DEF Count
  <2> QED
    BY <1>4, <1>7, <1>9
<1> QED
  BY <1>3, <1>10, FS_EmptySet

(* A group stays spread, if a task of it goes to a fold that has none of   *)
(* it as long as there is one.                                             *)
LEMMA PlaceKeepsSpread ==
  ASSUME NEW S, NEW a, NEW n, Spread(S, a, n), NEW t, t \notin DOMAIN a, NEW f,
         t \in S => \A e \in FoldsOf(n) : S \cap On(a, e) = {} => S \cap On(a, f) = {},
         NEW b, b = [u \in DOMAIN a \cup {t} |-> IF u = t THEN f ELSE a[u]]
  PROVE  Spread(S, b, n)
<1>1. SUFFICES ASSUME Sharing(S, b), NEW e \in FoldsOf(n), S \cap On(b, e) = {}
               PROVE  FALSE
  BY DEF Spread
<1>2. /\ DOMAIN b = DOMAIN a \cup {t} /\ b[t] = f
      /\ \A u \in DOMAIN a : b[u] = a[u]
  OBVIOUS
<1>3. S \cap On(a, e) = {}
  BY <1>1, <1>2 DEF On
<1>4. ~Sharing(S, a)
  BY <1>3 DEF Spread
<1>5. PICK x, y \in S \cap DOMAIN b : x # y /\ b[x] = b[y]
  BY <1>1 DEF Sharing
<1>6. x = t \/ y = t
  BY <1>2, <1>4, <1>5 DEF Sharing
<1>7. PICK z \in S \cap DOMAIN a : a[z] = f /\ t \in S
  BY <1>2, <1>5, <1>6
<1>8. S \cap On(a, f) = {}
  BY <1>3, <1>7
<1> QED
  BY <1>7, <1>8 DEF On

(* What one step of _balanced_assignments preserves. *)
LEMMA PlaceNext ==
  ASSUME NEW a, NEW tasks, NEW groups, TwoGroups(groups, tasks), NEW n \in Nat,
         Placement(a, tasks, groups, n), NEW t \in FirstTasks(a, tasks, groups),
         NEW f \in BestFolds(t, a, groups, n),
         NEW b, b = [u \in DOMAIN a \cup {t} |-> IF u = t THEN f ELSE a[u]]
  PROVE  Placement(b, tasks, groups, n)
<1>1. t \in tasks \ DOMAIN a /\ (t \in Both(groups) \/ Both(groups) \subseteq DOMAIN a)
  BY NextIsOfBoth
<1>2. DOMAIN b = DOMAIN a \cup {t} /\ DOMAIN b \subseteq tasks
  BY <1>1 DEF Placement
<1>3. f \in FoldsOf(n)
  BY DEF BestFolds
<1>4. b \in [DOMAIN b -> FoldsOf(n)]
  BY <1>2, <1>3 DEF Placement
<1>5. ASSUME NEW g \in {"pre", "update"}
      PROVE  Spread(groups[g], b, n)
  <2>1. Spread(groups[g], a, n)
    BY DEF Placement
  <2>2. t \in groups[g] =>
          \A e \in FoldsOf(n) : groups[g] \cap On(a, e) = {} => groups[g] \cap On(a, f) = {}
    BY <1>1, BestIsFree
  <2> QED
    BY <1>1, <2>1, <2>2, PlaceKeepsSpread
<1>6. Both(groups) \subseteq DOMAIN b \/ DOMAIN b \subseteq Both(groups)
  BY <1>1, <1>2 DEF Placement
<1> QED
  BY <1>2, <1>4, <1>5, <1>6 DEF Placement

(* A group that is large enough reaches every fold: were one left out, two *)
(* tasks of the group would share another.                                 *)
LEMMA PlacedCovers ==
  ASSUME NEW a, NEW tasks, NEW groups, TwoGroups(groups, tasks),
         NEW n \in Nat, Placement(a, tasks, groups, n), DOMAIN a = tasks,
         \A g \in {"pre", "update"} : Cardinality(groups[g]) >= n
  PROVE  Covers(a, groups, n)
<1>1. ASSUME NEW g \in {"pre", "update"}, NEW e \in FoldsOf(n),
             groups[g] \cap On(a, e) = {}
      PROVE  FALSE
  <2> DEFINE others == FoldsOf(n) \ {e}
             place == [t \in groups[g] |-> a[t]]
  <2>1. groups[g] \subseteq tasks /\ IsFiniteSet(groups[g])
    BY FS_Subset DEF TwoGroups
  <2>2. IsFiniteSet(others) /\ Cardinality(others) = n - 1
    <3>1. IsFiniteSet(0 .. n - 1) /\ Cardinality(0 .. n - 1) = n
      BY FS_Interval DEF FoldsOf
    <3> QED
      BY <3>1, FS_RemoveElement DEF FoldsOf
  <2>3. place \in [groups[g] -> others]
    BY <1>1, <2>1 DEF Placement, On
  <2>4. Cardinality(others) < Cardinality(groups[g])
    <3>1. Cardinality(groups[g]) \in Nat
      BY <2>1, FS_CardinalityType
    <3> QED
      BY <2>2, <3>1
  <2> HIDE DEF others, place
  <2>5. PICK t, u \in groups[g] : t # u /\ place[t] = place[u]
    BY <2>1, <2>2, <2>3, <2>4, FS_PigeonHole
  <2>6. Sharing(groups[g], a)
    BY <2>1, <2>5 DEF Sharing, place
  <2> QED
    BY <1>1, <2>6 DEF Placement, Spread
<1>2. DOMAIN groups = {"pre", "update"}
  BY DEF TwoGroups
<1> QED
  BY <1>1, <1>2 DEF Covers

-----------------------------------------------------------------------------
(* What the run is refused for.  With two groups, the folds are a          *)
(* placement until they are checked, and so every group reaches every      *)
(* fold.  With any number of groups, once the folds have passed the check  *)
(* every other check is met.                                               *)
Large == \A g \in Own : ~(Cardinality(cohort.groups[g]) < OuterFolds)

Scored ==
  [t \in Tasks |-> IF t \in cohort.groups.update /\ outer[t] < fold THEN 1 ELSE 0]

BaseInv ==
  /\ cohort \in Cohorts
  /\ fold \in 0 .. OuterFolds
  /\ at \in InFold => fold \in FoldsOf(OuterFolds)

PlanInv ==
  at = "outer" =>
    /\ fold = 0 /\ inner = <<>> /\ scored = [t \in Tasks |-> 0]
    /\ Large => outer \in [DOMAIN outer -> FoldsOf(OuterFolds)]
    /\ Large /\ ~Crowded => Placement(outer, Tasks, Groups, OuterFolds)

BoundInv ==
  /\ at # "refused"
  /\ outer \in [Tasks -> FoldsOf(OuterFolds)]
  /\ Covers(outer, Groups, OuterFolds)
  /\ scored = Scored
  /\ at \notin {"inner", "initializers"} => inner = <<>>
  /\ at \in {"inner", "initializers"} => inner \in [DOMAIN inner -> FoldsOf(InnerFolds)]
  /\ at = "inner" /\ ~Crowded => Placement(inner, Outer.train, InnerGroups, InnerFolds)
  /\ at = "initializers" =>
       /\ kind # "point"
       /\ DOMAIN inner = Outer.train /\ Covers(inner, InnerGroups, InnerFolds)
  /\ at = "seeds" => Seedable

CoverInv ==
  /\ BaseInv /\ PlanInv
  /\ at \notin {"outer", "no_plan"} /\ ~Small => BoundInv
  /\ UnplannedOnlyIfCrowded

(* The groups of the candidate are balanced, if they are large. *)
LEMMA BalancedGroups ==
  ASSUME BaseInv, Large
  PROVE  /\ \A g \in Own : /\ g \in DOMAIN Groups
                           /\ Groups[g] = cohort.groups[g]
                           /\ Cardinality(Groups[g]) >= OuterFolds
         /\ ~Crowded => TwoGroups(Groups, Tasks)
<1>1. IsFiniteSet(Tasks) /\ OuterFolds \in Nat
  BY FoldsAssumption
<1>2. /\ Own \subseteq DOMAIN cohort.groups
      /\ \A g \in DOMAIN cohort.groups : cohort.groups[g] \subseteq Tasks
  BY CohortsAssumption DEF BaseInv
<1>3. \A g \in Own : /\ cohort.groups[g] \cap Tasks = cohort.groups[g]
                     /\ Cardinality(cohort.groups[g]) >= OuterFolds
  <2> TAKE g \in Own
  <2>1. cohort.groups[g] \subseteq Tasks
    BY <1>2
  <2>2. Cardinality(cohort.groups[g]) \in Nat
    BY <1>1, <2>1, FS_Subset, FS_CardinalityType
  <2> QED
    BY <1>1, <2>1, <2>2 DEF Large
<1>4. /\ \A g \in DOMAIN Groups : Groups[g] = cohort.groups[g] \cap Tasks
      /\ Groups = [g \in DOMAIN Groups |-> Groups[g]]
      /\ Own \subseteq DOMAIN Groups
  BY <1>2, <1>3 DEF Groups, Balanced
<1>5. ASSUME ~Crowded
      PROVE  TwoGroups(Groups, Tasks)
  <2>1. DOMAIN Groups = {"pre", "update"}
    BY <1>4, <1>5 DEF Crowded, Own
  <2> QED
    BY <1>1, <1>4, <2>1 DEF TwoGroups
<1> QED
  BY <1>3, <1>4, <1>5

(* The same inside the outer training tasks. *)
LEMMA BalancedInnerGroups ==
  ASSUME BaseInv, ~Small, fold \in FoldsOf(OuterFolds),
         outer \in [Tasks -> FoldsOf(OuterFolds)]
  PROVE  /\ \A g \in Own : /\ g \in DOMAIN InnerGroups
                           /\ InnerGroups[g] = cohort.groups[g] \cap Outer.train
                           /\ Cardinality(InnerGroups[g]) >= InnerFolds
         /\ ~(Cardinality(Outer.train) < InnerFolds)
         /\ ~Crowded => TwoGroups(InnerGroups, Outer.train)
<1>1. IsFiniteSet(Tasks) /\ InnerFolds \in Nat
  BY FoldsAssumption
<1>2. Outer.train \subseteq Tasks
  BY DEF Outer, OuterPartition
<1>3. \A g \in Own : g \in DOMAIN Groups /\ Groups[g] = cohort.groups[g]
  <2>1. Large
    BY DEF Small, Large
  <2> QED
    BY <2>1, BalancedGroups
<1>4. IsFiniteSet(Outer.train)
  BY <1>1, <1>2, FS_Subset
<1>5. \A g \in Own :
        /\ Cardinality(cohort.groups[g] \cap Outer.train) >= InnerFolds
        /\ Cardinality(cohort.groups[g] \cap Outer.train) <= Cardinality(Outer.train)
        /\ Cardinality(cohort.groups[g] \cap Outer.train) \in Nat
  <2> TAKE g \in Own
  <2>1. ~(Cardinality(cohort.groups[g] \cap Outer.train) < InnerFolds)
    BY DEF Small, Outer
  <2>2. cohort.groups[g] \cap Outer.train \in SUBSET Outer.train
    OBVIOUS
  <2>3. /\ Cardinality(cohort.groups[g] \cap Outer.train) \in Nat
        /\ Cardinality(cohort.groups[g] \cap Outer.train) <= Cardinality(Outer.train)
    BY <1>4, <2>2, FS_Subset, FS_CardinalityType
  <2> QED
    BY <1>1, <2>1, <2>3
<1>6. /\ DOMAIN InnerGroups \subseteq DOMAIN Groups
      /\ \A g \in DOMAIN InnerGroups : InnerGroups[g] = Groups[g] \cap Outer.train
      /\ InnerGroups = [g \in DOMAIN InnerGroups |-> InnerGroups[g]]
      /\ Own \subseteq DOMAIN InnerGroups
  BY <1>3, <1>5 DEF InnerGroups, Balanced
<1>7. ASSUME ~Crowded
      PROVE  TwoGroups(InnerGroups, Outer.train)
  <2>1. DOMAIN InnerGroups = {"pre", "update"}
    BY <1>6, <1>7 DEF Crowded, Own
  <2> QED
    BY <1>1, <1>2, <1>6, <2>1 DEF TwoGroups
<1>8. ~(Cardinality(Outer.train) < InnerFolds)
  <2>1. Cardinality(Outer.train) \in Nat
    BY <1>4, FS_CardinalityType
  <2> QED
    BY <1>1, <1>5, <2>1 DEF Own
<1> QED
  BY <1>3, <1>5, <1>6, <1>7, <1>8

(* The next folds, around the circle. *)
LEMMA Around ==
  ASSUME NEW n \in Nat, n >= 3, NEW f \in FoldsOf(n)
  PROVE  /\ (f + 1) % n = IF f + 1 < n THEN f + 1 ELSE f + 1 - n
         /\ (f + 2) % n = IF f + 2 < n THEN f + 2 ELSE f + 2 - n
BY DEF FoldsOf

(* Every part of an outer fold has tasks of each group. *)
LEMMA OuterParts ==
  ASSUME BaseInv, ~Small, fold \in FoldsOf(OuterFolds), BoundInv
  PROVE  /\ Disjoint(Outer)
         /\ \A role \in Roles, g \in Own : cohort.groups[g] \cap Outer[role] # {}
<1> DEFINE n == OuterFolds
           c == (fold + 1) % n
           v == (fold + 2) % n
<1>1. n \in Nat /\ n >= 4
  BY FoldsAssumption
<1>2. /\ c = IF fold + 1 < n THEN fold + 1 ELSE fold + 1 - n
      /\ v = IF fold + 2 < n THEN fold + 2 ELSE fold + 2 - n
  BY <1>1, Around
<1>3. /\ fold \in FoldsOf(n) /\ c \in FoldsOf(n) /\ v \in FoldsOf(n)
      /\ fold # c /\ fold # v /\ c # v
      /\ \E x \in FoldsOf(n) : x \notin {fold, c, v}
  <2> DEFINE x == IF fold + 3 < n THEN fold + 3 ELSE fold + 3 - n
  <2>1. fold \in Nat /\ fold < n
    BY <1>1 DEF FoldsOf
  <2>2. x \in FoldsOf(n) /\ x # fold /\ x # c /\ x # v
    BY <1>1, <1>2, <2>1 DEF FoldsOf
  <2>3. c \in FoldsOf(n) /\ v \in FoldsOf(n) /\ fold # c /\ fold # v /\ c # v
    BY <1>1, <1>2, <2>1 DEF FoldsOf
  <2> QED
    BY <2>2, <2>3
<1>4. Large
  BY DEF Small, Large
<1>5. \A x \in FoldsOf(n), g \in Own : cohort.groups[g] \cap On(outer, x) # {}
  BY <1>4, BalancedGroups DEF BoundInv, Covers
<1>6. Outer = [train |-> {t \in DOMAIN outer : outer[t] \notin {fold, c, v}},
               validation |-> On(outer, v), calibration |-> On(outer, c),
               test |-> On(outer, fold)]
  BY DEF Outer, OuterPartition
<1> HIDE DEF c, v
<1>7. Disjoint(Outer)
  BY <1>3, <1>6 DEF Disjoint, On
<1>8. PICK x \in FoldsOf(n) : x \notin {fold, c, v}
  BY <1>3
<1>9. On(outer, x) \subseteq Outer.train
  BY <1>6, <1>8 DEF On
<1>10. ASSUME NEW role \in Roles, NEW g \in Own
       PROVE  cohort.groups[g] \cap Outer[role] # {}
  <2>1. \E y \in FoldsOf(n) : On(outer, y) \subseteq Outer[role]
    BY <1>3, <1>6, <1>9 DEF Roles
  <2> QED
    BY <1>5, <2>1
<1> QED
  BY <1>7, <1>10

(* So has what a candidate has rows of. *)
LEMMA PartsHaveLabels ==
  ASSUME BaseInv, ~Small, fold \in FoldsOf(OuterFolds), BoundInv
  PROVE  \A role \in Roles : /\ Part(role) # {}
                             /\ Part(role) \cap cohort.groups.update # {}
<1>1. cohort.groups.update \subseteq Present
  BY CohortsAssumption DEF Present, BaseInv, Own
<1>2. \A role \in Roles : cohort.groups["update"] \cap Outer[role] # {}
  BY OuterParts DEF Own
<1> QED
  BY <1>1, <1>2 DEF Part

-----------------------------------------------------------------------------
(* Each step.  With the folds bound, only the run moves.                   *)
Frozen == UNCHANGED <<kind, cohort, outer>>

(* What is small is a matter of the cohort and the folds. *)
LEMMA FrozenFacts ==
  ASSUME Frozen
  PROVE  Small' = Small /\ Crowded' = Crowded /\ Groups' = Groups
BY DEF Frozen, Small, Crowded, Groups

(* An empty assignment is a placement. *)
LEMMA EmptyIsPlacement ==
  ASSUME NEW tasks, NEW groups, NEW n
  PROVE  <<>> \in [DOMAIN <<>> -> FoldsOf(n)] /\ Placement(<<>>, tasks, groups, n)
<1>1. DOMAIN <<>> = {} /\ <<>> \in [DOMAIN <<>> -> FoldsOf(n)]
  OBVIOUS
<1>2. \A g \in {"pre", "update"} : Spread(groups[g], <<>>, n)
  BY <1>1 DEF Spread, Sharing
<1> QED
  BY <1>1, <1>2 DEF Placement

(* No task is assigned. *)
LEMMA CoverInit == Init => CoverInv
<1> SUFFICES ASSUME Init PROVE CoverInv
  OBVIOUS
<1>1. BaseInv
  BY FoldsAssumption DEF Init, BaseInv, InFold
<1>2. PlanInv
  BY EmptyIsPlacement DEF Init, PlanInv
<1> QED
  BY <1>1, <1>2 DEF Init, CoverInv, UnplannedOnlyIfCrowded

(* One more task on an outer fold. *)
LEMMA AssignOuterCovers ==
  ASSUME CoverInv, AssignOuter
  PROVE  CoverInv'
<1>1. /\ at = "outer"
      /\ UNCHANGED <<kind, cohort, inner, at, fold, runVars, scored>>
  BY DEF AssignOuter
<1>2. BaseInv'
  BY <1>1 DEF CoverInv, BaseInv
<1>3. Groups' = Groups /\ (Large' <=> Large) /\ (Crowded' <=> Crowded)
  BY <1>1 DEF Groups, Large, Crowded
<1>4. ASSUME Large
      PROVE  /\ outer' \in [DOMAIN outer' -> FoldsOf(OuterFolds)]
             /\ ~Crowded => Placement(outer', Tasks, Groups, OuterFolds)
  <2>1. /\ outer \in [DOMAIN outer -> FoldsOf(OuterFolds)]
        /\ ~Crowded => Placement(outer, Tasks, Groups, OuterFolds)
        /\ OuterFolds \in Nat
    BY <1>1, <1>4, FoldsAssumption DEF CoverInv, PlanInv
  <2>2. DOMAIN Groups # {} /\ (~Crowded => TwoGroups(Groups, Tasks))
    BY <1>4, BalancedGroups DEF CoverInv, Own
  <2>3. PICK t \in FirstTasks(outer, Tasks, Groups) :
             \E f \in BestFolds(t, outer, Groups, OuterFolds) :
               outer' = [u \in DOMAIN outer \cup {t} |-> IF u = t THEN f ELSE outer[u]]
    BY <2>2 DEF AssignOuter
  <2>4. PICK f \in BestFolds(t, outer, Groups, OuterFolds) :
          outer' = [u \in DOMAIN outer \cup {t} |-> IF u = t THEN f ELSE outer[u]]
    BY <2>3
  <2>5. f \in FoldsOf(OuterFolds)
    BY DEF BestFolds
  <2>6. PICK b : b = outer'
    OBVIOUS
  <2>7. b \in [DOMAIN b -> FoldsOf(OuterFolds)]
    BY <2>1, <2>4, <2>5, <2>6
  <2>8. ~Crowded => Placement(b, Tasks, Groups, OuterFolds)
    BY <2>1, <2>2, <2>4, <2>6, PlaceNext
  <2> QED
    BY <2>6, <2>7, <2>8
<1>5. PlanInv'
  BY <1>1, <1>3, <1>4 DEF CoverInv, PlanInv
<1> QED
  BY <1>1, <1>2, <1>5 DEF CoverInv, UnplannedOnlyIfCrowded

(* The check of the outer folds is met by two groups. *)
LEMMA BindOuterCovers ==
  ASSUME CoverInv, BindOuter
  PROVE  CoverInv'
<1>1. /\ at = "outer" /\ DOMAIN outer = Tasks
      /\ at' = IF Covers(outer, Groups, OuterFolds) THEN "fold" ELSE "no_plan"
      /\ UNCHANGED <<kind, cohort, outer, inner, fold, runVars, scored>>
  BY DEF BindOuter, Refuse
<1>2. BaseInv'
  BY <1>1 DEF CoverInv, BaseInv, InFold
<1>3. /\ Small' = Small /\ Crowded' = Crowded /\ Groups' = Groups
      /\ Scored' = Scored
  BY <1>1, FrozenFacts DEF Frozen, Scored
<1>4. ASSUME ~Small
      PROVE  /\ outer \in [Tasks -> FoldsOf(OuterFolds)]
             /\ ~Crowded => Covers(outer, Groups, OuterFolds)
  <2>1. Large
    BY <1>4 DEF Small, Large
  <2>2. outer \in [Tasks -> FoldsOf(OuterFolds)]
    BY <1>1, <2>1 DEF CoverInv, PlanInv
  <2>3. ASSUME ~Crowded
        PROVE  Covers(outer, Groups, OuterFolds)
    <3>1. Placement(outer, Tasks, Groups, OuterFolds)
      BY <1>1, <2>1, <2>3 DEF CoverInv, PlanInv
    <3>2. /\ TwoGroups(Groups, Tasks) /\ OuterFolds \in Nat
          /\ \A g \in {"pre", "update"} : Cardinality(Groups[g]) >= OuterFolds
      BY <2>1, <2>3, BalancedGroups, FoldsAssumption DEF CoverInv, Own
    <3> QED
      BY <1>1, <3>1, <3>2, PlacedCovers
  <2> QED
    BY <2>2, <2>3
<1>5. ASSUME ~Small, at' # "no_plan"
      PROVE  BoundInv'
  <2>1. \A t \in Tasks : ~(outer[t] < fold)
    BY <1>1, <1>4, <1>5 DEF CoverInv, PlanInv, FoldsOf
  <2>2. scored = Scored
    BY <1>1, <2>1 DEF CoverInv, PlanInv, Scored
  <2>3. Covers(outer, Groups, OuterFolds) /\ at' = "fold" /\ inner = <<>>
    BY <1>1, <1>5 DEF CoverInv, PlanInv
  <2> QED
    BY <1>1, <1>3, <1>4, <1>5, <2>2, <2>3 DEF BoundInv
<1>6. UnplannedOnlyIfCrowded'
  BY <1>1, <1>3, <1>4 DEF UnplannedOnlyIfCrowded
<1>7. PlanInv'
  BY <1>1 DEF PlanInv
<1> QED
  BY <1>2, <1>3, <1>5, <1>6, <1>7 DEF CoverInv

(* A step after planning that keeps the folds keeps the invariant, if it   *)
(* keeps what is said of bound folds.                                      *)
LEMMA BoundStep ==
  ASSUME CoverInv, at # "outer", at' \notin {"outer", "no_plan"}, Frozen,
         fold' \in 0 .. OuterFolds, at' \in InFold => fold' \in FoldsOf(OuterFolds),
         ~Small => BoundInv'
  PROVE  CoverInv'
<1>1. BaseInv'
  BY DEF CoverInv, BaseInv, Frozen
<1> QED
  BY <1>1, FrozenFacts DEF CoverInv, PlanInv, UnplannedOnlyIfCrowded

(* With a small group nothing is said of a refused run. *)
LEMMA RefuseCovers ==
  ASSUME CoverInv, at # "outer", Small, Refuse("refused")
  PROVE  CoverInv'
BY BoundStep DEF Refuse, Frozen, CoverInv, BaseInv, InFold

(* Nor is there a plan when a third group crowds them. *)
LEMMA UnplannedCovers ==
  ASSUME CoverInv, at # "outer", Small \/ Crowded, Refuse("no_plan")
  PROVE  CoverInv'
<1>1. Frozen /\ at' = "no_plan" /\ fold' = fold
  BY DEF Refuse, Frozen
<1>2. BaseInv' /\ PlanInv'
  BY <1>1 DEF CoverInv, BaseInv, PlanInv, Frozen, InFold
<1> QED
  BY <1>1, <1>2, FrozenFacts DEF CoverInv, UnplannedOnlyIfCrowded

(* One more training task on an inner fold. *)
LEMMA AssignInnerCovers ==
  ASSUME CoverInv, AssignInner
  PROVE  CoverInv'
<1>1. at = "inner" /\ BaseInv /\ fold \in FoldsOf(OuterFolds) /\ InnerFolds \in Nat
  BY FoldsAssumption DEF AssignInner, CoverInv, BaseInv, InFold
<1>2. CASE Cardinality(Outer.train) < InnerFolds
  <2>1. Refuse("no_plan")
    BY <1>2 DEF AssignInner
  <2>2. Small
    BY <1>1, <1>2, BalancedInnerGroups DEF CoverInv, BoundInv
  <2> QED
    BY <1>1, <2>1, <2>2, UnplannedCovers
<1>3. CASE ~(Cardinality(Outer.train) < InnerFolds)
  <2>1. UNCHANGED <<kind, cohort, outer, at, fold, runVars, scored>>
    BY <1>3 DEF AssignInner
  <2>2. PICK t \in FirstTasks(inner, Outer.train, InnerGroups) :
             \E f \in BestFolds(t, inner, InnerGroups, InnerFolds) :
               inner' = [u \in DOMAIN inner \cup {t} |-> IF u = t THEN f ELSE inner[u]]
    BY <1>3 DEF AssignInner
  <2>3. PICK f \in BestFolds(t, inner, InnerGroups, InnerFolds) :
          inner' = [u \in DOMAIN inner \cup {t} |-> IF u = t THEN f ELSE inner[u]]
    BY <2>2
  <2>4. f \in FoldsOf(InnerFolds)
    BY DEF BestFolds
  <2>5. PICK b : b = inner'
    OBVIOUS
  <2>6. Groups' = Groups /\ Outer' = Outer /\ Crowded' = Crowded
    BY <2>1, FrozenFacts DEF Frozen, Outer
  <2>7. InnerGroups' = InnerGroups /\ Scored' = Scored
    BY <2>1, <2>6 DEF InnerGroups, Scored
  <2>8. ASSUME ~Small
        PROVE  BoundInv'
    <3>1. BoundInv
      BY <1>1, <2>8 DEF CoverInv
    <3>2. inner \in [DOMAIN inner -> FoldsOf(InnerFolds)]
      BY <1>1, <3>1 DEF BoundInv
    <3>3. b \in [DOMAIN b -> FoldsOf(InnerFolds)]
      BY <2>3, <2>4, <2>5, <3>2
    <3>4. ASSUME ~Crowded
          PROVE  Placement(b, Outer.train, InnerGroups, InnerFolds)
      <4>1. TwoGroups(InnerGroups, Outer.train)
        BY <1>1, <2>8, <3>1, <3>4, BalancedInnerGroups DEF BoundInv
      <4>2. Placement(inner, Outer.train, InnerGroups, InnerFolds)
        BY <1>1, <3>1, <3>4 DEF BoundInv
      <4> QED
        BY <1>1, <2>3, <2>5, <4>1, <4>2, PlaceNext
    <3> QED
      BY <1>1, <2>1, <2>5, <2>6, <2>7, <3>1, <3>3, <3>4 DEF BoundInv
  <2> QED
    BY <1>1, <2>1, <2>8, BoundStep DEF Frozen, CoverInv, BaseInv
<1> QED
  BY <1>2, <1>3

(* The check of the inner folds is met by two groups. *)
LEMMA BindInnerCovers ==
  ASSUME CoverInv, BindInner
  PROVE  CoverInv'
<1>1. /\ at = "inner" /\ DOMAIN inner = Outer.train
      /\ BaseInv /\ fold \in FoldsOf(OuterFolds) /\ InnerFolds \in Nat
  BY FoldsAssumption DEF BindInner, CoverInv, BaseInv, InFold
<1>2. CASE ~Covers(inner, InnerGroups, InnerFolds)
  <2>1. Refuse("no_plan")
    BY <1>2 DEF BindInner
  <2>2. ASSUME ~Small, ~Crowded
        PROVE  FALSE
    <3>1. BoundInv
      BY <1>1, <2>2 DEF CoverInv
    <3>2. /\ TwoGroups(InnerGroups, Outer.train)
          /\ \A g \in {"pre", "update"} : Cardinality(InnerGroups[g]) >= InnerFolds
      BY <1>1, <2>2, <3>1, BalancedInnerGroups DEF BoundInv, Own
    <3>3. Placement(inner, Outer.train, InnerGroups, InnerFolds)
      BY <1>1, <2>2, <3>1 DEF BoundInv
    <3> QED
      BY <1>1, <1>2, <3>2, <3>3, PlacedCovers
  <2> QED
    BY <1>1, <2>1, <2>2, UnplannedCovers
<1>3. CASE Covers(inner, InnerGroups, InnerFolds)
  <2>1. /\ \/ inner' = <<>> /\ at' = "fit"
           \/ inner' = inner /\ at' = "initializers" /\ kind # "point"
        /\ UNCHANGED <<kind, cohort, outer, fold, runVars, scored>>
    BY <1>3 DEF BindInner
  <2>2. Groups' = Groups /\ Outer' = Outer
    BY <2>1, FrozenFacts DEF Frozen, Outer
  <2>3. InnerGroups' = InnerGroups /\ Scored' = Scored
    BY <2>1, <2>2 DEF InnerGroups, Scored
  <2>4. ASSUME ~Small
        PROVE  BoundInv'
    <3>1. BoundInv
      BY <1>1, <2>4 DEF CoverInv
    <3> QED
      BY <1>1, <1>3, <2>1, <2>2, <2>3, <3>1 DEF BoundInv
  <2> QED
    BY <1>1, <2>1, <2>4, BoundStep DEF Frozen, CoverInv, BaseInv
<1> QED
  BY <1>2, <1>3

(* No part of an outer fold is empty. *)
LEMMA BeginFoldCovers ==
  ASSUME CoverInv, BeginFold
  PROVE  CoverInv'
<1>1. at = "fold" /\ fold < OuterFolds
  BY DEF BeginFold
<1>2. fold \in FoldsOf(OuterFolds) /\ BaseInv
  BY <1>1, FoldsAssumption DEF CoverInv, BaseInv, FoldsOf
<1>3. CASE Small /\ Refuse("refused")
  BY <1>1, <1>3, RefuseCovers
<1>4. CASE ~Refuse("refused") \/ ~Small
  <2>1. /\ at' = "inner"
        /\ UNCHANGED <<kind, cohort, outer, inner, fold, runVars, scored>>
    <3>1. CASE ~Refuse("refused")
      BY <3>1 DEF BeginFold
    <3>2. CASE ~Small
      <4>1. BoundInv
        BY <1>1, <3>2 DEF CoverInv
      <4>2. Disjoint(Outer) /\ \A role \in Roles : Part(role) # {}
        BY <1>2, <3>2, <4>1, OuterParts, PartsHaveLabels
      <4> QED
        BY <4>2 DEF BeginFold
    <3> QED
      BY <1>4, <3>1, <3>2
  <2>2. ASSUME ~Small
        PROVE  BoundInv'
    <3>1. BoundInv /\ inner = <<>>
      BY <1>1, <2>2 DEF CoverInv, BoundInv
    <3>2. /\ inner \in [DOMAIN inner -> FoldsOf(InnerFolds)]
          /\ Placement(inner, Outer.train, InnerGroups, InnerFolds)
      BY <3>1, EmptyIsPlacement
    <3>3. Groups' = Groups /\ Outer' = Outer
      BY <2>1, FrozenFacts DEF Frozen, Outer
    <3>4. InnerGroups' = InnerGroups /\ Scored' = Scored
      BY <2>1, <3>3 DEF InnerGroups, Scored
    <3> QED
      BY <2>1, <3>1, <3>2, <3>3, <3>4 DEF BoundInv
  <2> QED
    BY <1>1, <1>2, <2>1, <2>2, BoundStep DEF Frozen, BaseInv
<1> QED
  BY <1>3, <1>4

(* Inner folds that cover the groups have the labels that initializers     *)
(* need.                                                                   *)
LEMMA InnerParts ==
  ASSUME BaseInv, ~Small, fold \in FoldsOf(OuterFolds), BoundInv, at = "initializers"
  PROVE  /\ \A h \in FoldsOf(InnerFolds) : Fittable(Projected(h))
         /\ \A t \in Part("train") : t \in DOMAIN inner /\ inner[t] \in FoldsOf(InnerFolds)
<1> DEFINE n == InnerFolds
<1>1. n \in Nat /\ n >= 3
  BY FoldsAssumption
<1>2. /\ kind # "point"
      /\ DOMAIN inner = Outer.train /\ inner \in [DOMAIN inner -> FoldsOf(n)]
      /\ Covers(inner, InnerGroups, n)
  BY DEF BoundInv
<1>3. /\ "pre" \in DOMAIN InnerGroups
      /\ InnerGroups["pre"] = cohort.groups["pre"] \cap Outer.train
  BY BalancedInnerGroups DEF BoundInv, Own
<1>4. \A x \in FoldsOf(n) : cohort.groups["pre"] \cap Outer.train \cap On(inner, x) # {}
  BY <1>2, <1>3 DEF Covers
<1>5. \A x \in FoldsOf(n) : cohort.groups["pre"] \cap Part("train") \cap On(inner, x) # {}
  <2>1. cohort.groups["pre"] \subseteq Present
    BY <1>2, CohortsAssumption DEF BaseInv, Present, Own
  <2> QED
    BY <1>4, <2>1 DEF Part
<1>6. ASSUME NEW h \in FoldsOf(n)
      PROVE  Fittable(Projected(h))
  <2> DEFINE v == (h + 1) % n
             parts == Projected(h)
  <2>1. /\ h \in FoldsOf(n) /\ v \in FoldsOf(n) /\ h # v
        /\ \E x \in FoldsOf(n) : x \notin {h, v}
    <3> DEFINE x == IF h + 2 < n THEN h + 2 ELSE h + 2 - n
    <3>1. v = IF h + 1 < n THEN h + 1 ELSE h + 1 - n
      BY <1>1, Around
    <3>2. h \in Nat /\ h < n
      BY <1>1 DEF FoldsOf
    <3>3. x \in FoldsOf(n) /\ x # h /\ x # v
      BY <1>1, <3>1, <3>2 DEF FoldsOf
    <3>4. v \in FoldsOf(n) /\ h # v
      BY <1>1, <3>1, <3>2 DEF FoldsOf
    <3> QED
      BY <3>3, <3>4
  <2>2. /\ DOMAIN parts = {"fit", "validation", "holdout"}
        /\ parts.fit = {t \in DOMAIN inner : inner[t] \notin {h, v}} \cap Part("train")
        /\ parts.validation = On(inner, v) \cap Part("train")
        /\ parts.holdout = On(inner, h) \cap Part("train")
    BY DEF Projected, InnerPartition
  <2> HIDE DEF v, parts
  <2>3. Disjoint(parts)
    BY <2>1, <2>2 DEF Disjoint, On
  <2>4. PICK x \in FoldsOf(n) : x \notin {h, v}
    BY <2>1
  <2>5. On(inner, x) \cap Part("train") \subseteq parts.fit
    BY <2>2, <2>4 DEF On
  <2>6. /\ cohort.groups["pre"] \cap parts.fit # {}
        /\ cohort.groups["pre"] \cap parts.validation # {}
        /\ cohort.groups["pre"] \cap parts.holdout # {}
    <3>1. \A y \in FoldsOf(n) : cohort.groups["pre"] \cap Part("train") \cap On(inner, y) # {}
      BY <1>5
    <3> QED
      BY <2>1, <2>2, <2>4, <2>5, <3>1
  <2> QED
    BY <2>2, <2>3, <2>6 DEF Fittable, parts
<1>7. \A t \in Part("train") : t \in DOMAIN inner /\ inner[t] \in FoldsOf(n)
  BY <1>2 DEF Part
<1> QED
  BY <1>6, <1>7

(* Every training task is in all components, and held out by one.          *)
LEMMA FitInitializersSeed ==
  ASSUME Inv, Inv', FitInitializers, ~Refuse("refused"),
         \A t \in Part("train") : t \in DOMAIN inner /\ inner[t] \in FoldsOf(InnerFolds),
         FoldsOf(InnerFolds) # {}
  PROVE  Seedable'
<1>1. /\ components' = [h \in FoldsOf(InnerFolds) |-> Projected(h)]
      /\ at' = "seeds"
      /\ UNCHANGED <<kind, cohort, outer, fold, seeds, seen, forecasts, scored>>
  BY DEF FitInitializers
<1>2. Part("train")' = Part("train")
  BY <1>1 DEF Part, Outer, Present
<1>3. (Part("train") \cap External = {})'
  BY <1>1 DEF Inv, ComponentsInv
<1>4. \A h \in FoldsOf(InnerFolds) :
        /\ DOMAIN Projected(h) = {"fit", "validation", "holdout"}
        /\ \A role \in {"fit", "validation", "holdout"} :
             Projected(h)[role] \subseteq Part("train")
        /\ Projected(h).holdout = On(inner, h) \cap Part("train")
  BY DEF Projected, InnerPartition
<1>5. ASSUME NEW t \in Part("train")
      PROVE  {h \in FoldsOf(InnerFolds) : t \in Projected(h).holdout} = {inner[t]}
  BY <1>4, <1>5 DEF On
<1>6. /\ DOMAIN components' = FoldsOf(InnerFolds)
      /\ \A h \in FoldsOf(InnerFolds) : components'[h] = Projected(h)
  BY <1>1
<1>7. Universe' = Part("train")
  <2>1. ASSUME NEW t \in Universe'
        PROVE  t \in Part("train")
    <3>1. PICK h \in FoldsOf(InnerFolds) :
            \E role \in DOMAIN components'[h] : t \in components'[h][role]
      BY <1>6, <2>1 DEF Universe
    <3> QED
      BY <1>4, <1>6, <3>1
  <2>2. ASSUME NEW t \in Part("train")
        PROVE  t \in Universe'
    <3>1. inner[t] \in {h \in FoldsOf(InnerFolds) : t \in Projected(h).holdout}
      BY <1>5
    <3>2. PICK h \in FoldsOf(InnerFolds) : t \in components'[h]["holdout"]
      BY <1>6, <3>1
    <3>3. "holdout" \in DOMAIN components'[h]
      BY <1>4, <1>6
    <3> QED
      BY <1>6, <3>2, <3>3 DEF Universe
  <2> QED
    BY <2>1, <2>2
<1>8. ASSUME NEW t \in Part("train")
      PROVE  Cardinality({h \in DOMAIN components' : t \in components'[h].holdout}) = 1
  <2>1. {h \in DOMAIN components' : t \in components'[h].holdout} = {inner[t]}
    BY <1>5, <1>6
  <2> QED
    BY <2>1, FS_Singleton
<1> QED
  BY <1>2, <1>3, <1>7, <1>8 DEF Seedable

(* The initializers can be fitted, and the components can seed. *)
LEMMA FitInitializersCovers ==
  ASSUME CoverInv, Inv, FitInitializers
  PROVE  CoverInv'
<1>1. at = "initializers"
  BY DEF FitInitializers
<1>2. CASE Small /\ Refuse("refused")
  BY <1>1, <1>2, RefuseCovers
<1>3. CASE Small /\ ~Refuse("refused")
  BY <1>1, <1>3, BoundStep DEF FitInitializers, Frozen, CoverInv, BaseInv, InFold
<1>4. CASE ~Small
  <2>1. BaseInv /\ BoundInv /\ fold \in FoldsOf(OuterFolds) /\ FoldsOf(InnerFolds) # {}
    <3>1. 0 \in FoldsOf(InnerFolds)
      BY FoldsAssumption DEF FoldsOf
    <3> QED
      BY <1>1, <1>4, <3>1 DEF CoverInv, BaseInv, InFold
  <2>2. /\ \A h \in FoldsOf(InnerFolds) : Fittable(Projected(h))
        /\ \A t \in Part("train") : t \in DOMAIN inner /\ inner[t] \in FoldsOf(InnerFolds)
    BY <1>1, <1>4, <2>1, InnerParts
  <2>3. /\ inner' = <<>> /\ at' = "seeds"
        /\ UNCHANGED <<kind, cohort, outer, fold, seeds, seen, forecasts, scored>>
    BY <2>2 DEF FitInitializers
  <2>4. Inv'
    BY FitInitializersKeepsInv
  <2>5. Seedable'
    BY <1>1, <2>1, <2>2, <2>3, <2>4, FitInitializersSeed DEF Refuse
  <2>6. Groups' = Groups /\ Scored' = Scored
    BY <2>3 DEF Groups, Scored
  <2>7. BoundInv'
    BY <2>1, <2>3, <2>5, <2>6 DEF BoundInv
  <2> QED
    BY <1>1, <2>1, <2>3, <2>7, BoundStep DEF Frozen, BaseInv
<1> QED
  BY <1>2, <1>3, <1>4

(* The checks of the steps that use the parts are met, and nothing they    *)
(* change is spoken of.                                                    *)
LEMMA FoldStepCovers ==
  ASSUME CoverInv, GenerateSeeds \/ FitModel \/ Calibrate
  PROVE  CoverInv'
<1>1. at \in {"seeds", "fit", "calibrate"} /\ at # "outer"
  BY DEF GenerateSeeds, FitModel, Calibrate
<1>2. CASE Small /\ Refuse("refused")
  BY <1>1, <1>2, RefuseCovers
<1>3. CASE ~Small \/ ~Refuse("refused")
  <2>1. ASSUME ~Small
        PROVE  BoundInv /\ (at = "seeds" => Seedable)
               /\ \A role \in Roles : Part(role) \cap cohort.groups.update # {}
    <3>1. BoundInv /\ BaseInv /\ fold \in FoldsOf(OuterFolds)
      BY <1>1, <2>1 DEF CoverInv, BaseInv, InFold
    <3> QED
      BY <2>1, <3>1, PartsHaveLabels DEF BoundInv
  <2>2. /\ at' \in {"fit", "calibrate", "score"}
        /\ UNCHANGED <<kind, cohort, outer, inner, fold, scored>>
    <3>1. CASE GenerateSeeds
      BY <1>3, <2>1, <3>1 DEF GenerateSeeds
    <3>2. CASE FitModel
      BY <1>3, <2>1, <3>2 DEF FitModel, Roles
    <3>3. CASE Calibrate
      BY <1>3, <2>1, <3>3 DEF Calibrate, Roles
    <3> QED
      BY <3>1, <3>2, <3>3
  <2>3. Groups' = Groups /\ Scored' = Scored
    BY <2>2 DEF Groups, Scored
  <2>4. ~Small => BoundInv'
    BY <1>1, <2>1, <2>2, <2>3 DEF BoundInv
  <2> QED
    BY <1>1, <2>2, <2>4, BoundStep DEF Frozen, CoverInv, BaseInv, InFold
<1> QED
  BY <1>2, <1>3

(* The tasks of one more fold are scored.                                  *)
LEMMA ScoreTestCovers ==
  ASSUME CoverInv, ScoreTest
  PROVE  CoverInv'
<1>1. at = "score"
  BY DEF ScoreTest
<1>2. BaseInv /\ fold \in FoldsOf(OuterFolds) /\ OuterFolds \in Nat
  BY <1>1, FoldsAssumption DEF CoverInv, BaseInv, InFold
<1>3. CASE Small /\ Refuse("refused")
  BY <1>1, <1>3, RefuseCovers
<1>4. CASE ~Small \/ ~Refuse("refused")
  <2>1. ASSUME ~Small
        PROVE  BoundInv /\ Part("test") \cap cohort.groups.update # {}
    BY <1>1, <1>2, <2>1, PartsHaveLabels DEF CoverInv, Roles
  <2>2. /\ at' = "fold" /\ fold' = fold + 1
        /\ scored' = [t \in Tasks |->
               scored[t] + IF t \in Part("test") \cap cohort.groups.update THEN 1 ELSE 0]
        /\ UNCHANGED <<kind, cohort, outer, inner, components>>
    BY <1>4, <2>1 DEF ScoreTest
  <2>3. ASSUME ~Small
        PROVE  BoundInv'
    <3>1. cohort.groups.update \subseteq Present
      BY <1>2, CohortsAssumption DEF Present, BaseInv, Own
    <3>2. outer \in [Tasks -> FoldsOf(OuterFolds)]
      BY <2>1, <2>3 DEF BoundInv
    <3>3. ASSUME NEW t \in Tasks
          PROVE  t \in Part("test") \cap cohort.groups.update <=>
                   t \in cohort.groups.update /\ outer[t] = fold
      BY <3>1, <3>2 DEF Part, Outer, OuterPartition, On
    <3>4. \A t \in Tasks : outer[t] \in Nat /\ fold \in Nat
      BY <1>2, <3>2 DEF FoldsOf
    <3>5. \A t \in Tasks : scored[t] = IF t \in cohort.groups.update /\ outer[t] < fold THEN 1 ELSE 0
      BY <2>1, <2>3 DEF BoundInv, Scored
    <3>6. \A t \in Tasks : scored'[t] =
            IF t \in cohort.groups.update /\ outer[t] < fold + 1 THEN 1 ELSE 0
      <4> TAKE t \in Tasks
      <4>1. scored'[t] = (IF t \in cohort.groups.update /\ outer[t] < fold THEN 1 ELSE 0)
                         + (IF t \in cohort.groups.update /\ outer[t] = fold THEN 1 ELSE 0)
        BY <2>2, <3>3, <3>5
      <4> QED
        BY <3>4, <4>1
    <3>7. scored' = Scored'
      BY <2>2, <3>6 DEF Scored
    <3>8. Groups' = Groups
      BY <2>2 DEF Groups
    <3> QED
      BY <1>1, <2>1, <2>2, <2>3, <3>7, <3>8 DEF BoundInv
  <2>4. fold' \in 0 .. OuterFolds
    BY <1>2, <2>2 DEF FoldsOf
  <2> QED
    BY <1>1, <2>2, <2>3, <2>4, BoundStep DEF Frozen, InFold
<1> QED
  BY <1>3, <1>4

(* Each eligible task has been scored once. *)
LEMMA FinishCovers ==
  ASSUME CoverInv, Finish
  PROVE  CoverInv'
<1>1. at = "fold" /\ fold = OuterFolds
  BY DEF Finish
<1>2. CASE Small /\ Refuse("refused")
  BY <1>1, <1>2, RefuseCovers
<1>3. CASE ~Small \/ ~Refuse("refused")
  <2>1. ASSUME ~Small
        PROVE  BoundInv /\ scored = [t \in Tasks |-> IF t \in cohort.groups.update THEN 1 ELSE 0]
    <3>1. BoundInv
      BY <1>1, <2>1 DEF CoverInv
    <3>2. \A t \in Tasks : outer[t] < fold
      BY <1>1, <3>1, FoldsAssumption DEF BoundInv, FoldsOf
    <3> QED
      BY <3>1, <3>2 DEF BoundInv, Scored
  <2>2. /\ at' = "done"
        /\ UNCHANGED <<kind, cohort, outer, inner, fold, runVars, scored>>
    BY <1>3, <2>1 DEF Finish
  <2>3. Groups' = Groups /\ Scored' = Scored
    BY <2>2 DEF Groups, Scored
  <2>4. ~Small => BoundInv'
    BY <1>1, <2>1, <2>2, <2>3 DEF BoundInv
  <2> QED
    BY <1>1, <2>2, <2>4, BoundStep DEF Frozen, CoverInv, BaseInv, InFold
<1> QED
  BY <1>2, <1>3

(* The invariant is kept by every step. *)
LEMMA NextCovers ==
  ASSUME CoverInv, Inv, [Next]_vars
  PROVE  CoverInv'
<1>1. CASE Next
  BY <1>1, AssignOuterCovers, BindOuterCovers, AssignInnerCovers, BindInnerCovers, BeginFoldCovers,
     FitInitializersCovers, FoldStepCovers, ScoreTestCovers, FinishCovers DEF Next
<1>2. CASE UNCHANGED vars
  <2>1. /\ Small' = Small /\ Large' = Large /\ Groups' = Groups /\ Outer' = Outer
        /\ Scored' = Scored /\ Crowded' = Crowded
    BY <1>2 DEF vars, Small, Large, Groups, Outer, Scored, Crowded
  <2>2. InnerGroups' = InnerGroups /\ Part("train")' = Part("train")
        /\ External' = External /\ Universe' = Universe
    BY <1>2, <2>1 DEF vars, runVars, InnerGroups, Part, Present, External, Universe
  <2>3. Seedable' = Seedable
    BY <1>2, <2>2 DEF vars, runVars, Seedable
  <2>4. BoundInv' = BoundInv
    BY <1>2, <2>1, <2>2, <2>3 DEF vars, BoundInv
  <2>5. BaseInv' = BaseInv /\ PlanInv' = PlanInv
    BY <1>2, <2>1 DEF vars, BaseInv, PlanInv
  <2> QED
    BY <1>2, <2>1, <2>4, <2>5 DEF vars, CoverInv, UnplannedOnlyIfCrowded
<1> QED
  BY <1>1, <1>2

(* The invariant is inductive, with what Safety says of the parts. *)
THEOREM Coverage == Spec => []CoverInv
<1>1. CoverInv /\ Inv /\ [Next]_vars => CoverInv'
  BY NextCovers
<1> QED
  BY <1>1, CoverInit, Safety, PTL DEF Spec

(* The checks of a run that has been planned never fail but for a label of *)
(* its own that is too rare for the folds (RefusedOnlyIfSmall), however    *)
(* many groups of the dataset were balanced with it.                       *)
THEOREM OnlyRareLabelsAreRefused == Spec => []RefusedOnlyIfSmall
<1>1. CoverInv => RefusedOnlyIfSmall
  BY DEF CoverInv, BoundInv, RefusedOnlyIfSmall
<1> QED
  BY <1>1, Coverage, PTL

(* The greedy choice of splits.py gives every fold a task of each of two   *)
(* groups, however they overlap; only with a third one may there be no     *)
(* plan (UnplannedOnlyIfCrowded).                                          *)
THEOREM TwoGroupsArePlanned == Spec => []UnplannedOnlyIfCrowded
<1>1. CoverInv => UnplannedOnlyIfCrowded
  BY DEF CoverInv
<1> QED
  BY <1>1, Coverage, PTL
=============================================================================
