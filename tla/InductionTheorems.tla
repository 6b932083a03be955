----------------------------- MODULE InductionTheorems -----------------------------
EXTENDS Integers, FiniteSets, Functions, FiniteSetTheorems, TLAPS

-----------------------------------------------------------------------------
(* Induction, stated with sets: the well-foundedness theorems of the       *)
(* library give a minimal element of a set of counterexamples.             *)

(* Every non-empty set of natural numbers has a least element. *)
LEMMA LeastNatural ==
  ASSUME NEW T, T \subseteq Nat, T # {}
  PROVE  \E n \in T : \A m \in T : n <= m
<1>1. IsWellFoundedOn(OpToRel(<, Nat), Nat)
  BY NatLessThanWellFounded
<1>2. PICK n \in T : \A m \in T : ~ (<<m, n>> \in OpToRel(<, Nat))
  BY <1>1, WFMin
<1>3. \A m \in T : ~(m < n)
  BY <1>2 DEF OpToRel
<1>4. QED
  BY <1>3

(* A set of numbers that holds 0 and every successor holds them all. *)
LEMMA NaturalsInduct ==
  ASSUME NEW G, 0 \in G, \A n \in Nat : n \in G => n + 1 \in G
  PROVE  \A n \in Nat : n \in G
<1> DEFINE Bad == Nat \ G
<1>1. SUFFICES ASSUME Bad # {} PROVE FALSE
  OBVIOUS
<1>2. PICK n \in Bad : \A m \in Bad : n <= m
  BY <1>1, LeastNatural
<1>3. n # 0 /\ n - 1 \in Nat
  BY <1>2
<1>4. n - 1 \in G
  BY <1>2, <1>3
<1>5. QED
  BY <1>2, <1>3, <1>4

LEMMA FiniteSetFacts ==
  ASSUME NEW T, IsFiniteSet(T)
  PROVE  /\ Cardinality(T) \in Nat
         /\ Cardinality(T) = 0 <=> T = {}
         /\ \A x \in T : Cardinality(T \ {x}) = Cardinality(T) - 1
         /\ \A U \in SUBSET T : IsFiniteSet(U) /\ Cardinality(U) <= Cardinality(T)
<1>1. Cardinality(T) \in Nat
  BY FS_CardinalityType
<1>2. Cardinality(T) = 0 <=> T = {}
  BY FS_EmptySet
<1>3. \A x \in T : Cardinality(T \ {x}) = Cardinality(T) - 1
  BY FS_RemoveElement
<1>4. \A U \in SUBSET T : IsFiniteSet(U) /\ Cardinality(U) <= Cardinality(T)
  BY FS_Subset
<1>5. QED
  BY <1>1, <1>2, <1>3, <1>4

(* A family of sets that holds the empty set, and every subset of S with   *)
(* one element more than a member, holds the finite set S.                 *)
LEMMA FiniteSetsInduct ==
  ASSUME NEW S, IsFiniteSet(S), NEW G, {} \in G,
         \A T \in SUBSET S : \A x \in S \ T : T \in G => T \cup {x} \in G
  PROVE  S \in G
<1> DEFINE N == {n \in Nat : \A T \in SUBSET S : Cardinality(T) = n => T \in G}
<1>1. \A T \in SUBSET S : IsFiniteSet(T) /\ Cardinality(T) \in Nat
  BY FS_Subset, FS_CardinalityType
<1>2. 0 \in N
  BY <1>1, FS_EmptySet
<1>3. ASSUME NEW n \in Nat, n \in N PROVE n + 1 \in N
  <2>1. SUFFICES ASSUME NEW T \in SUBSET S, Cardinality(T) = n + 1
                 PROVE  T \in G
    OBVIOUS
  <2>2. T # {}
    <3>1. Cardinality(T) # 0
      BY <2>1
    <3>2. QED
      BY <1>1, <3>1, FiniteSetFacts
  <2>3. PICK x \in T : TRUE
    BY <2>2
  <2>4. Cardinality(T \ {x}) = n /\ T \ {x} \in SUBSET S
    <3>1. Cardinality(T \ {x}) = Cardinality(T) - 1
      BY <1>1, FiniteSetFacts
    <3>2. QED
      BY <2>1, <3>1
  <2>5. T \ {x} \in G
    BY <1>3, <2>4
  <2>6. (T \ {x}) \cup {x} \in G
    BY <2>4, <2>5
  <2>7. (T \ {x}) \cup {x} = T
    OBVIOUS
  <2>8. QED
    BY <2>6, <2>7
<1> HIDE DEF N
<1>4. Cardinality(S) \in N
  BY <1>1, <1>2, <1>3, NaturalsInduct
<1>5. QED
  BY <1>4 DEF N

-----------------------------------------------------------------------------
(* The sum of f over the finite set S, as the fold computes it. *)
Chosen(T) == CHOOSE x \in T : TRUE

IsFold(f, D, g) ==
  g = [T \in D |-> IF T = {} THEN 0 ELSE f[Chosen(T)] + g[T \ {Chosen(T)}]]

LEMMA ChosenIn ==
  ASSUME NEW T, T # {}
  PROVE  Chosen(T) \in T
BY DEF Chosen

LEMMA SumIsFold ==
  ASSUME NEW f, NEW S
  PROVE  SumFunctionOnSet(f, S) = (CHOOSE g : IsFold(f, SUBSET S, g))[S]
BY DEF SumFunctionOnSet, FoldFunctionOnSet, MapThenFoldSet, IsFold, Chosen

LEMMA FoldExists ==
  ASSUME NEW f, NEW S, IsFiniteSet(S)
  PROVE  \E g : IsFold(f, SUBSET S, g)
<1> DEFINE D(k) == {T \in SUBSET S : Cardinality(T) <= k}
           N == {n \in Nat : \E g : IsFold(f, D(n), g)}
<1>1. \A T \in SUBSET S : IsFiniteSet(T) /\ Cardinality(T) \in Nat
  BY FS_Subset, FS_CardinalityType
<1>2. 0 \in N
  <2>1. D(0) = {{}}
    BY <1>1, FS_EmptySet
  <2>2. IsFold(f, D(0), [T \in D(0) |-> 0])
    BY <2>1 DEF IsFold
  <2>3. QED
    BY <2>2
<1>3. ASSUME NEW n \in Nat, n \in N PROVE n + 1 \in N
  <2>1. PICK g : IsFold(f, D(n), g)
    BY <1>3
  <2> DEFINE h == [T \in D(n + 1) |->
                     IF T = {} THEN 0 ELSE f[Chosen(T)] + g[T \ {Chosen(T)}]]
  <2>2. D(n) \subseteq D(n + 1)
    BY <1>1
  <2>3. \A T \in D(n + 1) : T # {} => T \ {Chosen(T)} \in D(n)
    BY <1>1, ChosenIn, FS_RemoveElement
  <2> HIDE DEF D
  <2>4. \A T \in D(n) : h[T] = g[T]
    BY <2>1, <2>2 DEF IsFold
  <2>5. h = [T \in D(n + 1) |->
               IF T = {} THEN 0 ELSE f[Chosen(T)] + h[T \ {Chosen(T)}]]
    BY <2>3, <2>4
  <2> HIDE DEF h
  <2>6. IsFold(f, D(n + 1), h)
    BY <2>5 DEF IsFold
  <2>7. QED
    BY <2>6
<1>4. Cardinality(S) \in N
  <2> HIDE DEF N
  <2>1. QED
    BY <1>1, <1>2, <1>3, NaturalsInduct
<1>5. D(Cardinality(S)) = SUBSET S
  BY <1>1, FS_Subset
<1>6. QED
  BY <1>4, <1>5

(* Two folds agree wherever both are defined and their summands agree. *)
LEMMA FoldUnique ==
  ASSUME NEW f, NEW g, NEW S, NEW fsum, NEW R, NEW gsum, NEW T, IsFiniteSet(T),
         IsFold(f, SUBSET S, fsum), IsFold(g, SUBSET R, gsum),
         T \subseteq S, T \subseteq R, \A x \in T : f[x] = g[x]
  PROVE  fsum[T] = gsum[T]
<1> DEFINE N == {n \in Nat : \A U \in SUBSET T : Cardinality(U) = n => fsum[U] = gsum[U]}
<1>1. \A U \in SUBSET T : /\ IsFiniteSet(U) /\ Cardinality(U) \in Nat
                          /\ U \in SUBSET S /\ U \in SUBSET R
  BY FS_Subset, FS_CardinalityType
<1>2. \A U \in SUBSET T :
        /\ fsum[U] = IF U = {} THEN 0 ELSE f[Chosen(U)] + fsum[U \ {Chosen(U)}]
        /\ gsum[U] = IF U = {} THEN 0 ELSE g[Chosen(U)] + gsum[U \ {Chosen(U)}]
  BY <1>1 DEF IsFold
<1>3. 0 \in N
  BY <1>1, <1>2, FS_EmptySet
<1>4. ASSUME NEW n \in Nat, n \in N PROVE n + 1 \in N
  <2>1. SUFFICES ASSUME NEW U \in SUBSET T, Cardinality(U) = n + 1
                 PROVE  fsum[U] = gsum[U]
    OBVIOUS
  <2>2. U # {} /\ Chosen(U) \in U
    <3>1. Cardinality(U) # 0
      BY <2>1
    <3>2. QED
      BY <1>1, <3>1, FiniteSetFacts, ChosenIn
  <2>3. Cardinality(U \ {Chosen(U)}) = n /\ U \ {Chosen(U)} \in SUBSET T
    <3>1. Cardinality(U \ {Chosen(U)}) = Cardinality(U) - 1
      BY <1>1, <2>2, FiniteSetFacts
    <3>2. QED
      BY <2>1, <3>1
  <2>4. fsum[U \ {Chosen(U)}] = gsum[U \ {Chosen(U)}]
    BY <1>4, <2>3
  <2>5. QED
    BY <1>2, <2>2, <2>4
<1> HIDE DEF N
<1>5. Cardinality(T) \in N
  BY <1>1, <1>3, <1>4, NaturalsInduct
<1>6. QED
  BY <1>5 DEF N

LEMMA SumUnfolds ==
  ASSUME NEW f, NEW S, IsFiniteSet(S)
  PROVE  SumFunctionOnSet(f, S) =
           IF S = {} THEN 0
           ELSE f[Chosen(S)] + SumFunctionOnSet(f, S \ {Chosen(S)})
<1> DEFINE fold(T) == CHOOSE g : IsFold(f, SUBSET T, g)
           rest == S \ {Chosen(S)}
<1>1. IsFiniteSet(rest)
  BY FS_Subset
<1>2. IsFold(f, SUBSET S, fold(S)) /\ IsFold(f, SUBSET rest, fold(rest))
  BY <1>1, FoldExists
<1>3. SumFunctionOnSet(f, S) = fold(S)[S] /\ SumFunctionOnSet(f, rest) = fold(rest)[rest]
  BY SumIsFold
<1> HIDE DEF fold
<1>4. fold(S)[rest] = fold(rest)[rest]
  <2>1. rest \subseteq S
    OBVIOUS
  <2> HIDE DEF rest
  <2>2. QED
    BY <1>1, <1>2, <2>1, FoldUnique
<1>5. fold(S)[S] = IF S = {} THEN 0 ELSE f[Chosen(S)] + fold(S)[rest]
  BY <1>2 DEF IsFold
<1>6. QED
  BY <1>3, <1>4, <1>5

(* Sums of the same values over the same set are equal. *)
LEMMA SumSame ==
  ASSUME NEW f, NEW g, NEW S, IsFiniteSet(S), \A x \in S : f[x] = g[x]
  PROVE  SumFunctionOnSet(f, S) = SumFunctionOnSet(g, S)
<1>1. PICK fsum : fsum = CHOOSE h : IsFold(f, SUBSET S, h)
  OBVIOUS
<1>2. PICK gsum : gsum = CHOOSE h : IsFold(g, SUBSET S, h)
  OBVIOUS
<1>3. IsFold(f, SUBSET S, fsum) /\ IsFold(g, SUBSET S, gsum)
  BY <1>1, <1>2, FoldExists
<1>4. fsum[S] = gsum[S]
  BY <1>3, FoldUnique
<1>5. QED
  BY <1>1, <1>2, <1>4, SumIsFold

LEMMA SumEmpty ==
  ASSUME NEW f
  PROVE  SumFunctionOnSet(f, {}) = 0
BY SumUnfolds, FS_EmptySet

(* A sum of integers is an integer, and a sum of natural numbers is one. *)
LEMMA SumType ==
  ASSUME NEW f, NEW S, IsFiniteSet(S), NEW R \in {Nat, Int},
         \A x \in S : f[x] \in R
  PROVE  SumFunctionOnSet(f, S) \in R
<1> DEFINE N == {n \in Nat : \A T \in SUBSET S :
                                Cardinality(T) = n => SumFunctionOnSet(f, T) \in R}
<1>1. \A T \in SUBSET S : IsFiniteSet(T) /\ Cardinality(T) \in Nat
  BY FiniteSetFacts
<1>2. 0 \in N
  <2>1. \A T \in SUBSET S : Cardinality(T) = 0 => T = {}
    BY <1>1, FiniteSetFacts
  <2>2. SumFunctionOnSet(f, {}) = 0 /\ 0 \in R
    BY SumEmpty
  <2>3. QED
    BY <2>1, <2>2
<1>3. ASSUME NEW n \in Nat, n \in N PROVE n + 1 \in N
  <2>1. SUFFICES ASSUME NEW T \in SUBSET S, Cardinality(T) = n + 1
                 PROVE  SumFunctionOnSet(f, T) \in R
    OBVIOUS
  <2>2. T # {} /\ Chosen(T) \in T
    <3>1. Cardinality(T) # 0
      BY <2>1
    <3>2. QED
      BY <1>1, <3>1, FiniteSetFacts, ChosenIn
  <2>3. Cardinality(T \ {Chosen(T)}) = n /\ T \ {Chosen(T)} \in SUBSET S
    <3>1. Cardinality(T \ {Chosen(T)}) = Cardinality(T) - 1
      BY <1>1, <2>2, FiniteSetFacts
    <3>2. QED
      BY <2>1, <3>1
  <2>4. SumFunctionOnSet(f, T \ {Chosen(T)}) \in R
    BY <1>3, <2>3
  <2>5. SumFunctionOnSet(f, T) = f[Chosen(T)] + SumFunctionOnSet(f, T \ {Chosen(T)})
    BY <1>1, <2>2, SumUnfolds
  <2>6. f[Chosen(T)] \in R
    BY <2>2
  <2>7. QED
    BY <2>4, <2>5, <2>6
<1> HIDE DEF N
<1>4. Cardinality(S) \in N
  BY <1>1, <1>2, <1>3, NaturalsInduct
<1>5. QED
  BY <1>4 DEF N

(* Any element may be split off a sum, not only the one the fold chooses. *)
LEMMA SumRemove ==
  ASSUME NEW f, NEW S, IsFiniteSet(S), \A x \in S : f[x] \in Int, NEW e \in S
  PROVE  SumFunctionOnSet(f, S) = f[e] + SumFunctionOnSet(f, S \ {e})
<1> DEFINE Sum(T) == SumFunctionOnSet(f, T)
           N == {n \in Nat : \A T \in SUBSET S : \A x \in T :
                               Cardinality(T) = n => Sum(T) = f[x] + Sum(T \ {x})}
<1>1. \A T \in SUBSET S : IsFiniteSet(T) /\ Cardinality(T) \in Nat
  BY FiniteSetFacts
<1>2. \A T \in SUBSET S : Sum(T) \in Int
  <2>1. \A T \in SUBSET S : \A x \in T : f[x] \in Int
    OBVIOUS
  <2>2. QED
    BY <1>1, <2>1, SumType
<1>3. \A T \in SUBSET S : T # {} => Sum(T) = f[Chosen(T)] + Sum(T \ {Chosen(T)})
  BY <1>1, SumUnfolds
<1> HIDE DEF Sum
<1>4. 0 \in N
  BY <1>1, FiniteSetFacts
<1>5. ASSUME NEW n \in Nat, n \in N PROVE n + 1 \in N
  <2>1. SUFFICES ASSUME NEW T \in SUBSET S, NEW x \in T, Cardinality(T) = n + 1
                 PROVE  Sum(T) = f[x] + Sum(T \ {x})
    OBVIOUS
  <2>2. PICK c : c = Chosen(T)
    OBVIOUS
  <2>3. c \in T /\ Sum(T) = f[c] + Sum(T \ {c})
    BY <1>3, <2>2, ChosenIn
  <2>4. CASE c = x
    BY <2>3, <2>4
  <2>5. CASE c # x
    <3>1. /\ T \ {c} \in SUBSET S /\ x \in T \ {c}
          /\ T \ {x} \in SUBSET S /\ c \in T \ {x}
      BY <2>3, <2>5
    <3>2. Cardinality(T \ {c}) = n /\ Cardinality(T \ {x}) = n
      <4>1. /\ Cardinality(T \ {c}) = Cardinality(T) - 1
            /\ Cardinality(T \ {x}) = Cardinality(T) - 1
        BY <1>1, <2>3, FiniteSetFacts
      <4>2. QED
        BY <2>1, <4>1
    <3>3. Sum(T \ {c}) = f[x] + Sum((T \ {c}) \ {x})
      BY <1>5, <3>1, <3>2
    <3>4. Sum(T \ {x}) = f[c] + Sum((T \ {x}) \ {c})
      BY <1>5, <3>1, <3>2
    <3>5. PICK r : r = (T \ {c}) \ {x}
      OBVIOUS
    <3>6. r \in SUBSET S /\ r = (T \ {x}) \ {c}
      BY <3>5
    <3>7. f[x] \in Int /\ f[c] \in Int /\ Sum(r) \in Int
      BY <1>2, <2>3, <3>6
    <3>8. Sum(T \ {c}) = f[x] + Sum(r) /\ Sum(T \ {x}) = f[c] + Sum(r)
      <4>1. (T \ {x}) \ {c} = r
        BY <3>6
      <4>2. QED
        BY <3>3, <3>4, <3>5, <4>1
    <3>9. f[c] + (f[x] + Sum(r)) = f[x] + (f[c] + Sum(r))
      BY <3>7
    <3>10. QED
      BY <2>3, <3>8, <3>9
  <2>6. QED
    BY <2>4, <2>5
<1> HIDE DEF N
<1>6. Cardinality(S) \in N
  BY <1>1, <1>4, <1>5, NaturalsInduct
<1>7. QED
  BY <1>6 DEF N, Sum

LEMMA SumAdd ==
  ASSUME NEW f, NEW S, IsFiniteSet(S), NEW e, e \notin S,
         \A x \in S \cup {e} : f[x] \in Int
  PROVE  SumFunctionOnSet(f, S \cup {e}) = SumFunctionOnSet(f, S) + f[e]
<1> DEFINE T == S \cup {e}
<1>1. IsFiniteSet(T)
  BY FS_AddElement
<1>2. T \ {e} = S /\ e \in T
  OBVIOUS
<1>3. SumFunctionOnSet(f, T) = f[e] + SumFunctionOnSet(f, T \ {e})
  BY <1>1, <1>2, SumRemove
<1>4. SumFunctionOnSet(f, S) \in Int /\ f[e] \in Int
  BY SumType
<1>5. SumFunctionOnSet(f, T) = f[e] + SumFunctionOnSet(f, S)
  BY <1>2, <1>3
<1> HIDE DEF T
<1>6. SumFunctionOnSet(f, T) = SumFunctionOnSet(f, S) + f[e]
  BY <1>4, <1>5
<1>7. QED
  BY <1>6 DEF T

(* The sum over two disjoint sets is the sum of their sums. *)
LEMMA SumDisjoint ==
  ASSUME NEW f, NEW S, IsFiniteSet(S), NEW R, IsFiniteSet(R), S \cap R = {},
         \A x \in S \cup R : f[x] \in Int
  PROVE  SumFunctionOnSet(f, S \cup R) =
           SumFunctionOnSet(f, S) + SumFunctionOnSet(f, R)
<1> DEFINE Sum(T) == SumFunctionOnSet(f, T)
           Good == {T \in SUBSET R : Sum(S \cup T) = Sum(S) + Sum(T)}
<1>1. \A T \in SUBSET R : /\ IsFiniteSet(T) /\ IsFiniteSet(S \cup T)
                          /\ Sum(T) \in Int /\ Sum(S \cup T) \in Int
  <2> TAKE T \in SUBSET R
  <2>1. IsFiniteSet(T) /\ IsFiniteSet(S \cup T)
    BY FS_Subset, FS_Union
  <2>2. QED
    BY <2>1, SumType
<1>2. Sum(S) \in Int /\ Sum({}) = 0
  BY SumType, SumEmpty
<1>3. {} \in Good
  <2>1. S \cup {} = S
    OBVIOUS
  <2>2. QED
    BY <1>2, <2>1
<1>4. ASSUME NEW T \in SUBSET R, NEW x \in R \ T, T \in Good
      PROVE  T \cup {x} \in Good
  <2>1. Sum(T \cup {x}) = Sum(T) + f[x]
    BY <1>1, SumAdd
  <2>2. Sum((S \cup T) \cup {x}) = Sum(S \cup T) + f[x]
    <3>1. x \notin S \cup T /\ \A y \in (S \cup T) \cup {x} : f[y] \in Int
      BY <1>4
    <3>2. QED
      BY <1>1, <3>1, SumAdd
  <2>3. Sum(S \cup T) = Sum(S) + Sum(T)
    BY <1>4
  <2>4. f[x] \in Int /\ Sum(T) \in Int
    BY <1>1
  <2>5. (S \cup T) \cup {x} = S \cup (T \cup {x})
    OBVIOUS
  <2> HIDE DEF Sum
  <2>6. (Sum(S) + Sum(T)) + f[x] = Sum(S) + (Sum(T) + f[x])
    BY <1>2, <2>4
  <2>7. Sum(S \cup (T \cup {x})) = Sum(S) + Sum(T \cup {x})
    BY <2>1, <2>2, <2>3, <2>5, <2>6
  <2>8. QED
    BY <2>7
<1> HIDE DEF Good
<1>5. R \in Good
  BY <1>3, <1>4, FiniteSetsInduct
<1>6. QED
  BY <1>5 DEF Good

(* A sum over the image of an injection is a sum over its domain. *)
LEMMA SumImage ==
  ASSUME NEW f, NEW h, NEW I, IsFiniteSet(I),
         \A x, y \in I : h[x] = h[y] => x = y,
         \A x \in I : f[h[x]] \in Int
  PROVE  SumFunctionOnSet(f, {h[x] : x \in I}) =
           SumFunctionOnSet([x \in I |-> f[h[x]]], I)
<1> DEFINE g == [x \in I |-> f[h[x]]]
           Im(J) == {h[x] : x \in J}
           Good == {J \in SUBSET I : IsFiniteSet(Im(J)) /\
                      SumFunctionOnSet(f, Im(J)) = SumFunctionOnSet(g, J)}
<1>1. {} \in Good
  <2>1. Im({}) = {}
    OBVIOUS
  <2>2. QED
    BY <2>1, SumEmpty, FS_EmptySet
<1>2. ASSUME NEW J \in SUBSET I, NEW x \in I \ J, J \in Good
      PROVE  J \cup {x} \in Good
  <2>1. Im(J \cup {x}) = Im(J) \cup {h[x]} /\ h[x] \notin Im(J)
    OBVIOUS
  <2>2. IsFiniteSet(J) /\ IsFiniteSet(Im(J)) /\ IsFiniteSet(Im(J) \cup {h[x]})
    BY <1>2, FS_Subset, FS_AddElement
  <2>3. \A y \in Im(J) \cup {h[x]} : f[y] \in Int
    OBVIOUS
  <2>4. \A y \in J \cup {x} : g[y] \in Int
    OBVIOUS
  <2>5. g[x] = f[h[x]]
    OBVIOUS
  <2> HIDE DEF Im, g
  <2>6. SumFunctionOnSet(f, Im(J) \cup {h[x]}) = SumFunctionOnSet(f, Im(J)) + f[h[x]]
    BY <2>1, <2>2, <2>3, SumAdd
  <2>7. SumFunctionOnSet(g, J \cup {x}) = SumFunctionOnSet(g, J) + g[x]
    BY <2>2, <2>4, SumAdd
  <2>8. SumFunctionOnSet(f, Im(J)) = SumFunctionOnSet(g, J)
    BY <1>2
  <2>9. SumFunctionOnSet(f, Im(J \cup {x})) = SumFunctionOnSet(g, J \cup {x})
    BY <2>1, <2>5, <2>6, <2>7, <2>8
  <2>10. QED
    BY <2>1, <2>2, <2>9
<1> HIDE DEF Good
<1>3. I \in Good
  BY <1>1, <1>2, FiniteSetsInduct
<1>4. QED
  BY <1>3 DEF Good

(* One value more at the end of an interval. *)
LEMMA SumNext ==
  ASSUME NEW f, NEW g, NEW n \in Nat,
         \A i \in 1..n : f[i] = g[i], \A i \in 1..(n + 1) : g[i] \in Int
  PROVE  SumFunctionOnSet(g, 1..(n + 1)) = SumFunctionOnSet(f, 1..n) + g[n + 1]
<1>1. IsFiniteSet(1..n) /\ n + 1 \notin 1..n /\ 1..(n + 1) = (1..n) \cup {n + 1}
  BY FS_Interval
<1>2. SumFunctionOnSet(g, (1..n) \cup {n + 1}) = SumFunctionOnSet(g, 1..n) + g[n + 1]
  <2>1. PICK S, m : S = 1..n /\ m = n + 1
    OBVIOUS
  <2>2. IsFiniteSet(S) /\ m \notin S /\ \A x \in S \cup {m} : g[x] \in Int
    BY <1>1, <2>1
  <2>3. SumFunctionOnSet(g, S \cup {m}) = SumFunctionOnSet(g, S) + g[m]
    BY <2>2, SumAdd
  <2>4. QED
    BY <2>1, <2>3
<1>3. SumFunctionOnSet(f, 1..n) = SumFunctionOnSet(g, 1..n)
  BY <1>1, SumSame
<1>4. QED
  BY <1>1, <1>2, <1>3

(* Changing the value at one element moves the sum by the difference. *)
LEMMA SumUpdate ==
  ASSUME NEW f, NEW g, NEW S, IsFiniteSet(S), NEW e \in S,
         \A x \in S : f[x] \in Int /\ g[x] \in Int,
         \A x \in S \ {e} : f[x] = g[x]
  PROVE  SumFunctionOnSet(g, S) = SumFunctionOnSet(f, S) + (g[e] - f[e])
<1>1. /\ SumFunctionOnSet(f, S) = f[e] + SumFunctionOnSet(f, S \ {e})
      /\ SumFunctionOnSet(g, S) = g[e] + SumFunctionOnSet(g, S \ {e})
  BY SumRemove
<1>2. IsFiniteSet(S \ {e})
  BY FS_RemoveElement
<1>3. SumFunctionOnSet(f, S \ {e}) = SumFunctionOnSet(g, S \ {e})
  BY <1>2, SumSame
<1>4. SumFunctionOnSet(f, S \ {e}) \in Int
  <2>1. \A x \in S \ {e} : f[x] \in Int
    OBVIOUS
  <2>2. QED
    BY <1>2, <2>1, SumType
<1>5. f[e] \in Int /\ g[e] \in Int
  OBVIOUS
<1>6. PICK r \in Int : r = SumFunctionOnSet(f, S \ {e})
  BY <1>4
<1>7. g[e] + r = (f[e] + r) + (g[e] - f[e])
  BY <1>5, <1>6
<1>8. QED
  BY <1>1, <1>3, <1>6, <1>7

(* A non-empty set of numbers between two bounds has a greatest element    *)
(* and a least one.                                                        *)
LEMMA BoundedExtremes ==
  ASSUME NEW S, S # {}, NEW n \in Nat, S \subseteq 0..n
  PROVE  /\ \E x \in S : \A y \in S : x >= y
         /\ \E x \in S : \A y \in S : x <= y
<1> DEFINE T == {n - x : x \in S}
<1>1. \A x \in S : x \in Nat /\ n - x \in Nat
  OBVIOUS
<1>2. T \subseteq Nat /\ T # {}
  BY <1>1
<1>3. PICK t \in T : \A u \in T : t <= u
  <2> HIDE DEF T
  <2>1. QED
    BY <1>2, LeastNatural
<1>4. PICK x \in S : t = n - x
  BY <1>3
<1>5. \A y \in S : n - x <= n - y
  BY <1>3, <1>4
<1>6. \A y \in S : x >= y
  BY <1>1, <1>5
<1>7. \E z \in S : \A y \in S : z <= y
  <2>1. S \subseteq Nat
    BY <1>1
  <2>2. QED
    BY <2>1, LeastNatural
<1>8. QED
  BY <1>6, <1>7

(* Only what is added where something is counts. *)
LEMMA SumZero ==
  ASSUME NEW f, NEW S, IsFiniteSet(S), \A x \in S : f[x] = 0
  PROVE  SumFunctionOnSet(f, S) = 0
<1> DEFINE Good == {T \in SUBSET S : SumFunctionOnSet(f, T) = 0}
<1>1. {} \in Good
  BY SumEmpty
<1>2. ASSUME NEW T \in SUBSET S, NEW x \in S \ T, T \in Good
      PROVE  T \cup {x} \in Good
  <2>1. IsFiniteSet(T)
    BY FS_Subset
  <2>2. SumFunctionOnSet(f, T \cup {x}) = SumFunctionOnSet(f, T) + f[x]
    BY <2>1, SumAdd
  <2>3. QED
    BY <1>2, <2>2
<1> HIDE DEF Good
<1>3. S \in Good
  BY <1>1, <1>2, FiniteSetsInduct
<1>4. QED
  BY <1>3 DEF Good

LEMMA SumWhere ==
  ASSUME NEW f, NEW S, IsFiniteSet(S), NEW T, T \subseteq S,
         \A x \in T : f[x] \in Int, \A x \in S \ T : f[x] = 0
  PROVE  SumFunctionOnSet(f, S) = SumFunctionOnSet(f, T)
<1> DEFINE R == S \ T
<1>1. /\ IsFiniteSet(T) /\ IsFiniteSet(R) /\ T \cap R = {} /\ T \cup R = S
      /\ \A x \in T \cup R : f[x] \in Int
  BY FS_Subset
<1>2. SumFunctionOnSet(f, R) = 0
  BY <1>1, SumZero
<1> HIDE DEF R
<1>3. SumFunctionOnSet(f, T \cup R) = SumFunctionOnSet(f, T) + SumFunctionOnSet(f, R)
  BY <1>1, SumDisjoint
<1>4. SumFunctionOnSet(f, T) \in Int
  BY <1>1, SumType
<1>5. T \cup R = S
  BY <1>1
<1>6. SumFunctionOnSet(f, S) = SumFunctionOnSet(f, T) + 0
  BY <1>2, <1>3, <1>5
<1>7. QED
  BY <1>4, <1>6

(* The sum of sums, taken element by element. *)
LEMMA SumPlus ==
  ASSUME NEW f, NEW g, NEW h, NEW S, IsFiniteSet(S),
         \A x \in S : f[x] \in Int /\ g[x] \in Int /\ h[x] = f[x] + g[x]
  PROVE  SumFunctionOnSet(h, S) = SumFunctionOnSet(f, S) + SumFunctionOnSet(g, S)
<1> DEFINE F(T) == SumFunctionOnSet(f, T)
           G(T) == SumFunctionOnSet(g, T)
           H(T) == SumFunctionOnSet(h, T)
           Good == {T \in SUBSET S : H(T) = F(T) + G(T)}
<1>1. {} \in Good
  BY SumEmpty
<1>2. ASSUME NEW T \in SUBSET S, NEW x \in S \ T, T \in Good
      PROVE  T \cup {x} \in Good
  <2>1. IsFiniteSet(T)
    BY FS_Subset
  <2>2. \A y \in T \cup {x} : f[y] \in Int /\ g[y] \in Int /\ h[y] \in Int
    OBVIOUS
  <2>3. F(T) \in Int /\ G(T) \in Int
    <3>1. \A y \in T : f[y] \in Int /\ g[y] \in Int
      BY <2>2
    <3>2. QED
      BY <2>1, <3>1, SumType
  <2>4. /\ F(T \cup {x}) = F(T) + f[x]
        /\ G(T \cup {x}) = G(T) + g[x]
        /\ H(T \cup {x}) = H(T) + h[x]
    BY <2>1, <2>2, SumAdd
  <2>5. H(T) = F(T) + G(T) /\ h[x] = f[x] + g[x] /\ f[x] \in Int /\ g[x] \in Int
    BY <1>2
  <2> HIDE DEF F, G, H
  <2>6. H(T \cup {x}) = F(T \cup {x}) + G(T \cup {x})
    BY <2>3, <2>4, <2>5
  <2>7. QED
    BY <2>6
<1> HIDE DEF Good
<1>3. S \in Good
  BY <1>1, <1>2, FiniteSetsInduct
<1>4. QED
  BY <1>3 DEF Good
=============================================================================
