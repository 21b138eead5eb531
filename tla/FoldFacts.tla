----------------------------- MODULE FoldFacts -----------------------------
(***************************************************************************)
(* Induction over the folds of a finite set or a sequence (MapThenFoldSet, *)
(* FoldLeft): what holds of the base and is kept by each step holds of the *)
(* result.  The step, the choice of the next element and what is to hold   *)
(* are the constants Op, Ch and P, so that a module that proves something  *)
(* about a fold takes an instance of this one for it.                      *)
(***************************************************************************)
EXTENDS Integers, Folds, FiniteSets, FiniteSetTheorems, WellFoundedInduction, TLAPS

CONSTANTS Op(_, _, _),  \* Op(p, x, e) takes the element x into e
          Ch(_),        \* the element of a set that is taken in last
          P(_, _, _)    \* P(p, T, e) is what holds of e when T is taken in

\* The fold of S, with a parameter p that the steps share
Fold(p, base, S) == MapThenFoldSet(LAMBDA x, e : Op(p, x, e), base, LAMBDA x : x, Ch, S)

\* Induction over the naturals, for a set
LEMMA NatSet ==
  ASSUME NEW I, 0 \in I, \A n \in Nat : n \in I => n + 1 \in I
  PROVE  Nat \subseteq I
<1> SUFFICES ASSUME ~(Nat \subseteq I) PROVE FALSE
  OBVIOUS
<1> DEFINE T == Nat \ I
<1>1. T \subseteq Nat /\ T # {}
  OBVIOUS
<1> DEFINE Less == {p \in Nat \X Nat : p[1] < p[2]}
<1>2. IsWellFoundedOn(Less, Nat)
  BY NatLessThanWellFounded DEF OpToRel
<1>3. PICK x \in T : \A y \in T : ~(<<y, x>> \in Less)
  <2> HIDE DEF T, Less
  <2> QED BY <1>1, <1>2, WFMin
<1>5. \A y \in T : ~(y < x)
  BY <1>1, <1>3
<1>4. x # 0 /\ x - 1 \in Nat /\ x - 1 < x /\ x - 1 \notin I
  OBVIOUS
<1> QED
  BY <1>5, <1>4

\* Induction over the subsets of a finite set, for a set of them
LEMMA SubsetInduction ==
  ASSUME NEW S, IsFiniteSet(S), NEW I,
         \A T \in SUBSET S : (\A U \in SUBSET T : U # T => U \in I) => T \in I
  PROVE  S \in I
<1> SUFFICES ASSUME S \notin I PROVE FALSE
  OBVIOUS
<1> DEFINE B == (SUBSET S) \ I
<1>1. B \subseteq FiniteSubsetsOf(S) /\ B # {}
  BY FS_FiniteSubsetsOfFinite
<1>2. PICK T \in B : \A U \in B : ~(<<U, T>> \in StrictSubsetOrdering(S))
  <2> HIDE DEF B
  <2> QED BY <1>1, FS_StrictSubsetOrderingWellFounded, WFMin
<1>3. \A U \in SUBSET T : U # T => U \in I
  BY <1>2 DEF StrictSubsetOrdering
<1> QED
  BY <1>2, <1>3

\* The result for T from those for its parts
Grow(p, base, g, T) == IF T = {} THEN base ELSE Op(p, Ch(T), g[T \ {Ch(T)}])

IsFold(p, base, D, g) == g = [T \in D |-> Grow(p, base, g, T)]

\* The function that MapThenFoldSet chooses exists.
LEMMA FoldExists ==
  ASSUME NEW p, NEW base, NEW S, IsFiniteSet(S),
         \A T \in SUBSET S : T # {} => Ch(T) \in T
  PROVE  \E g : IsFold(p, base, SUBSET S, g)
<1> DEFINE L(k) == {T \in SUBSET S : Cardinality(T) <= k}
           I == {k \in Nat : \E g : IsFold(p, base, L(k), g)}
<1>0. \A T \in SUBSET S : IsFiniteSet(T) /\ Cardinality(T) \in Nat
  BY FS_Subset, FS_CardinalityType
<1>1. \A T \in SUBSET S : T # {} =>
        T \ {Ch(T)} \in SUBSET S /\ Cardinality(T \ {Ch(T)}) = Cardinality(T) - 1
  BY <1>0, FS_RemoveElement
<1>2. 0 \in I
  <2> DEFINE g == [T \in L(0) |-> base]
  <2>1. \A T \in L(0) : T = {}
    BY <1>0, FS_EmptySet
  <2>2. IsFold(p, base, L(0), g)
    BY <2>1 DEF Grow, IsFold
  <2> QED
    BY <2>2
<1>3. ASSUME NEW k \in Nat, k \in I PROVE k + 1 \in I
  <2>0. PICK g : IsFold(p, base, L(k), g)
    BY <1>3
  <2>1. g = [T \in L(k) |-> Grow(p, base, g, T)]
    BY <2>0 DEF IsFold
  <2> DEFINE h == [T \in L(k + 1) |-> Grow(p, base, g, T)]
  <2>2. \A T \in L(k) : T \in L(k + 1) /\ h[T] = g[T]
    BY <1>0, <2>1
  <2>3. ASSUME NEW T \in L(k + 1) PROVE Grow(p, base, g, T) = Grow(p, base, h, T)
    <3>1. CASE T = {}
      BY <3>1 DEF Grow
    <3>2. CASE T # {}
      <4>1. T \ {Ch(T)} \in L(k)
        BY <1>0, <1>1, <3>2
      <4> QED
        BY <2>2, <4>1, <3>2 DEF Grow
    <3> QED
      BY <3>1, <3>2
  <2>4. IsFold(p, base, L(k + 1), h)
    BY <2>3 DEF IsFold
  <2>5. k + 1 \in Nat
    OBVIOUS
  <2> HIDE DEF L, h
  <2>6. \E f : IsFold(p, base, L(k + 1), f)
    BY <2>4, Zenon
  <2> QED
    BY <2>5, <2>6, Zenon
<1>4. Nat \subseteq I
  <2> HIDE DEF I
  <2> QED BY <1>2, <1>3, NatSet
<1>5. PICK g : IsFold(p, base, L(Cardinality(S)), g)
  BY <1>0, <1>4
<1>6. L(Cardinality(S)) = SUBSET S
  BY <1>0, FS_Subset
<1> QED
  BY <1>5, <1>6

LEMMA FoldOfNone ==
  ASSUME NEW p, NEW base
  PROVE  Fold(p, base, {}) = base
<1> DEFINE iter == CHOOSE g : g = [T \in SUBSET {} |-> IF T = {} THEN base ELSE Op(p, Ch(T), g[T \ {Ch(T)}])]
<1>1. iter = [T \in SUBSET {} |-> Grow(p, base, iter, T)]
  <2>1. PICK f : IsFold(p, base, SUBSET {}, f)
    BY FoldExists, FS_EmptySet
  <2>2. f = [T \in SUBSET {} |-> IF T = {} THEN base ELSE Op(p, Ch(T), f[T \ {Ch(T)}])]
    BY <2>1 DEF Grow, IsFold
  <2>3. iter = [T \in SUBSET {} |-> IF T = {} THEN base ELSE Op(p, Ch(T), iter[T \ {Ch(T)}])]
    BY <2>2
  <2> QED
    BY <2>3 DEF Grow
<1>2. Fold(p, base, {}) = iter[{}]
  BY DEF Fold, MapThenFoldSet
<1> HIDE DEF iter
<1>3. {} \in SUBSET {} /\ Grow(p, base, iter, {}) = base
  BY DEF Grow
<1> QED
  BY <1>1, <1>2, <1>3

(* Induction over a fold: if P holds of the base, and a step that takes in  *)
(* the chosen element of T keeps it, then P holds of the fold of S.         *)
THEOREM FoldInduction ==
  ASSUME NEW p, NEW base, NEW S, IsFiniteSet(S),
         \A T \in SUBSET S : T # {} => Ch(T) \in T,
         P(p, {}, base),
         \A T \in SUBSET S : \A e :
           T # {} /\ P(p, T \ {Ch(T)}, e) => P(p, T, Op(p, Ch(T), e))
  PROVE  P(p, S, Fold(p, base, S))
<1> DEFINE iter == CHOOSE g : g = [T \in SUBSET S |-> IF T = {} THEN base ELSE Op(p, Ch(T), g[T \ {Ch(T)}])]
<1>1. iter = [T \in SUBSET S |-> Grow(p, base, iter, T)]
  <2>1. PICK f : IsFold(p, base, SUBSET S, f)
    BY FoldExists
  <2>2. f = [T \in SUBSET S |-> IF T = {} THEN base ELSE Op(p, Ch(T), f[T \ {Ch(T)}])]
    BY <2>1 DEF Grow, IsFold
  <2>3. iter = [T \in SUBSET S |-> IF T = {} THEN base ELSE Op(p, Ch(T), iter[T \ {Ch(T)}])]
    BY <2>2
  <2> QED
    BY <2>3 DEF Grow
<1>2. Fold(p, base, S) = iter[S]
  BY DEF Fold, MapThenFoldSet
<1> HIDE DEF iter
<1> DEFINE I == {T \in SUBSET S : P(p, T, iter[T])}
<1>3. ASSUME NEW T \in SUBSET S, \A U \in SUBSET T : U # T => U \in I
      PROVE  T \in I
  <2>1. CASE T = {}
    BY <1>1, <2>1 DEF Grow
  <2>2. CASE T # {}
    <3>1. T \ {Ch(T)} \in I
      BY <1>3, <2>2
    <3>2. iter[T] = Op(p, Ch(T), iter[T \ {Ch(T)}])
      BY <1>1, <2>2 DEF Grow
    <3> QED
      BY <3>1, <3>2, <2>2
  <2> QED
    BY <2>1, <2>2
<1>4. S \in I
  <2> HIDE DEF I
  <2> QED BY <1>3, SubsetInduction
<1> QED
  BY <1>2, <1>4
=============================================================================
