----------------------------- MODULE FiniteSums -----------------------------
(***************************************************************************)
(* Facts about finite sets and about sums over them, which the invariants   *)
(* that count views rest on.                                                *)
(*                                                                         *)
(* SumFunctionOnSet is defined by recursion over the subsets of a set.  That *)
(* the recursion defines anything is shown by a function that satisfies it:  *)
(* the number of elements of the sets Pile(f, T), in which each x of T stands *)
(* f[x] times.                                                             *)
(***************************************************************************)
EXTENDS FiniteSetTheorems, TLAPS

\* Some of the subsets of a finite set are such that no smaller one is.
LEMMA SmallestSubset ==
    ASSUME NEW S, IsFiniteSet(S), NEW Those \in SUBSET (SUBSET S), Those # {}
    PROVE  \E T \in Those : \A U \in Those : U \subseteq T => U = T
<1>1. IsWellFoundedOn(StrictSubsetOrdering(S), SUBSET S)
  BY FS_StrictSubsetOrderingWellFounded, FS_FiniteSubsetsOfFinite
<1>2. PICK T \in Those : \A U \in Those : ~(<<U, T>> \in StrictSubsetOrdering(S))
  BY <1>1, WFMin
<1>3. \A U \in Those : U \subseteq T => U = T
  <2> SUFFICES ASSUME NEW U \in Those, U \subseteq T, U # T PROVE FALSE
    OBVIOUS
  <2>1. <<U, T>> \in StrictSubsetOrdering(S)
    BY DEF StrictSubsetOrdering
  <2> QED
    BY <1>2, <2>1
<1> QED
  BY <1>3

\* Induction over a finite set: what holds of the empty set, and with any set of
\* the set with one element more, holds of S.
LEMMA FiniteInduction ==
    ASSUME NEW S, IsFiniteSet(S), NEW Good, {} \in Good,
           \A T \in SUBSET S : \A x \in S \ T : T \in Good => T \cup {x} \in Good
    PROVE  S \in Good
<1> DEFINE Bad == {T \in SUBSET S : T \notin Good}
<1> SUFFICES ASSUME Bad # {} PROVE FALSE
  OBVIOUS
<1>1. Bad \in SUBSET (SUBSET S)
  OBVIOUS
<1> HIDE DEF Bad
<1>2. PICK T \in Bad : \A U \in Bad : U \subseteq T => U = T
  BY <1>1, SmallestSubset
<1>3. T \in SUBSET S /\ T \notin Good
  BY DEF Bad
<1>4. PICK x \in T : TRUE
  BY <1>3
<1>5. T \ {x} \in SUBSET S /\ T \ {x} \subseteq T /\ T \ {x} # T
  BY <1>3, <1>4
<1>6. T \ {x} \in Good
  BY <1>2, <1>5 DEF Bad
<1>7. (T \ {x}) \cup {x} = T /\ x \in S \ (T \ {x})
  BY <1>3, <1>4
<1> QED
  BY <1>3, <1>5, <1>6, <1>7

\* A finite set of numbers has a greatest one.
LEMMA GreatestElement ==
    ASSUME NEW S, IsFiniteSet(S), S \subseteq Nat, S # {}
    PROVE  \E m \in S : \A s \in S : s <= m
<1> DEFINE Good == {T \in SUBSET S : T # {} => \E m \in T : \A s \in T : s <= m}
<1>1. {} \in Good
  OBVIOUS
<1>2. ASSUME NEW T \in SUBSET S, NEW x \in S \ T, T \in Good PROVE T \cup {x} \in Good
  <2>1. CASE T = {}
    BY <2>1
  <2>2. CASE T # {}
    <3>1. PICK m \in T : \A s \in T : s <= m
      BY <1>2, <2>2
    <3>2. CASE x <= m
      BY <3>1, <3>2
    <3>3. CASE ~(x <= m)
      BY <3>1, <3>3
    <3> QED
      BY <3>2, <3>3
  <2> QED
    BY <2>1, <2>2
<1> HIDE DEF Good
<1>3. S \in Good
  BY <1>1, <1>2, FiniteInduction
<1> QED
  BY <1>3 DEF Good

-----------------------------------------------------------------------------
Pile(f, T) == {e \in T \X Nat : e[2] < f[e[1]]}

\* An element more puts f[x] more on the pile.
LEMMA PileGrows ==
    ASSUME NEW T, NEW f, NEW x, x \notin T, f[x] \in Nat, IsFiniteSet(Pile(f, T))
    PROVE  /\ IsFiniteSet(Pile(f, T \cup {x}))
           /\ Cardinality(Pile(f, T \cup {x})) = f[x] + Cardinality(Pile(f, T))
<1> DEFINE New == {x} \X (0 .. f[x] - 1)
<1>1. IsFiniteSet(New) /\ Cardinality(New) = f[x]
  <2>1. IsFiniteSet({x}) /\ Cardinality({x}) = 1
    BY FS_Singleton
  <2>2. IsFiniteSet(0 .. f[x] - 1) /\ Cardinality(0 .. f[x] - 1) = f[x]
    BY FS_Interval
  <2>3. IsFiniteSet(New) /\ Cardinality(New) = 1 * f[x]
    BY <2>1, <2>2, FS_Product
  <2> QED
    BY <2>3
<1>2. Pile(f, T \cup {x}) = Pile(f, T) \cup New
  BY DEF Pile
<1>3. Pile(f, T) \cap New = {}
  BY DEF Pile
<1> HIDE DEF New
<1>4. Cardinality(Pile(f, T)) \in Nat /\ Cardinality({}) = 0
  BY FS_CardinalityType, FS_EmptySet
<1>5. /\ IsFiniteSet(Pile(f, T) \cup New)
      /\ Cardinality(Pile(f, T) \cup New) = Cardinality(Pile(f, T)) + Cardinality(New) - Cardinality({})
  BY <1>1, <1>3, FS_Union
<1>6. Cardinality(Pile(f, T)) + Cardinality(New) - Cardinality({}) = f[x] + Cardinality(Pile(f, T))
  BY <1>1, <1>4
<1> QED
  BY <1>2, <1>5, <1>6

\* A pile over a finite set is finite.
LEMMA PileIsFinite ==
    ASSUME NEW S, IsFiniteSet(S), NEW f, \A x \in S : f[x] \in Nat
    PROVE  IsFiniteSet(Pile(f, S))
<1> DEFINE Good == {T \in SUBSET S : IsFiniteSet(Pile(f, T))}
<1>1. {} \in Good
  <2>1. Pile(f, {}) = {}
    BY DEF Pile
  <2> QED
    BY <2>1, FS_EmptySet
<1>2. ASSUME NEW T \in SUBSET S, NEW x \in S \ T, T \in Good PROVE T \cup {x} \in Good
  BY <1>2, PileGrows
<1> HIDE DEF Good
<1>3. S \in Good
  BY <1>1, <1>2, FiniteInduction
<1> QED
  BY <1>3 DEF Good

\* The recursion of SumFunctionOnSet counts the pile.
LEMMA SumIsPile ==
    ASSUME NEW S, IsFiniteSet(S), NEW f, \A x \in S : f[x] \in Nat
    PROVE  SumFunctionOnSet(f, S) = Cardinality(Pile(f, S))
<1> DEFINE Some(T) == CHOOSE x \in T : TRUE
           Sums(g) == g = [T \in SUBSET S |-> IF T = {} THEN 0 ELSE f[Some(T)] + g[T \ {Some(T)}]]
           Piles == [T \in SUBSET S |-> Cardinality(Pile(f, T))]
<1>1. ASSUME NEW T \in SUBSET S, T # {}
      PROVE  Some(T) \in T /\ T \ {Some(T)} \in SUBSET S
  BY <1>1
<1>2. ASSUME NEW T \in SUBSET S, NEW x \in T
      PROVE  Cardinality(Pile(f, T)) = f[x] + Cardinality(Pile(f, T \ {x}))
  <2>1. IsFiniteSet(T \ {x})
    BY FS_Subset
  <2>2. IsFiniteSet(Pile(f, T \ {x}))
    BY <2>1, PileIsFinite
  <2>3. (T \ {x}) \cup {x} = T
    OBVIOUS
  <2> QED
    BY <2>2, <2>3, PileGrows
<1>3. Cardinality(Pile(f, {})) = 0
  <2>1. Pile(f, {}) = {}
    BY DEF Pile
  <2> QED
    BY <2>1, FS_EmptySet
<1> HIDE DEF Some
<1>4. Sums(Piles)
  <2> SUFFICES ASSUME NEW T \in SUBSET S
               PROVE  Cardinality(Pile(f, T)) =
                        IF T = {} THEN 0 ELSE f[Some(T)] + Piles[T \ {Some(T)}]
    OBVIOUS
  <2> QED
    BY <1>1, <1>2, <1>3
<1>5. PICK g : Sums(g) /\ g[S] = SumFunctionOnSet(f, S)
  <2> DEFINE g == CHOOSE g : Sums(g)
  <2>1. Sums(g)
    BY <1>4
  <2>2. g[S] = SumFunctionOnSet(f, S)
    BY Zenon DEF SumFunctionOnSet, FoldFunctionOnSet, MapThenFoldSet, Some
  <2> QED
    BY <2>1, <2>2
<1>6. g[S] = Cardinality(Pile(f, S))
  <2> DEFINE Wrong == {T \in SUBSET S : g[T] # Cardinality(Pile(f, T))}
  <2> SUFFICES ASSUME Wrong # {} PROVE FALSE
    OBVIOUS
  <2>1. Wrong \in SUBSET (SUBSET S)
    OBVIOUS
  <2> HIDE DEF Wrong
  <2>2. PICK T \in Wrong : \A U \in Wrong : U \subseteq T => U = T
    BY <2>1, SmallestSubset
  <2>3. T \in SUBSET S /\ g[T] # Cardinality(Pile(f, T))
    BY DEF Wrong
  <2>4. T # {}
    BY <1>3, <1>5, <2>3
  <2>5. Some(T) \in T /\ T \ {Some(T)} \in SUBSET S
    BY <1>1, <2>3, <2>4
  <2>6. g[T \ {Some(T)}] = Cardinality(Pile(f, T \ {Some(T)}))
    BY <2>2, <2>5 DEF Wrong
  <2>7. g[T] = f[Some(T)] + g[T \ {Some(T)}]
    BY <1>5, <2>3, <2>4
  <2> QED
    BY <1>2, <2>3, <2>5, <2>6, <2>7
<1> QED
  BY <1>5, <1>6

-----------------------------------------------------------------------------
\* A sum of numbers is a number.
LEMMA SumType ==
    ASSUME NEW S, IsFiniteSet(S), NEW f \in [S -> Nat]
    PROVE  SumFunction(f) \in Nat
<1>1. IsFiniteSet(Pile(f, S)) /\ SumFunctionOnSet(f, S) = Cardinality(Pile(f, S))
  BY PileIsFinite, SumIsPile
<1> QED
  BY <1>1, FS_CardinalityType DEF SumFunction

\* A sum of nothing but 0 is 0.
LEMMA SumOfZeros ==
    ASSUME NEW S, IsFiniteSet(S), NEW f \in [S -> Nat], \A x \in S : f[x] = 0
    PROVE  SumFunction(f) = 0
<1>1. SumFunctionOnSet(f, S) = Cardinality(Pile(f, S))
  BY SumIsPile
<1>2. Pile(f, S) = {}
  BY DEF Pile
<1> QED
  BY <1>1, <1>2, FS_EmptySet DEF SumFunction

\* A sum of greater numbers is no less.
LEMMA SumMonotonic ==
    ASSUME NEW S, IsFiniteSet(S), NEW f \in [S -> Nat], NEW g \in [S -> Nat],
           \A x \in S : f[x] <= g[x]
    PROVE  SumFunction(f) <= SumFunction(g)
<1>1. /\ SumFunctionOnSet(f, S) = Cardinality(Pile(f, S))
      /\ SumFunctionOnSet(g, S) = Cardinality(Pile(g, S))
      /\ IsFiniteSet(Pile(g, S))
  BY PileIsFinite, SumIsPile
<1>2. Pile(f, S) \subseteq Pile(g, S)
  BY DEF Pile
<1> QED
  BY <1>1, <1>2, FS_Subset DEF SumFunction

\* The sum moves by as much as the one number that changes.
LEMMA SumOfChange ==
    ASSUME NEW S, IsFiniteSet(S), NEW f \in [S -> Nat], NEW g \in [S -> Nat],
           NEW x \in S, \A y \in S \ {x} : g[y] = f[y]
    PROVE  SumFunction(g) + f[x] = SumFunction(f) + g[x]
<1> DEFINE Rest == S \ {x}
<1>1. /\ SumFunction(f) = Cardinality(Pile(f, S))
      /\ SumFunction(g) = Cardinality(Pile(g, S))
  BY SumIsPile DEF SumFunction
<1>2. IsFiniteSet(Rest) /\ x \notin Rest /\ Rest \cup {x} = S
  BY FS_Subset
<1>3. IsFiniteSet(Pile(f, Rest)) /\ IsFiniteSet(Pile(g, Rest))
  BY <1>2, PileIsFinite
<1>4. Pile(f, Rest) = Pile(g, Rest)
  BY DEF Pile
<1> HIDE DEF Rest
<1>5. /\ Cardinality(Pile(f, S)) = f[x] + Cardinality(Pile(f, Rest))
      /\ Cardinality(Pile(g, S)) = g[x] + Cardinality(Pile(f, Rest))
  BY <1>2, <1>3, <1>4, PileGrows
<1>6. Cardinality(Pile(f, Rest)) \in Nat
  BY <1>3, FS_CardinalityType
<1> QED
  BY <1>1, <1>5, <1>6
=============================================================================
