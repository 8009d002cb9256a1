----------------------------- MODULE Sums_proofs -----------------------------
(***************************************************************************)
(* Sums of numbers over a finite set (SumFunctionOnSet), folds over a      *)
(* sequence (FoldLeft) as runs, and the two inductions they need.  What an *)
(* induction is about is put into a set, so that it takes no operator.     *)
(***************************************************************************)
EXTENDS Integers, FiniteSets, Functions, FiniteSetTheorems, WellFoundedInduction, TLAPS

\* Induction over the parts of a finite set: a family that has a part when it
\* has all that are smaller has them all.
LEMMA EveryPart ==
    ASSUME NEW S, IsFiniteSet(S), NEW G,
           \A T \in SUBSET S : (\A U \in SUBSET T : U # T => U \in G) => T \in G
    PROVE  SUBSET S \subseteq G
<1> DEFINE Bad == {T \in FiniteSubsetsOf(S) : T \notin G}
<1>1. \A T \in SUBSET S : T \in FiniteSubsetsOf(S)
  BY FS_Subset DEF FiniteSubsetsOf
<1>2. Bad = {}
  <2> SUFFICES ASSUME Bad # {} PROVE FALSE
    OBVIOUS
  <2>1. PICK T \in Bad : \A U \in Bad : ~ (<<U, T>> \in StrictSubsetOrdering(S))
    <3>1. Bad \subseteq FiniteSubsetsOf(S)
      OBVIOUS
    <3> HIDE DEF Bad
    <3> QED BY <3>1, FS_StrictSubsetOrderingWellFounded, WFMin
  <2>2. T \in SUBSET S /\ T \notin G
    BY DEF FiniteSubsetsOf
  <2>3. ASSUME NEW U \in SUBSET T, U # T PROVE U \in G
    <3>1. <<U, T>> \in StrictSubsetOrdering(S)
      BY <2>2, <2>3 DEF StrictSubsetOrdering
    <3>2. U \notin Bad /\ U \in FiniteSubsetsOf(S)
      BY <1>1, <2>1, <2>2, <3>1
    <3> QED
      BY <3>2
  <2> QED
    BY <2>2, <2>3
<1> QED
  BY <1>1, <1>2

\* Induction over the naturals, for a set of them.
LEMMA EveryNatural ==
    ASSUME NEW G, 0 \in G, \A n \in Nat : n \in G => n + 1 \in G
    PROVE  Nat \subseteq G
<1> DEFINE Bad == Nat \ G
<1>1. Bad = {}
  <2> SUFFICES ASSUME Bad # {} PROVE FALSE
    OBVIOUS
  <2>1. PICK n \in Bad : \A m \in Bad : ~ (<<m, n>> \in OpToRel(<, Nat))
    <3>1. Bad \subseteq Nat /\ Bad # {}
      OBVIOUS
    <3> HIDE DEF Bad
    <3> QED BY <3>1, NatLessThanWellFounded, WFMin
  <2>2. n \in Nat /\ n # 0 /\ n - 1 \in Nat
    OBVIOUS
  <2>3. n - 1 \notin G
    <3>1. n - 1 \in G => n - 1 + 1 \in G
      BY <2>2
    <3> QED
      BY <2>2, <3>1
  <2>4. <<n - 1, n>> \in OpToRel(<, Nat)
    BY <2>2 DEF OpToRel
  <2> QED
    BY <2>1, <2>2, <2>3, <2>4
<1> QED
  BY <1>1

-----------------------------------------------------------------------------
(* Sums of a function over a finite set *)

\* What the sum of a set is made of.
Chosen(T) == CHOOSE x \in T : TRUE
Adds(f, g, T) == IF T = {} THEN 0 ELSE f[Chosen(T)] + g[T \ {Chosen(T)}]
IsAdder(f, g, S) == g = [T \in SUBSET S |-> Adds(f, g, T)]

\* A set without its first element is smaller, and has one element less.
LEMMA WithoutChosen ==
    ASSUME NEW S, IsFiniteSet(S), NEW T \in SUBSET S, T # {}
    PROVE  /\ Chosen(T) \in T /\ T \ {Chosen(T)} \in SUBSET S
           /\ Cardinality(T) \in Nat /\ Cardinality(T) > 0 /\ Cardinality(T \ {Chosen(T)}) = Cardinality(T) - 1
<1>1. Chosen(T) \in T
  BY DEF Chosen
<1>2. IsFiniteSet(T)
  BY FS_Subset
<1> QED
  BY <1>1, <1>2, FS_CardinalityType, FS_EmptySet, FS_RemoveElement

\* The function that adds up the sets of at most so many elements.
AddsUpTo(f, g, S, n) ==
    DOMAIN g = SUBSET S /\ \A T \in SUBSET S : Cardinality(T) <= n => g[T] = Adds(f, g, T)

\* A finite set has an adder.
LEMMA AdderExists ==
    ASSUME NEW S, IsFiniteSet(S), NEW f
    PROVE  \E g : IsAdder(f, g, S)
<1> DEFINE G == {n \in Nat : \E g : g = [T \in SUBSET S |-> g[T]] /\ AddsUpTo(f, g, S, n)}
<1>1. ASSUME NEW T \in SUBSET S PROVE Cardinality(T) \in Nat /\ Cardinality(T) <= Cardinality(S)
  BY FS_Subset, FS_CardinalityType
<1>2. 0 \in G
  <2> DEFINE g == [T \in SUBSET S |-> 0]
  <2>1. ASSUME NEW T \in SUBSET S, Cardinality(T) <= 0 PROVE T = {}
    BY <1>1, <2>1, FS_Subset, FS_EmptySet
  <2>2. AddsUpTo(f, g, S, 0)
    BY <2>1 DEF AddsUpTo, Adds
  <2>3. g = [T \in SUBSET S |-> g[T]]
    OBVIOUS
  <2> HIDE DEF g
  <2> QED
    BY <2>2, <2>3
<1>3. ASSUME NEW n \in Nat, n \in G PROVE n + 1 \in G
  <2>1. PICK g : g = [T \in SUBSET S |-> g[T]] /\ AddsUpTo(f, g, S, n)
    BY <1>3
  <2> DEFINE h == [T \in SUBSET S |-> IF Cardinality(T) <= n THEN g[T] ELSE Adds(f, g, T)]
  <2>2. ASSUME NEW T \in SUBSET S, Cardinality(T) <= n + 1 PROVE h[T] = Adds(f, h, T)
    <3>1. h[T] = Adds(f, g, T)
      BY <2>1 DEF AddsUpTo
    <3>2. CASE T = {}
      BY <3>1, <3>2 DEF Adds
    <3>3. CASE T # {}
      <4>1. T \ {Chosen(T)} \in SUBSET S /\ Cardinality(T \ {Chosen(T)}) <= n
        BY <1>1, <2>2, <3>3, WithoutChosen
      <4>2. h[T \ {Chosen(T)}] = g[T \ {Chosen(T)}]
        BY <4>1
      <4> HIDE DEF h
      <4> QED
        BY <3>1, <4>2 DEF Adds
    <3> QED
      BY <3>2, <3>3
  <2>3. DOMAIN h = SUBSET S /\ h = [T \in SUBSET S |-> h[T]]
    OBVIOUS
  <2> HIDE DEF h
  <2>4. AddsUpTo(f, h, S, n + 1)
    BY <2>2, <2>3 DEF AddsUpTo
  <2> QED
    BY <2>3, <2>4
<1> HIDE DEF G
<1>4. Cardinality(S) \in G
  BY <1>1, <1>2, <1>3, EveryNatural
<1> USE DEF G
<1>5. PICK g : g = [T \in SUBSET S |-> g[T]] /\ AddsUpTo(f, g, S, Cardinality(S))
  BY <1>4
<1>6. \A T \in SUBSET S : g[T] = Adds(f, g, T)
  BY <1>1, <1>5 DEF AddsUpTo
<1>7. IsAdder(f, g, S)
  BY <1>5, <1>6 DEF IsAdder
<1> QED
  BY <1>7

\* It has one: the adders of a set and of a part of it agree on the part.
LEMMA AddersAgree ==
    ASSUME NEW S, IsFiniteSet(S), NEW R \in SUBSET S, NEW f, NEW g, NEW h, IsAdder(f, g, S), IsAdder(f, h, R)
    PROVE  \A T \in SUBSET R : g[T] = h[T]
<1> DEFINE G == {T \in SUBSET R : g[T] = h[T]}
<1>1. IsFiniteSet(R)
  BY FS_Subset
<1>2. ASSUME NEW T \in SUBSET R, \A U \in SUBSET T : U # T => U \in G PROVE T \in G
  <2>1. g[T] = Adds(f, g, T) /\ h[T] = Adds(f, h, T)
    BY DEF IsAdder
  <2>2. T # {} => T \ {Chosen(T)} \in SUBSET T /\ T \ {Chosen(T)} # T
    BY DEF Chosen
  <2>3. T # {} => g[T \ {Chosen(T)}] = h[T \ {Chosen(T)}]
    BY <1>2, <2>2
  <2> QED
    BY <2>1, <2>3 DEF Adds
<1> HIDE DEF G
<1>3. SUBSET R \subseteq G
  BY <1>1, <1>2, EveryPart
<1> USE DEF G
<1> QED
  BY <1>3

\* A sum is what the adder of its set says.
LEMMA SumUnfolds ==
    ASSUME NEW S, IsFiniteSet(S), NEW f
    PROVE  \E g : IsAdder(f, g, S) /\ SumFunctionOnSet(f, S) = g[S]
<1> DEFINE it == CHOOSE g : IsAdder(f, g, S)
<1>1. IsAdder(f, it, S)
  BY AdderExists
<1>2. SumFunctionOnSet(f, S) = it[S]
  BY DEF SumFunctionOnSet, FoldFunctionOnSet, MapThenFoldSet, Adds, Chosen, IsAdder
<1> QED
  BY <1>1, <1>2

\* The sum over no elements, and over some: the first one and the rest.
LEMMA SumOfNone ==
    ASSUME NEW f
    PROVE  SumFunctionOnSet(f, {}) = 0
<1>1. PICK g : IsAdder(f, g, {}) /\ SumFunctionOnSet(f, {}) = g[{}]
  BY SumUnfolds, FS_EmptySet
<1> QED
  BY <1>1 DEF IsAdder, Adds

LEMMA SumOfFirst ==
    ASSUME NEW S, IsFiniteSet(S), S # {}, NEW f
    PROVE  SumFunctionOnSet(f, S) = f[Chosen(S)] + SumFunctionOnSet(f, S \ {Chosen(S)})
<1> DEFINE R == S \ {Chosen(S)}
<1>1. PICK g : IsAdder(f, g, S) /\ SumFunctionOnSet(f, S) = g[S]
  BY SumUnfolds
<1>2. IsFiniteSet(R) /\ R \in SUBSET S
  BY FS_RemoveElement
<1>3. PICK h : IsAdder(f, h, R) /\ SumFunctionOnSet(f, R) = h[R]
  BY <1>2, SumUnfolds
<1>4. g[R] = h[R]
  BY <1>1, <1>2, <1>3, AddersAgree
<1>5. g[S] = Adds(f, g, S)
  BY <1>1 DEF IsAdder
<1> QED
  BY <1>1, <1>3, <1>4, <1>5 DEF Adds

\* Sums of integers are integers, those of naturals naturals.
LEMMA SumOfNumbers ==
    ASSUME NEW S, IsFiniteSet(S), NEW f, \A x \in S : f[x] \in Int
    PROVE  /\ SumFunctionOnSet(f, S) \in Int
           /\ (\A x \in S : f[x] \in Nat) => SumFunctionOnSet(f, S) \in Nat
<1> DEFINE G == {T \in SUBSET S : /\ SumFunctionOnSet(f, T) \in Int
                                  /\ (\A x \in T : f[x] \in Nat) => SumFunctionOnSet(f, T) \in Nat}
<1>1. ASSUME NEW T \in SUBSET S, \A U \in SUBSET T : U # T => U \in G PROVE T \in G
  <2>1. CASE T = {}
    BY <2>1, SumOfNone
  <2>2. CASE T # {}
    <3>1. Chosen(T) \in T /\ IsFiniteSet(T)
      BY <2>2, FS_Subset DEF Chosen
    <3>2. SumFunctionOnSet(f, T) = f[Chosen(T)] + SumFunctionOnSet(f, T \ {Chosen(T)})
      BY <2>2, <3>1, SumOfFirst
    <3>3. T \ {Chosen(T)} \in G
      BY <1>1, <3>1
    <3> QED
      BY <3>1, <3>2, <3>3
  <2> QED
    BY <2>1, <2>2
<1> HIDE DEF G
<1>2. S \in G
  BY <1>1, EveryPart
<1> USE DEF G
<1> QED
  BY <1>2

\* A sum may be taken apart at any of its elements.
LEMMA SumOfAny ==
    ASSUME NEW S, IsFiniteSet(S), NEW f, \A x \in S : f[x] \in Int, NEW y \in S
    PROVE  SumFunctionOnSet(f, S) = f[y] + SumFunctionOnSet(f, S \ {y})
<1> DEFINE G == {T \in SUBSET S : \A x \in T : SumFunctionOnSet(f, T) = f[x] + SumFunctionOnSet(f, T \ {x})}
<1>1. ASSUME NEW T \in SUBSET S, \A U \in SUBSET T : U # T => U \in G PROVE T \in G
  <2>1. IsFiniteSet(T)
    BY FS_Subset
  <2>2. ASSUME NEW x \in T PROVE SumFunctionOnSet(f, T) = f[x] + SumFunctionOnSet(f, T \ {x})
    <3> DEFINE c == Chosen(T)
               rest == (T \ {x}) \ {c}
    <3>1. c \in T /\ SumFunctionOnSet(f, T) = f[c] + SumFunctionOnSet(f, T \ {c})
      BY <2>1, SumOfFirst DEF Chosen
    <3>2. CASE x = c
      BY <3>1, <3>2
    <3>3. CASE x # c
      <4>1. T \ {c} \in G /\ x \in T \ {c} /\ T \ {x} \in G /\ c \in T \ {x}
        BY <1>1, <3>1, <3>3
      <4>2. (T \ {c}) \ {x} = rest
        OBVIOUS
      <4>3. SumFunctionOnSet(f, T \ {c}) = f[x] + SumFunctionOnSet(f, rest)
        BY <4>1, <4>2
      <4>4. SumFunctionOnSet(f, T \ {x}) = f[c] + SumFunctionOnSet(f, rest)
        BY <4>1
      <4>5. SumFunctionOnSet(f, rest) \in Int /\ f[x] \in Int /\ f[c] \in Int
        <5>1. IsFiniteSet(rest) /\ \A z \in rest : f[z] \in Int
          BY <2>1, FS_RemoveElement
        <5> QED
          BY <3>1, <5>1, SumOfNumbers
      <4> HIDE DEF c, rest
      <4> QED
        BY <3>1, <4>3, <4>4, <4>5
    <3> QED
      BY <3>2, <3>3
  <2> QED
    BY <2>2
<1> HIDE DEF G
<1>2. S \in G
  BY <1>1, EveryPart
<1> USE DEF G
<1> QED
  BY <1>2

\* Two sums over the same elements: equal if their functions are, and ordered
\* as they are.
LEMMA SumsCompare ==
    ASSUME NEW S, IsFiniteSet(S), NEW f, NEW g, \A x \in S : f[x] \in Int /\ g[x] \in Int
    PROVE  /\ (\A x \in S : f[x] = g[x]) => SumFunctionOnSet(f, S) = SumFunctionOnSet(g, S)
           /\ (\A x \in S : f[x] <= g[x]) => SumFunctionOnSet(f, S) <= SumFunctionOnSet(g, S)
<1> DEFINE G == {T \in SUBSET S :
                   /\ (\A x \in T : f[x] = g[x]) => SumFunctionOnSet(f, T) = SumFunctionOnSet(g, T)
                   /\ (\A x \in T : f[x] <= g[x]) => SumFunctionOnSet(f, T) <= SumFunctionOnSet(g, T)}
<1>1. ASSUME NEW T \in SUBSET S, \A U \in SUBSET T : U # T => U \in G PROVE T \in G
  <2>1. CASE T = {}
    BY <2>1, SumOfNone
  <2>2. CASE T # {}
    <3>1. Chosen(T) \in T /\ IsFiniteSet(T)
      BY <2>2, FS_Subset DEF Chosen
    <3> DEFINE R == T \ {Chosen(T)}
    <3>2. /\ SumFunctionOnSet(f, T) = f[Chosen(T)] + SumFunctionOnSet(f, R)
          /\ SumFunctionOnSet(g, T) = g[Chosen(T)] + SumFunctionOnSet(g, R)
      BY <2>2, <3>1, SumOfFirst
    <3>3. IsFiniteSet(R) /\ R \in G
      BY <1>1, <3>1, FS_RemoveElement
    <3>4. SumFunctionOnSet(f, R) \in Int /\ SumFunctionOnSet(g, R) \in Int
      <4>1. \A x \in R : f[x] \in Int /\ g[x] \in Int
        OBVIOUS
      <4> QED
        BY <3>3, <4>1, SumOfNumbers
    <3>5. \A x \in R : x \in T
      OBVIOUS
    <3> HIDE DEF R
    <3> QED
      BY <3>1, <3>2, <3>3, <3>4, <3>5
  <2> QED
    BY <2>1, <2>2
<1> HIDE DEF G
<1>2. S \in G
  BY <1>1, EveryPart
<1> USE DEF G
<1> QED
  BY <1>2

\* A function that changes at one element changes its sum by as much.
LEMMA SumChanges ==
    ASSUME NEW S, IsFiniteSet(S), NEW f, NEW g, \A x \in S : f[x] \in Int /\ g[x] \in Int,
           NEW y \in S, \A x \in S \ {y} : g[x] = f[x]
    PROVE  SumFunctionOnSet(g, S) = SumFunctionOnSet(f, S) + (g[y] - f[y])
<1> DEFINE R == S \ {y}
<1>1. IsFiniteSet(R) /\ \A x \in R : f[x] \in Int /\ g[x] \in Int
  BY FS_RemoveElement
<1>2. SumFunctionOnSet(f, S) = f[y] + SumFunctionOnSet(f, R) /\ SumFunctionOnSet(g, S) = g[y] + SumFunctionOnSet(g, R)
  BY SumOfAny
<1>3. SumFunctionOnSet(g, R) = SumFunctionOnSet(f, R)
  BY <1>1, SumsCompare
<1>4. SumFunctionOnSet(f, R) \in Int
  BY <1>1, SumOfNumbers
<1> QED
  BY <1>2, <1>3, <1>4

\* A sum of zeros is zero.
LEMMA SumOfZeros ==
    ASSUME NEW S, IsFiniteSet(S), NEW f, \A x \in S : f[x] = 0
    PROVE  SumFunctionOnSet(f, S) = 0
<1> DEFINE G == {T \in SUBSET S : SumFunctionOnSet(f, T) = 0}
<1>1. ASSUME NEW T \in SUBSET S, \A U \in SUBSET T : U # T => U \in G PROVE T \in G
  <2>1. CASE T = {}
    BY <2>1, SumOfNone
  <2>2. CASE T # {}
    <3>1. IsFiniteSet(T) /\ Chosen(T) \in T /\ T \ {Chosen(T)} \in SUBSET T
      BY <2>2, FS_Subset DEF Chosen
    <3>2. SumFunctionOnSet(f, T) = f[Chosen(T)] + SumFunctionOnSet(f, T \ {Chosen(T)})
      BY <2>2, <3>1, SumOfFirst
    <3>3. T \ {Chosen(T)} \in G
      BY <1>1, <3>1
    <3> QED
      BY <3>1, <3>2, <3>3
  <2> QED
    BY <2>1, <2>2
<1> HIDE DEF G
<1>2. S \in G
  BY <1>1, EveryPart
<1> USE DEF G
<1> QED
  BY <1>2

\* Two sets that have nothing in common add up.
LEMMA SumOfUnion ==
    ASSUME NEW S, IsFiniteSet(S), NEW T, IsFiniteSet(T), S \cap T = {}, NEW f, \A x \in S \cup T : f[x] \in Int
    PROVE  SumFunctionOnSet(f, S \cup T) = SumFunctionOnSet(f, S) + SumFunctionOnSet(f, T)
<1> DEFINE G == {U \in SUBSET T : SumFunctionOnSet(f, S \cup U) = SumFunctionOnSet(f, S) + SumFunctionOnSet(f, U)}
<1>1. ASSUME NEW U \in SUBSET T, \A V \in SUBSET U : V # U => V \in G PROVE U \in G
  <2>1. SumFunctionOnSet(f, S) \in Int
    BY SumOfNumbers
  <2>2. CASE U = {}
    <3>1. S \cup U = S
      BY <2>2
    <3> QED BY <2>1, <2>2, <3>1, SumOfNone
  <2>3. CASE U # {}
    <3>1. PICK y \in U : TRUE
      BY <2>3
    <3> DEFINE R == U \ {y}
    <3>2. IsFiniteSet(U) /\ IsFiniteSet(S \cup U) /\ IsFiniteSet(R) /\ R \in SUBSET U /\ R # U
      BY <3>1, FS_Subset, FS_Union, FS_RemoveElement
    <3>3. (S \cup U) \ {y} = S \cup R /\ y \in S \cup U
      BY <3>1
    <3>4. SumFunctionOnSet(f, S \cup U) = f[y] + SumFunctionOnSet(f, S \cup R)
      BY <3>2, <3>3, SumOfAny
    <3>5. SumFunctionOnSet(f, U) = f[y] + SumFunctionOnSet(f, R)
      BY <3>1, <3>2, SumOfAny
    <3>6. SumFunctionOnSet(f, R) \in Int /\ f[y] \in Int
      BY <3>1, <3>2, SumOfNumbers
    <3>7. R \in G
      BY <1>1, <3>2
    <3> HIDE DEF R
    <3> QED BY <2>1, <3>4, <3>5, <3>6, <3>7
  <2> QED BY <2>2, <2>3
<1> HIDE DEF G
<1>2. T \in G
  BY <1>1, EveryPart
<1> USE DEF G
<1> QED
  BY <1>2

\* A set is the sum of a part of it and of the rest.
LEMMA SumOfPart ==
    ASSUME NEW S, IsFiniteSet(S), NEW T \in SUBSET S, NEW f, \A x \in S : f[x] \in Int
    PROVE  /\ SumFunctionOnSet(f, S) = SumFunctionOnSet(f, T) + SumFunctionOnSet(f, S \ T)
           /\ (\A x \in S \ T : f[x] = 0) => SumFunctionOnSet(f, S) = SumFunctionOnSet(f, T)
           /\ (\A x \in S \ T : f[x] >= 0) => SumFunctionOnSet(f, S) >= SumFunctionOnSet(f, T)
<1> DEFINE R == S \ T
<1>1. IsFiniteSet(T) /\ IsFiniteSet(R) /\ T \cap R = {} /\ T \cup R = S
  BY FS_Subset
<1>2. SumFunctionOnSet(f, S) = SumFunctionOnSet(f, T) + SumFunctionOnSet(f, R)
  <2>1. \A x \in T \cup R : f[x] \in Int
    OBVIOUS
  <2> HIDE DEF R
  <2> QED BY <1>1, <2>1, SumOfUnion
<1>3. SumFunctionOnSet(f, T) \in Int /\ SumFunctionOnSet(f, R) \in Int
  BY <1>1, SumOfNumbers
<1>4. (\A x \in R : f[x] = 0) => SumFunctionOnSet(f, R) = 0
  BY <1>1, SumOfZeros
<1>5. (\A x \in R : f[x] >= 0) => SumFunctionOnSet(f, R) >= 0
  <2>1. (\A x \in R : f[x] >= 0) => \A x \in R : f[x] \in Nat
    OBVIOUS
  <2> QED BY <1>1, <2>1, SumOfNumbers
<1> QED
  BY <1>2, <1>3, <1>4, <1>5

\* The sum of two functions, element by element.
LEMMA SumsAdd ==
    ASSUME NEW S, IsFiniteSet(S), NEW f, NEW g, NEW h, \A x \in S : f[x] \in Int /\ g[x] \in Int /\ h[x] = f[x] + g[x]
    PROVE  SumFunctionOnSet(h, S) = SumFunctionOnSet(f, S) + SumFunctionOnSet(g, S)
<1> DEFINE G == {T \in SUBSET S : SumFunctionOnSet(h, T) = SumFunctionOnSet(f, T) + SumFunctionOnSet(g, T)}
<1>1. ASSUME NEW T \in SUBSET S, \A U \in SUBSET T : U # T => U \in G PROVE T \in G
  <2>1. CASE T = {}
    BY <2>1, SumOfNone
  <2>2. CASE T # {}
    <3>1. Chosen(T) \in T /\ IsFiniteSet(T)
      BY <2>2, FS_Subset DEF Chosen
    <3> DEFINE R == T \ {Chosen(T)}
    <3>2. /\ SumFunctionOnSet(f, T) = f[Chosen(T)] + SumFunctionOnSet(f, R)
          /\ SumFunctionOnSet(g, T) = g[Chosen(T)] + SumFunctionOnSet(g, R)
          /\ SumFunctionOnSet(h, T) = h[Chosen(T)] + SumFunctionOnSet(h, R)
      BY <2>2, <3>1, SumOfFirst
    <3>3. IsFiniteSet(R) /\ R \in G
      BY <1>1, <3>1, FS_RemoveElement
    <3>4. SumFunctionOnSet(f, R) \in Int /\ SumFunctionOnSet(g, R) \in Int
      <4>1. \A x \in R : f[x] \in Int /\ g[x] \in Int
        OBVIOUS
      <4> QED
        BY <3>3, <4>1, SumOfNumbers
    <3> HIDE DEF R
    <3>5. SumFunctionOnSet(h, R) = SumFunctionOnSet(f, R) + SumFunctionOnSet(g, R)
      BY <3>3
    <3> QED
      BY <3>1, <3>2, <3>4, <3>5
  <2> QED
    BY <2>1, <2>2
<1> HIDE DEF G
<1>2. S \in G
  BY <1>1, EveryPart
<1> USE DEF G
<1> QED
  BY <1>2

\* A sum over other names of the same elements.
LEMMA SumRenamed ==
    ASSUME NEW K, IsFiniteSet(K), NEW h, \A j, k \in K : h[j] = h[k] => j = k,
           NEW f, NEW g, \A k \in K : f[h[k]] \in Int /\ g[k] = f[h[k]]
    PROVE  SumFunctionOnSet(g, K) = SumFunctionOnSet(f, {h[k] : k \in K})
<1> DEFINE Im(T) == {h[k] : k \in T}
           G == {T \in SUBSET K : SumFunctionOnSet(g, T) = SumFunctionOnSet(f, Im(T))}
<1>1. ASSUME NEW T \in SUBSET K, \A U \in SUBSET T : U # T => U \in G PROVE T \in G
  <2>1. CASE T = {}
    <3>1. Im(T) = {}
      BY <2>1
    <3> QED BY <2>1, <3>1, SumOfNone
  <2>2. CASE T # {}
    <3>1. PICK y \in T : TRUE
      BY <2>2
    <3> DEFINE R == T \ {y}
    <3>2. IsFiniteSet(T) /\ R \in SUBSET T /\ R # T
      BY <3>1, FS_Subset
    <3>3. Im(T) \ {h[y]} = Im(R) /\ h[y] \in Im(T)
      BY <3>1
    <3>4. IsFiniteSet(Im(T))
      <4>1. [k \in T |-> h[k]] \in Surjection(T, Im(T))
        BY DEF Surjection
      <4> QED BY <3>2, <4>1, FS_Surjection DEF ExistsSurjection
    <3>5. SumFunctionOnSet(g, T) = g[y] + SumFunctionOnSet(g, R)
      <4>1. \A x \in T : g[x] \in Int
        OBVIOUS
      <4> QED BY <3>1, <3>2, <4>1, SumOfAny
    <3>6. SumFunctionOnSet(f, Im(T)) = f[h[y]] + SumFunctionOnSet(f, Im(R))
      <4>1. \A x \in Im(T) : f[x] \in Int
        OBVIOUS
      <4> HIDE DEF Im, R
      <4> QED BY <3>3, <3>4, <4>1, SumOfAny
    <3>7. R \in G
      BY <1>1, <3>2
    <3>8. g[y] = f[h[y]]
      BY <3>1
    <3> HIDE DEF Im
    <3> QED BY <3>5, <3>6, <3>7, <3>8
  <2> QED BY <2>1, <2>2
<1> HIDE DEF G
<1>2. K \in G
  BY <1>1, EveryPart
<1> USE DEF G
<1> QED
  BY <1>2

\* A sum by the colours of its elements.
LEMMA SumByColour ==
    ASSUME NEW I, IsFiniteSet(I), NEW S, IsFiniteSet(S), NEW c, \A x \in S : c[x] \in I,
           NEW f, \A x \in S : f[x] \in Int, NEW g, \A i \in I : g[i] = SumFunctionOnSet(f, {x \in S : c[x] = i})
    PROVE  SumFunctionOnSet(g, I) = SumFunctionOnSet(f, S)
<1> DEFINE Of(J) == {x \in S : c[x] \in J}
           G == {J \in SUBSET I : SumFunctionOnSet(g, J) = SumFunctionOnSet(f, Of(J))}
<1>1. ASSUME NEW i \in I PROVE g[i] \in Int
  <2>1. IsFiniteSet({x \in S : c[x] = i})
    BY FS_Subset
  <2> QED BY <2>1, SumOfNumbers
<1>2. ASSUME NEW J \in SUBSET I, \A U \in SUBSET J : U # J => U \in G PROVE J \in G
  <2>1. CASE J = {}
    <3>1. Of(J) = {}
      BY <2>1
    <3> QED BY <2>1, <3>1, SumOfNone
  <2>2. CASE J # {}
    <3>1. PICK i \in J : TRUE
      BY <2>2
    <3> DEFINE R == J \ {i}
               One == {x \in S : c[x] = i}
    <3>2. IsFiniteSet(J) /\ R \in SUBSET J /\ R # J
      BY <3>1, FS_Subset
    <3>3. SumFunctionOnSet(g, J) = g[i] + SumFunctionOnSet(g, R)
      <4>1. \A x \in J : g[x] \in Int
        BY <1>1
      <4> QED BY <3>1, <3>2, <4>1, SumOfAny
    <3>4. Of(J) = One \cup Of(R) /\ One \cap Of(R) = {}
      BY <3>1
    <3>5. IsFiniteSet(One) /\ IsFiniteSet(Of(R)) /\ \A x \in One \cup Of(R) : f[x] \in Int
      BY FS_Subset
    <3>6. SumFunctionOnSet(f, Of(J)) = SumFunctionOnSet(f, One) + SumFunctionOnSet(f, Of(R))
      <4> HIDE DEF One, Of, R
      <4> QED BY <3>4, <3>5, SumOfUnion
    <3>7. R \in G
      BY <1>2, <3>2
    <3>8. g[i] = SumFunctionOnSet(f, One)
      BY <3>1
    <3> HIDE DEF Of, One, R
    <3> QED BY <3>3, <3>6, <3>7, <3>8 DEF R
  <2> QED BY <2>1, <2>2
<1> HIDE DEF G
<1>3. I \in G
  BY <1>2, EveryPart
<1>4. Of(I) = S
  OBVIOUS
<1> USE DEF G
<1> QED
  BY <1>3, <1>4


-----------------------------------------------------------------------------
(* Folds: what a function makes of a state, element by element *)

\* ch names the element a set is taken apart at, step[x] what x does.
Folds(step, start, ch, g, T) == IF T = {} THEN start ELSE step[ch[T]][g[T \ {ch[T]}]]
IsFolder(step, start, ch, g, S) == g = [T \in SUBSET S |-> Folds(step, start, ch, g, T)]
FoldsUpTo(step, start, ch, g, S, n) ==
    DOMAIN g = SUBSET S /\ \A T \in SUBSET S : Cardinality(T) <= n => g[T] = Folds(step, start, ch, g, T)

\* A finite set has a folder, and what it makes stays among the states.
LEMMA FolderExists ==
    ASSUME NEW S, IsFiniteSet(S), NEW B, NEW start \in B, NEW step \in [S -> [B -> B]],
           NEW ch, \A T \in SUBSET S : T # {} => ch[T] \in T
    PROVE  \E g \in [SUBSET S -> B] : IsFolder(step, start, ch, g, S)
<1> DEFINE G == {n \in Nat : \E g : g = [T \in SUBSET S |-> g[T]] /\ FoldsUpTo(step, start, ch, g, S, n)}
<1>1. ASSUME NEW T \in SUBSET S PROVE Cardinality(T) \in Nat /\ Cardinality(T) <= Cardinality(S)
  BY FS_Subset, FS_CardinalityType
<1>2. ASSUME NEW T \in SUBSET S, T # {}
      PROVE  ch[T] \in T /\ T \ {ch[T]} \in SUBSET S /\ Cardinality(T \ {ch[T]}) = Cardinality(T) - 1
  BY <1>2, FS_Subset, FS_RemoveElement
<1>3. 0 \in G
  <2> DEFINE g == [T \in SUBSET S |-> start]
  <2>1. ASSUME NEW T \in SUBSET S, Cardinality(T) <= 0 PROVE T = {}
    BY <1>1, <2>1, FS_Subset, FS_EmptySet
  <2>2. FoldsUpTo(step, start, ch, g, S, 0)
    BY <2>1 DEF FoldsUpTo, Folds
  <2>3. g = [T \in SUBSET S |-> g[T]]
    OBVIOUS
  <2> HIDE DEF g
  <2> QED BY <2>2, <2>3
<1>4. ASSUME NEW n \in Nat, n \in G PROVE n + 1 \in G
  <2>1. PICK g : g = [T \in SUBSET S |-> g[T]] /\ FoldsUpTo(step, start, ch, g, S, n)
    BY <1>4
  <2> DEFINE h == [T \in SUBSET S |-> IF Cardinality(T) <= n THEN g[T] ELSE Folds(step, start, ch, g, T)]
  <2>2. ASSUME NEW T \in SUBSET S, Cardinality(T) <= n + 1 PROVE h[T] = Folds(step, start, ch, h, T)
    <3>1. h[T] = Folds(step, start, ch, g, T)
      BY <2>1 DEF FoldsUpTo
    <3>2. CASE T = {}
      BY <3>1, <3>2 DEF Folds
    <3>3. CASE T # {}
      <4>1. T \ {ch[T]} \in SUBSET S /\ Cardinality(T \ {ch[T]}) <= n
        BY <1>1, <1>2, <2>2, <3>3
      <4>2. h[T \ {ch[T]}] = g[T \ {ch[T]}]
        BY <4>1
      <4> HIDE DEF h
      <4> QED BY <3>1, <4>2 DEF Folds
    <3> QED BY <3>2, <3>3
  <2>3. DOMAIN h = SUBSET S /\ h = [T \in SUBSET S |-> h[T]]
    OBVIOUS
  <2> HIDE DEF h
  <2>4. FoldsUpTo(step, start, ch, h, S, n + 1)
    BY <2>2, <2>3 DEF FoldsUpTo
  <2> QED BY <2>3, <2>4
<1> HIDE DEF G
<1>5. Cardinality(S) \in G
  BY <1>1, <1>3, <1>4, EveryNatural
<1> USE DEF G
<1>6. PICK g : g = [T \in SUBSET S |-> g[T]] /\ FoldsUpTo(step, start, ch, g, S, Cardinality(S))
  BY <1>5
<1>7. \A T \in SUBSET S : g[T] = Folds(step, start, ch, g, T)
  BY <1>1, <1>6 DEF FoldsUpTo
<1>8. IsFolder(step, start, ch, g, S)
  BY <1>6, <1>7 DEF IsFolder
<1> DEFINE In == {T \in SUBSET S : g[T] \in B}
<1>9. ASSUME NEW T \in SUBSET S, \A U \in SUBSET T : U # T => U \in In PROVE T \in In
  <2>1. CASE T = {}
    BY <1>7, <2>1 DEF Folds
  <2>2. CASE T # {}
    <3>1. ch[T] \in T /\ ch[T] \in S /\ T \ {ch[T]} \in SUBSET T /\ T \ {ch[T]} # T
      BY <1>2, <2>2
    <3>2. g[T \ {ch[T]}] \in B
      BY <1>9, <3>1
    <3>3. step[ch[T]] \in [B -> B]
      BY <3>1
    <3> QED BY <1>7, <2>2, <3>2, <3>3 DEF Folds
  <2> QED BY <2>1, <2>2
<1> HIDE DEF In
<1>10. SUBSET S \subseteq In
  BY <1>9, EveryPart
<1> USE DEF In
<1>11. g \in [SUBSET S -> B]
  BY <1>6, <1>10
<1> QED
  BY <1>8, <1>11

\* What folds as long as it meets states is a folder.
LEMMA FolderFrom ==
    ASSUME NEW S, IsFiniteSet(S), NEW B, NEW start \in B, NEW step \in [S -> [B -> B]],
           NEW ch, \A T \in SUBSET S : T # {} => ch[T] \in T,
           NEW g, g = [T \in SUBSET S |-> g[T]], g[{}] = start,
           \A T \in SUBSET S : T # {} /\ g[T \ {ch[T]}] \in B => g[T] = step[ch[T]][g[T \ {ch[T]}]]
    PROVE  IsFolder(step, start, ch, g, S)
<1> DEFINE In == {T \in SUBSET S : g[T] \in B}
<1>1. ASSUME NEW T \in SUBSET S, \A U \in SUBSET T : U # T => U \in In PROVE T \in In
  <2>1. CASE T = {}
    BY <2>1
  <2>2. CASE T # {}
    <3>1. ch[T] \in T /\ ch[T] \in S /\ T \ {ch[T]} \in SUBSET T /\ T \ {ch[T]} # T
      BY <2>2
    <3>2. g[T \ {ch[T]}] \in B /\ step[ch[T]] \in [B -> B]
      BY <1>1, <3>1
    <3> QED BY <2>2, <3>2
  <2> QED BY <2>1, <2>2
<1> HIDE DEF In
<1>2. SUBSET S \subseteq In
  BY <1>1, EveryPart
<1> USE DEF In
<1>3. ASSUME NEW T \in SUBSET S PROVE g[T] = Folds(step, start, ch, g, T)
  <2>1. T # {} => ch[T] \in T /\ T \ {ch[T]} \in SUBSET S
    OBVIOUS
  <2> QED BY <1>2, <2>1 DEF Folds
<1> QED
  BY <1>3 DEF IsFolder

\* Numbers up to a bound have a largest.
LEMMA LargestOf ==
    ASSUME NEW n \in Nat, NEW T \in SUBSET (1..n), T # {}
    PROVE  \E x \in T : \A y \in T : x >= y
<1> DEFINE G == {k \in Nat : (\E x \in T : x >= k) \/ \E x \in T : \A y \in T : x >= y}
<1> SUFFICES ASSUME ~ \E x \in T : \A y \in T : x >= y PROVE FALSE
  OBVIOUS
<1>1. 0 \in G
  <2>1. PICK x \in T : TRUE
    OBVIOUS
  <2> QED BY <2>1
<1>2. ASSUME NEW k \in Nat, k \in G PROVE k + 1 \in G
  <2>1. PICK x \in T : x >= k
    BY <1>2
  <2>2. PICK y \in T : ~(x >= y)
    OBVIOUS
  <2>3. y >= k + 1
    BY <2>1, <2>2
  <2> QED BY <2>3
<1> HIDE DEF G
<1>3. n + 1 \in G
  BY <1>1, <1>2, EveryNatural
<1> USE DEF G
<1> QED
  BY <1>3

\* A sequence of states, each made of the one before.
IsRun(step, start, n, r) == r[0] = start /\ \A k \in 1..n : r[k] = step[k][r[k - 1]]

\* The folder that takes the numbers up to n from the largest makes such a run.
LEMMA FolderRuns ==
    ASSUME NEW n \in Nat, NEW step, NEW start, NEW ch, NEW g, IsFolder(step, start, ch, g, 1..n),
           \A k \in 1..n : ch[1..k] = k
    PROVE  IsRun(step, start, n, [k \in 0..n |-> g[1..k]])
<1> DEFINE r == [k \in 0..n |-> g[1..k]]
<1>1. r[0] = start
  BY DEF IsFolder, Folds
<1>2. ASSUME NEW k \in 1..n PROVE r[k] = step[k][r[k - 1]]
  <2>1. 1..k \in SUBSET (1..n) /\ 1..k # {} /\ (1..k) \ {k} = 1..(k - 1) /\ k \in 0..n /\ k - 1 \in 0..n
    OBVIOUS
  <2>2. g[1..k] = Folds(step, start, ch, g, 1..k)
    BY <2>1 DEF IsFolder
  <2>3. g[1..k] = step[k][g[1..(k - 1)]]
    BY <2>1, <2>2 DEF Folds
  <2> QED BY <2>1, <2>3
<1> QED
  BY <1>1, <1>2 DEF IsRun

\* It makes no other.
LEMMA RunsAgree ==
    ASSUME NEW n \in Nat, NEW step, NEW start, NEW r, NEW q, IsRun(step, start, n, r), IsRun(step, start, n, q)
    PROVE  \A k \in 0..n : r[k] = q[k]
<1> DEFINE G == {k \in Nat : k <= n => r[k] = q[k]}
<1>1. 0 \in G
  BY DEF IsRun
<1>2. ASSUME NEW k \in Nat, k \in G PROVE k + 1 \in G
  <2> SUFFICES ASSUME k + 1 <= n PROVE r[k + 1] = q[k + 1]
    OBVIOUS
  <2>1. k + 1 \in 1..n /\ k + 1 - 1 = k /\ r[k] = q[k]
    BY <1>2
  <2>2. r[k + 1] = step[k + 1][r[k]] /\ q[k + 1] = step[k + 1][q[k]]
    BY <2>1 DEF IsRun
  <2> QED BY <2>1, <2>2
<1> HIDE DEF G
<1>3. Nat \subseteq G
  BY <1>1, <1>2, EveryNatural
<1> USE DEF G
<1> QED
  BY <1>3
=============================================================================
