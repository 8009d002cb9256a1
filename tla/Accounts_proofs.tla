--------------------------- MODULE Accounts_proofs ----------------------------
(*****************************************************************************)
(* Theorems about the modules MCAccounts checks together: the wallet, the    *)
(* credit of resellers, the pool of payment cards, and the behaviours that   *)
(* are one of them.                                                          *)
(*****************************************************************************)
EXTENDS MCAccounts, Sums_proofs, SequenceTheorems

-----------------------------------------------------------------------------
(*****************************************************************************)
(* WalletLots, for any accounts, identities and approvals, any scenes and    *)
(* any numbers of sources and debits.                                        *)
(*****************************************************************************)

(* Rows: sequences, sets of their numbers, and least and greatest ones *)

LEMMA RowsOf ==
    ASSUME NEW R, NEW s \in Seq(R)
    PROVE  /\ Len(s) \in Nat /\ DOMAIN s = 1..Len(s) /\ IsFiniteSet(DOMAIN s) /\ s \in [1..Len(s) -> R]
           /\ \A k \in DOMAIN s : s[k] \in R /\ k \in Nat /\ k > 0
           /\ \A T \in SUBSET DOMAIN s : IsFiniteSet(T)
<1>1. Len(s) \in Nat /\ DOMAIN s = 1..Len(s) /\ s \in [1..Len(s) -> R]
  BY LenProperties
<1>2. IsFiniteSet(1..Len(s))
  BY <1>1, FS_Interval
<1> QED BY <1>1, <1>2, FS_Subset

LEMMA FinitePart == ASSUME NEW n \in Nat, NEW S \in SUBSET (1..n) PROVE IsFiniteSet(S) /\ \A x \in S : x \in Nat
<1>1. IsFiniteSet(1..n)
  BY FS_Interval
<1>2. IsFiniteSet(S)
  BY <1>1, FS_Subset
<1> QED BY <1>2

\* A sequence is a function on its numbers.
LEMMA RowsFrom ==
    ASSUME NEW R, NEW n \in Nat, NEW f, f \in [1..n -> R]
    PROVE  f \in Seq(R) /\ Len(f) = n
<1>1. f \in Seq(R)
  BY SeqDef
<1> QED BY <1>1, LenProperties

LEMMA Joined ==
    ASSUME NEW R, NEW s \in Seq(R), NEW t \in Seq(R)
    PROVE  /\ s \o t \in Seq(R) /\ Len(s \o t) = Len(s) + Len(t)
           /\ DOMAIN (s \o t) = 1..(Len(s) + Len(t)) /\ DOMAIN s \subseteq DOMAIN (s \o t)
           /\ \A k \in DOMAIN s : (s \o t)[k] = s[k]
           /\ \A k \in DOMAIN t : Len(s) + k \in DOMAIN (s \o t) /\ (s \o t)[Len(s) + k] = t[k]
           /\ \A k \in DOMAIN (s \o t) \ DOMAIN s : k - Len(s) \in DOMAIN t /\ (s \o t)[k] = t[k - Len(s)]
<1>1. /\ s \o t \in Seq(R) /\ Len(s \o t) = Len(s) + Len(t)
      /\ \A k \in 1..(Len(s) + Len(t)) : (s \o t)[k] = IF k <= Len(s) THEN s[k] ELSE t[k - Len(s)]
  BY ConcatProperties
<1>2. /\ Len(s) \in Nat /\ DOMAIN s = 1..Len(s) /\ Len(t) \in Nat /\ DOMAIN t = 1..Len(t)
      /\ DOMAIN (s \o t) = 1..(Len(s) + Len(t))
  BY <1>1, RowsOf
<1>3. ASSUME NEW k \in DOMAIN s PROVE k \in 1..(Len(s) + Len(t)) /\ (s \o t)[k] = s[k]
  BY <1>1, <1>2
<1>4. ASSUME NEW k \in DOMAIN t
      PROVE  Len(s) + k \in 1..(Len(s) + Len(t)) /\ (s \o t)[Len(s) + k] = t[k]
  <2>1. Len(s) + k \in 1..(Len(s) + Len(t)) /\ ~(Len(s) + k <= Len(s)) /\ Len(s) + k - Len(s) = k
    BY <1>2
  <2> QED BY <1>1, <2>1
<1>5. ASSUME NEW k \in (1..(Len(s) + Len(t))) \ DOMAIN s
      PROVE  k - Len(s) \in DOMAIN t /\ (s \o t)[k] = t[k - Len(s)]
  BY <1>1, <1>2
<1> QED BY <1>1, <1>2, <1>3, <1>4, <1>5

LEMMA Added ==
    ASSUME NEW R, NEW s \in Seq(R), NEW x \in R
    PROVE  /\ Append(s, x) \in Seq(R) /\ Len(Append(s, x)) = Len(s) + 1
           /\ DOMAIN Append(s, x) = DOMAIN s \cup {Len(s) + 1} /\ Len(s) + 1 \notin DOMAIN s
           /\ \A k \in DOMAIN s : Append(s, x)[k] = s[k]
           /\ Append(s, x)[Len(s) + 1] = x
<1>1. /\ Append(s, x) \in Seq(R) /\ Len(Append(s, x)) = Len(s) + 1 /\ Append(s, x)[Len(s) + 1] = x
      /\ \A k \in 1..Len(s) : Append(s, x)[k] = s[k]
  BY AppendProperties
<1>2. DOMAIN s = 1..Len(s) /\ Len(s) \in Nat /\ DOMAIN Append(s, x) = 1..(Len(s) + 1)
  BY <1>1, RowsOf
<1> QED BY <1>1, <1>2

LEMMA MaxOf ==
    ASSUME NEW n \in Nat, NEW T \in SUBSET (1..n), T # {}
    PROVE  Max(T) \in T /\ \A y \in T : Max(T) >= y
BY LargestOf DEF Max

LEMMA MinOf ==
    ASSUME NEW n \in Nat, NEW T \in SUBSET (1..n), T # {}
    PROVE  Min(T) \in T /\ \A y \in T : Min(T) <= y
<1> DEFINE U == {n + 1 - y : y \in T}
<1>1. U \in SUBSET (1..n) /\ U # {}
  <2>1. \A y \in T : y \in 1..n /\ n + 1 - y \in 1..n
    OBVIOUS
  <2> QED BY <2>1
<1>2. PICK u \in U : \A y \in U : u >= y
  <2> HIDE DEF U
  <2> QED BY <1>1, LargestOf
<1>3. PICK x \in T : u = n + 1 - x
  BY <1>2
<1>4. ASSUME NEW y \in T PROVE x <= y
  <2>1. n + 1 - y \in U
    OBVIOUS
  <2>2. u >= n + 1 - y
    BY <1>2, <2>1
  <2> QED BY <1>3, <2>2
<1> QED BY <1>3, <1>4 DEF Min

LEMMA LesserOf == ASSUME NEW a \in Int, NEW b \in Int PROVE Min({a, b}) = IF a <= b THEN a ELSE b
<1>1. \E x \in {a, b} : \A y \in {a, b} : x <= y
  OBVIOUS
<1>2. Min({a, b}) \in {a, b} /\ \A y \in {a, b} : Min({a, b}) <= y
  BY <1>1 DEF Min
<1> QED BY <1>2

LEMMA GreaterOf == ASSUME NEW a \in Int, NEW b \in Int PROVE Max({a, b}) = IF a >= b THEN a ELSE b
<1>1. \E x \in {a, b} : \A y \in {a, b} : x >= y
  OBVIOUS
<1>2. Max({a, b}) \in {a, b} /\ \A y \in {a, b} : Max({a, b}) >= y
  BY <1>1 DEF Max
<1> QED BY <1>2

-----------------------------------------------------------------------------
(* Rows in order *)

\* q lists the rows of T in their order.
Lists(q, T) ==
    /\ q \in [1..Cardinality(T) -> T]
    /\ \A j, k \in 1..Cardinality(T) : j < k => q[j] < q[k]
    /\ \A x \in T : \E k \in 1..Cardinality(T) : q[k] = x

LEMMA ListExists ==
    ASSUME NEW n \in Nat, NEW S \in SUBSET (1..n)
    PROVE  \E q : Lists(q, S)
<1> DEFINE G == {T \in SUBSET S : \E q : Lists(q, T)}
<1>1. IsFiniteSet(S)
  BY FinitePart
<1>2. ASSUME NEW T \in SUBSET S, \A U \in SUBSET T : U # T => U \in G PROVE T \in G
  <2>1. CASE T = {}
    <3>1. Cardinality(T) = 0
      BY <2>1, FS_EmptySet
    <3>2. Lists([k \in 1..0 |-> 0], T)
      BY <2>1, <3>1 DEF Lists
    <3> QED BY <3>2
  <2>2. CASE T # {}
    <3>1. PICK x \in T : \A y \in T : x >= y
      BY <2>2, LargestOf
    <3> DEFINE R == T \ {x}
               m == Cardinality(T)
    <3>2. IsFiniteSet(T) /\ m \in Nat /\ m > 0 /\ Cardinality(R) = m - 1
      <4>1. IsFiniteSet(T)
        BY <1>1, FS_Subset
      <4>2. m \in Nat /\ m # 0
        BY <2>2, <4>1, FS_CardinalityType, FS_EmptySet
      <4>3. Cardinality(R) = m - 1
        BY <3>1, <4>1, FS_RemoveElement
      <4> QED BY <4>1, <4>2, <4>3
    <3>3. R \in G
      BY <1>2, <3>1
    <3>4. PICK q : Lists(q, R)
      BY <3>3
    <3>5. /\ q \in [1..(m - 1) -> R]
          /\ \A j, k \in 1..(m - 1) : j < k => q[j] < q[k]
          /\ \A y \in R : \E k \in 1..(m - 1) : q[k] = y
      BY <3>2, <3>4 DEF Lists
    <3> DEFINE p == [k \in 1..m |-> IF k = m THEN x ELSE q[k]]
    <3> HIDE DEF m
    <3>6. p \in [1..m -> T]
      BY <3>2, <3>5
    <3>7. ASSUME NEW j \in 1..m, NEW k \in 1..m, j < k PROVE p[j] < p[k]
      <4>1. j \in 1..(m - 1) /\ j # m /\ q[j] \in R
        BY <3>2, <3>5, <3>7
      <4>2. p[j] = q[j] /\ q[j] # x /\ x >= q[j] /\ x \in Int /\ q[j] \in Int
        <5>1. p[j] = q[j]
          BY <3>7, <4>1
        <5>2. q[j] \in T /\ x \in 1..n /\ q[j] \in 1..n
          BY <3>1, <4>1
        <5> QED BY <3>1, <4>1, <5>1, <5>2
      <4>3. CASE k = m
        BY <4>2, <4>3
      <4>4. CASE k # m
        <5>1. k \in 1..(m - 1)
          BY <3>2, <4>4
        <5> QED BY <3>5, <3>7, <4>1, <4>2, <5>1
      <4> QED BY <4>3, <4>4
    <3>8. ASSUME NEW y \in T PROVE \E k \in 1..m : p[k] = y
      <4>1. CASE y = x
        BY <3>2, <4>1
      <4>2. CASE y # x
        <5>1. PICK k \in 1..(m - 1) : q[k] = y
          BY <3>5, <4>2
        <5>2. k \in 1..m /\ k # m
          BY <3>2
        <5> QED BY <5>1, <5>2
      <4> QED BY <4>1, <4>2
    <3> HIDE DEF p
    <3>9. Lists(p, T)
      BY <3>6, <3>7, <3>8 DEF Lists, m
    <3> QED BY <3>9
  <2> QED BY <2>1, <2>2
<1> HIDE DEF G
<1>3. S \in G
  BY <1>1, <1>2, EveryPart
<1> USE DEF G
<1> QED BY <1>3

LEMMA InOrderIs ==
    ASSUME NEW n \in Nat, NEW S \in SUBSET (1..n)
    PROVE  /\ InOrder(S) \in Seq(S) /\ Len(InOrder(S)) = Cardinality(S) /\ Cardinality(S) \in Nat
           /\ DOMAIN InOrder(S) = 1..Cardinality(S)
           /\ \A k \in DOMAIN InOrder(S) : InOrder(S)[k] \in S
           /\ \A j, k \in DOMAIN InOrder(S) : InOrder(S)[j] = InOrder(S)[k] => j = k
           /\ {InOrder(S)[k] : k \in DOMAIN InOrder(S)} = S
           /\ S = {} => Cardinality(S) = 0
<1> DEFINE m == Cardinality(S)
           q == InOrder(S)
<1>1. IsFiniteSet(S) /\ \A x \in S : x \in Nat
  BY FinitePart
<1>2. m \in Nat
  BY <1>1, FS_CardinalityType
<1>3. \E p \in [1..m -> S] : \A j, k \in DOMAIN p : j < k => p[j] < p[k]
  <2>1. PICK p : Lists(p, S)
    BY ListExists
  <2> QED BY <2>1 DEF Lists
<1>4. q \in [1..m -> S] /\ \A j, k \in 1..m : j < k => q[j] < q[k]
  BY <1>3 DEF InOrder
<1> HIDE DEF q, m
<1>5. \A j, k \in 1..m : q[j] = q[k] => j = k
  <2> SUFFICES ASSUME NEW j \in 1..m, NEW k \in 1..m, q[j] = q[k], j # k PROVE FALSE
    OBVIOUS
  <2>1. q[j] \in S /\ q[k] \in S /\ j \in Int /\ k \in Int
    BY <1>2, <1>4
  <2>2. q[j] \in Nat /\ q[k] \in Nat
    BY <1>1, <2>1
  <2>3. j < k \/ k < j
    BY <2>1
  <2>4. q[j] < q[k] \/ q[k] < q[j]
    BY <1>4, <2>3
  <2> QED BY <2>2, <2>4
<1>6. q \in Injection(1..m, S) /\ IsFiniteSet(1..m) /\ Cardinality(1..m) = m
  <2>1. q \in Injection(1..m, S)
    BY <1>4, <1>5 DEF Injection, IsInjective
  <2>2. IsFiniteSet(1..m) /\ Cardinality(1..m) = m
    BY <1>2, FS_Interval
  <2> QED BY <2>1, <2>2
<1>7. q \in Surjection(1..m, S)
  BY <1>1, <1>6, FS_Injection DEF m
<1>8. {q[k] : k \in 1..m} = S
  BY <1>4, <1>7 DEF Surjection
<1>9. q \in Seq(S) /\ Len(q) = m
  BY <1>2, <1>4, RowsFrom
<1>10. S = {} => m = 0
  BY FS_EmptySet DEF m
<1> QED
  BY <1>2, <1>4, <1>5, <1>8, <1>9, <1>10 DEF q, m

\* Two functions of the rows: as many in order as in the set.
LEMMA SumInOrder ==
    ASSUME NEW n \in Nat, NEW S \in SUBSET (1..n), NEW f, NEW g, \A x \in S : f[x] \in Int,
           \A k \in DOMAIN InOrder(S) : g[k] = f[InOrder(S)[k]]
    PROVE  SumFunctionOnSet(g, DOMAIN InOrder(S)) = SumFunctionOnSet(f, S)
<1> DEFINE q == InOrder(S)
           K == DOMAIN q
<1>1. /\ K = 1..Cardinality(S) /\ Cardinality(S) \in Nat /\ \A k \in K : q[k] \in S
      /\ \A j, k \in K : q[j] = q[k] => j = k
      /\ {q[k] : k \in K} = S
  BY InOrderIs
<1>2. IsFiniteSet(K)
  BY <1>1, FS_Interval
<1>3. \A k \in K : f[q[k]] \in Int /\ g[k] = f[q[k]]
  BY <1>1
<1> HIDE DEF K, q
<1>4. SumFunctionOnSet(g, K) = SumFunctionOnSet(f, {q[k] : k \in K})
  BY SMTT(40), <1>1, <1>2, <1>3, SumRenamed
<1> QED BY <1>1, <1>4 DEF K, q

-----------------------------------------------------------------------------
(* Allot: from rows in their order, each up to its capacity *)

LEMMA AllotFor ==
    ASSUME NEW cap, NEW latest, NEW amount
    PROVE  DOMAIN Allot(cap, latest, amount) = DOMAIN cap
BY DEF Allot

LEMMA AllotBounds ==
    ASSUME NEW n \in Nat, NEW S \in SUBSET (1..n), NEW cap, DOMAIN cap = S, \A x \in S : cap[x] \in Int,
           NEW latest \in BOOLEAN, NEW amount \in Int
    PROVE  \A x \in S : /\ Allot(cap, latest, amount)[x] \in Int
                        /\ Allot(cap, latest, amount)[x] <= cap[x]
                        /\ cap[x] = 0 => Allot(cap, latest, amount)[x] = 0
<1> DEFINE f == Allot(cap, latest, amount)
           Before(x) == {y \in S : IF latest THEN y > x ELSE y < x}
           left(x) == amount - SumFunctionOnSet(cap, Before(x))
<1>1. f = [x \in S |-> Min({cap[x], Max({0, left(x)})})]
  BY DEF Allot
<1>2. \A T \in SUBSET S : SumFunctionOnSet(cap, T) \in Int
  <2> TAKE T \in SUBSET S
  <2>1. IsFiniteSet(T) /\ \A x \in T : cap[x] \in Int
    BY FinitePart
  <2> QED BY <2>1, SumOfNumbers
<1>3. ASSUME NEW x \in S PROVE f[x] \in Int /\ f[x] <= cap[x] /\ (cap[x] = 0 => f[x] = 0)
  <2>1. Before(x) \in SUBSET S
    OBVIOUS
  <2>2. left(x) \in Int
    BY <1>2, <2>1
  <2>3. f[x] = Min({cap[x], Max({0, left(x)})})
    BY <1>1
  <2> HIDE DEF left, f
  <2>4. Max({0, left(x)}) \in Int /\ Max({0, left(x)}) >= 0
    BY <2>2, GreaterOf
  <2>5. Min({cap[x], Max({0, left(x)})}) = IF cap[x] <= Max({0, left(x)}) THEN cap[x] ELSE Max({0, left(x)})
    BY <2>4, LesserOf
  <2> QED BY <2>3, <2>4, <2>5
<1> HIDE DEF f
<1> QED BY <1>3 DEF f

LEMMA AllotIs ==
    ASSUME NEW n \in Nat, NEW S \in SUBSET (1..n), NEW cap, DOMAIN cap = S, \A x \in S : cap[x] \in Nat,
           NEW latest \in BOOLEAN, NEW amount \in Int
    PROVE  /\ \A x \in S : /\ Allot(cap, latest, amount)[x] \in Nat
                           /\ Allot(cap, latest, amount)[x] <= cap[x]
           /\ amount >= 0 =>
                SumFunctionOnSet(Allot(cap, latest, amount), S)
                  = IF amount <= SumFunctionOnSet(cap, S) THEN amount ELSE SumFunctionOnSet(cap, S)
<1> DEFINE f == Allot(cap, latest, amount)
           Before(x) == {y \in S : IF latest THEN y > x ELSE y < x}
           left(x) == amount - SumFunctionOnSet(cap, Before(x))
<1>1. f = [x \in S |-> Min({cap[x], Max({0, left(x)})})]
  BY DEF Allot
<1>2. IsFiniteSet(S) /\ \A T \in SUBSET S : IsFiniteSet(T)
  <2>1. IsFiniteSet(S)
    BY FinitePart
  <2> QED BY <2>1, FS_Subset
<1>3. \A T \in SUBSET S : SumFunctionOnSet(cap, T) \in Nat
  <2> TAKE T \in SUBSET S
  <2>1. IsFiniteSet(T) /\ \A x \in T : cap[x] \in Int /\ cap[x] \in Nat
    BY <1>2
  <2> QED BY <2>1, SumOfNumbers
<1>4. ASSUME NEW x \in S
      PROVE  /\ left(x) \in Int
             /\ f[x] = IF left(x) <= 0 THEN 0 ELSE IF cap[x] <= left(x) THEN cap[x] ELSE left(x)
  <2>1. Before(x) \in SUBSET S
    OBVIOUS
  <2>2. left(x) \in Int
    BY <1>3, <2>1
  <2> HIDE DEF left
  <2>3. Max({0, left(x)}) = IF 0 >= left(x) THEN 0 ELSE left(x)
    BY <2>2, GreaterOf
  <2>4. Min({cap[x], Max({0, left(x)})}) = IF cap[x] <= Max({0, left(x)}) THEN cap[x] ELSE Max({0, left(x)})
    BY <2>2, <2>3, LesserOf
  <2>5. f[x] = Min({cap[x], Max({0, left(x)})})
    BY <1>1
  <2> HIDE DEF f
  <2> QED BY <2>2, <2>3, <2>4, <2>5
<1>5. \A x \in S : f[x] \in Nat /\ f[x] <= cap[x]
  <2> HIDE DEF f, left
  <2> QED BY <1>4
<1>6. ASSUME amount >= 0
      PROVE  SumFunctionOnSet(f, S) = IF amount <= SumFunctionOnSet(cap, S) THEN amount ELSE SumFunctionOnSet(cap, S)
  <2> DEFINE Lower(T) == \A x \in T : Before(x) \subseteq T
             Filled(T) == SumFunctionOnSet(f, T) = IF amount <= SumFunctionOnSet(cap, T) THEN amount ELSE SumFunctionOnSet(cap, T)
             G == {T \in SUBSET S : Lower(T) => Filled(T)}
  <2>1. ASSUME NEW T \in SUBSET S, \A U \in SUBSET T : U # T => U \in G PROVE T \in G
    <3> SUFFICES ASSUME Lower(T) PROVE Filled(T)
      OBVIOUS
    <3>1. CASE T = {}
      <4>1. SumFunctionOnSet(f, T) = 0 /\ SumFunctionOnSet(cap, T) = 0
        BY <3>1, SumOfNone
      <4> HIDE DEF f
      <4> QED BY <1>6, <4>1
    <3>2. CASE T # {}
      <4>1. PICK x \in T : \A y \in T : IF latest THEN x <= y ELSE x >= y
        <5>1. CASE latest
          BY <3>2, <5>1, MinOf
        <5>2. CASE ~ latest
          BY <3>2, <5>2, MaxOf
        <5> QED BY <5>1, <5>2
      <4> DEFINE R == T \ {x}
      <4>2. Before(x) = R
        <5>1. \A y \in T : y \in Int
          OBVIOUS
        <5>2. x \in Int /\ Before(x) \subseteq T
          BY <5>1
        <5>3. ASSUME NEW y \in Before(x) PROVE y \in R
          <6>1. y \in T /\ y \in Int /\ (IF latest THEN y > x ELSE y < x)
            BY <5>1, <5>2
          <6> QED BY <5>2, <6>1
        <5>4. ASSUME NEW y \in R PROVE y \in Before(x)
          <6>1. y \in S /\ y \in Int /\ y # x /\ (IF latest THEN x <= y ELSE x >= y)
            BY <4>1, <5>1
          <6>2. IF latest THEN y > x ELSE y < x
            BY <5>2, <6>1
          <6> QED BY <6>1, <6>2
        <5> HIDE DEF Before, R
        <5> QED BY <5>3, <5>4
      <4>3. Lower(R)
        <5> SUFFICES ASSUME NEW y \in R, NEW z \in Before(y) PROVE z \in R
          OBVIOUS
        <5>1. z \in T /\ y \in Int /\ z \in Int /\ x \in Int
          OBVIOUS
        <5>2. z # x
          BY <4>1, <5>1
        <5> QED BY <5>1, <5>2
      <4>4. Filled(R)
        <5>1. R \in SUBSET T /\ R # T
          BY <4>1
        <5>2. R \in G
          BY <2>1, <5>1
        <5> QED BY <4>3, <5>2
      <4>5. SumFunctionOnSet(f, T) = f[x] + SumFunctionOnSet(f, R)
        <5>1. \A y \in T : f[y] \in Int
          BY <1>5
        <5> HIDE DEF f
        <5> QED BY <1>2, <4>1, <5>1, SumOfAny
      <4>6. SumFunctionOnSet(cap, T) = cap[x] + SumFunctionOnSet(cap, R)
        <5>1. \A y \in T : cap[y] \in Int
          OBVIOUS
        <5> QED BY <1>2, <4>1, <5>1, SumOfAny
      <4>7. left(x) = amount - SumFunctionOnSet(cap, R)
        BY <4>2
      <4>8. SumFunctionOnSet(cap, R) \in Nat /\ cap[x] \in Nat
        BY <1>3
      <4> HIDE DEF f, left, R
      <4> QED BY <1>4, <1>6, <4>4, <4>5, <4>6, <4>7, <4>8
    <3> QED BY <3>1, <3>2
  <2> HIDE DEF G
  <2>2. S \in G
    BY <1>2, <2>1, EveryPart
  <2> USE DEF G
  <2> QED BY <2>2
<1> HIDE DEF f
<1> QED BY <1>5, <1>6 DEF f

-----------------------------------------------------------------------------
(* The books: what the tables hold, and what relates them *)

SourceRow   == [account: Accounts, cause: Approvals \cup {None}, gross: Int, unapplied: Int,
                state: {"applying", "applied", "voided"}]
LotRow      == [account: Accounts, source: Nat, original: Int, available: Int, consumed: Int, withheld: Int,
                state: {"active", "exhausted", "voided"}]
AppRow      == [source: Nat, key: Nat \X Nat, debt: Nat, lot: Nat, amount: Int, reallocated: Int, writtenOff: Int]
DebtRow     == [identity: Identities, account: Accounts, lot: Nat, amount: Int, adjusted: Int, settled: Int,
                state: {"open", "partially_settled", "settled"}]
DebitRow    == [account: Accounts, kind: {"sale", "manual_adjustment"}, amount: Nat,
                state: {"held", "captured", "released", "reversed"}]
AllocRow    == [debit: Nat, lot: Nat, amount: Nat, reversal: {"none", "live", "voided"}]
WriteoffRow == [identity: Identities, account: Accounts, lot: Nat, amount: Int]
Books == [sources: Seq(SourceRow), lots: Seq(LotRow), apps: Seq(AppRow), debts: Seq(DebtRow),
          debits: Seq(DebitRow), allocs: Seq(AllocRow), writeoffs: Seq(WriteoffRow), cache: [Accounts -> Int]]

\* A lot is of its source's account; what is applied is of a source; a debt is
\* of a lot that a source made; a debit took lots of its account.
Linked(b) ==
    /\ \A l \in DOMAIN b.lots : b.lots[l].source # 0 =>
          b.lots[l].source \in DOMAIN b.sources /\ b.lots[l].account = b.sources[b.lots[l].source].account
    /\ \A p \in DOMAIN b.apps : b.apps[p].source \in DOMAIN b.sources
    /\ \A d \in DOMAIN b.debts : /\ b.debts[d].lot \in DOMAIN b.lots
                                /\ b.lots[b.debts[d].lot].source \in DOMAIN b.sources
    /\ \A al \in DOMAIN b.allocs : /\ b.allocs[al].debit \in DOMAIN b.debits /\ b.allocs[al].lot \in DOMAIN b.lots
                                  /\ b.lots[b.allocs[al].lot].account = b.debits[b.allocs[al].debit].account

\* Nothing is left of a voided source, and nothing can be spent of a voided lot.
IsGone(b, s) == s \in DOMAIN b.sources /\ b.sources[s].state = "voided"
Gone(b) ==
    /\ \A l \in DOMAIN b.lots : b.lots[l].state = "voided" => b.lots[l].available = 0
    /\ \A l \in DOMAIN b.lots : IsGone(b, b.lots[l].source) => b.lots[l].state = "voided"
    /\ \A p \in DOMAIN b.apps : IsGone(b, b.apps[p].source) /\ b.apps[p].debt # 0 => Effective(b.apps[p]) = 0

\* Only who a void was claimed for owes what it took.
CauseOf(b, l) == b.sources[b.lots[l].source].cause
Blamed(b) ==
    \A d \in DOMAIN b.debts : LET cause == CauseOf(b, b.debts[d].lot)
                             IN  /\ cause \in Approvals /\ voids[cause] # "completed"
                                 /\ b.debts[d].identity = voidedAs[cause]

Fits(b) == b \in Books /\ Linked(b) /\ Gone(b) /\ Blamed(b)

\* What a step of a transaction that voids nothing leaves as it was.
Keeps(b, c) ==
    /\ DOMAIN c.sources = DOMAIN b.sources
    /\ \A s \in DOMAIN b.sources : /\ c.sources[s].account = b.sources[s].account
                                  /\ c.sources[s].cause = b.sources[s].cause /\ c.sources[s].gross = b.sources[s].gross
                                  /\ (c.sources[s].state = "voided" <=> b.sources[s].state = "voided")
    /\ \A l \in DOMAIN b.lots : /\ l \in DOMAIN c.lots /\ c.lots[l].account = b.lots[l].account
                                /\ c.lots[l].source = b.lots[l].source
                                /\ (c.lots[l].state = "voided" <=> b.lots[l].state = "voided")
    /\ \A p \in DOMAIN b.apps : /\ p \in DOMAIN c.apps /\ c.apps[p].source = b.apps[p].source
                                /\ c.apps[p].debt = b.apps[p].debt
    /\ DOMAIN c.debts = DOMAIN b.debts
    /\ \A d \in DOMAIN b.debts : c.debts[d].lot = b.debts[d].lot /\ c.debts[d].identity = b.debts[d].identity
    /\ DOMAIN c.allocs = DOMAIN b.allocs
    /\ \A al \in DOMAIN b.allocs : /\ c.allocs[al].debit = b.allocs[al].debit /\ c.allocs[al].lot = b.allocs[al].lot
                                  /\ c.allocs[al].amount = b.allocs[al].amount
    /\ c.debits = b.debits /\ c.writeoffs = b.writeoffs

LEMMA KeepsOn ==
    ASSUME NEW b, NEW c, NEW e, Keeps(b, c), Keeps(c, e)
    PROVE  Keeps(b, e)
<1>1. /\ DOMAIN e.sources = DOMAIN b.sources
      /\ \A s \in DOMAIN b.sources :
            /\ e.sources[s].account = b.sources[s].account
            /\ e.sources[s].cause = b.sources[s].cause /\ e.sources[s].gross = b.sources[s].gross
            /\ (e.sources[s].state = "voided" <=> b.sources[s].state = "voided")
  BY DEF Keeps
<1>2. \A l \in DOMAIN b.lots : /\ l \in DOMAIN e.lots /\ e.lots[l].account = b.lots[l].account
                              /\ e.lots[l].source = b.lots[l].source
                              /\ (e.lots[l].state = "voided" <=> b.lots[l].state = "voided")
  BY DEF Keeps
<1>3. \A p \in DOMAIN b.apps : p \in DOMAIN e.apps /\ e.apps[p].source = b.apps[p].source
                              /\ e.apps[p].debt = b.apps[p].debt
  BY SMTT(40) DEF Keeps
<1>4. /\ DOMAIN e.debts = DOMAIN b.debts
      /\ \A d \in DOMAIN b.debts : e.debts[d].lot = b.debts[d].lot /\ e.debts[d].identity = b.debts[d].identity
  BY SMTT(40) DEF Keeps
<1>5. /\ DOMAIN e.allocs = DOMAIN b.allocs
      /\ \A al \in DOMAIN b.allocs : /\ e.allocs[al].debit = b.allocs[al].debit /\ e.allocs[al].lot = b.allocs[al].lot
                                    /\ e.allocs[al].amount = b.allocs[al].amount
  BY SMTT(40) DEF Keeps
<1>6. e.debits = b.debits /\ e.writeoffs = b.writeoffs
  BY Zenon DEF Keeps
<1> QED BY <1>1, <1>2, <1>3, <1>4, <1>5, <1>6, Zenon DEF Keeps

LEMMA KeepsSelf ==
    ASSUME NEW b
    PROVE  Keeps(b, b)
BY DEF Keeps

LEMMA BookIs ==
    ASSUME NEW b \in Books
    PROVE  /\ b.sources \in Seq(SourceRow) /\ b.lots \in Seq(LotRow) /\ b.apps \in Seq(AppRow)
           /\ b.debts \in Seq(DebtRow) /\ b.debits \in Seq(DebitRow) /\ b.allocs \in Seq(AllocRow)
           /\ b.writeoffs \in Seq(WriteoffRow) /\ b.cache \in [Accounts -> Int]
BY DEF Books

LEMMA RowsIn ==
    ASSUME NEW b \in Books
    PROVE  /\ \A s \in DOMAIN b.sources : b.sources[s] \in SourceRow /\ s \in Nat /\ s > 0
           /\ \A l \in DOMAIN b.lots : b.lots[l] \in LotRow /\ l \in Nat /\ l > 0
           /\ \A p \in DOMAIN b.apps : b.apps[p] \in AppRow /\ p \in Nat /\ p > 0
           /\ \A d \in DOMAIN b.debts : b.debts[d] \in DebtRow /\ d \in Nat /\ d > 0
           /\ \A d \in DOMAIN b.debits : b.debits[d] \in DebitRow /\ d \in Nat /\ d > 0
           /\ \A al \in DOMAIN b.allocs : b.allocs[al] \in AllocRow /\ al \in Nat /\ al > 0
           /\ \A w \in DOMAIN b.writeoffs : b.writeoffs[w] \in WriteoffRow /\ w \in Nat
<1>1. \A s \in DOMAIN b.sources : b.sources[s] \in SourceRow /\ s \in Nat /\ s > 0
  BY BookIs, RowsOf
<1>2. \A l \in DOMAIN b.lots : b.lots[l] \in LotRow /\ l \in Nat /\ l > 0
  BY BookIs, RowsOf
<1>3. \A p \in DOMAIN b.apps : b.apps[p] \in AppRow /\ p \in Nat /\ p > 0
  BY BookIs, RowsOf
<1>4. \A d \in DOMAIN b.debts : b.debts[d] \in DebtRow /\ d \in Nat /\ d > 0
  BY BookIs, RowsOf
<1>5. \A d \in DOMAIN b.debits : b.debits[d] \in DebitRow /\ d \in Nat /\ d > 0
  BY BookIs, RowsOf
<1>6. \A al \in DOMAIN b.allocs : b.allocs[al] \in AllocRow /\ al \in Nat /\ al > 0
  BY BookIs, RowsOf
<1>7. \A w \in DOMAIN b.writeoffs : b.writeoffs[w] \in WriteoffRow /\ w \in Nat
  BY BookIs, RowsOf
<1> QED BY <1>1, <1>2, <1>3, <1>4, <1>5, <1>6, <1>7

LEMMA TablesFinite ==
    ASSUME NEW b \in Books
    PROVE  /\ IsFiniteSet(DOMAIN b.sources) /\ IsFiniteSet(DOMAIN b.lots) /\ IsFiniteSet(DOMAIN b.apps)
           /\ IsFiniteSet(DOMAIN b.debts) /\ IsFiniteSet(DOMAIN b.allocs) /\ IsFiniteSet(DOMAIN b.writeoffs)
           /\ IsFiniteSet(DOMAIN b.debits)
BY BookIs, RowsOf

LEMMA SettledTo ==
    ASSUME NEW debt \in DebtRow, NEW adjusted \in Int, NEW settled \in Int
    PROVE  LET e == WithTotals(debt, adjusted, settled)
           IN  /\ e \in DebtRow /\ e.adjusted = adjusted /\ e.settled = settled /\ e.amount = debt.amount
               /\ e.lot = debt.lot /\ e.identity = debt.identity /\ e.account = debt.account
               /\ e.state = DebtState(debt.amount, adjusted, settled)
BY DEF WithTotals, DebtRow, DebtState

LEMMA NumbersOf ==
    /\ \A app \in AppRow : Effective(app) \in Int /\ app.amount - app.reallocated \in Int
    /\ \A debt \in DebtRow : Remaining(debt) \in Int
BY DEF AppRow, DebtRow, Effective, Remaining

-----------------------------------------------------------------------------
(* C: how a source is distributed *)

OpenFor(b, s, except) == Owing(b, identity[b.sources[s].account]) \ {except}
PaidTo(b, s, except) ==
    Allot([d \in OpenFor(b, s, except) |-> Remaining(b.debts[d])], FALSE, b.sources[s].unapplied)
PaidDebts(b, s, except) == {d \in OpenFor(b, s, except) : PaidTo(b, s, except)[d] > 0}
RestOf(b, s, except) == b.sources[s].unapplied - SumFunctionOnSet(PaidTo(b, s, except), OpenFor(b, s, except))
ToDebts(b, s, except, rev) ==
    [k \in DOMAIN InOrder(PaidDebts(b, s, except)) |->
        Application(s, rev, InOrder(PaidDebts(b, s, except))[k], 0, PaidTo(b, s, except)[InOrder(PaidDebts(b, s, except))[k]])]
ToLot(b, s, except, rev) ==
    IF RestOf(b, s, except) = 0 THEN <<>> ELSE <<Application(s, rev, 0, Len(b.lots) + 1, RestOf(b, s, except))>>
PaidDebt(b, s, except, d) ==
    IF d \in OpenFor(b, s, except)
    THEN WithTotals(b.debts[d], b.debts[d].adjusted, b.debts[d].settled + PaidTo(b, s, except)[d])
    ELSE b.debts[d]

\* What is paid of the debts are numbers.
LEMMA PaidTyped ==
    ASSUME NEW b \in Books, NEW s \in DOMAIN b.sources, NEW except
    PROVE  LET S == OpenFor(b, s, except)
               f == PaidTo(b, s, except)
           IN  /\ S \in SUBSET DOMAIN b.debts /\ IsFiniteSet(S) /\ DOMAIN f = S
               /\ \A d \in S : f[d] \in Int /\ f[d] <= Remaining(b.debts[d])
               /\ SumFunctionOnSet(f, S) \in Int /\ SumFunction(f) = SumFunctionOnSet(f, S)
               /\ RestOf(b, s, except) \in Int
<1> DEFINE S == OpenFor(b, s, except)
           f == PaidTo(b, s, except)
           cap == [d \in S |-> Remaining(b.debts[d])]
           u == b.sources[s].unapplied
<1>1. S \in SUBSET DOMAIN b.debts
  BY DEF OpenFor, Owing
<1>2. DOMAIN b.debts = 1..Len(b.debts) /\ Len(b.debts) \in Nat
  BY BookIs, RowsOf
<1>3. IsFiniteSet(S)
  BY <1>1, <1>2, FinitePart
<1>4. u \in Int
  BY RowsIn DEF SourceRow
<1>5. \A d \in S : Remaining(b.debts[d]) \in Int
  BY <1>1, RowsIn, NumbersOf
<1>6. DOMAIN cap = S /\ \A d \in S : cap[d] = Remaining(b.debts[d]) /\ cap[d] \in Int
  BY <1>5
<1> HIDE DEF cap, S, u
<1>7. f = Allot(cap, FALSE, u)
  BY DEF PaidTo, cap, S, u
<1>8. DOMAIN f = S /\ \A d \in S : f[d] \in Int /\ f[d] <= cap[d]
  <2>1. PICK n \in Nat : n = Len(b.debts)
    BY <1>2
  <2>2. S \in SUBSET (1..n) /\ \A d \in S : cap[d] \in Int
    BY <1>1, <1>2, <1>6, <2>1
  <2>3. PICK latest \in BOOLEAN : latest = FALSE
    OBVIOUS
  <2>4. f = Allot(cap, latest, u)
    BY <1>7, <2>3
  <2> HIDE DEF f
  <2>5. DOMAIN cap = S
    BY <1>6
  <2>6. \A d \in S : Allot(cap, latest, u)[d] \in Int /\ Allot(cap, latest, u)[d] <= cap[d]
    BY <1>4, <2>2, <2>5, AllotBounds
  <2>7. DOMAIN Allot(cap, latest, u) = S
    BY <2>5, AllotFor
  <2> QED BY <2>4, <2>6, <2>7
<1> HIDE DEF f
<1>9. SumFunctionOnSet(f, S) \in Int
  <2>1. \A d \in S : f[d] \in Int
    BY <1>8
  <2> QED BY <1>3, <2>1, SumOfNumbers
<1>10. SumFunction(f) = SumFunctionOnSet(f, S)
  BY <1>8 DEF SumFunction, SumFunctionOnSet, FoldFunction
<1>11. RestOf(b, s, except) \in Int
  BY <1>4, <1>9 DEF RestOf, S, f, u
<1> QED
  BY <1>1, <1>3, <1>5, <1>6, <1>8, <1>9, <1>10, <1>11 DEF S, f, cap, u

Fresh(b, c) == DOMAIN c.apps \ DOMAIN b.apps

\* The applications that a distribution adds: one for each debt that is paid,
\* and one for the rest.
IsFresh(b, s, except, app) ==
    /\ app.source = s /\ app.reallocated = 0 /\ app.writtenOff = 0
    /\ \/ app.debt = 0 /\ app.lot = Len(b.lots) + 1 /\ RestOf(b, s, except) # 0 /\ app.amount = RestOf(b, s, except)
       \/ app.debt \in PaidDebts(b, s, except) /\ app.amount = PaidTo(b, s, except)[app.debt]

IsFreshPart(b, new, s, except) ==
    LET F == DOMAIN new \ DOMAIN b.apps
    IN  /\ new \in Seq(AppRow) /\ DOMAIN b.apps \subseteq DOMAIN new
        /\ \A p \in DOMAIN b.apps : new[p] = b.apps[p]
        /\ \A p \in F : IsFresh(b, s, except, new[p])
        /\ \A p, q \in F : new[p].debt = new[q].debt => p = q
        /\ \A d \in PaidDebts(b, s, except) : \E p \in F : new[p].debt = d
        /\ RestOf(b, s, except) # 0 => \E p \in F : new[p].debt = 0

LEMMA AppsJoined ==
    ASSUME NEW b \in Books, NEW s \in DOMAIN b.sources, NEW except, NEW rev \in Nat
    PROVE  IsFreshPart(b, b.apps \o ToDebts(b, s, except, rev) \o ToLot(b, s, except, rev), s, except)
<1> DEFINE P == PaidDebts(b, s, except)
           q == InOrder(P)
           f == PaidTo(b, s, except)
           rest == RestOf(b, s, except)
           A == b.apps
           B == ToDebts(b, s, except, rev)
           C == ToLot(b, s, except, rev)
           new == (A \o B) \o C
           F == DOMAIN new \ DOMAIN A
<1>1. Len(b.debts) \in Nat /\ P \in SUBSET (1..Len(b.debts)) /\ s \in Nat /\ Len(b.lots) \in Nat
  <2>1. DOMAIN b.debts = 1..Len(b.debts) /\ Len(b.debts) \in Nat /\ Len(b.lots) \in Nat
    BY BookIs, RowsOf
  <2>2. OpenFor(b, s, except) \in SUBSET DOMAIN b.debts
    BY DEF OpenFor, Owing
  <2> QED BY <2>1, <2>2, RowsIn DEF PaidDebts
<1>2. \A d \in P : f[d] \in Int /\ d \in Nat /\ d > 0
  <2>1. \A d \in OpenFor(b, s, except) : f[d] \in Int
    BY PaidTyped
  <2> QED BY <1>1, <2>1 DEF PaidDebts
<1>3. rest \in Int
  BY PaidTyped
<1>4. /\ DOMAIN q = 1..Cardinality(P) /\ Cardinality(P) \in Nat /\ \A k \in DOMAIN q : q[k] \in P
      /\ \A j, k \in DOMAIN q : q[j] = q[k] => j = k
      /\ {q[k] : k \in DOMAIN q} = P
  BY <1>1, InOrderIs
<1>5. B = [k \in DOMAIN q |-> Application(s, rev, q[k], 0, f[q[k]])]
  BY DEF ToDebts
<1> HIDE DEF P, q, f, rest
<1>6. ASSUME NEW k \in DOMAIN q
      PROVE  /\ B[k] \in AppRow /\ B[k].source = s /\ B[k].debt = q[k] /\ B[k].amount = f[q[k]]
             /\ B[k].reallocated = 0 /\ B[k].writtenOff = 0
  <2>1. q[k] \in P /\ q[k] \in Nat /\ f[q[k]] \in Int /\ 0 \in Nat
    BY <1>2, <1>4
  <2>2. B[k] = Application(s, rev, q[k], 0, f[q[k]])
    BY <1>5
  <2> HIDE DEF B
  <2> QED BY <1>1, <2>1, <2>2 DEF Application, AppRow
<1>7. DOMAIN B = DOMAIN q
  BY <1>5
<1> HIDE DEF B
<1>8. B \in Seq(AppRow)
  <2>1. B = [k \in 1..Cardinality(P) |-> B[k]]
    BY <1>4, <1>5
  <2>2. \A k \in 1..Cardinality(P) : B[k] \in AppRow
    BY <1>4, <1>6
  <2>3. B \in [1..Cardinality(P) -> AppRow]
    BY <2>1, <2>2
  <2> QED BY <1>4, <2>3, RowsFrom
<1>9. /\ C \in Seq(AppRow)
      /\ \A k \in DOMAIN C : /\ k = 1 /\ rest # 0 /\ C[k].source = s /\ C[k].debt = 0 /\ C[k].lot = Len(b.lots) + 1
                             /\ C[k].amount = rest /\ C[k].reallocated = 0 /\ C[k].writtenOff = 0
      /\ rest # 0 => 1 \in DOMAIN C
  <2>1. C = IF rest = 0 THEN <<>> ELSE <<Application(s, rev, 0, Len(b.lots) + 1, rest)>>
    BY DEF ToLot, rest
  <2> HIDE DEF C
  <2>2. CASE rest = 0
    <3>1. C = <<>>
      BY <2>1, <2>2
    <3>2. C \in Seq(AppRow) /\ DOMAIN C = {}
      BY <3>1, EmptySeq
    <3> QED BY <2>2, <3>2
  <2>3. CASE rest # 0
    <3> DEFINE app == Application(s, rev, 0, Len(b.lots) + 1, rest)
    <3>1. /\ app \in AppRow /\ app.source = s /\ app.debt = 0 /\ app.lot = Len(b.lots) + 1 /\ app.amount = rest
          /\ app.reallocated = 0 /\ app.writtenOff = 0
      <4>1. 0 \in Nat /\ Len(b.lots) + 1 \in Nat
        BY <1>1
      <4> QED BY <1>1, <1>3, <4>1 DEF Application, AppRow
    <3>2. C = <<app>>
      BY <2>1, <2>3
    <3> HIDE DEF app
    <3>3. DOMAIN C = {1} /\ C[1] = app
      BY <3>2
    <3>4. C \in Seq(AppRow)
      BY <3>1, <3>2
    <3> QED BY <2>3, <3>1, <3>3, <3>4
  <2> QED BY <2>2, <2>3
<1> HIDE DEF C
<1>10. A \in Seq(AppRow)
  BY BookIs
<1> HIDE DEF A
<1>11. /\ A \o B \in Seq(AppRow) /\ DOMAIN A \subseteq DOMAIN (A \o B)
       /\ \A k \in DOMAIN A : (A \o B)[k] = A[k]
       /\ \A k \in DOMAIN B : Len(A) + k \in DOMAIN (A \o B) /\ (A \o B)[Len(A) + k] = B[k]
       /\ \A k \in DOMAIN (A \o B) \ DOMAIN A : k - Len(A) \in DOMAIN B /\ (A \o B)[k] = B[k - Len(A)]
  BY <1>8, <1>10, Joined
<1> DEFINE AB == A \o B
<1>12. AB \in Seq(AppRow)
  BY <1>11
<1> HIDE DEF AB
<1>13. /\ AB \o C \in Seq(AppRow) /\ DOMAIN AB \subseteq DOMAIN (AB \o C)
       /\ \A k \in DOMAIN AB : (AB \o C)[k] = AB[k]
       /\ \A k \in DOMAIN C : Len(AB) + k \in DOMAIN (AB \o C) /\ (AB \o C)[Len(AB) + k] = C[k]
       /\ \A k \in DOMAIN (AB \o C) \ DOMAIN AB : k - Len(AB) \in DOMAIN C /\ (AB \o C)[k] = C[k - Len(AB)]
  BY <1>9, <1>12, Joined
<1>14. new = AB \o C
  BY DEF AB
<1> HIDE DEF new
<1>15. /\ Len(A) \in Nat /\ DOMAIN A = 1..Len(A) /\ DOMAIN AB = 1..Len(AB) /\ DOMAIN new = 1..Len(new)
       /\ Len(AB) \in Nat
  BY <1>10, <1>12, <1>13, <1>14, RowsOf
<1>16. \A p \in DOMAIN A : p \in DOMAIN new /\ new[p] = A[p]
  BY <1>11, <1>13, <1>14 DEF AB
\* Which new row is which.
<1>17. ASSUME NEW p \in F
       PROVE  \/ p \in DOMAIN AB /\ p - Len(A) \in DOMAIN B /\ new[p] = B[p - Len(A)]
              \/ p - Len(AB) \in DOMAIN C /\ new[p] = C[p - Len(AB)]
  <2>1. CASE p \in DOMAIN AB
    <3>1. p \in DOMAIN (A \o B) \ DOMAIN A
      BY <2>1 DEF AB
    <3>2. p - Len(A) \in DOMAIN B /\ AB[p] = B[p - Len(A)]
      BY <1>11, <3>1 DEF AB
    <3> QED BY <1>13, <1>14, <2>1, <3>2
  <2>2. CASE p \notin DOMAIN AB
    BY <1>13, <1>14, <2>2
  <2> QED BY <2>1, <2>2
<1>18. ASSUME NEW p \in F PROVE IsFresh(b, s, except, new[p])
  <2>1. CASE p - Len(A) \in DOMAIN B /\ new[p] = B[p - Len(A)]
    <3>1. p - Len(A) \in DOMAIN q /\ q[p - Len(A)] \in P
      BY <1>4, <1>7, <2>1
    <3> QED BY <1>6, <2>1, <3>1 DEF IsFresh, P, f
  <2>2. CASE p - Len(AB) \in DOMAIN C /\ new[p] = C[p - Len(AB)]
    BY <1>9, <2>2 DEF IsFresh, rest
  <2> QED BY <1>17, <2>1, <2>2
<1>19. ASSUME NEW p \in F, NEW r \in F, new[p].debt = new[r].debt PROVE p = r
  <2>1. \A k \in DOMAIN B : B[k].debt = q[k] /\ q[k] > 0 /\ q[k] \in Nat
    BY <1>2, <1>4, <1>6, <1>7
  <2>2. \A k \in DOMAIN C : C[k].debt = 0 /\ k = 1
    BY <1>9
  <2>3. p \in Nat /\ r \in Nat
    BY <1>15
  <2>4. CASE p - Len(A) \in DOMAIN B /\ new[p] = B[p - Len(A)]
    <3>1. CASE r - Len(A) \in DOMAIN B /\ new[r] = B[r - Len(A)]
      <4>1. q[p - Len(A)] = q[r - Len(A)]
        BY <1>19, <2>1, <2>4, <3>1
      <4>2. p - Len(A) = r - Len(A)
        BY <1>4, <1>7, <2>4, <3>1, <4>1
      <4> QED BY <1>15, <2>3, <4>2
    <3>2. CASE r - Len(AB) \in DOMAIN C /\ new[r] = C[r - Len(AB)]
      <4>1. q[p - Len(A)] = 0 /\ q[p - Len(A)] > 0
        BY <1>19, <2>1, <2>2, <2>4, <3>2
      <4> QED BY <4>1
    <3> QED BY <1>17, <3>1, <3>2
  <2>5. CASE p - Len(AB) \in DOMAIN C /\ new[p] = C[p - Len(AB)]
    <3>1. CASE r - Len(A) \in DOMAIN B /\ new[r] = B[r - Len(A)]
      <4>1. q[r - Len(A)] = 0 /\ q[r - Len(A)] > 0
        BY <1>19, <2>1, <2>2, <2>5, <3>1
      <4> QED BY <4>1
    <3>2. CASE r - Len(AB) \in DOMAIN C /\ new[r] = C[r - Len(AB)]
      <4>1. p - Len(AB) = r - Len(AB)
        BY <2>2, <2>5, <3>2
      <4> QED BY <1>15, <2>3, <4>1
    <3> QED BY <1>17, <3>1, <3>2
  <2> QED BY <1>17, <2>4, <2>5
<1>20. ASSUME NEW d \in P PROVE \E p \in F : new[p].debt = d
  <2>1. PICK k \in DOMAIN q : q[k] = d
    BY <1>4
  <2>2. k \in DOMAIN B /\ k > 0 /\ k \in Nat
    BY <1>4, <1>7
  <2>3. Len(A) + k \in DOMAIN AB /\ AB[Len(A) + k] = B[k]
    BY <1>11, <2>2 DEF AB
  <2>4. Len(A) + k \notin DOMAIN A
    BY <1>15, <2>2
  <2>5. Len(A) + k \in F /\ new[Len(A) + k] = B[k]
    BY <1>13, <1>14, <2>3, <2>4
  <2> QED BY <1>6, <2>1, <2>5
<1>21. ASSUME rest # 0 PROVE \E p \in F : new[p].debt = 0
  <2>1. 1 \in DOMAIN C /\ C[1].debt = 0
    BY <1>9, <1>21
  <2>2. Len(AB) + 1 \in DOMAIN new /\ new[Len(AB) + 1] = C[1]
    BY <1>13, <1>14, <2>1
  <2>3. Len(AB) + 1 \notin DOMAIN A
    BY <1>11, <1>15 DEF AB
  <2> QED BY <2>1, <2>2, <2>3
<1>22. new \in Seq(AppRow)
  BY <1>13, <1>14
<1> HIDE DEF F
<1>23. F = DOMAIN new \ DOMAIN A
  BY DEF F
<1> QED
  BY <1>16, <1>18, <1>19, <1>20, <1>21, <1>22, <1>23 DEF IsFreshPart, P, new, A, B, C, rest, F

-----------------------------------------------------------------------------
\* What a distribution makes of the books.
Spread(b, c, s, except) ==
    /\ c \in Books
    /\ c.debits = b.debits /\ c.allocs = b.allocs /\ c.writeoffs = b.writeoffs /\ c.cache = b.cache
    /\ DOMAIN c.sources = DOMAIN b.sources
    /\ \A t \in DOMAIN b.sources : t # s => c.sources[t] = b.sources[t]
    /\ /\ c.sources[s].account = b.sources[s].account /\ c.sources[s].cause = b.sources[s].cause
       /\ c.sources[s].gross = b.sources[s].gross /\ c.sources[s].unapplied = 0 /\ c.sources[s].state = "applied"
    /\ DOMAIN b.apps \subseteq DOMAIN c.apps /\ \A p \in DOMAIN b.apps : c.apps[p] = b.apps[p]
    /\ \A p \in Fresh(b, c) : IsFresh(b, s, except, c.apps[p])
    /\ \A p, q \in Fresh(b, c) : c.apps[p].debt = c.apps[q].debt => p = q
    /\ \A d \in PaidDebts(b, s, except) : \E p \in Fresh(b, c) : c.apps[p].debt = d
    /\ RestOf(b, s, except) # 0 => \E p \in Fresh(b, c) : c.apps[p].debt = 0
    /\ \A l \in DOMAIN b.lots : l \in DOMAIN c.lots /\ c.lots[l] = b.lots[l]
    /\ IF RestOf(b, s, except) = 0 THEN c.lots = b.lots
       ELSE /\ DOMAIN c.lots = DOMAIN b.lots \cup {Len(b.lots) + 1} /\ Len(b.lots) + 1 \notin DOMAIN b.lots
            /\ c.lots[Len(b.lots) + 1] = NewLot(b.sources[s].account, s, RestOf(b, s, except))
    /\ DOMAIN c.debts = DOMAIN b.debts
    /\ \A d \in DOMAIN b.debts : c.debts[d] = PaidDebt(b, s, except, d)

LEMMA PaidDebtTyped ==
    ASSUME NEW b \in Books, NEW s \in DOMAIN b.sources, NEW except, NEW d \in DOMAIN b.debts
    PROVE  /\ PaidDebt(b, s, except, d) \in DebtRow
           /\ PaidDebt(b, s, except, d).amount = b.debts[d].amount
           /\ PaidDebt(b, s, except, d).adjusted = b.debts[d].adjusted
           /\ PaidDebt(b, s, except, d).lot = b.debts[d].lot
           /\ PaidDebt(b, s, except, d).identity = b.debts[d].identity
           /\ PaidDebt(b, s, except, d).account = b.debts[d].account
<1> DEFINE x == PaidTo(b, s, except)[d]
           debt == b.debts[d]
           e == PaidDebt(b, s, except, d)
<1>1. debt \in DebtRow
  BY RowsIn
<1>2. CASE d \in OpenFor(b, s, except)
  <2>1. x \in Int
    BY <1>2, PaidTyped
  <2>2. e = WithTotals(debt, debt.adjusted, debt.settled + x)
    BY <1>2 DEF PaidDebt
  <2> HIDE DEF x, debt, e
  <2>3. debt.adjusted \in Int /\ debt.settled + x \in Int
    BY <1>1, <2>1 DEF DebtRow
  <2>4. /\ e \in DebtRow /\ e.adjusted = debt.adjusted /\ e.amount = debt.amount
        /\ e.lot = debt.lot /\ e.identity = debt.identity /\ e.account = debt.account
    BY <1>1, <2>2, <2>3, SettledTo
  <2> QED BY <2>4 DEF debt, e
<1>3. CASE d \notin OpenFor(b, s, except)
  <2>1. e = debt
    BY <1>3 DEF PaidDebt
  <2> HIDE DEF e, debt
  <2> QED BY <1>1, <2>1 DEF e, debt
<1> QED BY <1>2, <1>3

LEMMA DistributeSpreads ==
    ASSUME NEW b \in Books, NEW s \in DOMAIN b.sources, NEW except, NEW rev \in Nat
    PROVE  Spread(b, Distribute(b, s, except, rev), s, except)
<1> DEFINE src == [b.sources[s] EXCEPT !.unapplied = 0, !.state = "applied"]
           srcs == [b.sources EXCEPT ![s] = src]
           apps == b.apps \o ToDebts(b, s, except, rev) \o ToLot(b, s, except, rev)
           rest == RestOf(b, s, except)
           lot == NewLot(b.sources[s].account, s, rest)
           lots == IF rest = 0 THEN b.lots ELSE Append(b.lots, lot)
           debts == [d \in DOMAIN b.debts |-> PaidDebt(b, s, except, d)]
           c == Distribute(b, s, except, rev)
<1>1. c = [b EXCEPT !.sources[s] = src, !.apps = apps, !.lots = lots, !.debts = debts]
  <2>1. SumFunction(PaidTo(b, s, except)) = SumFunctionOnSet(PaidTo(b, s, except), OpenFor(b, s, except))
    BY PaidTyped
  <2> QED
    BY <2>1 DEF Distribute, ToDebts, ToLot, PaidDebt, RestOf, PaidDebts, PaidTo, OpenFor
<1>2. c = [b EXCEPT !.sources = srcs, !.apps = apps, !.lots = lots, !.debts = debts]
  BY <1>1 DEF Books
<1>3. /\ src \in SourceRow /\ src.account = b.sources[s].account /\ src.cause = b.sources[s].cause
      /\ src.gross = b.sources[s].gross /\ src.unapplied = 0 /\ src.state = "applied"
  <2>1. b.sources[s] \in SourceRow
    BY RowsIn
  <2>2. PICK z \in Int : z = 0
    OBVIOUS
  <2>3. PICK state \in {"applying", "applied", "voided"} : state = "applied"
    OBVIOUS
  <2>4. PICK row \in SourceRow : row = b.sources[s]
    BY <2>1
  <2>5. src = [row EXCEPT !.unapplied = z, !.state = state]
    BY <2>2, <2>3, <2>4
  <2> HIDE DEF src
  <2>6. /\ src \in SourceRow /\ src.account = row.account /\ src.cause = row.cause
        /\ src.gross = row.gross /\ src.unapplied = z /\ src.state = state
    BY <2>5 DEF SourceRow
  <2> QED BY <2>2, <2>3, <2>4, <2>6
<1> HIDE DEF src
<1>4. /\ srcs \in Seq(SourceRow) /\ DOMAIN srcs = DOMAIN b.sources /\ srcs[s] = src
      /\ \A t \in DOMAIN b.sources : t # s => srcs[t] = b.sources[t]
  <2>1. b.sources \in [1..Len(b.sources) -> SourceRow] /\ Len(b.sources) \in Nat
    BY BookIs, RowsOf
  <2>2. srcs \in [1..Len(b.sources) -> SourceRow]
    BY <1>3, <2>1
  <2>3. srcs \in Seq(SourceRow)
    BY <2>1, <2>2, RowsFrom
  <2> QED BY <2>3
<1>5. apps \in Seq(AppRow)
  BY AppsJoined DEF IsFreshPart
<1>6. rest \in Int /\ s \in Nat /\ b.sources[s].account \in Accounts
  BY PaidTyped, RowsIn DEF SourceRow
<1>7. lot \in LotRow
  BY <1>6 DEF NewLot, LotRow
<1> HIDE DEF lot
<1>8. /\ lots \in Seq(LotRow)
      /\ \A l \in DOMAIN b.lots : l \in DOMAIN lots /\ lots[l] = b.lots[l]
      /\ rest # 0 => /\ DOMAIN lots = DOMAIN b.lots \cup {Len(b.lots) + 1} /\ Len(b.lots) + 1 \notin DOMAIN b.lots
                     /\ lots[Len(b.lots) + 1] = lot
      /\ rest = 0 => lots = b.lots
  <2>1. b.lots \in Seq(LotRow)
    BY BookIs
  <2>2. CASE rest = 0
    BY <2>1, <2>2
  <2>3. CASE rest # 0
    <3>1. lots = Append(b.lots, lot)
      BY <2>3
    <3> HIDE DEF lots
    <3> QED BY <1>7, <2>1, <2>3, <3>1, Added
  <2> QED BY <2>2, <2>3
<1> HIDE DEF lots, rest
<1>9. debts \in Seq(DebtRow) /\ DOMAIN debts = DOMAIN b.debts
  <2>1. DOMAIN b.debts = 1..Len(b.debts) /\ Len(b.debts) \in Nat
    BY BookIs, RowsOf
  <2>2. \A d \in DOMAIN b.debts : PaidDebt(b, s, except, d) \in DebtRow
    BY PaidDebtTyped
  <2>3. debts \in [1..Len(b.debts) -> DebtRow]
    BY <2>1, <2>2
  <2>4. debts \in Seq(DebtRow)
    BY <2>1, <2>3, RowsFrom
  <2> QED BY <2>4
<1>10. \A d \in DOMAIN b.debts : debts[d] = PaidDebt(b, s, except, d)
  OBVIOUS
<1> HIDE DEF debts, srcs, apps
<1>11. /\ c \in Books /\ c.sources = srcs /\ c.apps = apps /\ c.lots = lots /\ c.debts = debts
       /\ c.debits = b.debits /\ c.allocs = b.allocs /\ c.writeoffs = b.writeoffs /\ c.cache = b.cache
  <2> HIDE DEF c
  <2> QED BY <1>2, <1>4, <1>5, <1>8, <1>9 DEF Books
<1>12. Fresh(b, c) = DOMAIN apps \ DOMAIN b.apps
  BY <1>11 DEF Fresh
<1>13. /\ DOMAIN b.apps \subseteq DOMAIN apps /\ \A p \in DOMAIN b.apps : apps[p] = b.apps[p]
       /\ \A p \in Fresh(b, c) : IsFresh(b, s, except, apps[p])
       /\ \A p, q \in Fresh(b, c) : apps[p].debt = apps[q].debt => p = q
       /\ \A d \in PaidDebts(b, s, except) : \E p \in Fresh(b, c) : apps[p].debt = d
       /\ rest # 0 => \E p \in Fresh(b, c) : apps[p].debt = 0
  <2> DEFINE F == DOMAIN apps \ DOMAIN b.apps
  <2>1. /\ DOMAIN b.apps \subseteq DOMAIN apps /\ \A p \in DOMAIN b.apps : apps[p] = b.apps[p]
        /\ \A p \in F : IsFresh(b, s, except, apps[p])
        /\ \A p, q \in F : apps[p].debt = apps[q].debt => p = q
        /\ \A d \in PaidDebts(b, s, except) : \E p \in F : apps[p].debt = d
        /\ RestOf(b, s, except) # 0 => \E p \in F : apps[p].debt = 0
    <3>1. IsFreshPart(b, apps, s, except)
      BY AppsJoined DEF apps
    <3> QED BY <3>1 DEF IsFreshPart
  <2>2. Fresh(b, c) = F
    BY <1>12
  <2> HIDE DEF c, F
  <2> QED BY <2>1, <2>2 DEF rest
<1> HIDE DEF c
<1> QED
  BY <1>3, <1>4, <1>8, <1>9, <1>10, <1>11, <1>13 DEF Spread, c, rest, lot

-----------------------------------------------------------------------------
(* The cached balances *)

\* The cache agrees with the lots, but for one account.
CacheBut(b, a) == \A x \in Accounts \ {a} : b.cache[x] = Available(b, x)
CacheAgrees(b) == \A x \in Accounts : b.cache[x] = Available(b, x)

SameLots(b, c, a) ==
    /\ \A l \in DOMAIN b.lots : b.lots[l].account = a => l \in DOMAIN c.lots /\ c.lots[l] = b.lots[l]
    /\ \A l \in DOMAIN c.lots : c.lots[l].account = a => l \in DOMAIN b.lots /\ c.lots[l] = b.lots[l]

LEMMA AvailableIs ==
    ASSUME NEW b \in Books, NEW a
    PROVE  /\ Available(b, a) \in Int
           /\ (\A l \in DOMAIN b.lots : b.lots[l].available \in Nat) => Available(b, a) \in Nat
<1> DEFINE f == [l \in DOMAIN b.lots |-> b.lots[l].available]
           S == {l \in DOMAIN b.lots : b.lots[l].account = a /\ b.lots[l].state # "voided"}
<1>1. IsFiniteSet(S)
  BY TablesFinite, FS_Subset
<1>2. \A l \in S : f[l] \in Int /\ f[l] = b.lots[l].available
  BY RowsIn DEF LotRow
<1>3. Available(b, a) = SumFunctionOnSet(f, S)
  BY DEF Available
<1>4. (\A l \in DOMAIN b.lots : b.lots[l].available \in Nat) => \A l \in S : f[l] \in Nat
  BY <1>2
<1> HIDE DEF f, S
<1> QED BY <1>1, <1>2, <1>3, <1>4, SumOfNumbers

LEMMA AvailableStays ==
    ASSUME NEW b \in Books, NEW c \in Books, NEW a, SameLots(b, c, a)
    PROVE  Available(c, a) = Available(b, a)
<1> DEFINE f == [l \in DOMAIN b.lots |-> b.lots[l].available]
           g == [l \in DOMAIN c.lots |-> c.lots[l].available]
           S == {l \in DOMAIN b.lots : b.lots[l].account = a /\ b.lots[l].state # "voided"}
           T == {l \in DOMAIN c.lots : c.lots[l].account = a /\ c.lots[l].state # "voided"}
<1>1. IsFiniteSet(S)
  BY TablesFinite, FS_Subset
<1>2. S = T
  BY DEF SameLots
<1>3. \A l \in S : f[l] \in Int /\ g[l] \in Int /\ f[l] = g[l]
  <2> TAKE l \in S
  <2>1. l \in DOMAIN b.lots /\ l \in DOMAIN c.lots /\ c.lots[l] = b.lots[l]
    BY DEF SameLots
  <2>2. b.lots[l] \in LotRow
    BY <2>1, RowsIn
  <2> QED BY <2>1, <2>2 DEF LotRow
<1>4. Available(b, a) = SumFunctionOnSet(f, S) /\ Available(c, a) = SumFunctionOnSet(g, T)
  BY DEF Available
<1> HIDE DEF f, g, S, T
<1>5. SumFunctionOnSet(f, S) = SumFunctionOnSet(g, S)
  BY <1>1, <1>3, SumsCompare
<1> QED BY <1>2, <1>4, <1>5

\* The tables of two books are the same.
SameTables(b, c) ==
    /\ c.sources = b.sources /\ c.lots = b.lots /\ c.apps = b.apps /\ c.debts = b.debts
    /\ c.debits = b.debits /\ c.allocs = b.allocs /\ c.writeoffs = b.writeoffs

LEMMA CacheWritten ==
    ASSUME NEW b \in Books, NEW a \in Accounts
    PROVE  /\ WriteCache(b, a) \in Books /\ SameTables(b, WriteCache(b, a))
           /\ \A x : Available(WriteCache(b, a), x) = Available(b, x)
           /\ WriteCache(b, a).cache = [b.cache EXCEPT ![a] = Available(b, a)]
           /\ CacheBut(b, a) => CacheAgrees(WriteCache(b, a))
           /\ \A x : CacheBut(b, x) => CacheBut(WriteCache(b, a), x)
<1> DEFINE c == WriteCache(b, a)
           n == Available(b, a)
<1>1. n \in Int
  BY AvailableIs
<1>2. c = [b EXCEPT !.cache = [b.cache EXCEPT ![a] = n]]
  BY DEF WriteCache, Books
<1> HIDE DEF n, c
<1>3. [b.cache EXCEPT ![a] = n] \in [Accounts -> Int]
  BY <1>1, BookIs
<1>4. c \in Books /\ SameTables(b, c) /\ c.cache = [b.cache EXCEPT ![a] = n]
  BY <1>2, <1>3 DEF Books, SameTables
<1>5. \A x : Available(c, x) = Available(b, x)
  BY <1>4 DEF Available, SameTables
<1>6. b.cache \in [Accounts -> Int]
  BY BookIs
<1>7. \A x \in Accounts : c.cache[x] = IF x = a THEN Available(b, a) ELSE b.cache[x]
  BY <1>4, <1>6 DEF n
<1>8. CacheBut(b, a) => CacheAgrees(c)
  BY <1>5, <1>7, Zenon DEF CacheBut, CacheAgrees
<1>9. \A x : CacheBut(b, x) => CacheBut(c, x)
  BY <1>5, <1>7 DEF CacheBut
<1> QED BY <1>4, <1>5, <1>8, <1>9 DEF c, n

LEMMA TablesFit ==
    ASSUME NEW b \in Books, NEW c \in Books, SameTables(b, c)
    PROVE  /\ Fits(b) => Fits(c)
           /\ Keeps(b, c)
<1>1. Linked(b) => Linked(c)
  BY DEF SameTables, Linked
<1>2. Gone(b) => Gone(c)
  BY DEF SameTables, Gone, IsGone
<1>3. Blamed(b) => Blamed(c)
  BY DEF SameTables, Blamed, CauseOf
<1>4. Keeps(b, c)
  BY DEF SameTables, Keeps
<1> QED BY <1>1, <1>2, <1>3, <1>4 DEF Fits

-----------------------------------------------------------------------------
(* Distribution keeps the books *)

LEMMA SpreadKeeps ==
    ASSUME NEW b, Fits(b), NEW s \in DOMAIN b.sources, b.sources[s].state # "voided", NEW except,
           NEW c, Spread(b, c, s, except)
    PROVE  /\ Fits(c) /\ Keeps(b, c)
           /\ \A a : a # b.sources[s].account => SameLots(b, c, a)
<1> DEFINE rest == RestOf(b, s, except)
           new == Len(b.lots) + 1
<1>1. b \in Books /\ c \in Books /\ s \in Nat /\ s # 0 /\ b.sources[s].account \in Accounts
  <2>1. b \in Books
    BY DEF Fits
  <2>2. c \in Books
    BY DEF Spread
  <2>3. b.sources[s] \in SourceRow /\ s \in Nat /\ s > 0
    BY <2>1, RowsIn
  <2> QED BY <2>1, <2>2, <2>3 DEF SourceRow
<1>2. /\ DOMAIN c.sources = DOMAIN b.sources
      /\ \A t \in DOMAIN b.sources : t # s => c.sources[t] = b.sources[t]
      /\ c.sources[s].account = b.sources[s].account /\ c.sources[s].cause = b.sources[s].cause
      /\ c.sources[s].gross = b.sources[s].gross /\ c.sources[s].state = "applied"
  BY DEF Spread
<1>3. /\ \A l \in DOMAIN b.lots : l \in DOMAIN c.lots /\ c.lots[l] = b.lots[l]
      /\ \A l \in DOMAIN c.lots : \/ l \in DOMAIN b.lots
                                 \/ c.lots[l] = NewLot(b.sources[s].account, s, rest)
  <2>1. CASE rest = 0
    BY <2>1 DEF Spread
  <2>2. CASE rest # 0
    BY <2>2 DEF Spread
  <2> QED BY <2>1, <2>2
<1>4. /\ \A p \in DOMAIN b.apps : p \in DOMAIN c.apps /\ c.apps[p] = b.apps[p]
      /\ \A p \in DOMAIN c.apps : p \in DOMAIN b.apps \/ c.apps[p].source = s
  <2>1. DOMAIN b.apps \subseteq DOMAIN c.apps /\ \A p \in DOMAIN b.apps : c.apps[p] = b.apps[p]
    BY DEF Spread
  <2>2. \A p \in DOMAIN c.apps \ DOMAIN b.apps : c.apps[p].source = s
    BY DEF Spread, Fresh, IsFresh
  <2> QED BY <2>1, <2>2
<1>5. /\ DOMAIN c.debts = DOMAIN b.debts
      /\ \A d \in DOMAIN b.debts : c.debts[d].lot = b.debts[d].lot /\ c.debts[d].identity = b.debts[d].identity
  <2>1. DOMAIN c.debts = DOMAIN b.debts /\ \A d \in DOMAIN b.debts : c.debts[d] = PaidDebt(b, s, except, d)
    BY DEF Spread
  <2>2. \A d \in DOMAIN b.debts : /\ PaidDebt(b, s, except, d).lot = b.debts[d].lot
                                /\ PaidDebt(b, s, except, d).identity = b.debts[d].identity
    BY <1>1, PaidDebtTyped
  <2> QED BY <2>1, <2>2
<1>6. c.debits = b.debits /\ c.allocs = b.allocs /\ c.writeoffs = b.writeoffs /\ c.cache = b.cache
  BY DEF Spread
<1> DEFINE lot == NewLot(b.sources[s].account, s, rest)
<1>7. /\ lot.source = s /\ lot.account = b.sources[s].account /\ lot.state = "active" /\ lot.state # "voided"
  BY DEF NewLot
<1> HIDE DEF lot, rest
<1>8. \A l \in DOMAIN c.lots : l \in DOMAIN b.lots \/ c.lots[l] = lot
  BY <1>3 DEF lot
<1>9. \A t \in DOMAIN b.sources : /\ c.sources[t].account = b.sources[t].account
                                /\ c.sources[t].cause = b.sources[t].cause /\ c.sources[t].gross = b.sources[t].gross
                                /\ (c.sources[t].state = "voided" <=> b.sources[t].state = "voided")
  <2> TAKE t \in DOMAIN b.sources
  <2>1. CASE t = s
    BY <1>2, <2>1
  <2>2. CASE t # s
    BY <1>2, <2>2
  <2> QED BY <2>1, <2>2
<1>10. Linked(c)
  <2>1. ASSUME NEW l \in DOMAIN c.lots, c.lots[l].source # 0
        PROVE  c.lots[l].source \in DOMAIN c.sources /\ c.lots[l].account = c.sources[c.lots[l].source].account
    <3>1. CASE l \in DOMAIN b.lots
      <4>1. c.lots[l] = b.lots[l]
        BY <1>3, <3>1
      <4>2. b.lots[l].source \in DOMAIN b.sources /\ b.lots[l].account = b.sources[b.lots[l].source].account
        BY <2>1, <3>1, <4>1 DEF Fits, Linked
      <4> QED BY <1>2, <1>9, <4>1, <4>2
    <3>2. CASE c.lots[l] = lot
      BY <1>2, <1>7, <3>2
    <3> QED BY <1>8, <3>1, <3>2
  <2>2. \A p \in DOMAIN c.apps : c.apps[p].source \in DOMAIN c.sources
    BY <1>2, <1>4 DEF Fits, Linked
  <2>3. \A d \in DOMAIN c.debts : c.debts[d].lot \in DOMAIN c.lots /\ c.lots[c.debts[d].lot].source \in DOMAIN c.sources
    BY <1>2, <1>3, <1>5 DEF Fits, Linked
  <2>4. \A al \in DOMAIN c.allocs : /\ c.allocs[al].debit \in DOMAIN c.debits /\ c.allocs[al].lot \in DOMAIN c.lots
                                  /\ c.lots[c.allocs[al].lot].account = c.debits[c.allocs[al].debit].account
    BY <1>3, <1>6 DEF Fits, Linked
  <2> QED BY <2>1, <2>2, <2>3, <2>4 DEF Linked
<1>11. Gone(c)
  <2>1. \A t : IsGone(c, t) => IsGone(b, t) /\ t # s
    BY <1>2, <1>9 DEF IsGone
  <2>2. \A l \in DOMAIN c.lots : c.lots[l].state = "voided" => c.lots[l].available = 0
    BY <1>3, <1>7, <1>8 DEF Fits, Gone
  <2>3. \A l \in DOMAIN c.lots : IsGone(c, c.lots[l].source) => c.lots[l].state = "voided"
    BY <1>3, <1>7, <1>8, <2>1 DEF Fits, Gone
  <2>4. \A p \in DOMAIN c.apps : IsGone(c, c.apps[p].source) /\ c.apps[p].debt # 0 => Effective(c.apps[p]) = 0
    BY <1>4, <2>1 DEF Fits, Gone
  <2> QED BY <2>2, <2>3, <2>4 DEF Gone
<1>12. Blamed(c)
  <2> SUFFICES ASSUME NEW d \in DOMAIN c.debts
               PROVE  LET cause == CauseOf(c, c.debts[d].lot)
                      IN  /\ cause \in Approvals /\ voids[cause] # "completed"
                          /\ c.debts[d].identity = voidedAs[cause]
    BY DEF Blamed
  <2>1. d \in DOMAIN b.debts /\ c.debts[d].lot = b.debts[d].lot /\ c.debts[d].identity = b.debts[d].identity
    BY <1>5
  <2>2. b.debts[d].lot \in DOMAIN b.lots /\ b.lots[b.debts[d].lot].source \in DOMAIN b.sources
    BY <2>1 DEF Fits, Linked
  <2>3. CauseOf(c, c.debts[d].lot) = CauseOf(b, b.debts[d].lot)
    BY ZenonT(60), <1>3, <1>9, <2>1, <2>2 DEF CauseOf
  <2> QED BY <2>1, <2>3 DEF Fits, Blamed
<1>13. Keeps(b, c)
  <2>1. \A l \in DOMAIN b.lots : /\ l \in DOMAIN c.lots /\ c.lots[l].account = b.lots[l].account
                                /\ c.lots[l].source = b.lots[l].source
                                /\ (c.lots[l].state = "voided" <=> b.lots[l].state = "voided")
    BY <1>3
  <2>2. \A p \in DOMAIN b.apps : /\ p \in DOMAIN c.apps /\ c.apps[p].source = b.apps[p].source
                                /\ c.apps[p].debt = b.apps[p].debt
    BY <1>4
  <2> QED BY <1>2, <1>5, <1>6, <1>9, <2>1, <2>2 DEF Keeps
<1>14. \A a : a # b.sources[s].account => SameLots(b, c, a)
  BY <1>3, <1>7, <1>8 DEF SameLots
<1> QED BY <1>1, <1>10, <1>11, <1>12, <1>13, <1>14 DEF Fits

-----------------------------------------------------------------------------
(* One row at a time *)

LEMMA RowSet ==
    ASSUME NEW R, NEW q \in Seq(R), NEW k \in DOMAIN q, NEW x \in R, NEW r, r = [q EXCEPT ![k] = x]
    PROVE  /\ r \in Seq(R) /\ DOMAIN r = DOMAIN q /\ r[k] = x
           /\ \A j \in DOMAIN q : j # k => r[j] = q[j]
<1>1. q \in [1..Len(q) -> R] /\ Len(q) \in Nat /\ DOMAIN q = 1..Len(q)
  BY RowsOf
<1>2. r \in [1..Len(q) -> R] /\ DOMAIN r = DOMAIN q
  BY <1>1
<1>3. r \in Seq(R)
  BY <1>1, <1>2, RowsFrom
<1> QED BY <1>2, <1>3

LEMMA RowsSet ==
    ASSUME NEW R, NEW q \in Seq(R), NEW r, DOMAIN r = DOMAIN q, r = [k \in DOMAIN q |-> r[k]],
           \A k \in DOMAIN q : r[k] \in R
    PROVE  r \in Seq(R)
<1>1. Len(q) \in Nat /\ DOMAIN q = 1..Len(q)
  BY RowsOf
<1>2. r \in [1..Len(q) -> R]
  BY <1>1
<1> QED BY <1>1, <1>2, RowsFrom

\* A source that waits to be distributed, or was.
LEMMA SourceKeeps ==
    ASSUME NEW b, Fits(b), NEW s \in DOMAIN b.sources, b.sources[s].state # "voided", NEW src \in SourceRow,
           src.account = b.sources[s].account, src.cause = b.sources[s].cause, src.gross = b.sources[s].gross,
           src.state # "voided", NEW c, c = [b EXCEPT !.sources[s] = src]
    PROVE  /\ Fits(c) /\ Keeps(b, c) /\ c.cache = b.cache /\ c.lots = b.lots /\ c.apps = b.apps /\ c.debts = b.debts
           /\ c.sources[s] = src /\ (\A t \in DOMAIN b.sources : t # s => c.sources[t] = b.sources[t])
           /\ c.allocs = b.allocs /\ c.debits = b.debits /\ c.writeoffs = b.writeoffs
<1>1. b \in Books
  BY DEF Fits
<1> DEFINE srcs == [b.sources EXCEPT ![s] = src]
<1>2. /\ srcs \in Seq(SourceRow) /\ DOMAIN srcs = DOMAIN b.sources /\ srcs[s] = src
      /\ \A t \in DOMAIN b.sources : t # s => srcs[t] = b.sources[t]
  <2>1. b.sources \in Seq(SourceRow)
    BY <1>1, BookIs
  <2> QED BY <2>1, RowSet
<1>3. c = [b EXCEPT !.sources = srcs]
  BY <1>1 DEF Books
<1> HIDE DEF srcs
<1>4. /\ c \in Books /\ c.sources = srcs /\ c.lots = b.lots /\ c.apps = b.apps /\ c.debts = b.debts
      /\ c.debits = b.debits /\ c.allocs = b.allocs /\ c.writeoffs = b.writeoffs /\ c.cache = b.cache
  BY <1>1, <1>2, <1>3 DEF Books
<1>5. /\ DOMAIN c.sources = DOMAIN b.sources
      /\ \A t \in DOMAIN b.sources :
            /\ c.sources[t].account = b.sources[t].account
            /\ c.sources[t].cause = b.sources[t].cause /\ c.sources[t].gross = b.sources[t].gross
            /\ (c.sources[t].state = "voided" <=> b.sources[t].state = "voided")
  BY <1>2, <1>4
<1>6. Linked(c)
  <2>1. \A l \in DOMAIN b.lots : b.lots[l].source # 0 =>
          b.lots[l].source \in DOMAIN c.sources /\ b.lots[l].account = c.sources[b.lots[l].source].account
    BY <1>5 DEF Fits, Linked
  <2>2. \A d \in DOMAIN b.debts : b.debts[d].lot \in DOMAIN b.lots /\ b.lots[b.debts[d].lot].source \in DOMAIN c.sources
    BY <1>5 DEF Fits, Linked
  <2> QED BY <1>4, <1>5, <2>1, <2>2 DEF Fits, Linked
<1>7. Gone(c)
  <2>1. \A t : IsGone(c, t) => IsGone(b, t)
    BY <1>5 DEF IsGone
  <2> QED BY <1>4, <2>1 DEF Fits, Gone
<1>8. Blamed(c)
  <2>1. \A d \in DOMAIN b.debts : b.lots[b.debts[d].lot].source \in DOMAIN b.sources
    BY DEF Fits, Linked
  <2>2. \A d \in DOMAIN b.debts : CauseOf(c, b.debts[d].lot) = CauseOf(b, b.debts[d].lot)
    BY ZenonT(60), <1>4, <1>5, <2>1 DEF CauseOf
  <2> QED BY <1>4, <2>2 DEF Fits, Blamed
<1>9. Keeps(b, c)
  BY <1>4, <1>5 DEF Keeps
<1> QED BY <1>2, <1>4, <1>6, <1>7, <1>8, <1>9 DEF Fits

LEMMA SourceFreed ==
    ASSUME NEW row \in SourceRow, NEW amount \in Int, NEW src,
           src = [row EXCEPT !.unapplied = @ + amount, !.state = "applying"]
    PROVE  /\ src \in SourceRow /\ src.account = row.account /\ src.cause = row.cause
           /\ src.gross = row.gross /\ src.state = "applying" /\ src.unapplied = row.unapplied + amount
<1>1. PICK z \in Int : z = row.unapplied + amount
  BY DEF SourceRow
<1>2. PICK state \in {"applying", "applied", "voided"} : state = "applying"
  OBVIOUS
<1>3. src = [row EXCEPT !.unapplied = z, !.state = state]
  BY <1>1, <1>2
<1>4. /\ src \in SourceRow /\ src.account = row.account /\ src.cause = row.cause
      /\ src.gross = row.gross /\ src.state = state /\ src.unapplied = z
  BY <1>3 DEF SourceRow
<1> QED BY <1>1, <1>2, <1>4

-----------------------------------------------------------------------------
(* Distribution again, of what an application frees *)

LEMMA ReapplyKeeps ==
    ASSUME NEW b, Fits(b), NEW p \in DOMAIN b.apps, b.sources[b.apps[p].source].state # "voided",
           NEW amount \in Int, NEW debt, NEW rev \in Nat
    PROVE  LET c == Reapply(b, p, amount, debt, rev)
           IN  Fits(c) /\ Keeps(b, c) /\ \A x : CacheBut(b, x) => CacheBut(c, x)
<1> DEFINE s == b.apps[p].source
           a == b.sources[s].account
           src == Freed(b.sources[s], amount)
           freed == [b EXCEPT !.sources[s] = src]
           e == Distribute(freed, s, debt, rev)
           c == WriteCache(e, a)
<1>1. b \in Books /\ s \in DOMAIN b.sources /\ b.sources[s] \in SourceRow /\ a \in Accounts
  <2>1. b \in Books /\ s \in DOMAIN b.sources
    BY DEF Fits, Linked
  <2>2. b.sources[s] \in SourceRow
    BY <2>1, RowsIn
  <2> QED BY <2>1, <2>2 DEF SourceRow
<1>2. /\ src \in SourceRow /\ src.account = b.sources[s].account /\ src.cause = b.sources[s].cause
      /\ src.gross = b.sources[s].gross /\ src.state = "applying"
  <2>1. PICK row \in SourceRow : row = b.sources[s]
    BY <1>1
  <2>2. src = [row EXCEPT !.unapplied = @ + amount, !.state = "applying"]
    BY <2>1 DEF Freed
  <2> HIDE DEF src
  <2>3. /\ src \in SourceRow /\ src.account = row.account /\ src.cause = row.cause
        /\ src.gross = row.gross /\ src.state = "applying"
    BY ZenonT(60), <2>2, SourceFreed
  <2> QED BY <2>1, <2>3
<1>3. freed = [b EXCEPT !.sources[s] = src]
  OBVIOUS
<1> HIDE DEF src, freed
<1>4. /\ Fits(freed) /\ Keeps(b, freed) /\ freed.cache = b.cache /\ freed.lots = b.lots
      /\ freed.sources[s] = src
  BY <1>1, <1>2, <1>3, SourceKeeps
<1>5. s \in DOMAIN freed.sources /\ freed.sources[s].state # "voided" /\ freed.sources[s].account = a
  BY <1>1, <1>2, <1>4 DEF Keeps
<1> HIDE DEF s, a
<1>6. Spread(freed, e, s, debt)
  BY <1>4, <1>5, DistributeSpreads DEF Fits
<1> HIDE DEF e
<1>7. Fits(e) /\ Keeps(freed, e) /\ \A x : x # a => SameLots(freed, e, x)
  BY <1>4, <1>5, <1>6, SpreadKeeps
<1>8. e \in Books /\ freed \in Books /\ e.cache = b.cache
  BY <1>4, <1>6, <1>7 DEF Fits, Spread
<1>9. \A x : x # a => Available(e, x) = Available(b, x)
  <2> TAKE x
  <2> SUFFICES ASSUME x # a PROVE Available(e, x) = Available(b, x)
    OBVIOUS
  <2>1. SameLots(freed, e, x)
    BY <1>7
  <2>2. Available(e, x) = Available(freed, x)
    BY <1>8, <2>1, AvailableStays
  <2>3. Available(freed, x) = Available(b, x)
    BY <1>4 DEF Available
  <2> QED BY <2>2, <2>3
<1>10. /\ c \in Books /\ SameTables(e, c) /\ \A x : Available(c, x) = Available(e, x)
       /\ c.cache = [e.cache EXCEPT ![a] = Available(e, a)]
  BY <1>1, <1>8, CacheWritten
<1> HIDE DEF c
<1>11. Fits(c) /\ Keeps(b, c)
  <2>1. Fits(c) /\ Keeps(e, c)
    BY <1>7, <1>8, <1>10, TablesFit
  <2>2. Keeps(b, e)
    BY <1>4, <1>7, KeepsOn
  <2> QED BY <2>1, <2>2, KeepsOn
<1>12. ASSUME NEW x, CacheBut(b, x) PROVE CacheBut(c, x)
  <2> SUFFICES ASSUME NEW y \in Accounts \ {x} PROVE c.cache[y] = Available(c, y)
    BY DEF CacheBut
  <2>1. b.cache \in [Accounts -> Int]
    BY <1>1, BookIs
  <2>2. b.cache[y] = Available(b, y)
    BY <1>12 DEF CacheBut
  <2>3. CASE y = a
    BY <1>8, <1>10, <2>1, <2>3
  <2>4. CASE y # a
    BY <1>8, <1>9, <1>10, <2>1, <2>2, <2>4
  <2> QED BY <2>3, <2>4
<1>13. c = Reapply(b, p, amount, debt, rev)
  BY DEF Reapply, c, e, freed, src, s, a
<1> QED BY <1>11, <1>12, <1>13

-----------------------------------------------------------------------------
(* Lots that are taken from and given back to *)

LotMoves(old, new) ==
    /\ new.account = old.account /\ new.source = old.source
    /\ new = old \/ (new.state # "voided" /\ old.state # "voided")

AllocsLinked(b) ==
    \A al \in DOMAIN b.allocs : /\ b.allocs[al].debit \in DOMAIN b.debits /\ b.allocs[al].lot \in DOMAIN b.lots
                                /\ b.lots[b.allocs[al].lot].account = b.debits[b.allocs[al].debit].account

LEMMA LotsMove ==
    ASSUME NEW b, Fits(b), NEW c \in Books, c.sources = b.sources, c.apps = b.apps, c.debts = b.debts,
           DOMAIN c.lots = DOMAIN b.lots, \A l \in DOMAIN b.lots : LotMoves(b.lots[l], c.lots[l]),
           AllocsLinked(c)
    PROVE  Fits(c)
<1>1. \A l \in DOMAIN b.lots : c.lots[l].account = b.lots[l].account /\ c.lots[l].source = b.lots[l].source
  BY DEF LotMoves
<1>2. Linked(c)
  BY <1>1 DEF Fits, Linked, AllocsLinked
<1>3. Gone(c)
  <2>1. ASSUME NEW l \in DOMAIN c.lots, c.lots[l].state = "voided" PROVE c.lots[l].available = 0
    <3>1. c.lots[l] = b.lots[l]
      BY <2>1 DEF LotMoves
    <3> QED BY <2>1, <3>1 DEF Fits, Gone
  <2>2. ASSUME NEW l \in DOMAIN c.lots, IsGone(c, c.lots[l].source) PROVE c.lots[l].state = "voided"
    <3>1. IsGone(b, b.lots[l].source)
      BY <1>1, <2>2 DEF IsGone
    <3>2. b.lots[l].state = "voided"
      BY <3>1 DEF Fits, Gone
    <3> QED BY <3>2 DEF LotMoves
  <2>3. \A p \in DOMAIN c.apps : IsGone(c, c.apps[p].source) /\ c.apps[p].debt # 0 => Effective(c.apps[p]) = 0
    BY DEF Fits, Gone, IsGone
  <2> QED BY <2>1, <2>2, <2>3 DEF Gone
<1>4. Blamed(c)
  <2>1. \A d \in DOMAIN b.debts : b.debts[d].lot \in DOMAIN b.lots
    BY DEF Fits, Linked
  <2>2. \A d \in DOMAIN b.debts : CauseOf(c, b.debts[d].lot) = CauseOf(b, b.debts[d].lot)
    BY <1>1, <2>1 DEF CauseOf
  <2> QED BY <2>2 DEF Fits, Blamed
<1> QED BY <1>2, <1>3, <1>4 DEF Fits

LEMMA LotSet ==
    ASSUME NEW row \in LotRow, NEW x \in Int, NEW y \in Int, NEW state \in {"active", "exhausted", "voided"},
           NEW lot, lot = [row EXCEPT !.available = x, !.consumed = y, !.state = state]
    PROVE  /\ lot \in LotRow /\ lot.account = row.account /\ lot.source = row.source /\ lot.original = row.original
           /\ lot.withheld = row.withheld /\ lot.available = x /\ lot.consumed = y /\ lot.state = state
BY DEF LotRow

LEMMA AllocSet ==
    ASSUME NEW row \in AllocRow, NEW reversal \in {"none", "live", "voided"},
           NEW al, al = [row EXCEPT !.reversal = reversal]
    PROVE  /\ al \in AllocRow /\ al.debit = row.debit /\ al.lot = row.lot /\ al.amount = row.amount
           /\ al.reversal = reversal
BY DEF AllocRow

\* The same allocation, reversed.
LEMMA ReversalNoted ==
    ASSUME NEW b, Fits(b), NEW al \in DOMAIN b.allocs, NEW reversal \in {"none", "live", "voided"},
           NEW c, c = [b EXCEPT !.allocs[al].reversal = reversal]
    PROVE  /\ Fits(c) /\ Keeps(b, c)
           /\ c.sources = b.sources /\ c.lots = b.lots /\ c.apps = b.apps /\ c.debts = b.debts
           /\ c.debits = b.debits /\ c.writeoffs = b.writeoffs /\ c.cache = b.cache
           /\ DOMAIN c.allocs = DOMAIN b.allocs /\ c.allocs[al].reversal = reversal
           /\ \A k \in DOMAIN b.allocs : k # al => c.allocs[k] = b.allocs[k]
<1>1. b \in Books
  BY DEF Fits
<1>2. PICK row \in AllocRow : row = b.allocs[al]
  BY <1>1, RowsIn
<1> DEFINE new == [row EXCEPT !.reversal = reversal]
           als == [b.allocs EXCEPT ![al] = new]
<1>3. /\ new \in AllocRow /\ new.debit = row.debit /\ new.lot = row.lot /\ new.amount = row.amount
      /\ new.reversal = reversal
  BY AllocSet
<1>4. als = [b.allocs EXCEPT ![al].reversal = reversal]
  BY <1>2
<1> HIDE DEF new
<1>5. /\ als \in Seq(AllocRow) /\ DOMAIN als = DOMAIN b.allocs /\ als[al] = new
      /\ \A k \in DOMAIN b.allocs : k # al => als[k] = b.allocs[k]
  <2>1. b.allocs \in Seq(AllocRow)
    BY <1>1, BookIs
  <2> QED BY <1>3, <2>1, RowSet
<1>6. c = [b EXCEPT !.allocs = als]
  BY <1>1, <1>4 DEF Books
<1> HIDE DEF als
<1>7. /\ c \in Books /\ c.allocs = als
      /\ c.sources = b.sources /\ c.lots = b.lots /\ c.apps = b.apps /\ c.debts = b.debts
      /\ c.debits = b.debits /\ c.writeoffs = b.writeoffs /\ c.cache = b.cache
  BY <1>1, <1>5, <1>6 DEF Books
<1>8. \A k \in DOMAIN b.allocs : /\ c.allocs[k].debit = b.allocs[k].debit /\ c.allocs[k].lot = b.allocs[k].lot
                                 /\ c.allocs[k].amount = b.allocs[k].amount
  <2> TAKE k \in DOMAIN b.allocs
  <2>1. CASE k = al
    BY <1>2, <1>3, <1>5, <1>7, <2>1
  <2>2. CASE k # al
    BY <1>5, <1>7, <2>2
  <2> QED BY <2>1, <2>2
<1>9. AllocsLinked(c)
  BY <1>5, <1>7, <1>8 DEF Fits, Linked, AllocsLinked
<1>10. Fits(c)
  <2>1. \A l \in DOMAIN b.lots : LotMoves(b.lots[l], c.lots[l])
    BY <1>7 DEF LotMoves
  <2> QED BY <1>7, <1>9, <2>1, LotsMove
<1>11. Keeps(b, c)
  BY <1>5, <1>7, <1>8 DEF Keeps
<1> QED BY <1>3, <1>5, <1>7, <1>10, <1>11

\* R1.
LEMMA GiveBackKeeps ==
    ASSUME NEW b, Fits(b), NEW al \in DOMAIN b.allocs, b.lots[b.allocs[al].lot].state # "voided"
    PROVE  LET c == GiveBack(b, al)
           IN  /\ Fits(c) /\ Keeps(b, c) /\ c.cache = b.cache
               /\ \A a : a # b.lots[b.allocs[al].lot].account => SameLots(b, c, a)
<1> DEFINE l == b.allocs[al].lot
           x == b.allocs[al].amount
           c == GiveBack(b, al)
           noted == [b EXCEPT !.allocs[al].reversal = "live"]
<1>1. b \in Books /\ l \in DOMAIN b.lots /\ x \in Nat
  <2>1. b \in Books /\ l \in DOMAIN b.lots
    BY DEF Fits, Linked
  <2>2. b.allocs[al] \in AllocRow
    BY <2>1, RowsIn
  <2> QED BY <2>1, <2>2 DEF AllocRow
<1>2. PICK row \in LotRow : row = b.lots[l]
  BY <1>1, RowsIn
<1> DEFINE new == [row EXCEPT !.available = row.available + x, !.consumed = row.consumed - x, !.state = "active"]
           lots == [b.lots EXCEPT ![l] = new]
<1>3. /\ new \in LotRow /\ new.account = row.account /\ new.source = row.source /\ new.state = "active"
  <2>1. row.available + x \in Int /\ row.consumed - x \in Int
    BY <1>1 DEF LotRow
  <2>2. PICK state \in {"active", "exhausted", "voided"} : state = "active"
    OBVIOUS
  <2> HIDE DEF x
  <2>3. PICK u \in Int : u = row.available + x
    BY <2>1
  <2>4. PICK v \in Int : v = row.consumed - x
    BY <2>1
  <2>5. new = [row EXCEPT !.available = u, !.consumed = v, !.state = state]
    BY <2>2, <2>3, <2>4
  <2> HIDE DEF new
  <2>6. /\ new \in LotRow /\ new.account = row.account /\ new.source = row.source /\ new.state = state
    BY <2>5 DEF LotRow
  <2> QED BY <2>2, <2>6
<1>4. /\ Fits(noted) /\ Keeps(b, noted)
      /\ noted.sources = b.sources /\ noted.lots = b.lots /\ noted.apps = b.apps /\ noted.debts = b.debts
      /\ noted.debits = b.debits /\ noted.writeoffs = b.writeoffs /\ noted.cache = b.cache
      /\ DOMAIN noted.allocs = DOMAIN b.allocs
  <2>1. PICK reversal \in {"none", "live", "voided"} : reversal = "live"
    OBVIOUS
  <2>2. noted = [b EXCEPT !.allocs[al].reversal = reversal]
    BY <2>1
  <2> HIDE DEF noted
  <2> QED BY <2>2, ReversalNoted
<1>5. c = [noted EXCEPT !.lots = lots]
  <2>1. c = [b EXCEPT !.allocs[al].reversal = "live",
                      !.lots[l] = [b.lots[l] EXCEPT !.available = b.lots[l].available + x,
                                                    !.consumed = b.lots[l].consumed - x, !.state = "active"]]
    BY DEF GiveBack
  <2>2. [b.lots[l] EXCEPT !.available = b.lots[l].available + x,
                          !.consumed = b.lots[l].consumed - x, !.state = "active"] = new
    BY <1>2
  <2> HIDE DEF c, new, l, x
  <2>3. c = [b EXCEPT !.allocs[al].reversal = "live", !.lots[l] = new]
    BY <2>1, <2>2
  <2> QED BY <1>1, <2>3 DEF Books
<1> HIDE DEF new, c, noted
<1>6. /\ lots \in Seq(LotRow) /\ DOMAIN lots = DOMAIN b.lots /\ lots[l] = new
      /\ \A k \in DOMAIN b.lots : k # l => lots[k] = b.lots[k]
  <2>1. b.lots \in Seq(LotRow)
    BY <1>1, BookIs
  <2> HIDE DEF l
  <2> QED BY <1>1, <1>3, <2>1, RowSet
<1> HIDE DEF lots, l
<1>7. noted \in Books
  BY <1>4 DEF Fits
<1>8. /\ c \in Books /\ c.lots = lots /\ c.allocs = noted.allocs
      /\ c.sources = b.sources /\ c.apps = b.apps /\ c.debts = b.debts
      /\ c.debits = b.debits /\ c.writeoffs = b.writeoffs /\ c.cache = b.cache
  BY <1>4, <1>5, <1>6, <1>7 DEF Books
<1>9. \A k \in DOMAIN b.lots : LotMoves(b.lots[k], c.lots[k])
  <2> TAKE k \in DOMAIN b.lots
  <2>1. CASE k = l
    BY <1>2, <1>3, <1>6, <1>8, <2>1 DEF LotMoves, l
  <2>2. CASE k # l
    BY <1>6, <1>8, <2>2 DEF LotMoves
  <2> QED BY <2>1, <2>2
<1>10. AllocsLinked(c)
  <2>1. AllocsLinked(noted)
    BY <1>4 DEF Fits, Linked, AllocsLinked
  <2>2. \A k \in DOMAIN b.lots : k \in DOMAIN c.lots /\ c.lots[k].account = b.lots[k].account
    BY <1>6, <1>8, <1>9 DEF LotMoves
  <2> QED BY <1>4, <1>8, <2>1, <2>2 DEF AllocsLinked
<1>11. Fits(c)
  BY <1>4, <1>6, <1>8, <1>9, <1>10, LotsMove
<1>12. Keeps(b, c)
  <2>1. \A k \in DOMAIN b.lots : /\ k \in DOMAIN c.lots /\ c.lots[k].account = b.lots[k].account
                                /\ c.lots[k].source = b.lots[k].source
                                /\ (c.lots[k].state = "voided" <=> b.lots[k].state = "voided")
    BY <1>6, <1>8, <1>9 DEF LotMoves
  <2>2. /\ DOMAIN c.allocs = DOMAIN b.allocs
        /\ \A k \in DOMAIN b.allocs : /\ c.allocs[k].debit = b.allocs[k].debit /\ c.allocs[k].lot = b.allocs[k].lot
                                      /\ c.allocs[k].amount = b.allocs[k].amount
    BY <1>4, <1>8 DEF Keeps
  <2> QED BY <1>8, <2>1, <2>2 DEF Keeps
<1>13. \A a : a # b.lots[l].account => SameLots(b, c, a)
  <2> SUFFICES ASSUME NEW a, a # b.lots[l].account PROVE SameLots(b, c, a)
    OBVIOUS
  <2>1. c.lots[l].account = b.lots[l].account
    BY <1>1, <1>9 DEF LotMoves
  <2> QED BY <1>6, <1>8, <2>1 DEF SameLots
<1> QED BY <1>8, <1>11, <1>12, <1>13 DEF c, l

-----------------------------------------------------------------------------
(* One row after the other: where each step stays, all of them do *)

ReversedAll(b, als) == Each(ReverseAllocation, b, Max, als)
VoidedAll(b, ss, who) ==
    Each(LAMBDA c, s : IF c.sources[s].state = "voided" THEN c ELSE VoidSource(c, s, who), b, Max, ss)

LEMMA EachReapplied ==
    ASSUME NEW n \in Nat, NEW S \in SUBSET (1..n), NEW B, NEW b \in B, NEW freed, NEW d, NEW al,
           \A k \in S, c \in B : Reapply(c, k, freed[k], d, al) \in B
    PROVE  /\ Reapplied(b, S, freed, d, al) \in B
           /\ \E it : /\ Reapplied(b, S, freed, d, al) = it[S] /\ it[{}] = b
                      /\ \A T \in SUBSET S : it[T] \in B
                      /\ \A T \in SUBSET S : T # {} => it[T] = Reapply(it[T \ {Min(T)}], Min(T), freed[Min(T)], d, al)
<1> DEFINE ch == [T \in SUBSET S |-> Min(T)]
           step == [k \in S |-> [c \in B |-> Reapply(c, k, freed[k], d, al)]]
           Op(x, T, g) == Reapply(g[T \ {x}], x, freed[x], d, al)
           Is(g) == g = [T \in SUBSET S |-> IF T = {} THEN b ELSE Op(Min(T), T, g)]
           it == CHOOSE g : Is(g)
<1>1. IsFiniteSet(S)
  BY FinitePart
<1>2. \A T \in SUBSET S : T # {} => ch[T] \in T /\ ch[T] = Min(T)
  <2> TAKE T \in SUBSET S
  <2>1. T \in SUBSET (1..n)
    OBVIOUS
  <2> QED BY <2>1, MinOf
<1>3. step \in [S -> [B -> B]] /\ \A k \in S, c \in B : step[k][c] = Reapply(c, k, freed[k], d, al)
  OBVIOUS
<1>4. ASSUME NEW g, NEW T \in SUBSET S, T # {}, g[T \ {ch[T]}] \in B
      PROVE  Op(Min(T), T, g) = step[ch[T]][g[T \ {ch[T]}]]
  <2>1. ch[T] \in S /\ ch[T] = Min(T)
    BY <1>2, <1>4
  <2> HIDE DEF ch, step
  <2> QED BY <1>3, <1>4, <2>1
<1> HIDE DEF ch, step
<1>5. \E g : Is(g)
  <2>1. PICK g \in [SUBSET S -> B] : IsFolder(step, b, ch, g, S)
    BY <1>1, <1>2, <1>3, FolderExists
  <2>2. ASSUME NEW T \in SUBSET S PROVE g[T] = IF T = {} THEN b ELSE Op(Min(T), T, g)
    <3>1. g[T] = Folds(step, b, ch, g, T)
      BY <2>1 DEF IsFolder
    <3>2. T \ {ch[T]} \in SUBSET S
      OBVIOUS
    <3>3. g[T \ {ch[T]}] \in B
      BY <2>1, <3>2
    <3>4. T # {} => Op(Min(T), T, g) = step[ch[T]][g[T \ {ch[T]}]]
      BY <1>4, <3>3
    <3> HIDE DEF Op
    <3> QED BY <3>1, <3>4 DEF Folds
  <2>3. Is(g)
    <3> HIDE DEF Op
    <3> QED BY <2>1, <2>2
  <2> QED BY <2>3
<1>6. Is(it)
  <2> HIDE DEF Is
  <2> QED BY <1>5
<1>7. Reapplied(b, S, freed, d, al) = it[S]
  BY DEF Reapplied, Each, MapThenFoldSet
<1> DEFINE G == {T \in SUBSET S : it[T] \in B}
<1>8. ASSUME NEW T \in SUBSET S, \A U \in SUBSET T : U # T => U \in G PROVE T \in G
  <2>1. it[T] = IF T = {} THEN b ELSE Op(Min(T), T, it)
    <3> HIDE DEF Op, it
    <3> QED BY <1>6
  <2>2. CASE T = {}
    BY <2>1, <2>2
  <2>3. CASE T # {}
    <3>1. ch[T] \in T /\ ch[T] = Min(T) /\ ch[T] \in S
      BY <1>2, <2>3
    <3>2. T \ {ch[T]} \in SUBSET T /\ T \ {ch[T]} # T
      BY <3>1
    <3> HIDE DEF it
    <3>3. it[T \ {ch[T]}] \in B
      BY <1>8, <3>2
    <3>4. Op(ch[T], T, it) \in B
      BY <3>1, <3>3
    <3> HIDE DEF Op
    <3> QED BY <2>1, <2>3, <3>1, <3>4
  <2> QED BY <2>2, <2>3
<1>9. \A T \in SUBSET S : it[T] = IF T = {} THEN b ELSE Op(Min(T), T, it)
  <2> HIDE DEF Op, it
  <2> QED BY <1>6
<1> HIDE DEF G, it
<1>10. \A T \in SUBSET S : it[T] \in B
  <2>1. SUBSET S \subseteq G
    BY <1>1, <1>8, EveryPart
  <2> QED BY <2>1 DEF G
<1>11. it[{}] = b /\ \A T \in SUBSET S : T # {} => it[T] = Op(Min(T), T, it)
  <2> HIDE DEF Op
  <2> QED BY <1>9
<1> QED BY <1>7, <1>10, <1>11

LEMMA EachReversed ==
    ASSUME NEW n \in Nat, NEW S \in SUBSET (1..n), NEW B, NEW b \in B,
           \A k \in S, c \in B : ReverseAllocation(c, k) \in B
    PROVE  /\ ReversedAll(b, S) \in B
           /\ \E it : /\ ReversedAll(b, S) = it[S] /\ it[{}] = b
                      /\ \A T \in SUBSET S : it[T] \in B
                      /\ \A T \in SUBSET S : T # {} => it[T] = ReverseAllocation(it[T \ {Max(T)}], Max(T))
<1> DEFINE ch == [T \in SUBSET S |-> Max(T)]
           step == [k \in S |-> [c \in B |-> ReverseAllocation(c, k)]]
           Op(x, T, g) == ReverseAllocation(g[T \ {x}], x)
           Is(g) == g = [T \in SUBSET S |-> IF T = {} THEN b ELSE Op(Max(T), T, g)]
           it == CHOOSE g : Is(g)
<1>1. IsFiniteSet(S)
  BY FinitePart
<1>2. \A T \in SUBSET S : T # {} => ch[T] \in T /\ ch[T] = Max(T)
  <2> TAKE T \in SUBSET S
  <2>1. T \in SUBSET (1..n)
    OBVIOUS
  <2> QED BY <2>1, MaxOf
<1>3. step \in [S -> [B -> B]] /\ \A k \in S, c \in B : step[k][c] = ReverseAllocation(c, k)
  OBVIOUS
<1>4. ASSUME NEW g, NEW T \in SUBSET S, T # {}, g[T \ {ch[T]}] \in B
      PROVE  Op(Max(T), T, g) = step[ch[T]][g[T \ {ch[T]}]]
  <2>1. ch[T] \in S /\ ch[T] = Max(T)
    BY <1>2, <1>4
  <2> HIDE DEF ch, step
  <2> QED BY <1>3, <1>4, <2>1
<1> HIDE DEF ch, step
<1>5. \E g : Is(g)
  <2>1. PICK g \in [SUBSET S -> B] : IsFolder(step, b, ch, g, S)
    BY <1>1, <1>2, <1>3, FolderExists
  <2>2. ASSUME NEW T \in SUBSET S PROVE g[T] = IF T = {} THEN b ELSE Op(Max(T), T, g)
    <3>1. g[T] = Folds(step, b, ch, g, T)
      BY <2>1 DEF IsFolder
    <3>2. T \ {ch[T]} \in SUBSET S
      OBVIOUS
    <3>3. g[T \ {ch[T]}] \in B
      BY <2>1, <3>2
    <3>4. T # {} => Op(Max(T), T, g) = step[ch[T]][g[T \ {ch[T]}]]
      BY <1>4, <3>3
    <3> HIDE DEF Op
    <3> QED BY <3>1, <3>4 DEF Folds
  <2>3. Is(g)
    <3> HIDE DEF Op
    <3> QED BY <2>1, <2>2
  <2> QED BY <2>3
<1>6. Is(it)
  <2> HIDE DEF Is
  <2> QED BY <1>5
<1>7. ReversedAll(b, S) = it[S]
  BY DEF ReversedAll, Each, MapThenFoldSet
<1> DEFINE G == {T \in SUBSET S : it[T] \in B}
<1>8. ASSUME NEW T \in SUBSET S, \A U \in SUBSET T : U # T => U \in G PROVE T \in G
  <2>1. it[T] = IF T = {} THEN b ELSE Op(Max(T), T, it)
    <3> HIDE DEF Op, it
    <3> QED BY <1>6
  <2>2. CASE T = {}
    BY <2>1, <2>2
  <2>3. CASE T # {}
    <3>1. ch[T] \in T /\ ch[T] = Max(T) /\ ch[T] \in S
      BY <1>2, <2>3
    <3>2. T \ {ch[T]} \in SUBSET T /\ T \ {ch[T]} # T
      BY <3>1
    <3> HIDE DEF it
    <3>3. it[T \ {ch[T]}] \in B
      BY <1>8, <3>2
    <3>4. Op(ch[T], T, it) \in B
      BY <3>1, <3>3
    <3> HIDE DEF Op
    <3> QED BY <2>1, <2>3, <3>1, <3>4
  <2> QED BY <2>2, <2>3
<1>9. \A T \in SUBSET S : it[T] = IF T = {} THEN b ELSE Op(Max(T), T, it)
  <2> HIDE DEF Op, it
  <2> QED BY <1>6
<1> HIDE DEF G, it
<1>10. \A T \in SUBSET S : it[T] \in B
  <2>1. SUBSET S \subseteq G
    BY <1>1, <1>8, EveryPart
  <2> QED BY <2>1 DEF G
<1>11. it[{}] = b /\ \A T \in SUBSET S : T # {} => it[T] = Op(Max(T), T, it)
  <2> HIDE DEF Op
  <2> QED BY <1>9
<1> QED BY <1>7, <1>10, <1>11

LEMMA EachVoided ==
    ASSUME NEW n \in Nat, NEW S \in SUBSET (1..n), NEW B, NEW b \in B, NEW who,
           \A k \in S, c \in B : (IF c.sources[k].state = "voided" THEN c ELSE VoidSource(c, k, who)) \in B
    PROVE  /\ VoidedAll(b, S, who) \in B
           /\ \E it : /\ VoidedAll(b, S, who) = it[S] /\ it[{}] = b
                      /\ \A T \in SUBSET S : it[T] \in B
                      /\ \A T \in SUBSET S : T # {} => it[T] = (IF it[T \ {Max(T)}].sources[Max(T)].state = "voided" THEN it[T \ {Max(T)}]
                                  ELSE VoidSource(it[T \ {Max(T)}], Max(T), who))
<1> DEFINE ch == [T \in SUBSET S |-> Max(T)]
           step == [k \in S |-> [c \in B |-> (IF c.sources[k].state = "voided" THEN c ELSE VoidSource(c, k, who))]]
           Op(x, T, g) == (IF g[T \ {x}].sources[x].state = "voided" THEN g[T \ {x}] ELSE VoidSource(g[T \ {x}], x, who))
           Is(g) == g = [T \in SUBSET S |-> IF T = {} THEN b ELSE Op(Max(T), T, g)]
           it == CHOOSE g : Is(g)
<1>1. IsFiniteSet(S)
  BY FinitePart
<1>2. \A T \in SUBSET S : T # {} => ch[T] \in T /\ ch[T] = Max(T)
  <2> TAKE T \in SUBSET S
  <2>1. T \in SUBSET (1..n)
    OBVIOUS
  <2> QED BY <2>1, MaxOf
<1>3. step \in [S -> [B -> B]] /\ \A k \in S, c \in B : step[k][c] = (IF c.sources[k].state = "voided" THEN c ELSE VoidSource(c, k, who))
  OBVIOUS
<1>4. ASSUME NEW g, NEW T \in SUBSET S, T # {}, g[T \ {ch[T]}] \in B
      PROVE  Op(Max(T), T, g) = step[ch[T]][g[T \ {ch[T]}]]
  <2>1. ch[T] \in S /\ ch[T] = Max(T)
    BY <1>2, <1>4
  <2> HIDE DEF ch, step
  <2> QED BY <1>3, <1>4, <2>1
<1> HIDE DEF ch, step
<1>5. \E g : Is(g)
  <2>1. PICK g \in [SUBSET S -> B] : IsFolder(step, b, ch, g, S)
    BY <1>1, <1>2, <1>3, FolderExists
  <2>2. ASSUME NEW T \in SUBSET S PROVE g[T] = IF T = {} THEN b ELSE Op(Max(T), T, g)
    <3>1. g[T] = Folds(step, b, ch, g, T)
      BY <2>1 DEF IsFolder
    <3>2. T \ {ch[T]} \in SUBSET S
      OBVIOUS
    <3>3. g[T \ {ch[T]}] \in B
      BY <2>1, <3>2
    <3>4. T # {} => Op(Max(T), T, g) = step[ch[T]][g[T \ {ch[T]}]]
      BY <1>4, <3>3
    <3> HIDE DEF Op
    <3> QED BY <3>1, <3>4 DEF Folds
  <2>3. Is(g)
    <3> HIDE DEF Op
    <3> QED BY <2>1, <2>2
  <2> QED BY <2>3
<1>6. Is(it)
  <2> HIDE DEF Is
  <2> QED BY <1>5
<1>7. VoidedAll(b, S, who) = it[S]
  BY DEF VoidedAll, Each, MapThenFoldSet
<1> DEFINE G == {T \in SUBSET S : it[T] \in B}
<1>8. ASSUME NEW T \in SUBSET S, \A U \in SUBSET T : U # T => U \in G PROVE T \in G
  <2>1. it[T] = IF T = {} THEN b ELSE Op(Max(T), T, it)
    <3> HIDE DEF Op, it
    <3> QED BY <1>6
  <2>2. CASE T = {}
    BY <2>1, <2>2
  <2>3. CASE T # {}
    <3>1. ch[T] \in T /\ ch[T] = Max(T) /\ ch[T] \in S
      BY <1>2, <2>3
    <3>2. T \ {ch[T]} \in SUBSET T /\ T \ {ch[T]} # T
      BY <3>1
    <3> HIDE DEF it
    <3>3. it[T \ {ch[T]}] \in B
      BY <1>8, <3>2
    <3>4. Op(ch[T], T, it) \in B
      BY <3>1, <3>3
    <3> HIDE DEF Op
    <3> QED BY <2>1, <2>3, <3>1, <3>4
  <2> QED BY <2>2, <2>3
<1>9. \A T \in SUBSET S : it[T] = IF T = {} THEN b ELSE Op(Max(T), T, it)
  <2> HIDE DEF Op, it
  <2> QED BY <1>6
<1> HIDE DEF G, it
<1>10. \A T \in SUBSET S : it[T] \in B
  <2>1. SUBSET S \subseteq G
    BY <1>1, <1>8, EveryPart
  <2> QED BY <2>1 DEF G
<1>11. it[{}] = b /\ \A T \in SUBSET S : T # {} => it[T] = Op(Max(T), T, it)
  <2> HIDE DEF Op
  <2> QED BY <1>9
<1> QED BY <1>7, <1>10, <1>11

-----------------------------------------------------------------------------
(* R2: what a debt was settled with too much is freed *)

SettlersOf(b, d) == {p \in DOMAIN b.apps : b.apps[p].debt = d}
FreedOf(b, d, excess) == Allot([p \in SettlersOf(b, d) |-> Effective(b.apps[p])], TRUE, excess)
FreedApp(app, x) == [app EXCEPT !.reallocated = app.reallocated + x]
FreedApps(b, d, excess) ==
    [p \in DOMAIN b.apps |-> IF p \in SettlersOf(b, d) THEN FreedApp(b.apps[p], FreedOf(b, d, excess)[p]) ELSE b.apps[p]]

LEMMA FreedIs ==
    ASSUME NEW b \in Books, NEW d, NEW excess \in Int
    PROVE  /\ IsFiniteSet(SettlersOf(b, d)) /\ SettlersOf(b, d) \in SUBSET DOMAIN b.apps
           /\ SumFunction(FreedOf(b, d, excess)) = SumFunctionOnSet(FreedOf(b, d, excess), SettlersOf(b, d))
           /\ SumFunctionOnSet(FreedOf(b, d, excess), SettlersOf(b, d)) \in Int
           /\ \A p \in SettlersOf(b, d) : /\ FreedOf(b, d, excess)[p] \in Int
                                          /\ FreedOf(b, d, excess)[p] <= Effective(b.apps[p])
                                          /\ Effective(b.apps[p]) = 0 => FreedOf(b, d, excess)[p] = 0
<1> DEFINE S == SettlersOf(b, d)
           f == FreedOf(b, d, excess)
           cap == [p \in S |-> Effective(b.apps[p])]
<1>1. S \in SUBSET DOMAIN b.apps
  BY DEF SettlersOf
<1>2. DOMAIN b.apps = 1..Len(b.apps) /\ Len(b.apps) \in Nat
  BY BookIs, RowsOf
<1>3. IsFiniteSet(S)
  BY <1>1, <1>2, FinitePart
<1>4. DOMAIN cap = S /\ \A p \in S : cap[p] = Effective(b.apps[p]) /\ cap[p] \in Int
  BY <1>1, RowsIn, NumbersOf
<1> HIDE DEF cap, S
<1>5. f = Allot(cap, TRUE, excess)
  BY DEF FreedOf, cap, S
<1>6. DOMAIN f = S /\ \A p \in S : f[p] \in Int /\ f[p] <= cap[p] /\ (cap[p] = 0 => f[p] = 0)
  <2>1. PICK n \in Nat : n = Len(b.apps)
    BY <1>2
  <2>2. S \in SUBSET (1..n) /\ \A p \in S : cap[p] \in Int
    BY <1>1, <1>2, <1>4, <2>1
  <2>3. PICK latest \in BOOLEAN : latest = TRUE
    OBVIOUS
  <2>4. f = Allot(cap, latest, excess)
    BY <1>5, <2>3
  <2> HIDE DEF f
  <2>5. DOMAIN cap = S
    BY <1>4
  <2>6. \A p \in S : /\ Allot(cap, latest, excess)[p] \in Int /\ Allot(cap, latest, excess)[p] <= cap[p]
                     /\ cap[p] = 0 => Allot(cap, latest, excess)[p] = 0
    BY <2>2, <2>5, AllotBounds
  <2>7. DOMAIN Allot(cap, latest, excess) = S
    BY <2>5, AllotFor
  <2> QED BY <2>4, <2>6, <2>7
<1> HIDE DEF f
<1>7. SumFunctionOnSet(f, S) \in Int
  <2>1. \A p \in S : f[p] \in Int
    BY <1>6
  <2> QED BY <1>3, <2>1, SumOfNumbers
<1>8. SumFunction(f) = SumFunctionOnSet(f, S)
  BY <1>6 DEF SumFunction, SumFunctionOnSet, FoldFunction
<1> QED BY <1>1, <1>3, <1>4, <1>6, <1>7, <1>8 DEF S, f

LEMMA FreedAppIs ==
    ASSUME NEW app \in AppRow, NEW x \in Int
    PROVE  /\ FreedApp(app, x) \in AppRow /\ FreedApp(app, x).source = app.source /\ FreedApp(app, x).debt = app.debt
           /\ FreedApp(app, x).lot = app.lot /\ FreedApp(app, x).amount = app.amount
           /\ FreedApp(app, x).reallocated = app.reallocated + x /\ FreedApp(app, x).writtenOff = app.writtenOff
           /\ FreedApp(app, x).key = app.key
           /\ Effective(FreedApp(app, x)) = Effective(app) - x
<1>1. PICK z \in Int : z = app.reallocated + x
  BY DEF AppRow
<1>2. FreedApp(app, x) = [app EXCEPT !.reallocated = z]
  BY <1>1 DEF FreedApp
<1> DEFINE new == FreedApp(app, x)
<1> HIDE DEF new
<1>3. new = [app EXCEPT !.reallocated = z]
  BY <1>2 DEF new
<1>4. /\ new \in AppRow /\ new.source = app.source /\ new.debt = app.debt /\ new.lot = app.lot
      /\ new.amount = app.amount /\ new.reallocated = z /\ new.writtenOff = app.writtenOff /\ new.key = app.key
  BY <1>3 DEF AppRow
<1>5. Effective(new) = Effective(app) - x
  BY <1>1, <1>4 DEF Effective, AppRow
<1> QED BY <1>1, <1>4, <1>5 DEF new

AdjustedTo(b, d, excess, adj, left) ==
    [b EXCEPT !.apps = FreedApps(b, d, excess), !.debts[d] = WithTotals(b.debts[d], adj, left)]
AppsAreFreed(b, c, d, excess) ==
    /\ Fits(c) /\ Keeps(b, c) /\ c.cache = b.cache /\ c.lots = b.lots
    /\ \A p \in SettlersOf(b, d) : FreedOf(b, d, excess)[p] > 0 =>
          p \in DOMAIN c.apps /\ c.sources[c.apps[p].source].state # "voided"

AdjustedTables(b, c, d, excess, adj, left) ==
    /\ c.sources = b.sources /\ c.lots = b.lots /\ c.debits = b.debits /\ c.allocs = b.allocs
    /\ c.writeoffs = b.writeoffs /\ c.apps = FreedApps(b, d, excess)
    /\ DOMAIN c.debts = DOMAIN b.debts /\ c.debts[d] = WithTotals(b.debts[d], adj, left)
    /\ \A k \in DOMAIN b.debts : k # d => c.debts[k] = b.debts[k]

LEMMA AppsFreed ==
    ASSUME NEW b, Fits(b), NEW d \in DOMAIN b.debts, NEW excess \in Int, NEW adj \in Int, NEW left \in Int
    PROVE  /\ AppsAreFreed(b, AdjustedTo(b, d, excess, adj, left), d, excess)
           /\ AdjustedTables(b, AdjustedTo(b, d, excess, adj, left), d, excess, adj, left)
<1> DEFINE c == AdjustedTo(b, d, excess, adj, left)
           apps == FreedApps(b, d, excess)
           debt == WithTotals(b.debts[d], adj, left)
           debts == [b.debts EXCEPT ![d] = debt]
           S == SettlersOf(b, d)
           f == FreedOf(b, d, excess)
<1>1. b \in Books /\ b.debts[d] \in DebtRow /\ d # 0
  <2>1. b \in Books
    BY DEF Fits
  <2>2. b.debts[d] \in DebtRow /\ d > 0 /\ d \in Nat
    BY <2>1, RowsIn
  <2> QED BY <2>1, <2>2
<1>2. /\ S \in SUBSET DOMAIN b.apps
      /\ \A p \in S : f[p] \in Int /\ f[p] <= Effective(b.apps[p]) /\ (Effective(b.apps[p]) = 0 => f[p] = 0)
  BY <1>1, FreedIs
<1>3. \A p \in S : b.apps[p].debt = d
  BY DEF SettlersOf
<1> HIDE DEF S, f
<1>4. DOMAIN apps = DOMAIN b.apps /\ \A p \in DOMAIN b.apps : apps[p] = IF p \in S THEN FreedApp(b.apps[p], f[p]) ELSE b.apps[p]
  BY DEF FreedApps, S, f
<1>5. \A p \in DOMAIN b.apps : /\ apps[p] \in AppRow /\ apps[p].source = b.apps[p].source /\ apps[p].debt = b.apps[p].debt
                               /\ Effective(apps[p]) = IF p \in S THEN Effective(b.apps[p]) - f[p] ELSE Effective(b.apps[p])
  <2> TAKE p \in DOMAIN b.apps
  <2>1. b.apps[p] \in AppRow
    BY <1>1, RowsIn
  <2>2. CASE p \in S
    <3>1. f[p] \in Int
      BY <1>2, <2>2
    <3>2. /\ FreedApp(b.apps[p], f[p]) \in AppRow /\ FreedApp(b.apps[p], f[p]).source = b.apps[p].source
          /\ FreedApp(b.apps[p], f[p]).debt = b.apps[p].debt
          /\ Effective(FreedApp(b.apps[p], f[p])) = Effective(b.apps[p]) - f[p]
      BY <2>1, <3>1, FreedAppIs
    <3> QED BY <1>4, <2>2, <3>2
  <2>3. CASE p \notin S
    BY <1>4, <2>1, <2>3
  <2> QED BY <2>2, <2>3
<1>6. apps = [p \in DOMAIN b.apps |-> apps[p]]
  BY DEF FreedApps
<1> HIDE DEF apps
<1>7. apps \in Seq(AppRow)
  <2>1. b.apps \in Seq(AppRow)
    BY <1>1, BookIs
  <2> QED BY <1>4, <1>5, <1>6, <2>1, RowsSet
<1>8. debt \in DebtRow /\ debt.lot = b.debts[d].lot /\ debt.identity = b.debts[d].identity
  <2>1. PICK row \in DebtRow : row = b.debts[d]
    BY <1>1
  <2>2. debt = WithTotals(row, adj, left)
    BY <2>1
  <2> HIDE DEF debt
  <2>3. debt \in DebtRow /\ debt.lot = row.lot /\ debt.identity = row.identity
    BY <2>2 DEF WithTotals, DebtRow, DebtState
  <2> QED BY <2>1, <2>3
<1> HIDE DEF debt
<1>9. /\ debts \in Seq(DebtRow) /\ DOMAIN debts = DOMAIN b.debts /\ debts[d] = debt
      /\ \A k \in DOMAIN b.debts : k # d => debts[k] = b.debts[k]
  <2>1. b.debts \in Seq(DebtRow)
    BY <1>1, BookIs
  <2> QED BY <1>8, <2>1, RowSet
<1>10. c = [b EXCEPT !.apps = apps, !.debts = debts]
  BY <1>1 DEF AdjustedTo, Books, apps, debt
<1> HIDE DEF c
<1> HIDE DEF debts
<1>11. /\ c \in Books /\ c.apps = apps /\ c.debts = debts /\ c.sources = b.sources /\ c.lots = b.lots
       /\ c.debits = b.debits /\ c.allocs = b.allocs /\ c.writeoffs = b.writeoffs /\ c.cache = b.cache
  BY <1>1, <1>7, <1>9, <1>10 DEF Books
<1>12. \A k \in DOMAIN b.debts : c.debts[k].lot = b.debts[k].lot /\ c.debts[k].identity = b.debts[k].identity
  <2> TAKE k \in DOMAIN b.debts
  <2>1. CASE k = d
    BY <1>8, <1>9, <1>11, <2>1
  <2>2. CASE k # d
    BY <1>9, <1>11, <2>2
  <2> QED BY <2>1, <2>2
<1>13. Linked(c)
  BY <1>4, <1>5, <1>9, <1>11, <1>12 DEF Fits, Linked
<1>14. Gone(c)
  <2>1. \A l \in DOMAIN c.lots : c.lots[l].state = "voided" => c.lots[l].available = 0
    BY <1>11 DEF Fits, Gone
  <2>2. \A l \in DOMAIN c.lots : IsGone(c, c.lots[l].source) => c.lots[l].state = "voided"
    BY <1>11 DEF Fits, Gone, IsGone
  <2>3. ASSUME NEW p \in DOMAIN c.apps, IsGone(c, c.apps[p].source), c.apps[p].debt # 0 PROVE Effective(c.apps[p]) = 0
    <3>1. p \in DOMAIN b.apps /\ IsGone(b, b.apps[p].source) /\ b.apps[p].debt # 0
      BY <1>4, <1>5, <1>11, <2>3 DEF IsGone
    <3>2. Effective(b.apps[p]) = 0
      BY <3>1 DEF Fits, Gone
    <3>3. p \in S => f[p] = 0
      BY <1>2, <3>2
    <3> QED BY <1>5, <1>11, <3>1, <3>2, <3>3
  <2> QED BY <2>1, <2>2, <2>3 DEF Gone
<1>15. Blamed(c)
  <2>1. \A k : CauseOf(c, k) = CauseOf(b, k)
    BY <1>11 DEF CauseOf
  <2> QED BY <1>9, <1>11, <1>12, <2>1 DEF Fits, Blamed
<1>16. Keeps(b, c)
  BY <1>4, <1>5, <1>9, <1>11, <1>12 DEF Keeps
<1>17. ASSUME NEW p \in S, f[p] > 0
       PROVE  p \in DOMAIN c.apps /\ c.sources[c.apps[p].source].state # "voided"
  <2>1. p \in DOMAIN b.apps /\ b.apps[p].debt # 0 /\ b.apps[p].source \in DOMAIN b.sources
    BY <1>1, <1>2, <1>3 DEF Fits, Linked
  <2>2. Effective(b.apps[p]) # 0
    BY <1>2, <1>17
  <2>3. b.sources[b.apps[p].source].state # "voided"
    BY <2>1, <2>2 DEF Fits, Gone, IsGone
  <2> QED BY <1>4, <1>5, <1>11, <2>1, <2>3
<1>18. AdjustedTables(b, c, d, excess, adj, left)
  BY <1>9, <1>11 DEF AdjustedTables, apps, debt
<1>19. AppsAreFreed(b, c, d, excess)
  BY <1>11, <1>13, <1>14, <1>15, <1>16, <1>17 DEF Fits, S, f, AppsAreFreed
<1> QED BY <1>18, <1>19 DEF c

-----------------------------------------------------------------------------
(* A reversal keeps the books *)

\* The books that transactions may have made of b, where the cache is right but
\* for account a.
Made(b, a) == {c \in Books : Fits(c) /\ Keeps(b, c) /\ (CacheBut(b, a) => CacheBut(c, a))}

LEMMA MadeOn ==
    ASSUME NEW b, NEW a, NEW c \in Made(b, a), NEW e, Fits(e), Keeps(c, e), CacheBut(c, a) => CacheBut(e, a)
    PROVE  e \in Made(b, a)
<1>1. Keeps(b, c) /\ (CacheBut(b, a) => CacheBut(c, a))
  BY DEF Made
<1>2. Keeps(b, e)
  BY <1>1, KeepsOn
<1> QED BY <1>1, <1>2 DEF Made, Fits

LEMMA CacheStays ==
    ASSUME NEW b \in Books, NEW c \in Books, c.cache = b.cache, NEW a, \A x : x # a => SameLots(b, c, x), CacheBut(b, a)
    PROVE  CacheBut(c, a)
<1> SUFFICES ASSUME NEW x \in Accounts \ {a} PROVE c.cache[x] = Available(c, x)
  BY DEF CacheBut
<1>1. Available(c, x) = Available(b, x)
  BY AvailableStays
<1> QED BY <1>1 DEF CacheBut

LEMMA RefundMade ==
    ASSUME NEW b, Fits(b), NEW al \in DOMAIN b.allocs, b.lots[b.allocs[al].lot].state = "voided", NEW a
    PROVE  RefundVoided(b, al) \in Made(b, a)
<1> DEFINE x == b.allocs[al].amount
           noted == [b EXCEPT !.allocs[al].reversal = "voided"]
           debts == {d \in DOMAIN b.debts : b.debts[d].lot = b.allocs[al].lot}
           d == Min(debts)
           debt == b.debts[d]
           excess == Max({debt.settled - (debt.amount - debt.adjusted - x), 0})
           freed == FreedOf(b, d, excess)
           left == debt.settled - SumFunction(freed)
           S == {p \in SettlersOf(b, d) : freed[p] > 0}
           adjusted == [noted EXCEPT !.apps = FreedApps(b, d, excess),
                                     !.debts[d] = WithTotals(debt, debt.adjusted + x, left)]
<1>1. b \in Books /\ x \in Nat /\ al \in Nat
  <2>1. b \in Books
    BY DEF Fits
  <2>2. b.allocs[al] \in AllocRow /\ al \in Nat
    BY <2>1, RowsIn
  <2> QED BY <2>1, <2>2 DEF AllocRow
<1>2. /\ Fits(noted) /\ Keeps(b, noted)
      /\ noted.sources = b.sources /\ noted.lots = b.lots /\ noted.apps = b.apps /\ noted.debts = b.debts
      /\ noted.cache = b.cache
  <2>1. PICK reversal \in {"none", "live", "voided"} : reversal = "voided"
    OBVIOUS
  <2>2. noted = [b EXCEPT !.allocs[al].reversal = reversal]
    BY <2>1
  <2> HIDE DEF noted
  <2> QED BY <2>2, ReversalNoted
<1>3. noted \in Books
  BY <1>2 DEF Fits
<1>4. noted \in Made(b, a)
  <2>1. CacheBut(b, a) => CacheBut(noted, a)
    BY <1>2 DEF CacheBut, Available
  <2> QED BY <1>2, <1>3, <2>1 DEF Made
<1>5. CASE debts = {}
  BY <1>4, <1>5 DEF RefundVoided
<1>6. CASE debts # {}
  <2>1. d \in DOMAIN b.debts
    <3>1. DOMAIN b.debts = 1..Len(b.debts) /\ Len(b.debts) \in Nat
      BY <1>1, BookIs, RowsOf
    <3>2. debts \in SUBSET (1..Len(b.debts))
      BY <3>1
    <3> HIDE DEF debts
    <3>3. d \in debts
      BY <1>6, <3>1, <3>2, MinOf
    <3> QED BY <3>3 DEF debts
  <2>2. debt \in DebtRow
    BY <1>1, <2>1, RowsIn
  <2>3. RefundVoided(b, al) = Reapplied(adjusted, S, freed, d, al)
    BY <1>6 DEF RefundVoided, FreedOf, FreedApps, FreedApp, SettlersOf
  <2> HIDE DEF d, debt, noted
  <2>4. debt.settled \in Int /\ debt.amount \in Int /\ debt.adjusted \in Int
    BY <2>2 DEF DebtRow
  <2> HIDE DEF x
  <2>5. excess \in Int
    <3>1. debt.settled - (debt.amount - debt.adjusted - x) \in Int /\ 0 \in Int
      BY <1>1, <2>4
    <3> QED BY <3>1, GreaterOf
  <2> HIDE DEF excess
  <2>6. /\ SumFunction(freed) \in Int /\ SettlersOf(b, d) \in SUBSET DOMAIN b.apps
        /\ \A p \in SettlersOf(b, d) : freed[p] \in Int
    BY <1>1, <2>5, FreedIs
  <2> HIDE DEF freed
  <2>7. left \in Int /\ debt.adjusted + x \in Int /\ d \in DOMAIN noted.debts
    BY <1>1, <1>2, <2>1, <2>4, <2>6
  <2> HIDE DEF left
  <2>8. /\ Fits(adjusted) /\ Keeps(noted, adjusted) /\ adjusted.cache = noted.cache /\ adjusted.lots = noted.lots
        /\ \A p \in SettlersOf(b, d) : freed[p] > 0 =>
              p \in DOMAIN adjusted.apps /\ adjusted.sources[adjusted.apps[p].source].state # "voided"
    <3>1. PICK adj \in Int : adj = debt.adjusted + x
      BY <2>7
    <3>2. /\ FreedApps(b, d, excess) = FreedApps(noted, d, excess) /\ SettlersOf(b, d) = SettlersOf(noted, d)
          /\ freed = FreedOf(noted, d, excess) /\ debt = noted.debts[d]
      BY <1>2 DEF FreedApps, FreedOf, SettlersOf, freed, debt
    <3>3. adjusted = AdjustedTo(noted, d, excess, adj, left)
      BY <3>1, <3>2 DEF AdjustedTo
    <3> HIDE DEF adjusted
    <3>4. AppsAreFreed(noted, adjusted, d, excess)
      BY <1>2, <2>5, <2>7, <3>3, AppsFreed
    <3> QED BY <3>2, <3>4 DEF AppsAreFreed
  <2> HIDE DEF adjusted, S
  <2>9. adjusted \in Made(b, a)
    <3>1. CacheBut(noted, a) => CacheBut(adjusted, a)
      BY <2>8 DEF CacheBut, Available
    <3> QED BY <1>4, <2>8, <3>1, MadeOn
  \* The fold stays among the books that have the same applications.
  <2> DEFINE B == {c \in Made(b, a) : Keeps(adjusted, c)}
  <2>10. adjusted \in B
    BY <2>9, KeepsSelf
  <2>11. ASSUME NEW p \in S, NEW c \in B PROVE Reapply(c, p, freed[p], d, al) \in B
    <3>1. p \in SettlersOf(b, d) /\ freed[p] > 0 /\ freed[p] \in Int
      BY <2>6 DEF S
    <3>2. p \in DOMAIN adjusted.apps /\ adjusted.sources[adjusted.apps[p].source].state # "voided"
      BY <2>8, <3>1
    <3>3. adjusted.apps[p].source \in DOMAIN adjusted.sources
      BY <2>8, <3>2 DEF Fits, Linked
    <3>4. Fits(c) /\ Keeps(adjusted, c)
      BY DEF Made
    <3>5. p \in DOMAIN c.apps /\ c.sources[c.apps[p].source].state # "voided"
      BY <3>2, <3>3, <3>4 DEF Keeps
    <3> DEFINE e == Reapply(c, p, freed[p], d, al)
    <3>6. Fits(e) /\ Keeps(c, e) /\ (CacheBut(c, a) => CacheBut(e, a))
      BY <1>1, <3>1, <3>4, <3>5, ReapplyKeeps
    <3> HIDE DEF e
    <3>7. e \in Made(b, a)
      BY <3>6, MadeOn
    <3>8. Keeps(adjusted, e)
      BY <3>4, <3>6, KeepsOn
    <3>9. e \in B
      BY <3>7, <3>8
    <3> HIDE DEF B
    <3> QED BY <3>9 DEF e
  <2> HIDE DEF B
  <2>12. DOMAIN b.apps = 1..Len(b.apps) /\ Len(b.apps) \in Nat
    BY <1>1, BookIs, RowsOf
  <2>13. PICK n \in Nat : n = Len(b.apps)
    BY <2>12
  <2>14. S \in SUBSET (1..n)
    BY <2>6, <2>12, <2>13 DEF S
  <2>15. Reapplied(adjusted, S, freed, d, al) \in B
    BY <2>10, <2>11, <2>14, EachReapplied
  <2> QED BY <2>3, <2>15 DEF B
<1> QED BY <1>5, <1>6

LEMMA ReversalMade ==
    ASSUME NEW b, Fits(b), NEW al \in DOMAIN b.allocs, NEW a, b.lots[b.allocs[al].lot].account = a
    PROVE  ReverseAllocation(b, al) \in Made(b, a)
<1>1. CASE b.lots[b.allocs[al].lot].state = "voided"
  BY <1>1, RefundMade DEF ReverseAllocation
<1>2. CASE b.lots[b.allocs[al].lot].state # "voided"
  <2> DEFINE c == GiveBack(b, al)
  <2>1. /\ Fits(c) /\ Keeps(b, c) /\ c.cache = b.cache
        /\ \A x : x # a => SameLots(b, c, x)
    BY <1>2, GiveBackKeeps
  <2>2. c = ReverseAllocation(b, al)
    BY <1>2 DEF ReverseAllocation
  <2> HIDE DEF c
  <2>3. CacheBut(b, a) => CacheBut(c, a)
    BY <2>1, CacheStays DEF Fits
  <2> QED BY <2>1, <2>2, <2>3 DEF Made, Fits
<1> QED BY <1>1, <1>2

-----------------------------------------------------------------------------
(* V: the void of one source *)

OffApp(app) == [app EXCEPT !.writtenOff = app.writtenOff + Effective(app)]
SettledBy(b, s) == {p \in DOMAIN b.apps : b.apps[p].source = s /\ b.apps[p].debt # 0}
OffApps(b, s) == [p \in DOMAIN b.apps |-> IF p \in SettledBy(b, s) THEN OffApp(b.apps[p]) ELSE b.apps[p]]
LotsOf(b, s) == {l \in DOMAIN b.lots : b.lots[l].source = s /\ b.lots[l].state # "voided"}
OffLot(lot) == [lot EXCEPT !.withheld = lot.available, !.available = 0, !.state = "voided"]
OffLots(b, s) == [l \in DOMAIN b.lots |-> IF l \in LotsOf(b, s) THEN OffLot(b.lots[l]) ELSE b.lots[l]]
SpentLots(b, s, who, mine) ==
    {l \in {k \in LotsOf(b, s) : b.lots[k].consumed > 0} : OwnAccount(b.lots[l].account, who) = mine}
Undone(b, s, d) == Paid(b, {p \in SettledBy(b, s) : b.apps[p].debt = d})
OffDebts(b, s) ==
    [d \in DOMAIN b.debts |-> WithTotals(b.debts[d], b.debts[d].adjusted, b.debts[d].settled - Undone(b, s, d))]
OwedFor(b, l) ==
    [identity |-> identity[b.lots[l].account], account |-> b.lots[l].account, lot |-> l, amount |-> b.lots[l].consumed,
     adjusted |-> 0, settled |-> 0, state |-> "open"]
LostFor(b, l) ==
    [identity |-> identity[b.lots[l].account], account |-> b.lots[l].account, lot |-> l, amount |-> b.lots[l].consumed]
NewDebts(b, s, who) ==
    [k \in DOMAIN InOrder(SpentLots(b, s, who, TRUE)) |-> OwedFor(b, InOrder(SpentLots(b, s, who, TRUE))[k])]
NewLosses(b, s, who) ==
    [k \in DOMAIN InOrder(SpentLots(b, s, who, FALSE)) |-> LostFor(b, InOrder(SpentLots(b, s, who, FALSE))[k])]
VoidedRow(src) == [src EXCEPT !.unapplied = 0, !.state = "voided"]
TakenBack(b, s, who) ==
    [b EXCEPT !.sources[s] = VoidedRow(b.sources[s]), !.apps = OffApps(b, s), !.lots = OffLots(b, s),
              !.debts = OffDebts(b, s) \o NewDebts(b, s, who), !.writeoffs = b.writeoffs \o NewLosses(b, s, who)]

LEMMA VoidSourceIs ==
    ASSUME NEW b, NEW s, NEW who
    PROVE  VoidSource(b, s, who) = WriteCache(TakenBack(b, s, who), b.sources[s].account)
<1>1. SpentLots(b, s, who, TRUE) = {l \in {k \in LotsOf(b, s) : b.lots[k].consumed > 0} : OwnAccount(b.lots[l].account, who)}
  BY DEF SpentLots, OwnAccount
<1>2. SpentLots(b, s, who, FALSE) = {l \in {k \in LotsOf(b, s) : b.lots[k].consumed > 0} : ~OwnAccount(b.lots[l].account, who)}
  BY DEF SpentLots, OwnAccount
<1> QED
  BY <1>1, <1>2 DEF VoidSource, TakenBack, VoidedRow, OffApps, OffApp, OffLots, OffLot, OffDebts, NewDebts, NewLosses,
     OwedFor, LostFor, Undone, SettledBy, LotsOf

LEMMA PaidInt ==
    ASSUME NEW b \in Books, NEW ps \in SUBSET DOMAIN b.apps
    PROVE  Paid(b, ps) \in Int
<1> DEFINE f == [p \in DOMAIN b.apps |-> Effective(b.apps[p])]
<1>1. IsFiniteSet(ps)
  BY TablesFinite, FS_Subset
<1>2. \A p \in ps : f[p] \in Int
  BY RowsIn, NumbersOf
<1> HIDE DEF f
<1>3. SumFunctionOnSet(f, ps) \in Int
  BY <1>1, <1>2, SumOfNumbers
<1> QED BY <1>3 DEF Paid, f

LEMMA OffAppIs ==
    ASSUME NEW app \in AppRow
    PROVE  /\ OffApp(app) \in AppRow /\ OffApp(app).source = app.source /\ OffApp(app).debt = app.debt
           /\ OffApp(app).lot = app.lot /\ OffApp(app).amount = app.amount /\ OffApp(app).key = app.key
           /\ OffApp(app).reallocated = app.reallocated
           /\ Effective(OffApp(app)) = 0
<1>1. PICK z \in Int : z = app.writtenOff + Effective(app)
  BY NumbersOf DEF AppRow
<1> DEFINE new == OffApp(app)
<1>2. new = [app EXCEPT !.writtenOff = z]
  BY <1>1 DEF OffApp
<1> HIDE DEF new
<1>3. /\ new \in AppRow /\ new.source = app.source /\ new.debt = app.debt /\ new.lot = app.lot /\ new.key = app.key
      /\ new.amount = app.amount /\ new.reallocated = app.reallocated /\ new.writtenOff = z
  BY <1>2 DEF AppRow
<1>4. Effective(new) = 0
  BY <1>1, <1>3 DEF Effective, AppRow
<1> QED BY <1>3, <1>4 DEF new

LEMMA OffLotIs ==
    ASSUME NEW lot \in LotRow
    PROVE  /\ OffLot(lot) \in LotRow /\ OffLot(lot).account = lot.account /\ OffLot(lot).source = lot.source
           /\ OffLot(lot).original = lot.original /\ OffLot(lot).consumed = lot.consumed
           /\ OffLot(lot).withheld = lot.available
           /\ OffLot(lot).available = 0 /\ OffLot(lot).state = "voided"
<1>1. PICK z \in Int : z = 0
  OBVIOUS
<1>2. PICK y \in Int : y = lot.available
  BY DEF LotRow
<1>3. PICK state \in {"active", "exhausted", "voided"} : state = "voided"
  OBVIOUS
<1> DEFINE new == OffLot(lot)
<1>4. new = [lot EXCEPT !.withheld = y, !.available = z, !.state = state]
  BY <1>1, <1>2, <1>3 DEF OffLot
<1> HIDE DEF new
<1>5. /\ new \in LotRow /\ new.account = lot.account /\ new.source = lot.source /\ new.original = lot.original
      /\ new.consumed = lot.consumed /\ new.withheld = y /\ new.available = z /\ new.state = state
  BY <1>4 DEF LotRow
<1> QED BY <1>1, <1>2, <1>3, <1>5 DEF new

LEMMA VoidedRowIs ==
    ASSUME NEW src \in SourceRow
    PROVE  /\ VoidedRow(src) \in SourceRow /\ VoidedRow(src).account = src.account /\ VoidedRow(src).cause = src.cause
           /\ VoidedRow(src).gross = src.gross /\ VoidedRow(src).unapplied = 0 /\ VoidedRow(src).state = "voided"
<1>1. PICK z \in Int : z = 0
  OBVIOUS
<1>2. PICK state \in {"applying", "applied", "voided"} : state = "voided"
  OBVIOUS
<1> DEFINE new == VoidedRow(src)
<1>3. new = [src EXCEPT !.unapplied = z, !.state = state]
  BY <1>1, <1>2 DEF VoidedRow
<1> HIDE DEF new
<1>4. /\ new \in SourceRow /\ new.account = src.account /\ new.cause = src.cause
      /\ new.gross = src.gross /\ new.unapplied = z /\ new.state = state
  BY <1>3 DEF SourceRow
<1> QED BY <1>1, <1>2, <1>4 DEF new

\* The rows for what was spent: one for each lot of the source.
OwedForSpent(b, s, who) ==
    \A k \in DOMAIN NewDebts(b, s, who) : \E l \in SpentLots(b, s, who, TRUE) : NewDebts(b, s, who)[k] = OwedFor(b, l)

LEMMA NewRows ==
    ASSUME NEW b \in Books, identity \in [Accounts -> Identities], NEW s, NEW who
    PROVE  /\ \A mine \in BOOLEAN : SpentLots(b, s, who, mine) \in SUBSET DOMAIN b.lots
           /\ NewDebts(b, s, who) \in Seq(DebtRow) /\ NewLosses(b, s, who) \in Seq(WriteoffRow)
           /\ OwedForSpent(b, s, who)
<1>1. \A mine \in BOOLEAN : SpentLots(b, s, who, mine) \in SUBSET DOMAIN b.lots
  BY DEF SpentLots, LotsOf
<1>2. DOMAIN b.lots = 1..Len(b.lots) /\ Len(b.lots) \in Nat
  BY BookIs, RowsOf
<1>3. ASSUME NEW l \in DOMAIN b.lots PROVE OwedFor(b, l) \in DebtRow /\ LostFor(b, l) \in WriteoffRow
  <2>1. b.lots[l] \in LotRow /\ l \in Nat
    BY RowsIn
  <2>2. b.lots[l].account \in Accounts /\ b.lots[l].consumed \in Int /\ 0 \in Int
    BY <2>1 DEF LotRow
  <2>3. identity[b.lots[l].account] \in Identities
    BY <2>2
  <2> QED BY <2>1, <2>2, <2>3 DEF OwedFor, LostFor, DebtRow, WriteoffRow
<1>4. ASSUME NEW mine \in BOOLEAN
      PROVE  LET q == InOrder(SpentLots(b, s, who, mine))
                 m == Cardinality(SpentLots(b, s, who, mine))
             IN  m \in Nat /\ DOMAIN q = 1..m /\ \A k \in DOMAIN q : q[k] \in SpentLots(b, s, who, mine)
  <2> DEFINE S == SpentLots(b, s, who, mine)
  <2>1. S \in SUBSET (1..Len(b.lots))
    BY <1>1, <1>2
  <2> HIDE DEF S
  <2>2. Cardinality(S) \in Nat /\ DOMAIN InOrder(S) = 1..Cardinality(S) /\ \A k \in DOMAIN InOrder(S) : InOrder(S)[k] \in S
    BY <1>2, <2>1, InOrderIs
  <2> QED BY <2>2 DEF S
<1> DEFINE S == SpentLots(b, s, who, TRUE)
           T == SpentLots(b, s, who, FALSE)
           q == InOrder(S)
           r == InOrder(T)
<1>5. /\ Cardinality(S) \in Nat /\ DOMAIN q = 1..Cardinality(S) /\ (\A k \in DOMAIN q : q[k] \in S)
      /\ Cardinality(T) \in Nat /\ DOMAIN r = 1..Cardinality(T) /\ (\A k \in DOMAIN r : r[k] \in T)
  BY <1>4
<1>6. S \in SUBSET DOMAIN b.lots /\ T \in SUBSET DOMAIN b.lots
  BY <1>1
<1>7. NewDebts(b, s, who) = [k \in DOMAIN q |-> OwedFor(b, q[k])] /\ NewLosses(b, s, who) = [k \in DOMAIN r |-> LostFor(b, r[k])]
  BY DEF NewDebts, NewLosses
<1> HIDE DEF S, T, q, r
<1>8. NewDebts(b, s, who) \in [1..Cardinality(S) -> DebtRow]
  BY <1>3, <1>5, <1>6, <1>7
<1>9. NewLosses(b, s, who) \in [1..Cardinality(T) -> WriteoffRow]
  BY <1>3, <1>5, <1>6, <1>7
<1>10. NewDebts(b, s, who) \in Seq(DebtRow) /\ NewLosses(b, s, who) \in Seq(WriteoffRow)
  BY <1>5, <1>8, <1>9, RowsFrom
<1>11. ASSUME NEW k \in DOMAIN NewDebts(b, s, who) PROVE \E l \in S : NewDebts(b, s, who)[k] = OwedFor(b, l)
  BY <1>5, <1>7
<1> QED BY <1>1, <1>10, <1>11 DEF S, OwedForSpent

-----------------------------------------------------------------------------
\* What the void of source s makes of each table.
OffTables(b, c, s, who) ==
    /\ DOMAIN c.sources = DOMAIN b.sources /\ c.sources[s].state = "voided"
    /\ \A k \in DOMAIN b.sources : /\ c.sources[k].account = b.sources[k].account
                                  /\ c.sources[k].cause = b.sources[k].cause
                                  /\ (k # s => c.sources[k] = b.sources[k])
    /\ DOMAIN c.apps = DOMAIN b.apps
    /\ \A p \in DOMAIN b.apps : /\ c.apps[p].source = b.apps[p].source /\ c.apps[p].debt = b.apps[p].debt
                               /\ (p \in SettledBy(b, s) => Effective(c.apps[p]) = 0)
                               /\ (p \notin SettledBy(b, s) => c.apps[p] = b.apps[p])
    /\ DOMAIN c.lots = DOMAIN b.lots
    /\ \A l \in DOMAIN b.lots : /\ c.lots[l].source = b.lots[l].source /\ c.lots[l].account = b.lots[l].account
                               /\ (l \in LotsOf(b, s) => c.lots[l].state = "voided" /\ c.lots[l].available = 0)
                               /\ (l \notin LotsOf(b, s) => c.lots[l] = b.lots[l])
    /\ DOMAIN b.debts \subseteq DOMAIN c.debts
    /\ \A d \in DOMAIN b.debts : c.debts[d].lot = b.debts[d].lot /\ c.debts[d].identity = b.debts[d].identity
    /\ \A d \in DOMAIN c.debts \ DOMAIN b.debts :
          \E l \in SpentLots(b, s, who, TRUE) : c.debts[d].lot = l /\ c.debts[d].identity = identity[b.lots[l].account]
    /\ c.debits = b.debits /\ c.allocs = b.allocs /\ c.cache = b.cache

LEMMA TakenBackIs ==
    ASSUME NEW b \in Books, identity \in [Accounts -> Identities], NEW s \in DOMAIN b.sources, NEW who
    PROVE  TakenBack(b, s, who) \in Books /\ OffTables(b, TakenBack(b, s, who), s, who)
<1> DEFINE c == TakenBack(b, s, who)
           src == VoidedRow(b.sources[s])
           debts == OffDebts(b, s)
           owed == NewDebts(b, s, who)
           lost == NewLosses(b, s, who)
<1>0. /\ c.sources = [b.sources EXCEPT ![s] = src] /\ c.apps = OffApps(b, s) /\ c.lots = OffLots(b, s)
      /\ c.debts = debts \o owed /\ c.writeoffs = b.writeoffs \o lost
      /\ c.debits = b.debits /\ c.allocs = b.allocs /\ c.cache = b.cache
  BY DEF TakenBack, Books
<1>1. b.sources[s] \in SourceRow
  BY RowsIn
<1>2. src \in SourceRow /\ src.account = b.sources[s].account /\ src.cause = b.sources[s].cause /\ src.state = "voided"
  BY <1>1, VoidedRowIs
<1>3. owed \in Seq(DebtRow) /\ lost \in Seq(WriteoffRow)
      /\ \A k \in DOMAIN owed : \E l \in SpentLots(b, s, who, TRUE) : owed[k] = OwedFor(b, l)
  <2>1. owed \in Seq(DebtRow) /\ lost \in Seq(WriteoffRow)
    BY NewRows
  <2>2. \A k \in DOMAIN owed : \E l \in SpentLots(b, s, who, TRUE) : owed[k] = OwedFor(b, l)
    <3>1. OwedForSpent(b, s, who)
      BY NewRows
    <3> QED BY <3>1 DEF OwedForSpent
  <2> QED BY <2>1, <2>2
<1>4. debts \in Seq(DebtRow) /\ DOMAIN debts = DOMAIN b.debts
      /\ \A d \in DOMAIN b.debts : debts[d].lot = b.debts[d].lot /\ debts[d].identity = b.debts[d].identity
  <2>1. ASSUME NEW d \in DOMAIN b.debts
        PROVE  /\ debts[d] \in DebtRow /\ debts[d].lot = b.debts[d].lot /\ debts[d].identity = b.debts[d].identity
    <3>1. {p \in SettledBy(b, s) : b.apps[p].debt = d} \in SUBSET DOMAIN b.apps
      BY DEF SettledBy
    <3>2. Undone(b, s, d) \in Int
      BY <3>1, PaidInt DEF Undone
    <3>3. b.debts[d] \in DebtRow
      BY RowsIn
    <3>4. b.debts[d].adjusted \in Int /\ b.debts[d].settled - Undone(b, s, d) \in Int
      BY <3>2, <3>3 DEF DebtRow
    <3>5. debts[d] = WithTotals(b.debts[d], b.debts[d].adjusted, b.debts[d].settled - Undone(b, s, d))
      BY DEF OffDebts
    <3> QED BY <3>3, <3>4, <3>5, SettledTo
  <2>2. DOMAIN debts = DOMAIN b.debts /\ debts = [d \in DOMAIN b.debts |-> debts[d]]
    BY DEF OffDebts
  <2> HIDE DEF debts
  <2>3. debts \in Seq(DebtRow)
    BY <2>1, <2>2, BookIs, RowsSet
  <2> QED BY <2>1, <2>2, <2>3
<1>5. OffApps(b, s) \in Seq(AppRow) /\ DOMAIN OffApps(b, s) = DOMAIN b.apps
      /\ \A p \in DOMAIN b.apps : /\ OffApps(b, s)[p].source = b.apps[p].source /\ OffApps(b, s)[p].debt = b.apps[p].debt
                                  /\ (p \in SettledBy(b, s) => Effective(OffApps(b, s)[p]) = 0)
                                  /\ (p \notin SettledBy(b, s) => OffApps(b, s)[p] = b.apps[p])
  <2> DEFINE apps == OffApps(b, s)
  <2>1. DOMAIN apps = DOMAIN b.apps /\ apps = [p \in DOMAIN b.apps |-> apps[p]]
        /\ \A p \in DOMAIN b.apps : apps[p] = IF p \in SettledBy(b, s) THEN OffApp(b.apps[p]) ELSE b.apps[p]
    BY DEF OffApps
  <2>2. \A p \in DOMAIN b.apps : b.apps[p] \in AppRow
    BY RowsIn
  <2> HIDE DEF apps
  <2>3. \A p \in DOMAIN b.apps : /\ apps[p] \in AppRow /\ apps[p].source = b.apps[p].source /\ apps[p].debt = b.apps[p].debt
                                 /\ (p \in SettledBy(b, s) => Effective(apps[p]) = 0)
                                 /\ (p \notin SettledBy(b, s) => apps[p] = b.apps[p])
    BY <2>1, <2>2, OffAppIs
  <2>4. apps \in Seq(AppRow)
    BY <2>1, <2>3, BookIs, RowsSet
  <2> QED BY <2>1, <2>3, <2>4 DEF apps
<1>6. OffLots(b, s) \in Seq(LotRow) /\ DOMAIN OffLots(b, s) = DOMAIN b.lots
      /\ \A l \in DOMAIN b.lots : /\ OffLots(b, s)[l].source = b.lots[l].source /\ OffLots(b, s)[l].account = b.lots[l].account
                                  /\ (l \in LotsOf(b, s) => OffLots(b, s)[l].state = "voided" /\ OffLots(b, s)[l].available = 0)
                                  /\ (l \notin LotsOf(b, s) => OffLots(b, s)[l] = b.lots[l])
  <2> DEFINE lots == OffLots(b, s)
  <2>1. DOMAIN lots = DOMAIN b.lots /\ lots = [l \in DOMAIN b.lots |-> lots[l]]
        /\ \A l \in DOMAIN b.lots : lots[l] = IF l \in LotsOf(b, s) THEN OffLot(b.lots[l]) ELSE b.lots[l]
    BY DEF OffLots
  <2>2. \A l \in DOMAIN b.lots : b.lots[l] \in LotRow
    BY RowsIn
  <2> HIDE DEF lots
  <2>3. \A l \in DOMAIN b.lots : /\ lots[l] \in LotRow /\ lots[l].source = b.lots[l].source /\ lots[l].account = b.lots[l].account
                                 /\ (l \in LotsOf(b, s) => lots[l].state = "voided" /\ lots[l].available = 0)
                                 /\ (l \notin LotsOf(b, s) => lots[l] = b.lots[l])
    BY <2>1, <2>2, OffLotIs
  <2>4. lots \in Seq(LotRow)
    BY <2>1, <2>3, BookIs, RowsSet
  <2> QED BY <2>1, <2>3, <2>4 DEF lots
<1> HIDE DEF c, src, debts, owed, lost
<1>7. /\ c.sources \in Seq(SourceRow) /\ DOMAIN c.sources = DOMAIN b.sources /\ c.sources[s] = src
      /\ \A k \in DOMAIN b.sources : k # s => c.sources[k] = b.sources[k]
  BY <1>0, <1>2, BookIs, RowSet
<1>8. /\ c.debts \in Seq(DebtRow) /\ DOMAIN b.debts \subseteq DOMAIN c.debts
      /\ \A d \in DOMAIN b.debts : c.debts[d] = debts[d]
      /\ \A d \in DOMAIN c.debts \ DOMAIN b.debts : \E k \in DOMAIN owed : c.debts[d] = owed[k]
  BY <1>0, <1>3, <1>4, Joined
<1>9. c.writeoffs \in Seq(WriteoffRow)
  BY <1>0, <1>3, BookIs, Joined
<1>10. ASSUME NEW d \in DOMAIN c.debts \ DOMAIN b.debts
       PROVE  \E l \in SpentLots(b, s, who, TRUE) : c.debts[d].lot = l /\ c.debts[d].identity = identity[b.lots[l].account]
  <2>1. PICK k \in DOMAIN owed : c.debts[d] = owed[k]
    BY <1>8
  <2>2. PICK l \in SpentLots(b, s, who, TRUE) : owed[k] = OwedFor(b, l)
    BY <1>3
  <2>3. OwedFor(b, l).lot = l /\ OwedFor(b, l).identity = identity[b.lots[l].account]
    BY DEF OwedFor
  <2> QED BY <2>1, <2>2, <2>3
<1>11. c \in Books
  <2>1. PICK sources \in Seq(SourceRow), lots \in Seq(LotRow), apps \in Seq(AppRow), all \in Seq(DebtRow),
             writeoffs \in Seq(WriteoffRow) :
             /\ sources = [b.sources EXCEPT ![s] = src] /\ lots = OffLots(b, s) /\ apps = OffApps(b, s)
             /\ all = debts \o owed /\ writeoffs = b.writeoffs \o lost
    BY ZenonT(60), <1>0, <1>5, <1>6, <1>7, <1>8, <1>9
  <2>2. c = [b EXCEPT !.sources = sources, !.apps = apps, !.lots = lots, !.debts = all, !.writeoffs = writeoffs]
    BY <2>1 DEF c, TakenBack, src, debts, owed, lost
  <2> QED BY <2>2 DEF Books
<1>12. OffTables(b, c, s, who)
  <2>1. /\ DOMAIN c.sources = DOMAIN b.sources /\ c.sources[s].state = "voided"
        /\ \A k \in DOMAIN b.sources : /\ c.sources[k].account = b.sources[k].account
                                      /\ c.sources[k].cause = b.sources[k].cause
                                      /\ (k # s => c.sources[k] = b.sources[k])
    BY <1>2, <1>7
  <2>2. /\ DOMAIN c.apps = DOMAIN b.apps
        /\ \A p \in DOMAIN b.apps : /\ c.apps[p].source = b.apps[p].source /\ c.apps[p].debt = b.apps[p].debt
                                   /\ (p \in SettledBy(b, s) => Effective(c.apps[p]) = 0)
                                   /\ (p \notin SettledBy(b, s) => c.apps[p] = b.apps[p])
    BY <1>0, <1>5
  <2>3. /\ DOMAIN c.lots = DOMAIN b.lots
        /\ \A l \in DOMAIN b.lots : /\ c.lots[l].source = b.lots[l].source /\ c.lots[l].account = b.lots[l].account
                                   /\ (l \in LotsOf(b, s) => c.lots[l].state = "voided" /\ c.lots[l].available = 0)
                                   /\ (l \notin LotsOf(b, s) => c.lots[l] = b.lots[l])
    BY <1>0, <1>6
  <2>4. /\ DOMAIN b.debts \subseteq DOMAIN c.debts
        /\ \A d \in DOMAIN b.debts : c.debts[d].lot = b.debts[d].lot /\ c.debts[d].identity = b.debts[d].identity
    BY <1>4, <1>8
  <2> QED BY <1>0, <1>10, <2>1, <2>2, <2>3, <2>4 DEF OffTables
<1> QED BY <1>11, <1>12 DEF c

\* The void of a source that a void is claimed for leaves nothing of it.
LEMMA TakenBackFits ==
    ASSUME NEW b, Fits(b), identity \in [Accounts -> Identities], NEW s \in DOMAIN b.sources,
           NEW who, b.sources[s].cause \in Approvals, voids[b.sources[s].cause] # "completed",
           who = voidedAs[b.sources[s].cause], NEW c \in Books, OffTables(b, c, s, who)
    PROVE  Fits(c) /\ \A a : a # b.sources[s].account => SameLots(b, c, a)
<1>1. b \in Books /\ Linked(b) /\ Gone(b) /\ Blamed(b)
  BY DEF Fits
<1>2. \A k : IsGone(c, k) => k = s \/ IsGone(b, k)
  BY DEF OffTables, IsGone
<1>3. Linked(c)
  <2>1. \A l \in DOMAIN c.lots : c.lots[l].source # 0 =>
            c.lots[l].source \in DOMAIN c.sources /\ c.lots[l].account = c.sources[c.lots[l].source].account
    BY <1>1 DEF OffTables, Linked
  <2>2. \A p \in DOMAIN c.apps : c.apps[p].source \in DOMAIN c.sources
    BY <1>1 DEF OffTables, Linked
  <2>3. ASSUME NEW d \in DOMAIN c.debts
        PROVE  c.debts[d].lot \in DOMAIN c.lots /\ c.lots[c.debts[d].lot].source \in DOMAIN c.sources
    <3>1. CASE d \in DOMAIN b.debts
      BY <1>1, <3>1 DEF OffTables, Linked
    <3>2. CASE d \notin DOMAIN b.debts
      <4>1. PICK l \in SpentLots(b, s, who, TRUE) : c.debts[d].lot = l
        BY ZenonT(60), <3>2 DEF OffTables
      <4>2. l \in DOMAIN b.lots /\ b.lots[l].source = s
        BY DEF SpentLots, LotsOf
      <4> QED BY <4>1, <4>2 DEF OffTables
    <3> QED BY <3>1, <3>2
  <2>4. \A al \in DOMAIN c.allocs : /\ c.allocs[al].debit \in DOMAIN c.debits /\ c.allocs[al].lot \in DOMAIN c.lots
                                  /\ c.lots[c.allocs[al].lot].account = c.debits[c.allocs[al].debit].account
    BY <1>1 DEF OffTables, Linked
  <2> QED BY <2>1, <2>2, <2>3, <2>4 DEF Linked
<1>4. Gone(c)
  <2>1. \A l \in DOMAIN c.lots : c.lots[l].state = "voided" => c.lots[l].available = 0
    BY <1>1 DEF OffTables, Gone
  <2>2. ASSUME NEW l \in DOMAIN c.lots, IsGone(c, c.lots[l].source) PROVE c.lots[l].state = "voided"
    <3>1. c.lots[l].source = b.lots[l].source /\ l \in DOMAIN b.lots
      BY DEF OffTables
    <3>2. CASE b.lots[l].source = s
      BY <3>1, <3>2 DEF OffTables, LotsOf
    <3>3. CASE IsGone(b, b.lots[l].source)
      BY <1>1, <3>1, <3>3 DEF OffTables, Gone
    <3> QED BY <1>2, <2>2, <3>1, <3>2, <3>3
  <2>3. ASSUME NEW p \in DOMAIN c.apps, IsGone(c, c.apps[p].source), c.apps[p].debt # 0 PROVE Effective(c.apps[p]) = 0
    <3>1. c.apps[p].source = b.apps[p].source /\ c.apps[p].debt = b.apps[p].debt /\ p \in DOMAIN b.apps
      BY DEF OffTables
    <3>2. CASE b.apps[p].source = s
      BY <2>3, <3>1, <3>2 DEF OffTables, SettledBy
    <3>3. CASE IsGone(b, b.apps[p].source)
      <4>1. Effective(b.apps[p]) = 0
        BY <1>1, <2>3, <3>1, <3>3 DEF Gone
      <4> QED BY <3>1, <4>1 DEF OffTables
    <3> QED BY <1>2, <2>3, <3>1, <3>2, <3>3
  <2> QED BY <2>1, <2>2, <2>3 DEF Gone
<1>5. Blamed(c)
  <2> SUFFICES ASSUME NEW d \in DOMAIN c.debts
               PROVE  /\ CauseOf(c, c.debts[d].lot) \in Approvals /\ voids[CauseOf(c, c.debts[d].lot)] # "completed"
                      /\ c.debts[d].identity = voidedAs[CauseOf(c, c.debts[d].lot)]
    BY DEF Blamed
  <2>1. CASE d \in DOMAIN b.debts
    <3>1. /\ b.debts[d].lot \in DOMAIN b.lots /\ b.lots[b.debts[d].lot].source \in DOMAIN b.sources
          /\ c.debts[d].lot = b.debts[d].lot /\ c.debts[d].identity = b.debts[d].identity
      BY <1>1, <2>1 DEF OffTables, Linked
    <3>2. CauseOf(c, c.debts[d].lot) = CauseOf(b, b.debts[d].lot)
      BY ZenonT(60), <3>1 DEF CauseOf, OffTables
    <3> QED BY <1>1, <2>1, <3>1, <3>2 DEF Blamed
  <2>2. CASE d \notin DOMAIN b.debts
    <3>1. PICK l \in SpentLots(b, s, who, TRUE) :
              c.debts[d].lot = l /\ c.debts[d].identity = identity[b.lots[l].account]
      BY ZenonT(60), <2>2 DEF OffTables
    <3>2. l \in DOMAIN b.lots /\ b.lots[l].source = s /\ identity[b.lots[l].account] = who
      BY DEF SpentLots, LotsOf, OwnAccount
    <3>3. CauseOf(c, l) = b.sources[s].cause
      BY <3>2 DEF CauseOf, OffTables
    <3> QED BY <3>1, <3>2, <3>3
  <2> QED BY <2>1, <2>2
<1>6. ASSUME NEW a, a # b.sources[s].account PROVE SameLots(b, c, a)
  <2>1. \A l \in LotsOf(b, s) : b.lots[l].account = b.sources[s].account
    <3>1. s # 0
      BY <1>1, RowsIn
    <3> QED BY <1>1, <3>1 DEF LotsOf, Linked
  <2> QED BY <1>6, <2>1 DEF SameLots, OffTables
<1> QED BY <1>1, <1>3, <1>4, <1>5, <1>6 DEF Fits

-----------------------------------------------------------------------------
\* What a void makes: every source stays of who it was and of what caused it.
VoidMade(b) ==
    {c \in Books : /\ Fits(c) /\ DOMAIN c.sources = DOMAIN b.sources
                   /\ \A k \in DOMAIN b.sources : c.sources[k].cause = b.sources[k].cause
                   /\ (CacheAgrees(b) => CacheAgrees(c))}

LEMMA SourceVoided ==
    ASSUME NEW b, Fits(b), identity \in [Accounts -> Identities], NEW s \in DOMAIN b.sources,
           NEW who, b.sources[s].cause \in Approvals, voids[b.sources[s].cause] # "completed",
           who = voidedAs[b.sources[s].cause]
    PROVE  VoidSource(b, s, who) \in VoidMade(b)
<1> DEFINE c == TakenBack(b, s, who)
           a == b.sources[s].account
           e == WriteCache(c, a)
<1>1. b \in Books /\ VoidSource(b, s, who) = e
  BY VoidSourceIs DEF Fits
<1>2. a \in Accounts
  <2>1. b.sources[s] \in SourceRow
    BY <1>1, RowsIn
  <2> QED BY <2>1 DEF SourceRow
<1>3. c \in Books /\ OffTables(b, c, s, who)
  BY <1>1, TakenBackIs
<1> HIDE DEF c
<1>4. Fits(c) /\ \A x : x # a => SameLots(b, c, x)
  BY <1>3, TakenBackFits
<1>5. c.cache = b.cache
  BY <1>3 DEF OffTables
<1> HIDE DEF a
<1>6. CacheAgrees(b) => CacheBut(c, a)
  <2> HAVE CacheAgrees(b)
  <2>1. CacheBut(b, a)
    BY DEF CacheAgrees, CacheBut
  <2> QED BY <1>1, <1>3, <1>4, <1>5, <2>1, CacheStays
<1>7. e \in Books /\ SameTables(c, e) /\ (CacheBut(c, a) => CacheAgrees(e))
  BY <1>2, <1>3, CacheWritten
<1> HIDE DEF e
<1>8. Fits(e)
  BY <1>3, <1>4, <1>7, TablesFit
<1>9. /\ DOMAIN e.sources = DOMAIN b.sources
      /\ \A k \in DOMAIN b.sources : e.sources[k].cause = b.sources[k].cause
  BY <1>3, <1>7 DEF OffTables, SameTables
<1> QED BY <1>1, <1>6, <1>7, <1>8, <1>9 DEF VoidMade

\* The void of an approval, over all the sources it caused.
LEMMA VoidedMade ==
    ASSUME NEW ap \in Approvals, Fits(book), identity \in [Accounts -> Identities], voids[ap] # "completed"
    PROVE  Voided(ap) \in VoidMade(book)
<1> DEFINE S == CausedBy(ap)
           B == VoidMade(book)
           who == voidedAs[ap]
<1>1. book \in Books
  BY DEF Fits
<1>2. Len(book.sources) \in Nat /\ S \in SUBSET (1..Len(book.sources)) /\ \A s \in S : s \in DOMAIN book.sources
  BY <1>1, BookIs, RowsOf DEF CausedBy
<1>3. book \in B
  BY <1>1 DEF VoidMade
<1>4. ASSUME NEW k \in S, NEW c \in B
      PROVE  (IF c.sources[k].state = "voided" THEN c ELSE VoidSource(c, k, who)) \in B
  <2>1. /\ Fits(c) /\ DOMAIN c.sources = DOMAIN book.sources
        /\ \A s \in DOMAIN book.sources : c.sources[s].cause = book.sources[s].cause
        /\ (CacheAgrees(book) => CacheAgrees(c))
    BY DEF VoidMade
  <2>2. k \in DOMAIN book.sources /\ book.sources[k].cause = ap
    BY DEF CausedBy
  <2>3. k \in DOMAIN c.sources /\ c.sources[k].cause = ap
    BY <2>1, <2>2
  <2> DEFINE e == VoidSource(c, k, who)
  <2>4. e \in VoidMade(c)
    BY <2>1, <2>3, SourceVoided
  <2> HIDE DEF e
  <2>5. e \in B
    BY <2>1, <2>4 DEF VoidMade
  <2> QED BY <2>5 DEF e
<1>5. Voided(ap) = VoidedAll(book, S, who)
  BY DEF Voided, VoidedAll, Each, MapThenFoldSet
<1> HIDE DEF S, B, who
<1>6. VoidedAll(book, S, who) \in B
  BY <1>2, <1>3, <1>4, EachVoided
<1> QED BY <1>5, <1>6 DEF B

-----------------------------------------------------------------------------
(* Debits: their state, and their reversal *)

LEMMA DebitSet ==
    ASSUME NEW b, Fits(b), NEW d \in DOMAIN b.debits, NEW state \in {"held", "captured", "released", "reversed"},
           NEW c, c = [b EXCEPT !.debits[d].state = state]
    PROVE  Fits(c) /\ c.cache = b.cache /\ c.lots = b.lots /\ \A x : Available(c, x) = Available(b, x)
<1>1. b \in Books
  BY DEF Fits
<1>2. PICK row \in DebitRow : row = b.debits[d]
  BY <1>1, RowsIn
<1> DEFINE new == [row EXCEPT !.state = state]
           all == [b.debits EXCEPT ![d] = new]
<1>3. new \in DebitRow /\ new.account = row.account
  BY DEF DebitRow
<1>4. all = [b.debits EXCEPT ![d].state = state]
  BY <1>2
<1> HIDE DEF new
<1>5. /\ all \in Seq(DebitRow) /\ DOMAIN all = DOMAIN b.debits /\ all[d] = new
      /\ \A k \in DOMAIN b.debits : k # d => all[k] = b.debits[k]
  <2>1. b.debits \in Seq(DebitRow)
    BY <1>1, BookIs
  <2> QED BY <1>3, <2>1, RowSet
<1>6. c = [b EXCEPT !.debits = all]
  BY <1>1, <1>4 DEF Books
<1> HIDE DEF all
<1>7. /\ c \in Books /\ c.debits = all
      /\ c.sources = b.sources /\ c.lots = b.lots /\ c.apps = b.apps /\ c.debts = b.debts
      /\ c.allocs = b.allocs /\ c.cache = b.cache
  BY <1>1, <1>5, <1>6 DEF Books
<1>8. \A k \in DOMAIN b.debits : c.debits[k].account = b.debits[k].account
  <2> TAKE k \in DOMAIN b.debits
  <2>1. CASE k = d
    BY <1>2, <1>3, <1>5, <1>7, <2>1
  <2>2. CASE k # d
    BY <1>5, <1>7, <2>2
  <2> QED BY <2>1, <2>2
<1>9. AllocsLinked(c)
  <2>1. Linked(b)
    BY DEF Fits
  <2> QED BY <1>5, <1>7, <1>8, <2>1 DEF AllocsLinked, Linked
<1>10. Fits(c)
  <2>1. \A l \in DOMAIN b.lots : LotMoves(b.lots[l], c.lots[l])
    BY <1>7 DEF LotMoves
  <2> QED BY <1>7, <1>9, <2>1, LotsMove
<1>11. \A x : Available(c, x) = Available(b, x)
  BY <1>7 DEF Available
<1> QED BY <1>7, <1>10, <1>11

LEMMA CaptureFits ==
    ASSUME Fits(book), CacheAgrees(book), NEW d \in DOMAIN book.debits
    PROVE  LET c == [book EXCEPT !.debits[d].state = "captured"]
           IN  Fits(c) /\ CacheAgrees(c)
<1> DEFINE c == [book EXCEPT !.debits[d].state = "captured"]
<1>1. PICK state \in {"held", "captured", "released", "reversed"} : state = "captured"
  OBVIOUS
<1>2. c = [book EXCEPT !.debits[d].state = state]
  BY <1>1
<1> HIDE DEF c
<1>3. Fits(c) /\ c.cache = book.cache /\ \A x : Available(c, x) = Available(book, x)
  BY SMTT(40), <1>2, DebitSet
<1>4. CacheAgrees(c)
  BY <1>3 DEF CacheAgrees
<1> QED BY <1>3, <1>4 DEF c

\* The allocations of a debit are reversed, its state is set, and the balance
\* of its account is written again.
LEMMA ReversedFits ==
    ASSUME Fits(book), CacheAgrees(book), NEW d \in DOMAIN book.debits,
           NEW state \in {"held", "captured", "released", "reversed"}
    PROVE  Fits(Reversed(d, state)) /\ CacheAgrees(Reversed(d, state))
<1> DEFINE als == {al \in DOMAIN book.allocs : book.allocs[al].debit = d}
           a == book.debits[d].account
           B == Made(book, a)
           done == ReversedAll(book, als)
           c == [done EXCEPT !.debits[d].state = state]
<1>1. book \in Books /\ Linked(book)
  BY DEF Fits
<1>2. a \in Accounts
  <2>1. book.debits[d] \in DebitRow
    BY <1>1, RowsIn
  <2> QED BY <2>1 DEF DebitRow
<1>3. Len(book.allocs) \in Nat /\ als \in SUBSET (1..Len(book.allocs))
  BY <1>1, BookIs, RowsOf
<1>4. book \in B
  BY <1>1, KeepsSelf DEF Made
<1>5. ASSUME NEW k \in als, NEW e \in B PROVE ReverseAllocation(e, k) \in B
  <2>1. Fits(e) /\ Keeps(book, e) /\ Linked(e)
    BY DEF Made, Fits
  <2>2. k \in DOMAIN book.allocs /\ book.allocs[k].debit = d
    OBVIOUS
  <2>3. /\ k \in DOMAIN e.allocs /\ e.allocs[k].debit = d /\ e.debits = book.debits
    BY <2>1, <2>2 DEF Keeps
  <2>4. e.lots[e.allocs[k].lot].account = a
    BY <2>1, <2>3 DEF Linked
  <2> DEFINE r == ReverseAllocation(e, k)
  <2> HIDE DEF a
  <2>5. r \in Made(e, a)
    BY <2>1, <2>3, <2>4, ReversalMade
  <2> HIDE DEF r
  <2>6. r \in B
    BY <2>5, MadeOn DEF Made
  <2> QED BY <2>6 DEF r
<1> HIDE DEF als, a, B
<1>6. done \in B
  BY <1>3, <1>4, <1>5, EachReversed
<1>7. Reversed(d, state) = WriteCache(c, a)
  BY DEF Reversed, ReversedAll, als, a
<1> HIDE DEF done
<1>8. Fits(done) /\ Keeps(book, done) /\ (CacheBut(book, a) => CacheBut(done, a))
  BY <1>6 DEF B, Made
<1>9. d \in DOMAIN done.debits
  BY <1>8 DEF Keeps
<1> HIDE DEF c
<1>10. Fits(c) /\ c.cache = done.cache /\ \A x : Available(c, x) = Available(done, x)
  BY SMTT(40), <1>8, <1>9, DebitSet DEF c
<1>11. c \in Books
  BY <1>10 DEF Fits
<1>12. CacheBut(c, a)
  <2>1. CacheBut(book, a)
    BY DEF CacheAgrees, CacheBut
  <2> QED BY <1>8, <1>10, <2>1 DEF CacheBut
<1>13. WriteCache(c, a) \in Books /\ SameTables(c, WriteCache(c, a)) /\ (CacheBut(c, a) => CacheAgrees(WriteCache(c, a)))
  BY <1>2, <1>11, CacheWritten
<1>14. Fits(WriteCache(c, a))
  BY <1>10, <1>11, <1>13, TablesFit
<1> QED BY <1>7, <1>12, <1>13, <1>14

-----------------------------------------------------------------------------
(* C: a source is opened and distributed *)

SourceOpened(b, row) == [b EXCEPT !.sources = Append(b.sources, row)]

LEMMA OpenedFits ==
    ASSUME NEW b, Fits(b), NEW row \in SourceRow, row.state # "voided"
    PROVE  LET c == SourceOpened(b, row)
           IN  /\ Fits(c) /\ c.cache = b.cache /\ c.lots = b.lots
               /\ Len(c.sources) \in DOMAIN c.sources /\ c.sources[Len(c.sources)] = row
<1> DEFINE c == SourceOpened(b, row)
           sources == Append(b.sources, row)
<1>1. b \in Books /\ Linked(b) /\ Gone(b) /\ Blamed(b)
  BY DEF Fits
<1>2. /\ sources \in Seq(SourceRow) /\ Len(sources) = Len(b.sources) + 1
      /\ DOMAIN sources = DOMAIN b.sources \cup {Len(b.sources) + 1} /\ Len(b.sources) + 1 \notin DOMAIN b.sources
      /\ (\A k \in DOMAIN b.sources : sources[k] = b.sources[k]) /\ sources[Len(b.sources) + 1] = row
  BY <1>1, BookIs, Added
<1>3. c = [b EXCEPT !.sources = sources]
  BY DEF SourceOpened
<1> HIDE DEF c, sources
<1>4. /\ c \in Books /\ c.sources = sources /\ c.lots = b.lots /\ c.apps = b.apps /\ c.debts = b.debts
      /\ c.debits = b.debits /\ c.allocs = b.allocs /\ c.cache = b.cache
  BY <1>1, <1>2, <1>3 DEF Books
<1>5. \A k : IsGone(c, k) => IsGone(b, k)
  BY <1>2, <1>4 DEF IsGone
<1>6. Linked(c)
  BY SMTT(40), <1>1, <1>2, <1>4 DEF Linked
<1>7. Gone(c)
  BY <1>1, <1>4, <1>5 DEF Gone
<1>8. Blamed(c)
  <2> SUFFICES ASSUME NEW d \in DOMAIN c.debts
               PROVE  /\ CauseOf(c, c.debts[d].lot) \in Approvals /\ voids[CauseOf(c, c.debts[d].lot)] # "completed"
                      /\ c.debts[d].identity = voidedAs[CauseOf(c, c.debts[d].lot)]
    BY DEF Blamed
  <2>1. d \in DOMAIN b.debts /\ c.debts[d] = b.debts[d] /\ b.lots[b.debts[d].lot].source \in DOMAIN b.sources
    BY <1>1, <1>4 DEF Linked
  <2>2. CauseOf(c, c.debts[d].lot) = CauseOf(b, b.debts[d].lot)
    BY <1>2, <1>4, <2>1 DEF CauseOf
  <2> QED BY <1>1, <2>1, <2>2 DEF Blamed
<1>9. Fits(c)
  BY <1>4, <1>6, <1>7, <1>8 DEF Fits
<1> QED BY <1>2, <1>4, <1>9 DEF c

LEMMA CreditedFits ==
    ASSUME Fits(book), CacheAgrees(book), NEW a \in Accounts, NEW amount \in Nat, NEW cause \in Approvals \cup {None}
    PROVE  Fits(Credited(a, amount, cause)) /\ CacheAgrees(Credited(a, amount, cause))
<1>1. PICK state \in {"applying", "applied", "voided"} : state = "applying"
  OBVIOUS
<1> DEFINE row == [account |-> a, cause |-> cause, gross |-> amount, unapplied |-> amount, state |-> state]
           b == SourceOpened(book, row)
           s == Len(b.sources)
           c == Distribute(b, s, 0, 0)
           e == WriteCache(c, a)
<1>2. row \in SourceRow /\ row.account = a /\ row.state # "voided"
  BY <1>1 DEF SourceRow
<1>3. Credited(a, amount, cause) = e
  BY <1>1 DEF Credited, SourceOpened
<1> HIDE DEF row
<1>4. /\ Fits(b) /\ b.cache = book.cache /\ b.lots = book.lots /\ s \in DOMAIN b.sources /\ b.sources[s] = row
  BY <1>2, OpenedFits
<1> HIDE DEF b, s
<1>5. Spread(b, c, s, 0)
  <2>1. b \in Books /\ 0 \in Nat
    BY <1>4 DEF Fits
  <2> QED BY <1>4, <2>1, DistributeSpreads
<1> HIDE DEF c
<1>6. Fits(c) /\ \A x : x # a => SameLots(b, c, x)
  BY <1>2, <1>4, <1>5, SpreadKeeps
<1>7. c.cache = b.cache /\ c \in Books /\ b \in Books /\ book \in Books
  BY <1>4, <1>5, <1>6 DEF Spread, Fits
<1>8. CacheBut(b, a)
  BY <1>4 DEF CacheAgrees, CacheBut, Available
<1>9. CacheBut(c, a)
  BY <1>6, <1>7, <1>8, CacheStays
<1>10. e \in Books /\ SameTables(c, e) /\ CacheAgrees(e)
  BY <1>7, <1>9, CacheWritten
<1> HIDE DEF e
<1>11. Fits(e)
  BY <1>6, <1>7, <1>10, TablesFit
<1> QED BY <1>3, <1>10, <1>11

-----------------------------------------------------------------------------
(* D: a debit takes the account's active lots *)

LEMMA SpendIs ==
    ASSUME NEW lot \in LotRow, NEW x \in Int
    PROVE  /\ Spend(lot, x) \in LotRow /\ Spend(lot, x).account = lot.account /\ Spend(lot, x).source = lot.source
           /\ Spend(lot, x).state # "voided"
<1>1. PICK y \in Int, z \in Int : y = lot.available - x /\ z = lot.consumed + x
  BY DEF LotRow
<1>2. PICK state \in {"active", "exhausted", "voided"} : state = IF lot.available = x THEN "exhausted" ELSE "active"
  OBVIOUS
<1> DEFINE new == Spend(lot, x)
<1>3. new = [lot EXCEPT !.available = y, !.consumed = z, !.state = state]
  BY <1>1, <1>2 DEF Spend
<1> HIDE DEF new
<1>4. new \in LotRow /\ new.account = lot.account /\ new.source = lot.source /\ new.state = state
  BY <1>3 DEF LotRow
<1> QED BY <1>2, <1>4 DEF new

TakenFor(a, amount) == Allot([l \in ActiveLots(a) |-> book.lots[l].available], FALSE, amount)
TakenLots(a, amount) == {l \in ActiveLots(a) : TakenFor(a, amount)[l] > 0}
SpentOn(a, amount) ==
    [l \in DOMAIN book.lots |->
        IF l \in ActiveLots(a) THEN Spend(book.lots[l], TakenFor(a, amount)[l]) ELSE book.lots[l]]
AllocFor(d, l, amount) == [debit |-> d, lot |-> l, amount |-> amount, reversal |-> "none"]
NewAllocs(a, amount) ==
    [k \in DOMAIN InOrder(TakenLots(a, amount)) |->
        AllocFor(Len(book.debits) + 1, InOrder(TakenLots(a, amount))[k],
                 TakenFor(a, amount)[InOrder(TakenLots(a, amount))[k]])]
NewDebit(a, amount, kind) ==
    [account |-> a, kind |-> kind, amount |-> amount, state |-> IF kind = "sale" THEN "held" ELSE "captured"]
DebitMade(a, amount, kind) ==
    [book EXCEPT !.debits = Append(book.debits, NewDebit(a, amount, kind)),
                 !.allocs = book.allocs \o NewAllocs(a, amount), !.lots = SpentOn(a, amount)]

LEMMA DebitedIs ==
    ASSUME NEW a, NEW amount, NEW kind
    PROVE  Debited(a, amount, kind) = WriteCache(DebitMade(a, amount, kind), a)
BY DEF Debited, DebitMade, SpentOn, NewAllocs, AllocFor, NewDebit, TakenFor, TakenLots

LEMMA TakenIs ==
    ASSUME book \in Books, NEW a, NEW amount \in Int
    PROVE  \A l \in ActiveLots(a) : /\ l \in DOMAIN book.lots /\ book.lots[l].account = a /\ book.lots[l].state = "active"
                                    /\ TakenFor(a, amount)[l] \in Int
<1> DEFINE S == ActiveLots(a)
           cap == [l \in S |-> book.lots[l].available]
<1>1. \A l \in S : l \in DOMAIN book.lots /\ book.lots[l].account = a /\ book.lots[l].state = "active"
  BY DEF ActiveLots
<1>2. Len(book.lots) \in Nat /\ S \in SUBSET (1..Len(book.lots))
  BY <1>1, BookIs, RowsOf
<1>3. \A l \in S : cap[l] \in Int
  <2> TAKE l \in S
  <2>1. book.lots[l] \in LotRow
    BY <1>1, RowsIn
  <2> QED BY <2>1 DEF LotRow
<1>4. TakenFor(a, amount) = Allot(cap, FALSE, amount) /\ DOMAIN cap = S
  BY DEF TakenFor
<1> HIDE DEF S, cap
<1>5. \A l \in S : Allot(cap, FALSE, amount)[l] \in Int
  BY <1>2, <1>3, <1>4, AllotBounds
<1> QED BY <1>1, <1>4, <1>5 DEF S

-----------------------------------------------------------------------------
\* A debit spends lots of its account and of no other.
LEMMA SpentOnIs ==
    ASSUME book \in Books, NEW a, NEW amount \in Int
    PROVE  /\ SpentOn(a, amount) \in Seq(LotRow) /\ DOMAIN SpentOn(a, amount) = DOMAIN book.lots
           /\ \A l \in DOMAIN book.lots :
                 /\ LotMoves(book.lots[l], SpentOn(a, amount)[l])
                 /\ (book.lots[l].account # a => SpentOn(a, amount)[l] = book.lots[l])
<1> DEFINE lots == SpentOn(a, amount)
<1>1. DOMAIN lots = DOMAIN book.lots /\ lots = [l \in DOMAIN book.lots |-> lots[l]]
      /\ \A l \in DOMAIN book.lots :
            lots[l] = IF l \in ActiveLots(a) THEN Spend(book.lots[l], TakenFor(a, amount)[l]) ELSE book.lots[l]
  BY DEF SpentOn
<1>2. \A l \in DOMAIN book.lots : book.lots[l] \in LotRow
  BY RowsIn
<1> HIDE DEF lots
<1>3. ASSUME NEW l \in DOMAIN book.lots
      PROVE  /\ lots[l] \in LotRow /\ LotMoves(book.lots[l], lots[l])
             /\ (book.lots[l].account # a => lots[l] = book.lots[l])
  <2>1. CASE l \in ActiveLots(a)
    <3>1. book.lots[l].account = a /\ book.lots[l].state = "active" /\ TakenFor(a, amount)[l] \in Int
      BY <2>1, TakenIs
    <3>2. lots[l] = Spend(book.lots[l], TakenFor(a, amount)[l])
      BY <1>1, <2>1
    <3>3. /\ lots[l] \in LotRow /\ lots[l].account = book.lots[l].account /\ lots[l].source = book.lots[l].source
          /\ lots[l].state # "voided"
      BY <1>2, <3>1, <3>2, SpendIs
    <3> QED BY <3>1, <3>3 DEF LotMoves
  <2>2. CASE l \notin ActiveLots(a)
    <3>1. lots[l] = book.lots[l]
      BY <1>1, <2>2
    <3> QED BY <1>2, <3>1 DEF LotMoves
  <2> QED BY <2>1, <2>2
<1>4. lots \in Seq(LotRow)
  BY <1>1, <1>3, BookIs, RowsSet
<1> QED BY <1>1, <1>3, <1>4 DEF lots

LEMMA NewAllocsAre ==
    ASSUME book \in Books, NEW a, NEW amount \in Int
    PROVE  /\ NewAllocs(a, amount) \in Seq(AllocRow)
           /\ \A k \in DOMAIN NewAllocs(a, amount) :
                 /\ NewAllocs(a, amount)[k].debit = Len(book.debits) + 1
                 /\ NewAllocs(a, amount)[k].lot \in ActiveLots(a)
<1> DEFINE S == TakenLots(a, amount)
           q == InOrder(S)
           new == NewAllocs(a, amount)
<1>1. S \in SUBSET ActiveLots(a) /\ \A l \in S : TakenFor(a, amount)[l] > 0
  BY DEF TakenLots
<1>2. \A l \in S : l \in DOMAIN book.lots /\ TakenFor(a, amount)[l] \in Nat
  BY <1>1, TakenIs
<1>3. Len(book.lots) \in Nat /\ S \in SUBSET (1..Len(book.lots)) /\ Len(book.debits) \in Nat
  BY <1>2, BookIs, RowsOf
<1>4. /\ DOMAIN new = DOMAIN q
      /\ \A k \in DOMAIN q : new[k] = AllocFor(Len(book.debits) + 1, q[k], TakenFor(a, amount)[q[k]])
      /\ new = [k \in DOMAIN q |-> new[k]]
  BY DEF NewAllocs
<1> HIDE DEF S, new
<1>5. Cardinality(S) \in Nat /\ DOMAIN q = 1..Cardinality(S) /\ \A k \in DOMAIN q : q[k] \in S
  BY <1>3, InOrderIs
<1> HIDE DEF q
<1>6. ASSUME NEW k \in DOMAIN q
      PROVE  new[k] \in AllocRow /\ new[k].debit = Len(book.debits) + 1 /\ new[k].lot \in ActiveLots(a)
  <2>1. PICK d \in Nat, l \in Nat, x \in Nat : d = Len(book.debits) + 1 /\ l = q[k] /\ x = TakenFor(a, amount)[q[k]]
    BY <1>2, <1>3, <1>5
  <2>2. PICK reversal \in {"none", "live", "voided"} : reversal = "none"
    OBVIOUS
  <2>3. new[k] = [debit |-> d, lot |-> l, amount |-> x, reversal |-> reversal]
    BY <1>4, <2>1, <2>2 DEF AllocFor
  <2>4. new[k] \in AllocRow /\ new[k].debit = d /\ new[k].lot = l
    BY <2>3 DEF AllocRow
  <2> QED BY <1>1, <1>5, <2>1, <2>4
<1>7. new \in [1..Cardinality(S) -> AllocRow]
  BY <1>4, <1>5, <1>6
<1>8. new \in Seq(AllocRow)
  BY <1>5, <1>7, RowsFrom
<1> QED BY <1>4, <1>6, <1>8 DEF new

LEMMA DebitedFits ==
    ASSUME Fits(book), CacheAgrees(book), NEW a \in Accounts, NEW amount \in Nat,
           NEW kind \in {"sale", "manual_adjustment"}
    PROVE  Fits(Debited(a, amount, kind)) /\ CacheAgrees(Debited(a, amount, kind))
<1> DEFINE row == NewDebit(a, amount, kind)
           debits == Append(book.debits, row)
           new == NewAllocs(a, amount)
           allocs == book.allocs \o new
           lots == SpentOn(a, amount)
           c == DebitMade(a, amount, kind)
           e == WriteCache(c, a)
<1>1. book \in Books /\ Linked(book)
  BY DEF Fits
<1>2. row \in DebitRow /\ row.account = a
  <2>1. PICK state \in {"held", "captured", "released", "reversed"} : state = IF kind = "sale" THEN "held" ELSE "captured"
    OBVIOUS
  <2>2. row = [account |-> a, kind |-> kind, amount |-> amount, state |-> state]
    BY <2>1 DEF NewDebit
  <2> HIDE DEF row
  <2> QED BY <2>2 DEF DebitRow
<1> HIDE DEF row
<1>3. /\ debits \in Seq(DebitRow) /\ DOMAIN debits = DOMAIN book.debits \cup {Len(book.debits) + 1}
      /\ (\A d \in DOMAIN book.debits : debits[d] = book.debits[d]) /\ debits[Len(book.debits) + 1] = row
  BY <1>1, <1>2, BookIs, Added
<1>4. /\ new \in Seq(AllocRow)
      /\ \A k \in DOMAIN new : new[k].debit = Len(book.debits) + 1 /\ new[k].lot \in ActiveLots(a)
  BY <1>1, NewAllocsAre
<1> HIDE DEF new
<1>5. /\ allocs \in Seq(AllocRow) /\ (\A al \in DOMAIN book.allocs : allocs[al] = book.allocs[al])
      /\ \A al \in DOMAIN allocs \ DOMAIN book.allocs : \E k \in DOMAIN new : allocs[al] = new[k]
  BY <1>1, <1>4, BookIs, Joined
<1>6. /\ lots \in Seq(LotRow) /\ DOMAIN lots = DOMAIN book.lots
      /\ \A l \in DOMAIN book.lots : /\ LotMoves(book.lots[l], lots[l])
                                     /\ (book.lots[l].account # a => lots[l] = book.lots[l])
  BY <1>1, SpentOnIs
<1>7. c = [book EXCEPT !.debits = debits, !.allocs = allocs, !.lots = lots]
  BY DEF DebitMade, debits, allocs, row, new
<1> HIDE DEF debits, allocs, lots, c
<1>8. /\ c \in Books /\ c.debits = debits /\ c.allocs = allocs /\ c.lots = lots
      /\ c.sources = book.sources /\ c.apps = book.apps /\ c.debts = book.debts /\ c.cache = book.cache
  BY <1>1, <1>3, <1>5, <1>6, <1>7 DEF Books
<1>9. AllocsLinked(c)
  <2> SUFFICES ASSUME NEW al \in DOMAIN allocs
               PROVE  /\ allocs[al].debit \in DOMAIN debits /\ allocs[al].lot \in DOMAIN lots
                      /\ lots[allocs[al].lot].account = debits[allocs[al].debit].account
    BY <1>8 DEF AllocsLinked
  <2>1. CASE al \in DOMAIN book.allocs
    <3>1. /\ book.allocs[al].debit \in DOMAIN book.debits /\ book.allocs[al].lot \in DOMAIN book.lots
          /\ book.lots[book.allocs[al].lot].account = book.debits[book.allocs[al].debit].account
      BY <1>1, <2>1 DEF Linked
    <3> QED BY <1>3, <1>5, <1>6, <2>1, <3>1 DEF LotMoves
  <2>2. CASE al \notin DOMAIN book.allocs
    <3>1. PICK k \in DOMAIN new : allocs[al] = new[k]
      BY <1>5, <2>2
    <3>2. allocs[al].debit = Len(book.debits) + 1 /\ allocs[al].lot \in ActiveLots(a)
      BY <1>4, <3>1
    <3>3. allocs[al].lot \in DOMAIN book.lots /\ book.lots[allocs[al].lot].account = a
      BY <3>2 DEF ActiveLots
    <3> QED BY <1>2, <1>3, <1>6, <3>2, <3>3 DEF LotMoves
  <2> QED BY <2>1, <2>2
<1>10. Fits(c)
  BY <1>6, <1>8, <1>9, LotsMove
<1>11. \A x : x # a => SameLots(book, c, x)
  BY <1>6, <1>8 DEF SameLots, LotMoves
<1>12. CacheBut(c, a)
  <2>1. CacheBut(book, a)
    BY DEF CacheAgrees, CacheBut
  <2> QED BY <1>1, <1>8, <1>11, <2>1, CacheStays
<1>13. e \in Books /\ SameTables(c, e) /\ CacheAgrees(e)
  BY <1>8, <1>12, CacheWritten
<1>14. Debited(a, amount, kind) = e
  BY DebitedIs DEF c
<1> HIDE DEF e
<1>15. Fits(e)
  BY <1>8, <1>10, <1>13, TablesFit
<1> QED BY <1>13, <1>14, <1>15

-----------------------------------------------------------------------------
(* The invariant of the wallet, in its first states and under every action *)

WalletTyped ==
    /\ scene \in Scenes
    /\ identity \in [Accounts -> Identities]
    /\ voids \in [Approvals -> {"completed", "voiding", "voided"}]
    /\ voidedAs \in [Approvals -> Identities \cup {None}]

WalletIInv == WalletTyped /\ Fits(book) /\ CacheAgrees(book)

LEMMA SetListed ==
    ASSUME NEW S, IsFiniteSet(S)
    PROVE  LET q == SetToSeq(S)
           IN  /\ Cardinality(S) \in Nat /\ DOMAIN q = 1..Cardinality(S) /\ q \in [1..Cardinality(S) -> S]
               /\ \A j, k \in DOMAIN q : q[j] = q[k] => j = k
               /\ \A x \in S : \E k \in DOMAIN q : q[k] = x
<1> DEFINE n == Cardinality(S)
           q == SetToSeq(S)
<1>1. n \in Nat /\ ExistsBijection(1..n, S)
  BY FS_CardinalityType
<1>2. PICK f \in [1..n -> S] : IsInjective(f)
  BY <1>1 DEF ExistsBijection, Bijection, Injection
<1>3. q \in [1..n -> S] /\ IsInjective(q)
  BY <1>2 DEF SetToSeq
<1>4. q \in Injection(1..n, S)
  BY <1>3 DEF Injection
<1>5. IsFiniteSet(1..n) /\ Cardinality(1..n) = n
  BY <1>1, FS_Interval
<1> HIDE DEF q, n
<1>6. q \in Surjection(1..n, S)
  BY <1>4, <1>5, FS_Injection DEF n
<1> QED BY <1>1, <1>3, <1>6 DEF IsInjective, Surjection, q, n

LEMMA OpeningLots ==
    ASSUME NEW S, IsFiniteSet(S), S \subseteq Accounts, NEW baseline \in [Accounts -> Nat], NEW lots,
           lots = [k \in DOMAIN SetToSeq(S) |-> NewLot(SetToSeq(S)[k], 0, baseline[SetToSeq(S)[k]])]
    PROVE  /\ lots \in Seq(LotRow) /\ DOMAIN lots = DOMAIN SetToSeq(S)
           /\ \A k \in DOMAIN lots : /\ lots[k].account = SetToSeq(S)[k] /\ lots[k].available = baseline[SetToSeq(S)[k]]
                                     /\ lots[k].source = 0 /\ lots[k].state = "active"
<1> DEFINE n == Cardinality(S)
           q == SetToSeq(S)
<1>1. n \in Nat /\ DOMAIN q = 1..n /\ q \in [1..n -> S]
  BY SetListed
<1> HIDE DEF n, q
<1>2. ASSUME NEW a \in Accounts, NEW x \in Nat
      PROVE  /\ NewLot(a, 0, x) \in LotRow /\ NewLot(a, 0, x).account = a /\ NewLot(a, 0, x).available = x
             /\ NewLot(a, 0, x).source = 0 /\ NewLot(a, 0, x).state = "active"
  <2>1. PICK z \in Nat, state \in {"active", "exhausted", "voided"} : z = 0 /\ state = "active"
    OBVIOUS
  <2>2. NewLot(a, 0, x) = [account |-> a, source |-> z, original |-> x, available |-> x, consumed |-> z,
                           withheld |-> z, state |-> state]
    BY <2>1 DEF NewLot
  <2> DEFINE new == NewLot(a, 0, x)
  <2>3. new = [account |-> a, source |-> z, original |-> x, available |-> x, consumed |-> z, withheld |-> z, state |-> state]
    BY <2>2
  <2> HIDE DEF new
  <2>4. new \in LotRow /\ new.account = a /\ new.available = x /\ new.source = z /\ new.state = state
    BY <2>3 DEF LotRow
  <2> QED BY <2>1, <2>4 DEF new
<1>3. lots = [k \in 1..n |-> NewLot(q[k], 0, baseline[q[k]])]
  BY <1>1 DEF q
<1>4. \A k \in 1..n : q[k] \in Accounts /\ baseline[q[k]] \in Nat
  BY <1>1
<1>5. lots \in [1..n -> LotRow]
  BY <1>2, <1>3, <1>4
<1>6. lots \in Seq(LotRow)
  BY <1>1, <1>5, RowsFrom
<1> QED BY <1>1, <1>2, <1>3, <1>4, <1>6 DEF q

LEMMA WalletIInvInit ==
    ASSUME Init
    PROVE  WalletIInv
<1> DEFINE S == {a \in Accounts : scene.baseline[a] > 0}
           opening == scene.baseline
           q == SetToSeq(S)
<1>1. opening \in [Accounts -> Nat] /\ IsFiniteSet(S) /\ S \subseteq Accounts
  <2>1. scene \in [actors: SUBSET Accounts, baseline: [Accounts -> Nat], amounts: SUBSET (Nat \ {0}),
                   kinds: SUBSET {"sale", "manual_adjustment"}, rebinds: Nat]
    BY WalletAssumption DEF Init
  <2>2. opening \in [Accounts -> Nat]
    BY <2>1
  <2>3. IsFiniteSet(S)
    BY WalletAssumption, FS_Subset
  <2> QED BY <2>2, <2>3
<1>2. WalletTyped
  BY WalletAssumption DEF WalletTyped, Init
<1>3. book = [sources |-> <<>>, debits |-> <<>>, allocs |-> <<>>, debts |-> <<>>, apps |-> <<>>, writeoffs |-> <<>>,
              cache |-> opening, lots |-> [k \in DOMAIN q |-> NewLot(q[k], 0, opening[q[k]])]]
  BY DEF Init, Opening
<1>4. /\ book.sources = <<>> /\ book.debits = <<>> /\ book.allocs = <<>> /\ book.debts = <<>> /\ book.apps = <<>>
      /\ book.writeoffs = <<>> /\ book.cache = opening /\ book.lots = [k \in DOMAIN q |-> NewLot(q[k], 0, opening[q[k]])]
  BY <1>3
<1>5. /\ book.lots \in Seq(LotRow) /\ DOMAIN book.lots = DOMAIN q
      /\ \A k \in DOMAIN q : /\ book.lots[k].account = q[k] /\ book.lots[k].available = opening[q[k]]
                             /\ book.lots[k].source = 0 /\ book.lots[k].state = "active"
  <2> HIDE DEF opening
  <2> DEFINE lots == book.lots
  <2>1. lots = [k \in DOMAIN SetToSeq(S) |-> NewLot(SetToSeq(S)[k], 0, opening[SetToSeq(S)[k]])]
    BY <1>4
  <2> HIDE DEF lots, S
  <2>2. /\ lots \in Seq(LotRow) /\ DOMAIN lots = DOMAIN SetToSeq(S)
        /\ \A k \in DOMAIN lots : /\ lots[k].account = SetToSeq(S)[k] /\ lots[k].available = opening[SetToSeq(S)[k]]
                                  /\ lots[k].source = 0 /\ lots[k].state = "active"
    BY <1>1, <2>1, OpeningLots
  <2> QED BY <2>2 DEF lots
<1>6. /\ \A j, k \in DOMAIN q : q[j] = q[k] => j = k
      /\ \A x \in S : \E k \in DOMAIN q : q[k] = x
      /\ \A k \in DOMAIN q : q[k] \in S
  BY <1>1, SetListed
<1>7. \A a \in Accounts : a \notin S => opening[a] = 0
  BY <1>1
<1>8. \A a \in S : a \in Accounts /\ opening[a] \in Nat
  BY <1>1
<1> HIDE DEF S, opening, q
<1>9. book \in Books
  <2>1. PICK sources \in Seq(SourceRow), debits \in Seq(DebitRow), allocs \in Seq(AllocRow), debts \in Seq(DebtRow),
             apps \in Seq(AppRow), writeoffs \in Seq(WriteoffRow), cache \in [Accounts -> Int], lots \in Seq(LotRow) :
             /\ sources = <<>> /\ debits = <<>> /\ allocs = <<>> /\ debts = <<>> /\ apps = <<>> /\ writeoffs = <<>>
             /\ cache = opening /\ lots = book.lots
    <3>1. \A R : <<>> \in Seq(R)
      BY EmptySeq
    <3>2. opening \in [Accounts -> Int]
      BY <1>1
    <3> QED BY <1>5, <3>1, <3>2
  <2>2. book = [sources |-> sources, debits |-> debits, allocs |-> allocs, debts |-> debts, apps |-> apps,
                writeoffs |-> writeoffs, cache |-> cache, lots |-> lots]
    BY <1>3, <1>4, <2>1
  <2> QED BY <2>2 DEF Books
<1>10. DOMAIN book.sources = {} /\ DOMAIN book.apps = {} /\ DOMAIN book.debts = {} /\ DOMAIN book.allocs = {}
  BY <1>4
<1>11. Linked(book)
  BY <1>5, <1>10 DEF Linked
<1>12. Gone(book)
  BY <1>5, <1>10 DEF Gone, IsGone
<1>13. Blamed(book)
  BY <1>10 DEF Blamed
<1>14. ASSUME NEW a \in Accounts PROVE book.cache[a] = Available(book, a)
  <2> DEFINE f == [l \in DOMAIN book.lots |-> book.lots[l].available]
             T == {l \in DOMAIN book.lots : book.lots[l].account = a /\ book.lots[l].state # "voided"}
  <2>1. Available(book, a) = SumFunctionOnSet(f, T)
    BY DEF Available
  <2>2. CASE a \in S
    <3>1. PICK k \in DOMAIN q : q[k] = a
      BY <1>6, <2>2
    <3>2. T = {k}
      BY <1>5, <1>6, <3>1
    <3>3. f[k] = opening[a] /\ opening[a] \in Nat
      BY <1>5, <1>8, <2>2, <3>1
    <3> HIDE DEF f, T
    <3>4. IsFiniteSet(T) /\ (\A x \in T : f[x] \in Int) /\ k \in T /\ T \ {k} = {}
      <4>1. IsFiniteSet({k})
        BY FS_Singleton
      <4> QED BY <3>2, <3>3, <4>1
    <3>5. SumFunctionOnSet(f, T) = f[k] + SumFunctionOnSet(f, T \ {k})
      BY <3>4, SumOfAny
    <3>6. SumFunctionOnSet(f, T \ {k}) = 0
      BY <3>4, SumOfNone
    <3> QED BY <1>4, <2>1, <3>3, <3>5, <3>6
  <2>3. CASE a \notin S
    <3>1. T = {}
      BY <1>5, <1>6, <2>3
    <3>2. SumFunctionOnSet(f, T) = 0
      BY <3>1, SumOfNone
    <3> QED BY <1>4, <1>7, <2>1, <2>3, <3>2
  <2> QED BY <2>2, <2>3
<1>15. CacheAgrees(book)
  BY <1>14 DEF CacheAgrees
<1> QED BY <1>2, <1>9, <1>11, <1>12, <1>13, <1>15 DEF WalletIInv, Fits

-----------------------------------------------------------------------------
(* Every action keeps the invariant of the wallet *)

\* What the tables may hold after a step depends on the voids alone.
LEMMA FitsAfter ==
    ASSUME Fits(book'), CacheAgrees(book'), UNCHANGED voidedAs, voids \in [Approvals -> {"completed", "voiding", "voided"}],
           \A ap \in Approvals : voids[ap] # "completed" => voids'[ap] # "completed"
    PROVE  Fits(book)' /\ CacheAgrees(book)'
<1>1. book' \in Books /\ Linked(book') /\ Gone(book') /\ Blamed(book')
  BY DEF Fits
<1>2. Blamed(book)'
  BY <1>1 DEF Blamed, CauseOf
<1>3. (book \in Books)' /\ Linked(book)' /\ Gone(book)' /\ CacheAgrees(book)'
  BY <1>1 DEF Books, SourceRow, LotRow, AppRow, DebtRow, DebitRow, AllocRow, WriteoffRow, Linked, Gone, IsGone, CacheAgrees
<1> QED BY <1>2, <1>3 DEF Fits

LEMMA BlockVoidFits ==
    ASSUME WalletIInv, NEW ap \in Approvals, BlockVoid(ap)
    PROVE  WalletIInv'
<1>1. WalletTyped /\ Fits(book) /\ CacheAgrees(book) /\ book' = book /\ UNCHANGED <<scene, identity>>
  BY DEF WalletIInv, BlockVoid
<1>2. /\ voids[ap] = "completed" /\ voids' = [voids EXCEPT ![ap] = "voiding"]
      /\ voidedAs' = [voidedAs EXCEPT ![ap] = identity[Customer[ap]]]
  BY DEF BlockVoid
<1>3. identity[Customer[ap]] \in Identities
  BY <1>1, WalletAssumption DEF WalletTyped
<1>4. WalletTyped'
  BY <1>1, <1>2, <1>3 DEF WalletTyped
<1>5. Blamed(book)'
  <2> SUFFICES ASSUME NEW d \in DOMAIN book.debts
               PROVE  LET cause == CauseOf(book, book.debts[d].lot)
                      IN  /\ cause \in Approvals /\ voids'[cause] # "completed"
                          /\ book.debts[d].identity = voidedAs'[cause]
    BY <1>1 DEF Blamed, CauseOf
  <2> DEFINE cause == CauseOf(book, book.debts[d].lot)
  <2>1. cause \in Approvals /\ voids[cause] # "completed" /\ book.debts[d].identity = voidedAs[cause]
    BY <1>1 DEF Fits, Blamed
  <2> HIDE DEF cause
  <2>2. cause # ap
    BY <1>2, <2>1
  <2>3. voids'[cause] = voids[cause] /\ voidedAs'[cause] = voidedAs[cause]
    BY <1>1, <1>2, <2>1, <2>2 DEF WalletTyped
  <2> QED BY <2>1, <2>3 DEF cause
<1>6. (book \in Books)' /\ Linked(book)' /\ Gone(book)' /\ CacheAgrees(book)'
  <2>1. book \in Books /\ Linked(book) /\ Gone(book)
    BY <1>1 DEF Fits
  <2> QED
    BY <1>1, <2>1 DEF Books, SourceRow, LotRow, AppRow, DebtRow, DebitRow, AllocRow, WriteoffRow, Linked, Gone, IsGone, CacheAgrees
<1> QED BY <1>4, <1>5, <1>6 DEF WalletIInv, Fits

\* The book after each of the actions that writes it.
LEMMA StepFits ==
    ASSUME WalletIInv, Next
    PROVE  WalletIInv'
<1>1. WalletTyped /\ Fits(book) /\ CacheAgrees(book)
  BY DEF WalletIInv
<1>2. scene \in Scenes /\ scene.actors \subseteq Accounts /\ scene.amounts \subseteq Nat
      /\ scene.kinds \subseteq {"sale", "manual_adjustment"}
  BY <1>1, WalletAssumption DEF WalletTyped
<1>3. ASSUME NEW c, Fits(c), CacheAgrees(c), book' = c, UNCHANGED <<scene, identity, voidedAs>>,
             voids' \in [Approvals -> {"completed", "voiding", "voided"}],
             \A ap \in Approvals : voids[ap] # "completed" => voids'[ap] # "completed"
      PROVE  WalletIInv'
  <2>1. Fits(book)' /\ CacheAgrees(book)'
    BY <1>1, <1>3, FitsAfter DEF WalletTyped
  <2>2. WalletTyped'
    BY <1>1, <1>3 DEF WalletTyped
  <2> QED BY <2>1, <2>2 DEF WalletIInv
<1>4. ASSUME NEW c, Fits(c), CacheAgrees(c), book' = c, UNCHANGED <<scene, identity, voids, voidedAs>>
      PROVE  WalletIInv'
  <2>1. voids' \in [Approvals -> {"completed", "voiding", "voided"}]
    BY <1>1, <1>4 DEF WalletTyped
  <2> QED BY <1>3, <1>4, <2>1
<1>5. ASSUME NEW a \in scene.actors, NEW n \in scene.amounts, NEW cause \in Approvals \cup {None}, Credit(a, n, cause)
      PROVE  WalletIInv'
  <2>1. a \in Accounts /\ n \in Nat
    BY <1>2
  <2>2. Fits(Credited(a, n, cause)) /\ CacheAgrees(Credited(a, n, cause))
    BY <1>1, <2>1, CreditedFits
  <2>3. book' = Credited(a, n, cause) /\ UNCHANGED <<scene, identity, voids, voidedAs>>
    BY <1>5 DEF Credit, Commit
  <2> QED BY <1>4, <2>2, <2>3
<1>6. ASSUME NEW a \in scene.actors, NEW n \in scene.amounts, NEW kind \in scene.kinds, Hold(a, n, kind)
      PROVE  WalletIInv'
  <2>1. a \in Accounts /\ n \in Nat /\ kind \in {"sale", "manual_adjustment"}
    BY <1>2
  <2>2. Fits(Debited(a, n, kind)) /\ CacheAgrees(Debited(a, n, kind))
    BY <1>1, <2>1, DebitedFits
  <2>3. book' = Debited(a, n, kind) /\ UNCHANGED <<scene, identity, voids, voidedAs>>
    BY <1>6 DEF Hold, Commit
  <2> QED BY <1>4, <2>2, <2>3
<1>7. ASSUME NEW d \in DOMAIN book.debits, Capture(d)
      PROVE  WalletIInv'
  <2> DEFINE c == [book EXCEPT !.debits[d].state = "captured"]
  <2>1. Fits(c) /\ CacheAgrees(c)
    BY <1>1, CaptureFits
  <2>2. book' = c /\ UNCHANGED <<scene, identity, voids, voidedAs>>
    BY <1>7 DEF Capture, Commit
  <2> HIDE DEF c
  <2> QED BY <1>4, <2>1, <2>2
<1>8. ASSUME NEW d \in DOMAIN book.debits, Release(d) \/ Refund(d)
      PROVE  WalletIInv'
  <2>1. PICK state \in {"held", "captured", "released", "reversed"} :
            book' = Reversed(d, state) /\ UNCHANGED <<scene, identity, voids, voidedAs>>
    BY <1>8 DEF Release, Refund, Commit
  <2>2. Fits(Reversed(d, state)) /\ CacheAgrees(Reversed(d, state))
    BY <1>1, ReversedFits
  <2> QED BY <1>4, <2>1, <2>2
<1>9. ASSUME NEW ap \in Approvals, WalletReversal(ap)
      PROVE  WalletIInv'
  <2>1. /\ voids[ap] = "voiding" /\ book' = Voided(ap) /\ voids' = [voids EXCEPT ![ap] = "voided"]
        /\ UNCHANGED <<scene, identity, voidedAs>>
    BY <1>9 DEF WalletReversal, Commit
  <2>2. Voided(ap) \in VoidMade(book)
    BY <1>1, <2>1, VoidedMade DEF WalletTyped
  <2>3. Fits(Voided(ap)) /\ CacheAgrees(Voided(ap))
    BY <1>1, <2>2 DEF VoidMade
  <2>4. voids' \in [Approvals -> {"completed", "voiding", "voided"}]
    BY <1>1, <2>1 DEF WalletTyped
  <2>5. \A x \in Approvals : voids[x] # "completed" => voids'[x] # "completed"
    BY <1>1, <2>1 DEF WalletTyped
  <2> QED BY <1>3, <2>1, <2>3, <2>4, <2>5
<1>10. ASSUME NEW a \in Accounts, NEW i \in Identities, Rebind(a, i)
       PROVE  WalletIInv'
  <2>1. identity' = [identity EXCEPT ![a] = i] /\ UNCHANGED <<scene, book, voids, voidedAs>>
    BY <1>10 DEF Rebind
  <2>2. WalletTyped'
    BY <1>1, <2>1 DEF WalletTyped
  <2>3. Fits(book') /\ CacheAgrees(book')
    BY <1>1, <2>1
  <2>4. Fits(book)' /\ CacheAgrees(book)'
    BY <1>1, <2>1, <2>3, FitsAfter DEF WalletTyped
  <2> QED BY <2>2, <2>4 DEF WalletIInv
<1> QED
  BY <1>5, <1>6, <1>7, <1>8, <1>9, <1>10, BlockVoidFits DEF Next

LEMMA WalletStutters ==
    ASSUME WalletIInv, UNCHANGED vars
    PROVE  WalletIInv'
<1>1. WalletTyped /\ Fits(book) /\ CacheAgrees(book) /\ UNCHANGED <<scene, book, identity, voids, voidedAs>>
  BY DEF WalletIInv, vars
<1>2. WalletTyped'
  BY <1>1 DEF WalletTyped
<1>3. Fits(book)' /\ CacheAgrees(book)'
  BY <1>1, FitsAfter DEF WalletTyped
<1> QED BY <1>2, <1>3 DEF WalletIInv

LEMMA VoidsAreFinalFrom ==
    ASSUME WalletIInv
    PROVE  VoidsAreFinal
<1>1. book \in Books /\ Linked(book) /\ Gone(book) /\ Blamed(book)
  BY DEF WalletIInv, Fits
<1>2. VoidedMoneyIsGone
  BY <1>1 DEF Gone, IsGone, VoidedMoneyIsGone, AppsOf
<1>3. OnlyTheCustomerOwes
  BY <1>1 DEF Blamed, CauseOf, OnlyTheCustomerOwes
<1> QED BY <1>2, <1>3 DEF VoidsAreFinal

LEMMA CacheIsTheLotsFrom ==
    ASSUME WalletIInv
    PROVE  CacheIsTheLots
BY DEF WalletIInv, CacheIsTheLots, CacheMatches, CacheAgrees

\* The wallet, for any accounts, identities and approvals and any numbers of
\* credits, debits, voids and rebinds: the cached balances are the money in the
\* lots, and what a void took is gone and owed by nobody but its customer.
THEOREM WalletInductive == Spec => []WalletIInv
<1>1. Init => WalletIInv
  BY WalletIInvInit
<1>2. WalletIInv /\ [Next]_vars => WalletIInv'
  BY StepFits, WalletStutters
<1> QED
  BY <1>1, <1>2, PTL DEF Spec

\* A voided source never has money anywhere again, whatever debit over it is
\* refunded later; and only the identity a void was claimed for owes what its
\* sources gave, whoever moved meanwhile.
THEOREM VoidsStayFinal == Spec => []VoidsAreFinal
BY VoidsAreFinalFrom, WalletInductive, PTL

\* The balance the customer sees is the money in the lots, whichever account of
\* the identity an operation moved money to.
THEOREM BalancesAreTheLots == Spec => []CacheIsTheLots
BY CacheIsTheLotsFrom, WalletInductive, PTL

-----------------------------------------------------------------------------
(*****************************************************************************)
(* ResellerCredit, for any tree of resellers, any number of sales and of     *)
(* changes, and every plan in which no write of a row falls between the read *)
(* and the write of another.                                                 *)
(*****************************************************************************)

USE CreditAssumption

-----------------------------------------------------------------------------
(* The inductive invariant *)

AcctType   == [balance: Int, limit: Nat, volume: Int, unbilled: Nat, usage: BOOLEAN]
BooksType  == [given: Int, spent: Nat, refunded: Nat, volume: Int, billed: Nat]
SaleType   == [state: {"none", "charged", "returned", "raised", "died"}, by: Resellers \cup {Nobody},
               units: 0..2, made: 0..2, paid: 0..2]
ChangeType == [state: {"none", "read", "done"}, by: Resellers \cup {Owner, Nobody}, to: Resellers \cup {Nobody},
               amount: -1..2, saw: Int, own: Int]
GrantsType == [taken: Nat, lent: Nat]
BillType   == [todo: SUBSET Resellers, of: Resellers \cup {Nobody}, gb: Nat]

CreditTyped ==
    /\ crplan \in CrPlan
    /\ acct \in [Resellers -> AcctType]
    /\ books \in [Resellers -> BooksType]
    /\ sale \in [Sales -> SaleType]
    /\ change \in [Changes -> ChangeType]
    /\ bill \in BillType
    /\ metered \in [Resellers -> Nat]
    /\ put \in Int
    /\ grants \in [Resellers -> GrantsType]

\* The plans the invariant is about: no writer of a row comes between another's
\* read and write of it, nobody who sells changes how he is billed, and only the
\* owner creates accounts that hold something.
Calm == "race" \notin crplan.events /\ "gift" \notin crplan.events /\ ("switch" \in crplan.events => crplan.sells = {})

\* A sale was paid by what is still due on it, in the mode of who sold it.
CostOf(s) == IF sale[s].by \in crplan.usage THEN 0 ELSE sale[s].units
SaleFits(s) ==
    CASE sale[s].state = "none"     -> sale[s].by = Nobody /\ sale[s].paid = 0
      [] sale[s].state = "returned" -> sale[s].by \in crplan.sells /\ sale[s].paid = IF sale[s].by \in crplan.usage THEN 0 ELSE sale[s].made
      [] sale[s].state = "raised"   -> sale[s].by \in crplan.sells /\ sale[s].paid = 0
      [] OTHER -> sale[s].by \in crplan.sells /\ sale[s].made <= sale[s].units /\ sale[s].paid = CostOf(s)

ModesStay == "switch" \notin crplan.events => \A a \in Resellers : acct[a].usage = (a \in crplan.usage)

\* What a's sales cost it, and what they were charged less what was refunded.
PaidBy(a) == [s \in Sales |-> IF sale[s].by = a THEN sale[s].paid ELSE 0]
SalesAgree == \A a \in Resellers : books[a].spent - books[a].refunded = SumFunctionOnSet(PaidBy(a), Sales)

\* A change that was read finds both rows as it read them, and is of rows of
\* its own.
Pending(c) ==
    LET r == change[c] IN
    /\ r.to \in Resellers /\ r.by \in Resellers \cup {Owner} /\ r.by # r.to /\ r.saw = Held(r.to)
    /\ r.by # Owner => /\ r.own = Held(r.by) /\ (r.amount > 0 => Held(r.by) >= r.amount)
                       /\ crplan.unit = "balance" /\ r.amount <= 0 => Held(r.to) + r.amount >= -grants[r.to].lent
Rows(c) == {change[c].to, change[c].by}
RowsApart ==
    \A c, d \in Changes : change[c].state = "read" /\ change[d].state = "read" /\ c # d => Rows(c) \cap Rows(d) \subseteq {Owner}
PendingFit == (\A c \in Changes : change[c].state = "read" => Pending(c)) /\ RowsApart

\* The settlement bills no more than the meter shows.
BillFits == bill.of # Nobody => bill.gb <= acct[bill.of].unbilled

\* Nobody owes more than it was let, which is its limit or more.
Floors == WithinWhatWasLent /\ \A a \in Resellers : acct[a].limit <= grants[a].lent

CreditIInv ==
    /\ CreditTyped /\ (\A s \in Sales : SaleFits(s)) /\ ModesStay /\ SalesAgree /\ PendingFit /\ BillFits
    /\ BooksAgree /\ MeteredIsBilled /\ Floors /\ OwnerPutsIn /\ HandsOnWhatItGot

\* The invariant holds on empty books.
LEMMA CreditIInvInit == CreditInit => CreditIInv
<1> SUFFICES ASSUME CreditInit PROVE CreditIInv
  OBVIOUS
<1>1. CreditTyped
  <2>1. crplan \in CrPlan /\ crplan.limit \in Nat
    BY DEF CreditInit, CrPlan
  <2>2. acct \in [Resellers -> AcctType]
    BY <2>1 DEF CreditInit, AcctType
  <2>3. grants \in [Resellers -> GrantsType]
    BY <2>2 DEF CreditInit, AcctType, GrantsType
  <2> QED BY <2>1, <2>2, <2>3 DEF CreditInit, CreditTyped, BooksType, SaleType, ChangeType, BillType, Nobody
<1>2. SalesAgree
  <2> SUFFICES ASSUME NEW a \in Resellers PROVE SumFunctionOnSet(PaidBy(a), Sales) = 0
    BY DEF SalesAgree, CreditInit
  <2>1. \A s \in Sales : PaidBy(a)[s] = 0
    BY DEF PaidBy, CreditInit
  <2> QED BY <2>1, SumOfZeros
<1>3. OwnerPutsIn
  <2> DEFINE f == [a \in Resellers |-> Given(a)]
  <2>1. \A a \in Resellers : f[a] = 0
    BY DEF Given, CreditInit
  <2> HIDE DEF f
  <2>2. SumFunctionOnSet(f, Resellers) = 0
    BY <2>1, SumOfZeros
  <2> QED BY <2>2 DEF OwnerPutsIn, CreditInit, f
<1>4. Floors
  <2> SUFFICES ASSUME NEW a \in Resellers PROVE 0 >= -grants[a].lent /\ acct[a].limit <= grants[a].lent
    BY DEF Floors, WithinWhatWasLent, CreditInit
  <2>1. acct[a].limit \in Nat /\ grants[a].lent = acct[a].limit
    BY <1>1 DEF CreditInit, CreditTyped, AcctType
  <2> QED BY <2>1
<1> QED
  BY <1>1, <1>2, <1>3, <1>4 DEF CreditIInv, CreditInit, SaleFits, ModesStay, PendingFit, RowsApart, BillFits, BooksAgree,
     MeteredIsBilled, HandsOnWhatItGot, Given

\* The invariant says what is checked.
LEMMA CreditIInvImplies ==
    ASSUME CreditIInv
    PROVE  CreditInv
<1> USE DEF CreditIInv
<1>1. CreditTypeOK
  BY DEF CreditTyped, CreditTypeOK, AcctType, BooksType, GrantsType, BillType
<1>2. PaidForWhatWasMade
  BY DEF SaleFits, CostOf, PaidForWhatWasMade, Price, CreditTyped, SaleType
<1> QED
  BY <1>1, <1>2 DEF CreditInv, CreditIsMovedNotMade, Floors

-----------------------------------------------------------------------------
(* What each step leaves alone *)

\* Nothing that a pending change looked at has moved, and nobody is let less.
LEMMA PendingStays ==
    ASSUME CreditTyped, PendingFit, change' = change, crplan'.unit = crplan.unit,
           \A c \in Changes : change[c].state = "read" => grants'[change[c].to].lent >= grants[change[c].to].lent,
           grants' \in [Resellers -> GrantsType],
           \A c \in Changes : change[c].state = "read" => \A a \in Rows(c) \ {Owner} : Held(a)' = Held(a)
    PROVE  PendingFit'
<1>1. ASSUME NEW c \in Changes, change[c].state = "read" PROVE Pending(c)'
  <2>1. Pending(c)
    BY <1>1 DEF PendingFit
  <2>2. Held(change[c].to)' = Held(change[c].to)
    BY <1>1, <2>1 DEF Rows, Pending
  <2>3. change[c].by # Owner => Held(change[c].by)' = Held(change[c].by)
    BY <1>1 DEF Rows
  <2>4. /\ change[c].to \in Resellers /\ change[c].amount \in Int /\ Held(change[c].to) \in Int
        /\ grants[change[c].to].lent \in Int /\ grants'[change[c].to].lent \in Int
        /\ grants'[change[c].to].lent >= grants[change[c].to].lent
    BY <1>1, <2>1 DEF Pending, CreditTyped, AcctType, GrantsType, ChangeType, Held
  <2> QED
    BY <2>1, <2>2, <2>3, <2>4 DEF Pending
<1> QED
  BY <1>1 DEF PendingFit, RowsApart, Rows

\* So it is where nothing is granted either.
LEMMA PendingUntouched ==
    ASSUME CreditTyped, PendingFit, change' = change, grants' = grants, crplan'.unit = crplan.unit,
           \A c \in Changes : change[c].state = "read" => \A a \in Rows(c) \ {Owner} : Held(a)' = Held(a)
    PROVE  PendingFit'
<1>1. ASSUME NEW c \in Changes, change[c].state = "read" PROVE grants[change[c].to].lent >= grants[change[c].to].lent
  <2>1. grants[change[c].to].lent \in Int
    BY <1>1 DEF PendingFit, Pending, CreditTyped, GrantsType
  <2> QED BY <2>1
<1>2. grants' \in [Resellers -> GrantsType]
  BY DEF CreditTyped
<1> QED BY <1>1, <1>2, PendingStays

\* Of a row nothing is pending on: it may change.
LEMMA OthersPending ==
    ASSUME CreditTyped, Calm, NEW a \in Resellers, Undisturbed(a), acct' \in [Resellers -> AcctType],
           \A b \in Resellers \ {a} : acct'[b] = acct[b], PendingFit, crplan'.unit = crplan.unit
    PROVE  \A c \in Changes : change[c].state = "read" => \A b \in Rows(c) \ {Owner} : Held(b)' = Held(b)
<1> SUFFICES ASSUME NEW c \in Changes, change[c].state = "read", NEW b \in Rows(c) \ {Owner} PROVE Held(b)' = Held(b)
  OBVIOUS
<1>1. b # a /\ b \in Resellers
  BY DEF Rows, Undisturbed, Calm, PendingFit, Pending
<1> QED
  BY <1>1 DEF Held

\* Nothing was given or put: both sums stand.
LEMMA GivenUntouched ==
    ASSUME CreditTyped, CreditTyped', OwnerPutsIn, HandsOnWhatItGot, put' = put, grants' = grants, crplan'.unit = crplan.unit,
           \A a \in Resellers : books'[a].given = books[a].given /\ books'[a].volume = books[a].volume
    PROVE  OwnerPutsIn' /\ HandsOnWhatItGot'
<1>1. \A a \in Resellers : Given(a)' = Given(a)
  BY DEF Given
<1>2. [a \in Resellers |-> Given(a)]' = [a \in Resellers |-> Given(a)]
  BY <1>1
<1> QED
  BY <1>1, <1>2 DEF OwnerPutsIn, HandsOnWhatItGot

\* Sales that stay cost what they cost.
LEMMA SalesUntouched ==
    ASSUME CreditTyped, SalesAgree, \A a \in Resellers : books'[a].spent = books[a].spent /\ books'[a].refunded = books[a].refunded,
           \A s \in Sales : sale'[s].by = sale[s].by /\ sale'[s].paid = sale[s].paid
    PROVE  SalesAgree'
<1>1. ASSUME NEW a \in Resellers PROVE PaidBy(a)' = PaidBy(a)
  BY DEF PaidBy
<1> QED
  BY <1>1 DEF SalesAgree

\* The sale s now costs its seller n more, which is also charged, or refunded.
LEMMA SaleMoves ==
    ASSUME CreditTyped, CreditTyped', SalesAgree, NEW s \in Sales, NEW a \in Resellers, NEW n \in Int,
           sale'[s].by = a, sale'[s].paid = (IF sale[s].by = a THEN sale[s].paid ELSE 0) + n,
           sale[s].by = a \/ sale[s].by = Nobody,
           \A r \in Sales \ {s} : sale'[r] = sale[r],
           books'[a].spent - books'[a].refunded = books[a].spent - books[a].refunded + n,
           \A b \in Resellers \ {a} : books'[b] = books[b]
    PROVE  SalesAgree'
<1> SUFFICES ASSUME NEW b \in Resellers PROVE (books'[b].spent - books'[b].refunded = SumFunctionOnSet(PaidBy(b)', Sales))
  BY DEF SalesAgree
<1> DEFINE f == PaidBy(b)
           g == PaidBy(b)'
<1>1. \A r \in Sales : f[r] \in Int /\ g[r] \in Int
  BY DEF PaidBy, CreditTyped, SaleType
<1>2. \A r \in Sales \ {s} : g[r] = f[r]
  BY DEF PaidBy
<1>3. g[s] - f[s] = IF b = a THEN n ELSE 0
  BY DEF PaidBy, CreditTyped, SaleType
<1>4. books[b].spent - books[b].refunded = SumFunctionOnSet(f, Sales)
  BY DEF SalesAgree
<1> HIDE DEF f, g
<1>5. SumFunctionOnSet(g, Sales) = SumFunctionOnSet(f, Sales) + (g[s] - f[s])
  BY <1>1, <1>2, SumChanges
<1>6. books'[b].spent - books'[b].refunded = books[b].spent - books[b].refunded + (IF b = a THEN n ELSE 0)
  BY DEF CreditTyped, BooksType
<1>7. SumFunctionOnSet(g, Sales) = SumFunctionOnSet(f, Sales) + (IF b = a THEN n ELSE 0)
  BY <1>3, <1>5
<1> QED
  BY <1>4, <1>6, <1>7 DEF g


-----------------------------------------------------------------------------
(* Sales *)

\* Everybody's balance still agrees with the books after one row and its log
\* changed alike.
LEMMA OneRowAgrees ==
    ASSUME CreditTyped, CreditTyped', BooksAgree, MeteredIsBilled, NEW a \in Resellers,
           \A b \in Resellers \ {a} : acct'[b] = acct[b] /\ books'[b] = books[b], metered' = metered,
           acct'[a].volume = acct[a].volume, acct'[a].unbilled = acct[a].unbilled,
           books'[a].volume = books[a].volume, books'[a].billed = books[a].billed,
           acct'[a].balance - acct[a].balance =
               (books'[a].given - books'[a].spent + books'[a].refunded) - (books[a].given - books[a].spent + books[a].refunded)
    PROVE  BooksAgree' /\ MeteredIsBilled'
<1> SUFFICES ASSUME NEW b \in Resellers
             PROVE  /\ acct'[b].balance = books'[b].given - books'[b].spent + books'[b].refunded
                    /\ acct'[b].volume = books'[b].volume - metered'[b]
                    /\ metered'[b] = acct'[b].unbilled + books'[b].billed
  BY DEF BooksAgree, MeteredIsBilled
<1>1. /\ acct[b].balance = books[b].given - books[b].spent + books[b].refunded
      /\ acct[b].volume = books[b].volume - metered[b]
      /\ metered[b] = acct[b].unbilled + books[b].billed
  BY DEF BooksAgree, MeteredIsBilled
<1>2. /\ acct[b].balance \in Int /\ acct'[b].balance \in Int
      /\ {books[b].given, books[b].spent, books[b].refunded, books'[b].given, books'[b].spent, books'[b].refunded} \subseteq Int
  BY DEF CreditTyped, AcctType, BooksType
<1>3. CASE b = a
  <2>1. acct'[a].balance = books'[a].given - books'[a].spent + books'[a].refunded
    BY <1>1, <1>2, <1>3
  <2> QED BY <1>1, <1>3, <2>1
<1>4. CASE b # a
  BY <1>1, <1>4
<1> QED
  BY <1>3, <1>4

LEMMA ChargeStep ==
    ASSUME CreditIInv, Calm, NEW s \in Sales, NEW a \in Resellers, NEW n \in {1, 2}, Charge(s, a, n)
    PROVE  CreditIInv'
<1> USE DEF CreditIInv
<1> DEFINE cost == IF acct[a].usage THEN 0 ELSE n
<1>1. /\ sale[s].state = "none" /\ a \in crplan.sells /\ Undisturbed(a)
      /\ acct' = [acct EXCEPT ![a].balance = @ - cost]
      /\ books' = [books EXCEPT ![a].spent = @ + cost]
      /\ sale' = [sale EXCEPT ![s] = [state |-> "charged", by |-> a, units |-> n, made |-> 0, paid |-> cost]]
      /\ UNCHANGED <<crplan, change, bill, metered, put, grants>>
      /\ ~acct[a].usage => acct[a].balance - cost >= -acct[a].limit
  <2>1. n * Price = n
    BY DEF Price
  <2>2. (IF acct[a].usage THEN 0 ELSE n * Price) = cost
    BY <2>1
  <2> HIDE DEF cost
  <2> QED BY <2>2 DEF Charge, Affords
<1>2. cost \in 0..2 /\ (acct[a].usage => cost = 0)
  OBVIOUS
<1> HIDE DEF cost
<1>3. acct[a] \in AcctType /\ books[a] \in BooksType /\ acct[a].balance \in Int /\ books[a].spent \in Nat
  BY DEF CreditTyped, AcctType, BooksType
<1>4. acct' \in [Resellers -> AcctType]
  <2>1. [acct[a] EXCEPT !.balance = @ - cost] \in AcctType
    BY <1>2, <1>3 DEF AcctType
  <2> QED BY <1>1, <2>1 DEF CreditTyped
<1>5. books' \in [Resellers -> BooksType]
  <2>1. [books[a] EXCEPT !.spent = @ + cost] \in BooksType
    BY <1>2, <1>3 DEF BooksType
  <2> QED BY <1>1, <2>1 DEF CreditTyped
<1>6. sale' \in [Sales -> SaleType]
  BY <1>1, <1>2 DEF CreditTyped, SaleType
<1>7. CreditTyped'
  BY <1>1, <1>4, <1>5, <1>6 DEF CreditTyped
<1>8. /\ acct'[a].balance = acct[a].balance - cost /\ acct'[a].volume = acct[a].volume
      /\ acct'[a].unbilled = acct[a].unbilled /\ acct'[a].usage = acct[a].usage
      /\ books'[a].spent = books[a].spent + cost /\ books'[a].refunded = books[a].refunded
      /\ books'[a].given = books[a].given /\ books'[a].volume = books[a].volume /\ books'[a].billed = books[a].billed
      /\ \A b \in Resellers \ {a} : acct'[b] = acct[b] /\ books'[b] = books[b]
      /\ sale'[s] = [state |-> "charged", by |-> a, units |-> n, made |-> 0, paid |-> cost]
      /\ \A r \in Sales \ {s} : sale'[r] = sale[r]
  BY <1>1, <1>3 DEF CreditTyped, AcctType, BooksType
<1>9. SaleFits(s) /\ sale[s].by = Nobody
  BY <1>1 DEF SaleFits
<1>10. acct[a].usage = (a \in crplan.usage)
  BY <1>1 DEF ModesStay, Calm
<1>11. \A r \in Sales : SaleFits(r)'
  <2>1. sale'[s].state = "charged" /\ sale'[s].by \in crplan.sells /\ sale'[s].made <= sale'[s].units /\ sale'[s].paid = CostOf(s)'
    <3>1. cost = IF a \in crplan.usage THEN 0 ELSE n
      BY <1>10 DEF cost
    <3>2. CostOf(s)' = IF a \in crplan.usage THEN 0 ELSE n
      BY <1>1, <1>8 DEF CostOf
    <3> QED BY <1>1, <1>8, <3>1, <3>2
  <2>3. SaleFits(s)'
    BY <1>1, <2>1 DEF SaleFits
  <2>2. ASSUME NEW r \in Sales \ {s} PROVE SaleFits(r)'
    <3>1. SaleFits(r) /\ sale'[r] = sale[r] /\ crplan' = crplan
      BY <1>1, <1>8
    <3> QED BY <3>1 DEF SaleFits, CostOf
  <2> QED BY <2>2, <2>3
<1>12. ModesStay' /\ BillFits'
  BY <1>1, <1>8 DEF ModesStay, BillFits, CreditTyped, BillType
<1>13. SalesAgree'
  <2>1. sale'[s].by = a /\ sale'[s].paid = 0 + cost /\ a # Nobody /\ cost \in Int
    BY <1>2, <1>8
  <2>2. books'[a].spent - books'[a].refunded = books[a].spent - books[a].refunded + cost
    BY <1>3, <1>8, <2>1, <1>7 DEF CreditTyped, BooksType
  <2> QED BY <1>7, <1>8, <1>9, <2>1, <2>2, SaleMoves
<1>14. PendingFit'
  <2>1. \A c \in Changes : change[c].state = "read" => \A b \in Rows(c) \ {Owner} : Held(b)' = Held(b)
    BY <1>1, <1>4, <1>8, OthersPending
  <2> QED BY <1>1, <2>1, PendingUntouched
<1>15. BooksAgree' /\ MeteredIsBilled'
  <2>1. acct'[a].balance - acct[a].balance =
            (books'[a].given - books'[a].spent + books'[a].refunded) - (books[a].given - books[a].spent + books[a].refunded)
    BY <1>2, <1>3, <1>8 DEF AcctType, BooksType
  <2> QED BY <1>1, <1>7, <1>8, <2>1, OneRowAgrees
<1>16. Floors'
  <2> SUFFICES ASSUME NEW b \in Resellers PROVE acct'[b].balance >= -grants[b].lent /\ acct'[b].limit <= grants[b].lent
    BY <1>1 DEF Floors, WithinWhatWasLent
  <2>1. acct[b].balance >= -grants[b].lent /\ acct[b].limit <= grants[b].lent /\ grants[b].lent \in Nat /\ acct[b].limit \in Nat
    BY DEF Floors, WithinWhatWasLent, CreditTyped, GrantsType, AcctType
  <2>2. CASE b = a
    <3>1. acct'[a].limit = acct[a].limit
      BY <1>1, <1>3 DEF CreditTyped, AcctType
    <3> QED BY <1>1, <1>2, <1>3, <1>8, <2>1, <2>2, <3>1
  <2>3. CASE b # a
    BY <1>8, <2>1, <2>3
  <2> QED BY <2>2, <2>3
<1>17. OwnerPutsIn' /\ HandsOnWhatItGot'
  BY <1>1, <1>7, <1>8, GivenUntouched
<1> QED
  BY <1>7, <1>11, <1>12, <1>13, <1>14, <1>15, <1>16, <1>17

\* A refund of n units of a sale that is still charged.
LEMMA RefundStep ==
    ASSUME CreditIInv, Calm, NEW s \in Sales, sale[s].state = "charged",
           NEW state \in {"returned", "raised"}, NEW n \in 0..2,
           state = "raised" => n = sale[s].units, state = "returned" => n = sale[s].units - sale[s].made,
           RefundCharge(s, n, state)
    PROVE  CreditIInv'
<1> USE DEF CreditIInv
<1> DEFINE a == sale[s].by
           amount == IF acct[a].usage THEN 0 ELSE n
<1>1. /\ Undisturbed(a)
      /\ acct' = [acct EXCEPT ![a].balance = @ + amount]
      /\ books' = [books EXCEPT ![a].refunded = @ + amount]
      /\ sale' = [sale EXCEPT ![s].state = state, ![s].paid = @ - amount]
      /\ UNCHANGED <<crplan, change, bill, metered, put, grants>>
  <2>1. n * Price = n
    BY DEF Price
  <2>2. (IF acct[a].usage THEN 0 ELSE n * Price) = amount
    BY <2>1
  <2> HIDE DEF amount
  <2> QED BY <2>2 DEF RefundCharge
<1>2. /\ a \in crplan.sells /\ a \in Resellers /\ sale[s].made <= sale[s].units /\ sale[s].paid = CostOf(s)
      /\ sale[s] \in SaleType
  BY DEF SaleFits, CreditTyped, CrPlan
<1>3. acct[a].usage = (a \in crplan.usage)
  BY <1>2 DEF ModesStay, Calm
<1>4. /\ amount \in 0..2 /\ amount <= sale[s].paid /\ sale[s].paid \in 0..2
      /\ state = "raised" => sale[s].paid - amount = 0
      /\ state = "returned" => sale[s].paid - amount = IF a \in crplan.usage THEN 0 ELSE sale[s].made
  <2>1. sale[s].paid = IF a \in crplan.usage THEN 0 ELSE sale[s].units
    BY <1>2 DEF CostOf
  <2>2. sale[s].units \in 0..2 /\ sale[s].made \in 0..2 /\ sale[s].paid \in 0..2
    BY <1>2 DEF SaleType
  <2>3. amount = IF a \in crplan.usage THEN 0 ELSE n
    BY <1>3
  <2> HIDE DEF amount, a
  <2> QED BY <1>2, <2>1, <2>2, <2>3
<1>5. a \in Resellers \cup {Nobody}
  BY <1>2
<1> HIDE DEF amount
<1>6. acct[a] \in AcctType /\ books[a] \in BooksType /\ acct[a].balance \in Int /\ books[a].refunded \in Nat
  BY <1>2 DEF CreditTyped, AcctType, BooksType
<1>7. acct' \in [Resellers -> AcctType]
  <2>1. [acct[a] EXCEPT !.balance = @ + amount] \in AcctType
    BY <1>4, <1>6 DEF AcctType
  <2> QED BY <1>1, <2>1 DEF CreditTyped
<1>8. books' \in [Resellers -> BooksType]
  <2>1. [books[a] EXCEPT !.refunded = @ + amount] \in BooksType
    BY <1>4, <1>6 DEF BooksType
  <2> QED BY <1>1, <2>1 DEF CreditTyped
<1>9. /\ sale'[s].state = state /\ sale'[s].paid = sale[s].paid - amount /\ sale'[s].by = a
      /\ sale'[s].units = sale[s].units /\ sale'[s].made = sale[s].made /\ sale'[s] \in SaleType
      /\ \A r \in Sales \ {s} : sale'[r] = sale[r]
  <2>1. sale \in [Sales -> SaleType]
    BY DEF CreditTyped
  <2>2. sale'[s] = [sale[s] EXCEPT !.state = state, !.paid = @ - amount]
    BY <1>1, <2>1
  <2>3. sale[s].paid - amount \in 0..2
    BY <1>4
  <2>4. sale'[s] \in SaleType
    BY <1>2, <2>2, <2>3 DEF SaleType
  <2> QED BY <1>1, <1>2, <2>1, <2>2, <2>4 DEF SaleType
<1>10. CreditTyped'
  <2>1. sale' \in [Sales -> SaleType]
    BY <1>1, <1>9 DEF CreditTyped
  <2> QED BY <1>1, <1>7, <1>8, <2>1 DEF CreditTyped
<1>11. /\ acct'[a].balance = acct[a].balance + amount /\ acct'[a].volume = acct[a].volume
       /\ acct'[a].unbilled = acct[a].unbilled /\ acct'[a].usage = acct[a].usage
       /\ books'[a].refunded = books[a].refunded + amount /\ books'[a].spent = books[a].spent
       /\ books'[a].given = books[a].given /\ books'[a].volume = books[a].volume /\ books'[a].billed = books[a].billed
       /\ \A b \in Resellers \ {a} : acct'[b] = acct[b] /\ books'[b] = books[b]
  BY <1>1, <1>2, <1>6 DEF CreditTyped, AcctType, BooksType
<1> HIDE DEF a
<1>12. \A r \in Sales : SaleFits(r)'
  <2>1. SaleFits(s)'
    BY <1>1, <1>2, <1>4, <1>9 DEF SaleFits
  <2>2. ASSUME NEW r \in Sales \ {s} PROVE SaleFits(r)'
    <3>1. SaleFits(r) /\ sale'[r] = sale[r] /\ crplan' = crplan
      BY <1>1, <1>9
    <3> QED BY <3>1 DEF SaleFits, CostOf
  <2> QED BY <2>1, <2>2
<1>13. ModesStay' /\ BillFits'
  BY <1>1, <1>2, <1>11 DEF ModesStay, BillFits, CreditTyped, BillType
<1>14. SalesAgree'
  <2>1. sale[s].by = a /\ sale'[s].paid = sale[s].paid + (-amount) /\ -amount \in Int
    BY <1>4, <1>9 DEF a
  <2>2. books'[a].spent - books'[a].refunded = books[a].spent - books[a].refunded + (-amount)
    BY <1>4, <1>6, <1>11 DEF BooksType
  <2> QED BY <1>2, <1>9, <1>10, <1>11, <2>1, <2>2, SaleMoves
<1>15. PendingFit'
  <2>1. \A c \in Changes : change[c].state = "read" => \A b \in Rows(c) \ {Owner} : Held(b)' = Held(b)
    BY <1>1, <1>2, <1>7, <1>11, OthersPending
  <2> QED BY <1>1, <2>1, PendingUntouched
<1>16. BooksAgree' /\ MeteredIsBilled'
  <2>1. acct'[a].balance - acct[a].balance =
            (books'[a].given - books'[a].spent + books'[a].refunded) - (books[a].given - books[a].spent + books[a].refunded)
    BY <1>4, <1>6, <1>11 DEF AcctType, BooksType
  <2> QED BY <1>1, <1>2, <1>10, <1>11, <2>1, OneRowAgrees
<1>17. Floors'
  <2> SUFFICES ASSUME NEW b \in Resellers PROVE acct'[b].balance >= -grants[b].lent /\ acct'[b].limit <= grants[b].lent
    BY <1>1 DEF Floors, WithinWhatWasLent
  <2>1. acct[b].balance >= -grants[b].lent /\ acct[b].limit <= grants[b].lent /\ grants[b].lent \in Nat /\ acct[b].balance \in Int
    BY DEF Floors, WithinWhatWasLent, CreditTyped, GrantsType, AcctType
  <2>2. CASE b = a
    <3>1. acct'[a].limit = acct[a].limit
      BY <1>1, <1>2, <1>6 DEF CreditTyped, AcctType
    <3> QED BY <1>4, <1>6, <1>11, <2>1, <2>2, <3>1
  <2>3. CASE b # a
    BY <1>11, <2>1, <2>3
  <2> QED BY <2>2, <2>3
<1>18. OwnerPutsIn' /\ HandsOnWhatItGot'
  <2>1. \A b \in Resellers : books'[b].given = books[b].given /\ books'[b].volume = books[b].volume
    BY <1>11
  <2> QED BY <1>1, <1>10, <2>1, GivenUntouched
<1> QED
  BY <1>10, <1>12, <1>13, <1>14, <1>15, <1>16, <1>17, <1>18


\* One more is made of a sale that is still charged.
LEMMA MakeStep ==
    ASSUME CreditIInv, NEW s \in Sales, Make(s)
    PROVE  CreditIInv'
<1> USE DEF CreditIInv
<1>1. /\ sale[s].state = "charged" /\ sale[s].made < sale[s].units
      /\ sale' = [sale EXCEPT ![s].made = @ + 1]
      /\ UNCHANGED <<crplan, acct, books, change, bill, metered, put, grants>>
  BY DEF Make
<1>2. sale[s] \in SaleType /\ sale \in [Sales -> SaleType]
  BY DEF CreditTyped
<1>3. [sale[s] EXCEPT !.made = @ + 1] \in SaleType
  BY <1>1, <1>2 DEF SaleType
<1>4. /\ sale' \in [Sales -> SaleType] /\ sale'[s].made = sale[s].made + 1
      /\ \A r \in Sales : sale'[r].by = sale[r].by /\ sale'[r].paid = sale[r].paid /\ sale'[r].state = sale[r].state /\ sale'[r].units = sale[r].units
      /\ \A r \in Sales \ {s} : sale'[r] = sale[r]
  BY <1>1, <1>2, <1>3 DEF SaleType
<1>5. CreditTyped'
  BY <1>1, <1>4 DEF CreditTyped
<1>6. ASSUME NEW r \in Sales PROVE SaleFits(r)'
  <2>1. SaleFits(r) /\ crplan' = crplan
    BY <1>1
  <2>2. CASE r = s
    BY <1>1, <1>2, <1>4, <2>1, <2>2 DEF SaleFits, CostOf, SaleType
  <2>3. CASE r # s
    <3>1. sale'[r] = sale[r]
      BY <1>4, <2>3
    <3> QED BY <2>1, <3>1 DEF SaleFits, CostOf
  <2> QED BY <2>2, <2>3
<1>7. SalesAgree'
  BY <1>1, <1>4, SalesUntouched
<1>8. OwnerPutsIn' /\ HandsOnWhatItGot'
  BY <1>1, <1>5, GivenUntouched
<1>9. PendingFit'
  BY <1>1, PendingUntouched DEF Held
<1> QED
  BY <1>1, <1>5, <1>6, <1>7, <1>8, <1>9 DEF ModesStay, BillFits, BooksAgree, MeteredIsBilled, Floors, WithinWhatWasLent

\* A sale that died owes its refund.
LEMMA DieStep ==
    ASSUME CreditIInv, NEW s \in Sales, Die(s)
    PROVE  CreditIInv' /\ (Calm => Calm')
<1> USE DEF CreditIInv
<1>1. /\ sale[s].state = "charged" /\ sale' = [sale EXCEPT ![s].state = "died"] /\ crplan.left > 0
      /\ crplan' = [crplan EXCEPT !.left = @ - 1]
      /\ UNCHANGED <<acct, books, change, bill, metered, put, grants>>
  BY DEF Die, Happens, OneLess
<1>2. sale[s] \in SaleType /\ sale \in [Sales -> SaleType] /\ crplan \in CrPlan
  BY DEF CreditTyped
<1>3. [sale[s] EXCEPT !.state = "died"] \in SaleType
  BY <1>1, <1>2 DEF SaleType
<1>4. /\ sale' \in [Sales -> SaleType] /\ sale'[s].state = "died"
      /\ \A r \in Sales : sale'[r].by = sale[r].by /\ sale'[r].paid = sale[r].paid /\ sale'[r].made = sale[r].made /\ sale'[r].units = sale[r].units
      /\ \A r \in Sales \ {s} : sale'[r] = sale[r]
  BY <1>1, <1>2, <1>3 DEF SaleType
<1>5. /\ crplan' \in CrPlan /\ crplan'.usage = crplan.usage /\ crplan'.sells = crplan.sells
      /\ crplan'.unit = crplan.unit /\ crplan'.events = crplan.events
  BY <1>1, <1>2 DEF CrPlan
<1>6. CreditTyped'
  BY <1>1, <1>4, <1>5 DEF CreditTyped
<1>7. ASSUME NEW r \in Sales PROVE SaleFits(r)'
  <2>1. SaleFits(r)
    OBVIOUS
  <2>2. CASE r = s
    BY <1>1, <1>4, <1>5, <2>1, <2>2 DEF SaleFits, CostOf
  <2>3. CASE r # s
    <3>1. sale'[r] = sale[r]
      BY <1>4, <2>3
    <3> QED BY <1>5, <2>1, <3>1 DEF SaleFits, CostOf
  <2> QED BY <2>2, <2>3
<1>8. SalesAgree'
  BY <1>1, <1>4, SalesUntouched
<1>9. OwnerPutsIn' /\ HandsOnWhatItGot'
  BY <1>1, <1>5, <1>6, GivenUntouched
<1>10. PendingFit'
  BY <1>1, <1>5, PendingUntouched DEF Held
<1> QED
  BY <1>1, <1>5, <1>6, <1>7, <1>8, <1>9, <1>10 DEF ModesStay, BillFits, BooksAgree, MeteredIsBilled, Floors, WithinWhatWasLent, Calm

-----------------------------------------------------------------------------
(* Credit and volume that change hands *)

LEMMA AskStep ==
    ASSUME CreditIInv, Calm, NEW c \in Changes, NEW by \in Resellers \cup {Owner}, NEW to \in Resellers, NEW n \in Amounts,
           Ask(c, by, to, n)
    PROVE  CreditIInv'
<1> USE DEF CreditIInv
<1> DEFINE r == [state |-> "read", by |-> by, to |-> to, amount |-> n,
                 saw |-> Held(to), own |-> IF by = Owner THEN 0 ELSE Held(by)]
<1>1. /\ change[c].state = "none" /\ Undisturbed(to) /\ (by # Owner => Undisturbed(by))
      /\ by # Owner => ParentOf[to] = by /\ MayMove(by, to, n)
      /\ change' = [change EXCEPT ![c] = r]
      /\ UNCHANGED <<crplan, acct, books, sale, bill, metered, put, grants>>
  BY DEF Ask
<1>2. ASSUME NEW a \in Resellers PROVE Held(a) \in Int
  BY DEF Held, CreditTyped, AcctType
<1>3. r \in ChangeType
  <2>1. Held(to) \in Int /\ (by # Owner => Held(by) \in Int)
    BY <1>2
  <2> DEFINE own == IF by = Owner THEN 0 ELSE Held(by)
  <2>2. own \in Int
    BY <2>1
  <2> HIDE DEF own
  <2> QED BY <2>1, <2>2 DEF ChangeType, own, Amounts
<1>4. /\ r.state = "read" /\ r.by = by /\ r.to = to /\ r.amount = n /\ r.saw = Held(to) /\ (by # Owner => r.own = Held(by))
  OBVIOUS
<1> HIDE DEF r
<1>5. /\ change' \in [Changes -> ChangeType] /\ change'[c] = r
      /\ \A d \in Changes \ {c} : change'[d] = change[d]
  BY <1>1, <1>3 DEF CreditTyped
<1>6. CreditTyped'
  BY <1>1, <1>5 DEF CreditTyped
<1>7. \A a \in Resellers \cup {Owner} : Held(a)' = Held(a)
  BY <1>1 DEF Held
<1>8. ASSUME NEW d \in Changes, change'[d].state = "read" PROVE Pending(d)'
  <2>1. CASE d = c
    <3>1. by # to /\ n \in Int /\ Held(to) \in Int
      BY <1>1, <1>2 DEF Amounts
    <3>2. acct[to].limit \in Nat /\ grants[to].lent \in Nat /\ acct[to].limit <= grants[to].lent
      BY DEF Floors, CreditTyped, AcctType, GrantsType
    <3>3. by # Owner => /\ (n > 0 => Held(by) >= n)
                        /\ crplan.unit = "balance" /\ n <= 0 => Held(to) + n >= -grants[to].lent
      BY <1>1, <3>1, <3>2 DEF MayMove, Floor
    <3> QED BY <1>1, <1>4, <1>5, <1>7, <2>1, <3>1, <3>3 DEF Pending
  <2>2. CASE d # c
    <3>1. Pending(d) /\ change'[d] = change[d]
      BY <1>5, <1>8, <2>2 DEF PendingFit
    <3> QED BY <1>1, <1>7, <3>1 DEF Pending
  <2> QED BY <2>1, <2>2
<1>9. ASSUME NEW d \in Changes \ {c}, change[d].state = "read" PROVE {to, by} \cap Rows(d) \subseteq {Owner}
  BY <1>1, <1>9 DEF Undisturbed, Calm, Rows
<1>10. RowsApart'
  BY <1>4, <1>5, <1>9 DEF PendingFit, RowsApart, Rows
<1>11. SalesAgree'
  BY <1>1, SalesUntouched
<1>12. OwnerPutsIn' /\ HandsOnWhatItGot'
  BY <1>1, <1>6, GivenUntouched
<1>13. \A s \in Sales : SaleFits(s)'
  BY <1>1 DEF SaleFits, CostOf
<1> QED
  BY <1>1, <1>6, <1>8, <1>10, <1>11, <1>12, <1>13 DEF PendingFit, ModesStay, BillFits, BooksAgree, MeteredIsBilled, Floors, WithinWhatWasLent


\* What the change c moves at a row.
Delta(c, a) == IF a = change[c].to THEN change[c].amount ELSE IF a = change[c].by THEN -change[c].amount ELSE 0

\* A change that was read moves both rows by what it is of, and their logs.
LEMMA ApplyMoves ==
    ASSUME CreditIInv, NEW c \in Changes, Apply(c), NEW a \in Resellers
    PROVE  /\ Delta(c, a) \in Int
           /\ acct'[a] \in AcctType /\ books'[a] \in BooksType
           /\ acct'[a].unbilled = acct[a].unbilled /\ acct'[a].usage = acct[a].usage /\ acct'[a].limit = acct[a].limit
           /\ books'[a].spent = books[a].spent /\ books'[a].refunded = books[a].refunded /\ books'[a].billed = books[a].billed
           /\ IF crplan.unit = "balance"
              THEN /\ acct'[a].balance = acct[a].balance + Delta(c, a) /\ books'[a].given = books[a].given + Delta(c, a)
                   /\ acct'[a].volume = acct[a].volume /\ books'[a].volume = books[a].volume
              ELSE /\ acct'[a].volume = acct[a].volume + Delta(c, a) /\ books'[a].volume = books[a].volume + Delta(c, a)
                   /\ acct'[a].balance = acct[a].balance /\ books'[a].given = books[a].given
<1> USE DEF CreditIInv
<1>1. change[c].state = "read" /\ Pending(c) /\ change[c] \in ChangeType
  BY DEF Apply, PendingFit, CreditTyped
<1> DEFINE r == change[c]
           New == IF a = r.to THEN r.saw + r.amount ELSE r.own - r.amount
           D == IF a = r.to THEN r.amount ELSE -r.amount
<1>2. /\ acct'[a] = IF a \in Sides(c) THEN Holding(a, New) ELSE acct[a]
      /\ books'[a] = IF a \in Sides(c) THEN Logged(a, D) ELSE books[a]
  BY DEF Apply
<1>3. /\ acct[a] \in AcctType /\ books[a] \in BooksType /\ r.amount \in Int /\ D \in Int /\ Delta(c, a) \in Int
      /\ acct[a].balance \in Int /\ acct[a].volume \in Int
  BY <1>1 DEF CreditTyped, AcctType, ChangeType, Delta
<1>4. CASE a \notin Sides(c)
  <2>1. Delta(c, a) = 0
    BY <1>1, <1>4 DEF Sides, Delta
  <2> QED BY <1>2, <1>3, <1>4, <2>1 DEF AcctType, BooksType
<1>5. CASE a \in Sides(c)
  <2>1. D = Delta(c, a) /\ New = Held(a) + D
    <3>1. a # Owner /\ (a = r.to \/ a = r.by) /\ r.saw = Held(r.to) /\ (r.by # Owner => r.own = Held(r.by))
      BY <1>1, <1>5 DEF Sides, Pending
    <3>2. Held(a) \in Int
      BY <1>3 DEF Held
    <3> QED BY <1>3, <3>1, <3>2 DEF Delta
  <2> HIDE DEF New, D
  <2>2. New \in Int
    BY <1>3, <2>1 DEF Held
  <2>3. acct'[a] = Holding(a, New) /\ books'[a] = Logged(a, D)
    BY <1>2, <1>5
  <2>4. CASE crplan.unit = "balance"
    <3>1. acct'[a] = [acct[a] EXCEPT !.balance = New] /\ books'[a] = [books[a] EXCEPT !.given = @ + D]
      BY <2>3, <2>4 DEF Holding, Logged
    <3> QED BY <1>3, <2>1, <2>2, <2>4, <3>1 DEF AcctType, BooksType, Held
  <2>5. CASE crplan.unit # "balance"
    <3>1. acct'[a] = [acct[a] EXCEPT !.volume = New] /\ books'[a] = [books[a] EXCEPT !.volume = @ + D]
      BY <2>3, <2>5 DEF Holding, Logged
    <3> QED BY <1>3, <2>1, <2>2, <2>5, <3>1 DEF AcctType, BooksType, Held
  <2> QED BY <2>4, <2>5
<1> QED
  BY <1>4, <1>5

\* What was paid for sales is never negative: nobody holds more than he was given.
LEMMA HeldWasGiven ==
    ASSUME CreditIInv, NEW a \in Resellers
    PROVE  Held(a) <= Given(a) /\ Held(a) \in Int /\ Given(a) \in Int
<1> USE DEF CreditIInv
<1>1. \A s \in Sales : PaidBy(a)[s] \in Nat
  BY DEF PaidBy, CreditTyped, SaleType
<1>2. SumFunctionOnSet(PaidBy(a), Sales) \in Nat
  BY <1>1, SumOfNumbers
<1>3. /\ books[a].spent - books[a].refunded \in Nat
      /\ acct[a].balance = books[a].given - books[a].spent + books[a].refunded /\ acct[a].volume = books[a].volume - metered[a]
      /\ books[a].given \in Int /\ books[a].spent \in Nat /\ books[a].refunded \in Nat /\ books[a].volume \in Int /\ metered[a] \in Nat
  BY <1>2 DEF SalesAgree, BooksAgree, CreditTyped, BooksType
<1> QED
  BY <1>3 DEF Held, Given

\* What is written of who moved what of a: the owner lets it owe what it then owes.
LEMMA GrantedFits ==
    ASSUME CreditTyped, NEW a \in Resellers, NEW by, NEW amount \in Int, acct' \in [Resellers -> AcctType]
    PROVE  /\ Granted(a, by, amount) \in GrantsType
           /\ Granted(a, by, amount).taken = IF amount < 0 THEN grants[a].taken - amount ELSE grants[a].taken
           /\ by = Owner => /\ acct'[a].balance >= -Granted(a, by, amount).lent
                            /\ acct'[a].limit <= Granted(a, by, amount).lent
           /\ by # Owner => Granted(a, by, amount).lent = grants[a].lent
<1>1. grants[a].taken \in Nat /\ grants[a].lent \in Nat /\ acct'[a].limit \in Nat /\ acct'[a].balance \in Int
  BY DEF CreditTyped, GrantsType, AcctType
<1>2. /\ Larger(acct'[a].limit, -acct'[a].balance) \in Nat /\ acct'[a].limit <= Larger(acct'[a].limit, -acct'[a].balance)
      /\ acct'[a].balance >= -Larger(acct'[a].limit, -acct'[a].balance)
  BY <1>1 DEF Larger
<1> DEFINE taken == IF amount < 0 THEN grants[a].taken - amount ELSE grants[a].taken
           lent == IF by = Owner THEN Larger(acct'[a].limit, -acct'[a].balance) ELSE grants[a].lent
<1>3. taken \in Nat /\ lent \in Nat
  BY <1>1, <1>2
<1>4. Granted(a, by, amount) = [taken |-> taken, lent |-> lent]
  BY DEF Granted
<1>5. Granted(a, by, amount) \in GrantsType /\ Granted(a, by, amount).taken = taken /\ Granted(a, by, amount).lent = lent
  <2> HIDE DEF taken, lent
  <2> QED BY <1>3, <1>4 DEF GrantsType
<1> QED
  BY <1>1, <1>2, <1>5

LEMMA ApplyStep ==
    ASSUME CreditIInv, NEW c \in Changes, Apply(c)
    PROVE  CreditIInv'
<1> USE DEF CreditIInv
<1> DEFINE r == change[c]
<1>1. /\ r.state = "read" /\ Pending(c) /\ r \in ChangeType /\ r.to # r.by /\ r.to # Owner
      /\ change' = [change EXCEPT ![c].state = "done"]
      /\ put' = IF r.by = Owner THEN put + r.amount ELSE put
      /\ grants' = [grants EXCEPT ![r.to] = Granted(r.to, r.by, r.amount)]
      /\ UNCHANGED <<crplan, sale, bill, metered>>
      /\ DOMAIN acct' = Resellers /\ DOMAIN books' = Resellers
      /\ acct' = [a \in Resellers |-> acct'[a]] /\ books' = [a \in Resellers |-> books'[a]]
  BY DEF Apply, PendingFit, CreditTyped, Pending
<1>2. r.amount \in Int /\ crplan.unit \in {"balance", "volume"} /\ put \in Int
  BY <1>1 DEF CreditTyped, CrPlan, ChangeType
<1>3. acct' \in [Resellers -> AcctType] /\ books' \in [Resellers -> BooksType]
  BY <1>1, ApplyMoves
<1>4. /\ grants' \in [Resellers -> GrantsType] /\ grants'[r.to] = Granted(r.to, r.by, r.amount) /\ r.to \in Resellers
       /\ \A a \in Resellers \ {r.to} : grants'[a] = grants[a]
  <2>1. r.to \in Resellers
    BY <1>1 DEF Pending
  <2>2. Granted(r.to, r.by, r.amount) \in GrantsType
    <3> HIDE DEF r
    <3> QED BY <1>2, <1>3, <2>1, GrantedFits
  <2> HIDE DEF r
  <2> QED BY <1>1, <2>1, <2>2 DEF CreditTyped
<1>5. /\ change' \in [Changes -> ChangeType] /\ change'[c].state = "done"
      /\ \A d \in Changes \ {c} : change'[d] = change[d]
  <2>1. [r EXCEPT !.state = "done"] \in ChangeType
    BY <1>1 DEF ChangeType
  <2> QED BY <1>1, <2>1 DEF CreditTyped, ChangeType
<1>6. CreditTyped'
  BY <1>1, <1>2, <1>3, <1>5, <1>4 DEF CreditTyped
<1>7. \A a \in Resellers : Delta(c, a) \in Int /\ Given(a)' = Given(a) + Delta(c, a) /\ Held(a)' = Held(a) + Delta(c, a)
  <2> SUFFICES ASSUME NEW a \in Resellers PROVE Delta(c, a) \in Int /\ Given(a)' = Given(a) + Delta(c, a) /\ Held(a)' = Held(a) + Delta(c, a)
    OBVIOUS
  <2> QED BY <1>1, <1>2, ApplyMoves DEF Given, Held
<1>8. PendingFit'
  <2>1. ASSUME NEW d \in Changes, change'[d].state = "read" PROVE Pending(d)' /\ d # c /\ change'[d] = change[d]
    <3>1. d # c /\ change'[d] = change[d] /\ change[d].state = "read" /\ Pending(d)
      BY <1>5, <2>1 DEF PendingFit
    <3>2. Rows(c) \cap Rows(d) \subseteq {Owner}
      BY <1>1, <3>1 DEF PendingFit, RowsApart
    <3>3. ASSUME NEW a \in Resellers, a \in Rows(d) PROVE Held(a)' = Held(a)
      <4>1. a \notin Rows(c)
        BY <3>2, <3>3
      <4>2. Delta(c, a) = 0 /\ Held(a) \in Int
        BY <4>1, HeldWasGiven DEF Delta, Rows
      <4> QED BY <1>7, <4>2
    <3>4. Held(change[d].to)' = Held(change[d].to) /\ (change[d].by # Owner => Held(change[d].by)' = Held(change[d].by))
      BY <3>1, <3>3 DEF Pending, Rows
    <3>5. grants'[change[d].to] = grants[change[d].to]
      <4>1. change[d].to \in Resellers \ {r.to}
        BY <1>4, <3>1, <3>2 DEF Pending, Rows
      <4> QED BY <1>4, <4>1
    <3> QED BY <1>1, <3>1, <3>4, <3>5 DEF Pending
  <2>2. RowsApart'
    BY <2>1 DEF PendingFit, RowsApart, Rows
  <2> QED BY <2>1, <2>2 DEF PendingFit
<1>9. BooksAgree' /\ MeteredIsBilled'
  <2> SUFFICES ASSUME NEW a \in Resellers
               PROVE  /\ acct'[a].balance = books'[a].given - books'[a].spent + books'[a].refunded
                      /\ acct'[a].volume = books'[a].volume - metered'[a]
                      /\ metered'[a] = acct'[a].unbilled + books'[a].billed
    BY DEF BooksAgree, MeteredIsBilled
  <2>1. /\ acct[a].balance = books[a].given - books[a].spent + books[a].refunded
        /\ acct[a].volume = books[a].volume - metered[a] /\ metered[a] = acct[a].unbilled + books[a].billed
        /\ books[a].given \in Int /\ books[a].spent \in Int /\ books[a].refunded \in Int /\ books[a].volume \in Int /\ metered[a] \in Int
    BY DEF BooksAgree, MeteredIsBilled, CreditTyped, BooksType
  <2> QED BY <1>1, <2>1, ApplyMoves
<1>10. Floors'
  <2> SUFFICES ASSUME NEW a \in Resellers PROVE acct'[a].balance >= -grants'[a].lent /\ acct'[a].limit <= grants'[a].lent
    BY DEF Floors, WithinWhatWasLent
  <2>1. /\ acct[a].balance >= -grants[a].lent /\ acct[a].limit <= grants[a].lent /\ acct[a].balance \in Int
        /\ grants[a].lent \in Nat /\ acct'[a].limit = acct[a].limit
    BY ApplyMoves DEF Floors, WithinWhatWasLent, CreditTyped, AcctType, GrantsType
  <2>2. CASE a = r.to /\ r.by = Owner
    <3> HIDE DEF r
    <3> QED BY <1>2, <1>3, <1>4, <2>2, GrantedFits
  <2>3. CASE a # r.to \/ r.by # Owner
    <3>1. grants'[a].lent = grants[a].lent
      <4> HIDE DEF r
      <4> QED BY <1>2, <1>3, <1>4, <2>3, GrantedFits
    <3>2. CASE crplan.unit = "balance"
      <4>1. acct'[a].balance = acct[a].balance + Delta(c, a) /\ Held(a) = acct[a].balance
        BY <3>2, ApplyMoves DEF Held
      <4>2. CASE a = r.to
        BY <1>1, <1>2, <2>1, <2>3, <3>1, <3>2, <4>1, <4>2 DEF Pending, Delta
      <4>3. CASE a = r.by
        BY <1>1, <1>2, <2>1, <3>1, <3>2, <4>1, <4>3 DEF Pending, Delta
      <4>4. CASE a # r.to /\ a # r.by
        BY <2>1, <3>1, <4>1, <4>4 DEF Delta
      <4> QED BY <4>2, <4>3, <4>4
    <3>3. CASE crplan.unit # "balance"
      BY <2>1, <3>1, <3>3, ApplyMoves
    <3> QED BY <3>2, <3>3
  <2> QED BY <2>2, <2>3
<1>11. HandsOnWhatItGot'
  <2> SUFFICES ASSUME NEW a \in Resellers PROVE Given(a)' + grants'[a].taken >= 0
    BY DEF HandsOnWhatItGot
  <2>1. /\ Given(a) + grants[a].taken >= 0 /\ Held(a) <= Given(a) /\ Held(a) \in Int /\ Given(a) \in Int
        /\ Given(a)' = Given(a) + Delta(c, a) /\ grants[a].taken \in Nat
    BY <1>7, HeldWasGiven DEF HandsOnWhatItGot, CreditTyped, GrantsType
  <2>2. CASE a = r.to
    <3>1. grants'[a].taken = IF r.amount < 0 THEN grants[a].taken - r.amount ELSE grants[a].taken
      <4> HIDE DEF r
      <4> QED BY <1>2, <1>3, <1>4, <2>2, GrantedFits
    <3> QED BY <1>2, <2>1, <2>2, <3>1 DEF Delta
  <2>3. CASE a = r.by
    BY <1>1, <1>2, <1>4, <2>1, <2>3 DEF Pending, Delta
  <2>4. CASE a # r.to /\ a # r.by
    BY <1>4, <2>1, <2>4 DEF Delta
  <2> QED BY <2>2, <2>3, <2>4
<1>12. OwnerPutsIn'
  <2> DEFINE f == [a \in Resellers |-> Given(a)]
             g == [a \in Resellers |-> Given(a)']
             h == [a \in Resellers |-> IF a = r.to THEN f[a] + r.amount ELSE f[a]]
  <2>1. \A a \in Resellers : f[a] \in Int /\ g[a] \in Int /\ h[a] \in Int /\ g[a] = f[a] + Delta(c, a)
    BY <1>2, <1>7, HeldWasGiven
  <2>2. r.to \in Resellers /\ h[r.to] - f[r.to] = r.amount /\ \A a \in Resellers \ {r.to} : h[a] = f[a]
    BY <1>1, <1>2, <2>1 DEF Pending
  <2>3. \A a \in Resellers : a # r.by => g[a] = h[a]
    BY <2>1 DEF Delta
  <2>4. r.by \in Resellers => g[r.by] - h[r.by] = -r.amount
    BY <1>1, <1>2, <2>1 DEF Delta
  <2>5. put = SumFunctionOnSet(f, Resellers) /\ SumFunctionOnSet(f, Resellers) \in Int
    BY <1>2 DEF OwnerPutsIn
  <2> HIDE DEF f, g, h
  <2>6. SumFunctionOnSet(h, Resellers) = put + r.amount
    <3>1. SumFunctionOnSet(h, Resellers) = SumFunctionOnSet(f, Resellers) + (h[r.to] - f[r.to])
      BY <2>1, <2>2, SumChanges
    <3> QED BY <2>2, <2>5, <3>1
  <2>7. CASE r.by = Owner
    <3>1. \A a \in Resellers : g[a] = h[a]
      BY <2>3, <2>7
    <3>2. SumFunctionOnSet(g, Resellers) = SumFunctionOnSet(h, Resellers)
      BY <2>1, <3>1, SumsCompare
    <3> QED BY <1>1, <2>6, <2>7, <3>2 DEF OwnerPutsIn, g
  <2>8. CASE r.by # Owner
    <3>1. r.by \in Resellers
      BY <1>1, <2>8 DEF Pending
    <3>2. SumFunctionOnSet(g, Resellers) = SumFunctionOnSet(h, Resellers) + (g[r.by] - h[r.by])
      <4>1. \A a \in Resellers \ {r.by} : g[a] = h[a]
        BY <2>3
      <4> HIDE DEF r
      <4> QED BY <2>1, <3>1, <4>1, SumChanges
    <3>3. SumFunctionOnSet(g, Resellers) = put
      BY <1>2, <2>4, <2>6, <3>1, <3>2
    <3> QED BY <1>1, <2>8, <3>3 DEF OwnerPutsIn, g
  <2> QED BY <2>7, <2>8
<1>13. SalesAgree'
  <2>1. \A a \in Resellers : books'[a].spent = books[a].spent /\ books'[a].refunded = books[a].refunded
    BY ApplyMoves
  <2> QED BY <1>1, <2>1, SalesUntouched
<1>14. ModesStay' /\ BillFits'
  <2>1. \A a \in Resellers : acct'[a].usage = acct[a].usage /\ acct'[a].unbilled = acct[a].unbilled
    BY ApplyMoves
  <2> QED BY <1>1, <2>1 DEF ModesStay, BillFits, CreditTyped, BillType
<1>15. \A s \in Sales : SaleFits(s)'
  BY <1>1 DEF SaleFits, CostOf
<1> QED
  BY <1>6, <1>8, <1>9, <1>10, <1>11, <1>12, <1>13, <1>14, <1>15


\* A new account is one that nothing is pending on: what it starts with is of
\* the owner, and in its log.
LEMMA CreateStep ==
    ASSUME CreditIInv, Calm, NEW a \in Resellers, NEW by \in Resellers \cup {Owner}, NEW n \in {-1, 0, 1}, Create(a, by, n)
    PROVE  CreditIInv' /\ Calm'
<1> USE DEF CreditIInv
<1>1. /\ Undisturbed(a) /\ (by # Owner => n = 0)
      /\ acct' = [acct EXCEPT ![a] = Holding(a, Held(a) + n)] /\ books' = [books EXCEPT ![a] = Logged(a, n)]
      /\ put' = IF by = Owner THEN put + n ELSE put
      /\ grants' = [grants EXCEPT ![a] = Granted(a, by, n)]
      /\ crplan' = [crplan EXCEPT !.later = @ \ {a}]
      /\ UNCHANGED <<sale, change, bill, metered>>
  BY DEF Create, Calm
<1>2. /\ acct \in [Resellers -> AcctType] /\ books \in [Resellers -> BooksType] /\ grants \in [Resellers -> GrantsType]
      /\ acct[a] \in AcctType /\ books[a] \in BooksType /\ crplan \in CrPlan /\ n \in Int /\ Held(a) \in Int /\ put \in Int
  BY HeldWasGiven DEF CreditTyped
<1>3. /\ crplan' \in CrPlan /\ crplan'.usage = crplan.usage /\ crplan'.sells = crplan.sells
      /\ crplan'.unit = crplan.unit /\ crplan'.events = crplan.events
  <2>1. crplan.later \ {a} \in SUBSET Resellers
    BY <1>2 DEF CrPlan
  <2> QED BY <1>1, <1>2, <2>1 DEF CrPlan
<1>4. PICK held \in Int : held = Held(a) + n
  BY <1>2
<1>5. acct'[a] = Holding(a, held) /\ books'[a] = Logged(a, n) /\ \A b \in Resellers \ {a} : acct'[b] = acct[b] /\ books'[b] = books[b]
  BY <1>1, <1>2, <1>4
<1>6. /\ acct'[a] \in AcctType /\ books'[a] \in BooksType
      /\ acct'[a].unbilled = acct[a].unbilled /\ acct'[a].usage = acct[a].usage /\ acct'[a].limit = acct[a].limit
      /\ books'[a].spent = books[a].spent /\ books'[a].refunded = books[a].refunded /\ books'[a].billed = books[a].billed
      /\ IF crplan.unit = "balance"
         THEN /\ acct'[a].balance = acct[a].balance + n /\ books'[a].given = books[a].given + n
              /\ acct'[a].volume = acct[a].volume /\ books'[a].volume = books[a].volume
         ELSE /\ acct'[a].volume = acct[a].volume + n /\ books'[a].volume = books[a].volume + n
              /\ acct'[a].balance = acct[a].balance /\ books'[a].given = books[a].given
  <2>1. CASE crplan.unit = "balance"
    <3>1. acct'[a] = [acct[a] EXCEPT !.balance = held] /\ books'[a] = [books[a] EXCEPT !.given = @ + n]
      BY <1>5, <2>1 DEF Holding, Logged
    <3> QED BY <1>2, <1>4, <2>1, <3>1 DEF AcctType, BooksType, Held
  <2>2. CASE crplan.unit # "balance"
    <3>1. acct'[a] = [acct[a] EXCEPT !.volume = held] /\ books'[a] = [books[a] EXCEPT !.volume = @ + n]
      BY <1>5, <2>2 DEF Holding, Logged
    <3> QED BY <1>2, <1>4, <2>2, <3>1 DEF AcctType, BooksType, Held
  <2> QED BY <2>1, <2>2
<1>7. acct' \in [Resellers -> AcctType] /\ books' \in [Resellers -> BooksType]
  BY <1>1, <1>2, <1>5, <1>6
<1>8. /\ grants' \in [Resellers -> GrantsType] /\ grants'[a] = Granted(a, by, n)
      /\ \A b \in Resellers \ {a} : grants'[b] = grants[b]
      /\ grants'[a].taken = IF n < 0 THEN grants[a].taken - n ELSE grants[a].taken
      /\ by = Owner => acct'[a].balance >= -grants'[a].lent /\ acct'[a].limit <= grants'[a].lent
      /\ by # Owner => grants'[a].lent = grants[a].lent
  <2>1. Granted(a, by, n) \in GrantsType /\ grants'[a] = Granted(a, by, n)
    BY <1>1, <1>2, <1>7, GrantedFits
  <2> QED BY <1>1, <1>2, <1>7, <2>1, GrantedFits
<1>9. CreditTyped'
  BY <1>1, <1>2, <1>3, <1>7, <1>8 DEF CreditTyped
<1>10. \A s \in Sales : SaleFits(s)'
  <2> SUFFICES ASSUME NEW s \in Sales PROVE SaleFits(s)'
    OBVIOUS
  <2>1. SaleFits(s) /\ sale' = sale
    BY <1>1
  <2> QED BY <1>3, <2>1 DEF SaleFits, CostOf
<1>11. ModesStay' /\ BillFits'
  <2>1. \A b \in Resellers : acct'[b].usage = acct[b].usage /\ acct'[b].unbilled = acct[b].unbilled
    BY <1>5, <1>6
  <2>2. bill.of \in Resellers \cup {Nobody}
    BY DEF CreditTyped, BillType
  <2> QED BY <1>1, <1>3, <2>1, <2>2 DEF ModesStay, BillFits
<1>12. SalesAgree'
  <2>1. \A b \in Resellers : books'[b].spent = books[b].spent /\ books'[b].refunded = books[b].refunded
    BY <1>5, <1>6
  <2> QED BY <1>1, <2>1, SalesUntouched
<1>13. PendingFit'
  <2>1. \A c \in Changes : change[c].state = "read" => \A b \in Rows(c) \ {Owner} : Held(b)' = Held(b)
    BY <1>1, <1>3, <1>5, <1>7, OthersPending
  <2>2. ASSUME NEW c \in Changes, change[c].state = "read" PROVE grants'[change[c].to].lent >= grants[change[c].to].lent
    <3>1. change[c].to \in Resellers \ {a}
      BY <1>1, <2>2 DEF Undisturbed, Calm, PendingFit, Pending
    <3>2. grants'[change[c].to] = grants[change[c].to] /\ grants[change[c].to].lent \in Int
      BY <1>2, <1>8, <3>1 DEF GrantsType
    <3> QED BY <3>2
  <2> QED BY <1>1, <1>3, <1>8, <2>1, <2>2, PendingStays
<1>14. BooksAgree' /\ MeteredIsBilled'
  <2> SUFFICES ASSUME NEW b \in Resellers
               PROVE  /\ acct'[b].balance = books'[b].given - books'[b].spent + books'[b].refunded
                      /\ acct'[b].volume = books'[b].volume - metered'[b]
                      /\ metered'[b] = acct'[b].unbilled + books'[b].billed
    BY DEF BooksAgree, MeteredIsBilled
  <2>1. /\ acct[b].balance = books[b].given - books[b].spent + books[b].refunded
        /\ acct[b].volume = books[b].volume - metered[b] /\ metered[b] = acct[b].unbilled + books[b].billed
        /\ books[b].given \in Int /\ books[b].spent \in Int /\ books[b].refunded \in Int /\ books[b].volume \in Int /\ metered[b] \in Int
    BY DEF BooksAgree, MeteredIsBilled, CreditTyped, BooksType
  <2>2. CASE b = a
    BY <1>1, <1>2, <1>6, <2>1, <2>2
  <2>3. CASE b # a
    BY <1>1, <1>5, <2>1, <2>3
  <2> QED BY <2>2, <2>3
<1>15. Floors'
  <2> SUFFICES ASSUME NEW b \in Resellers PROVE acct'[b].balance >= -grants'[b].lent /\ acct'[b].limit <= grants'[b].lent
    BY DEF Floors, WithinWhatWasLent
  <2>1. /\ acct[b].balance >= -grants[b].lent /\ acct[b].limit <= grants[b].lent /\ acct[b].balance \in Int
    BY DEF Floors, WithinWhatWasLent, CreditTyped, AcctType
  <2>2. CASE b = a /\ by = Owner
    BY <1>8, <2>2
  <2>3. CASE b = a /\ by # Owner
    <3>1. acct'[a].balance = acct[a].balance
      BY <1>1, <1>6, <2>1, <2>3
    <3> QED BY <1>6, <1>8, <2>1, <2>3, <3>1
  <2>4. CASE b # a
    BY <1>5, <1>8, <2>1, <2>4
  <2> QED BY <2>2, <2>3, <2>4
<1>16. Given(a)' = Given(a) + n /\ Given(a) \in Int /\ \A b \in Resellers \ {a} : Given(b)' = Given(b) /\ Given(b) \in Int
  BY <1>3, <1>5, <1>6, HeldWasGiven DEF Given
<1>17. HandsOnWhatItGot'
  <2> SUFFICES ASSUME NEW b \in Resellers PROVE Given(b)' + grants'[b].taken >= 0
    BY DEF HandsOnWhatItGot
  <2>1. Given(b) + grants[b].taken >= 0 /\ grants[b].taken \in Nat
    BY <1>2 DEF HandsOnWhatItGot, GrantsType
  <2>2. CASE b = a
    BY <1>2, <1>8, <1>16, <2>1, <2>2
  <2>3. CASE b # a
    BY <1>8, <1>16, <2>1, <2>3
  <2> QED BY <2>2, <2>3
<1>18. OwnerPutsIn'
  <2> DEFINE f == [b \in Resellers |-> Given(b)]
             g == [b \in Resellers |-> Given(b)']
  <2>1. \A b \in Resellers : f[b] \in Int /\ g[b] \in Int
    BY <1>2, <1>16
  <2>2. g[a] - f[a] = n /\ \A b \in Resellers \ {a} : g[b] = f[b]
    BY <1>2, <1>16
  <2>3. put = SumFunctionOnSet(f, Resellers) /\ put' = put + n
    BY <1>1, <1>2 DEF OwnerPutsIn
  <2> HIDE DEF f, g
  <2>4. SumFunctionOnSet(g, Resellers) = SumFunctionOnSet(f, Resellers) + (g[a] - f[a])
    BY <2>1, <2>2, SumChanges
  <2>5. put' = SumFunctionOnSet(g, Resellers)
    BY <2>2, <2>3, <2>4
  <2> QED BY <2>5 DEF OwnerPutsIn, g
<1> QED
  BY <1>3, <1>9, <1>10, <1>11, <1>12, <1>13, <1>14, <1>15, <1>17, <1>18 DEF Calm

\* Another limit of a: it owes no more than it is let, and what is pending goes
\* by the limit it read.
LEMMA SetLimitStep ==
    ASSUME CreditIInv, NEW a \in Resellers, NEW n \in {0, 2}, SetLimit(a, n)
    PROVE  CreditIInv' /\ (Calm => Calm')
<1> USE DEF CreditIInv
<1> DEFINE open == \E c \in Changes : change[c].state = "read" /\ change[c].to = a
           lent == IF open THEN Larger(grants[a].lent, n) ELSE Larger(n, -acct[a].balance)
<1>1. /\ crplan.left > 0 /\ crplan' = [crplan EXCEPT !.left = @ - 1]
      /\ acct' = [acct EXCEPT ![a].limit = n]
      /\ grants' = [grants EXCEPT ![a].lent = lent]
      /\ UNCHANGED <<books, sale, change, bill, metered, put>>
  BY DEF SetLimit, Happens, OneLess
<1>2. /\ acct[a] \in AcctType /\ acct \in [Resellers -> AcctType] /\ crplan \in CrPlan /\ n \in Nat
      /\ grants[a] \in GrantsType /\ grants \in [Resellers -> GrantsType]
  BY DEF CreditTyped
<1>3. /\ crplan' \in CrPlan /\ crplan'.usage = crplan.usage /\ crplan'.sells = crplan.sells
      /\ crplan'.unit = crplan.unit /\ crplan'.events = crplan.events
  BY <1>1, <1>2 DEF CrPlan
<1>4. /\ grants[a].lent \in Nat /\ acct[a].balance \in Int /\ acct[a].balance >= -grants[a].lent
      /\ acct[a].limit \in Nat /\ grants[a].taken \in Nat
  BY <1>2 DEF AcctType, GrantsType, Floors, WithinWhatWasLent
<1>5. /\ lent \in Nat /\ n <= lent /\ acct[a].balance >= -lent
      /\ open => lent >= grants[a].lent
  <2>1. CASE open
    BY <1>2, <1>4, <2>1 DEF Larger
  <2>2. CASE ~open
    BY <1>2, <1>4, <2>2 DEF Larger
  <2> QED BY <2>1, <2>2
<1> HIDE DEF lent
<1>6. /\ acct'[a] = [acct[a] EXCEPT !.limit = n] /\ grants'[a] = [grants[a] EXCEPT !.lent = lent]
      /\ \A b \in Resellers \ {a} : acct'[b] = acct[b] /\ grants'[b] = grants[b]
  BY <1>1, <1>2
<1>7. /\ acct'[a] \in AcctType /\ acct'[a].balance = acct[a].balance /\ acct'[a].volume = acct[a].volume
      /\ acct'[a].unbilled = acct[a].unbilled /\ acct'[a].usage = acct[a].usage /\ acct'[a].limit = n
      /\ grants'[a] \in GrantsType /\ grants'[a].taken = grants[a].taken /\ grants'[a].lent = lent
  BY <1>2, <1>4, <1>5, <1>6 DEF AcctType, GrantsType
<1>8. acct' \in [Resellers -> AcctType] /\ grants' \in [Resellers -> GrantsType]
  BY <1>1, <1>2, <1>6, <1>7
<1>9. CreditTyped'
  BY <1>1, <1>3, <1>8 DEF CreditTyped
<1>10. \A b \in Resellers : /\ acct'[b].balance = acct[b].balance /\ acct'[b].volume = acct[b].volume
                              /\ acct'[b].unbilled = acct[b].unbilled /\ acct'[b].usage = acct[b].usage
                              /\ grants'[b].taken = grants[b].taken
  BY <1>6, <1>7
<1>11. \A s \in Sales : SaleFits(s)'
  <2> SUFFICES ASSUME NEW s \in Sales PROVE SaleFits(s)'
    OBVIOUS
  <2>1. SaleFits(s) /\ sale' = sale
    BY <1>1
  <2> QED BY <1>3, <2>1 DEF SaleFits, CostOf
<1>12. ModesStay' /\ BillFits' /\ BooksAgree' /\ MeteredIsBilled'
  <2>1. bill.of \in Resellers \cup {Nobody}
    BY DEF CreditTyped, BillType
  <2> QED BY <1>1, <1>3, <1>10, <2>1 DEF ModesStay, BillFits, BooksAgree, MeteredIsBilled
<1>13. SalesAgree'
  BY <1>1, SalesUntouched
<1>14. \A b \in Resellers : Given(b)' = Given(b)
  BY <1>1, <1>3 DEF Given
<1>15. OwnerPutsIn' /\ HandsOnWhatItGot'
  <2>1. [b \in Resellers |-> Given(b)]' = [b \in Resellers |-> Given(b)]
    BY <1>14
  <2> QED BY <1>1, <1>10, <1>14, <2>1 DEF OwnerPutsIn, HandsOnWhatItGot
<1>16. PendingFit'
  <2>1. ASSUME NEW c \in Changes, change[c].state = "read" PROVE \A b \in Rows(c) \ {Owner} : Held(b)' = Held(b)
    <3> SUFFICES ASSUME NEW b \in Rows(c) \ {Owner} PROVE Held(b)' = Held(b)
      OBVIOUS
    <3>1. b \in Resellers
      BY <2>1 DEF PendingFit, Pending, Rows
    <3> QED BY <1>3, <1>10, <3>1 DEF Held
  <2>2. ASSUME NEW c \in Changes, change[c].state = "read" PROVE grants'[change[c].to].lent >= grants[change[c].to].lent
    <3>1. change[c].to \in Resellers /\ grants[change[c].to].lent \in Int
      BY <1>2, <2>2 DEF PendingFit, Pending, GrantsType
    <3>2. CASE change[c].to = a
      BY <1>5, <1>7, <2>2, <3>2
    <3>3. CASE change[c].to # a
      BY <1>6, <3>1, <3>3
    <3> QED BY <3>2, <3>3
  <2> QED BY <1>1, <1>3, <1>8, <2>1, <2>2, PendingStays
<1>17. Floors'
  <2> SUFFICES ASSUME NEW b \in Resellers PROVE acct'[b].balance >= -grants'[b].lent /\ acct'[b].limit <= grants'[b].lent
    BY DEF Floors, WithinWhatWasLent
  <2>1. CASE b = a
    BY <1>5, <1>7, <2>1
  <2>2. CASE b # a
    BY <1>6, <2>2 DEF Floors, WithinWhatWasLent
  <2> QED BY <2>1, <2>2
<1> QED
  BY <1>3, <1>9, <1>11, <1>12, <1>13, <1>15, <1>16, <1>17 DEF Calm

-----------------------------------------------------------------------------
(* Usage billing *)

LEMMA MeterStep ==
    ASSUME CreditIInv, Calm, NEW a \in Resellers, Meter(a)
    PROVE  CreditIInv' /\ Calm'
<1> USE DEF CreditIInv
<1>1. /\ crplan.left > 0 /\ (crplan.unit = "volume" => Undisturbed(a))
      /\ acct' = [acct EXCEPT ![a].volume = @ - 1, ![a].unbilled = @ + 1]
      /\ metered' = [metered EXCEPT ![a] = @ + 1]
      /\ crplan' = [crplan EXCEPT !.left = @ - 1]
      /\ UNCHANGED <<books, sale, change, bill, put, grants>>
  BY DEF Meter, Happens, OneLess
<1>2. acct[a] \in AcctType /\ metered[a] \in Nat /\ crplan \in CrPlan /\ acct \in [Resellers -> AcctType]
  BY DEF CreditTyped
<1>3. [acct[a] EXCEPT !.volume = @ - 1, !.unbilled = @ + 1] \in AcctType
  <2>1. acct[a].volume - 1 \in Int /\ acct[a].unbilled + 1 \in Nat
    BY <1>2 DEF AcctType
  <2> QED BY <1>2, <2>1 DEF AcctType
<1>4. acct'[a] = [acct[a] EXCEPT !.volume = @ - 1, !.unbilled = @ + 1]
  BY <1>1, <1>2
<1>5. /\ acct' \in [Resellers -> AcctType] /\ metered'[a] = metered[a] + 1
      /\ acct'[a].volume = acct[a].volume - 1 /\ acct'[a].unbilled = acct[a].unbilled + 1
      /\ acct'[a].balance = acct[a].balance /\ acct'[a].usage = acct[a].usage
      /\ \A b \in Resellers \ {a} : acct'[b] = acct[b] /\ metered'[b] = metered[b]
      /\ acct[a].volume \in Int /\ acct[a].unbilled \in Nat
  BY <1>1, <1>2, <1>3, <1>4 DEF AcctType, CreditTyped
<1>6. /\ crplan' \in CrPlan /\ crplan'.usage = crplan.usage /\ crplan'.sells = crplan.sells
      /\ crplan'.unit = crplan.unit /\ crplan'.events = crplan.events
  BY <1>1, <1>2 DEF CrPlan
<1>7. CreditTyped'
  BY <1>1, <1>2, <1>5, <1>6 DEF CreditTyped
<1>8. \A s \in Sales : SaleFits(s)'
  <2> SUFFICES ASSUME NEW s \in Sales PROVE SaleFits(s)'
    OBVIOUS
  <2>1. SaleFits(s) /\ sale' = sale
    BY <1>1
  <2> QED BY <1>6, <2>1 DEF SaleFits, CostOf
<1>9. ModesStay' /\ Floors'
  <2>1. ModesStay'
    BY <1>5, <1>6 DEF ModesStay
  <2>2. acct'[a].limit = acct[a].limit /\ grants' = grants
    BY <1>1, <1>2, <1>4 DEF AcctType
  <2>3. \A b \in Resellers : acct'[b].balance = acct[b].balance /\ acct'[b].limit = acct[b].limit
    BY <1>5, <2>2
  <2> QED BY <2>1, <2>2, <2>3 DEF Floors, WithinWhatWasLent
<1>10. BillFits'
  <2>1. bill \in BillType
    BY DEF CreditTyped
  <2>2. ASSUME NEW b \in Resellers PROVE acct[b].unbilled \in Nat /\ acct'[b].unbilled >= acct[b].unbilled
    <3>1. acct[b].unbilled \in Nat
      BY <1>2 DEF AcctType
    <3> QED BY <1>5, <3>1
  <2>3. bill.of # Nobody => bill.of \in Resellers /\ bill.gb \in Nat
    BY <2>1 DEF BillType
  <2>4. bill.of # Nobody => bill.gb <= acct'[bill.of].unbilled
    BY <2>2, <2>3, <1>5 DEF BillFits, AcctType
  <2> QED BY <1>1, <2>4 DEF BillFits
<1>11. SalesAgree' /\ OwnerPutsIn' /\ HandsOnWhatItGot'
  BY <1>1, <1>6, <1>7, SalesUntouched, GivenUntouched
<1>12. PendingFit'
  <2>1. \A c \in Changes : change[c].state = "read" => \A b \in Rows(c) \ {Owner} : Held(b)' = Held(b)
    <3>1. CASE crplan.unit = "volume"
      BY <1>1, <1>5, <1>6, <3>1, OthersPending
    <3>2. CASE crplan.unit # "volume"
      <4> SUFFICES ASSUME NEW c \in Changes, change[c].state = "read", NEW b \in Rows(c) \ {Owner} PROVE Held(b)' = Held(b)
        OBVIOUS
      <4>1. b \in Resellers
        BY DEF PendingFit, Pending, Rows
      <4> QED BY <1>2, <1>5, <1>6, <3>2, <4>1 DEF Held, CrPlan
    <3> QED BY <3>1, <3>2
  <2> QED BY <1>1, <1>6, <2>1, PendingUntouched
<1>13. BooksAgree' /\ MeteredIsBilled'
  <2> SUFFICES ASSUME NEW b \in Resellers
               PROVE  /\ acct'[b].balance = books'[b].given - books'[b].spent + books'[b].refunded
                      /\ acct'[b].volume = books'[b].volume - metered'[b]
                      /\ metered'[b] = acct'[b].unbilled + books'[b].billed
    BY DEF BooksAgree, MeteredIsBilled
  <2>1. /\ acct[b].balance = books[b].given - books[b].spent + books[b].refunded
        /\ acct[b].volume = books[b].volume - metered[b] /\ metered[b] = acct[b].unbilled + books[b].billed
        /\ books[b].volume \in Int /\ metered[b] \in Nat /\ books[b].billed \in Nat
    BY DEF BooksAgree, MeteredIsBilled, CreditTyped, BooksType
  <2>2. CASE b = a
    BY <1>1, <1>5, <2>1, <2>2
  <2>3. CASE b # a
    BY <1>1, <1>5, <2>1, <2>3
  <2> QED BY <2>2, <2>3
<1> QED
  BY <1>6, <1>7, <1>8, <1>9, <1>10, <1>11, <1>12, <1>13 DEF Calm

\* The settlement's own steps leave accounts alone until it has a price.
LEMMA SettleStep ==
    ASSUME CreditIInv, Settlement \/ GiveUpForToday \/ \E a \in Resellers : ReadMeter(a)
    PROVE  CreditIInv' /\ (Calm => Calm')
<1> USE DEF CreditIInv
<1>1. /\ UNCHANGED <<acct, books, sale, change, metered, put, grants>>
      /\ crplan' = crplan \/ (crplan.left > 0 /\ crplan' = [crplan EXCEPT !.left = @ - 1])
      /\ bill' \in BillType /\ BillFits'
  <2>1. bill \in BillType /\ bill.of \in Resellers \cup {Nobody} /\ bill.gb \in Nat /\ bill.todo \in SUBSET Resellers
    BY DEF CreditTyped, BillType
  <2>2. CASE Settlement
    <3>1. bill' = [bill EXCEPT !.todo = {a \in Resellers : acct[a].usage /\ acct[a].unbilled > 0}] /\ bill.of = Nobody
      BY <2>2 DEF Settlement
    <3>2. bill'.of = Nobody /\ bill' \in BillType
      BY <2>1, <3>1 DEF BillType
    <3> QED BY <2>2, <3>2 DEF Settlement, BillFits, Happens, OneLess
  <2>3. CASE GiveUpForToday
    BY <2>3 DEF GiveUpForToday, BillFits, BillType, Happens, OneLess
  <2>4. ASSUME NEW a \in Resellers, ReadMeter(a)
        PROVE  /\ UNCHANGED <<crplan, acct, books, sale, change, metered, put, grants>>
               /\ bill' \in BillType /\ BillFits'
    <3>1. bill' = [todo |-> bill.todo \ {a}, of |-> a, gb |-> acct[a].unbilled] /\ UNCHANGED <<crplan, acct, books, sale, change, metered, put, grants>>
      BY <2>4 DEF ReadMeter
    <3>2. acct[a].unbilled \in Nat
      BY DEF CreditTyped, AcctType
    <3> QED BY <2>1, <3>1, <3>2 DEF BillFits, BillType
  <2> QED BY <2>2, <2>3, <2>4
<1>2. /\ crplan' \in CrPlan /\ crplan'.usage = crplan.usage /\ crplan'.sells = crplan.sells
      /\ crplan'.unit = crplan.unit /\ crplan'.events = crplan.events
  BY <1>1 DEF CrPlan, CreditTyped
<1>3. CreditTyped'
  BY <1>1, <1>2 DEF CreditTyped
<1>4. \A s \in Sales : SaleFits(s)'
  BY <1>1, <1>2 DEF SaleFits, CostOf
<1>5. SalesAgree' /\ OwnerPutsIn' /\ HandsOnWhatItGot'
  BY <1>1, <1>2, <1>3, SalesUntouched, GivenUntouched
<1>6. PendingFit'
  BY <1>1, <1>2, PendingUntouched DEF Held
<1> QED
  BY <1>1, <1>2, <1>3, <1>4, <1>5, <1>6 DEF ModesStay, BooksAgree, MeteredIsBilled, Floors, WithinWhatWasLent, Calm

\* The price of what was read is billed, and as much taken off the meter.
LEMMA PriceStep ==
    ASSUME CreditIInv, PriceIt
    PROVE  CreditIInv'
<1> USE DEF CreditIInv
<1> DEFINE a == bill.of
           gb == bill.gb
<1>1. /\ a \in Resellers /\ gb \in Nat /\ gb <= acct[a].unbilled
      /\ acct' = [acct EXCEPT ![a].unbilled = @ - gb]
      /\ books' = [books EXCEPT ![a].billed = @ + gb]
      /\ bill' = [bill EXCEPT !.of = Nobody, !.gb = 0]
      /\ UNCHANGED <<crplan, sale, change, metered, put, grants>>
  BY DEF PriceIt, Drained, BillFits, CreditTyped, BillType
<1> HIDE DEF a, gb
<1>2. acct[a] \in AcctType /\ books[a] \in BooksType /\ acct \in [Resellers -> AcctType] /\ books \in [Resellers -> BooksType]
  BY <1>1 DEF CreditTyped
<1>3. acct'[a] = [acct[a] EXCEPT !.unbilled = @ - gb] /\ books'[a] = [books[a] EXCEPT !.billed = @ + gb]
  BY <1>1, <1>2
<1>4. acct'[a] \in AcctType /\ books'[a] \in BooksType
  BY <1>1, <1>2, <1>3 DEF AcctType, BooksType
<1>5. /\ acct' \in [Resellers -> AcctType] /\ books' \in [Resellers -> BooksType]
      /\ \A b \in Resellers : /\ acct'[b].balance = acct[b].balance /\ acct'[b].volume = acct[b].volume /\ acct'[b].usage = acct[b].usage
                              /\ books'[b].given = books[b].given /\ books'[b].volume = books[b].volume
                              /\ books'[b].spent = books[b].spent /\ books'[b].refunded = books[b].refunded
                              /\ acct[b].unbilled \in Nat /\ books[b].billed \in Nat
                              /\ acct'[b].unbilled + books'[b].billed = acct[b].unbilled + books[b].billed
  <2>1. acct' \in [Resellers -> AcctType] /\ books' \in [Resellers -> BooksType]
    BY <1>1, <1>2, <1>3, <1>4
  <2> SUFFICES ASSUME NEW b \in Resellers
               PROVE  /\ acct'[b].balance = acct[b].balance /\ acct'[b].volume = acct[b].volume /\ acct'[b].usage = acct[b].usage
                      /\ books'[b].given = books[b].given /\ books'[b].volume = books[b].volume
                      /\ books'[b].spent = books[b].spent /\ books'[b].refunded = books[b].refunded
                      /\ acct[b].unbilled \in Nat /\ books[b].billed \in Nat
                      /\ acct'[b].unbilled + books'[b].billed = acct[b].unbilled + books[b].billed
    BY <2>1
  <2>2. acct[b].unbilled \in Nat /\ books[b].billed \in Nat
    BY <1>2 DEF AcctType, BooksType
  <2>3. CASE b = a
    BY <1>1, <1>2, <1>3, <2>2, <2>3 DEF AcctType, BooksType
  <2>4. CASE b # a
    BY <1>1, <1>2, <2>2, <2>4
  <2> QED BY <2>3, <2>4
<1>6. bill' \in BillType /\ BillFits'
  <2>1. bill'.of = Nobody /\ bill' \in BillType
    BY <1>1 DEF CreditTyped, BillType
  <2> QED BY <2>1 DEF BillFits
<1>7. CreditTyped'
  BY <1>1, <1>5, <1>6 DEF CreditTyped
<1>8. \A s \in Sales : SaleFits(s)'
  BY <1>1 DEF SaleFits, CostOf
<1>9. SalesAgree' /\ OwnerPutsIn' /\ HandsOnWhatItGot'
  BY <1>1, <1>5, <1>7, SalesUntouched, GivenUntouched
<1>10. PendingFit'
  <2>1. \A c \in Changes : change[c].state = "read" => \A b \in Rows(c) \ {Owner} : Held(b)' = Held(b)
    <3> SUFFICES ASSUME NEW c \in Changes, change[c].state = "read", NEW b \in Rows(c) \ {Owner} PROVE Held(b)' = Held(b)
      OBVIOUS
    <3>1. b \in Resellers
      BY DEF PendingFit, Pending, Rows
    <3> QED BY <1>1, <1>5, <3>1 DEF Held
  <2> QED BY <1>1, <2>1, PendingUntouched
<1>11. BooksAgree' /\ MeteredIsBilled' /\ ModesStay' /\ Floors'
  BY <1>1, <1>5 DEF BooksAgree, MeteredIsBilled, ModesStay, Floors, WithinWhatWasLent
<1> QED
  BY <1>6, <1>7, <1>8, <1>9, <1>10, <1>11

\* Another billing mode, of a reseller who does not sell.
LEMMA SwitchStep ==
    ASSUME CreditIInv, Calm, NEW a \in Resellers, Switch(a)
    PROVE  CreditIInv' /\ Calm'
<1> USE DEF CreditIInv
<1>1. /\ "switch" \in crplan.events /\ crplan.left > 0 /\ crplan' = [crplan EXCEPT !.left = @ - 1]
      /\ acct' = [acct EXCEPT ![a].usage = ~@]
      /\ UNCHANGED <<books, sale, change, bill, metered, put, grants>>
  BY DEF Switch, Happens, OneLess
<1>2. acct[a] \in AcctType /\ acct \in [Resellers -> AcctType] /\ crplan \in CrPlan
  BY DEF CreditTyped
<1>3. /\ crplan' \in CrPlan /\ crplan'.usage = crplan.usage /\ crplan'.sells = crplan.sells
      /\ crplan'.unit = crplan.unit /\ crplan'.events = crplan.events
  BY <1>1, <1>2 DEF CrPlan
<1>4. acct'[a] = [acct[a] EXCEPT !.usage = ~@]
  BY <1>1, <1>2
<1>5. acct'[a] \in AcctType
  <2>1. (~acct[a].usage) \in BOOLEAN
    OBVIOUS
  <2> QED BY <1>2, <1>4, <2>1 DEF AcctType
<1>6. /\ acct' \in [Resellers -> AcctType]
      /\ \A b \in Resellers : acct'[b].balance = acct[b].balance /\ acct'[b].volume = acct[b].volume /\ acct'[b].unbilled = acct[b].unbilled
  BY <1>1, <1>2, <1>4, <1>5 DEF AcctType
<1>7. CreditTyped'
  BY <1>1, <1>3, <1>6 DEF CreditTyped
<1>8. \A s \in Sales : SaleFits(s)'
  BY <1>1, <1>3 DEF SaleFits, CostOf
<1>9. SalesAgree' /\ OwnerPutsIn' /\ HandsOnWhatItGot'
  BY <1>1, <1>3, <1>7, SalesUntouched, GivenUntouched
<1>10. PendingFit'
  <2>1. \A c \in Changes : change[c].state = "read" => \A b \in Rows(c) \ {Owner} : Held(b)' = Held(b)
    <3> SUFFICES ASSUME NEW c \in Changes, change[c].state = "read", NEW b \in Rows(c) \ {Owner} PROVE Held(b)' = Held(b)
      OBVIOUS
    <3>1. b \in Resellers
      BY DEF PendingFit, Pending, Rows
    <3> QED BY <1>1, <1>3, <1>6, <3>1 DEF Held
  <2> QED BY <1>1, <1>3, <2>1, PendingUntouched
<1>11. BillFits' /\ ModesStay'
  <2>1. bill.of \in Resellers \cup {Nobody}
    BY DEF CreditTyped, BillType
  <2> QED BY <1>1, <1>3, <1>6, <2>1 DEF BillFits, ModesStay
<1>12. BooksAgree' /\ MeteredIsBilled' /\ Floors'
  BY <1>1, <1>3, <1>6 DEF BooksAgree, MeteredIsBilled, Floors, WithinWhatWasLent
<1> QED
  BY <1>3, <1>7, <1>8, <1>9, <1>10, <1>11, <1>12 DEF Calm

-----------------------------------------------------------------------------
(* The theorem *)

\* What is proved of every behaviour: its plan is one, and of a calm one the rest.
CreditKept == crplan \in CrPlan /\ (Calm => CreditIInv)

LEMMA CreditStep ==
    ASSUME CreditKept, [CreditNext]_creditvars
    PROVE  CreditKept'
<1> USE DEF CreditKept
<1>1. ASSUME UNCHANGED creditvars PROVE CreditKept'
  <2>1. Calm' = Calm /\ CreditIInv' = CreditIInv
    BY <1>1 DEF creditvars, Calm, CreditIInv, CreditTyped, SaleFits, CostOf, ModesStay, SalesAgree, PaidBy, PendingFit, Pending, Held,
       RowsApart, Rows, BillFits, BooksAgree, MeteredIsBilled, Floors, WithinWhatWasLent, OwnerPutsIn, HandsOnWhatItGot, Given
  <2> QED BY <1>1, <2>1 DEF creditvars
<1>2. ASSUME CreditNext PROVE crplan' \in CrPlan /\ (Calm' => Calm)
  <2>1. ASSUME NEW s \in Sales, (\E a \in Resellers, n \in {1, 2} : Charge(s, a, n)) \/ Make(s) \/ Return(s) \/ Raise(s) \/ Die(s)
        PROVE  crplan' = crplan \/ (crplan.left > 0 /\ crplan' = OneLess)
    BY <2>1 DEF Charge, Make, Return, Raise, RefundCharge, Die, Happens
  <2>2. ASSUME NEW c \in Changes,
               \/ \E by, to \in Resellers, n \in Amounts : Ask(c, by, to, n)
               \/ \E deal \in crplan.deals : Ask(c, Owner, deal[1], deal[2])
               \/ Apply(c)
        PROVE  crplan' = crplan
    BY <2>2 DEF Ask, Apply
  <2>3. ASSUME (\E a \in Resellers : Meter(a) \/ ReadMeter(a) \/ Switch(a)) \/ Settlement \/ PriceIt \/ GiveUpForToday
        PROVE  crplan' = crplan \/ (crplan.left > 0 /\ crplan' = OneLess)
    BY <2>3 DEF Meter, ReadMeter, Switch, Settlement, PriceIt, GiveUpForToday, Happens
  <2>4. ASSUME NEW a \in Resellers,
               (\E by \in Resellers \cup {Owner}, n \in {-1, 0, 1} : Create(a, by, n)) \/ \E n \in {0, 2} : SetLimit(a, n)
        PROVE  \/ crplan.left > 0 /\ crplan' = OneLess
               \/ crplan' = [crplan EXCEPT !.later = @ \ {a}]
    BY <2>4 DEF Create, SetLimit, Happens
  <2>5. \/ crplan' = crplan
        \/ crplan.left > 0 /\ crplan' = OneLess
        \/ \E a \in Resellers : crplan' = [crplan EXCEPT !.later = @ \ {a}]
    BY <1>2, <2>1, <2>2, <2>3, <2>4 DEF CreditNext
  <2>6. crplan' \in CrPlan /\ crplan'.events = crplan.events /\ crplan'.sells = crplan.sells
    <3>1. ASSUME NEW a \in Resellers, crplan' = [crplan EXCEPT !.later = @ \ {a}]
          PROVE  crplan' \in CrPlan /\ crplan'.events = crplan.events /\ crplan'.sells = crplan.sells
      <4>1. crplan.later \ {a} \in SUBSET Resellers
        BY DEF CrPlan
      <4> QED BY <3>1, <4>1 DEF CrPlan
    <3>2. CASE crplan' = crplan \/ (crplan.left > 0 /\ crplan' = OneLess)
      BY <3>2 DEF OneLess, CrPlan
    <3> QED BY <2>5, <3>1, <3>2
  <2> QED BY <2>6 DEF Calm
<1>3. ASSUME CreditNext, Calm PROVE CreditIInv'
  <2>1. ASSUME NEW s \in Sales, Return(s) PROVE CreditIInv'
    <3>1. sale[s].state = "charged" /\ RefundCharge(s, sale[s].units - sale[s].made, "returned")
      BY <2>1 DEF Return, NotMade
    <3>2. sale[s].units - sale[s].made \in 0..2
      BY <1>3, <3>1 DEF CreditIInv, SaleFits, CreditTyped, SaleType
    <3> QED BY <1>3, <3>1, <3>2, RefundStep
  <2>2. ASSUME NEW s \in Sales, Raise(s) PROVE CreditIInv'
    <3>1. sale[s].state = "charged" /\ RefundCharge(s, sale[s].units, "raised")
      BY <2>2 DEF Raise
    <3>2. sale[s].units \in 0..2
      BY <1>3 DEF CreditIInv, CreditTyped, SaleType
    <3> QED BY <1>3, <3>1, <3>2, RefundStep
  <2>3. ASSUME NEW c \in Changes, NEW deal \in crplan.deals, Ask(c, Owner, deal[1], deal[2]) PROVE CreditIInv'
    <3>1. deal[1] \in Resellers /\ deal[2] \in Amounts
      BY DEF CrPlan
    <3> QED BY <1>3, <2>3, <3>1, AskStep
  <2> QED
    BY <1>3, <2>1, <2>2, <2>3, ChargeStep, MakeStep, DieStep, AskStep, ApplyStep, CreateStep, SetLimitStep, MeterStep, SettleStep,
       PriceStep, SwitchStep DEF CreditNext
<1> QED
  BY <1>1, <1>2, <1>3

\* Of the credit of resellers: while nobody's write of a row falls between
\* another's read and write of it, and nobody who sells changes his billing
\* mode, CreditIInv holds of every tree of resellers, any number of sales and of
\* transfers, and every plan.
THEOREM CreditInductive == CreditSpec => [](Calm => CreditIInv)
<1>1. CreditInit => CreditKept
  BY CreditIInvInit DEF CreditKept, CreditIInv, CreditTyped
<1>2. CreditKept /\ [CreditNext]_creditvars => CreditKept'
  BY CreditStep
<1>3. CreditKept => (Calm => CreditIInv)
  BY DEF CreditKept
<1> QED
  BY <1>1, <1>2, <1>3, PTL DEF CreditSpec

\* No credit is made or lost on its way down the tree, nobody falls below his
\* floor, traffic is billed once and a batch costs what was made of it.
THEOREM CreditIsKept == CreditSpec => [](Calm => CreditInv)
<1>1. (Calm => CreditIInv) => (Calm => CreditInv)
  BY CreditIInvImplies
<1> QED
  BY <1>1, CreditInductive, PTL

-----------------------------------------------------------------------------
(*****************************************************************************)
(* PaymentCards, for any set of ids, any number of payments and every plan.  *)
(*****************************************************************************)

HIDE CreditAssumption
USE PoolAssumption

-----------------------------------------------------------------------------
(* The total of a card as a run over the events *)

EventType == [card: Cards, amount: 1..2, reset: BOOLEAN, voided: BOOLEAN, detached: BOOLEAN]

\* What Accumulator says, of any baseline.
StartIn(b, c) == IF c \in DOMAIN b.by THEN b.by[c] ELSE 0
CountsIn(b, e, i, c) == e.card = c /\ ~e.detached /\ ~e.voided /\ i > b.after
TotalOf(b, events, c) ==
    FoldLeft(LAMBDA acc, i : IF ~CountsIn(b, events[i], i, c) THEN acc
                             ELSE IF events[i].reset THEN 0 ELSE acc + events[i].amount,
             StartIn(b, c), [i \in 1..Len(events) |-> i])

\* What the k-th event makes of a total.
Adding(b, events, c, k, acc) ==
    IF ~CountsIn(b, events[k], k, c) THEN acc ELSE IF events[k].reset THEN 0 ELSE acc + events[k].amount
StepsOf(b, events, c) == [k \in 1..Len(events) |-> [acc \in Nat |-> Adding(b, events, c, k, acc)]]

\* The total is where a run over all events ends.
Totals(b, events, c, r) ==
    /\ r \in [0..Len(events) -> Nat] /\ r[0] = StartIn(b, c)
    /\ \A k \in 1..Len(events) : r[k] = Adding(b, events, c, k, r[k - 1])

LEMMA TotalRuns ==
    ASSUME NEW b, NEW events \in Seq(EventType), NEW c, StartIn(b, c) \in Nat
    PROVE  \E r : Totals(b, events, c, r) /\ TotalOf(b, events, c) = r[Len(events)]
<1> DEFINE n == Len(events)
           seq == [i \in 1..n |-> i]
           ch == [T \in SUBSET (1..n) |-> Max(T)]
           step == StepsOf(b, events, c)
           start == StartIn(b, c)
           Op(x, T, g) == IF ~CountsIn(b, events[seq[x]], seq[x], c) THEN g[T \ {x}]
                          ELSE IF events[seq[x]].reset THEN 0 ELSE g[T \ {x}] + events[seq[x]].amount
           Is(g) == g = [T \in SUBSET (1..n) |-> IF T = {} THEN start ELSE Op(Max(T), T, g)]
           it == CHOOSE g : Is(g)
<1>1. n \in Nat /\ IsFiniteSet(1..n) /\ DOMAIN seq = 1..n
  BY FS_Interval
<1>2. \A T \in SUBSET (1..n) : T # {} => ch[T] \in T /\ ch[T] = Max(T)
  BY <1>1, LargestOf DEF Max
<1>3. ASSUME NEW k \in 1..n PROVE events[k] \in EventType
  BY <1>3
<1>4. ASSUME NEW k \in 1..n, NEW acc \in Nat
      PROVE  Adding(b, events, c, k, acc) \in Nat /\ step[k][acc] = Adding(b, events, c, k, acc)
  BY <1>3, <1>4 DEF Adding, EventType, StepsOf
<1>5. step \in [1..n -> [Nat -> Nat]]
  BY <1>4 DEF StepsOf
<1>6. ASSUME NEW g, NEW T \in SUBSET (1..n), T # {}, g[T \ {ch[T]}] \in Nat
      PROVE  Op(Max(T), T, g) = step[ch[T]][g[T \ {ch[T]}]]
  BY <1>2, <1>4, <1>6 DEF Adding
<1> HIDE DEF ch, step, start
<1>7. \E g : Is(g)
  <2>1. PICK g \in [SUBSET (1..n) -> Nat] : IsFolder(step, start, ch, g, 1..n)
    <3>1. start \in Nat /\ \A T \in SUBSET (1..n) : T # {} => ch[T] \in T
      BY <1>2 DEF start
    <3> HIDE DEF n
    <3> QED BY <1>1, <1>5, <3>1, FolderExists
  <2>2. ASSUME NEW T \in SUBSET (1..n) PROVE g[T] = IF T = {} THEN start ELSE Op(Max(T), T, g)
    <3>1. g[T] = Folds(step, start, ch, g, T)
      BY <2>1 DEF IsFolder
    <3>2. T \ {ch[T]} \in SUBSET (1..n)
      OBVIOUS
    <3>3. g[T \ {ch[T]}] \in Nat
      BY <2>1, <3>2
    <3>4. T # {} => Op(Max(T), T, g) = step[ch[T]][g[T \ {ch[T]}]]
      BY <1>6, <3>3
    <3> HIDE DEF Op
    <3> QED BY <3>1, <3>4 DEF Folds
  <2>3. Is(g)
    <3> HIDE DEF Op
    <3> QED BY <2>1, <2>2
  <2> QED BY <2>3
<1>8. Is(it)
  <2> HIDE DEF Is
  <2> QED BY <1>7
<1>9. TotalOf(b, events, c) = it[1..n]
  BY <1>1 DEF TotalOf, FoldLeft, MapThenFoldSet, start
<1>10. IsFolder(step, start, ch, it, 1..n)
  <2>1. start \in Nat /\ \A T \in SUBSET (1..n) : T # {} => ch[T] \in T
    BY <1>2 DEF start
  <2>2. it = [T \in SUBSET (1..n) |-> it[T]] /\ it[{}] = start
    <3> HIDE DEF Op, it
    <3> QED BY <1>8
  <2>3. \A T \in SUBSET (1..n) : T # {} /\ it[T \ {ch[T]}] \in Nat => it[T] = step[ch[T]][it[T \ {ch[T]}]]
    <3> SUFFICES ASSUME NEW T \in SUBSET (1..n), T # {}, it[T \ {ch[T]}] \in Nat PROVE it[T] = step[ch[T]][it[T \ {ch[T]}]]
      OBVIOUS
    <3>1. it[T] = Op(Max(T), T, it)
      <4> HIDE DEF Op, it
      <4> QED BY <1>8
    <3> HIDE DEF Op, it
    <3> QED BY <1>6, <3>1
  <2> HIDE DEF n, it
  <2> QED BY <1>1, <1>5, <2>1, <2>2, <2>3, FolderFrom
<1> HIDE DEF it
<1> DEFINE r == [k \in 0..n |-> it[1..k]]
<1>11. IsRun(step, start, n, r)
  <2>1. \A k \in 1..n : ch[1..k] = k
    <3> SUFFICES ASSUME NEW k \in 1..n PROVE ch[1..k] = k
      OBVIOUS
    <3>1. 1..k \in SUBSET (1..n) /\ k \in 1..k /\ \A y \in 1..k : k >= y
      OBVIOUS
    <3>2. Max(1..k) = k
      BY <3>1 DEF Max
    <3> QED BY <1>2, <3>1, <3>2
  <2> HIDE DEF n
  <2> QED BY <1>1, <1>10, <2>1, FolderRuns
<1>12. ASSUME NEW k \in 0..n PROVE r[k] \in Nat
  <2> DEFINE G == {j \in Nat : j <= n => r[j] \in Nat}
  <2>1. 0 \in G
    BY <1>11 DEF IsRun, start
  <2>2. ASSUME NEW j \in Nat, j \in G PROVE j + 1 \in G
    <3> SUFFICES ASSUME j + 1 <= n PROVE r[j + 1] \in Nat
      OBVIOUS
    <3>1. j + 1 \in 1..n /\ j + 1 - 1 = j /\ r[j] \in Nat
      BY <2>2
    <3>2. r[j + 1] = step[j + 1][r[j]]
      BY <1>11, <3>1 DEF IsRun
    <3>3. \A i \in 1..n, acc \in Nat : step[i][acc] \in Nat
      BY <1>4
    <3> HIDE DEF r, n
    <3> QED BY <3>1, <3>2, <3>3
  <2> HIDE DEF G
  <2>3. Nat \subseteq G
    BY <2>1, <2>2, EveryNatural
  <2> USE DEF G
  <2> HIDE DEF r
  <2> QED BY <2>3, <1>1
<1>13. Totals(b, events, c, r)
  <2>1. r \in [0..n -> Nat]
    BY <1>12
  <2>2. ASSUME NEW k \in 1..n PROVE r[k] = Adding(b, events, c, k, r[k - 1])
    <3> HIDE DEF r
    <3>1. k - 1 \in 0..n
      BY <1>1
    <3>2. r[k - 1] \in Nat /\ r[k] = step[k][r[k - 1]]
      BY <1>11, <1>12, <3>1 DEF IsRun
    <3> QED BY <1>4, <3>2
  <2> HIDE DEF r
  <2> QED BY <1>11, <2>1, <2>2 DEF Totals, IsRun, start
<1>14. TotalOf(b, events, c) = r[Len(events)]
  BY <1>1, <1>9
<1> QED
  BY <1>13, <1>14

\* Two totals that start alike and take every event alike are one.
LEMMA SameTotal ==
    ASSUME NEW b, NEW d, NEW events \in Seq(EventType), NEW others \in Seq(EventType), NEW c,
           StartIn(b, c) \in Nat, StartIn(d, c) = StartIn(b, c), Len(others) = Len(events),
           \A k \in 1..Len(events), acc \in Nat : Adding(d, others, c, k, acc) = Adding(b, events, c, k, acc)
    PROVE  TotalOf(d, others, c) = TotalOf(b, events, c)
<1>1. PICK r : Totals(b, events, c, r) /\ TotalOf(b, events, c) = r[Len(events)]
  BY TotalRuns
<1>2. PICK q : Totals(d, others, c, q) /\ TotalOf(d, others, c) = q[Len(others)]
  BY TotalRuns
<1> DEFINE n == Len(events)
           G == {k \in Nat : k <= n => q[k] = r[k]}
<1>3. n \in Nat
  OBVIOUS
<1>4. 0 \in G
  BY <1>1, <1>2 DEF Totals
<1>5. ASSUME NEW k \in Nat, k \in G PROVE k + 1 \in G
  <2> SUFFICES ASSUME k + 1 <= n PROVE q[k + 1] = r[k + 1]
    OBVIOUS
  <2>1. k + 1 \in 1..n /\ k \in 0..n /\ k + 1 - 1 = k /\ q[k] = r[k]
    BY <1>3, <1>5
  <2>2. r[k] \in Nat /\ r[k + 1] = Adding(b, events, c, k + 1, r[k]) /\ q[k + 1] = Adding(d, others, c, k + 1, q[k])
    <3>1. r \in [0..n -> Nat] /\ k + 1 \in 1..Len(others)
      BY <1>1, <2>1 DEF Totals
    <3>2. r[k] \in Nat
      BY <2>1, <3>1
    <3>3. r[k + 1] = Adding(b, events, c, k + 1, r[k + 1 - 1]) /\ q[k + 1] = Adding(d, others, c, k + 1, q[k + 1 - 1])
      BY <1>1, <1>2, <2>1, <3>1 DEF Totals
    <3> QED BY <2>1, <3>2, <3>3
  <2>3. Adding(d, others, c, k + 1, r[k]) = Adding(b, events, c, k + 1, r[k])
    BY <2>1, <2>2
  <2> QED BY <2>1, <2>2, <2>3
<1> HIDE DEF G
<1>6. n \in G
  BY <1>3, <1>4, <1>5, EveryNatural
<1> USE DEF G
<1> QED
  BY <1>1, <1>2, <1>3, <1>6

\* One more event: the total without it, and what it makes of that.
LEMMA TotalWithOneMore ==
    ASSUME NEW b, NEW events \in Seq(EventType), NEW e \in EventType, NEW c, StartIn(b, c) \in Nat
    PROVE  /\ TotalOf(b, events, c) \in Nat
           /\ TotalOf(b, Append(events, e), c) = IF ~CountsIn(b, e, Len(events) + 1, c) THEN TotalOf(b, events, c)
                                                 ELSE IF e.reset THEN 0 ELSE TotalOf(b, events, c) + e.amount
<1> DEFINE n == Len(events)
           more == Append(events, e)
           G == {k \in Nat : \A r, q : Totals(b, events, c, r) /\ Totals(b, more, c, q) /\ k <= n => q[k] = r[k]}
<1>1. more \in Seq(EventType) /\ Len(more) = n + 1 /\ n \in Nat /\ more[n + 1] = e /\ \A k \in 1..n : more[k] = events[k]
  OBVIOUS
<1>2. PICK r : Totals(b, events, c, r) /\ TotalOf(b, events, c) = r[n]
  BY TotalRuns
<1> HIDE DEF more
<1>3. PICK q : Totals(b, more, c, q) /\ TotalOf(b, more, c) = q[n + 1]
  BY <1>1, TotalRuns
<1>4. 0 \in G
  BY DEF Totals
<1>5. ASSUME NEW k \in Nat, k \in G PROVE k + 1 \in G
  <2> SUFFICES ASSUME NEW x, NEW y, Totals(b, events, c, x), Totals(b, more, c, y), k + 1 <= n PROVE y[k + 1] = x[k + 1]
    OBVIOUS
  <2>1. k + 1 \in 1..n /\ k + 1 \in 1..(n + 1) /\ k + 1 - 1 = k /\ y[k] = x[k] /\ more[k + 1] = events[k + 1]
    BY <1>1, <1>5
  <2>2. x[k + 1] = Adding(b, events, c, k + 1, x[k]) /\ y[k + 1] = Adding(b, more, c, k + 1, y[k])
    BY <1>1, <2>1 DEF Totals
  <2> QED BY <2>1, <2>2 DEF Adding
<1> HIDE DEF G
<1>6. n \in G
  BY <1>1, <1>4, <1>5, EveryNatural
<1> USE DEF G
<1>7. q[n] = r[n] /\ n + 1 \in 1..Len(more) /\ n + 1 - 1 = n /\ r[n] \in Nat
  <2>1. q[n] = r[n]
    BY <1>1, <1>2, <1>3, <1>6
  <2>2. r \in [0..n -> Nat] /\ n \in 0..n
    BY <1>1, <1>2 DEF Totals
  <2> QED BY <1>1, <2>1, <2>2
<1>8. q[n + 1] = Adding(b, more, c, n + 1, q[n])
  BY <1>3, <1>7 DEF Totals
<1> QED
  BY <1>1, <1>2, <1>3, <1>7, <1>8 DEF Adding, more

\* The total of a card no event counts for is its start.
LEMMA TotalOfNothing ==
    ASSUME NEW b, NEW events \in Seq(EventType), NEW c, StartIn(b, c) \in Nat,
           \A k \in 1..Len(events) : ~CountsIn(b, events[k], k, c)
    PROVE  TotalOf(b, events, c) = StartIn(b, c)
<1>1. PICK r : Totals(b, events, c, r) /\ TotalOf(b, events, c) = r[Len(events)]
  BY TotalRuns
<1> DEFINE n == Len(events)
           G == {k \in Nat : k <= n => r[k] = r[0]}
<1>2. n \in Nat
  OBVIOUS
<1>3. ASSUME NEW k \in Nat, k \in G PROVE k + 1 \in G
  <2> SUFFICES ASSUME k + 1 <= n PROVE r[k + 1] = r[0]
    OBVIOUS
  <2>1. k + 1 \in 1..n /\ k + 1 - 1 = k /\ r[k] = r[0]
    BY <1>2, <1>3
  <2> QED BY <1>1, <2>1 DEF Totals, Adding
<1>4. 0 \in G
  OBVIOUS
<1> HIDE DEF G
<1>5. n \in G
  BY <1>2, <1>3, <1>4, EveryNatural
<1> USE DEF G
<1> QED
  BY <1>1, <1>2, <1>5 DEF Totals

\* One event less: what the total owed to it, and to the reset it was.
ResetAfter(b, events, c, i) == \E j \in i + 1..Len(events) : CountsIn(b, events[j], j, c) /\ events[j].reset

LEMMA TotalWithoutOne ==
    ASSUME NEW b, NEW events \in Seq(EventType), NEW others \in Seq(EventType), NEW c, NEW i \in 1..Len(events),
           StartIn(b, c) \in Nat, Len(others) = Len(events), \A k \in 1..Len(events) : k # i => others[k] = events[k],
           CountsIn(b, events[i], i, c), ~CountsIn(b, others[i], i, c)
    PROVE  /\ ResetAfter(b, events, c, i) => TotalOf(b, others, c) = TotalOf(b, events, c)
           /\ ~ResetAfter(b, events, c, i) /\ events[i].reset => TotalOf(b, others, c) >= TotalOf(b, events, c)
           /\ ~ResetAfter(b, events, c, i) /\ ~events[i].reset => TotalOf(b, others, c) = TotalOf(b, events, c) - events[i].amount
<1> DEFINE n == Len(events)
<1>1. PICK r : Totals(b, events, c, r) /\ TotalOf(b, events, c) = r[n]
  BY TotalRuns
<1>2. PICK q : Totals(b, others, c, q) /\ TotalOf(b, others, c) = q[n]
  BY TotalRuns
<1>3. n \in Nat /\ i \in 1..n /\ r \in [0..n -> Nat] /\ q \in [0..n -> Nat] /\ r[0] = q[0]
  BY <1>1, <1>2 DEF Totals
<1>4. ASSUME NEW k \in Nat, k + 1 <= n
      PROVE  /\ r[k] \in Nat /\ q[k] \in Nat /\ k + 1 \in 1..n
             /\ r[k + 1] = Adding(b, events, c, k + 1, r[k]) /\ q[k + 1] = Adding(b, others, c, k + 1, q[k])
             /\ k + 1 # i => \A acc \in Nat : Adding(b, others, c, k + 1, acc) = Adding(b, events, c, k + 1, acc)
  <2>1. k + 1 \in 1..n /\ k \in 0..n /\ k + 1 - 1 = k /\ k + 1 \in 1..Len(others)
    BY <1>3, <1>4
  <2>2. r[k + 1] = Adding(b, events, c, k + 1, r[k + 1 - 1]) /\ q[k + 1] = Adding(b, others, c, k + 1, q[k + 1 - 1])
    BY <1>1, <1>2, <2>1 DEF Totals
  <2> QED BY <1>3, <2>1, <2>2 DEF Adding
<1>5. r[i - 1] = q[i - 1]
  <2> DEFINE G == {k \in Nat : k < i => r[k] = q[k]}
  <2>1. 0 \in G
    BY <1>3
  <2>2. ASSUME NEW k \in Nat, k \in G PROVE k + 1 \in G
    BY <1>3, <1>4, <2>2
  <2> HIDE DEF G
  <2>3. Nat \subseteq G
    BY <2>1, <2>2, EveryNatural
  <2>4. i - 1 \in Nat /\ i - 1 < i
    BY <1>3
  <2>5. i - 1 \in G
    BY <2>3, <2>4
  <2> QED BY <2>4, <2>5 DEF G
<1>6. /\ r[i - 1] \in Nat /\ events[i] \in EventType /\ events[i].amount \in Nat
      /\ r[i] = (IF events[i].reset THEN 0 ELSE r[i - 1] + events[i].amount) /\ q[i] = r[i - 1]
  <2>1. i - 1 \in Nat /\ i - 1 + 1 = i
    BY <1>3
  <2>2. r[i - 1] \in Nat /\ r[i] = Adding(b, events, c, i, r[i - 1]) /\ q[i] = Adding(b, others, c, i, q[i - 1])
    BY <1>3, <1>4, <2>1
  <2>3. events[i] \in EventType /\ events[i].amount \in Nat
    <3>1. events[i] \in EventType
      OBVIOUS
    <3> QED BY <3>1 DEF EventType
  <2>4. r[i] = IF events[i].reset THEN 0 ELSE r[i - 1] + events[i].amount
    BY <2>2 DEF Adding
  <2>5. q[i] = q[i - 1]
    BY <2>2 DEF Adding
  <2> QED BY <1>5, <2>2, <2>3, <2>4, <2>5
<1>7. CASE ResetAfter(b, events, c, i)
  <2>1. PICK j \in i + 1..n : CountsIn(b, events[j], j, c) /\ events[j].reset
    BY <1>7 DEF ResetAfter
  <2> DEFINE G == {k \in Nat : j + k <= n => r[j + k] = q[j + k]}
  <2>2. 0 \in G
    <3>1. j - 1 \in Nat /\ j - 1 + 1 = j /\ j <= n /\ j # i /\ j \in 1..n
      BY <1>3, <2>1
    <3>2. r[j] = Adding(b, events, c, j, r[j - 1]) /\ q[j] = Adding(b, others, c, j, q[j - 1]) /\ others[j] = events[j]
      BY <1>4, <3>1
    <3> QED BY <2>1, <3>1, <3>2 DEF Adding
  <2>3. ASSUME NEW k \in Nat, k \in G PROVE k + 1 \in G
    <3> SUFFICES ASSUME j + (k + 1) <= n PROVE r[j + (k + 1)] = q[j + (k + 1)]
      OBVIOUS
    <3>1. j + k \in Nat /\ j + k + 1 <= n /\ j + k + 1 # i /\ j + (k + 1) = j + k + 1 /\ r[j + k] = q[j + k]
      BY <1>3, <2>1, <2>3
    <3> QED BY <1>4, <3>1
  <2> HIDE DEF G
  <2>4. Nat \subseteq G
    BY <2>2, <2>3, EveryNatural
  <2>5. n - j \in Nat /\ j + (n - j) = n /\ n <= n
    BY <1>3, <2>1
  <2>6. n - j \in G
    BY <2>4, <2>5
  <2>7. r[n] = q[n]
    BY <2>5, <2>6 DEF G
  <2> QED BY <1>1, <1>2, <1>7, <2>7
<1>8. CASE ~ResetAfter(b, events, c, i)
  <2> DEFINE a == events[i].amount
             Owes(k) == IF events[i].reset THEN r[k] <= q[k] ELSE q[k] = r[k] - a
             G == {k \in Nat : i + k <= n => Owes(i + k)}
  <2>1. 0 \in G
    BY <1>3, <1>6
  <2>2. ASSUME NEW k \in Nat, k \in G PROVE k + 1 \in G
    <3> SUFFICES ASSUME i + (k + 1) <= n PROVE Owes(i + (k + 1))
      OBVIOUS
    <3> DEFINE m == i + k
    <3>1. m \in Nat /\ m + 1 <= n /\ m + 1 # i /\ i + (k + 1) = m + 1 /\ Owes(m) /\ m + 1 \in i + 1..n
      BY <1>3, <2>2
    <3> HIDE DEF m
    <3>2. /\ r[m] \in Nat /\ q[m] \in Nat /\ m + 1 \in 1..n
          /\ r[m + 1] = Adding(b, events, c, m + 1, r[m]) /\ q[m + 1] = Adding(b, events, c, m + 1, q[m])
      BY <1>4, <3>1
    <3>3. ~(CountsIn(b, events[m + 1], m + 1, c) /\ events[m + 1].reset) /\ events[m + 1] \in EventType
      BY <1>8, <3>1, <3>2 DEF ResetAfter
    <3>4. events[m + 1].amount \in Nat
      BY <3>3 DEF EventType
    <3>5. /\ CountsIn(b, events[m + 1], m + 1, c) =>
               r[m + 1] = r[m] + events[m + 1].amount /\ q[m + 1] = q[m] + events[m + 1].amount
          /\ ~CountsIn(b, events[m + 1], m + 1, c) => r[m + 1] = r[m] /\ q[m + 1] = q[m]
      BY <3>2, <3>3 DEF Adding
    <3>6. Owes(m + 1)
      <4> HIDE DEF a
      <4>1. a \in Nat
        BY <1>6 DEF a
      <4> QED BY SMTT(40), <3>1, <3>2, <3>4, <3>5, <4>1
    <3> QED BY <3>1, <3>6
  <2> HIDE DEF G
  <2>3. Nat \subseteq G
    BY <2>1, <2>2, EveryNatural
  <2>4. n - i \in Nat /\ i + (n - i) = n /\ n <= n
    BY <1>3
  <2>5. n - i \in G
    BY <2>3, <2>4
  <2>6. Owes(n) /\ r[n] \in Nat /\ q[n] \in Nat
    BY <1>3, <2>4, <2>5 DEF G
  <2> QED BY <1>1, <1>2, <1>8, <2>6
<1> QED
  BY <1>7, <1>8

-----------------------------------------------------------------------------
(* The inductive invariant *)

PayType == [pc: {"new", "read", "over"}, card: Cards \cup {NoCard}, amount: 0..2, seen: Nat, ptr: Cards \cup {NoCard}]

PoolTyped ==
    /\ poolplan \in PoolPlan
    /\ phase \in {"legacy", "event_logged"}
    /\ Pool \subseteq Cards /\ total \in [Pool -> Nat]
    /\ pointer \in Cards \cup {NoCard}
    /\ base = [by |-> base.by, after |-> base.after]
    /\ DOMAIN base.by \subseteq Cards /\ base.by \in [DOMAIN base.by -> Nat] /\ base.after \in 0..Len(log)
    /\ log \in Seq(EventType)
    /\ pay \in [Payments -> PayType]
    /\ \A p \in Payments : pay[p].pc = "read" => pay[p].card \in Cards /\ pay[p].amount \in 1..2

\* Nothing is left of a card that is gone: an id that comes back starts at zero.
NothingLeft ==
    \A c \in Cards \ Pool : c \notin DOMAIN base.by /\ \A i \in 1..Len(log) : log[i].card = c => log[i].detached

PoolIInv == PoolTyped /\ NothingLeft /\ TotalIsTheLog

\* The model's total is the one the lemmas are about.
LEMMA AccumulatorIs ==
    ASSUME NEW events, NEW c
    PROVE  Accumulator(events, c) = TotalOf(base, events, c)
BY DEF Accumulator, TotalOf, StartIn, Counts, CountsIn

LEMMA AccumulatorIsThen ==
    ASSUME NEW c
    PROVE  Accumulator(log, c)' = TotalOf(base', log', c)
<1>1. Accumulator(log, c) = TotalOf(base, log, c)
  BY AccumulatorIs
<1>2. (Accumulator(log, c) = TotalOf(base, log, c))'
  BY <1>1, PTL
<1> QED
  BY <1>2

\* Nothing that the totals depend on has changed.
LEMMA TotalsStay ==
    ASSUME TotalIsTheLog, UNCHANGED <<phase, total, base, log>>
    PROVE  TotalIsTheLog'
<1> SUFFICES ASSUME phase = "event_logged", NEW c \in Pool PROVE total[c] = Accumulator(log, c)'
  BY DEF TotalIsTheLog, Pool
<1> QED
  BY AccumulatorIs, AccumulatorIsThen DEF TotalIsTheLog

\* Ids that are numbers have a least.
LEMMA LeastCard == ASSUME NEW S \in SUBSET Cards, S # {} PROVE \E x \in S : \A y \in S : x <= y
<1>1. PICK x \in S : \A y \in S : ~(<<y, x>> \in OpToRel(<, Nat))
  BY NatLessThanWellFounded, WFMin
<1>2. \A y \in S : ~(y < x)
  BY <1>1 DEF OpToRel
<1> QED BY <1>2

LEMMA FirstTyped == ASSUME Pool \subseteq Cards PROVE First \in Cards \cup {NoCard}
BY LeastCard DEF First

LEMMA AfterTyped == ASSUME Pool \subseteq Cards, NEW c \in Cards PROVE After(c) \in Cards \cup {NoCard}
<1> DEFINE S == {x \in Pool : x > c}
<1>1. CASE S # {}
  <2>1. PICK x \in S : \A y \in S : x <= y
    BY <1>1, LeastCard
  <2> QED BY <1>1, <2>1 DEF After
<1>2. CASE S = {}
  BY <1>2, FirstTyped DEF After
<1> QED BY <1>1, <1>2

LEMMA PoolIInvInit == PoolInit => PoolIInv
<1> SUFFICES ASSUME PoolInit PROVE PoolIInv
  OBVIOUS
<1>1. Pool = Cards /\ total \in [Pool -> Nat] /\ pointer \in Cards \cup {NoCard}
  BY FirstTyped DEF PoolInit, Pool
<1>2. base = [by |-> base.by, after |-> base.after] /\ base.by = [c \in Cards |-> 0] /\ base.after = 0
  BY DEF PoolInit
<1>3. log = <<>> /\ log \in Seq(EventType) /\ Len(log) = 0 /\ poolplan \in PoolPlan /\ phase \in {"legacy", "event_logged"}
  BY DEF PoolInit, PoolPlan
<1>4. pay \in [Payments -> PayType] /\ \A p \in Payments : pay[p].pc = "new"
  BY DEF PoolInit, PayType
<1>5. PoolTyped
  BY <1>1, <1>2, <1>3, <1>4 DEF PoolTyped
<1>6. TotalIsTheLog
  <2> SUFFICES ASSUME NEW c \in Pool PROVE total[c] = Accumulator(log, c)
    BY DEF TotalIsTheLog
  <2>1. StartIn(base, c) = 0 /\ total[c] = 0
    BY <1>1, <1>2 DEF StartIn, PoolInit
  <2>2. TotalOf(base, log, c) = 0
    <3>1. \A k \in 1..Len(log) : ~CountsIn(base, log[k], k, c)
      BY <1>3
    <3>2. StartIn(base, c) \in Nat
      BY <2>1
    <3>3. TotalOf(base, log, c) = StartIn(base, c)
      BY <1>3, <3>1, <3>2, TotalOfNothing
    <3> QED BY <2>1, <3>3
  <2> QED BY <2>1, <2>2, AccumulatorIs
<1> QED
  BY <1>1, <1>5, <1>6 DEF PoolIInv, NothingLeft


-----------------------------------------------------------------------------
(* Payments *)

\* What a start is, and what a typed pool says of the events.
LEMMA PoolFacts ==
    ASSUME PoolTyped
    PROVE  /\ \A c : StartIn(base, c) \in Nat
           /\ \A i \in 1..Len(log) : log[i] \in EventType
           /\ Len(log) \in Nat /\ base.after \in Nat /\ \A c \in Pool : total[c] \in Nat
BY DEF PoolTyped, StartIn

\* An event of the plan is taken.
LEMMA PoolPlanTaken ==
    ASSUME PoolTyped, NEW e, Can(e), poolplan' = Taken
    PROVE  poolplan' \in PoolPlan
<1>1. PICK q \in PoolPlan : q = poolplan
  BY DEF PoolTyped
<1>2. q.left \in Nat /\ q.left > 0
  BY <1>1 DEF PoolPlan, Can
<1>3. [q EXCEPT !.left = @ - 1] \in PoolPlan
  BY <1>2 DEF PoolPlan
<1> QED
  BY <1>1, <1>3 DEF Taken

LEMMA PayReadsStep ==
    ASSUME PoolIInv, NEW p \in Payments, NEW c \in Pool, NEW amount \in 1..2, PayReads(p, c, amount)
    PROVE  PoolIInv'
<1> USE DEF PoolIInv
<1> DEFINE row == [pc |-> "read", card |-> c, amount |-> amount, seen |-> total[c], ptr |-> pointer]
<1>1. pay' = [pay EXCEPT ![p] = row] /\ UNCHANGED <<poolplan, phase, total, pointer, base, log>>
  BY DEF PayReads
<1>2. row \in PayType /\ row.card \in Cards /\ row.amount \in 1..2
  BY PoolFacts DEF PoolTyped, PayType
<1> HIDE DEF row
<1>3. pay' \in [Payments -> PayType] /\ \A q \in Payments : pay'[q].pc = "read" => pay'[q].card \in Cards /\ pay'[q].amount \in 1..2
  BY <1>1, <1>2 DEF PoolTyped
<1>4. Pool' = Pool
  BY <1>1 DEF Pool
<1>5. PoolTyped'
  BY <1>1, <1>3, <1>4 DEF PoolTyped
<1> QED
  BY <1>1, <1>4, <1>5, TotalsStay DEF NothingLeft

LEMMA PayBreaksStep ==
    ASSUME PoolIInv, NEW p \in Payments, PayBreaks(p)
    PROVE  PoolIInv'
<1> USE DEF PoolIInv
<1>1. /\ poolplan' = [poolplan EXCEPT !.left = @ - 1] /\ poolplan.left > 0
      /\ pay' = [pay EXCEPT ![p].pc = "over"] /\ UNCHANGED <<phase, total, pointer, base, log>>
  BY DEF PayBreaks, Can, Taken
<1>2. [pay[p] EXCEPT !.pc = "over"] \in PayType
  BY DEF PoolTyped, PayType
<1>3. pay' \in [Payments -> PayType] /\ \A q \in Payments : pay'[q].pc = "read" => pay'[q].card \in Cards /\ pay'[q].amount \in 1..2
  BY <1>1, <1>2 DEF PoolTyped, PayType
<1>4. Pool' = Pool /\ poolplan' \in PoolPlan
  BY <1>1, PoolPlanTaken DEF Pool, PayBreaks
<1>5. PoolTyped'
  BY <1>1, <1>3, <1>4 DEF PoolTyped
<1> QED
  BY <1>1, <1>4, <1>5, TotalsStay DEF NothingLeft

\* What a payment does to its card, to the pointer and to the log.
LEMMA PayCommitsStep ==
    ASSUME PoolIInv, NEW p \in Payments, PayCommits(p)
    PROVE  PoolIInv'
<1> USE DEF PoolIInv
<1> DEFINE c == pay[p].card
           amount == pay[p].amount
           now == Current(p) + amount
<1>1. /\ pay[p].pc = "read" /\ c \in Cards /\ amount \in 1..2 /\ pay[p] \in PayType
      /\ pay' = [pay EXCEPT ![p].pc = "over"] /\ base' = base
  BY DEF PayCommits, PoolTyped
<1>2. [pay[p] EXCEPT !.pc = "over"] \in PayType
  BY <1>1 DEF PayType
<1>3. pay' \in [Payments -> PayType] /\ \A q \in Payments : pay'[q].pc = "read" => pay'[q].card \in Cards /\ pay'[q].amount \in 1..2
  BY <1>1, <1>2 DEF PoolTyped, PayType
<1>4. CASE c \notin Pool
  <2>1. UNCHANGED <<poolplan, phase, total, pointer, log>>
    BY <1>4 DEF PayCommits
  <2>2. Pool' = Pool
    BY <2>1 DEF Pool
  <2>3. PoolTyped'
    BY <1>1, <1>3, <2>1, <2>2 DEF PoolTyped
  <2> QED BY <1>1, <2>1, <2>2, <2>3, TotalsStay DEF NothingLeft
<1>5. CASE c \in Pool
  <2>1. PICK reset \in BOOLEAN :
           /\ total' = [total EXCEPT ![c] = IF reset THEN 0 ELSE now]
           /\ pointer' = IF reset /\ Cardinality(Pool) > 1 THEN After(c) ELSE pointer
           /\ IF phase = "legacy" THEN UNCHANGED <<poolplan, phase, log>>
              ELSE \/ log' = Append(log, Entry(p, reset)) /\ UNCHANGED <<poolplan, phase>>
                   \/ Can("broken") /\ poolplan' = Taken /\ phase' = "legacy" /\ UNCHANGED log
    BY <1>5 DEF PayCommits
  <2>2. now \in Nat /\ (phase = "event_logged" => now = total[c] + amount)
    BY <1>1, <1>5, PoolFacts DEF Current, PayType
  <2> DEFINE new == IF reset THEN 0 ELSE now
  <2>3. new \in Nat
    BY <2>2
  <2> HIDE DEF c, amount, now, new
  <2>4. Pool' = Pool /\ total' \in [Pool -> Nat] /\ total'[c] = new /\ \A x \in Pool \ {c} : total'[x] = total[x]
    BY <1>5, <2>1, <2>3 DEF Pool, PoolTyped, new
  <2>5. pointer' \in Cards \cup {NoCard}
    BY <1>1, <2>1, AfterTyped DEF PoolTyped
  <2> DEFINE e == Entry(p, reset)
  <2>6. e \in EventType /\ e.card = c /\ e.amount = amount /\ e.reset = reset /\ ~e.voided /\ ~e.detached
    BY <1>1 DEF Entry, EventType, c, amount
  <2>7. CASE phase = "event_logged" /\ log' = Append(log, e)
    <3>1. poolplan' = poolplan /\ phase' = phase
      <4>1. log' # log
        <5>1. Len(log') = Len(log) + 1 /\ Len(log) \in Nat
          BY <2>7 DEF PoolTyped
        <5> QED BY <5>1
      <4> QED BY <2>1, <2>7, <4>1
    <3> HIDE DEF e
    <3>2. /\ log' \in Seq(EventType) /\ Len(log') = Len(log) + 1 /\ log'[Len(log) + 1] = e
          /\ \A i \in 1..Len(log) : log'[i] = log[i]
      BY <2>6, <2>7 DEF PoolTyped
    <3>3. PoolTyped'
      BY SMTT(40), <1>1, <1>3, <2>4, <2>5, <3>1, <3>2 DEF PoolTyped
    <3>4. NothingLeft'
      <4> SUFFICES ASSUME NEW x \in Cards \ Pool, NEW i \in 1..Len(log'), log'[i].card = x PROVE log'[i].detached /\ x \notin DOMAIN base.by
        BY <1>1, <2>4 DEF NothingLeft
      <4>1. i \in 1..Len(log)
        BY <1>5, <2>6, <3>2, PoolFacts
      <4> QED BY <3>2, <4>1 DEF NothingLeft
    <3>5. ASSUME NEW x \in Pool PROVE total'[x] = TotalOf(base, log', x)
      <4>1. /\ total[x] = TotalOf(base, log, x) /\ StartIn(base, x) \in Nat
            /\ TotalOf(base, log', x) = IF ~CountsIn(base, e, Len(log) + 1, x) THEN TotalOf(base, log, x)
                                        ELSE IF e.reset THEN 0 ELSE TotalOf(base, log, x) + e.amount
        BY <2>6, <2>7, <3>5, PoolFacts, AccumulatorIs, TotalWithOneMore DEF TotalIsTheLog, PoolTyped
      <4>2. Len(log) + 1 > base.after
        BY PoolFacts DEF PoolTyped
      <4>3. CASE x = c
        BY <2>2, <2>4, <2>6, <2>7, <4>1, <4>2, <4>3 DEF CountsIn, new
      <4>4. CASE x # c
        BY <2>4, <2>6, <4>1, <4>4, <3>5 DEF CountsIn
      <4> QED BY <4>3, <4>4
    <3>6. TotalIsTheLog'
      <4> SUFFICES ASSUME NEW x \in Pool PROVE total'[x] = Accumulator(log, x)'
        BY <2>4 DEF TotalIsTheLog
      <4>1. Accumulator(log, x)' = TotalOf(base', log', x)
        BY AccumulatorIsThen
      <4> QED BY <1>1, <3>5, <4>1
    <3> QED BY <3>3, <3>4, <3>6
  <2>8. CASE ~(phase = "event_logged" /\ log' = Append(log, e))
    <3>1. phase' = "legacy" /\ log' = log /\ poolplan' \in PoolPlan
      <4>1. phase \in {"legacy", "event_logged"} /\ poolplan \in PoolPlan
        BY DEF PoolTyped
      <4>2. CASE phase = "legacy"
        BY <2>1, <4>1, <4>2
      <4>3. CASE phase = "event_logged"
        <5>1. Can("broken") /\ poolplan' = Taken /\ phase' = "legacy" /\ UNCHANGED log
          BY <2>1, <2>8, <4>3
        <5> QED BY <4>1, <5>1, PoolPlanTaken
      <4> QED BY <4>1, <4>2, <4>3
    <3>2. PoolTyped'
      BY <1>1, <1>3, <2>4, <2>5, <3>1 DEF PoolTyped
    <3> QED BY <1>1, <2>4, <3>1, <3>2 DEF NothingLeft, TotalIsTheLog
  <2> QED BY <2>7, <2>8
<1> QED
  BY <1>4, <1>5

-----------------------------------------------------------------------------
(* The log's administration and the cards *)

LEMMA PhaseStep ==
    ASSUME PoolIInv, CaptureBaseline \/ RevertToLegacy
    PROVE  PoolIInv'
<1> USE DEF PoolIInv
<1>1. CASE CaptureBaseline
  <2>1. /\ base' = [by |-> total, after |-> Len(log)] /\ phase' = "event_logged" /\ poolplan' \in PoolPlan
        /\ UNCHANGED <<total, pointer, log, pay>>
    BY <1>1, PoolPlanTaken DEF CaptureBaseline, AfterEvent
  <2>2. base'.by = total /\ base'.after = Len(log) /\ Pool' = Pool /\ base' = [by |-> base'.by, after |-> base'.after]
    BY <2>1 DEF Pool
  <2>3. PoolTyped'
    BY <2>1, <2>2, PoolFacts DEF PoolTyped, Pool
  <2>4. NothingLeft'
    BY <2>1, <2>2 DEF NothingLeft, Pool
  <2>5. ASSUME NEW x \in Pool PROVE total[x] = TotalOf(base', log, x)
    <3> DEFINE b == base'
    <3>1. StartIn(b, x) = total[x] /\ total[x] \in Nat /\ b.after = Len(log)
      BY <2>2, <2>5, PoolFacts DEF StartIn, Pool
    <3> HIDE DEF b
    <3>2. \A k \in 1..Len(log) : ~CountsIn(b, log[k], k, x)
      BY <3>1 DEF CountsIn
    <3>3. TotalOf(b, log, x) = total[x]
      BY <3>1, <3>2, TotalOfNothing DEF PoolTyped
    <3> QED BY <3>3 DEF b
  <2>6. TotalIsTheLog'
    <3> SUFFICES ASSUME NEW x \in Pool PROVE total'[x] = Accumulator(log, x)'
      BY <2>2 DEF TotalIsTheLog
    <3>1. Accumulator(log, x)' = TotalOf(base', log', x)
      BY AccumulatorIsThen
    <3> QED BY <2>1, <2>5, <3>1
  <2> QED BY <2>3, <2>4, <2>6
<1>2. CASE RevertToLegacy
  <2>1. phase' = "legacy" /\ poolplan' \in PoolPlan /\ UNCHANGED <<total, pointer, base, log, pay>>
    BY <1>2, PoolPlanTaken DEF RevertToLegacy
  <2>2. Pool' = Pool
    BY <2>1 DEF Pool
  <2>3. PoolTyped'
    BY <2>1, <2>2 DEF PoolTyped
  <2> QED BY <2>1, <2>2, <2>3 DEF NothingLeft, TotalIsTheLog
<1> QED BY <1>1, <1>2

\* The log after the void of its event i.
LEMMA VoidOf ==
    ASSUME PoolIInv, NEW i \in 1..Len(log), VoidEvent(i)
    PROVE  /\ log' \in Seq(EventType) /\ Len(log') = Len(log) /\ ~log[i].voided
           /\ \A k \in 1..Len(log) : /\ log'[k].card = log[k].card /\ log'[k].amount = log[k].amount /\ log'[k].reset = log[k].reset
                                     /\ log'[k].detached = log[k].detached
           /\ log'[i].voided /\ \A k \in 1..Len(log) : k # i => log'[k] = log[k]
           /\ \A x : x # log[i].card \/ log[i].detached => TotalOf(base, log', x) = TotalOf(base, log, x)
           /\ \A x : TotalOf(base, log', x) \in Nat
<1> USE DEF PoolIInv
<1>1. log' = [log EXCEPT ![i].voided = TRUE] /\ ~log[i].voided /\ log \in Seq(EventType) /\ log[i] \in EventType
  BY PoolFacts DEF VoidEvent, PoolTyped
<1>2. [log[i] EXCEPT !.voided = TRUE] \in EventType
  BY <1>1 DEF EventType
<1>3. log' \in Seq(EventType) /\ Len(log') = Len(log) /\ log'[i] = [log[i] EXCEPT !.voided = TRUE] /\ \A k \in 1..Len(log) : k # i => log'[k] = log[k]
  <2> DEFINE e == [log[i] EXCEPT !.voided = TRUE]
  <2>1. log' = [log EXCEPT ![i] = e] /\ e \in EventType
    BY <1>1, <1>2
  <2> HIDE DEF e
  <2>2. PICK events \in Seq(EventType) : events = log
    BY <1>1
  <2>3. i \in 1..Len(events)
    BY <2>2
  <2>4. [events EXCEPT ![i] = e] \in Seq(EventType) /\ Len([events EXCEPT ![i] = e]) = Len(events)
    BY <2>1, <2>3, ExceptSeq
  <2>5. [events EXCEPT ![i] = e][i] = e /\ \A k \in 1..Len(events) : k # i => [events EXCEPT ![i] = e][k] = events[k]
    BY <2>3
  <2>6. log' \in Seq(EventType) /\ Len(log') = Len(log) /\ log'[i] = e /\ \A k \in 1..Len(log) : k # i => log'[k] = log[k]
    BY <2>1, <2>2, <2>4, <2>5
  <2> QED BY <2>6 DEF e
<1>4. /\ log'[i].card = log[i].card /\ log'[i].amount = log[i].amount /\ log'[i].reset = log[i].reset
      /\ log'[i].detached = log[i].detached /\ log'[i].voided
  BY <1>1, <1>3 DEF EventType
<1>5. ASSUME NEW x, x # log[i].card \/ log[i].detached PROVE TotalOf(base, log', x) = TotalOf(base, log, x)
  <2>1. PICK later : later = log'
    OBVIOUS
  <2>2. ASSUME NEW k \in 1..Len(log), NEW acc \in Nat PROVE Adding(base, later, x, k, acc) = Adding(base, log, x, k, acc)
    <3>1. CASE k = i
      BY <1>4, <1>5, <2>1, <3>1 DEF Adding, CountsIn
    <3>2. CASE k # i
      BY <1>3, <2>1, <3>2 DEF Adding, CountsIn
    <3> QED BY <3>1, <3>2
  <2>3. StartIn(base, x) \in Nat
    BY PoolFacts
  <2>4. PICK b : b = base
    OBVIOUS
  <2>5. PICK events : events = log
    OBVIOUS
  <2>6. /\ events \in Seq(EventType) /\ later \in Seq(EventType) /\ Len(later) = Len(events) /\ StartIn(b, x) \in Nat
        /\ \A k \in 1..Len(events), acc \in Nat : Adding(b, later, x, k, acc) = Adding(b, events, x, k, acc)
    BY <1>1, <1>3, <2>1, <2>2, <2>3, <2>4, <2>5
  <2>7. TotalOf(b, later, x) = TotalOf(b, events, x)
    BY <2>6, SameTotal
  <2> QED BY <2>1, <2>4, <2>5, <2>7
<1>6. ASSUME NEW x PROVE TotalOf(base, log', x) \in Nat
  <2>1. PICK later : later = log'
    OBVIOUS
  <2>2. PICK r : Totals(base, later, x, r) /\ TotalOf(base, later, x) = r[Len(later)]
    BY <1>3, <2>1, PoolFacts, TotalRuns
  <2>3. r[Len(later)] \in Nat
    BY <1>3, <2>1, <2>2 DEF Totals
  <2> QED BY <2>1, <2>2, <2>3
<1> QED
  BY <1>1, <1>3, <1>4, <1>5, <1>6

LEMMA VoidEventStep ==
    ASSUME PoolIInv, NEW i \in 1..Len(log), VoidEvent(i)
    PROVE  PoolIInv'
<1> USE DEF PoolIInv
<1> DEFINE c == log[i].card
<1>1. /\ total' = IF c \in Pool /\ ~log[i].detached THEN [total EXCEPT ![c] = Accumulator(log', c)] ELSE total
      /\ poolplan' \in PoolPlan /\ UNCHANGED <<phase, pointer, base, pay>>
  BY PoolPlanTaken DEF VoidEvent
<1>2. Accumulator(log', c) = TotalOf(base, log', c)
  BY AccumulatorIs
<1> HIDE DEF c
<1>3. Pool' = Pool /\ total' \in [Pool -> Nat]
  BY <1>1, <1>2, VoidOf DEF Pool, PoolTyped
<1>4. PoolTyped'
  BY <1>1, <1>3, VoidOf DEF PoolTyped
<1>5. NothingLeft'
  <2> SUFFICES ASSUME NEW x \in Cards \ Pool PROVE x \notin DOMAIN base.by /\ \A k \in 1..Len(log') : log'[k].card = x => log'[k].detached
    BY <1>1, <1>3 DEF NothingLeft
  <2>1. x \notin DOMAIN base.by /\ \A k \in 1..Len(log) : log[k].card = x => log[k].detached
    BY DEF NothingLeft
  <2>2. Len(log') = Len(log) /\ \A k \in 1..Len(log) : log'[k].card = log[k].card /\ log'[k].detached = log[k].detached
    BY VoidOf
  <2> QED BY <2>1, <2>2
<1>6. TotalIsTheLog'
  <2> SUFFICES ASSUME NEW x \in Pool, phase = "event_logged" PROVE total'[x] = Accumulator(log, x)'
    BY <1>1, <1>3 DEF TotalIsTheLog
  <2>1. Accumulator(log, x)' = TotalOf(base', log', x) /\ total[x] = TotalOf(base, log, x)
    BY AccumulatorIs, AccumulatorIsThen DEF TotalIsTheLog
  <2>2. CASE x = c /\ ~log[i].detached
    BY <1>1, <1>2, <2>1, <2>2 DEF PoolTyped
  <2>3. CASE x # c \/ log[i].detached
    BY <1>1, <2>1, <2>3, VoidOf DEF c, PoolTyped
  <2> QED BY <2>2, <2>3
<1> QED
  BY <1>4, <1>5, <1>6


\* The log after a card is deleted: its events count for nobody.
LEMMA DetachedOf ==
    ASSUME PoolIInv, NEW c, DeleteCard(c)
    PROVE  /\ log' \in Seq(EventType) /\ Len(log') = Len(log)
           /\ \A k \in 1..Len(log) : /\ log[k].card = c => log'[k].card = c /\ log'[k].detached
                                     /\ log[k].card # c => log'[k] = log[k]
<1>1. log' = [i \in 1..Len(log) |-> IF log[i].card = c THEN [log[i] EXCEPT !.detached = TRUE] ELSE log[i]]
  BY DEF DeleteCard, Detached
<1>2. ASSUME NEW k \in 1..Len(log)
      PROVE  /\ log[k].card = c => log'[k].card = c /\ log'[k].detached
             /\ log[k].card # c => log'[k] = log[k]
             /\ log'[k] \in EventType
  <2>1. log[k] \in EventType
    BY PoolFacts DEF PoolIInv
  <2>2. CASE log[k].card = c
    <3>1. log'[k] = [log[k] EXCEPT !.detached = TRUE]
      BY <1>1, <2>2
    <3>2. [log[k] EXCEPT !.detached = TRUE] \in EventType
      BY <2>1 DEF EventType
    <3>3. [log[k] EXCEPT !.detached = TRUE].card = c /\ [log[k] EXCEPT !.detached = TRUE].detached
      BY <2>1, <2>2 DEF EventType
    <3> QED BY <2>2, <3>1, <3>2, <3>3
  <2>3. CASE log[k].card # c
    BY <1>1, <2>1, <2>3
  <2> QED BY <2>2, <2>3
<1>3. log' \in Seq(EventType) /\ Len(log') = Len(log)
  <2>1. Len(log) \in Nat
    BY PoolFacts DEF PoolIInv
  <2>2. log' = [i \in 1..Len(log) |-> log'[i]]
    BY <1>1
  <2> QED BY <1>2, <2>1, <2>2
<1> QED
  BY <1>2, <1>3

LEMMA DeleteCardStep ==
    ASSUME PoolIInv, NEW c \in Cards, DeleteCard(c)
    PROVE  PoolIInv'
<1> USE DEF PoolIInv
<1>1. /\ poolplan' \in PoolPlan /\ c \in Pool /\ UNCHANGED <<phase, pay>>
      /\ total' = [x \in Pool \ {c} |-> total[x]] /\ pointer' = IF pointer = c THEN First' ELSE pointer
      /\ base' = [base EXCEPT !.by = [x \in DOMAIN base.by \ {c} |-> base.by[x]]]
  BY PoolPlanTaken DEF DeleteCard
<1>2. Pool' = Pool \ {c} /\ total' \in [Pool' -> Nat] /\ Pool' \subseteq Cards
  BY <1>1 DEF Pool, PoolTyped
<1>3. /\ base' = [by |-> base'.by, after |-> base'.after] /\ base'.after = base.after
      /\ base'.by = [x \in DOMAIN base.by \ {c} |-> base.by[x]]
  BY <1>1 DEF PoolTyped
<1>4. pointer' \in Cards \cup {NoCard}
  <2>1. First' \in Cards \cup {NoCard}
    BY <1>2, LeastCard DEF First
  <2> QED BY <1>1, <2>1 DEF PoolTyped
<1>5. DOMAIN base'.by \subseteq Cards /\ base'.by \in [DOMAIN base'.by -> Nat] /\ base'.after \in 0..Len(log')
  BY <1>3, DetachedOf DEF PoolTyped
<1>6. PoolTyped'
  BY <1>1, <1>2, <1>3, <1>4, <1>5, DetachedOf DEF PoolTyped
<1>7. NothingLeft'
  <2> SUFFICES ASSUME NEW x \in Cards, x \notin Pool' PROVE x \notin DOMAIN base'.by /\ \A i \in 1..Len(log') : log'[i].card = x => log'[i].detached
    BY DEF NothingLeft
  <2>1. CASE x = c
    BY <1>3, <2>1, DetachedOf
  <2>2. CASE x # c
    <3>1. x \notin Pool
      BY <1>2, <2>2
    <3> QED BY <1>3, <2>2, <3>1, DetachedOf DEF NothingLeft
  <2> QED BY <2>1, <2>2
<1>8. TotalIsTheLog'
  <2> SUFFICES ASSUME NEW x \in Pool \ {c}, phase = "event_logged" PROVE total'[x] = Accumulator(log, x)'
    BY <1>1, <1>2 DEF TotalIsTheLog
  <2>1. Accumulator(log, x)' = TotalOf(base', log', x) /\ total[x] = TotalOf(base, log, x) /\ total'[x] = total[x]
    BY <1>1, AccumulatorIs, AccumulatorIsThen DEF TotalIsTheLog
  <2>2. StartIn(base', x) = StartIn(base, x) /\ StartIn(base, x) \in Nat
    BY <1>3, PoolFacts DEF StartIn
  <2>3. ASSUME NEW k \in 1..Len(log), NEW acc \in Nat PROVE Adding(base', log', x, k, acc) = Adding(base, log, x, k, acc)
    BY <1>3, DetachedOf DEF Adding, CountsIn
  <2>4. PICK b, d, events, others : b = base /\ d = base' /\ events = log /\ others = log'
    OBVIOUS
  <2>5. /\ events \in Seq(EventType) /\ others \in Seq(EventType) /\ Len(others) = Len(events)
        /\ StartIn(b, x) \in Nat /\ StartIn(d, x) = StartIn(b, x)
        /\ \A k \in 1..Len(events), acc \in Nat : Adding(d, others, x, k, acc) = Adding(b, events, x, k, acc)
    BY <2>2, <2>3, <2>4, DetachedOf DEF PoolTyped
  <2>6. TotalOf(d, others, x) = TotalOf(b, events, x)
    BY <2>5, SameTotal
  <2> QED BY <2>1, <2>4, <2>6
<1> QED
  BY <1>6, <1>7, <1>8

LEMMA CreateCardStep ==
    ASSUME PoolIInv, NEW c \in Cards, CreateCard(c)
    PROVE  PoolIInv'
<1> USE DEF PoolIInv
<1>1. /\ poolplan' \in PoolPlan /\ c \notin Pool /\ UNCHANGED <<phase, base, log, pay>>
      /\ total' = [x \in Pool \cup {c} |-> IF x = c THEN 0 ELSE total[x]]
      /\ pointer' \in {c, pointer}
  BY PoolPlanTaken DEF CreateCard
<1>2. Pool' = Pool \cup {c} /\ total' \in [Pool' -> Nat]
  BY <1>1, PoolFacts DEF Pool, PoolTyped
<1>3. PoolTyped'
  BY <1>1, <1>2 DEF PoolTyped
<1>4. NothingLeft'
  BY <1>1, <1>2 DEF NothingLeft
<1>5. TotalOf(base, log, c) = 0
  <2>1. StartIn(base, c) = 0 /\ \A k \in 1..Len(log) : ~CountsIn(base, log[k], k, c)
    BY <1>1 DEF NothingLeft, StartIn, CountsIn
  <2>2. log \in Seq(EventType) /\ StartIn(base, c) \in Nat
    BY <2>1 DEF PoolTyped
  <2> QED BY <2>1, <2>2, TotalOfNothing
<1>6. TotalIsTheLog'
  <2> SUFFICES ASSUME NEW x \in Pool \cup {c}, phase = "event_logged" PROVE total'[x] = Accumulator(log, x)'
    BY <1>1, <1>2 DEF TotalIsTheLog
  <2>1. Accumulator(log, x)' = TotalOf(base, log, x)
    BY <1>1, AccumulatorIsThen
  <2>2. CASE x = c
    BY <1>1, <1>5, <2>1, <2>2
  <2>3. CASE x # c
    BY <1>1, <2>1, <2>3, AccumulatorIs DEF TotalIsTheLog
  <2> QED BY <2>2, <2>3
<1> QED
  BY <1>3, <1>4, <1>6

LEMMA ActivateCardStep ==
    ASSUME PoolIInv, NEW c \in Cards, ActivateCard(c)
    PROVE  PoolIInv'
<1> USE DEF PoolIInv
<1>1. poolplan' \in PoolPlan /\ pointer' = c /\ UNCHANGED <<phase, total, base, log, pay>>
  BY PoolPlanTaken DEF ActivateCard
<1>2. Pool' = Pool
  BY <1>1 DEF Pool
<1>3. PoolTyped'
  BY <1>1, <1>2 DEF PoolTyped
<1> QED
  BY <1>1, <1>2, <1>3, TotalsStay DEF NothingLeft

LEMMA PoolStep == PoolIInv /\ [PoolNext]_poolvars => PoolIInv'
<1> SUFFICES ASSUME PoolIInv, [PoolNext]_poolvars PROVE PoolIInv'
  OBVIOUS
<1>1. CASE \E p \in Payments : PayCommits(p) \/ PayBreaks(p) \/ \E c \in Pool, amount \in 1..2 : PayReads(p, c, amount)
  BY <1>1, PayCommitsStep, PayBreaksStep, PayReadsStep
<1>2. CASE CaptureBaseline \/ RevertToLegacy
  BY <1>2, PhaseStep
<1>3. CASE \E i \in 1..Len(log) : VoidEvent(i)
  BY <1>3, VoidEventStep
<1>4. CASE \E c \in Cards : DeleteCard(c) \/ CreateCard(c) \/ ActivateCard(c)
  BY <1>4, DeleteCardStep, CreateCardStep, ActivateCardStep
<1>5. CASE UNCHANGED poolvars
  <2>1. UNCHANGED <<poolplan, phase, total, pointer, base, log, pay>> /\ Pool' = Pool
    BY <1>5 DEF poolvars, Pool
  <2>2. PoolTyped'
    BY <2>1 DEF PoolIInv, PoolTyped
  <2> QED BY <2>1, <2>2, TotalsStay DEF PoolIInv, NothingLeft
<1> QED
  BY <1>1, <1>2, <1>3, <1>4, <1>5 DEF PoolNext


\* Cards: while a pool logs its events every live total is what the log says.
THEOREM PoolInductive == PoolSpec => []PoolIInv
<1>1. PoolInit => PoolIInv
  BY PoolIInvInit
<1>2. PoolIInv /\ [PoolNext]_poolvars => PoolIInv'
  BY PoolStep
<1> QED
  BY <1>1, <1>2, PTL DEF PoolSpec

LEMMA PoolInvFrom == PoolIInv => PoolInv
<1> SUFFICES ASSUME PoolIInv PROVE PoolInv
  OBVIOUS
<1>1. \A i \in 1..Len(log) : log[i].card \in Cards /\ log[i].amount > 0
  BY PoolFacts DEF PoolIInv, EventType
<1>2. PoolTypeOK
  BY <1>1, PoolFacts DEF PoolIInv, PoolTyped, PoolTypeOK
<1> QED
  BY <1>2 DEF PoolInv, PoolIInv

THEOREM PoolHolds == PoolSpec => []PoolInv
<1>1. PoolIInv => PoolInv
  BY PoolInvFrom
<1> QED
  BY <1>1, PoolInductive, PTL

\* Only the void of an event voids it.
LEMMA WhoVoids ==
    ASSUME PoolIInv, PoolNext, NEW i \in 1..Len(log), PaymentVoided(i)
    PROVE  VoidEvent(i)
<1>1. log[i] \in EventType /\ ~log[i].voided /\ log'[i].voided /\ Len(log) \in Nat /\ log \in Seq(EventType)
  BY PoolFacts DEF PaymentVoided, PoolIInv, PoolTyped
<1>2. CASE \E p \in Payments : PayCommits(p) \/ PayBreaks(p) \/ \E c \in Pool, amount \in 1..2 : PayReads(p, c, amount)
  <2>1. log' = log \/ \E e : log' = Append(log, e)
    BY <1>2 DEF PayCommits, PayBreaks, PayReads
  <2>2. log'[i] = log[i]
    BY <1>1, <2>1
  <2> QED BY <1>1, <2>2
<1>3. CASE CaptureBaseline \/ RevertToLegacy \/ \E c \in Cards : CreateCard(c) \/ ActivateCard(c)
  BY <1>1, <1>3 DEF CaptureBaseline, RevertToLegacy, CreateCard, ActivateCard
<1>4. CASE \E c \in Cards : DeleteCard(c)
  <2>1. PICK c \in Cards : log' = Detached(c)
    BY <1>4 DEF DeleteCard
  <2>2. log'[i] = IF log[i].card = c THEN [log[i] EXCEPT !.detached = TRUE] ELSE log[i]
    BY <2>1 DEF Detached
  <2>3. [log[i] EXCEPT !.detached = TRUE].voided = log[i].voided
    BY <1>1 DEF EventType
  <2> QED BY <1>1, <2>2, <2>3
<1>5. CASE \E j \in 1..Len(log) : VoidEvent(j)
  <2>1. PICK j \in 1..Len(log) : VoidEvent(j)
    BY <1>5
  <2>2. j # i => log'[i] = log[i]
    BY <2>1, VoidOf
  <2> QED BY <1>1, <2>1, <2>2
<1> QED
  BY <1>2, <1>3, <1>4, <1>5 DEF PoolNext

\* What the void of one event takes from the total of its card.
LEMMA VoidTakes ==
    ASSUME PoolIInv, NEW i \in 1..Len(log), VoidEvent(i), phase = "event_logged", i > base.after
    PROVE  TakesItsPayment(i)
<1> USE DEF PoolIInv
<1> DEFINE c == log[i].card
<1> SUFFICES ASSUME c \in Pool, ~log[i].detached
             PROVE  IF ResetLater(i) THEN total'[c] = total[c]
                    ELSE IF log[i].reset THEN total'[c] >= total[c]
                    ELSE total'[c] = total[c] - log[i].amount
  BY DEF TakesItsPayment
<1>1. total' = [total EXCEPT ![c] = Accumulator(log', c)]
  BY DEF VoidEvent
<1>2. total'[c] = TotalOf(base, log', c) /\ total[c] = TotalOf(base, log, c)
  BY <1>1, AccumulatorIs DEF PoolTyped, TotalIsTheLog
<1>3. CountsIn(base, log[i], i, c) /\ ~CountsIn(base, log'[i], i, c)
  BY VoidOf DEF CountsIn
<1>4. ResetLater(i) <=> ResetAfter(base, log, c, i)
  <2>1. \A j \in i + 1..Len(log) : j > base.after
    BY PoolFacts
  <2> QED BY <2>1 DEF ResetLater, ResetAfter, CountsIn
<1>5. log \in Seq(EventType) /\ log' \in Seq(EventType) /\ Len(log') = Len(log) /\ StartIn(base, c) \in Nat
  BY VoidOf, PoolFacts DEF PoolTyped
<1>6. \A k \in 1..Len(log) : k # i => log'[k] = log[k]
  BY VoidOf
<1> HIDE DEF c
<1>7. PICK b, events, others : b = base /\ events = log /\ others = log'
  OBVIOUS
<1>8. /\ ResetAfter(b, events, c, i) => TotalOf(b, others, c) = TotalOf(b, events, c)
      /\ ~ResetAfter(b, events, c, i) /\ events[i].reset => TotalOf(b, others, c) >= TotalOf(b, events, c)
      /\ ~ResetAfter(b, events, c, i) /\ ~events[i].reset => TotalOf(b, others, c) = TotalOf(b, events, c) - events[i].amount
  <2>1. /\ events \in Seq(EventType) /\ others \in Seq(EventType) /\ i \in 1..Len(events) /\ StartIn(b, c) \in Nat
        /\ Len(others) = Len(events) /\ CountsIn(b, events[i], i, c) /\ ~CountsIn(b, others[i], i, c)
        /\ \A k \in 1..Len(events) : k # i => others[k] = events[k]
    BY <1>3, <1>5, <1>6, <1>7
  <2> QED BY <2>1, TotalWithoutOne
<1> QED
  BY <1>2, <1>4, <1>7, <1>8

\* Cards: in an unbroken period of logging the void of a payment takes its own
\* amount and the reset it caused, and nothing of the payments after it.
THEOREM VoidIsExact == PoolSpec => VoidTakesItsPayment
<1>1. PoolIInv /\ [PoolNext]_poolvars =>
        [\A i \in 1..Len(log) : PaymentVoided(i) /\ phase = "event_logged" /\ i > base.after => TakesItsPayment(i)]_poolvars
  BY WhoVoids, VoidTakes
<1> QED
  BY <1>1, PoolInductive, PTL DEF PoolSpec, VoidTakesItsPayment
-----------------------------------------------------------------------------
(***************************************************************************)
(* The behaviours MCAccounts checks: each part's theorems hold of them.    *)
(***************************************************************************)

HIDE PoolAssumption

\* A part that is not a behaviour's stutters in it.
LEMMA EachPartIsItself == AccountsSpec => Spec /\ CreditSpec /\ PoolSpec
<1>1. AccountsInit => Init /\ CreditInit /\ PoolInit
  BY DEF AccountsInit
<1>2. [AccountsNext]_accountvars => [Next]_vars /\ [CreditNext]_creditvars /\ [PoolNext]_poolvars
  <2>1. AccountsNext => [Next]_vars /\ [CreditNext]_creditvars /\ [PoolNext]_poolvars
    BY DEF AccountsNext, WalletPart, CreditPart, CardPart
  <2>2. UNCHANGED accountvars => [Next]_vars /\ [CreditNext]_creditvars /\ [PoolNext]_poolvars
    BY DEF accountvars
  <2> QED BY <2>1, <2>2
<1> QED
  BY <1>1, <1>2, PTL DEF AccountsSpec, Spec, CreditSpec, PoolSpec

\* What resellers hold and what cards were paid agree with their logs.
THEOREM HoldersKeepTheirLogs == AccountsSpec => [](Calm => HoldersInv)
<1>1. CreditInv /\ PoolInv => HoldersInv
  BY DEF HoldersInv
<1> QED
  BY <1>1, EachPartIsItself, CreditIsKept, PoolHolds, PTL
=============================================================================
