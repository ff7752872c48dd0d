---------------------------- MODULE OperatorProofs ----------------------------
(***************************************************************************)
(* What the operators of the rules give, for inputs of any size: first     *)
(* those of Lists (members in order, entries at positions, lists of lists, *)
(* totals), then the rules of an area each: merges, the search through the *)
(* trace, tokens and their names, schedules, the table of models, scenes   *)
(* and draws.  RulesProofs adds the configuration and the sites, and draws *)
(* the conclusions for the specification Rules.                            *)
(***************************************************************************)
EXTENDS MergeRules, TokenService, SaleSchedule, ModelRules, DragonScene, DrawRules,
        FiniteSetTheorems, TLAPS

(***************************************************************************)
(* Induction over numbers and over finite sets.  Both are stated of a set  *)
(* (of the numbers, or of the subsets, with the property at hand).         *)
(***************************************************************************)

LEMMA Induction ==
  ASSUME NEW S, 0 \in S, \A n \in S \cap Nat : n + 1 \in S
  PROVE  Nat \subseteq S
<1>1. SUFFICES ASSUME Nat \ S # {} PROVE FALSE
  OBVIOUS
<1>2. PICK x \in Nat \ S : \A y \in Nat \ S : <<y, x>> \notin OpToRel(<, Nat)
  BY <1>1, NatLessThanWellFounded, WFMin, Nat \ S \subseteq Nat, Zenon
<1>3. x - 1 \in Nat \ S
  BY Z3
<1>4. <<x - 1, x>> \in OpToRel(<, Nat)
  BY <1>3 DEF OpToRel
<1> QED BY <1>2, <1>3, <1>4

LEMMA SetInduction ==
  ASSUME NEW D, IsFiniteSet(D), NEW P,
         {} \in P, \A T \in SUBSET D : T \in P => \A x \in D \ T : T \cup {x} \in P
  PROVE  SUBSET D \subseteq P
<1> DEFINE S == {n \in Nat : \A T \in SUBSET D : Cardinality(T) = n => T \in P}
<1>1. 0 \in S
  BY FS_Subset, FS_EmptySet
<1>2. ASSUME NEW n \in S PROVE n + 1 \in S
  <2>1. SUFFICES ASSUME NEW T \in SUBSET D, Cardinality(T) = n + 1 PROVE T \in P
    OBVIOUS
  <2>2. IsFiniteSet(T)
    BY FS_Subset
  <2>3. PICK x : x \in T
    BY <2>1, FS_EmptySet, n + 1 # 0
  <2>4. Cardinality(T \ {x}) = n
    <3>1. Cardinality(T \ {x}) = Cardinality(T) - 1
      BY <2>2, <2>3, FS_RemoveElement
    <3>2. n \in Nat
      OBVIOUS
    <3> QED
      BY <2>1, <3>1, <3>2
  <2>5. T \ {x} \in P /\ T \ {x} \in SUBSET D /\ x \in D \ (T \ {x})
    BY <2>3, <2>4
  <2>6. (T \ {x}) \cup {x} = T
    BY <2>3
  <2> QED
    BY <2>5, <2>6
<1>3. Nat \subseteq S
  BY <1>1, <1>2, Induction
<1>4. ASSUME NEW T \in SUBSET D PROVE T \in P
  BY <1>3, FS_Subset, FS_CardinalityType
<1> QED
  BY <1>4

LEMMA Least ==
  ASSUME NEW S \in SUBSET Nat, S # {}
  PROVE  \E m \in S : \A n \in S : m <= n
<1>1. PICK m \in S : \A n \in S : <<n, m>> \notin OpToRel(<, Nat)
  BY NatLessThanWellFounded, WFMin, Zenon
<1>2. ASSUME NEW n \in S PROVE m <= n
  <2>1. ~ (n < m)
    BY <1>1 DEF OpToRel
  <2> QED
    BY <2>1
<1> QED
  BY <1>2

LEMMA Greatest ==
  ASSUME NEW S \in SUBSET Nat, S # {}, IsFiniteSet(S)
  PROVE  \E m \in S : \A n \in S : n <= m
<1> DEFINE P == {T \in SUBSET S : T # {} => \E m \in T : \A n \in T : n <= m}
<1>1. {} \in P
  OBVIOUS
<1>2. ASSUME NEW T \in SUBSET S, T \in P, NEW x \in S \ T PROVE T \cup {x} \in P
  <2>1. CASE T = {}
    BY <2>1
  <2>2. CASE T # {}
    <3>1. PICK m \in T : \A n \in T : n <= m
      BY <1>2, <2>2
    <3>2. x \in Nat /\ m \in Nat /\ \A n \in T : n \in Nat
      OBVIOUS
    <3>3. CASE x <= m
      BY <3>1, <3>3
    <3>4. CASE ~ (x <= m)
      <4>1. \A n \in T \cup {x} : n <= x
        BY <3>1, <3>2, <3>4
      <4> QED
        BY <4>1
    <3> QED
      BY <3>3, <3>4
  <2> QED
    BY <2>1, <2>2
<1> HIDE DEF P
<1>3. SUBSET S \subseteq P
  BY <1>1, <1>2, SetInduction
<1> QED
  BY <1>3 DEF P

\* What is found by going on step by step from a value.
Stays(N, D, step) == \A n \in 1..N : \A x \in D : step[<<n, x>>] \in D

Follows(g, N, D, init, step) ==
  /\ g \in [0..N -> D]
  /\ g[0] = init
  /\ \A n \in 1..N : g[n] = step[<<n, g[n - 1]>>]

LEMMA Recursion ==
  ASSUME NEW N \in Nat, NEW D, NEW init \in D, NEW step, Stays(N, D, step)
  PROVE  \E g : Follows(g, N, D, init, step)
<1> DEFINE Good(g, m) == /\ g[0] = init
                         /\ \A n \in 1..m : g[n] = step[<<n, g[n - 1]>>]
           P == {m \in Nat : m <= N => \E g \in [0..m -> D] : Good(g, m)}
<1>1. 0 \in P
  <2>1. [n \in 0..0 |-> init] \in [0..0 -> D] /\ Good([n \in 0..0 |-> init], 0)
    OBVIOUS
  <2> QED
    BY <2>1
<1>2. ASSUME NEW m \in P \cap Nat PROVE m + 1 \in P
  <2>1. SUFFICES ASSUME m + 1 <= N PROVE \E h \in [0..(m + 1) -> D] : Good(h, m + 1)
    OBVIOUS
  <2>2. PICK g \in [0..m -> D] : Good(g, m)
    BY <2>1
  <2> DEFINE h == [n \in 0..(m + 1) |-> IF n <= m THEN g[n] ELSE step[<<m + 1, g[m]>>]]
  <2>3. g[m] \in D /\ m + 1 \in 1..N
    BY <2>1
  <2>4. step[<<m + 1, g[m]>>] \in D
    BY <2>3 DEF Stays
  <2>5. h \in [0..(m + 1) -> D]
    BY <2>4
  <2>6. /\ \A n \in 0..m : h[n] = g[n]
        /\ h[m + 1] = step[<<m + 1, g[m]>>]
    OBVIOUS
  <2>7. 0 \in 0..m /\ m \in 0..m /\ \A n \in 1..m : n \in 0..m /\ n - 1 \in 0..m
    OBVIOUS
  <2> HIDE DEF h
  <2>8. h[0] = init /\ \A n \in 1..m : h[n] = step[<<n, h[n - 1]>>]
    BY <2>2, <2>6, <2>7
  <2>9. h[m + 1] = step[<<m + 1, h[m]>>] /\ (m + 1) - 1 = m
    BY <2>6, <2>7
  <2>10. \A n \in 1..(m + 1) : n \in 1..m \/ n = m + 1
    OBVIOUS
  <2>11. Good(h, m + 1)
    BY <2>8, <2>9, <2>10
  <2> QED
    BY <2>5, <2>11
<1>3. Nat \subseteq P
  BY <1>1, <1>2, Induction
<1>4. \E g \in [0..N -> D] : Good(g, N)
  BY <1>3
<1> QED
  BY <1>4 DEF Follows

LEMMA Entry ==
  ASSUME NEW X, NEW list \in Seq(X), NEW i \in DOMAIN list
  PROVE  i \in Nat /\ i >= 1 /\ list[i] \in X
OBVIOUS

LEMMA Positions ==
  ASSUME NEW X, NEW list \in Seq(X)
  PROVE  IsFiniteSet(DOMAIN list) /\ Cardinality(DOMAIN list) = Len(list)
<1>1. DOMAIN list = 1..Len(list) /\ Len(list) \in Nat
  OBVIOUS
<1> DEFINE n == Len(list)
<1>2. n \in Nat
  BY <1>1
<1> HIDE DEF n
<1>3. IsFiniteSet(1..n) /\ Cardinality(1..n) = IF 1 > n THEN 0 ELSE n - 1 + 1
  BY ONLY <1>2, 1 \in Int, FS_Interval
<1>4. Cardinality(1..n) = n
  BY ONLY <1>2, <1>3
<1> QED
  BY <1>1, <1>3, <1>4 DEF n

\* A function of a finite set has finitely many values, at most one for each member.
LEMMA Values ==
  ASSUME NEW S, IsFiniteSet(S), NEW h
  PROVE  /\ IsFiniteSet({h[x] : x \in S})
         /\ Cardinality({h[x] : x \in S}) <= Cardinality(S)
         /\ Cardinality({h[x] : x \in S}) = Cardinality(S) =>
              \A x, y \in S : h[x] = h[y] => x = y
         /\ (\A x, y \in S : h[x] = h[y] => x = y) =>
              Cardinality({h[x] : x \in S}) = Cardinality(S)
<1> DEFINE T == {h[x] : x \in S}
           f == [x \in S |-> h[x]]
<1>1. f \in Surjection(S, T)
  BY DEF Surjection
<1>2. /\ IsFiniteSet(T) /\ Cardinality(T) <= Cardinality(S)
      /\ Cardinality(T) = Cardinality(S) <=> f \in Injection(S, T)
  BY <1>1, FS_Surjection
<1>3. f \in Injection(S, T) <=> \A x, y \in S : h[x] = h[y] => x = y
  BY DEF Injection, IsInjective
<1> QED
  BY <1>2, <1>3

LEMMA SameNumber ==
  ASSUME NEW S, IsFiniteSet(S), NEW h, \A x, y \in S : h[x] = h[y] => x = y
  PROVE  IsFiniteSet({h[x] : x \in S}) /\ Cardinality({h[x] : x \in S}) = Cardinality(S)
BY Values

(***************************************************************************)
(* Sets in order                                                           *)
(***************************************************************************)

\* A relation that puts the members of a set one after another.
Orders(before, S) ==
  /\ \A x \in S : <<x, x>> \notin before
  /\ \A x, y \in S : x # y => <<x, y>> \in before \/ <<y, x>> \in before
  /\ \A x, y, z \in S : <<x, y>> \in before /\ <<y, z>> \in before => <<x, z>> \in before

Below(S, before, x) == {y \in S : <<y, x>> \in before}

LEMMA Places ==
  ASSUME NEW S, IsFiniteSet(S), NEW before, Orders(before, S)
  PROVE  /\ \A x \in S : Cardinality(Below(S, before, x)) \in 0..(Cardinality(S) - 1)
         /\ \A x, y \in S : <<x, y>> \in before =>
              Cardinality(Below(S, before, x)) < Cardinality(Below(S, before, y))
         /\ \A k \in 0..(Cardinality(S) - 1) :
              \E x \in S : Cardinality(Below(S, before, x)) = k
<1> DEFINE n == Cardinality(S)
           r == [x \in S |-> Cardinality(Below(S, before, x))]
<1>0. n \in Nat
  BY FS_CardinalityType
<1>1. ASSUME NEW x \in S PROVE r[x] \in 0..(n - 1)
  <2>1. Below(S, before, x) \in SUBSET (S \ {x})
    BY DEF Below, Orders
  <2>2. IsFiniteSet(S \ {x}) /\ Cardinality(S \ {x}) = n - 1
    BY FS_RemoveElement
  <2> QED
    BY <1>0, <2>1, <2>2, FS_Subset, FS_CardinalityType
<1>2. ASSUME NEW x \in S, NEW y \in S, <<x, y>> \in before PROVE r[x] < r[y]
  <2>1. Below(S, before, x) \in SUBSET (Below(S, before, y) \ {x})
    BY <1>2 DEF Below, Orders
  <2>2. x \in Below(S, before, y) /\ IsFiniteSet(Below(S, before, y))
    BY <1>2, FS_Subset DEF Below
  <2>3. /\ IsFiniteSet(Below(S, before, y) \ {x})
        /\ Cardinality(Below(S, before, y) \ {x}) = Cardinality(Below(S, before, y)) - 1
    BY <2>2, FS_RemoveElement
  <2> QED
    BY <1>1, <2>1, <2>3, FS_Subset, FS_CardinalityType
<1>3. r \in Injection(S, 0..(n - 1))
  <2>1. ASSUME NEW x \in S, NEW y \in S, x # y PROVE r[x] # r[y]
    <3>1. r[x] \in Int /\ r[y] \in Int
      BY <1>1
    <3>2. r[x] < r[y] \/ r[y] < r[x]
      BY <1>2, <2>1 DEF Orders
    <3> HIDE DEF r
    <3> QED
      BY <3>1, <3>2
  <2> QED
    BY <1>1, <2>1 DEF Injection, IsInjective
<1>4. IsFiniteSet(0..(n - 1)) /\ Cardinality(0..(n - 1)) = n
  BY <1>0, FS_Interval
<1>5. r \in Surjection(S, 0..(n - 1))
  BY <1>3, <1>4, FS_Injection
<1> QED
  BY <1>1, <1>2, <1>5 DEF Surjection

\* The list of a set in order has every member once, at the place its rank says.
LEMMA InOrderIs ==
  ASSUME NEW S, IsFiniteSet(S), NEW before, Orders(before, S)
  PROVE  /\ InOrder(S, before) \in [1..Cardinality(S) -> S]
         /\ \A x \in S : \E k \in 1..Cardinality(S) : InOrder(S, before)[k] = x
         /\ \A j, k \in 1..Cardinality(S) : j < k =>
              /\ InOrder(S, before)[j] # InOrder(S, before)[k]
              /\ <<InOrder(S, before)[j], InOrder(S, before)[k]>> \in before
<1> DEFINE n == Cardinality(S)
           rank(x) == Cardinality(Below(S, before, x))
           o == InOrder(S, before)
<1>0. n \in Nat
  BY FS_CardinalityType
<1>1. ASSUME NEW k \in 1..n PROVE o[k] \in S /\ rank(o[k]) = k - 1
  <2>1. o[k] = CHOOSE x \in S : rank(x) = k - 1
    BY DEF InOrder, Below
  <2>2. \E x \in S : rank(x) = k - 1
    BY <1>0, Places
  <2> QED
    BY <2>1, <2>2
<1>a. \A x \in S : rank(x) \in 0..(n - 1)
  BY Places
<1>b. \A x, y \in S : <<x, y>> \in before => rank(x) < rank(y)
  BY Places
<1>5. o \in [1..n -> S]
  BY <1>1 DEF InOrder
<1> HIDE DEF rank, n, o
<1>2. ASSUME NEW x \in S, NEW y \in S, rank(x) = rank(y) PROVE x = y
  <2>1. rank(x) \in Int
    BY <1>0, <1>a
  <2>2. ~ (<<x, y>> \in before \/ <<y, x>> \in before)
    BY <1>b, <1>2, <2>1
  <2> QED
    BY <2>2 DEF Orders
<1>3. ASSUME NEW x \in S PROVE \E k \in 1..n : o[k] = x
  <2>1. rank(x) + 1 \in 1..n /\ (rank(x) + 1) - 1 = rank(x)
    BY <1>0, <1>a
  <2>2. o[rank(x) + 1] \in S /\ rank(o[rank(x) + 1]) = rank(x)
    BY <1>1, <2>1
  <2> QED
    BY <1>2, <2>1, <2>2
<1>4. ASSUME NEW j \in 1..n, NEW k \in 1..n, j < k
      PROVE  o[j] # o[k] /\ <<o[j], o[k]>> \in before
  <2>1. o[j] \in S /\ o[k] \in S /\ rank(o[j]) = j - 1 /\ rank(o[k]) = k - 1
    BY <1>1
  <2>2. o[j] # o[k] /\ ~ (rank(o[k]) < rank(o[j]))
    BY <1>0, <1>4, <2>1
  <2> QED
    BY <1>b, <2>1, <2>2 DEF Orders
<1> QED
  BY <1>3, <1>4, <1>5 DEF n, o

LEMMA AscendingIs ==
  ASSUME NEW S \in SUBSET Int, IsFiniteSet(S)
  PROVE  /\ Ascending(S) \in [1..Cardinality(S) -> S]
         /\ \A x \in S : \E k \in 1..Cardinality(S) : Ascending(S)[k] = x
         /\ \A j, k \in 1..Cardinality(S) : j < k => Ascending(S)[j] < Ascending(S)[k]
<1> DEFINE before == {p \in S \X S : p[1] < p[2]}
<1>1. Orders(before, S)
  BY DEF Orders
<1>2. \A x, y \in S : <<x, y>> \in before <=> x < y
  OBVIOUS
<1>3. Ascending(S) = InOrder(S, before)
  <2>1. \A x \in S : {y \in S : <<y, x>> \in before} = {y \in S : y < x}
    BY <1>2
  <2>2. ASSUME NEW k \in 1..Cardinality(S) PROVE Ascending(S)[k] = InOrder(S, before)[k]
    <3> HIDE DEF before
    <3>1. Ascending(S)[k] = CHOOSE x \in S : Cardinality({y \in S : y < x}) = k - 1
      BY DEF Ascending
    <3>2. InOrder(S, before)[k]
            = CHOOSE x \in S : Cardinality({y \in S : <<y, x>> \in before}) = k - 1
      BY DEF InOrder
    <3>3. \A x : (x \in S /\ Cardinality({y \in S : y < x}) = k - 1)
                   <=> (x \in S /\ Cardinality({y \in S : <<y, x>> \in before}) = k - 1)
      BY <2>1
    <3>4. (CHOOSE x \in S : Cardinality({y \in S : y < x}) = k - 1)
            = CHOOSE x \in S : Cardinality({y \in S : <<y, x>> \in before}) = k - 1
      BY <3>3
    <3> QED
      BY <3>1, <3>2, <3>4
  <2> HIDE DEF before
  <2> QED
    BY <2>2 DEF Ascending, InOrder
<1> HIDE DEF before
<1>4. /\ InOrder(S, before) \in [1..Cardinality(S) -> S]
      /\ \A x \in S : \E k \in 1..Cardinality(S) : InOrder(S, before)[k] = x
      /\ \A j, k \in 1..Cardinality(S) : j < k =>
           <<InOrder(S, before)[j], InOrder(S, before)[k]>> \in before
  BY <1>1, InOrderIs
<1> DEFINE o == Ascending(S)
           n == Cardinality(S)
<1>5. /\ o \in [1..n -> S]
      /\ \A x \in S : \E k \in 1..n : o[k] = x
      /\ \A j, k \in 1..n : j < k => <<o[j], o[k]>> \in before
  BY <1>3, <1>4
<1> HIDE DEF o, n
<1>6. \A j, k \in 1..n : j < k => o[j] < o[k]
  BY <1>2, <1>5
<1> QED
  BY <1>5, <1>6 DEF o, n

\* The first few members of a set of numbers.
LEMMA FirstFew ==
  ASSUME NEW S \in SUBSET Int, IsFiniteSet(S), NEW n \in Int
  PROVE  LET few == {m \in S : Cardinality({l \in S : l < m}) < n}
         IN  /\ IsFiniteSet(few)
             /\ n >= 0 => Cardinality(few) <= n
             /\ n <= 0 => few = {}
             /\ n >= Cardinality(S) => few = S
<1> DEFINE before == {p \in S \X S : p[1] < p[2]}
           R == [m \in S |-> Cardinality({l \in S : l < m})]
           few == {m \in S : R[m] < n}
<1>1. Orders(before, S)
  BY DEF Orders
<1>2. \A x, y \in S : <<x, y>> \in before <=> x < y
  OBVIOUS
<1>3. \A m \in S : R[m] = Cardinality(Below(S, before, m))
  <2>1. \A m \in S : {l \in S : l < m} = Below(S, before, m)
    BY <1>2 DEF Below
  <2> QED
    BY <2>1
<1>0. few = {m \in S : Cardinality({l \in S : l < m}) < n}
  OBVIOUS
<1>5. Cardinality(S) \in Nat
  BY FS_CardinalityType
<1> HIDE DEF before, R
<1>4. /\ \A x \in S : R[x] \in 0..(Cardinality(S) - 1)
      /\ \A x, y \in S : x < y => R[x] < R[y]
  <2>1. /\ \A x \in S : Cardinality(Below(S, before, x)) \in 0..(Cardinality(S) - 1)
        /\ \A x, y \in S : <<x, y>> \in before =>
             Cardinality(Below(S, before, x)) < Cardinality(Below(S, before, y))
    BY <1>1, Places
  <2>2. \A x \in S : R[x] \in 0..(Cardinality(S) - 1)
    BY <1>3, <2>1
  <2>3. ASSUME NEW x \in S, NEW y \in S, x < y PROVE R[x] < R[y]
    <3>1. <<x, y>> \in before
      BY <1>2, <2>3
    <3> QED
      BY <1>3, <2>1, <3>1
  <2> QED
    BY <2>2, <2>3
<1>8. IsFiniteSet(few)
  BY FS_Subset
<1>9. ASSUME n >= 0 PROVE Cardinality(few) <= n
  <2> DEFINE r == [m \in few |-> R[m]]
  <2>1. \A m \in few : r[m] \in 0..(n - 1)
    BY <1>4, <1>5
  <2>2. ASSUME NEW x \in few, NEW y \in few, r[x] = r[y] PROVE x = y
    <3>1. R[x] = R[y] /\ R[x] \in Int /\ x \in S /\ y \in S /\ x \in Int /\ y \in Int
      BY <1>4, <2>2
    <3>2. ~ (x < y) /\ ~ (y < x)
      BY <1>4, <3>1
    <3> QED
      BY <3>1, <3>2
  <2>3. r \in Injection(few, 0..(n - 1))
    BY <2>1, <2>2 DEF Injection, IsInjective
  <2>4. IsFiniteSet(0..(n - 1)) /\ Cardinality(0..(n - 1)) = n
    BY <1>9, FS_Interval
  <2> HIDE DEF r, few
  <2> QED
    BY <2>3, <2>4, FS_Injection
<1>10. ASSUME n <= 0 PROVE few = {}
  <2>1. ASSUME NEW m \in S PROVE ~ (R[m] < n)
    <3>1. R[m] \in Int /\ R[m] >= 0
      BY <1>4, <1>5
    <3> QED
      BY <1>10, <3>1
  <2> QED
    BY <2>1
<1>11. ASSUME n >= Cardinality(S) PROVE few = S
  <2>1. ASSUME NEW m \in S PROVE R[m] < n
    <3>1. R[m] \in Int /\ R[m] <= Cardinality(S) - 1
      BY <1>4, <1>5
    <3> QED
      BY <1>5, <1>11, <3>1
  <2> QED
    BY <2>1
<1> HIDE DEF few
<1> QED
  BY <1>0, <1>8, <1>9, <1>10, <1>11

\* The numbers up to n in order are themselves.
LEMMA AscendingNumbers ==
  ASSUME NEW n \in Nat
  PROVE  Ascending(1..n) = [k \in 1..n |-> k]
<1>1. IsFiniteSet(1..n) /\ Cardinality(1..n) = n
  BY FS_Interval
<1>2. ASSUME NEW k \in 1..n PROVE Ascending(1..n)[k] = k
  <2>1. ASSUME NEW x \in 1..n PROVE Cardinality({y \in 1..n : y < x}) = x - 1
    <3>1. {y \in 1..n : y < x} = 1..(x - 1)
      OBVIOUS
    <3>2. Cardinality(1..(x - 1)) = x - 1
      BY FS_Interval
    <3> QED
      BY <3>1, <3>2
  <2>2. \A x \in 1..n : Cardinality({y \in 1..n : y < x}) = k - 1 <=> x = k
    BY <2>1
  <2>3. Ascending(1..n)[k] = CHOOSE x \in 1..n : Cardinality({y \in 1..n : y < x}) = k - 1
    BY <1>1 DEF Ascending
  <2> QED
    BY <2>2, <2>3
<1> QED
  BY <1>1, <1>2 DEF Ascending

(***************************************************************************)
(* Entries picked from a list                                              *)
(***************************************************************************)

\* What is picked is what is at these positions, in their order.
LEMMA PickedIs ==
  ASSUME NEW list, NEW at \in SUBSET Int, IsFiniteSet(at)
  PROVE  \E o \in [1..Cardinality(at) -> at] :
           /\ Picked(list, at) = [k \in 1..Cardinality(at) |-> list[o[k]]]
           /\ \A i \in at : \E k \in 1..Cardinality(at) : o[k] = i
           /\ \A j, k \in 1..Cardinality(at) : j < k => o[j] < o[k]
<1>1. Ascending(at) \in [1..Cardinality(at) -> at]
  BY AscendingIs
<1> QED
  BY <1>1, AscendingIs DEF Picked

LEMMA PickedSeq ==
  ASSUME NEW X, NEW list \in Seq(X), NEW at \in SUBSET DOMAIN list
  PROVE  /\ IsFiniteSet(at) /\ at \in SUBSET Nat
         /\ Picked(list, at) \in Seq(X)
         /\ DOMAIN Picked(list, at) = 1..Cardinality(at)
         /\ Len(Picked(list, at)) = Cardinality(at)
         /\ \A i \in at : \E k \in DOMAIN Picked(list, at) : Picked(list, at)[k] = list[i]
         /\ \A k \in DOMAIN Picked(list, at) : \E i \in at : Picked(list, at)[k] = list[i]
<1>0. IsFiniteSet(1..Len(list)) /\ at \in SUBSET (1..Len(list)) /\ Len(list) \in Nat
  BY FS_Interval
<1>1. IsFiniteSet(at) /\ at \in SUBSET Nat /\ Cardinality(at) \in Nat
  BY <1>0, FS_Subset, FS_CardinalityType
<1>a. at \in SUBSET Int
  BY <1>1
<1>2. PICK o \in [1..Cardinality(at) -> at] :
        /\ Picked(list, at) = [k \in 1..Cardinality(at) |-> list[o[k]]]
        /\ \A i \in at : \E k \in 1..Cardinality(at) : o[k] = i
        /\ \A j, k \in 1..Cardinality(at) : j < k => o[j] < o[k]
  BY <1>1, <1>a, PickedIs
<1>3. \A k \in 1..Cardinality(at) : list[o[k]] \in X
  BY <1>2
<1>4. Picked(list, at) \in Seq(X)
  BY <1>1, <1>2, <1>3
<1>5. DOMAIN Picked(list, at) = 1..Cardinality(at)
  BY <1>2
<1>6. Len(Picked(list, at)) = Cardinality(at)
  BY <1>1, <1>4, <1>5
<1> DEFINE p == Picked(list, at)
<1>7. p = [k \in 1..Cardinality(at) |-> list[o[k]]] /\ DOMAIN p = 1..Cardinality(at)
  BY <1>2
<1> HIDE DEF p
<1>8. /\ \A i \in at : \E k \in DOMAIN p : p[k] = list[i]
      /\ \A k \in DOMAIN p : \E i \in at : p[k] = list[i]
  BY <1>2, <1>7
<1> QED
  BY <1>1, <1>4, <1>5, <1>6, <1>8 DEF p

\* The first entry picked is the one at the first of the positions.
LEMMA PickedFirst ==
  ASSUME NEW X, NEW list \in Seq(X), NEW at \in SUBSET DOMAIN list, NEW i \in at,
         \A j \in at : i <= j
  PROVE  Picked(list, at)[1] = list[i]
<1>1. IsFiniteSet(at) /\ at \in SUBSET Int
  BY PickedSeq
<1>2. PICK o \in [1..Cardinality(at) -> at] :
        /\ Picked(list, at) = [k \in 1..Cardinality(at) |-> list[o[k]]]
        /\ \A j \in at : \E k \in 1..Cardinality(at) : o[k] = j
        /\ \A j, k \in 1..Cardinality(at) : j < k => o[j] < o[k]
  BY <1>1, PickedIs
<1>3. PICK k \in 1..Cardinality(at) : o[k] = i
  BY <1>2
<1>4. Cardinality(at) \in Nat
  BY <1>1, FS_CardinalityType
<1>5. k = 1
  BY <1>1, <1>2, <1>3, <1>4
<1> QED
  BY <1>2, <1>3, <1>5

\* All positions give the list.
LEMMA PickedAll ==
  ASSUME NEW X, NEW list \in Seq(X)
  PROVE  Picked(list, DOMAIN list) = list
<1>1. Len(list) \in Nat /\ DOMAIN list = 1..Len(list)
  OBVIOUS
<1>2. Ascending(DOMAIN list) = [k \in 1..Len(list) |-> k]
  BY <1>1, AscendingNumbers
<1> QED
  BY <1>1, <1>2 DEF Picked

LEMMA PickedNone ==
  ASSUME NEW list
  PROVE  Picked(list, {}) = <<>>
BY FS_EmptySet DEF Picked, Ascending

(***************************************************************************)
(* Totals                                                                  *)
(***************************************************************************)

Any(s) == CHOOSE x \in s : TRUE
Plus(a, b) == a + b

\* The totals of all subsets, as the library computes them.
PartTotals(f, S) ==
  CHOOSE g : g = [s \in SUBSET S |-> IF s = {} THEN 0 ELSE f[Any(s)] + g[s \ {Any(s)}]]

LEMMA TotalIsChosen ==
  ASSUME NEW f, NEW S
  PROVE  Total(f, S) = PartTotals(f, S)[S]
BY DEF Total, PartTotals, FoldFunctionOnSet, MapThenFoldSet, Any

LEMMA TotalsAt ==
  ASSUME NEW f, NEW S, IsFiniteSet(S)
  PROVE  \A s \in SUBSET S :
           /\ s = {} => PartTotals(f, S)[s] = 0
           /\ s # {} => PartTotals(f, S)[s] = f[Any(s)] + PartTotals(f, S)[s \ {Any(s)}]
<1> DEFINE Small(n) == {s \in SUBSET S : Cardinality(s) <= n}
           Good(g, T) == g = [s \in T |-> IF s = {} THEN 0 ELSE f[Any(s)] + g[s \ {Any(s)}]]
           N == {n \in Nat : \E g : Good(g, Small(n))}
<1>1. \A s \in SUBSET S : IsFiniteSet(s) /\ Cardinality(s) \in Nat
  BY FS_Subset, FS_CardinalityType
<1>2. \A s \in SUBSET S : s # {} => /\ Any(s) \in s
                                    /\ Cardinality(s \ {Any(s)}) = Cardinality(s) - 1
  BY <1>1, FS_RemoveElement DEF Any
<1>3. 0 \in N
  <2>1. Small(0) = {{}}
    BY <1>1, FS_EmptySet
  <2>2. Good([s \in {{}} |-> 0], {{}})
    OBVIOUS
  <2> QED
    BY <2>1, <2>2
<1>4. ASSUME NEW n \in N \cap Nat PROVE n + 1 \in N
  <2>1. PICK g : Good(g, Small(n))
    OBVIOUS
  <2> DEFINE h == [s \in Small(n + 1) |-> IF s = {} THEN 0 ELSE f[Any(s)] + g[s \ {Any(s)}]]
  <2>2. ASSUME NEW s \in Small(n + 1), s # {} PROVE h[s \ {Any(s)}] = g[s \ {Any(s)}]
    <3>1. s \ {Any(s)} \in Small(n) /\ s \ {Any(s)} \in Small(n + 1)
      BY <1>1, <1>2, <2>2
    <3> QED
      BY <2>1, <3>1
  <2>3. Good(h, Small(n + 1))
    BY <2>2
  <2> HIDE DEF h, Good, Small
  <2> QED
    BY <2>3
<1>5. Nat \subseteq N
  BY <1>3, <1>4, Induction
<1>6. PICK g : Good(g, Small(Cardinality(S)))
  BY <1>1, <1>5
<1>7. Small(Cardinality(S)) = SUBSET S
  BY FS_Subset
<1>8. Good(g, SUBSET S)
  BY <1>6, <1>7
<1> DEFINE t == PartTotals(f, S)
<1>9. Good(t, SUBSET S)
  BY <1>8 DEF PartTotals
<1> HIDE DEF t
<1>10. \A s \in SUBSET S : /\ s = {} => t[s] = 0
                           /\ s # {} => t[s] = f[Any(s)] + t[s \ {Any(s)}]
  BY <1>9
<1> QED
  BY <1>10 DEF t

LEMMA TotalOfNone ==
  ASSUME NEW f, NEW S, IsFiniteSet(S)
  PROVE  PartTotals(f, S)[{}] = 0
BY TotalsAt

LEMMA TotalOfSome ==
  ASSUME NEW f, NEW S, IsFiniteSet(S), NEW s \in SUBSET S, s # {}
  PROVE  PartTotals(f, S)[s] = Plus(f[Any(s)], PartTotals(f, S)[s \ {Any(s)}])
BY TotalsAt DEF Plus

\* The total of a part is the one found on the way to that of the whole.
LEMMA TotalOfPart ==
  ASSUME NEW f, NEW S, IsFiniteSet(S), NEW W \in SUBSET S
  PROVE  PartTotals(f, S)[W] = Total(f, W)
<1> DEFINE N == {n \in Nat : \A s \in SUBSET S, U \in SUBSET S :
                    s \subseteq U /\ Cardinality(s) = n => PartTotals(f, U)[s] = PartTotals(f, S)[s]}
<1>1. \A s \in SUBSET S : IsFiniteSet(s) /\ Cardinality(s) \in Nat
  BY FS_Subset, FS_CardinalityType
<1>2. ASSUME NEW U \in SUBSET S PROVE PartTotals(f, U)[{}] = 0
  BY <1>1, TotalOfNone
<1>a. ASSUME NEW U \in SUBSET S, NEW s \in SUBSET U, s # {}
      PROVE  PartTotals(f, U)[s] = Plus(f[Any(s)], PartTotals(f, U)[s \ {Any(s)}])
  <2>1. IsFiniteSet(U)
    BY <1>1
  <2> QED
    BY <1>a, <2>1, TotalOfSome
<1>3. 0 \in N
  <2>1. ASSUME NEW s \in SUBSET S, Cardinality(s) = 0 PROVE s = {}
    BY <1>1, <2>1, FS_EmptySet
  <2> QED
    BY <1>2, <2>1
<1>4. ASSUME NEW n \in N \cap Nat PROVE n + 1 \in N
  <2>1. SUFFICES ASSUME NEW s \in SUBSET S, NEW U \in SUBSET S, s \subseteq U,
                        Cardinality(s) = n + 1
                 PROVE  PartTotals(f, U)[s] = PartTotals(f, S)[s]
    OBVIOUS
  <2>2. s # {} /\ Any(s) \in s
    <3>1. n + 1 # 0
      OBVIOUS
    <3>2. s # {}
      BY ONLY <2>1, <3>1, FS_EmptySet
    <3>3. \E x : x \in s
      BY ONLY <3>2
    <3> QED
      BY ONLY <3>2, <3>3, Zenon DEF Any
  <2>3. Cardinality(s \ {Any(s)}) = n
    <3>1. Cardinality(s \ {Any(s)}) = Cardinality(s) - 1
      BY <1>1, <2>2, FS_RemoveElement
    <3> QED
      BY <2>1, <3>1
  <2>4. PartTotals(f, U)[s \ {Any(s)}] = PartTotals(f, S)[s \ {Any(s)}]
    <3>1. s \ {Any(s)} \in SUBSET S /\ s \ {Any(s)} \subseteq U
      BY <2>1
    <3> QED
      BY <2>3, <3>1
  <2>5. s \in SUBSET U /\ S \in SUBSET S
    BY <2>1
  <2>6. PartTotals(f, U)[s] = Plus(f[Any(s)], PartTotals(f, U)[s \ {Any(s)}])
    BY <1>a, <2>2, <2>5
  <2>7. PartTotals(f, S)[s] = Plus(f[Any(s)], PartTotals(f, S)[s \ {Any(s)}])
    BY <1>a, <2>2, <2>5
  <2> QED
    BY <2>4, <2>6, <2>7
<1>5. Nat \subseteq N
  BY <1>3, <1>4, Induction
<1>6. PartTotals(f, W)[W] = PartTotals(f, S)[W]
  BY <1>1, <1>5
<1> QED
  BY <1>6, TotalIsChosen

LEMMA TotalEmpty ==
  ASSUME NEW f
  PROVE  Total(f, {}) = 0
<1>1. PartTotals(f, {})[{}] = 0
  BY FS_EmptySet, TotalsAt
<1> QED
  BY <1>1, TotalIsChosen

LEMMA TotalOfAny ==
  ASSUME NEW f, NEW S, IsFiniteSet(S), S # {}
  PROVE  Total(f, S) = f[Any(S)] + Total(f, S \ {Any(S)})
<1>1. PartTotals(f, S)[S] = f[Any(S)] + PartTotals(f, S)[S \ {Any(S)}]
  BY TotalsAt
<1> QED
  BY <1>1, TotalOfPart, TotalIsChosen

LEMMA TotalInt ==
  ASSUME NEW f, NEW S, IsFiniteSet(S), \A x \in S : f[x] \in Int
  PROVE  Total(f, S) \in Int
<1> DEFINE N == {n \in Nat : \A s \in SUBSET S : Cardinality(s) = n => Total(f, s) \in Int}
<1>1. \A s \in SUBSET S : IsFiniteSet(s) /\ Cardinality(s) \in Nat
  BY FS_Subset, FS_CardinalityType
<1>2. 0 \in N
  <2>1. ASSUME NEW s \in SUBSET S, Cardinality(s) = 0 PROVE s = {}
    BY <1>1, <2>1, FS_EmptySet
  <2> QED
    BY <2>1, TotalEmpty
<1>3. ASSUME NEW n \in N \cap Nat PROVE n + 1 \in N
  <2>1. SUFFICES ASSUME NEW s \in SUBSET S, Cardinality(s) = n + 1 PROVE Total(f, s) \in Int
    OBVIOUS
  <2>2. s # {} /\ Any(s) \in s
    <3>1. n + 1 # 0
      OBVIOUS
    <3>2. s # {}
      BY ONLY <2>1, <3>1, FS_EmptySet
    <3>3. \E x : x \in s
      BY ONLY <3>2
    <3> QED
      BY ONLY <3>2, <3>3, Zenon DEF Any
  <2>3. Cardinality(s \ {Any(s)}) = n
    <3>1. Cardinality(s \ {Any(s)}) = Cardinality(s) - 1
      BY <1>1, <2>2, FS_RemoveElement
    <3> QED
      BY <2>1, <3>1
  <2>4. Total(f, s \ {Any(s)}) \in Int
    BY <2>3, s \ {Any(s)} \in SUBSET S
  <2>5. Total(f, s) = f[Any(s)] + Total(f, s \ {Any(s)})
    BY <1>1, <2>2, TotalOfAny
  <2>6. f[Any(s)] \in Int
    BY <2>2
  <2> QED
    BY <2>4, <2>5, <2>6
<1>4. Nat \subseteq N
  BY <1>2, <1>3, Induction
<1> QED
  BY <1>1, <1>4

\* It does not matter in which order the values are added.
LEMMA TotalStep ==
  ASSUME NEW f, NEW S, IsFiniteSet(S), \A x \in S : f[x] \in Int, NEW x \in S
  PROVE  Total(f, S) = f[x] + Total(f, S \ {x})
<1> DEFINE N == {n \in Nat : \A s \in SUBSET S : Cardinality(s) = n =>
                    \A y \in s : Total(f, s) = f[y] + Total(f, s \ {y})}
<1>1. \A s \in SUBSET S : IsFiniteSet(s) /\ Cardinality(s) \in Nat
  BY FS_Subset, FS_CardinalityType
<1>2. 0 \in N
  <2>1. ASSUME NEW s \in SUBSET S, Cardinality(s) = 0 PROVE s = {}
    BY <1>1, <2>1, FS_EmptySet
  <2> QED
    BY <2>1
<1>3. ASSUME NEW n \in N \cap Nat PROVE n + 1 \in N
  <2>1. SUFFICES ASSUME NEW s \in SUBSET S, Cardinality(s) = n + 1, NEW y \in s
                 PROVE  Total(f, s) = f[y] + Total(f, s \ {y})
    OBVIOUS
  <2> DEFINE a == Any(s)
  <2>2. a \in s
    BY DEF Any
  <2>3. Total(f, s) = f[a] + Total(f, s \ {a})
    BY <1>1, TotalOfAny
  <2> HIDE DEF a
  <2>4. CASE y = a
    BY <2>3, <2>4
  <2>5. CASE y # a
    <3>1. \A z \in s : s \ {z} \in SUBSET S /\ Cardinality(s \ {z}) = n
      <4>1. \A z \in s : Cardinality(s \ {z}) = Cardinality(s) - 1
        BY <1>1, FS_RemoveElement
      <4> QED
        BY <2>1, <4>1
    <3>2. Total(f, s \ {a}) = f[y] + Total(f, (s \ {a}) \ {y})
      BY <2>2, <2>5, <3>1
    <3>3. Total(f, s \ {y}) = f[a] + Total(f, (s \ {y}) \ {a})
      BY <2>2, <2>5, <3>1
    <3>4. (s \ {a}) \ {y} = (s \ {y}) \ {a}
      OBVIOUS
    <3>5. Total(f, (s \ {y}) \ {a}) \in Int
      BY <1>1, (s \ {y}) \ {a} \in SUBSET S, TotalInt
    <3>6. f[a] \in Int /\ f[y] \in Int
      BY <2>2
    <3> DEFINE r == Total(f, (s \ {y}) \ {a})
    <3>7. Total(f, s) = f[a] + (f[y] + r) /\ Total(f, s \ {y}) = f[a] + r /\ r \in Int
      BY <2>3, <3>2, <3>3, <3>4, <3>5
    <3> HIDE DEF r
    <3> QED
      BY <3>6, <3>7
  <2> QED
    BY <2>4, <2>5
<1>4. Nat \subseteq N
  BY <1>2, <1>3, Induction
<1> QED
  BY <1>1, <1>4

LEMMA TotalAdd ==
  ASSUME NEW f, NEW S, IsFiniteSet(S), \A y \in S : f[y] \in Int, NEW x, x \notin S,
         f[x] \in Int
  PROVE  Total(f, S \cup {x}) = f[x] + Total(f, S)
<1>1. IsFiniteSet(S \cup {x}) /\ (S \cup {x}) \ {x} = S
  BY FS_AddElement
<1> QED
  BY <1>1, TotalStep

\* Totals over two sets whose elements are paired one to one.
LEMMA TotalAlong ==
  ASSUME NEW S, IsFiniteSet(S), NEW C, NEW f, NEW g,
         \E h : /\ \A x, y \in S : h[x] = h[y] => x = y
                /\ \A x \in S : g[x] \in Int /\ f[h[x]] = g[x]
                /\ \A x \in S : h[x] \in C
                /\ \A y \in C : \E x \in S : h[x] = y
  PROVE  Total(f, C) = Total(g, S)
<1>0. PICK h : /\ \A x, y \in S : h[x] = h[y] => x = y
               /\ \A x \in S : g[x] \in Int /\ f[h[x]] = g[x]
               /\ \A x \in S : h[x] \in C
               /\ \A y \in C : \E x \in S : h[x] = y
  OBVIOUS
<1> DEFINE Image(T) == {h[x] : x \in T}
           P == {T \in SUBSET S : IsFiniteSet(Image(T)) /\ Total(f, Image(T)) = Total(g, T)}
<1>1. {} \in P
  BY TotalEmpty, FS_EmptySet, Image({}) = {}
<1>2. ASSUME NEW T \in SUBSET S, T \in P, NEW x \in S \ T PROVE T \cup {x} \in P
  <2>1. Image(T \cup {x}) = Image(T) \cup {h[x]} /\ h[x] \notin Image(T)
    BY <1>0
  <2>2. IsFiniteSet(T) /\ IsFiniteSet(Image(T)) /\ Total(f, Image(T)) = Total(g, T)
    BY <1>2, FS_Subset
  <2>3. IsFiniteSet(Image(T \cup {x}))
    <3>1. IsFiniteSet(Image(T) \cup {h[x]})
      BY <2>2, FS_AddElement
    <3> HIDE DEF Image
    <3> QED
      BY <2>1, <3>1
  <2>4. \A y \in Image(T) : f[y] \in Int
    BY <1>0
  <2>5. Total(g, T \cup {x}) = g[x] + Total(g, T)
    BY <2>2, TotalAdd
  <2>6. f[h[x]] \in Int /\ f[h[x]] = g[x]
    BY <1>0
  <2> HIDE DEF Image
  <2>7. Total(f, Image(T) \cup {h[x]}) = f[h[x]] + Total(f, Image(T))
    BY <2>1, <2>2, <2>4, <2>6, TotalAdd
  <2> QED
    BY <2>1, <2>2, <2>3, <2>5, <2>6, <2>7
<1> HIDE DEF P
<1>3. SUBSET S \subseteq P
  BY <1>1, <1>2, SetInduction
<1>4. Total(f, Image(S)) = Total(g, S)
  BY <1>3 DEF P
<1>5. Image(S) = C
  BY <1>0
<1> QED
  BY <1>4, <1>5

\* The total of a set is that of its image under a renaming of the members.
LEMMA TotalRenamed ==
  ASSUME NEW S, IsFiniteSet(S), NEW h, \A x, y \in S : h[x] = h[y] => x = y,
         NEW f, NEW g, \A x \in S : f[x] \in Int /\ g[h[x]] = f[x]
  PROVE  Total(g, {h[x] : x \in S}) = Total(f, S)
<1> DEFINE C == {h[x] : x \in S}
<1>1. \A x \in S : h[x] \in C
  OBVIOUS
<1>2. \A y \in C : \E x \in S : h[x] = y
  OBVIOUS
<1> HIDE DEF C
<1>3. \E k : /\ \A x, y \in S : k[x] = k[y] => x = y
             /\ \A x \in S : f[x] \in Int /\ g[k[x]] = f[x]
             /\ \A x \in S : k[x] \in C
             /\ \A y \in C : \E x \in S : k[x] = y
  <2> WITNESS h
  <2> QED
    BY <1>1, <1>2
<1>4. IsFiniteSet(S)
  OBVIOUS
<1>5. Total(g, C) = Total(f, S)
  BY ONLY <1>3, <1>4, TotalAlong
<1> QED
  BY <1>5 DEF C

LEMMA TotalSame ==
  ASSUME NEW S, IsFiniteSet(S), NEW f, NEW g, \A x \in S : f[x] \in Int /\ g[x] = f[x]
  PROVE  Total(g, S) = Total(f, S)
<1> DEFINE h == [x \in S |-> x]
<1>1. {h[x] : x \in S} = S /\ \A x \in S : h[x] = x
  OBVIOUS
<1> HIDE DEF h
<1>2. \A x, y \in S : h[x] = h[y] => x = y
  BY <1>1
<1>3. \A x \in S : f[x] \in Int /\ g[h[x]] = f[x]
  BY <1>1
<1> QED
  BY <1>1, <1>2, <1>3, TotalRenamed

\* A list none of whose entries has an equal one before it has no entry twice.
LEMMA NoneBefore ==
  ASSUME NEW X, NEW list \in Seq(X),
         \A k \in DOMAIN list : \A m \in 1..(k - 1) : list[m] # list[k]
  PROVE  \A i, k \in DOMAIN list : list[i] = list[k] => i = k
<1>1. \A i \in DOMAIN list : i \in Nat /\ i >= 1
  BY Entry
<1> TAKE i, k \in DOMAIN list
<1>2. HAVE list[i] = list[k]
<1>3. i \in Nat /\ i >= 1 /\ k \in Nat /\ k >= 1
  BY <1>1
<1>4. (i < k => i \in 1..(k - 1)) /\ (k < i => k \in 1..(i - 1))
  BY <1>3
<1>5. ~(i < k) /\ ~(k < i)
  BY <1>2, <1>4
<1> QED
  BY <1>3, <1>5

\* Numbers from nought that are more than nought.
LEMMA FromOne ==
  ASSUME NEW max \in Nat, NEW n \in 0..max, n > 0
  PROVE  n \in 1..max
OBVIOUS

\* A list of the same length made place by place.
LEMMA SameLength ==
  ASSUME NEW X, NEW list \in Seq(X), NEW Y, NEW f \in [DOMAIN list -> Y]
  PROVE  f \in Seq(Y)
<1>1. DOMAIN list = 1..Len(list) /\ Len(list) \in Nat
  OBVIOUS
<1> QED
  BY <1>1

\* The places before a place are places.
LEMMA Before ==
  ASSUME NEW X, NEW list \in Seq(X), NEW k \in DOMAIN list, NEW m \in 1..(k - 1)
  PROVE  m \in DOMAIN list
OBVIOUS

\* Finitely many whole numbers have a smallest one.
LEMMA LeastValue ==
  ASSUME NEW S, IsFiniteSet(S), S # {}, NEW f, \A x \in S : f[x] \in Int
  PROVE  \E m \in S : \A n \in S : f[m] <= f[n]
<1> DEFINE P == {T \in SUBSET S : T # {} => \E m \in T : \A n \in T : f[m] <= f[n]}
<1>1. {} \in P
  OBVIOUS
<1>2. \A T \in SUBSET S : T \in P => \A x \in S \ T : T \cup {x} \in P
  <2> SUFFICES ASSUME NEW T \in SUBSET S, T \in P, NEW x \in S \ T
               PROVE  T \cup {x} \in P
    OBVIOUS
  <2>1. T = {} => \E m \in T \cup {x} : \A n \in T \cup {x} : f[m] <= f[n]
    OBVIOUS
  <2>2. ASSUME T # {} PROVE \E m \in T \cup {x} : \A n \in T \cup {x} : f[m] <= f[n]
    <3>1. PICK m \in T : \A n \in T : f[m] <= f[n]
      BY <2>2
    <3>2. CASE f[m] <= f[x]
      BY <3>1, <3>2
    <3>3. CASE ~ (f[m] <= f[x])
      <4>1. \A n \in T : f[x] <= f[n]
        BY <3>1, <3>3
      <4>2. f[x] <= f[x]
        OBVIOUS
      <4> QED
        BY <4>1, <4>2
    <3> QED
      BY <3>2, <3>3
  <2> QED
    BY <2>1, <2>2
<1> HIDE DEF P
<1>3. SUBSET S \subseteq P
  BY <1>1, <1>2, SetInduction
<1> QED
  BY <1>3 DEF P

\* What is picked, as a set.
LEMMA PickedRange ==
  ASSUME NEW X, NEW list \in Seq(X), NEW at \in SUBSET DOMAIN list
  PROVE  Range(Picked(list, at)) = {list[i] : i \in at}
BY PickedSeq DEF Range

\* A list with one more entry.
LEMMA AddedAt ==
  ASSUME NEW X, NEW list \in Seq(X), NEW x \in X
  PROVE  /\ list \o <<x>> \in Seq(X)
         /\ DOMAIN (list \o <<x>>) = DOMAIN list \cup {Len(list) + 1}
         /\ \A i \in DOMAIN list : (list \o <<x>>)[i] = list[i]
         /\ (list \o <<x>>)[Len(list) + 1] = x /\ Len(list) + 1 \notin DOMAIN list
<1> DEFINE n == Len(list)
           more == list \o <<x>>
<1>1. n \in Nat /\ DOMAIN list = 1..n
  OBVIOUS
<1>2. more \in Seq(X) /\ Len(more) = n + 1
  OBVIOUS
<1>3. DOMAIN more = 1..(n + 1)
  BY <1>2
<1>4. \A i \in 1..n : more[i] = list[i]
  OBVIOUS
<1>5. more[n + 1] = x
  OBVIOUS
<1> HIDE DEF more, n
<1>6. 1..(n + 1) = (1..n) \cup {n + 1} /\ n + 1 \notin 1..n
  BY <1>1
<1> QED
  BY <1>1, <1>2, <1>3, <1>4, <1>5, <1>6 DEF more, n

\* The member of a rank among the others.
LEMMA AscendingAt ==
  ASSUME NEW S \in SUBSET Int, IsFiniteSet(S), NEW x \in S, NEW k \in 1..Cardinality(S),
         Cardinality({y \in S : y < x}) = k - 1
  PROVE  Ascending(S)[k] = x
<1> DEFINE c == CHOOSE z \in S : Cardinality({y \in S : y < z}) = k - 1
           less == [z \in S |-> {y \in S : y < z}]
<1>1. c \in S /\ Cardinality({y \in S : y < c}) = k - 1
  OBVIOUS
<1>2. Ascending(S)[k] = c
  BY DEF Ascending
<1>3. \A z \in S : IsFiniteSet(less[z]) /\ Cardinality(less[z]) \in Nat /\ less[z] \in SUBSET S
  <2> TAKE z \in S
  <2>1. less[z] \in SUBSET S
    OBVIOUS
  <2> HIDE DEF less
  <2> QED
    BY <2>1, FS_Subset, FS_CardinalityType
<1>4. Cardinality(less[c]) = k - 1 /\ Cardinality(less[x]) = k - 1
  BY <1>1
<1>5. \A y, z \in S : y < z => Cardinality(less[y]) < Cardinality(less[z])
  <2> SUFFICES ASSUME NEW y \in S, NEW z \in S, y < z
               PROVE  Cardinality(less[y]) < Cardinality(less[z])
    OBVIOUS
  <2>0. less[y] = {w \in S : w < y} /\ less[z] = {w \in S : w < z}
    OBVIOUS
  <2>a. \A w \in S : w < y => w < z
    OBVIOUS
  <2>b. y \in S /\ y < z /\ ~(y < y)
    OBVIOUS
  <2>1. less[y] \cup {y} \in SUBSET less[z] /\ y \notin less[y]
    BY <2>0, <2>a, <2>b, Zenon
  <2> HIDE DEF less
  <2>2. Cardinality(less[y] \cup {y}) = Cardinality(less[y]) + 1 /\ IsFiniteSet(less[y] \cup {y})
    BY <1>3, <2>1, FS_AddElement
  <2>3. Cardinality(less[y] \cup {y}) <= Cardinality(less[z])
    BY <1>3, <2>1, FS_Subset
  <2> QED
    BY <1>3, <2>2, <2>3
<1> HIDE DEF c, less
<1>6. ~(c < x) /\ ~(x < c)
  BY <1>1, <1>3, <1>4, <1>5
<1>7. c \in Int /\ x \in Int
  BY <1>1
<1> QED
  BY <1>2, <1>6, <1>7

\* As many are smaller as come before.
LEMMA AscendingRank ==
  ASSUME NEW S \in SUBSET Int, IsFiniteSet(S), NEW k \in 1..Cardinality(S)
  PROVE  Cardinality({y \in S : y < Ascending(S)[k]}) = k - 1
<1> DEFINE n == Cardinality(S)
           o == Ascending(S)
           U == {y \in S : y < o[k]}
<1>1. n \in Nat
  BY FS_CardinalityType
<1>2. /\ o \in [1..n -> S]
      /\ \A x \in S : \E j \in 1..n : o[j] = x
      /\ \A i, j \in 1..n : i < j => o[i] < o[j]
  BY AscendingIs
<1> HIDE DEF o, n
<1>3. \A i, j \in 1..n : (o[i] < o[j] <=> i < j) /\ (o[i] = o[j] => i = j)
  <2> TAKE i, j \in 1..n
  <2>1. o[i] \in Int /\ o[j] \in Int
    BY <1>2
  <2>2. i < j \/ i = j \/ j < i
    BY <1>1
  <2> QED
    BY <1>2, <2>1, <2>2
<1>4. k \in 1..n /\ 1..(k - 1) \in SUBSET (1..n)
  BY <1>1 DEF n
<1>5. \A j \in 1..n : j < k <=> j \in 1..(k - 1)
  BY <1>1, <1>4
<1>6. U = {o[j] : j \in 1..(k - 1)}
  <2>1. ASSUME NEW y \in U PROVE y \in {o[j] : j \in 1..(k - 1)}
    <3>1. PICK j \in 1..n : o[j] = y
      BY <1>2
    <3>2. j < k
      BY <1>3, <1>4, <3>1
    <3> QED
      BY <1>5, <3>1, <3>2
  <2>2. ASSUME NEW j \in 1..(k - 1) PROVE o[j] \in U
    BY <1>2, <1>3, <1>4, <1>5
  <2> HIDE DEF U
  <2> QED
    BY <2>1, <2>2
<1>7. IsFiniteSet(1..(k - 1)) /\ Cardinality(1..(k - 1)) = k - 1
  BY <1>1, <1>4, FS_Interval
<1>8. Cardinality({o[j] : j \in 1..(k - 1)}) = Cardinality(1..(k - 1))
  <2>1. \A i, j \in 1..(k - 1) : o[i] = o[j] => i = j
    BY <1>3, <1>4
  <2> DEFINE K == 1..(k - 1)
  <2>2. IsFiniteSet(K) /\ \A i, j \in K : o[i] = o[j] => i = j
    BY <1>7, <2>1
  <2> HIDE DEF K
  <2>3. Cardinality({o[j] : j \in K}) = Cardinality(K)
    BY <2>2, Values
  <2> QED
    BY <2>3 DEF K
<1> QED
  BY <1>6, <1>7, <1>8 DEF o

\* Entries that are equal at the positions picked.
LEMMA PickedSame ==
  ASSUME NEW list, NEW other, NEW at \in SUBSET Int, IsFiniteSet(at),
         \A i \in at : other[i] = list[i]
  PROVE  Picked(other, at) = Picked(list, at)
<1> DEFINE o == Ascending(at)
<1>1. o \in [1..Cardinality(at) -> at]
  BY AscendingIs
<1>2. Picked(other, at) = [k \in DOMAIN o |-> other[o[k]]]
      /\ Picked(list, at) = [k \in DOMAIN o |-> list[o[k]]]
  BY DEF Picked
<1> HIDE DEF o
<1>3. \A k \in DOMAIN o : other[o[k]] = list[o[k]]
  BY <1>1
<1> QED
  BY <1>2, <1>3

\* Picking among what was picked is picking once.
LEMMA PickedTwice ==
  ASSUME NEW list, NEW at \in SUBSET Int, IsFiniteSet(at),
         NEW B \in SUBSET DOMAIN Picked(list, at), NEW C \in SUBSET at,
         \A k \in DOMAIN Picked(list, at), i \in at :
            Picked(list, at)[k] = list[i] => (k \in B <=> i \in C)
  PROVE  Picked(Picked(list, at), B) = Picked(list, C)
<1> DEFINE once == Picked(list, at)
           n == Cardinality(at)
<1>0. /\ B \in SUBSET DOMAIN once /\ C \in SUBSET at
      /\ \A k \in DOMAIN once, i \in at : once[k] = list[i] => (k \in B <=> i \in C)
  OBVIOUS
<1>1. IsFiniteSet(at) /\ at \in SUBSET Int /\ DOMAIN once = 1..n /\ n \in Nat
  BY PickedIs, FS_CardinalityType
<1>a. at \in SUBSET Int
  BY <1>1
<1>2. PICK o \in [1..n -> at] :
        /\ once = [k \in 1..n |-> list[o[k]]]
        /\ \A i \in at : \E k \in 1..n : o[k] = i
        /\ \A j, k \in 1..n : j < k => o[j] < o[k]
  BY <1>1, <1>a, PickedIs
<1>3. \A k \in 1..n : once[k] = list[o[k]]
  BY <1>2
<1>4. \A j, k \in 1..n : o[j] < o[k] <=> j < k
  <2> TAKE j, k \in 1..n
  <2>1. o[j] \in Int /\ o[k] \in Int
    BY <1>a, <1>2
  <2>2. j < k \/ j = k \/ k < j
    BY <1>1
  <2> QED
    BY <1>2, <2>1, <2>2
<1>5. \A j, k \in 1..n : o[j] = o[k] => j = k
  <2> TAKE j, k \in 1..n
  <2>1. o[j] \in Int /\ o[k] \in Int
    BY <1>a, <1>2
  <2>2. j < k \/ j = k \/ k < j
    BY <1>1
  <2> QED
    BY <1>2, <2>1, <2>2
<1>6. B \in SUBSET (1..n) /\ B \in SUBSET Int /\ C \in SUBSET at /\ C \in SUBSET Int
  BY <1>0, <1>1
<1>7. C = {o[k] : k \in B}
  <2> HIDE DEF once
  <2>1. ASSUME NEW i \in C PROVE i \in {o[k] : k \in B}
    <3>1. PICK k \in 1..n : o[k] = i
      BY <1>0, <1>2
    <3>2. k \in B
      BY <1>0, <1>1, <1>3, <3>1
    <3> QED
      BY <3>1, <3>2
  <2>2. ASSUME NEW k \in B PROVE o[k] \in C
    BY <1>0, <1>1, <1>2, <1>3, <1>6
  <2> QED
    BY <2>1, <2>2
<1> HIDE DEF once
<1>8. IsFiniteSet(B) /\ IsFiniteSet(C) /\ Cardinality(B) \in Nat
  <2>1. IsFiniteSet(1..n)
    BY <1>1, FS_Interval
  <2> HIDE DEF n
  <2>2. IsFiniteSet(B) /\ IsFiniteSet(C)
    BY <1>1, <1>6, <2>1, FS_Subset
  <2> QED
    BY <2>2, FS_CardinalityType
<1>9. Cardinality(C) = Cardinality(B)
  <2>1. \A j, k \in B : o[j] = o[k] => j = k
    BY <1>5, <1>6
  <2>2. Cardinality({o[k] : k \in B}) = Cardinality(B)
    BY ONLY <1>8, <2>1, SameNumber, Zenon
  <2> QED
    BY <1>7, <2>2
<1> DEFINE q == Ascending(B)
           m == Cardinality(B)
<1>10. q \in [1..m -> B]
  BY <1>6, <1>8, AscendingIs
<1>11. \A k \in 1..m : Cardinality({j \in B : j < q[k]}) = k - 1
  BY <1>6, <1>8, AscendingRank
<1> HIDE DEF q
<1>12. \A k \in 1..m : Ascending(C)[k] = o[q[k]]
  <2> TAKE k \in 1..m
  <2>1. q[k] \in B /\ q[k] \in 1..n /\ o[q[k]] \in C
    BY <1>6, <1>7, <1>10
  <2> DEFINE U == {j \in B : j < q[k]}
             V == {y \in C : y < o[q[k]]}
  <2>2. U \in SUBSET B /\ \A j \in U : j \in 1..n
    BY <1>6
  <2>3. V = {o[j] : j \in U}
    <3>1. \A j \in B : o[j] < o[q[k]] <=> j < q[k]
      BY <1>4, <1>6, <2>1
    <3> QED
      BY <1>7, <3>1
  <2>4. Cardinality(U) = k - 1
    BY <1>11
  <2> HIDE DEF U, V
  <2>5. IsFiniteSet(U)
    BY <1>8, <2>2, FS_Subset
  <2>6. Cardinality(V) = Cardinality(U)
    <3>1. \A i, j \in U : o[i] = o[j] => i = j
      BY <1>5, <2>2
    <3>2. Cardinality({o[j] : j \in U}) = Cardinality(U)
      BY <2>5, <3>1, SameNumber, Zenon
    <3> QED
      BY <2>3, <3>2
  <2>7. Cardinality({y \in C : y < o[q[k]]}) = k - 1
    BY <2>4, <2>6 DEF V
  <2> QED
    BY <1>6, <1>8, <1>9, <2>1, <2>7, AscendingAt
<1>13. Ascending(C) = [k \in 1..m |-> o[q[k]]]
  <2>1. Ascending(C) = [k \in 1..Cardinality(C) |-> Ascending(C)[k]]
    BY <1>6, <1>8, AscendingIs
  <2> HIDE DEF m
  <2>2. Ascending(C) = [k \in 1..m |-> Ascending(C)[k]]
    BY <1>9, <2>1 DEF m
  <2> QED
    BY <1>12, <2>2
<1>14. Picked(list, C) = [k \in 1..m |-> list[o[q[k]]]]
  <2>1. DOMAIN Ascending(C) = 1..m
    BY <1>13
  <2>2. Picked(list, C) = [k \in 1..m |-> list[Ascending(C)[k]]]
    BY <2>1 DEF Picked
  <2> HIDE DEF m
  <2> QED
    BY <1>12, <2>2
<1>15. Picked(once, B) = [k \in 1..m |-> once[q[k]]]
  BY <1>10 DEF Picked, q
<1>16. \A k \in 1..m : once[q[k]] = list[o[q[k]]]
  BY <1>3, <1>6, <1>10
<1>17. Picked(once, B) = Picked(list, C)
  BY <1>14, <1>15, <1>16
<1> QED
  BY <1>17 DEF once

\* Totals of what was picked.
LEMMA TotalPicked ==
  ASSUME NEW list, NEW at \in SUBSET Int, IsFiniteSet(at), NEW f, NEW g,
         \A i \in at : f[i] \in Int,
         \A k \in DOMAIN Picked(list, at), i \in at : Picked(list, at)[k] = list[i] => g[k] = f[i],
         NEW B \in SUBSET DOMAIN Picked(list, at), NEW C \in SUBSET at,
         \A k \in DOMAIN Picked(list, at), i \in at :
            Picked(list, at)[k] = list[i] => (k \in B <=> i \in C)
  PROVE  Total(g, B) = Total(f, C)
<1> DEFINE once == Picked(list, at)
           n == Cardinality(at)
<1>0. /\ B \in SUBSET DOMAIN once /\ C \in SUBSET at
      /\ \A k \in DOMAIN once, i \in at : once[k] = list[i] => (k \in B <=> i \in C)
  OBVIOUS
<1>1. IsFiniteSet(at) /\ at \in SUBSET Int /\ DOMAIN once = 1..n /\ n \in Nat
  BY PickedIs, FS_CardinalityType
<1>a. at \in SUBSET Int
  BY <1>1
<1>2. PICK o \in [1..n -> at] :
        /\ once = [k \in 1..n |-> list[o[k]]]
        /\ \A i \in at : \E k \in 1..n : o[k] = i
        /\ \A j, k \in 1..n : j < k => o[j] < o[k]
  BY ONLY <1>1, <1>a, PickedIs
<1>3. \A k \in 1..n : once[k] = list[o[k]]
  BY <1>2
<1>5. \A j, k \in 1..n : o[j] = o[k] => j = k
  <2> TAKE j, k \in 1..n
  <2>1. o[j] \in Int /\ o[k] \in Int
    BY <1>a, <1>2
  <2>2. j < k \/ j = k \/ k < j
    BY <1>1
  <2> QED
    BY <1>2, <2>1, <2>2
<1>6. B \in SUBSET (1..n)
  BY <1>0, <1>1
<1>7. C = {o[k] : k \in B}
  <2> HIDE DEF once
  <2>1. ASSUME NEW i \in C PROVE i \in {o[k] : k \in B}
    <3>1. PICK k \in 1..n : o[k] = i
      BY <1>0, <1>2
    <3>2. k \in B
      BY <1>0, <1>1, <1>3, <3>1
    <3> QED
      BY <3>1, <3>2
  <2>2. ASSUME NEW k \in B PROVE o[k] \in C
    BY <1>0, <1>1, <1>2, <1>3, <1>6
  <2> QED
    BY <2>1, <2>2
<1>8. \A k \in 1..n : g[k] = f[o[k]] /\ g[k] \in Int
  <2> TAKE k \in 1..n
  <2>1. o[k] \in at /\ Picked(list, at)[k] = list[o[k]] /\ k \in DOMAIN Picked(list, at)
    BY <1>1, <1>2, <1>3
  <2> QED
    BY <2>1
<1> HIDE DEF once
<1>9. IsFiniteSet(B)
  <2>1. IsFiniteSet(1..n)
    BY <1>1, FS_Interval
  <2> HIDE DEF n
  <2> QED
    BY <1>6, <2>1, FS_Subset
<1>10. /\ \A x, y \in B : o[x] = o[y] => x = y
       /\ \A x \in B : g[x] \in Int /\ f[o[x]] = g[x]
  BY <1>5, <1>6, <1>8
<1>11. Total(f, C) = Total(g, B)
  <2>1. \A x \in B : o[x] \in C
    BY <1>7
  <2>2. \A y \in C : \E x \in B : o[x] = y
    BY <1>7
  <2>3. \A x, y \in B : o[x] = o[y] => x = y
    BY <1>10
  <2>4. \A x \in B : g[x] \in Int /\ f[o[x]] = g[x]
    BY <1>10
  <2> HIDE DEF n
  <2>5. \E h : /\ \A x, y \in B : h[x] = h[y] => x = y
               /\ \A x \in B : g[x] \in Int /\ f[h[x]] = g[x]
               /\ \A x \in B : h[x] \in C
               /\ \A y \in C : \E x \in B : h[x] = y
    <3> WITNESS o
    <3> QED
      BY <2>1, <2>2, <2>3, <2>4
  <2>6. ASSUME NEW S, IsFiniteSet(S), NEW T,
               \E h : /\ \A x, y \in S : h[x] = h[y] => x = y
                      /\ \A x \in S : g[x] \in Int /\ f[h[x]] = g[x]
                      /\ \A x \in S : h[x] \in T
                      /\ \A y \in T : \E x \in S : h[x] = y
        PROVE  Total(f, T) = Total(g, S)
    BY ONLY <2>6, TotalAlong
  <2> QED
    BY ONLY <1>9, <2>5, <2>6
<1> QED
  BY <1>11 DEF once

LEMMA TotalPickedAll ==
  ASSUME NEW list, NEW at \in SUBSET Int, IsFiniteSet(at), NEW f, NEW g,
         \A i \in at : f[i] \in Int,
         \A k \in DOMAIN Picked(list, at), i \in at : Picked(list, at)[k] = list[i] => g[k] = f[i]
  PROVE  Total(g, DOMAIN Picked(list, at)) = Total(f, at)
BY TotalPicked

\* A total is at least that of less, and at least nothing.
LEMMA TotalAtLeast ==
  ASSUME NEW S, IsFiniteSet(S), NEW f, NEW g,
         \A x \in S : f[x] \in Int /\ g[x] \in Int /\ f[x] <= g[x]
  PROVE  Total(f, S) <= Total(g, S)
<1> DEFINE P == {T \in SUBSET S : Total(f, T) <= Total(g, T)}
<1>1. {} \in P
  BY TotalEmpty
<1>2. \A T \in SUBSET S : T \in P => \A x \in S \ T : T \cup {x} \in P
  <2> SUFFICES ASSUME NEW T \in SUBSET S, T \in P, NEW x \in S \ T
               PROVE  Total(f, T \cup {x}) <= Total(g, T \cup {x})
    OBVIOUS
  <2>1. IsFiniteSet(T)
    BY FS_Subset
  <2>2. /\ Total(f, T \cup {x}) = f[x] + Total(f, T)
        /\ Total(g, T \cup {x}) = g[x] + Total(g, T)
    BY <2>1, TotalAdd
  <2>3. Total(f, T) \in Int /\ Total(g, T) \in Int
    BY <2>1, TotalInt
  <2>4. f[x] \in Int /\ g[x] \in Int /\ f[x] <= g[x] /\ Total(f, T) <= Total(g, T)
    OBVIOUS
  <2> QED
    BY <2>2, <2>3, <2>4
<1> HIDE DEF P
<1>3. SUBSET S \subseteq P
  BY <1>1, <1>2, SetInduction
<1> QED
  BY <1>3 DEF P

LEMMA TotalNone ==
  ASSUME NEW S, IsFiniteSet(S), NEW f, \A x \in S : f[x] = 0
  PROVE  Total(f, S) = 0
<1> DEFINE P == {T \in SUBSET S : Total(f, T) = 0}
<1>1. {} \in P
  BY TotalEmpty
<1>2. \A T \in SUBSET S : T \in P => \A x \in S \ T : T \cup {x} \in P
  <2> SUFFICES ASSUME NEW T \in SUBSET S, T \in P, NEW x \in S \ T
               PROVE  Total(f, T \cup {x}) = 0
    OBVIOUS
  <2>1. IsFiniteSet(T)
    BY FS_Subset
  <2>2. Total(f, T \cup {x}) = f[x] + Total(f, T)
    BY <2>1, TotalAdd
  <2>3. f[x] = 0 /\ Total(f, T) = 0
    OBVIOUS
  <2> QED
    BY <2>2, <2>3
<1> HIDE DEF P
<1>3. SUBSET S \subseteq P
  BY <1>1, <1>2, SetInduction
<1> QED
  BY <1>3 DEF P

LEMMA TotalPositive ==
  ASSUME NEW S, IsFiniteSet(S), NEW f, \A x \in S : f[x] \in Int /\ f[x] >= 0
  PROVE  /\ Total(f, S) \in Nat
         /\ \A x \in S : f[x] <= Total(f, S)
<1> DEFINE none == [x \in S |-> 0]
<1>1. ASSUME NEW T \in SUBSET S PROVE Total(f, T) \in Nat
  <2>1. IsFiniteSet(T)
    BY FS_Subset
  <2>2. \A x \in T : none[x] \in Int /\ f[x] \in Int /\ none[x] <= f[x] /\ none[x] = 0
    OBVIOUS
  <2> HIDE DEF none
  <2>3. Total(none, T) = 0 /\ Total(none, T) <= Total(f, T) /\ Total(f, T) \in Int
    BY <2>1, <2>2, TotalNone, TotalAtLeast, TotalInt
  <2> QED
    BY <2>3
<1>2. ASSUME NEW x \in S PROVE f[x] <= Total(f, S)
  <2>1. Total(f, S) = f[x] + Total(f, S \ {x})
    BY TotalStep
  <2>2. Total(f, S \ {x}) \in Nat /\ f[x] \in Int
    BY <1>1
  <2> QED
    BY <2>1, <2>2
<1> QED
  BY <1>1, <1>2

\* The total of sums is the sum of the totals.
LEMMA TotalSum ==
  ASSUME NEW S, IsFiniteSet(S), NEW f, NEW g, NEW h,
         \A x \in S : f[x] \in Int /\ g[x] \in Int /\ h[x] = f[x] + g[x]
  PROVE  Total(h, S) = Total(f, S) + Total(g, S)
<1> DEFINE P == {T \in SUBSET S : Total(h, T) = Total(f, T) + Total(g, T)}
<1>1. {} \in P
  BY TotalEmpty
<1>2. \A T \in SUBSET S : T \in P => \A x \in S \ T : T \cup {x} \in P
  <2> SUFFICES ASSUME NEW T \in SUBSET S, T \in P, NEW x \in S \ T
               PROVE  Total(h, T \cup {x}) = Total(f, T \cup {x}) + Total(g, T \cup {x})
    OBVIOUS
  <2>1. IsFiniteSet(T)
    BY FS_Subset
  <2>0. \A y \in S : h[y] \in Int
    OBVIOUS
  <2>2. /\ Total(f, T \cup {x}) = f[x] + Total(f, T)
        /\ Total(g, T \cup {x}) = g[x] + Total(g, T)
        /\ Total(h, T \cup {x}) = h[x] + Total(h, T)
    BY <2>0, <2>1, TotalAdd
  <2>3. Total(f, T) \in Int /\ Total(g, T) \in Int
    BY <2>1, TotalInt
  <2>4. /\ f[x] \in Int /\ g[x] \in Int /\ h[x] = f[x] + g[x]
        /\ Total(h, T) = Total(f, T) + Total(g, T)
    OBVIOUS
  <2> QED
    BY <2>2, <2>3, <2>4
<1> HIDE DEF P
<1>3. SUBSET S \subseteq P
  BY <1>1, <1>2, SetInduction
<1> QED
  BY <1>3 DEF P

LEMMA Distribute ==
  ASSUME NEW c \in Int, NEW x \in Int, NEW y \in Int
  PROVE  c * (x + y) = c * x + c * y /\ c * x \in Int /\ c * 0 = 0
OBVIOUS

\* The total of multiples is the multiple of the total.
LEMMA TotalTimes ==
  ASSUME NEW S, IsFiniteSet(S), NEW c \in Int, NEW f, NEW g,
         \A x \in S : f[x] \in Int /\ g[x] = c * f[x]
  PROVE  Total(g, S) = c * Total(f, S)
<1> DEFINE P == {T \in SUBSET S : Total(g, T) = c * Total(f, T)}
<1>1. {} \in P
  BY TotalEmpty, Distribute
<1>0. \A y \in S : g[y] \in Int
  BY Distribute
<1>2. \A T \in SUBSET S : T \in P => \A x \in S \ T : T \cup {x} \in P
  <2> SUFFICES ASSUME NEW T \in SUBSET S, T \in P, NEW x \in S \ T
               PROVE  Total(g, T \cup {x}) = c * Total(f, T \cup {x})
    OBVIOUS
  <2>1. IsFiniteSet(T)
    BY FS_Subset
  <2>2. /\ Total(f, T \cup {x}) = f[x] + Total(f, T)
        /\ Total(g, T \cup {x}) = g[x] + Total(g, T)
    BY <1>0, <2>1, TotalAdd
  <2>3. Total(f, T) \in Int /\ f[x] \in Int
    BY <2>1, TotalInt
  <2>4. g[x] = c * f[x] /\ Total(g, T) = c * Total(f, T)
    OBVIOUS
  <2> QED
    BY <2>2, <2>3, <2>4, Distribute
<1> HIDE DEF P
<1>3. SUBSET S \subseteq P
  BY <1>1, <1>2, SetInduction
<1> QED
  BY <1>3 DEF P

\* As many ones as members.
LEMMA TotalOnes ==
  ASSUME NEW S, IsFiniteSet(S), NEW T \in SUBSET S, NEW f,
         \A x \in S : f[x] = IF x \in T THEN 1 ELSE 0
  PROVE  Total(f, S) = Cardinality(T)
<1> DEFINE P == {U \in SUBSET S : Total(f, U) = Cardinality(U \cap T)}
<1>0. \A y \in S : f[y] \in Int
  OBVIOUS
<1>1. {} \in P
  <2>1. {} \cap T = {}
    OBVIOUS
  <2> QED
    BY <2>1, TotalEmpty, FS_EmptySet
<1>2. \A U \in SUBSET S : U \in P => \A x \in S \ U : U \cup {x} \in P
  <2> SUFFICES ASSUME NEW U \in SUBSET S, U \in P, NEW x \in S \ U
               PROVE  Total(f, U \cup {x}) = Cardinality((U \cup {x}) \cap T)
    OBVIOUS
  <2>1. IsFiniteSet(U) /\ IsFiniteSet(U \cap T)
    BY FS_Subset
  <2>2. Total(f, U \cup {x}) = f[x] + Total(f, U)
    BY <1>0, <2>1, TotalAdd
  <2>3. Cardinality(U \cap T) \in Nat /\ Total(f, U) = Cardinality(U \cap T)
    BY <2>1, FS_CardinalityType
  <2>4. CASE x \in T
    <3>1. (U \cup {x}) \cap T = (U \cap T) \cup {x} /\ x \notin (U \cap T)
      BY <2>4
    <3>2. Cardinality((U \cap T) \cup {x}) = Cardinality(U \cap T) + 1
      BY <2>1, <3>1, FS_AddElement
    <3>3. f[x] = 1
      BY <2>4
    <3> QED
      BY <2>2, <2>3, <3>1, <3>2, <3>3
  <2>5. CASE x \notin T
    <3>1. (U \cup {x}) \cap T = U \cap T
      BY <2>5
    <3>2. f[x] = 0
      BY <2>5
    <3>3. Total(f, U \cup {x}) = Cardinality(U \cap T)
      BY <2>2, <2>3, <3>2
    <3> QED
      BY <3>1, <3>3, Zenon
  <2> QED
    BY <2>4, <2>5
<1> HIDE DEF P
<1>3. SUBSET S \subseteq P
  BY <1>1, <1>2, SetInduction
<1>4. S \cap T = T
  OBVIOUS
<1> QED
  BY <1>3, <1>4 DEF P

\* The total of two parts.
LEMMA TotalParts ==
  ASSUME NEW S, IsFiniteSet(S), NEW f, \A x \in S : f[x] \in Int, NEW T \in SUBSET S
  PROVE  Total(f, S) = Total(f, T) + Total(f, S \ T)
<1> DEFINE U == S \ T
           P == {V \in SUBSET U : Total(f, T \cup V) = Total(f, T) + Total(f, V)}
<1>0. IsFiniteSet(T) /\ IsFiniteSet(U)
  BY FS_Subset
<1>1. {} \in P
  <2>1. T \cup {} = T /\ Total(f, T) \in Int
    BY <1>0, TotalInt
  <2> QED
    BY <2>1, TotalEmpty
<1>2. \A V \in SUBSET U : V \in P => \A x \in U \ V : V \cup {x} \in P
  <2> SUFFICES ASSUME NEW V \in SUBSET U, V \in P, NEW x \in U \ V
               PROVE  Total(f, T \cup (V \cup {x})) = Total(f, T) + Total(f, V \cup {x})
    OBVIOUS
  <2>1. IsFiniteSet(V) /\ IsFiniteSet(T \cup V) /\ T \cup V \in SUBSET S
    BY <1>0, FS_Subset, FS_Union
  <2>2. x \notin T \cup V /\ T \cup (V \cup {x}) = (T \cup V) \cup {x} /\ x \notin V
    OBVIOUS
  <2>3. Total(f, (T \cup V) \cup {x}) = f[x] + Total(f, T \cup V)
    BY <2>1, <2>2, TotalAdd
  <2>4. Total(f, V \cup {x}) = f[x] + Total(f, V)
    BY <2>1, <2>2, TotalAdd
  <2>5. Total(f, T) \in Int /\ Total(f, V) \in Int /\ f[x] \in Int
    BY <1>0, <2>1, TotalInt
  <2>6. Total(f, T \cup V) = Total(f, T) + Total(f, V)
    OBVIOUS
  <2>7. Total(f, T \cup (V \cup {x})) = Total(f, (T \cup V) \cup {x})
    BY <2>2, Zenon
  <2>8. Total(f, (T \cup V) \cup {x}) = Total(f, T) + Total(f, V \cup {x})
    BY <2>3, <2>4, <2>5, <2>6
  <2> QED
    BY <2>7, <2>8
<1>4. T \cup U = S
  OBVIOUS
<1> HIDE DEF P, U
<1>3. SUBSET U \subseteq P
  BY <1>0, <1>1, <1>2, SetInduction
<1>5. Total(f, T \cup U) = Total(f, T) + Total(f, U)
  BY <1>3 DEF P
<1> QED
  BY <1>4, <1>5 DEF U

\* The first few of a set in order are as many as asked for.
LEMMA FirstOnes ==
  ASSUME NEW S, IsFiniteSet(S), NEW before, Orders(before, S), NEW n \in 0..Cardinality(S)
  PROVE  Cardinality({x \in S : Cardinality(Below(S, before, x)) < n}) = n
<1> DEFINE o == InOrder(S, before)
           m == Cardinality(S)
           r == [x \in S |-> Cardinality(Below(S, before, x))]
           few == {x \in S : r[x] < n}
<1>1. m \in Nat /\ n \in Nat /\ n <= m
  BY FS_CardinalityType
<1>2. /\ \A x \in S : r[x] \in 0..(m - 1)
      /\ \A x, y \in S : <<x, y>> \in before => r[x] < r[y]
      /\ \A k \in 0..(m - 1) : \E x \in S : r[x] = k
  BY Places
<1>3. \A x, y \in S : r[x] = r[y] => x = y
  <2> TAKE x, y \in S
  <2>1. r[x] \in Int /\ r[y] \in Int
    BY <1>1, <1>2
  <2>2. x = y \/ r[x] < r[y] \/ r[y] < r[x]
    BY <1>2 DEF Orders
  <2> HIDE DEF r
  <2> QED
    BY <2>1, <2>2
<1> HIDE DEF r, m
<1>4. {r[x] : x \in few} = 0..(n - 1)
  <2>1. ASSUME NEW x \in few PROVE r[x] \in 0..(n - 1)
    BY <1>1, <1>2
  <2>2. ASSUME NEW k \in 0..(n - 1) PROVE \E x \in few : r[x] = k
    <3>1. k \in 0..(m - 1) /\ k < n
      BY <1>1
    <3> QED
      BY <1>2, <3>1
  <2> HIDE DEF few
  <2> QED
    BY <2>1, <2>2
<1>5. IsFiniteSet(few)
  BY FS_Subset
<1>6. Cardinality({r[x] : x \in few}) = Cardinality(few)
  <2>1. \A x, y \in few : r[x] = r[y] => x = y
    BY <1>3
  <2> HIDE DEF few
  <2> QED
    BY <1>5, <2>1, SameNumber, Zenon
<1>7. Cardinality(0..(n - 1)) = n
  BY <1>1, FS_Interval
<1>8. {x \in S : Cardinality(Below(S, before, x)) < n} = few
  BY DEF r
<1> QED
  BY <1>4, <1>6, <1>7, <1>8

\* Numbers up to a number.
LEMMA NumbersUpTo ==
  ASSUME NEW n \in Nat
  PROVE  1..n \in SUBSET Int
OBVIOUS

\* A function that grows takes no value twice.
LEMMA GrowingIsOnce ==
  ASSUME NEW D \in SUBSET Int, NEW at \in SUBSET Int, NEW o \in [D -> at],
         \A j, k \in D : j < k => o[j] < o[k]
  PROVE  \A j, k \in D : o[j] = o[k] => j = k
<1>1. \A j \in D : j \in Int /\ o[j] \in Int
  OBVIOUS
<1>2. \A j, k \in D : o[j] = o[k] => ~(j < k) /\ ~(k < j)
  BY ONLY <1>1, \A j, k \in D : j < k => o[j] < o[k]
<1> QED
  BY ONLY <1>1, <1>2

\* Places of a list that is two lists.
LEMMA TwoLists ==
  ASSUME NEW X, NEW a \in Seq(X), NEW b \in Seq(X)
  PROVE  LET all == a \o b
         IN  /\ all \in Seq(X)
             /\ \A i \in DOMAIN a : i \in DOMAIN all /\ all[i] = a[i]
             /\ \A k \in DOMAIN b : Len(a) + k \in DOMAIN all /\ all[Len(a) + k] = b[k]
             /\ \A j \in DOMAIN all : j \in DOMAIN a \/ \E k \in DOMAIN b : j = Len(a) + k
             /\ \A i \in DOMAIN a, k \in DOMAIN b : i <= Len(a) + k
<1> DEFINE all == a \o b
<1>1. all \in Seq(X) /\ Len(all) = Len(a) + Len(b)
  OBVIOUS
<1>2. DOMAIN a = 1..Len(a) /\ DOMAIN b = 1..Len(b) /\ DOMAIN all = 1..(Len(a) + Len(b))
  BY <1>1
<1>3. Len(a) \in Nat /\ Len(b) \in Nat
  OBVIOUS
<1>4. \A i \in 1..(Len(a) + Len(b)) : all[i] = IF i <= Len(a) THEN a[i] ELSE b[i - Len(a)]
  OBVIOUS
<1> HIDE DEF all
<1> DEFINE m == Len(a)
           n == Len(b)
<1>5. \A i \in 1..m : i \in 1..(m + n) /\ all[i] = a[i]
  BY ONLY <1>3, <1>4
<1>6. \A k \in 1..n : m + k \in 1..(m + n) /\ all[m + k] = b[k]
  <2> TAKE k \in 1..n
  <2>1. m + k \in 1..(m + n) /\ ~(m + k <= m) /\ (m + k) - m = k
    BY ONLY <1>3
  <2> QED
    BY ONLY <1>4, <2>1
<1>7. \A j \in 1..(m + n) : j \in 1..m \/ \E k \in 1..n : j = m + k
  <2> TAKE j \in 1..(m + n)
  <2>1. ~(j <= m) => j - m \in 1..n /\ j = m + (j - m)
    BY ONLY <1>3
  <2>2. j <= m => j \in 1..m
    BY ONLY <1>3
  <2> QED
    BY ONLY <2>1, <2>2
<1>8. \A i \in 1..m, k \in 1..n : i <= m + k
  BY ONLY <1>3
<1> QED
  BY ONLY <1>1, <1>2, <1>5, <1>6, <1>7, <1>8 DEF all

(***************************************************************************)
(* New entries, and lists of lists                                         *)
(***************************************************************************)

\* What a function made place by place is a list of.
LEMMA ListOf ==
  ASSUME NEW n \in Nat, NEW f, f = [k \in 1..n |-> f[k]]
  PROVE  f \in Seq(Range(f)) /\ Len(f) = n /\ DOMAIN f = 1..n
<1>1. DOMAIN f = 1..n
  OBVIOUS
<1>2. f \in [1..n -> Range(f)]
  BY <1>1 DEF Range
<1> QED
  BY <1>1, <1>2

\* Every entry is there at a position where it is new, and new entries differ.
LEMMA NewIs ==
  ASSUME NEW X, NEW list \in Seq(X)
  PROVE  /\ NewAt(list) \in SUBSET DOMAIN list
         /\ \A i \in DOMAIN list : \E j \in NewAt(list) : j <= i /\ list[j] = list[i]
         /\ \A i, j \in NewAt(list) : list[i] = list[j] => i = j
<1>1. NewAt(list) \in SUBSET DOMAIN list
  BY DEF NewAt
<1>2. \A i \in DOMAIN list : i \in Nat /\ i >= 1
  BY Entry
<1>3. ASSUME NEW i \in DOMAIN list
      PROVE  \E j \in NewAt(list) : j <= i /\ list[j] = list[i]
  <2> DEFINE S == {j \in DOMAIN list : list[j] = list[i]}
  <2>1. S \in SUBSET Nat /\ S # {}
    BY <1>2, <1>3
  <2>2. PICK j \in S : \A k \in S : j <= k
    BY ONLY <2>1, Least
  <2>3. j \in DOMAIN list /\ list[j] = list[i] /\ j \in Nat /\ j >= 1
    BY ONLY <1>2, <2>2
  <2>4. j <= i
    BY ONLY <1>3, <2>2
  <2>5. \A m \in 1..(j - 1) : list[m] # list[j]
    <3> TAKE m \in 1..(j - 1)
    <3>1. m \in DOMAIN list /\ ~(j <= m)
      BY ONLY <2>3, list \in Seq(X)
    <3> QED
      BY ONLY <2>2, <2>3, <3>1
  <2> QED
    BY ONLY <2>3, <2>4, <2>5 DEF NewAt
<1>4. ASSUME NEW i \in NewAt(list), NEW j \in NewAt(list), list[i] = list[j]
      PROVE  i = j
  <2>1. i \in Nat /\ i >= 1 /\ j \in Nat /\ j >= 1
    BY ONLY <1>1, <1>2, <1>4
  <2>2. (i < j => i \in 1..(j - 1)) /\ (j < i => j \in 1..(i - 1))
    BY ONLY <2>1
  <2>3. ~(i < j) /\ ~(j < i)
    BY ONLY <1>4, <2>2 DEF NewAt
  <2> QED
    BY ONLY <2>1, <2>3
<1> QED
  BY <1>1, <1>3, <1>4

\* Where no entry is there twice, all are new.
LEMMA AllNew ==
  ASSUME NEW X, NEW list \in Seq(X), \A i, j \in DOMAIN list : list[i] = list[j] => i = j
  PROVE  NewAt(list) = DOMAIN list
<1>1. \A i \in DOMAIN list : i \in Nat /\ i >= 1
  BY Entry
<1>2. ASSUME NEW i \in DOMAIN list, NEW j \in 1..(i - 1)
      PROVE  list[j] # list[i]
  <2>1. j \in DOMAIN list /\ j # i
    BY ONLY <1>1, <1>2, Before, list \in Seq(X)
  <2> QED
    BY ONLY <2>1, <1>2, \A k, m \in DOMAIN list : list[k] = list[m] => k = m
<1> QED
  BY ONLY <1>2 DEF NewAt

\* Entries that are alike are picked from the same position, so they are the same.
LEMMA PickedDiffer ==
  ASSUME NEW list, NEW at \in SUBSET Int, IsFiniteSet(at), NEW alike,
         \A i, j \in at : <<list[i], list[j]>> \in alike => i = j
  PROVE  \A j, k \in DOMAIN Picked(list, at) :
           <<Picked(list, at)[j], Picked(list, at)[k]>> \in alike => j = k
<1> DEFINE n == Cardinality(at)
           out == Picked(list, at)
<1>1. n \in Nat
  BY FS_CardinalityType
<1>2. PICK o \in [1..n -> at] : /\ out = [k \in 1..n |-> list[o[k]]]
                                /\ \A j, k \in 1..n : j < k => o[j] < o[k]
  BY ONLY at \in SUBSET Int, IsFiniteSet(at), PickedIs
<1> HIDE DEF n, out
<1>3. 1..n \in SUBSET Int
  BY ONLY <1>1, NumbersUpTo
<1>4. \A j, k \in 1..n : j < k => o[j] < o[k]
  BY ONLY <1>2
<1>5. \A j, k \in 1..n : o[j] = o[k] => j = k
  BY ONLY <1>3, <1>4, at \in SUBSET Int, o \in [1..n -> at], GrowingIsOnce
<1>6. \A j, k \in 1..n : <<out[j], out[k]>> \in alike => j = k
  BY ONLY <1>2, <1>5, o \in [1..n -> at], \A i, j \in at : <<list[i], list[j]>> \in alike => i = j
<1>7. DOMAIN out = 1..n
  BY ONLY <1>2
<1> QED
  BY ONLY <1>6, <1>7 DEF out

\* The places of the entries of a list of lists, and their order.
PlacesOf(lists) == UNION {{i} \X DOMAIN lists[i] : i \in DOMAIN lists}
Earlier2(S) == {p \in S \X S : p[1][1] < p[2][1] \/ (p[1][1] = p[2][1] /\ p[1][2] < p[2][2])}

LEMMA PlacesAre ==
  ASSUME NEW X, NEW lists \in Seq(Seq(X))
  PROVE  LET S == PlacesOf(lists)
         IN  /\ IsFiniteSet(S) /\ Orders(Earlier2(S), S)
             /\ \A x \in S : /\ x = <<x[1], x[2]>> /\ x[1] \in DOMAIN lists /\ x[2] \in DOMAIN lists[x[1]]
                             /\ x[1] \in Nat /\ x[2] \in Nat
             /\ \A i \in DOMAIN lists : \A j \in DOMAIN lists[i] : <<i, j>> \in S
             /\ \A i, j, k, m : <<i, j>> \in S /\ <<k, m>> \in S =>
                  (<<<<i, j>>, <<k, m>>>> \in Earlier2(S) <=> (i < k \/ (i = k /\ j < m)))
<1> DEFINE S == PlacesOf(lists)
<1>1. \A i \in DOMAIN lists : lists[i] \in Seq(X) /\ i \in Nat
  BY Entry
<1>2. \A i \in DOMAIN lists : \A j \in DOMAIN lists[i] : <<i, j>> \in S
  BY DEF PlacesOf
<1>3. \A x \in S : \E i \in DOMAIN lists : \E j \in DOMAIN lists[i] : x = <<i, j>>
  BY DEF PlacesOf
<1>4. IsFiniteSet(S)
  <2>1. IsFiniteSet(DOMAIN lists)
    BY Positions
  <2> DEFINE T == {{i} \X DOMAIN lists[i] : i \in DOMAIN lists}
             h == [i \in DOMAIN lists |-> {i} \X DOMAIN lists[i]]
  <2>2. T = {h[i] : i \in DOMAIN lists}
    OBVIOUS
  <2>3. \A i \in DOMAIN lists : IsFiniteSet(h[i])
    <3> TAKE i \in DOMAIN lists
    <3>1. IsFiniteSet({i}) /\ IsFiniteSet(DOMAIN lists[i])
      BY <1>1, Positions, FS_Singleton
    <3>2. IsFiniteSet({i} \X DOMAIN lists[i])
      BY ONLY <3>1, FS_Product
    <3> QED
      BY ONLY <3>2
  <2> HIDE DEF h, T
  <2>4. IsFiniteSet(T)
    BY ONLY <2>1, <2>2, Values
  <2>5. \A t \in T : IsFiniteSet(t)
    BY ONLY <2>2, <2>3
  <2>6. IsFiniteSet(UNION T)
    BY ONLY <2>4, <2>5, FS_UNION
  <2> QED
    BY ONLY <2>6 DEF T, PlacesOf
<1> HIDE DEF S
<1>5. \A x \in S : /\ x = <<x[1], x[2]>> /\ x[1] \in DOMAIN lists /\ x[2] \in DOMAIN lists[x[1]]
                   /\ x[1] \in Nat /\ x[2] \in Nat
  <2> TAKE x \in S
  <2>1. PICK i \in DOMAIN lists : \E j \in DOMAIN lists[i] : x = <<i, j>>
    BY ONLY <1>3
  <2>2. PICK j \in DOMAIN lists[i] : x = <<i, j>>
    BY ONLY <2>1
  <2>3. lists[i] \in Seq(X) /\ i \in Nat
    BY ONLY <1>1
  <2>4. j \in Nat
    BY ONLY <2>3, Entry
  <2> QED
    BY ONLY <2>2, <2>3, <2>4
<1>6. \A x, y \in S : <<x, y>> \in Earlier2(S) <=> (x[1] < y[1] \/ (x[1] = y[1] /\ x[2] < y[2]))
  BY DEF Earlier2
<1>7. Orders(Earlier2(S), S)
  <2>0. \A x \in S : x[1] \in Nat /\ x[2] \in Nat
    BY ONLY <1>5
  <2>1. \A x \in S : <<x, x>> \notin Earlier2(S)
    BY ONLY <1>6, <2>0
  <2>2. ASSUME NEW x \in S, NEW y \in S, x # y
        PROVE  <<x, y>> \in Earlier2(S) \/ <<y, x>> \in Earlier2(S)
    <3>1. x[1] # y[1] \/ x[2] # y[2]
      BY ONLY <1>5, <2>2
    <3> QED
      BY ONLY <1>5, <1>6, <3>1
  <2>3. \A x, y, z \in S : <<x, y>> \in Earlier2(S) /\ <<y, z>> \in Earlier2(S) => <<x, z>> \in Earlier2(S)
    <3> TAKE x, y, z \in S
    <3>1. /\ x[1] \in Nat /\ x[2] \in Nat /\ y[1] \in Nat /\ y[2] \in Nat
          /\ z[1] \in Nat /\ z[2] \in Nat
      BY ONLY <2>0
    <3> QED
      BY ONLY <1>6, <3>1
  <2> QED
    BY ONLY <2>1, <2>2, <2>3 DEF Orders
<1>8. \A i, j, k, m : <<i, j>> \in S /\ <<k, m>> \in S =>
                  (<<<<i, j>>, <<k, m>>>> \in Earlier2(S) <=> (i < k \/ (i = k /\ j < m)))
  BY ONLY <1>6
<1> QED
  BY ONLY <1>2, <1>4, <1>5, <1>7, <1>8 DEF S

\* Where an entry of the flat list is from.
LEMMA FlatIs ==
  ASSUME NEW X, NEW lists \in Seq(Seq(X))
  PROVE  LET out == Flat(lists)
             S == PlacesOf(lists)
         IN  \E o \in [1..Cardinality(S) -> S] :
               /\ out = [k \in 1..Cardinality(S) |-> lists[o[k][1]][o[k][2]]]
               /\ \A x \in S : \E k \in 1..Cardinality(S) : o[k] = x
               /\ \A j, k \in 1..Cardinality(S) : j < k => <<o[j], o[k]>> \in Earlier2(S)
<1> DEFINE S == PlacesOf(lists)
           n == Cardinality(S)
           o == InOrder(S, Earlier2(S))
           out == Flat(lists)
<1>1. IsFiniteSet(S) /\ Orders(Earlier2(S), S)
  BY PlacesAre
<1>2. /\ o \in [1..n -> S]
      /\ \A x \in S : \E k \in 1..n : o[k] = x
      /\ \A j, k \in 1..n : j < k => o[j] # o[k] /\ <<o[j], o[k]>> \in Earlier2(S)
  <2> HIDE DEF S
  <2> QED
    BY ONLY <1>1, InOrderIs
<1>3. out = [k \in DOMAIN o |-> lists[o[k][1]][o[k][2]]]
  BY DEF Flat, PlacesOf, Earlier2
<1> HIDE DEF o, n, out
<1>4. DOMAIN o = 1..n
  BY ONLY <1>2
<1>5. out = [k \in 1..n |-> lists[o[k][1]][o[k][2]]]
  BY ONLY <1>3, <1>4
<1> HIDE DEF S
<1>6. \E q \in [1..n -> S] :
               /\ out = [k \in 1..n |-> lists[q[k][1]][q[k][2]]]
               /\ \A x \in S : \E k \in 1..n : q[k] = x
               /\ \A j, k \in 1..n : j < k => <<q[j], q[k]>> \in Earlier2(S)
  BY ONLY <1>2, <1>5
<1> QED
  BY ONLY <1>6 DEF out, n, S

\* The flat list has the entries of the lists.
LEMMA FlatHas ==
  ASSUME NEW X, NEW lists \in Seq(Seq(X))
  PROVE  /\ Flat(lists) \in Seq(X)
         /\ \A i \in DOMAIN lists : \A j \in DOMAIN lists[i] :
              \E k \in DOMAIN Flat(lists) : Flat(lists)[k] = lists[i][j]
         /\ \A k \in DOMAIN Flat(lists) :
              \E i \in DOMAIN lists : \E j \in DOMAIN lists[i] : Flat(lists)[k] = lists[i][j]
<1> DEFINE S == PlacesOf(lists)
           n == Cardinality(S)
           out == Flat(lists)
<1>1. /\ IsFiniteSet(S)
      /\ \A x \in S : x[1] \in DOMAIN lists /\ x[2] \in DOMAIN lists[x[1]]
      /\ \A i \in DOMAIN lists : \A j \in DOMAIN lists[i] : <<i, j>> \in S
  BY PlacesAre
<1>2. n \in Nat
  BY <1>1, FS_CardinalityType
<1>3. PICK o \in [1..n -> S] :
               /\ out = [k \in 1..n |-> lists[o[k][1]][o[k][2]]]
               /\ \A x \in S : \E k \in 1..n : o[k] = x
               /\ \A j, k \in 1..n : j < k => <<o[j], o[k]>> \in Earlier2(S)
  BY FlatIs
<1> HIDE DEF S, n, out
<1>4. DOMAIN out = 1..n /\ \A k \in 1..n : out[k] = lists[o[k][1]][o[k][2]]
  BY ONLY <1>3
<1>5. \A k \in 1..n : o[k] \in S
  BY ONLY o \in [1..n -> S]
<1>6. \A k \in 1..n : \E i \in DOMAIN lists : \E j \in DOMAIN lists[i] : out[k] = lists[i][j]
  BY ONLY <1>1, <1>4, <1>5
<1>7. \A i \in DOMAIN lists : \A j \in DOMAIN lists[i] : \E k \in 1..n : out[k] = lists[i][j]
  <2> TAKE i \in DOMAIN lists
  <2> TAKE j \in DOMAIN lists[i]
  <2>1. PICK k \in 1..n : o[k] = <<i, j>>
    BY ONLY <1>1, <1>3
  <2>2. o[k][1] = i /\ o[k][2] = j
    BY ONLY <2>1
  <2> QED
    BY ONLY <1>4, <2>2
<1>8. out \in Seq(X)
  <2>1. \A i \in DOMAIN lists : \A j \in DOMAIN lists[i] : lists[i][j] \in X
    BY lists \in Seq(Seq(X))
  <2>2. \A k \in 1..n : out[k] \in X
    BY ONLY <1>6, <2>1
  <2>3. out = [k \in 1..n |-> out[k]]
    BY ONLY <1>3
  <2>4. out \in [1..n -> X]
    BY ONLY <2>2, <2>3
  <2> QED
    BY ONLY <1>2, <2>4
<1>9. \A i \in DOMAIN lists : \A j \in DOMAIN lists[i] : \E k \in DOMAIN out : out[k] = lists[i][j]
  BY ONLY <1>4, <1>7
<1>10. \A k \in DOMAIN out : \E i \in DOMAIN lists : \E j \in DOMAIN lists[i] : out[k] = lists[i][j]
  BY ONLY <1>4, <1>6
<1> QED
  BY ONLY <1>8, <1>9, <1>10 DEF out

\* The first entry of a list comes before the lists behind it.
LEMMA FlatFirst ==
  ASSUME NEW X, NEW lists \in Seq(Seq(X)), NEW i \in DOMAIN lists, 1 \in DOMAIN lists[i]
  PROVE  \E k \in DOMAIN Flat(lists) :
           /\ k \in Nat /\ k >= 1 /\ Flat(lists)[k] = lists[i][1]
           /\ \A m \in 1..(k - 1) : \E h \in DOMAIN lists : \E j \in DOMAIN lists[h] :
                h < i /\ Flat(lists)[m] = lists[h][j]
<1> DEFINE S == PlacesOf(lists)
           n == Cardinality(S)
           out == Flat(lists)
<1>1. /\ IsFiniteSet(S)
      /\ \A x \in S : /\ x[1] \in DOMAIN lists /\ x[2] \in DOMAIN lists[x[1]]
                      /\ x[1] \in Nat /\ x[2] \in Nat
      /\ <<i, 1>> \in S
  BY 1 \in DOMAIN lists[i], PlacesAre
<1>2. n \in Nat
  BY <1>1, FS_CardinalityType
<1>3. PICK o \in [1..n -> S] :
               /\ out = [k \in 1..n |-> lists[o[k][1]][o[k][2]]]
               /\ \A x \in S : \E k \in 1..n : o[k] = x
               /\ \A j, k \in 1..n : j < k => <<o[j], o[k]>> \in Earlier2(S)
  BY FlatIs
<1>4. \A j \in DOMAIN lists[i] : j \in Nat /\ j >= 1
  BY Entry
<1>5. \A x, y \in S : <<x, y>> \in Earlier2(S) => (x[1] < y[1] \/ (x[1] = y[1] /\ x[2] < y[2]))
  BY DEF Earlier2
<1> HIDE DEF S, n, out
<1>6. PICK k \in 1..n : o[k] = <<i, 1>>
  BY ONLY <1>1, <1>3
<1>7. DOMAIN out = 1..n /\ \A m \in 1..n : out[m] = lists[o[m][1]][o[m][2]]
  BY ONLY <1>3
<1>8. k \in Nat /\ k >= 1 /\ out[k] = lists[i][1]
  <2>1. o[k][1] = i /\ o[k][2] = 1
    BY ONLY <1>6
  <2> QED
    BY ONLY <1>2, <1>7, <2>1
<1>9. ASSUME NEW m \in 1..(k - 1)
      PROVE  \E h \in DOMAIN lists : \E j \in DOMAIN lists[h] : h < i /\ out[m] = lists[h][j]
  <2>1. m \in 1..n /\ m < k
    BY ONLY <1>2, <1>8, k \in 1..n
  <2>2. o[m] \in S /\ o[k] \in S
    BY ONLY <2>1, o \in [1..n -> S], k \in 1..n
  <2>3. <<o[m], o[k]>> \in Earlier2(S)
    BY ONLY <1>3, <2>1, k \in 1..n
  <2> DEFINE h == o[m][1]
             j == o[m][2]
  <2>4. o[k][1] = i /\ o[k][2] = 1
    BY ONLY <1>6
  <2>5. h < i \/ (h = i /\ j < 1)
    BY ONLY <1>5, <2>2, <2>3, <2>4
  <2>6. h \in DOMAIN lists /\ j \in DOMAIN lists[h] /\ j \in Nat
    BY ONLY <1>1, <2>2
  <2>7. out[m] = lists[h][j]
    BY ONLY <1>7, <2>1
  <2> HIDE DEF h, j
  <2>8. h < i
    <3>1. h = i => j >= 1
      BY ONLY <1>4, <2>6
    <3> QED
      BY ONLY <2>5, <2>6, <3>1
  <2> QED
    BY ONLY <2>6, <2>7, <2>8
<1> QED
  BY ONLY <1>7, <1>8, <1>9 DEF out

\* Numbers up to n in growing order are at their own places.
LEMMA GrowingIsSame ==
  ASSUME NEW n \in Nat, NEW f \in [1..n -> 1..n], \A j, k \in 1..n : j < k => f[j] < f[k]
  PROVE  \A k \in 1..n : f[k] = k
<1>1. ASSUME NEW g \in [1..n -> 1..n], \A j, k \in 1..n : j < k => g[j] < g[k]
      PROVE  \A k \in 1..n : g[k] >= k
  <2> DEFINE P == {m \in Nat : m \in 1..n => g[m] >= m}
  <2>1. 0 \in P
    OBVIOUS
  <2>2. ASSUME NEW m \in P \cap Nat PROVE m + 1 \in P
    <3> SUFFICES ASSUME m + 1 \in 1..n PROVE g[m + 1] >= m + 1
      OBVIOUS
    <3>1. g[m + 1] \in 1..n
      OBVIOUS
    <3>2. CASE m = 0
      BY <3>1, <3>2
    <3>3. CASE m # 0
      <4>1. m \in 1..n /\ g[m] \in 1..n /\ g[m] >= m /\ m < m + 1
        BY <3>3
      <4>2. g[m] < g[m + 1]
        BY <1>1, <4>1
      <4> QED
        BY <3>1, <4>1, <4>2
    <3> QED
      BY <3>2, <3>3
  <2> HIDE DEF P
  <2>3. Nat \subseteq P
    BY ONLY <2>1, <2>2, Induction
  <2> QED
    BY <2>3 DEF P
<1> DEFINE g == [k \in 1..n |-> n + 1 - f[n + 1 - k]]
<1>2. \A k \in 1..n : n + 1 - k \in 1..n
  OBVIOUS
<1>3. \A k \in 1..n : f[k] \in 1..n
  OBVIOUS
<1>4. g \in [1..n -> 1..n]
  BY <1>2, <1>3
<1>5. ASSUME NEW j \in 1..n, NEW k \in 1..n, j < k
      PROVE  g[j] < g[k]
  <2>1. f[n + 1 - k] < f[n + 1 - j]
    BY <1>2, <1>5
  <2>2. f[n + 1 - k] \in Int /\ f[n + 1 - j] \in Int
    BY <1>2, <1>3
  <2> QED
    BY <2>1, <2>2
<1>6. \A k \in 1..n : g[k] = n + 1 - f[n + 1 - k]
  OBVIOUS
<1> HIDE DEF g
<1>7. \A k \in 1..n : g[k] >= k
  BY ONLY <1>1, <1>4, <1>5
<1>8. \A k \in 1..n : f[k] >= k
  BY ONLY <1>1, f \in [1..n -> 1..n], \A j, k \in 1..n : j < k => f[j] < f[k]
<1>9. ASSUME NEW k \in 1..n
      PROVE  f[k] <= k
  <2>1. n + 1 - k \in 1..n /\ n + 1 - (n + 1 - k) = k
    OBVIOUS
  <2>2. g[n + 1 - k] = n + 1 - f[k] /\ g[n + 1 - k] >= n + 1 - k
    BY ONLY <1>6, <1>7, <2>1
  <2>3. f[k] \in Int
    BY <1>3
  <2> QED
    BY <2>2, <2>3
<1> QED
  BY <1>3, <1>8, <1>9

\* A list of one list is that list.
LEMMA FlatOfOne ==
  ASSUME NEW X, NEW l \in Seq(X)
  PROVE  Flat(<<l>>) = l
<1> DEFINE lists == <<l>>
           S == PlacesOf(lists)
           n == Cardinality(S)
           out == Flat(lists)
           len == Len(l)
<1>0. lists \in Seq(Seq(X)) /\ DOMAIN lists = {1} /\ lists[1] = l
  OBVIOUS
<1>1. len \in Nat /\ DOMAIN l = 1..len /\ l = [k \in 1..len |-> l[k]]
  OBVIOUS
<1>2. PICK o \in [1..n -> S] :
               /\ out = [k \in 1..n |-> lists[o[k][1]][o[k][2]]]
               /\ \A x \in S : \E k \in 1..n : o[k] = x
               /\ \A j, k \in 1..n : j < k => <<o[j], o[k]>> \in Earlier2(S)
  BY ONLY <1>0, FlatIs
<1> DEFINE h == [k \in 1..len |-> <<1, k>>]
<1>3. S = {h[k] : k \in 1..len}
  BY ONLY <1>0, <1>1 DEF PlacesOf
<1>4. n = len
  <2> DEFINE T == 1..len
  <2>1. \A j, k \in T : h[j] = h[k] => j = k
    OBVIOUS
  <2>2. IsFiniteSet(T) /\ Cardinality(T) = len
    BY <1>1, Positions
  <2>3. S = {h[k] : k \in T}
    BY ONLY <1>3
  <2> HIDE DEF h, S, T
  <2>4. IsFiniteSet({h[k] : k \in T}) /\ Cardinality({h[k] : k \in T}) = Cardinality(T)
    BY ONLY <2>1, <2>2, SameNumber
  <2> QED
    BY ONLY <2>2, <2>3, <2>4
<1>5. \A x \in S : x[1] = 1 /\ x[2] \in 1..len
  BY ONLY <1>3
<1>6. \A x, y \in S : <<x, y>> \in Earlier2(S) => (x[1] < y[1] \/ (x[1] = y[1] /\ x[2] < y[2]))
  BY DEF Earlier2
<1> HIDE DEF S, n, out, len, lists, h
<1> DEFINE f == [k \in 1..len |-> o[k][2]]
<1>7. \A k \in 1..len : o[k] \in S
  BY ONLY <1>4, o \in [1..n -> S]
<1>8. f \in [1..len -> 1..len] /\ \A k \in 1..len : f[k] = o[k][2]
  BY ONLY <1>5, <1>7
<1>9. ASSUME NEW j \in 1..len, NEW k \in 1..len, j < k
      PROVE  f[j] < f[k]
  <2>1. o[j] \in S /\ o[k] \in S /\ <<o[j], o[k]>> \in Earlier2(S)
    BY ONLY <1>2, <1>4, <1>7, <1>9
  <2>2. o[j][1] = 1 /\ o[k][1] = 1 /\ ~(1 < 1)
    BY ONLY <1>5, <2>1
  <2> QED
    BY ONLY <1>6, <1>8, <2>1, <2>2
<1> HIDE DEF f
<1>10. \A k \in 1..len : f[k] = k
  BY ONLY <1>1, <1>8, <1>9, GrowingIsSame
<1>11. \A k \in 1..len : lists[o[k][1]][o[k][2]] = l[k]
  BY ONLY <1>0, <1>5, <1>7, <1>8, <1>10
<1>12. out = [k \in 1..len |-> l[k]]
  BY ONLY <1>2, <1>4, <1>11
<1> QED
  BY ONLY <1>1, <1>12 DEF out, lists

\* The least of some numbers.
LEMMA FirstOne ==
  ASSUME NEW S \in SUBSET Nat, S # {}
  PROVE  Min(S) \in S /\ \A n \in S : Min(S) <= n
BY Least DEF Min

(***************************************************************************)
(* Merges                                                                  *)
(***************************************************************************)

LEMMA RemainingInt ==
  ASSUME NEW cards \in Seq(Card)
  PROVE  Remaining(cards) \in Int
<1> DEFINE f == [i \in DOMAIN cards |-> cards[i].remain]
<1>1. IsFiniteSet(DOMAIN cards)
  BY FS_Interval, Len(cards) \in Nat, DOMAIN cards = 1..Len(cards)
<1>2. \A i \in DOMAIN cards : f[i] \in Int
  <2>1. \A i \in DOMAIN cards : cards[i] \in Card
    OBVIOUS
  <2>2. \A i \in DOMAIN cards : cards[i].remain \in Int
    BY <2>1 DEF Card
  <2> QED
    BY <2>2
<1> HIDE DEF f
<1>3. Total(f, DOMAIN cards) \in Int
  BY <1>1, <1>2, TotalInt
<1> QED
  BY <1>3 DEF f, Remaining

LEMMA MergesAreFairAlways ==
  ASSUME NEW request \in Request, NEW cards \in Seq(Card), NEW unit, NEW rank
  PROVE  MergeIsFair(request, cards, unit, rank)
<1> DEFINE plan == MergePlan(request, cards, unit, rank)
<1>1. SUFFICES ASSUME plan.ok, request.role # "admin"
               PROVE  /\ plan.quota = Remaining(cards) /\ plan.quota > 0
                      /\ plan.unit \in Units(cards) \/ (plan.unit = Week /\ Day \in Units(cards))
                      /\ request.role = "guest" => \A i \in DOMAIN cards :
                           cards[i].used <= 0 /\ cards[i].unit = Day /\ cards[i].status = 1
  BY DEF MergeIsFair
<1>2. Cardinality(Ids(cards)) = Len(cards) /\ MayMerge(request, cards)
  BY <1>1 DEF MergePlan
<1>3. plan = TargetPlan(request, cards, unit, rank)
  BY <1>2 DEF MergePlan
<1>4. QuotaAsked(request) = <<>>
  BY <1>1 DEF QuotaAsked
<1>5. /\ plan.quota = Remaining(cards) /\ ~ (Remaining(cards) <= 0)
      /\ plan.unit = request.unit
  BY <1>1, <1>3, <1>4 DEF TargetPlan
<1>6. plan.quota > 0
  BY <1>5, RemainingInt
<1>7. cards # <<>>
  <2>1. ASSUME cards = <<>> PROVE FALSE
    <3>1. DOMAIN cards = {}
      BY <2>1
    <3> HIDE DEF plan
    <3>2. Remaining(cards) = 0
      BY <3>1, TotalEmpty DEF Remaining
    <3> QED
      BY <1>5, <3>2
  <2> QED
    BY <2>1
<1>8. Len(cards) \in Nat /\ Len(cards) >= 1 /\ DOMAIN cards = 1..Len(cards)
  BY <1>7
<1> HIDE DEF plan
<1>9. CASE request.role = "guest"
  <2>1. request.unit = Week /\ PublicReasons(cards) = {}
    BY <1>2, <1>9 DEF MayMerge, GuestMay
  <2>2. ASSUME NEW i \in DOMAIN cards
        PROVE  cards[i].used <= 0 /\ cards[i].unit = Day /\ cards[i].status = 1
    <3> DEFINE why == (IF cards[i].status # 1 THEN {"disabled"} ELSE {})
                      \cup (IF cards[i].unit # Day THEN {"no day card"} ELSE {})
                      \cup (IF cards[i].used > 0 THEN {"used"} ELSE {})
                      \cup (IF cards[i].remain <= 0 THEN {"empty"} ELSE {})
    <3>1. why \subseteq PublicReasons(cards)
      BY DEF PublicReasons
    <3>2. why = {}
      BY <2>1, <3>1
    <3>3. cards[i].unit = Day /\ cards[i].status = 1 /\ ~ (cards[i].used > 0)
      BY <3>2
    <3>4. cards[i] \in Card
      OBVIOUS
    <3>5. cards[i].used \in Int
      BY <3>4 DEF Card
    <3> HIDE DEF why
    <3> QED
      BY <3>3, <3>5
  <2>3. Day \in Units(cards)
    BY <1>8, <2>2, 1 \in DOMAIN cards DEF Units
  <2> QED
    BY <1>5, <1>6, <2>1, <2>2, <2>3
<1>10. CASE request.role = "user"
  <2>1. UserMay(request, cards)
    BY <1>2, <1>10 DEF MayMerge
  <2>2. CASE Len(cards) = 1
    BY <1>5, <1>6, <1>8, <1>10, <2>1, <2>2 DEF UserMay, Units
  <2>3. CASE Len(cards) > 1
    BY <1>5, <1>6, <1>10, <2>1, <2>3 DEF UserMay
  <2> QED
    BY <1>8, <2>2, <2>3
<1> QED
  BY <1>1, <1>9, <1>10 DEF Request

(***************************************************************************)
(* Pasted keys                                                             *)
(***************************************************************************)

\* Every key that was pasted is looked for.
LEMMA KeysOnce ==
  ASSUME NEW parts \in Seq(Nat)
  PROVE  /\ NormalizeKeys(parts) \in Seq(Nat)
         /\ \A k \in Range(parts) \ {NoKey} :
              \E i \in DOMAIN NormalizeKeys(parts) : NormalizeKeys(parts)[i] = k
         /\ \A i \in DOMAIN NormalizeKeys(parts) :
              NormalizeKeys(parts)[i] \in Range(parts) \ {NoKey}
<1> DEFINE at == {i \in DOMAIN parts :
                    parts[i] # NoKey /\ \A j \in 1..(i - 1) : parts[j] # parts[i]}
           keys == Picked(parts, at)
<1>1. at \in SUBSET DOMAIN parts /\ NormalizeKeys(parts) = keys
  BY DEF NormalizeKeys
<1>2. ASSUME NEW k \in Range(parts) \ {NoKey} PROVE \E i \in at : parts[i] = k
  <2> DEFINE where == {i \in DOMAIN parts : parts[i] = k}
  <2>1. where \in SUBSET Nat /\ where # {}
    BY DEF Range
  <2>2. PICK m \in where : \A n \in where : m <= n
    <3> HIDE DEF where
    <3> QED
      BY <2>1, Least
  <2>3. \A j \in 1..(m - 1) : parts[j] # parts[m]
    BY <2>2
  <2> QED
    BY <2>2, <2>3
<1>3. \A i \in at : parts[i] \in Range(parts) \ {NoKey}
  BY DEF Range
<1> HIDE DEF at
<1>4. /\ keys \in Seq(Nat)
      /\ \A i \in at : \E k \in DOMAIN keys : keys[k] = parts[i]
      /\ \A k \in DOMAIN keys : \E i \in at : keys[k] = parts[i]
  BY <1>1, PickedSeq
<1> HIDE DEF keys
<1> QED
  BY <1>1, <1>2, <1>3, <1>4

\* Nothing is missing if every key has a card, and then the cards are those of the keys.
LEMMA NoneMissing ==
  ASSUME NEW R, NEW results \in Seq(R), Missing(results) = <<>>
  PROVE  /\ \A k \in DOMAIN results : results[k].card # <<>>
         /\ Found(results) = [k \in DOMAIN results |-> results[k].card[1]]
<1> DEFINE at == {k \in DOMAIN results : results[k].card = <<>>}
           none == Picked(results, at)
<1>1. Missing(results) = [i \in DOMAIN none |-> none[i].key]
  BY DEF Missing
<1>2. at = {}
  <2>1. at \in SUBSET DOMAIN results
    OBVIOUS
  <2>2. \A i \in at : \E k \in DOMAIN Picked(results, at) : Picked(results, at)[k] = results[i]
    BY <2>1, PickedSeq
  <2>3. DOMAIN none = {}
    BY <1>1
  <2> HIDE DEF at
  <2> QED
    BY <2>2, <2>3
<1>3. \A k \in DOMAIN results : results[k].card # <<>>
  BY <1>2
<1>4. {k \in DOMAIN results : results[k].card # <<>>} = DOMAIN results
  BY <1>3
<1>5. Picked(results, DOMAIN results) = results
  BY PickedAll
<1> QED
  BY <1>3, <1>4, <1>5 DEF Found

\* What is read of a token is the token, but for a status that was left out.
LEMMA RawCard ==
  ASSUME NEW raw \in Card
  PROVE  /\ FromRaw(raw) \in Card /\ FromRaw(raw).id = raw.id /\ FromRaw(raw).key = raw.key
         /\ FromRaw(raw).remain = raw.remain /\ (FromRaw(raw).status = 1 => raw.status # 2)
BY DEF FromRaw, Card

LEMMA PastedCountOnceAlways ==
  ASSUME NEW request \in Request, NEW parts \in Seq(Nat), NEW upstream, NEW fetched,
         Answered(parts, upstream, fetched), NEW unit, NEW rank
  PROVE  PastedCountOnce(request, parts, upstream, fetched, unit, rank)
<1> DEFINE keys     == NormalizeKeys(parts)
           asked    == Range(parts) \ {NoKey}
           results  == [k \in DOMAIN keys |-> [key |-> keys[k], card |-> upstream[keys[k]]]]
           found    == Found(results)
           verified == [i \in DOMAIN found |-> FromRaw(fetched[found[i].id])]
           plan     == MergePasted(request, parts, upstream, fetched, unit, rank)
           ids      == {upstream[k][1].id : k \in asked}
           put      == [i \in ids |-> fetched[i].remain]
<1>1. SUFFICES ASSUME plan.ok
               PROVE  /\ \A k \in asked : upstream[k] # <<>>
                      /\ \A k \in asked : fetched[upstream[k][1].id].key = upstream[k][1].key
                      /\ \A i \in ids : fetched[i].status # 2
                      /\ QuotaAsked(request) = <<>> => plan.quota = Total(put, ids)
  BY DEF PastedCountOnce
<1>2. /\ Missing(results) = <<>>
      /\ \A i \in DOMAIN found : SourceFault(found[i], verified[i]) = ""
      /\ plan = MergePlan(request, verified, unit, rank)
  BY <1>1 DEF MergePasted
<1>3. keys \in Seq(Nat)
  BY KeysOnce
<1>a. /\ \A k \in asked : \E i \in DOMAIN keys : keys[i] = k
      /\ \A i \in DOMAIN keys : keys[i] \in asked
  BY KeysOnce
<1> HIDE DEF plan, keys
<1>4. results \in Seq([key : Nat, card : Seq(Card)]) /\ DOMAIN results = DOMAIN keys
  <2>1. \A k \in DOMAIN keys : upstream[keys[k]] \in Seq(Card)
    BY <1>a DEF Answered
  <2>2. \A k \in DOMAIN keys : keys[k] \in Nat
    BY <1>3
  <2>3. DOMAIN keys = 1..Len(keys) /\ Len(keys) \in Nat
    BY <1>3
  <2> QED
    BY <2>1, <2>2, <2>3
<1>5. /\ \A k \in DOMAIN keys : upstream[keys[k]] # <<>>
      /\ found = [k \in DOMAIN keys |-> upstream[keys[k]][1]]
  <2>1. /\ \A k \in DOMAIN results : results[k].card # <<>>
        /\ found = [k \in DOMAIN results |-> results[k].card[1]]
    BY <1>2, <1>4, NoneMissing
  <2>2. \A k \in DOMAIN keys : results[k].card = upstream[keys[k]]
    OBVIOUS
  <2> HIDE DEF results, found
  <2> QED
    BY <1>4, <2>1, <2>2
<1> HIDE DEF results, found
<1>6. \A k \in asked : upstream[k] # <<>>
  BY <1>a, <1>5
<1>7. ASSUME NEW k \in DOMAIN keys
      PROVE  /\ fetched[found[k].id] \in Card /\ fetched[found[k].id].id = found[k].id
             /\ fetched[found[k].id].key = found[k].key
             /\ fetched[found[k].id].status # 2
             /\ verified[k] \in Card
             /\ verified[k].id = found[k].id
             /\ verified[k].remain = fetched[found[k].id].remain
  <2>1. found[k] = upstream[keys[k]][1]
    BY <1>5
  <2>2. fetched[found[k].id] \in Card /\ fetched[found[k].id].id = found[k].id
    BY <1>a, <1>6, <2>1 DEF Answered
  <2>3. verified[k] = FromRaw(fetched[found[k].id])
    BY <1>5
  <2>4. found[k].key = verified[k].key /\ verified[k].status = 1
    BY <1>2, <1>5 DEF SourceFault
  <2> DEFINE raw == fetched[found[k].id]
  <2> HIDE DEF verified, raw
  <2>5. /\ FromRaw(raw) \in Card /\ FromRaw(raw).id = raw.id /\ FromRaw(raw).key = raw.key
        /\ FromRaw(raw).remain = raw.remain /\ (FromRaw(raw).status = 1 => raw.status # 2)
    BY <2>2, RawCard DEF raw
  <2> QED
    BY <2>2, <2>3, <2>4, <2>5 DEF raw
<1>8. \A k \in asked : fetched[upstream[k][1].id].key = upstream[k][1].key
  BY <1>a, <1>5, <1>7
<1>9. \A i \in ids : fetched[i].status # 2
  BY <1>a, <1>5, <1>7
<1>10. ids = {found[k].id : k \in DOMAIN keys}
  BY <1>a, <1>5
<1>11. verified \in Seq(Card) /\ DOMAIN verified = DOMAIN keys /\ Len(verified) = Len(keys)
  <2>1. DOMAIN verified = DOMAIN keys
    BY <1>5
  <2>2. \A i \in DOMAIN verified : verified[i] \in Card
    BY <1>7, <2>1
  <2>3. DOMAIN keys = 1..Len(keys) /\ Len(keys) \in Nat
    BY <1>3
  <2>4. verified = [i \in 1..Len(keys) |-> verified[i]]
    BY <1>5, <2>3
  <2> HIDE DEF verified
  <2> QED
    BY <2>1, <2>2, <2>3, <2>4
<1> HIDE DEF verified, ids
<1>12. ASSUME QuotaAsked(request) = <<>> PROVE plan.quota = Total(put, ids)
  <2>1. Cardinality(Ids(verified)) = Len(verified) /\ plan.quota = Remaining(verified)
    BY <1>1, <1>2, <1>12 DEF MergePlan, TargetPlan
  <2> DEFINE h == [k \in DOMAIN keys |-> found[k].id]
             f == [k \in DOMAIN keys |-> verified[k].remain]
  <2>2. IsFiniteSet(DOMAIN keys) /\ Cardinality(DOMAIN keys) = Len(keys)
    BY <1>3, Positions
  <2>3. {h[k] : k \in DOMAIN keys} = ids /\ Ids(verified) = ids
    BY <1>7, <1>10, <1>11 DEF Ids
  <2>4. Remaining(verified) = Total(f, DOMAIN keys)
    BY <1>11 DEF Remaining
  <2>5. \A k \in DOMAIN keys : f[k] \in Int /\ put[h[k]] = f[k]
    <3>1. \A k \in DOMAIN keys : verified[k].remain \in Int
      BY <1>7 DEF Card
    <3>2. \A k \in DOMAIN keys : found[k].id \in ids
      BY <1>10
    <3> QED
      BY <1>7, <3>1, <3>2
  <2> HIDE DEF h, f, put
  <2>6. \A x, y \in DOMAIN keys : h[x] = h[y] => x = y
    <3>1. Cardinality({h[k] : k \in DOMAIN keys}) = Cardinality(DOMAIN keys)
      BY <1>11, <2>1, <2>2, <2>3
    <3> QED
      BY <2>2, <3>1, Values
  <2>7. Total(put, {h[k] : k \in DOMAIN keys}) = Total(f, DOMAIN keys)
    BY <2>2, <2>5, <2>6, TotalRenamed
  <2> QED
    BY <2>1, <2>3, <2>4, <2>7
<1> QED
  BY <1>6, <1>8, <1>9, <1>12

(***************************************************************************)
(* Traces                                                                  *)
(***************************************************************************)

Touching(records, K) == {m \in DOMAIN records : records[m] \cap K # {}}
KeysOf(records, keys, M) == keys \cup UNION {records[l] : l \in M}

LEMMA RelatedIs ==
  ASSUME NEW records, NEW keys
  PROVE  /\ Related(records, keys) \in SUBSET DOMAIN records
         /\ \A M \in SUBSET DOMAIN records : Connected(records, keys, M) =>
              Related(records, keys) \subseteq M
         /\ \A M \in SUBSET Related(records, keys) :
              Touching(records, KeysOf(records, keys, M)) \subseteq Related(records, keys)
<1>1. /\ Related(records, keys) \in SUBSET DOMAIN records
      /\ \A M \in SUBSET DOMAIN records : Connected(records, keys, M) =>
           Related(records, keys) \subseteq M
  BY DEF Related
<1>2. ASSUME NEW M \in SUBSET Related(records, keys),
             NEW m \in Touching(records, KeysOf(records, keys, M))
      PROVE  m \in Related(records, keys)
  <2>1. SUFFICES ASSUME NEW W \in SUBSET DOMAIN records, Connected(records, keys, W)
                 PROVE  m \in W
    BY DEF Related, Touching
  <2>2. M \subseteq W
    BY <1>1, <2>1
  <2>3. KeysOf(records, keys, M) \subseteq KeysOf(records, keys, W)
    BY <2>2 DEF KeysOf
  <2>4. m \in DOMAIN records /\ records[m] \cap KeysOf(records, keys, W) # {}
    BY <2>3 DEF Touching
  <2> QED
    BY <2>1, <2>4 DEF Connected, KeysOf
<1> QED
  BY <1>1, <1>2

\* What a search knows after n steps: what it found is related, it has seen the keys of
\* all of it, and unless the limit gets in the way it has followed those before the last.
Traced(records, keys, max, n, s) ==
  LET related == Related(records, keys)
  IN  /\ s.found \in SUBSET related
      /\ s.seen = KeysOf(records, keys, s.found)
      /\ s.frontier \subseteq s.seen
      /\ Cardinality(s.found) <= max
      /\ 2 * Cardinality(related) - 1 <= max =>
           s.found = related \/ Touching(records, s.seen \ s.frontier) \subseteq s.found
      /\ s.frontier # {} => Cardinality(s.found) >= n

LEMMA TraceStepKeeps ==
  ASSUME NEW X, NEW records \in Seq(X), NEW keys, NEW max \in Nat, NEW n \in Nat, NEW A,
         NEW s \in [found : SUBSET DOMAIN records, seen : SUBSET A, frontier : SUBSET A],
         Traced(records, keys, max, n, s)
  PROVE  Traced(records, keys, max, n + 1, TraceStep(records, max, s))
<1> DEFINE related == Related(records, keys)
           all  == Touching(records, s.frontier)
           room == max - Cardinality(s.found)
           hits == RecordsOf(records, s.frontier, room)
           new  == hits \ s.found
           more == (UNION {records[m] : m \in new}) \ s.seen
           next == TraceStep(records, max, s)
<1>1. related \in SUBSET DOMAIN records /\ IsFiniteSet(DOMAIN records) /\ DOMAIN records \in SUBSET Int
  <2>1. IsFiniteSet(DOMAIN records)
    BY Positions
  <2>2. DOMAIN records \in SUBSET Int
    OBVIOUS
  <2> QED
    BY <2>1, <2>2, RelatedIs
<1>2. /\ s.found \in SUBSET related
      /\ s.seen = KeysOf(records, keys, s.found)
      /\ s.frontier \subseteq s.seen
      /\ Cardinality(s.found) <= max
      /\ 2 * Cardinality(related) - 1 <= max =>
           s.found = related \/ Touching(records, s.seen \ s.frontier) \subseteq s.found
      /\ s.frontier # {} => Cardinality(s.found) >= n
  BY DEF Traced
<1>3. /\ IsFiniteSet(related) /\ Cardinality(related) \in Nat
      /\ IsFiniteSet(s.found) /\ Cardinality(s.found) \in Nat
      /\ Cardinality(s.found) <= Cardinality(related)
      /\ Cardinality(s.found) = Cardinality(related) => s.found = related
  <2>1. IsFiniteSet(related)
    BY <1>1, FS_Subset
  <2>2. /\ IsFiniteSet(s.found) /\ Cardinality(s.found) <= Cardinality(related)
        /\ Cardinality(related) = Cardinality(s.found) => related = s.found
    BY <1>2, <2>1, FS_Subset
  <2> QED
    BY <2>1, <2>2, FS_CardinalityType
<1>4. all \subseteq related
  <2>1. Touching(records, s.seen) \subseteq related
    BY <1>2, RelatedIs
  <2> QED
    BY <1>2, <2>1 DEF Touching
<1>5. IsFiniteSet(all) /\ all \in SUBSET Int /\ Cardinality(all) <= Cardinality(related)
  <2>1. all \in SUBSET related
    BY <1>4
  <2> QED
    BY <1>1, <1>3, <2>1, FS_Subset
<1>6. /\ IsFiniteSet(hits) /\ Cardinality(hits) <= room
      /\ hits \subseteq all
      /\ room >= Cardinality(all) => hits = all
  <2>1. hits = {m \in all : Cardinality({l \in all : l < m}) < room}
    BY DEF RecordsOf, Touching
  <2>2. room \in Int /\ room >= 0
    BY <1>2, <1>3
  <2> HIDE DEF hits, all, room
  <2> QED
    BY <1>5, <2>1, <2>2, FirstFew
<1>7. ASSUME 2 * Cardinality(related) - 1 <= max, s.found # related PROVE hits = all
  <2>1. Cardinality(s.found) < Cardinality(related)
    BY <1>3, <1>7
  <2>2. room >= Cardinality(all)
    <3>1. Cardinality(all) \in Nat
      BY <1>5, FS_CardinalityType
    <3> HIDE DEF all
    <3> QED
      BY <1>3, <1>5, <1>7, <2>1, <3>1
  <2> QED
    BY <1>6, <2>2
<1>8. ASSUME 2 * Cardinality(related) - 1 <= max, s.found # related
      PROVE  Touching(records, s.seen) \subseteq s.found \cup new
  <2>1. Touching(records, s.seen \ s.frontier) \subseteq s.found
    BY <1>2, <1>8
  <2>2. all \subseteq s.found \cup new
    BY <1>7, <1>8
  <2>3. Touching(records, s.seen) \subseteq Touching(records, s.seen \ s.frontier) \cup all
    BY DEF Touching
  <2> HIDE DEF all, new
  <2> QED
    BY <2>1, <2>2, <2>3
<1> HIDE DEF all, hits, room
<1>9. CASE s.frontier = {} \/ Cardinality(s.found) >= max \/ new = {}
  <2>1. next = [s EXCEPT !.frontier = {}]
    BY <1>9 DEF TraceStep, hits, room
  <2>2. next = [found |-> s.found, seen |-> s.seen, frontier |-> {}]
    BY <2>1
  <2>3. ASSUME 2 * Cardinality(related) - 1 <= max, s.found # related
        PROVE  Touching(records, s.seen) \subseteq s.found
    <3>1. CASE s.frontier = {}
      BY <1>2, <2>3, <3>1, s.seen \ {} = s.seen
    <3>2. CASE Cardinality(s.found) >= max
      <4>1. Cardinality(s.found) = Cardinality(related)
        BY <1>3, <2>3, <3>2
      <4> QED
        BY <1>3, <2>3, <4>1
    <3>3. CASE new = {}
      BY <1>8, <2>3, <3>3
    <3> QED
      BY <1>9, <3>1, <3>2, <3>3
  <2> HIDE DEF next
  <2>4. next.found = s.found /\ next.seen = s.seen /\ next.frontier = {}
    BY <2>2
  <2>5. next.seen \ next.frontier = s.seen
    BY <2>4
  <2> QED
    BY <1>2, <2>2, <2>3, <2>4, <2>5 DEF Traced, next
<1>10. CASE ~ (s.frontier = {} \/ Cardinality(s.found) >= max \/ new = {})
  <2>1. next = [found |-> s.found \cup new, seen |-> s.seen \cup more, frontier |-> more]
    BY <1>10 DEF TraceStep, hits, room
  <2>2. new \subseteq related /\ new \cap s.found = {} /\ new # {}
    BY <1>4, <1>6, <1>10
  <2>3. s.found \cup new \in SUBSET related
    BY <1>2, <2>2
  <2>4. s.seen \cup more = KeysOf(records, keys, s.found \cup new)
    <3> HIDE DEF new
    <3> QED
      BY <1>2 DEF KeysOf
  <2>5. /\ Cardinality(s.found \cup new) <= max
        /\ Cardinality(s.found \cup new) >= Cardinality(s.found) + 1
    <3>1. new \in SUBSET hits
      OBVIOUS
    <3>2. IsFiniteSet(new) /\ Cardinality(new) <= Cardinality(hits)
      BY <1>6, <3>1, FS_Subset
    <3>3. Cardinality(new) \in Nat /\ Cardinality(new) # 0 /\ Cardinality(hits) \in Nat
      BY <1>6, <2>2, <3>2, FS_CardinalityType, FS_EmptySet
    <3>4. s.found \cap new = {} /\ Cardinality({}) = 0
      BY <2>2, FS_EmptySet
    <3>5. Cardinality(s.found \cup new)
            = Cardinality(s.found) + Cardinality(new) - Cardinality(s.found \cap new)
      BY <1>3, <3>2, FS_Union
    <3> HIDE DEF new
    <3>6. Cardinality(s.found \cup new) = Cardinality(s.found) + Cardinality(new)
      <4>1. Cardinality(s.found \cap new) = 0
        BY <3>4
      <4> QED
        BY <1>3, <3>3, <3>5, <4>1
    <3>7. Cardinality(hits) <= max - Cardinality(s.found)
      BY <1>6 DEF room
    <3> QED
      BY <1>3, <3>2, <3>3, <3>6, <3>7
  <2>6. ASSUME 2 * Cardinality(related) - 1 <= max, s.found \cup new # related
        PROVE  Touching(records, (s.seen \cup more) \ more) \subseteq s.found \cup new
    <3>1. s.found # related
      BY <2>2, <2>6
    <3>2. (s.seen \cup more) \ more \subseteq s.seen
      OBVIOUS
    <3>3. Touching(records, (s.seen \cup more) \ more) \subseteq Touching(records, s.seen)
      BY <3>2 DEF Touching
    <3> HIDE DEF new, more
    <3> QED
      BY <1>8, <2>6, <3>1, <3>3
  <2>7. Cardinality(s.found \cup new) >= n + 1
    <3>1. Cardinality(s.found) >= n
      BY <1>2, <1>10
    <3>2. Cardinality(s.found \cup new) \in Nat
      <4>1. IsFiniteSet(s.found \cup new)
        BY <1>3, <2>3, FS_Subset
      <4> QED
        BY <4>1, FS_CardinalityType
    <3> HIDE DEF new
    <3> QED
      BY <1>3, <2>5, <3>1, <3>2
  <2> HIDE DEF next, new, more
  <2>8. next.found = s.found \cup new /\ next.seen = s.seen \cup more /\ next.frontier = more
    BY <2>1
  <2> QED
    BY <2>1, <2>3, <2>4, <2>5, <2>6, <2>7, <2>8 DEF Traced, next
<1> QED
  BY <1>9, <1>10

LEMMA TracesAreFoundAlways ==
  ASSUME NEW X, NEW records \in Seq(X), NEW keys, NEW max \in Nat
  PROVE  TraceFindsRelated(records, keys, max)
<1> DEFINE N == Len(records)
           A == KeysOf(records, keys, DOMAIN records)
           D == [found : SUBSET DOMAIN records, seen : SUBSET A, frontier : SUBSET A]
           init == [found |-> {}, seen |-> keys, frontier |-> keys]
           step == [p \in (1..N) \X D |-> TraceStep(records, max, p[2])]
           states == CHOOSE s : s = [n \in 0..N |-> IF n = 0 THEN init
                                                   ELSE TraceStep(records, max, s[n - 1])]
           related == Related(records, keys)
           found == TracesForKeys(records, keys, max)
<1>1. N \in Nat /\ DOMAIN records = 1..N
  OBVIOUS
<1>2. init \in D
  BY DEF KeysOf
<1>3. ASSUME NEW x \in D PROVE TraceStep(records, max, x) \in D
  <2>1. \A K, limit : RecordsOf(records, K, limit) \in SUBSET DOMAIN records
    BY DEF RecordsOf
  <2>2. x = [found |-> x.found, seen |-> x.seen, frontier |-> x.frontier]
        /\ x.found \in SUBSET DOMAIN records /\ x.seen \in SUBSET A
    OBVIOUS
  <2> DEFINE hits == RecordsOf(records, x.frontier, max - Cardinality(x.found))
             new  == hits \ x.found
             more == (UNION {records[m] : m \in new}) \ x.seen
  <2>3. more \in SUBSET A /\ x.found \cup new \in SUBSET DOMAIN records
    BY <2>1, <2>2 DEF KeysOf
  <2>4. \/ TraceStep(records, max, x) = [x EXCEPT !.frontier = {}]
        \/ TraceStep(records, max, x)
             = [found |-> x.found \cup new, seen |-> x.seen \cup more, frontier |-> more]
    BY DEF TraceStep
  <2> HIDE DEF new, more, A
  <2>5. [x EXCEPT !.frontier = {}] \in D
    OBVIOUS
  <2>6. [found |-> x.found \cup new, seen |-> x.seen \cup more, frontier |-> more] \in D
    BY <2>2, <2>3
  <2> QED
    BY <2>4, <2>5, <2>6
<1> HIDE DEF D, init, A
<1>4. PICK g : Follows(g, N, D, init, step)
  <2>1. Stays(N, D, step)
    BY <1>3 DEF Stays
  <2>2. N \in Nat
    BY <1>1
  <2> HIDE DEF step, N
  <2> QED
    BY <1>2, <2>1, <2>2, Recursion
<1>5. \A n \in 1..N : g[n - 1] \in D /\ g[n] = TraceStep(records, max, g[n - 1])
  <2>1. \A n \in 1..N : n - 1 \in 0..N
    BY <1>1
  <2> QED
    BY <1>4, <2>1 DEF Follows
<1>6. g = [n \in 0..N |-> IF n = 0 THEN init ELSE TraceStep(records, max, g[n - 1])]
  <2>1. \A n \in 0..N : n = 0 \/ n \in 1..N
    BY <1>1
  <2>2. \A n \in 0..N : g[n] = IF n = 0 THEN init ELSE TraceStep(records, max, g[n - 1])
    BY <1>4, <1>5, <2>1 DEF Follows
  <2> QED
    BY <1>4, <2>2 DEF Follows
<1>7. states = [n \in 0..N |-> IF n = 0 THEN init ELSE TraceStep(records, max, states[n - 1])]
  BY <1>6
<1>a. \A n \in 0..N : states[n] \in D
  <2> HIDE DEF states
  <2>1. 0 \in 0..N
    BY <1>1
  <2>2. states[0] = init
    BY <1>7, <2>1
  <2> DEFINE Q == {n \in Nat : n <= N => states[n] \in D}
  <2>3. 0 \in Q
    BY <1>2, <2>2
  <2>4. ASSUME NEW n \in Q \cap Nat PROVE n + 1 \in Q
    <3>1. SUFFICES ASSUME n + 1 <= N PROVE states[n + 1] \in D
      OBVIOUS
    <3>2. n + 1 \in 0..N /\ n + 1 # 0 /\ (n + 1) - 1 = n
      BY <1>1, <3>1
    <3>3. states[n + 1] = TraceStep(records, max, states[n])
      BY <1>7, <3>2
    <3>4. states[n] \in D
      BY <1>1, <3>1
    <3> QED
      BY <1>3, <3>3, <3>4
  <2>5. Nat \subseteq Q
    BY <2>3, <2>4, Induction
  <2> QED
    BY <1>1, <2>5
<1>8. found = states[N].found
  BY DEF TracesForKeys, init
<1>9. /\ states[0] = init
      /\ \A n \in 1..N : states[n] = TraceStep(records, max, states[n - 1])
  <2> HIDE DEF states
  <2>1. \A n \in 0..N : states[n] = IF n = 0 THEN init ELSE TraceStep(records, max, states[n - 1])
    BY <1>7
  <2>2. 0 \in 0..N /\ \A n \in 1..N : n \in 0..N /\ n # 0
    BY <1>1
  <2> QED
    BY <2>1, <2>2
<1> DEFINE P == {n \in Nat : n <= N => Traced(records, keys, max, n, states[n])}
<1> HIDE DEF states, found
<1>10. 0 \in P
  <2>1. init = [found |-> {}, seen |-> keys, frontier |-> keys]
    BY DEF init
  <2>2. KeysOf(records, keys, {}) = keys /\ Touching(records, keys \ keys) = {}
    BY DEF KeysOf, Touching
  <2>a. init.found = {} /\ init.seen = keys /\ init.frontier = keys
    BY <2>1
  <2>b. Touching(records, init.seen \ init.frontier) \subseteq init.found
    BY <2>2, <2>a
  <2>c. Cardinality(init.found) = 0 /\ init.seen = KeysOf(records, keys, init.found)
    BY <2>2, <2>a, FS_EmptySet
  <2>e. init.found \in SUBSET related /\ init.frontier \subseteq init.seen
    BY <2>a
  <2>f. Cardinality(init.found) <= max /\ Cardinality(init.found) >= 0
    BY <2>c
  <2> DEFINE r == Related(records, keys)
             close == Touching(records, init.seen \ init.frontier)
  <2>g. /\ init.found \in SUBSET r /\ init.frontier \subseteq init.seen
        /\ 2 * Cardinality(r) - 1 <= max => init.found = r \/ close \subseteq init.found
    BY <2>b, <2>e
  <2> HIDE DEF r, close
  <2>3. Traced(records, keys, max, 0, init)
    BY <2>c, <2>f, <2>g DEF Traced, r, close
  <2> QED
    BY <1>9, <2>3
<1>11. ASSUME NEW n \in P \cap Nat PROVE n + 1 \in P
  <2>1. SUFFICES ASSUME n + 1 <= N PROVE Traced(records, keys, max, n + 1, states[n + 1])
    OBVIOUS
  <2>2. n + 1 \in 1..N /\ (n + 1) - 1 = n
    BY <1>1, <2>1
  <2>3. states[n + 1] = TraceStep(records, max, states[n])
    BY <1>9, <2>2
  <2>4. Traced(records, keys, max, n, states[n])
    BY <1>1, <2>1
  <2>5. states[n] \in [found : SUBSET DOMAIN records, seen : SUBSET A, frontier : SUBSET A]
    BY <1>a, <1>1, <2>1 DEF D
  <2> QED
    BY <2>3, <2>4, <2>5, TraceStepKeeps
<1>12. Nat \subseteq P
  BY <1>10, <1>11, Induction
<1>13. Traced(records, keys, max, N, states[N])
  BY <1>1, <1>12
<1> DEFINE s == states[N]
<1>14. /\ s.found \in SUBSET related
       /\ s.seen = KeysOf(records, keys, s.found)
       /\ Cardinality(s.found) <= max
       /\ 2 * Cardinality(related) - 1 <= max =>
            s.found = related \/ Touching(records, s.seen \ s.frontier) \subseteq s.found
       /\ s.frontier # {} => Cardinality(s.found) >= N
  BY <1>13 DEF Traced
<1> HIDE DEF s
<1>15. ASSUME 2 * Cardinality(related) - 1 <= max PROVE s.found = related
  <2>1. related \in SUBSET DOMAIN records
    BY RelatedIs
  <2>2. CASE s.frontier = {}
    <3>1. SUFFICES ASSUME Touching(records, s.seen) \subseteq s.found PROVE s.found = related
      BY <1>14, <1>15, <2>2, s.seen \ {} = s.seen
    <3>2. s.found \in SUBSET DOMAIN records /\ Connected(records, keys, s.found)
      BY <1>14, <2>1, <3>1 DEF Connected, Touching, KeysOf
    <3> QED
      BY <1>14, <3>2, RelatedIs
  <2>3. CASE s.frontier # {}
    <3>1. IsFiniteSet(DOMAIN records) /\ Cardinality(DOMAIN records) = N
      BY Positions
    <3>2. s.found \in SUBSET DOMAIN records
      BY <1>14, <2>1
    <3>3. Cardinality(s.found) <= N /\ (Cardinality(DOMAIN records) = Cardinality(s.found) => DOMAIN records = s.found)
      BY <3>1, <3>2, FS_Subset
    <3>4. Cardinality(s.found) >= N /\ Cardinality(s.found) \in Nat
      BY <1>14, <2>3, <3>1, <3>2, FS_Subset, FS_CardinalityType
    <3>5. s.found = DOMAIN records
      BY <1>1, <3>1, <3>3, <3>4
    <3> QED
      BY <1>14, <2>1, <3>5
  <2> QED
    BY <2>2, <2>3
<1>16. found = s.found
  BY <1>8 DEF s
<1> QED
  BY <1>14, <1>15, <1>16 DEF TraceFindsRelated, found

(***************************************************************************)
(* New tokens                                                              *)
(***************************************************************************)

LEMMA FirstOfIs ==
  ASSUME NEW page, DOMAIN page \in SUBSET Nat, NEW fit \in SUBSET DOMAIN page
  PROVE  /\ FirstOf(page, fit) = <<>> => fit = {}
         /\ FirstOf(page, fit) # <<>> => \E i \in fit : FirstOf(page, fit)[1] = page[i]
<1>1. CASE fit = {}
  BY <1>1 DEF FirstOf
<1>2. CASE fit # {}
  <2>1. fit \in SUBSET Nat /\ fit # {}
    BY <1>2
  <2>2. Min(fit) \in fit
    BY <2>1, FirstOne
  <2> QED
    BY <1>2, <2>2 DEF FirstOf
<1> QED
  BY <1>1, <1>2

LEMMA ViewIs ==
  ASSUME NEW own, own.key # EmptyKey, ~own.key.mask, NEW t \in View(own)
  PROVE  /\ t.id \in {0, own.id}
         /\ FullUnmaskedKey(t.key) \in {EmptyKey, own.key}
<1>1. t.id \in {0, own.id} /\ t.key \in {EmptyKey, own.key, [bare |-> own.key.bare, mask |-> TRUE]}
  BY DEF View
<1>2. FullUnmaskedKey([bare |-> own.key.bare, mask |-> TRUE]) = EmptyKey
  BY DEF FullUnmaskedKey, IsMaskedKey
<1>3. FullUnmaskedKey(own.key) \in {EmptyKey, own.key} /\ FullUnmaskedKey(EmptyKey) = EmptyKey
  BY DEF FullUnmaskedKey
<1> QED
  BY <1>1, <1>2, <1>3

LEMMA ResolvedKeyIsOwn ==
  ASSUME NEW own, NEW name, NEW up, TellsTruth(own, name, up),
         ~ResolveTokenKey(own.id, up).failed
  PROVE  ResolveTokenKey(own.id, up).value = own.key
<1> DEFINE asked  == ResolveTokenKey(own.id, up)
           batch  == BatchKeys(up.batch)
           single == SingleKey(up.single)
<1>1. own.key # EmptyKey /\ ~own.key.mask
  BY DEF TellsTruth
<1>2. CASE ~batch.failed /\ own.id \in DOMAIN batch.value
  <2> DEFINE known == {id \in DOMAIN up.batch.value : id > 0 /\ up.batch.value[id] # EmptyKey}
  <2>1. ~up.batch.failed /\ batch = Answer([id \in known |-> up.batch.value[id]])
    BY <1>2 DEF BatchKeys, Failed
  <2>2. batch.value = [id \in known |-> up.batch.value[id]]
    BY <2>1 DEF Answer
  <2>3. own.id \in known /\ batch.value[own.id] = up.batch.value[own.id]
    BY <1>2, <2>2
  <2>4. up.batch.value[own.id] = own.key
    BY <2>1, <2>3 DEF TellsTruth
  <2>5. asked = Answer(batch.value[own.id])
    BY <1>2 DEF ResolveTokenKey
  <2> QED
    BY <2>3, <2>4, <2>5 DEF Answer
<1>3. CASE ~ (~batch.failed /\ own.id \in DOMAIN batch.value) /\ ~single.failed
  <2>1. asked = single
    BY <1>3 DEF ResolveTokenKey
  <2>2. single = up.single /\ ~up.single.failed /\ up.single.value # EmptyKey
    BY <1>3 DEF SingleKey, Failed
  <2> QED
    BY <2>1, <2>2 DEF TellsTruth
<1>4. CASE ~ (~batch.failed /\ own.id \in DOMAIN batch.value) /\ single.failed
  <2>1. /\ ~up.detail.failed /\ FullUnmaskedKey(up.detail.value.key) # EmptyKey
        /\ asked = Answer(FullUnmaskedKey(up.detail.value.key))
    BY <1>4 DEF ResolveTokenKey, Failed
  <2>2. up.detail.value \in View(own)
    BY <2>1 DEF TellsTruth
  <2>3. FullUnmaskedKey(up.detail.value.key) = own.key
    BY <1>1, <2>1, <2>2, ViewIs
  <2> QED
    BY <2>1, <2>3 DEF Answer
<1> QED
  BY <1>2, <1>3, <1>4

LEMMA CreatedKeysAreOwnAlways ==
  ASSUME NEW own, NEW name, NEW up, TellsTruth(own, name, up),
         ~up.create.failed => DOMAIN up.create.value \in SUBSET Nat,
         ~up.search.failed => DOMAIN up.search.value \in SUBSET Nat
  PROVE  CreatedKeyIsOwn(own, name, up)
<1> DEFINE told   == IF up.create.failed THEN <<>> ELSE CreatedToken(up.create.value)
           key    == IF told = <<>> THEN EmptyKey ELSE FullUnmaskedKey(told[1].key)
           search == SearchTokenByName(name, up)
           found  == IF search.failed THEN <<>> ELSE search.value
           listed == FullUnmaskedKey(found[1].key)
           asked  == ResolveTokenKey(found[1].id, up)
           Made(id, k) == [ok |-> TRUE, id |-> id, key |-> k]
           made   == CreateTokenAndResolveKey(name, up)
<1>1. own.key # EmptyKey /\ ~own.key.mask
  BY DEF TellsTruth
<1>2. ASSUME told # <<>> PROVE told[1].id \in {0, own.id} /\ key \in {EmptyKey, own.key}
  <2>1. ~up.create.failed /\ told = CreatedToken(up.create.value)
    BY <1>2
  <2>2. \E i \in DOMAIN up.create.value : told[1] = up.create.value[i]
    <3> DEFINE page == up.create.value
               fit  == {i \in DOMAIN page : HasIdentity(page[i])}
    <3>1. fit \in SUBSET DOMAIN page /\ DOMAIN page \in SUBSET Nat
      BY <2>1
    <3>2. told = FirstOf(page, fit)
      BY <2>1 DEF CreatedToken
    <3> HIDE DEF page, fit, told
    <3>3. \E i \in fit : told[1] = page[i]
      BY <1>2, <3>1, <3>2, FirstOfIs
    <3>4. \E i \in DOMAIN page : told[1] = page[i]
      BY <3>1, <3>3
    <3> QED
      BY <3>4 DEF page
  <2>3. told[1] \in View(own)
    BY <2>1, <2>2 DEF TellsTruth
  <2> QED
    BY <1>1, <1>2, <2>3, ViewIs
<1>3. ASSUME found # <<>>
      PROVE  found[1].id \in {0, own.id} /\ listed \in {EmptyKey, own.key}
  <2>1. ~search.failed /\ found = search.value
    BY <1>3
  <2>2. name # ""
    BY <1>3, <2>1 DEF SearchTokenByName, Answer
  <2>3. ~up.search.failed /\ found = ByName(up.search.value, name)
    BY <2>1, <2>2 DEF SearchTokenByName, Answer, Failed
  <2>4. \E i \in DOMAIN up.search.value :
          found[1] = up.search.value[i] /\ up.search.value[i].name = name
    BY <1>3, <2>3, FirstOfIs DEF ByName
  <2>5. name = own.name
    BY <2>2 DEF TellsTruth
  <2>6. found[1] \in View(own)
    BY <2>3, <2>4, <2>5 DEF TellsTruth
  <2> QED
    BY <1>1, <2>6, ViewIs
<1>4. ASSUME found # <<>>, ~ (found[1].id <= 0), ~asked.failed
      PROVE  found[1].id = own.id /\ asked.value = own.key
  <2>1. found[1].id = own.id
    BY <1>3, <1>4
  <2> QED
    BY <1>4, <2>1, ResolvedKeyIsOwn
<1>5. made = IF up.create.failed THEN Error("create")
             ELSE IF key # EmptyKey /\ told[1].id <= 0 /\ found # <<>> THEN Made(found[1].id, key)
             ELSE IF key # EmptyKey THEN Made(told[1].id, key)
             ELSE IF name = "" \/ search.failed THEN Error("search")
             ELSE IF found = <<>> \/ found[1].id <= 0 THEN Error("not found")
             ELSE IF listed # EmptyKey THEN Made(found[1].id, listed)
             ELSE IF asked.failed THEN Error("key")
             ELSE Made(found[1].id, asked.value)
  BY DEF CreateTokenAndResolveKey
<1>6. key # EmptyKey => told # <<>>
  OBVIOUS
<1>7. \A why : Error(why).ok = FALSE
  BY DEF Error
<1> HIDE DEF told, key, search, found, listed, asked, made
<1>8. made.ok => \/ key # EmptyKey /\ found # <<>> /\ made = Made(found[1].id, key)
                 \/ key # EmptyKey /\ made = Made(told[1].id, key)
                 \/ found # <<>> /\ listed # EmptyKey /\ made = Made(found[1].id, listed)
                 \/ found # <<>> /\ ~ (found[1].id <= 0) /\ ~asked.failed
                    /\ made = Made(found[1].id, asked.value)
  BY <1>5, <1>7
<1>9. made.ok => made.key = own.key /\ made.id \in {0, own.id}
  BY <1>2, <1>3, <1>4, <1>6, <1>8
<1> QED
  BY <1>9 DEF CreatedKeyIsOwn, made

(***************************************************************************)
(* Names of batches                                                        *)
(***************************************************************************)

LEMMA LastOf ==
  ASSUME NEW S \in SUBSET Nat, S # {}, IsFiniteSet(S)
  PROVE  Max(S) \in S /\ \A n \in S : n <= Max(S)
<1>1. \E m \in S : \A n \in S : m >= n
  BY Greatest
<1> QED
  BY <1>1 DEF Max

LEMMA PartOfList ==
  ASSUME NEW X, NEW list \in Seq(X), NEW m \in 1..Len(list), NEW n \in 1..Len(list)
  PROVE  SubSeq(list, m, n) \in Seq(X) /\ Len(SubSeq(list, m, n)) <= Len(list)
  OBVIOUS

LEMMA TrimDashesIs ==
  ASSUME NEW X, NEW slug \in Seq(X)
  PROVE  TrimDashes(slug) \in Seq(X) /\ Len(TrimDashes(slug)) <= Len(slug)
<1> DEFINE kept == {i \in DOMAIN slug : slug[i] # "-"}
<1>1. DOMAIN slug = 1..Len(slug) /\ Len(slug) \in Nat
  OBVIOUS
<1>2. kept \in SUBSET (1..Len(slug)) /\ IsFiniteSet(kept) /\ kept \in SUBSET Nat
  BY <1>1, Positions, FS_Subset
<1>3. CASE kept = {}
  BY <1>3 DEF TrimDashes
<1>4. CASE kept # {}
  <2>1. Min(kept) \in kept /\ Max(kept) \in kept
    BY <1>2, <1>4, LastOf, FirstOne
  <2>2. Min(kept) \in 1..Len(slug) /\ Max(kept) \in 1..Len(slug)
    BY <1>2, <2>1
  <2>3. TrimDashes(slug) = SubSeq(slug, Min(kept), Max(kept))
    BY <1>4 DEF TrimDashes
  <2> HIDE DEF kept
  <2> QED
    BY <2>2, <2>3, PartOfList
<1> QED
  BY <1>3, <1>4

LEMMA TruncateIs ==
  ASSUME NEW X, NEW slug \in Seq(X), NEW max \in Nat \ {0}
  PROVE  Truncate(slug, max) \in Seq(X) /\ Len(Truncate(slug, max)) <= max
<1> DEFINE trimmed == TrimDashes(slug)
           cut == IF Len(trimmed) > max THEN SubSeq(trimmed, 1, max) ELSE trimmed
<1>1. trimmed \in Seq(X)
  BY TrimDashesIs
<1>2. cut \in Seq(X) /\ Len(cut) <= max /\ Len(cut) \in Nat
  <2> HIDE DEF trimmed
  <2>1. CASE Len(trimmed) > max
    BY <1>1, <2>1
  <2>2. CASE ~ (Len(trimmed) > max)
    BY <1>1, <2>2
  <2> QED
    BY <2>1, <2>2
<1>3. Truncate(slug, max) = TrimDashes(cut)
  BY DEF Truncate
<1> HIDE DEF cut
<1>4. TrimDashes(cut) \in Seq(X) /\ Len(TrimDashes(cut)) <= Len(cut)
  BY <1>2, TrimDashesIs
<1>5. Len(TrimDashes(cut)) \in Nat
  BY <1>4
<1> QED
  BY <1>2, <1>3, <1>4, <1>5

LEMMA SanitizeIs ==
  ASSUME NEW X, "-" \in X, NEW slug \in Seq(X)
  PROVE  Sanitize(slug) \in Seq(X)
<1> DEFINE at == {i \in DOMAIN slug :
               slug[i] \notin {"-", "_"} \/ (i > 1 /\ slug[i - 1] \notin {"-", "_"})}
           dashed == [i \in DOMAIN slug |-> IF slug[i] = "_" THEN "-" ELSE slug[i]]
<1>1. dashed \in Seq(X) /\ DOMAIN dashed = DOMAIN slug
  <2>1. slug \in [1..Len(slug) -> X] /\ Len(slug) \in Nat /\ DOMAIN slug = 1..Len(slug)
    OBVIOUS
  <2>2. \A i \in DOMAIN slug : (IF slug[i] = "_" THEN "-" ELSE slug[i]) \in X
    BY <2>1
  <2>3. dashed \in [1..Len(slug) -> X]
    BY <2>1, <2>2, Zenon
  <2> HIDE DEF dashed
  <2> QED
    BY <2>1, <2>3
<1>2. at \in SUBSET DOMAIN dashed
  BY <1>1
<1>3. Sanitize(slug) = TrimDashes(Picked(dashed, at))
  BY DEF Sanitize
<1> HIDE DEF at, dashed
<1>4. Picked(dashed, at) \in Seq(X)
  BY <1>1, <1>2, PickedSeq
<1> QED
  BY <1>3, <1>4, TrimDashesIs

\* The names of a batch of any size the shop makes fit upstream and differ, whatever the
\* slug of the plan.
LEMMA BatchNamesFitAlways ==
  ASSUME NEW Letters, NEW slug \in Seq(Letters), NEW total \in 1..MaxTarget
  PROVE  BatchNamesFit(slug, total)
<1> DEFINE X == Letters \cup {"-", "t", "o", "k", "e", "n"}
           clean == Sanitize(slug)
           named == IF clean = <<>> THEN <<"t", "o", "k", "e", "n">> ELSE clean
           cut   == Truncate(named, Room(total))
           prefix == IF cut = <<>> THEN <<"s", "a", "l", "e">> ELSE cut
           tail  == IF total <= 1 THEN 0 ELSE 1 + SeqWidth(total)
<1>1. total \in Int /\ SeqWidth(total) \in 2..4
  BY DEF SeqWidth, MaxTarget
<1>2. /\ Room(total) \in Nat \ {0} /\ Room(total) >= 4 /\ tail \in Nat
      /\ Room(total) + 1 + StampLength + tail = MaxName
  BY <1>1 DEF Room, MaxName, StampLength
<1>3. named \in Seq(X)
  <2>1. <<"t", "o", "k", "e", "n">> \in Seq(X)
    <3>1. "t" \in X /\ "o" \in X /\ "k" \in X /\ "e" \in X /\ "n" \in X
      OBVIOUS
    <3> HIDE DEF X
    <3> QED
      BY <3>1
  <2>2. clean \in Seq(X)
    <3>1. slug \in Seq(X) /\ "-" \in X
      OBVIOUS
    <3> HIDE DEF X
    <3> QED
      BY <3>1, SanitizeIs
  <2> HIDE DEF clean
  <2> QED
    BY <2>1, <2>2
<1>4. cut \in Seq(X) /\ Len(cut) <= Room(total) /\ Len(cut) \in Nat
  <2> HIDE DEF named
  <2> QED
    BY <1>2, <1>3, TruncateIs
<1>5. Len(prefix) \in Nat /\ Len(prefix) <= Room(total)
  <2> HIDE DEF cut
  <2>1. Len(<<"s", "a", "l", "e">>) = 4
    OBVIOUS
  <2> QED
    BY <1>2, <1>4, <2>1
<1>6. \A i : BatchName(slug, i, total) =
               [prefix |-> prefix, seq |-> IF total <= 1 THEN 0 ELSE i + 1,
                length |-> Len(prefix) + 1 + StampLength + tail]
  BY DEF BatchName
<1> HIDE DEF prefix, tail
<1>7. \A i \in 0..(total - 1) : BatchName(slug, i, total).length <= MaxName
  BY <1>2, <1>5, <1>6 DEF MaxName, StampLength
<1>8. \A i, j \in 0..(total - 1) :
        BatchName(slug, i, total) = BatchName(slug, j, total) => i = j
  <2> TAKE i, j \in 0..(total - 1)
  <2>1. HAVE BatchName(slug, i, total) = BatchName(slug, j, total)
  <2>2. BatchName(slug, i, total).seq = BatchName(slug, j, total).seq
    BY <2>1
  <2>3. (IF total <= 1 THEN 0 ELSE i + 1) = (IF total <= 1 THEN 0 ELSE j + 1)
    BY <1>6, <2>2
  <2> QED
    BY <1>1, <2>3
<1> QED
  BY <1>7, <1>8 DEF BatchNamesFit

(***************************************************************************)
(* Schedules                                                               *)
(***************************************************************************)

LEMMA NoJobFault ==
  ASSUME NEW group, NEW X, NEW jobs \in Seq(X)
  PROVE  JobFault(group, jobs) = "" <=> \A i \in DOMAIN jobs : WhyNot(group, jobs, i) = ""
<1> DEFINE bad == {i \in DOMAIN jobs : WhyNot(group, jobs, i) # ""}
<1>1. bad \in SUBSET Nat
  BY Entry
<1>2. bad # {} => Min(bad) \in bad
  <2> HIDE DEF bad
  <2> QED
    BY <1>1, FirstOne
<1>3. JobFault(group, jobs) = IF bad = {} THEN "" ELSE WhyNot(group, jobs, Min(bad))
  BY DEF JobFault
<1>4. bad # {} => WhyNot(group, jobs, Min(bad)) # ""
  BY <1>2
<1>5. bad = {} <=> \A i \in DOMAIN jobs : WhyNot(group, jobs, i) = ""
  OBVIOUS
<1> HIDE DEF bad
<1> QED
  BY <1>3, <1>4, <1>5

LEMMA NoSlotFault ==
  ASSUME NEW slot
  PROVE  SlotFault(slot) = "" <=> JobFault(slot.group, slot.jobs) = "" /\ ValidTime(slot.time)
BY DEF SlotFault

\* A schedule that is accepted is what was posted, a slot for each group.
LEMMA AcceptedSchedule ==
  ASSUME NEW posted
  PROVE  LET slots == [i \in DOMAIN Groups |-> SlotFor(Groups[i], posted.slots)]
             zone  == ZoneOr(posted.zone)
             good  == (\A i \in DOMAIN Groups : SlotFault(slots[i]) = "") /\ zone \in Zones
         IN  /\ NormalizeSchedule(posted).ok <=> good
             /\ good => NormalizeSchedule(posted).schedule
                          = [enabled |-> posted.enabled, zone |-> zone, slots |-> slots]
<1> DEFINE slots == [i \in DOMAIN Groups |-> SlotFor(Groups[i], posted.slots)]
           zone  == ZoneOr(posted.zone)
           faults == {i \in DOMAIN slots : SlotFault(slots[i]) # ""}
           accepted == [enabled |-> posted.enabled, zone |-> zone, slots |-> slots]
<1>1. NormalizeSchedule(posted) =
        IF faults # {} THEN Refused(SlotFault(slots[Min(faults)]))
        ELSE IF zone \notin Zones THEN Refused("zone")
        ELSE [ok |-> TRUE, schedule |-> accepted]
  BY DEF NormalizeSchedule
<1>2. faults = {} <=> \A i \in DOMAIN Groups : SlotFault(slots[i]) = ""
  OBVIOUS
<1>3. \A why : Refused(why).ok = FALSE
  BY DEF Refused
<1> HIDE DEF faults, slots, zone, accepted
<1>4. NormalizeSchedule(posted).ok <=> (faults = {} /\ zone \in Zones)
  BY <1>1, <1>3
<1>5. (faults = {} /\ zone \in Zones) => NormalizeSchedule(posted).schedule = accepted
  BY <1>1
<1> QED
  BY <1>2, <1>4, <1>5 DEF slots, zone, accepted

\* The slots a schedule has after it was accepted: those of the groups.
OfGroups(slots) ==
  /\ slots \in [DOMAIN Groups -> Slots]
  /\ \A i \in DOMAIN Groups : slots[i].group = Groups[i].group /\ slots[i].time # NoTime

LEMMA MinuteIs ==
  ASSUME NEW t \in 0..1439
  PROVE  t \in Int /\ t # NoTime
BY DEF NoTime

LEMMA GroupIs ==
  ASSUME NEW i \in DOMAIN Groups
  PROVE  /\ i \in Nat /\ Groups[i].group \in STRING
         /\ Groups[i].time \in 0..1439 /\ Groups[i].time \in Int /\ Groups[i].time # NoTime
         /\ \A j \in DOMAIN Groups : Groups[i].group = Groups[j].group => i = j
<1>1. Groups \in Seq([group : STRING, time : 0..1439])
  BY HostAssumption
<1> DEFINE G == [group : STRING, time : 0..1439]
<1>2. i \in Nat /\ Groups[i] \in G
  <2>1. Groups \in Seq(G)
    BY <1>1
  <2> HIDE DEF G
  <2> QED
    BY <2>1, Entry
<1>3. Groups[i].group \in STRING /\ Groups[i].time \in 0..1439
  BY <1>2
<1>4. Groups[i].time \in Int /\ Groups[i].time # NoTime
  BY <1>3, MinuteIs
<1> QED
  BY <1>2, <1>3, <1>4, HostAssumption

LEMMA DefaultJobsAre ==
  ASSUME NEW group
  PROVE  /\ DefaultJobs(group) \in Seq(Jobs)
         /\ \A i \in DOMAIN DefaultJobs(group) : WhyNot(group, DefaultJobs(group), i) = ""
<1> DEFINE at == {i \in DOMAIN PlanOrder : PlanSlot(PlanOrder[i]) = group}
           of == Picked(PlanOrder, at)
           jobs == [i \in DOMAIN of |-> [plan |-> of[i], target |-> 0, enabled |-> FALSE]]
<1>1. PlanOrder \in Seq(Plans) /\ Plans \subseteq STRING
  BY HostAssumption DEF Plans
<1>2. at \in SUBSET DOMAIN PlanOrder
  OBVIOUS
<1>3. jobs = DefaultJobs(group)
  BY DEF DefaultJobs
<1>4. /\ of \in Seq(Plans)
      /\ \A k \in DOMAIN of : \E i \in at : of[k] = PlanOrder[i]
  <2> HIDE DEF at
  <2> QED
    BY <1>1, <1>2, PickedSeq
<1>5. \A j, k \in DOMAIN of : j < k => of[j] # of[k]
  <2>1. IsFiniteSet(at) /\ at \in SUBSET Int
    <3> HIDE DEF at
    <3> QED
      BY <1>1, <1>2, PickedSeq
  <2> DEFINE o == Ascending(at)
  <2>2. /\ o \in [1..Cardinality(at) -> at]
        /\ \A j, k \in 1..Cardinality(at) : j < k => o[j] < o[k]
    <3> HIDE DEF at
    <3> QED
      BY <2>1, AscendingIs
  <2>3. of = [k \in DOMAIN o |-> PlanOrder[o[k]]]
    BY DEF Picked
  <2>4. DOMAIN o = 1..Cardinality(at) /\ DOMAIN of = 1..Cardinality(at)
    <3> HIDE DEF o, at
    <3> QED
      BY <2>2, <2>3
  <2> HIDE DEF o, of
  <2> TAKE j, k \in DOMAIN of
  <2>5. HAVE j < k
  <2>6. o[j] \in at /\ o[k] \in at /\ o[j] < o[k] /\ of[j] = PlanOrder[o[j]] /\ of[k] = PlanOrder[o[k]]
    <3> HIDE DEF at
    <3> QED
      BY <2>2, <2>3, <2>4, <2>5
  <2>7. o[j] \in Int /\ o[k] \in Int
    BY <2>1, <2>6
  <2>8. o[j] # o[k]
    BY <2>6, <2>7
  <2>9. PlanOrder[o[j]] # PlanOrder[o[k]]
    BY <2>6, <2>8, HostAssumption
  <2> QED
    BY <2>6, <2>9
<1>6. \A k \in DOMAIN of : of[k] \in Plans /\ PlanSlot(of[k]) = group
  BY <1>1, <1>4
<1>7. DOMAIN of = 1..Len(of) /\ Len(of) \in Nat
  BY <1>4
<1> HIDE DEF of
<1>8. jobs \in Seq(Jobs)
  <2>1. \A i \in DOMAIN of : [plan |-> of[i], target |-> 0, enabled |-> FALSE] \in Jobs
    <3> HIDE DEF at
    <3>1. \A i \in DOMAIN of : of[i] \in STRING
      BY <1>1, <1>6
    <3> QED
      BY <3>1 DEF Jobs
  <2> QED
    BY <1>7, <2>1
<1>9. ASSUME NEW i \in DOMAIN jobs PROVE WhyNot(group, jobs, i) = ""
  <2>1. DOMAIN jobs = DOMAIN of /\ jobs[i].plan = of[i] /\ jobs[i].target = 0
    OBVIOUS
  <2>2. \A k \in 1..(i - 1) : k \in DOMAIN of /\ jobs[k].plan = of[k] /\ k < i
    BY <1>7
  <2>3. \A k \in 1..(i - 1) : jobs[k].plan # jobs[i].plan
    BY <1>5, <2>1, <2>2
  <2> HIDE DEF jobs
  <2> QED
    BY <1>6, <2>1, <2>3 DEF WhyNot, MaxTarget
<1> QED
  BY <1>3, <1>8, <1>9

LEMMA SlotForIs ==
  ASSUME NEW i \in DOMAIN Groups, NEW submitted \in Seq(Slots)
  PROVE  LET s == SlotFor(Groups[i], submitted)
         IN  s \in Slots /\ s.group = Groups[i].group /\ s.time # NoTime
<1> DEFINE def == Groups[i]
           own == {k \in DOMAIN submitted : submitted[k].group = def.group}
           s   == submitted[Max(own)]
<1>1. def.group \in STRING /\ def.time \in Int /\ def.time # NoTime
  BY GroupIs
<1>2. CASE own = {}
  <2>1. SlotFor(def, submitted) = [group |-> def.group, time |-> def.time, enabled |-> FALSE,
                                   jobs |-> DefaultJobs(def.group)]
    BY <1>2 DEF SlotFor
  <2>2. DefaultJobs(def.group) \in Seq(Jobs)
    BY DefaultJobsAre
  <2> QED
    BY <1>1, <2>1, <2>2 DEF Slots
<1>3. CASE own # {}
  <2>1. own \in SUBSET Nat /\ IsFiniteSet(own)
    <3>1. own \in SUBSET DOMAIN submitted /\ IsFiniteSet(DOMAIN submitted) /\ DOMAIN submitted \in SUBSET Nat
      BY Positions
    <3> HIDE DEF own
    <3> QED
      BY <3>1, FS_Subset
  <2>2. Max(own) \in own
    <3> HIDE DEF own
    <3> QED
      BY <1>3, <2>1, LastOf
  <2>3. s \in Slots /\ s.group = def.group
    BY <2>2
  <2>5. SlotFor(def, submitted) = [s EXCEPT !.time = IF s.time = NoTime THEN def.time ELSE s.time]
    BY <1>3 DEF SlotFor
  <2> HIDE DEF s, def
  <2> QED
    BY <1>1, <2>3, <2>5 DEF Slots, def
<1> QED
  BY <1>2, <1>3

\* What was accepted is accepted again, as it is.
LEMMA SlotStays ==
  ASSUME NEW slots, OfGroups(slots), NEW i \in DOMAIN Groups
  PROVE  SlotFor(Groups[i], slots) = slots[i]
<1> DEFINE own == {k \in DOMAIN slots : slots[k].group = Groups[i].group}
<1>1. own = {i}
  <2>1. DOMAIN slots = DOMAIN Groups
    BY DEF OfGroups
  <2>2. \A k \in DOMAIN Groups : slots[k].group = Groups[i].group <=> k = i
    BY GroupIs DEF OfGroups
  <2> QED
    BY <2>1, <2>2
<1>2. i \in Nat
  BY GroupIs
<1>3. Max(own) = i
  BY <1>1, <1>2 DEF Max
<1>4. SlotFor(Groups[i], slots)
        = [slots[i] EXCEPT !.time = IF slots[i].time = NoTime THEN Groups[i].time ELSE slots[i].time]
  <2>1. own # {}
    BY <1>1
  <2> HIDE DEF own
  <2> QED
    BY <1>3, <2>1 DEF SlotFor, own
<1>5. slots[i] \in Slots /\ slots[i].time # NoTime
  BY DEF OfGroups
<1> QED
  BY <1>4, <1>5 DEF Slots

LEMMA WhatIsAccepted ==
  ASSUME NEW posted \in Schedules, NormalizeSchedule(posted).ok
  PROVE  LET saved == NormalizeSchedule(posted).schedule
         IN  /\ OfGroups(saved.slots) /\ saved.zone \in Zones /\ saved.zone # ""
             /\ \A i \in DOMAIN Groups : SlotFault(saved.slots[i]) = ""
<1> DEFINE slots == [i \in DOMAIN Groups |-> SlotFor(Groups[i], posted.slots)]
           zone  == ZoneOr(posted.zone)
           saved == NormalizeSchedule(posted).schedule
<1>1. /\ \A i \in DOMAIN Groups : SlotFault(slots[i]) = ""
      /\ zone \in Zones
      /\ saved = [enabled |-> posted.enabled, zone |-> zone, slots |-> slots]
  BY AcceptedSchedule
<1>2. zone # ""
  BY DEF ZoneOr
<1>3. OfGroups(slots)
  <2>1. posted.slots \in Seq(Slots)
    BY DEF Schedules
  <2>2. \A i \in DOMAIN Groups : slots[i] \in Slots /\ slots[i].group = Groups[i].group
                                 /\ slots[i].time # NoTime
    BY <2>1, SlotForIs
  <2> QED
    BY <2>2 DEF OfGroups
<1>4. saved.slots = slots /\ saved.zone = zone
  <2> HIDE DEF slots, zone, saved
  <2> QED
    BY <1>1
<1> HIDE DEF slots, zone, saved
<1> QED
  BY <1>1, <1>2, <1>3, <1>4 DEF saved

\* Any schedule with a fitting slot for each group is accepted as it is.
LEMMA FittingIsAccepted ==
  ASSUME NEW saved, OfGroups(saved.slots), saved.zone \in Zones, saved.zone # "",
         \A i \in DOMAIN Groups : SlotFault(saved.slots[i]) = ""
  PROVE  /\ NormalizeSchedule(saved).ok
         /\ NormalizeSchedule(saved).schedule
              = [enabled |-> saved.enabled, zone |-> saved.zone, slots |-> saved.slots]
<1> DEFINE slots == [i \in DOMAIN Groups |-> SlotFor(Groups[i], saved.slots)]
           zone  == ZoneOr(saved.zone)
<1>1. zone = saved.zone
  BY DEF ZoneOr
<1>2. \A i \in DOMAIN Groups : slots[i] = saved.slots[i]
  BY SlotStays
<1>3. slots = saved.slots
  <2>1. saved.slots \in [DOMAIN Groups -> Slots]
    BY DEF OfGroups
  <2>2. slots = [i \in DOMAIN Groups |-> slots[i]]
    OBVIOUS
  <2>3. saved.slots = [i \in DOMAIN Groups |-> saved.slots[i]]
    BY <2>1
  <2> HIDE DEF slots
  <2> QED
    BY <1>2, <2>2, <2>3
<1>4. \A i \in DOMAIN Groups : SlotFault(slots[i]) = ""
  BY <1>2
<1>5. /\ NormalizeSchedule(saved).ok
      /\ NormalizeSchedule(saved).schedule = [enabled |-> saved.enabled, zone |-> zone, slots |-> slots]
  <2>1. zone \in Zones
    BY <1>1
  <2> QED
    BY <1>4, <2>1, AcceptedSchedule
<1> QED
  BY <1>1, <1>3, <1>5

LEMMA DefaultIsAccepted == NormalizeSchedule(DefaultSchedule).ok
<1> DEFINE slots == DefaultSchedule.slots
<1>1. /\ DefaultSchedule.zone = "Asia/Shanghai"
      /\ slots = [i \in DOMAIN Groups |->
           [group |-> Groups[i].group, time |-> Groups[i].time, enabled |-> FALSE,
            jobs |-> DefaultJobs(Groups[i].group)]]
  BY DEF DefaultSchedule
<1>2. ASSUME NEW i \in DOMAIN Groups
      PROVE  /\ slots[i] \in Slots /\ slots[i].group = Groups[i].group
             /\ slots[i].time = Groups[i].time /\ slots[i].jobs = DefaultJobs(Groups[i].group)
  <2>1. slots[i] = [group |-> Groups[i].group, time |-> Groups[i].time, enabled |-> FALSE,
                    jobs |-> DefaultJobs(Groups[i].group)]
    BY <1>1
  <2>2. DefaultJobs(Groups[i].group) \in Seq(Jobs)
    BY DefaultJobsAre
  <2>3. Groups[i].group \in STRING /\ Groups[i].time \in Int
    BY GroupIs
  <2> HIDE DEF slots
  <2> QED
    BY <2>1, <2>2, <2>3 DEF Slots
<1> HIDE DEF slots
<1>3. OfGroups(slots)
  <2>1. slots \in [DOMAIN Groups -> Slots]
    BY <1>1, <1>2
  <2>2. \A i \in DOMAIN Groups : slots[i].group = Groups[i].group /\ slots[i].time # NoTime
    BY <1>2, GroupIs
  <2> QED
    BY <2>1, <2>2 DEF OfGroups
<1>4. ASSUME NEW i \in DOMAIN Groups PROVE SlotFault(slots[i]) = ""
  <2> DEFINE jobs == DefaultJobs(Groups[i].group)
  <2>1. jobs \in Seq(Jobs) /\ \A k \in DOMAIN jobs : WhyNot(Groups[i].group, jobs, k) = ""
    BY DefaultJobsAre
  <2> HIDE DEF jobs
  <2>2. JobFault(Groups[i].group, jobs) = ""
    BY <2>1, NoJobFault
  <2>3. ValidTime(slots[i].time)
    BY <1>2, GroupIs DEF ValidTime
  <2>4. JobFault(slots[i].group, slots[i].jobs) = ""
    BY <1>2, <2>2 DEF jobs
  <2> QED
    BY <2>3, <2>4, NoSlotFault
<1>5. DefaultSchedule.zone \in Zones /\ DefaultSchedule.zone # ""
  BY <1>1, HostAssumption
<1> QED
  BY <1>3, <1>4, <1>5, FittingIsAccepted DEF slots

\* What a slot without a fault makes due is within the limits, a plan at most once.
LEMMA SoundSlot ==
  ASSUME NEW slot \in Slots, SlotFault(slot) = "", NEW i \in DOMAIN slot.jobs
  PROVE  /\ slot.jobs[i].target \in 0..MaxTarget
         /\ slot.jobs[i].plan \in Plans /\ PlanSlot(slot.jobs[i].plan) = slot.group
         /\ \A k \in DOMAIN slot.jobs : slot.jobs[k].plan = slot.jobs[i].plan => k = i
<1> DEFINE jobs == slot.jobs
           group == slot.group
<1>1. jobs \in Seq(Jobs)
  BY DEF Slots
<1>2. JobFault(group, jobs) = ""
  BY NoSlotFault
<1> HIDE DEF jobs, group
<1>3. \A k \in DOMAIN jobs : WhyNot(group, jobs, k) = ""
  BY <1>1, <1>2, NoJobFault
<1>4. \A k \in DOMAIN jobs :
        /\ jobs[k].plan \in Plans /\ PlanSlot(jobs[k].plan) = group
        /\ \A m \in 1..(k - 1) : jobs[m].plan # jobs[k].plan
        /\ jobs[k].target \in 0..MaxTarget
  <2> TAKE k \in DOMAIN jobs
  <2>1. WhyNot(group, jobs, k) = ""
    BY <1>3
  <2>2. jobs[k].plan \in Plans
    BY <2>1 DEF WhyNot
  <2>3. PlanSlot(jobs[k].plan) = group
    BY <2>1, <2>2 DEF WhyNot
  <2>4. ~ \E m \in 1..(k - 1) : jobs[m].plan = jobs[k].plan
    BY <2>1, <2>2, <2>3 DEF WhyNot
  <2>5. jobs[k].target \in 0..MaxTarget
    BY <2>1, <2>2, <2>3, <2>4 DEF WhyNot
  <2> QED
    BY <2>2, <2>3, <2>4, <2>5
<1>5. i \in DOMAIN jobs
  BY DEF jobs
<1> DEFINE plans == [k \in DOMAIN jobs |-> jobs[k].plan]
<1>6. plans \in Seq({jobs[k].plan : k \in DOMAIN jobs})
  <2> DEFINE Y == {jobs[k].plan : k \in DOMAIN jobs}
  <2>1. plans \in [DOMAIN jobs -> Y]
    OBVIOUS
  <2> HIDE DEF plans, Y
  <2>2. plans \in Seq(Y)
    BY <1>1, <2>1, SameLength
  <2> QED
    BY <2>2 DEF Y
<1>7. \A k \in DOMAIN jobs : jobs[k].plan = jobs[i].plan => k = i
  <2>1. DOMAIN plans = DOMAIN jobs /\ \A k \in DOMAIN jobs : plans[k] = jobs[k].plan
    OBVIOUS
  <2> HIDE DEF plans
  <2>2. \A k \in DOMAIN plans : \A m \in 1..(k - 1) : plans[m] # plans[k]
    BY <1>1, <1>4, <2>1, Before
  <2>3. \A m, k \in DOMAIN plans : plans[m] = plans[k] => m = k
    BY <1>6, <2>2, NoneBefore
  <2> QED
    BY <1>5, <2>1, <2>3
<1> QED
  BY <1>4, <1>5, <1>7 DEF jobs, group

\* A schedule that was accepted is read back as it was, and makes due what is allowed.
LEMMA SavedScheduleWorksAlways ==
  ASSUME NEW posted \in Schedules, NEW minute
  PROVE  SavedScheduleWorks(posted, minute)
<1> DEFINE stored == SaveSchedule(<<>>, posted)
           loaded == LoadSchedule(stored)
           saved  == NormalizeSchedule(posted).schedule
           due    == DueJobs(stored, minute)
<1>1. stored = IF NormalizeSchedule(posted).ok THEN <<saved>> ELSE <<>>
  BY DEF SaveSchedule
<1>2. CASE ~NormalizeSchedule(posted).ok
  <2>1. stored = <<>>
    BY <1>1, <1>2
  <2>2. loaded = [ok |-> TRUE, schedule |-> DefaultSchedule]
    BY <2>1 DEF LoadSchedule
  <2>3. loaded.ok /\ loaded.schedule.enabled = FALSE
    BY <2>2 DEF DefaultSchedule
  <2>4. due = {}
    <3> HIDE DEF loaded
    <3> QED
      BY <2>3 DEF DueJobs, loaded
  <2> HIDE DEF stored, due
  <2>5. \A job \in due :
           /\ job.target \in 1..MaxTarget /\ PlanSlot(job.plan) = job.group
           /\ \A other \in due : other.plan = job.plan => other = job
    BY <2>4
  <2> QED
    BY <2>1, <2>3, <2>5, DefaultIsAccepted DEF SavedScheduleWorks, stored, due
<1>3. CASE NormalizeSchedule(posted).ok
  <2> DEFINE slots == saved.slots
  <2>1. stored = <<saved>> /\ stored # <<>> /\ stored[1] = saved
    BY <1>1, <1>3
  <2>2. /\ OfGroups(slots) /\ saved.zone \in Zones /\ saved.zone # ""
        /\ \A i \in DOMAIN Groups : SlotFault(slots[i]) = ""
    BY <1>3, WhatIsAccepted
  <2>3. loaded = NormalizeSchedule(saved)
    BY <2>1 DEF LoadSchedule
  <2>4. /\ loaded.ok
        /\ loaded.schedule = [enabled |-> saved.enabled, zone |-> saved.zone, slots |-> slots]
    BY <2>2, <2>3, FittingIsAccepted
  <2>5. saved = [enabled |-> saved.enabled, zone |-> saved.zone, slots |-> slots]
    <3>1. saved = [enabled |-> posted.enabled, zone |-> ZoneOr(posted.zone),
                   slots |-> [i \in DOMAIN Groups |-> SlotFor(Groups[i], posted.slots)]]
      BY <1>3, AcceptedSchedule
    <3> HIDE DEF saved
    <3> QED
      BY <3>1
  <2>6. loaded.schedule = stored[1]
    BY <2>1, <2>4, <2>5
  <2> HIDE DEF stored, loaded, saved, slots
  <2>7. \A job \in due :
          \E i \in DOMAIN Groups : \E k \in DOMAIN slots[i].jobs :
            job = [group |-> slots[i].group, plan |-> slots[i].jobs[k].plan,
                   target |-> slots[i].jobs[k].target] /\ slots[i].jobs[k].target > 0
    <3> DEFINE at == {s \in Range(loaded.schedule.slots) : s.enabled /\ s.time = minute}
    <3>1. loaded.schedule.slots = slots
      BY <2>4
    <3>2. \A job \in due : \E s \in at : \E j \in Range(s.jobs) :
            job = [group |-> s.group, plan |-> j.plan, target |-> j.target] /\ j.target > 0
      BY DEF DueJobs, loaded
    <3>3. \A s \in at : \E i \in DOMAIN Groups : s = slots[i]
      BY <2>2, <3>1 DEF Range, OfGroups
    <3> HIDE DEF at, due
    <3> QED
      BY <3>2, <3>3 DEF Range
  <2> HIDE DEF due
  <2>8. ASSUME NEW job \in due
        PROVE  /\ job.target \in 1..MaxTarget /\ PlanSlot(job.plan) = job.group
               /\ \A other \in due : other.plan = job.plan => other = job
    <3>1. PICK i \in DOMAIN Groups : \E k \in DOMAIN slots[i].jobs :
            job = [group |-> slots[i].group, plan |-> slots[i].jobs[k].plan,
                   target |-> slots[i].jobs[k].target] /\ slots[i].jobs[k].target > 0
      BY <2>7
    <3>2. PICK k \in DOMAIN slots[i].jobs :
            job = [group |-> slots[i].group, plan |-> slots[i].jobs[k].plan,
                   target |-> slots[i].jobs[k].target] /\ slots[i].jobs[k].target > 0
      BY <3>1
    <3>3. slots[i] \in Slots /\ SlotFault(slots[i]) = "" /\ slots[i].group = Groups[i].group
      BY <2>2 DEF OfGroups
    <3>4. /\ slots[i].jobs[k].target \in 0..MaxTarget
          /\ PlanSlot(slots[i].jobs[k].plan) = slots[i].group
          /\ \A m \in DOMAIN slots[i].jobs :
               slots[i].jobs[m].plan = slots[i].jobs[k].plan => m = k
      BY <3>3, SoundSlot
    <3>5. job.target \in 1..MaxTarget /\ PlanSlot(job.plan) = job.group
      <4>1. /\ job.target = slots[i].jobs[k].target /\ job.plan = slots[i].jobs[k].plan
            /\ job.group = slots[i].group /\ slots[i].jobs[k].target > 0
        BY <3>2
      <4>2. MaxTarget \in Nat
        BY DEF MaxTarget
      <4>3. slots[i].jobs[k].target \in 1..MaxTarget
        BY <3>4, <4>1, <4>2, FromOne
      <4> QED
        BY <3>4, <4>1, <4>3
    <3>6. ASSUME NEW other \in due, other.plan = job.plan PROVE other = job
      <4>1. PICK n \in DOMAIN Groups : \E m \in DOMAIN slots[n].jobs :
              other = [group |-> slots[n].group, plan |-> slots[n].jobs[m].plan,
                       target |-> slots[n].jobs[m].target] /\ slots[n].jobs[m].target > 0
        BY <2>7
      <4>2. PICK m \in DOMAIN slots[n].jobs :
              other = [group |-> slots[n].group, plan |-> slots[n].jobs[m].plan,
                       target |-> slots[n].jobs[m].target] /\ slots[n].jobs[m].target > 0
        BY <4>1
      <4>3. slots[n] \in Slots /\ SlotFault(slots[n]) = "" /\ slots[n].group = Groups[n].group
        BY <2>2 DEF OfGroups
      <4>4. PlanSlot(slots[n].jobs[m].plan) = slots[n].group
        BY <4>3, SoundSlot
      <4>5. slots[n].jobs[m].plan = slots[i].jobs[k].plan
        BY <3>2, <3>6, <4>2
      <4>6. n = i
        <5>1. Groups[n].group = Groups[i].group
          BY <3>3, <3>4, <4>3, <4>4, <4>5
        <5> QED
          BY <5>1, GroupIs
      <4>7. m = k
        BY <3>4, <4>5, <4>6
      <4> QED
        BY <3>2, <4>2, <4>6, <4>7
    <3> QED
      BY <3>5, <3>6
  <2> QED
    BY <2>4, <2>6, <2>8, DefaultIsAccepted DEF SavedScheduleWorks, stored, loaded, due
<1> QED
  BY <1>2, <1>3

(***************************************************************************)
(* The table of models                                                     *)
(***************************************************************************)

LEMMA StatusOfRows == \A cells : RowStatus(cells) \in Statuses
BY DEF RowStatus, Statuses

\* What is kept of a row of the table: its cells say what their counts say.
SoundCell(c) == /\ \E t, g : c = [total |-> t, groups |-> g]
                /\ c.total.status = StatusFromCounts(c.total.ok, c.total.bad)

SoundRow(r) == /\ \E f : r = Row(f)
               /\ \A s \in DOMAIN r.sites : SoundCell(r.sites[s])

SoundTable(status) ==
  /\ IsFiniteSet(DOMAIN status.rows)
  /\ \A m \in DOMAIN status.rows : SoundRow(status.rows[m])
  /\ status.totals = Totals(status.rows)

LEMMA CellIs ==
  ASSUME NEW s, NEW f
  PROVE  Cell(s, f).status = StatusFromCounts(Cell(s, f).ok, Cell(s, f).bad)
BY DEF Cell

LEMMA RowIs ==
  ASSUME NEW f, \A s \in DOMAIN f : SoundCell(f[s])
  PROVE  /\ SoundRow(Row(f)) /\ Row(f).status \in Statuses
         /\ Row(f).status = RowStatus({f[s].total : s \in DOMAIN f})
         /\ Row(f).sites = f
BY StatusOfRows DEF SoundRow, Row

LEMMA RowAddsUp ==
  ASSUME NEW r, SoundRow(r), NEW s \in DOMAIN r.sites
  PROVE  LET cell == r.sites[s].total IN
         /\ cell.status = StatusFromCounts(cell.ok, cell.bad)
         /\ cell.status = "down" => r.status = "down"
         /\ r.status = "operational" => cell.status \in {"operational", "unknown"}
<1> DEFINE cells == {r.sites[k].total : k \in DOMAIN r.sites}
           cell  == r.sites[s].total
           seen  == {c.status : c \in cells}
<1>1. r.status = RowStatus(cells)
  BY DEF SoundRow, Row
<1>2. cell \in cells
  OBVIOUS
<1>3. cell.status = StatusFromCounts(cell.ok, cell.bad)
  BY DEF SoundRow, SoundCell
<1>4. cell.status \in Statuses
  BY <1>3 DEF StatusFromCounts, Statuses
<1> HIDE DEF cells, cell
<1>5. cell.status \in seen
  BY <1>2
<1>6. RowStatus(cells) = IF "down" \in seen THEN "down"
                         ELSE IF "degraded" \in seen THEN "degraded"
                         ELSE IF "operational" \in seen THEN "operational"
                         ELSE "unknown"
  BY DEF RowStatus
<1> HIDE DEF seen
<1>7. cell.status = "down" => r.status = "down"
  BY <1>1, <1>5, <1>6
<1>8. r.status = "operational" => cell.status \in {"operational", "unknown"}
  BY <1>1, <1>4, <1>5, <1>6 DEF Statuses
<1>9. QED
  BY <1>3, <1>7, <1>8 DEF cell

LEMMA SoundTableAddsUp ==
  ASSUME NEW status, SoundTable(status)
  PROVE  AddsUp(status)
<1>1. \A st \in Statuses :
        status.totals[st] = Cardinality({m \in DOMAIN status.rows : status.rows[m].status = st})
  BY DEF SoundTable, Totals
<1>2. \A m \in DOMAIN status.rows : \A s \in DOMAIN status.rows[m].sites :
       LET cell == status.rows[m].sites[s].total IN
       /\ cell.status = StatusFromCounts(cell.ok, cell.bad)
       /\ cell.status = "down" => status.rows[m].status = "down"
       /\ status.rows[m].status = "operational" => cell.status \in {"operational", "unknown"}
  BY RowAddsUp DEF SoundTable
<1> QED
  BY <1>1, <1>2 DEF AddsUp

LEMMA TotalsRecounted ==
  ASSUME NEW rows, IsFiniteSet(DOMAIN rows), NEW m \in DOMAIN rows, NEW next,
         rows[m].status \in Statuses, next.status \in Statuses
  PROVE  Recounted(Totals(rows), rows[m].status, next.status)
           = Totals([rows EXCEPT ![m] = next])
<1> DEFINE new == [rows EXCEPT ![m] = next]
           Of(st) == {k \in DOMAIN rows : rows[k].status = st}
           Others(st) == {k \in DOMAIN rows : k # m /\ rows[k].status = st}
           NewOf(st) == {k \in DOMAIN new : new[k].status = st}
           was == rows[m].status
           is  == next.status
<1>0. DOMAIN new = DOMAIN rows /\ new[m] = next /\ \A k \in DOMAIN rows : k # m => new[k] = rows[k]
  OBVIOUS
<1>1. ASSUME NEW st \in Statuses
      PROVE  /\ IsFiniteSet(Others(st)) /\ Cardinality(Others(st)) \in Nat
             /\ Cardinality(Of(st)) = Cardinality(Others(st)) + (IF was = st THEN 1 ELSE 0)
             /\ Cardinality(NewOf(st)) = Cardinality(Others(st)) + (IF is = st THEN 1 ELSE 0)
  <2>1. IsFiniteSet(Others(st)) /\ Cardinality(Others(st)) \in Nat
    BY FS_Subset, FS_CardinalityType
  <2>2. m \notin Others(st)
    OBVIOUS
  <2>3. Cardinality(Others(st) \cup {m}) = Cardinality(Others(st)) + 1
    <3> HIDE DEF Others
    <3> QED
      BY <2>1, <2>2, FS_AddElement
  <2>4. Of(st) = IF was = st THEN Others(st) \cup {m} ELSE Others(st)
    OBVIOUS
  <2>5. NewOf(st) = IF is = st THEN Others(st) \cup {m} ELSE Others(st)
    <3>1. \A k \in DOMAIN rows : k # m => (k \in NewOf(st) <=> k \in Others(st))
      BY <1>0
    <3>2. m \in NewOf(st) <=> is = st
      BY <1>0
    <3>3. NewOf(st) \subseteq DOMAIN rows /\ Others(st) \subseteq DOMAIN rows
      BY <1>0
    <3> HIDE DEF NewOf, Others, is
    <3> QED
      BY <3>1, <3>2, <3>3, <2>2
  <2> HIDE DEF Of, NewOf, Others, was, is
  <2> QED
    BY <2>1, <2>3, <2>4, <2>5
<1>2. was \in Statuses /\ is \in Statuses
  OBVIOUS
<1>3. Totals(rows) = [st \in Statuses |-> Cardinality(Of(st))]
  BY DEF Totals
<1>4. Totals(new) = [st \in Statuses |-> Cardinality(NewOf(st))]
  BY DEF Totals
<1> HIDE DEF Of, NewOf, Others, was, is, new
<1>5. ASSUME was = is PROVE Recounted(Totals(rows), was, is) = Totals(new)
  <2>1. Recounted(Totals(rows), was, is) = Totals(rows)
    BY <1>5 DEF Recounted
  <2>2. \A st \in Statuses : Cardinality(Of(st)) = Cardinality(NewOf(st))
    BY <1>1, <1>5
  <2> QED
    BY <1>3, <1>4, <2>1, <2>2
<1>6. ASSUME was # is PROVE Recounted(Totals(rows), was, is) = Totals(new)
  <2> DEFINE T == Totals(rows)
  <2>1. Recounted(T, was, is) = [T EXCEPT ![was] = IF @ > 0 THEN @ - 1 ELSE @, ![is] = @ + 1]
    BY <1>6 DEF Recounted
  <2>2. \A st \in Statuses : T[st] = Cardinality(Of(st)) /\ Cardinality(Of(st)) \in Nat
    BY <1>1, <1>3
  <2>3. T \in [Statuses -> Int]
    BY <1>3, <2>2
  <2>4. ASSUME NEW st \in Statuses
        PROVE  [T EXCEPT ![was] = IF @ > 0 THEN @ - 1 ELSE @, ![is] = @ + 1][st]
                 = Cardinality(NewOf(st))
    <3> HIDE DEF T
    <3>1. CASE st = was
      BY <1>1, <1>2, <1>6, <2>2, <2>3, <3>1
    <3>2. CASE st = is
      BY <1>1, <1>2, <1>6, <2>2, <2>3, <3>2
    <3>3. CASE st # was /\ st # is
      BY <1>1, <1>2, <1>6, <2>2, <2>3, <3>3
    <3> QED
      BY <3>1, <3>2, <3>3
  <2>5. Recounted(T, was, is) \in [Statuses -> Int]
    <3> HIDE DEF T
    <3>1. T[was] \in Int /\ T[is] \in Int
      BY <1>2, <2>3
    <3>2. [T EXCEPT ![was] = IF @ > 0 THEN @ - 1 ELSE @, ![is] = @ + 1] \in [Statuses -> Int]
      BY <1>2, <2>3, <3>1
    <3> QED
      BY <2>1, <3>2
  <2>6. Totals(new) \in [Statuses -> Int] /\ \A st \in Statuses : Totals(new)[st] = Cardinality(NewOf(st))
    BY <1>1, <1>4
  <2>7. \A st \in Statuses : Recounted(T, was, is)[st] = Totals(new)[st]
    BY <2>1, <2>4, <2>6
  <2> HIDE DEF T
  <2>8. Recounted(T, was, is) = Totals(new)
    BY <2>5, <2>6, <2>7
  <2> QED
    BY <2>8 DEF T
<1>7. Recounted(Totals(rows), was, is) = Totals(new)
  BY <1>5, <1>6
<1> QED
  BY <1>7 DEF was, is, new

LEMMA TestedIs ==
  ASSUME NEW cell, SoundCell(cell), NEW group, NEW ok
  PROVE  SoundCell(IF group = "" THEN [cell EXCEPT !.total = Tested(@, ok)]
                   ELSE IF group \in DOMAIN cell.groups
                        THEN [cell EXCEPT !.groups[group] = Tested(@, ok)]
                        ELSE cell)
<1>1. PICK t, g : cell = [total |-> t, groups |-> g]
  BY DEF SoundCell
<1>2. CASE group = ""
  <2>1. [cell EXCEPT !.total = Tested(@, ok)] = [total |-> Tested(t, ok), groups |-> g]
    BY <1>1
  <2>2. Tested(t, ok).status = StatusFromCounts(Tested(t, ok).ok, Tested(t, ok).bad)
    BY CellIs DEF Tested
  <2>3. SoundCell([total |-> Tested(t, ok), groups |-> g])
    BY <2>2 DEF SoundCell
  <2> QED
    BY <1>2, <2>1, <2>3
<1>3. CASE group # "" /\ group \in DOMAIN cell.groups
  <2> DEFINE h == [g EXCEPT ![group] = Tested(@, ok)]
  <2>1. [cell EXCEPT !.groups[group] = Tested(@, ok)] = [total |-> t, groups |-> h]
    BY <1>1
  <2>2. t.status = StatusFromCounts(t.ok, t.bad)
    BY <1>1 DEF SoundCell
  <2> HIDE DEF h
  <2>3. SoundCell([total |-> t, groups |-> h])
    BY <2>2 DEF SoundCell
  <2> QED
    BY <1>3, <2>1, <2>3
<1>4. CASE group # "" /\ group \notin DOMAIN cell.groups
  BY <1>4
<1> QED
  BY <1>2, <1>3, <1>4

LEMMA ApplyKeeps ==
  ASSUME NEW status, SoundTable(status), NEW test
  PROVE  SoundTable(Apply(status, test))
<1>1. CASE test.model \notin DOMAIN status.rows
           \/ test.site \notin DOMAIN status.rows[test.model].sites
  BY <1>1 DEF Apply
<1>2. CASE ~ (test.model \notin DOMAIN status.rows
              \/ test.site \notin DOMAIN status.rows[test.model].sites)
  <2> DEFINE m == test.model
             row == status.rows[m]
             cell == row.sites[test.site]
             tested == IF test.group = "" THEN [cell EXCEPT !.total = Tested(@, test.ok)]
                       ELSE IF test.group \in DOMAIN cell.groups
                            THEN [cell EXCEPT !.groups[test.group] = Tested(@, test.ok)]
                            ELSE cell
             cells == [row.sites EXCEPT ![test.site] = tested]
             next == Row(cells)
             rows == [status.rows EXCEPT ![m] = next]
  <2>1. m \in DOMAIN status.rows /\ test.site \in DOMAIN row.sites
    BY <1>2
  <2>2. Apply(status, test) = [rows |-> rows, totals |-> Recounted(status.totals, row.status, next.status)]
    BY <1>2 DEF Apply
  <2>3. SoundRow(row) /\ row.status \in Statuses
    <3>1. SoundRow(row)
      BY <2>1 DEF SoundTable
    <3>2. PICK f : row = Row(f)
      BY <3>1 DEF SoundRow
    <3>3. row.status = RowStatus({f[s].total : s \in DOMAIN f})
      BY <3>2 DEF Row
    <3> HIDE DEF row
    <3> QED
      BY <3>1, <3>3, StatusOfRows
  <2>4. SoundCell(tested)
    <3>1. SoundCell(cell)
      BY <2>1, <2>3 DEF SoundRow
    <3> HIDE DEF cell
    <3> QED
      BY <3>1, TestedIs
  <2>5. \A s \in DOMAIN cells : SoundCell(cells[s])
    <3> HIDE DEF tested, row
    <3> QED
      BY <2>3, <2>4 DEF SoundRow
  <2>6. SoundRow(next) /\ next.status \in Statuses
    <3> HIDE DEF cells
    <3> QED
      BY <2>5, RowIs
  <2>7. DOMAIN rows = DOMAIN status.rows /\ \A k \in DOMAIN rows : SoundRow(rows[k])
    <3> HIDE DEF next
    <3> QED
      BY <2>6 DEF SoundTable
  <2>8. Recounted(status.totals, row.status, next.status) = Totals(rows)
    <3> HIDE DEF next, m
    <3> QED
      BY <2>1, <2>3, <2>6, TotalsRecounted DEF SoundTable
  <2> HIDE DEF rows
  <2>9. SoundTable([rows |-> rows, totals |-> Totals(rows)])
    BY <2>7 DEF SoundTable
  <2> QED
    BY <2>2, <2>8, <2>9
<1> QED
  BY <1>1, <1>2

LEMMA AppliedIsSound ==
  ASSUME NEW status, SoundTable(status), NEW X, NEW tests \in Seq(X)
  PROVE  SoundTable(Applied(status, tests))
<1> DEFINE N == Len(tests)
           Goes(f) == f = [k \in 0..N |-> IF k = 0 THEN status ELSE Apply(f[k - 1], tests[k])]
           after == CHOOSE f : Goes(f)
           Upto(f, n) == /\ f = [k \in 0..n |-> f[k]]
                         /\ f[0] = status
                         /\ \A k \in 1..n : f[k] = Apply(f[k - 1], tests[k])
           S == {n \in Nat : \E f : Upto(f, n)}
<1>1. N \in Nat
  OBVIOUS
<1>2. 0 \in S
  <2> DEFINE f == [k \in 0..0 |-> status]
  <2>1. f = [k \in 0..0 |-> f[k]] /\ f[0] = status /\ \A k \in 1..0 : f[k] = Apply(f[k - 1], tests[k])
    OBVIOUS
  <2> QED
    BY <2>1
<1>3. ASSUME NEW n \in S \cap Nat PROVE n + 1 \in S
  <2>1. PICK f : Upto(f, n)
    OBVIOUS
  <2> DEFINE g == [k \in 0..(n + 1) |-> IF k \in 0..n THEN f[k] ELSE Apply(f[n], tests[n + 1])]
  <2>2. g = [k \in 0..(n + 1) |-> g[k]]
    OBVIOUS
  <2>3. g[0] = status
    BY <2>1
  <2>4. ASSUME NEW k \in 1..(n + 1) PROVE g[k] = Apply(g[k - 1], tests[k])
    <3>1. k - 1 \in 0..n /\ g[k - 1] = f[k - 1]
      OBVIOUS
    <3>2. CASE k = n + 1
      <4>1. k \notin 0..n /\ k \in 0..(n + 1) /\ k - 1 = n
        BY <3>2
      <4>2. g[k] = Apply(f[n], tests[n + 1])
        BY <4>1
      <4> HIDE DEF g
      <4> QED
        BY <3>1, <3>2, <4>1, <4>2
    <3>3. CASE k # n + 1
      <4>1. k \in 1..n /\ g[k] = f[k]
        BY <3>3
      <4> HIDE DEF g
      <4> QED
        BY <2>1, <3>1, <4>1
    <3> QED
      BY <3>2, <3>3
  <2>5. Upto(g, n + 1)
    BY <2>2, <2>3, <2>4
  <2> HIDE DEF g, Upto
  <2> QED
    BY <2>5
<1>4. N \in S
  <2> HIDE DEF S, N
  <2> QED
    BY <1>1, <1>2, <1>3, Induction
<1>5. \E f : Goes(f)
  <2>1. PICK f : Upto(f, N)
    BY <1>4
  <2>2. \A k \in 0..N : f[k] = IF k = 0 THEN status ELSE Apply(f[k - 1], tests[k])
    BY <1>1, <2>1
  <2> HIDE DEF N
  <2>3. f = [k \in 0..N |-> IF k = 0 THEN status ELSE Apply(f[k - 1], tests[k])]
    BY <2>1, <2>2
  <2> QED
    BY <2>3
<1>6. Goes(after)
  <2> HIDE DEF Goes
  <2> QED
    BY <1>5
<1>7. Applied(status, tests) = after[N]
  BY DEF Applied
<1>8. after[0] = status /\ \A k \in 1..N : after[k] = Apply(after[k - 1], tests[k])
  <2> HIDE DEF after, N
  <2> QED
    BY <1>1, <1>6
<1> DEFINE Q == {n \in Nat : n <= N => SoundTable(after[n])}
<1> HIDE DEF after, N, S, Goes
<1>9. 0 \in Q
  BY <1>8
<1>a. ASSUME NEW n \in Q \cap Nat PROVE n + 1 \in Q
  <2>1. SUFFICES ASSUME n + 1 <= N PROVE SoundTable(after[n + 1])
    OBVIOUS
  <2>2. n + 1 \in 1..N /\ (n + 1) - 1 = n /\ n <= N
    BY <1>1, <2>1
  <2>3. after[n + 1] = Apply(after[n], tests[n + 1])
    BY <1>8, <2>2
  <2>4. SoundTable(after[n])
    BY <2>2
  <2> QED
    BY <2>3, <2>4, ApplyKeeps
<1>b. N \in Q
  <2> HIDE DEF Q
  <2> QED
    BY <1>1, <1>9, <1>a, Induction
<1> QED
  BY <1>7, <1>b

(***************************************************************************)
(* The rows of a site                                                      *)
(***************************************************************************)

\* Lists of rows, one for each of some lines.
RowLists(rowsOf, X) ==
  /\ IsFiniteSet(DOMAIN rowsOf) /\ DOMAIN rowsOf \in SUBSET Nat
  /\ \A i \in DOMAIN rowsOf : rowsOf[i] \in Seq(X)

LEMMA PlacedIs ==
  ASSUME NEW X, NEW rowsOf, RowLists(rowsOf, X)
  PROVE  LET rows == Placed(rowsOf) IN
         /\ IsFiniteSet(DOMAIN rows) /\ DOMAIN rows \in SUBSET (Nat \X Nat)
         /\ \A p \in DOMAIN rows :
              /\ p[1] \in DOMAIN rowsOf /\ p[2] \in DOMAIN rowsOf[p[1]]
              /\ rows[p] = rowsOf[p[1]][p[2]]
<1> DEFINE places == {{i} \X DOMAIN rowsOf[i] : i \in DOMAIN rowsOf}
           rows == Placed(rowsOf)
           h == [i \in DOMAIN rowsOf |-> {i} \X DOMAIN rowsOf[i]]
<1>1. \A i \in DOMAIN rowsOf : IsFiniteSet(DOMAIN rowsOf[i]) /\ DOMAIN rowsOf[i] \in SUBSET Nat
  BY Positions DEF RowLists
<1>2. IsFiniteSet(places)
  <2>1. places = {h[i] : i \in DOMAIN rowsOf}
    OBVIOUS
  <2>2. IsFiniteSet({h[i] : i \in DOMAIN rowsOf})
    <3>1. IsFiniteSet(DOMAIN rowsOf)
      BY DEF RowLists
    <3> HIDE DEF h
    <3> QED
      BY ONLY <3>1, Values
  <2> QED
    BY <2>1, <2>2
<1>3. \A T \in places : IsFiniteSet(T)
  <2> TAKE T \in places
  <2>1. PICK i \in DOMAIN rowsOf : T = {i} \X DOMAIN rowsOf[i]
    OBVIOUS
  <2>2. IsFiniteSet({i}) /\ IsFiniteSet(DOMAIN rowsOf[i])
    BY <1>1, FS_Singleton
  <2> QED
    BY <2>1, <2>2, FS_Product
<1>4. IsFiniteSet(UNION places)
  <2> HIDE DEF places
  <2> QED
    BY <1>2, <1>3, FS_UNION
<1>5. rows = [at \in UNION places |-> rowsOf[at[1]][at[2]]]
  BY DEF Placed
<1>6. \A p \in UNION places :
        /\ p[1] \in DOMAIN rowsOf /\ p[2] \in DOMAIN rowsOf[p[1]] /\ p \in Nat \X Nat
  <2> TAKE p \in UNION places
  <2>1. PICK i \in DOMAIN rowsOf : p \in {i} \X DOMAIN rowsOf[i]
    OBVIOUS
  <2>2. p[1] = i /\ p[2] \in DOMAIN rowsOf[i] /\ p = <<p[1], p[2]>>
    BY <2>1
  <2>3. i \in Nat /\ DOMAIN rowsOf[i] \in SUBSET Nat
    BY <1>1 DEF RowLists
  <2> QED
    BY <2>2, <2>3
<1>7. DOMAIN rows = UNION places /\ \A p \in DOMAIN rows : rows[p] = rowsOf[p[1]][p[2]]
  BY <1>5
<1> HIDE DEF places, rows
<1> QED
  BY <1>4, <1>6, <1>7 DEF rows

LEMMA UniqueIs ==
  ASSUME NEW rows, DOMAIN rows \in SUBSET (Nat \X Nat)
  PROVE  LET kept == Unique(rows) IN
         /\ DOMAIN kept \subseteq DOMAIN rows
         /\ \A p \in DOMAIN kept : kept[p] = rows[p]
         /\ \A p, q \in DOMAIN kept : kept[p].id = kept[q].id => p = q
<1> DEFINE kept == Unique(rows)
<1>1. /\ DOMAIN kept = {p \in DOMAIN rows :
                          \A q \in DOMAIN rows : rows[q].id = rows[p].id => ~Earlier(q, p)}
      /\ \A p \in DOMAIN kept : kept[p] = rows[p]
  BY DEF Unique
<1> HIDE DEF kept
<1>2. DOMAIN kept \subseteq DOMAIN rows
  BY <1>1
<1>3. ASSUME NEW p \in DOMAIN kept, NEW q \in DOMAIN kept, kept[p].id = kept[q].id PROVE p = q
  <2>1. ~Earlier(q, p) /\ ~Earlier(p, q)
    BY <1>1, <1>3
  <2>2. p \in Nat \X Nat /\ q \in Nat \X Nat
    BY <1>2
  <2>3. p[1] \in Nat /\ p[2] \in Nat /\ q[1] \in Nat /\ q[2] \in Nat
    BY <2>2
  <2>4. p[1] = q[1] /\ p[2] = q[2]
    BY <2>1, <2>3 DEF Earlier
  <2>5. p = <<p[1], p[2]>> /\ q = <<q[1], q[2]>>
    BY <2>2
  <2> QED
    BY <2>4, <2>5
<1> QED
  BY <1>1, <1>2, <1>3 DEF kept

LEMMA InGroupsIs ==
  ASSUME NEW rows, NEW allowed
  PROVE  LET kept == InGroups(rows, allowed) IN
         /\ DOMAIN kept \subseteq DOMAIN rows
         /\ \A p \in DOMAIN kept :
              kept[p] \in {rows[p], [rows[p] EXCEPT !.groups = @ \cap allowed]}
<1>1. CASE allowed = {}
  BY <1>1 DEF InGroups
<1>2. CASE allowed # {}
  <2> DEFINE at == {p \in DOMAIN rows : rows[p].groups \cap allowed # {}}
  <2>1. InGroups(rows, allowed) = [p \in at |-> [rows[p] EXCEPT !.groups = @ \cap allowed]]
    BY <1>2 DEF InGroups
  <2>2. at \subseteq DOMAIN rows
    OBVIOUS
  <2> HIDE DEF at
  <2> QED
    BY <2>1, <2>2
<1> QED
  BY <1>1, <1>2

\* The rows of a site: each is a row of a line, in fewer groups, and none is there twice.
LEMMA SiteRows ==
  ASSUME NEW X, NEW rowsOf, RowLists(rowsOf, X), NEW allowed
  PROVE  LET rows == Unique(InGroups(Placed(rowsOf), allowed)) IN
         /\ IsFiniteSet(DOMAIN rows)
         /\ \A p \in DOMAIN rows :
              \E i \in DOMAIN rowsOf : \E j \in DOMAIN rowsOf[i] :
                rows[p] \in {rowsOf[i][j], [rowsOf[i][j] EXCEPT !.groups = @ \cap allowed]}
         /\ \A p, q \in DOMAIN rows : rows[p].id = rows[q].id => p = q
<1> DEFINE all == Placed(rowsOf)
           in == InGroups(all, allowed)
           rows == Unique(in)
<1>1. /\ IsFiniteSet(DOMAIN all) /\ DOMAIN all \in SUBSET (Nat \X Nat)
      /\ \A p \in DOMAIN all : /\ p[1] \in DOMAIN rowsOf /\ p[2] \in DOMAIN rowsOf[p[1]]
                               /\ all[p] = rowsOf[p[1]][p[2]]
  BY PlacedIs
<1> HIDE DEF all
<1>2. /\ DOMAIN in \subseteq DOMAIN all
      /\ \A p \in DOMAIN in : in[p] \in {all[p], [all[p] EXCEPT !.groups = @ \cap allowed]}
  BY InGroupsIs
<1> HIDE DEF in
<1>3. /\ DOMAIN rows \subseteq DOMAIN in
      /\ \A p \in DOMAIN rows : rows[p] = in[p]
      /\ \A p, q \in DOMAIN rows : rows[p].id = rows[q].id => p = q
  <2>1. DOMAIN in \in SUBSET (Nat \X Nat)
    BY <1>1, <1>2
  <2> QED
    BY <2>1, UniqueIs
<1> HIDE DEF rows
<1>4. DOMAIN rows \subseteq DOMAIN all
  BY <1>2, <1>3
<1>5. IsFiniteSet(DOMAIN rows)
  BY <1>1, <1>4, FS_Subset
<1>6. ASSUME NEW p \in DOMAIN rows
      PROVE  \E i \in DOMAIN rowsOf : \E j \in DOMAIN rowsOf[i] :
               rows[p] \in {rowsOf[i][j], [rowsOf[i][j] EXCEPT !.groups = @ \cap allowed]}
  <2>1. p \in DOMAIN all /\ p \in DOMAIN in /\ rows[p] = in[p]
    BY <1>2, <1>3, <1>4
  <2>2. rows[p] \in {all[p], [all[p] EXCEPT !.groups = @ \cap allowed]}
    BY <1>2, <2>1
  <2>3. p[1] \in DOMAIN rowsOf /\ p[2] \in DOMAIN rowsOf[p[1]] /\ all[p] = rowsOf[p[1]][p[2]]
    BY <1>1, <2>1
  <2> QED
    BY <2>2, <2>3
<1> QED
  BY <1>3, <1>5, <1>6 DEF rows, in, all

LinesOf(lines, site) == {i \in DOMAIN lines : lines[i].site = site}

LEMMA ListsOf ==
  ASSUME NEW lines, LinesAnswer(lines), NEW site
  PROVE  LET own == LinesOf(lines, site) IN
         /\ RowLists([i \in own |-> lines[i].ok], Log)
         /\ RowLists([i \in own |-> lines[i].channels], Channel)
         /\ \A i \in own : i \in DOMAIN lines /\ lines[i] \in Line /\ lines[i].site = site
<1> DEFINE own == LinesOf(lines, site)
<1>1. lines \in Seq(Line)
  BY DEF LinesAnswer
<1>2. IsFiniteSet(DOMAIN lines) /\ DOMAIN lines \in SUBSET Nat
  BY <1>1, Positions
<1>3. own \in SUBSET DOMAIN lines /\ \A i \in own : lines[i].site = site
  BY DEF LinesOf
<1>4. IsFiniteSet(own) /\ own \in SUBSET Nat
  BY <1>2, <1>3, FS_Subset
<1>5. \A i \in DOMAIN lines : lines[i] \in Line
  BY <1>1
<1>6. \A i \in own : lines[i].ok \in Seq(Log) /\ lines[i].channels \in Seq(Channel)
  BY <1>3, <1>5 DEF Line
<1> HIDE DEF own
<1>7. RowLists([i \in own |-> lines[i].ok], Log)
  BY <1>4, <1>6 DEF RowLists
<1>8. RowLists([i \in own |-> lines[i].channels], Channel)
  BY <1>4, <1>6 DEF RowLists
<1> QED
  BY <1>3, <1>5, <1>7, <1>8 DEF own

LEMMA SiteChannels ==
  ASSUME NEW lines, LinesAnswer(lines), NEW site
  PROVE  LET channels == SiteData(lines, site).channels IN
         /\ IsFiniteSet(Range(channels))
         /\ \A c \in Range(channels) : c \in Channel /\ IsFiniteSet(c.models)
         /\ \A c, d \in Range(channels) : c.id = d.id => c = d
<1> DEFINE own == LinesOf(lines, site)
           rowsOf == [i \in own |-> lines[i].channels]
           allowed == FixedGroups[site]
           channels == SiteData(lines, site).channels
<1>1. channels = Unique(InGroups(Placed(rowsOf), allowed))
  BY DEF SiteData, LinesOf
<1>2. RowLists(rowsOf, Channel) /\ \A i \in own : i \in DOMAIN lines /\ lines[i] \in Line
  BY ListsOf
<1>3. DOMAIN rowsOf = own /\ \A i \in own : rowsOf[i] = lines[i].channels
  OBVIOUS
<1> HIDE DEF rowsOf, allowed, channels, own
<1>4. /\ IsFiniteSet(DOMAIN channels)
      /\ \A p \in DOMAIN channels :
           \E i \in own : \E j \in DOMAIN rowsOf[i] :
             channels[p] \in {rowsOf[i][j], [rowsOf[i][j] EXCEPT !.groups = @ \cap allowed]}
      /\ \A p, q \in DOMAIN channels : channels[p].id = channels[q].id => p = q
  BY <1>1, <1>2, <1>3, SiteRows
<1>5. Range(channels) = {channels[p] : p \in DOMAIN channels}
  BY DEF Range
<1>6. IsFiniteSet(Range(channels))
  BY <1>4, <1>5, Values
<1>7. ASSUME NEW p \in DOMAIN channels
      PROVE  channels[p] \in Channel /\ IsFiniteSet(channels[p].models)
  <2>1. PICK i \in own : \E j \in DOMAIN rowsOf[i] :
          channels[p] \in {rowsOf[i][j], [rowsOf[i][j] EXCEPT !.groups = @ \cap allowed]}
    BY <1>4
  <2>0. PICK j \in DOMAIN rowsOf[i] :
          channels[p] \in {rowsOf[i][j], [rowsOf[i][j] EXCEPT !.groups = @ \cap allowed]}
    BY <2>1
  <2> DEFINE r == rowsOf[i][j]
  <2>2. r \in Channel
    <3>1. rowsOf[i] \in Seq(Channel)
      BY <1>2, <1>3 DEF RowLists
    <3> QED
      BY <3>1
  <2>3. IsFiniteSet(r.models)
    <3>1. r \in Range(lines[i].channels)
      BY <1>3 DEF Range
    <3> HIDE DEF r
    <3> QED
      BY <1>2, <3>1 DEF LinesAnswer
  <2> HIDE DEF r
  <2>4. [r EXCEPT !.groups = @ \cap allowed] \in Channel
        /\ [r EXCEPT !.groups = @ \cap allowed].models = r.models
    BY <2>2 DEF Channel
  <2> QED
    BY <2>0, <2>2, <2>3, <2>4 DEF r
<1>8. \A c \in Range(channels) : c \in Channel /\ IsFiniteSet(c.models)
  BY <1>5, <1>7
<1>9. \A c, d \in Range(channels) : c.id = d.id => c = d
  BY <1>4, <1>5
<1> QED
  BY <1>6, <1>8, <1>9 DEF channels

LEMMA SiteLogs ==
  ASSUME NEW lines, LinesAnswer(lines), NEW site, NEW model
  PROVE  CountOf(SiteData(lines, site).ok, model)
           <= Cardinality(Succeeded(lines, site))
<1> DEFINE own == LinesOf(lines, site)
           rowsOf == [i \in own |-> lines[i].ok]
           allowed == FixedGroups[site]
           logs == SiteData(lines, site).ok
           ids == UNION {{r.id : r \in Range(l.ok)} : l \in {k \in Range(lines) : k.site = site}}
           counted == {p \in DOMAIN logs : logs[p].model = model}
           idOf == [p \in DOMAIN logs |-> logs[p].id]
<1>1. logs = Unique(InGroups(Placed(rowsOf), allowed))
  BY DEF SiteData, LinesOf
<1>2. RowLists(rowsOf, Log) /\ \A i \in own : i \in DOMAIN lines /\ lines[i] \in Line /\ lines[i].site = site
  BY ListsOf
<1>3. DOMAIN rowsOf = own /\ \A i \in own : rowsOf[i] = lines[i].ok
  OBVIOUS
<1> HIDE DEF rowsOf, allowed, logs, own
<1>4. /\ IsFiniteSet(DOMAIN logs)
      /\ \A p \in DOMAIN logs :
           \E i \in own : \E j \in DOMAIN rowsOf[i] :
             logs[p] \in {rowsOf[i][j], [rowsOf[i][j] EXCEPT !.groups = @ \cap allowed]}
      /\ \A p, q \in DOMAIN logs : logs[p].id = logs[q].id => p = q
  BY <1>1, <1>2, <1>3, SiteRows
<1>5. IsFiniteSet(ids)
  <2> DEFINE here == {k \in Range(lines) : k.site = site}
             some == {{r.id : r \in Range(l.ok)} : l \in here}
             idsOf == [l \in here |-> {r.id : r \in Range(l.ok)}]
  <2>1. lines \in Seq(Line)
    BY DEF LinesAnswer
  <2>2. IsFiniteSet(Range(lines)) /\ \A l \in Range(lines) : l \in Line
    <3>1. Range(lines) = {lines[i] : i \in DOMAIN lines}
      BY DEF Range
    <3>2. IsFiniteSet(DOMAIN lines)
      BY <2>1, Positions
    <3>3. IsFiniteSet({lines[i] : i \in DOMAIN lines})
      BY <3>2, Values
    <3> QED
      BY <2>1, <3>1, <3>3
  <2>3. IsFiniteSet(here)
    BY <2>2, FS_Subset
  <2>4. some = {idsOf[l] : l \in here}
    OBVIOUS
  <2>5. IsFiniteSet({idsOf[l] : l \in here})
    <3> HIDE DEF here, idsOf
    <3> QED
      BY <2>3, Values
  <2>6. \A T \in some : IsFiniteSet(T)
    <3> TAKE T \in some
    <3>1. PICK l \in here : T = {r.id : r \in Range(l.ok)}
      OBVIOUS
    <3>2. l.ok \in Seq(Log)
      BY <2>2 DEF Line
    <3>3. IsFiniteSet(Range(l.ok))
      <4>1. Range(l.ok) = {l.ok[i] : i \in DOMAIN l.ok}
        BY DEF Range
      <4>2. IsFiniteSet(DOMAIN l.ok)
        BY <3>2, Positions
      <4> DEFINE f == l.ok
      <4>3. IsFiniteSet({f[i] : i \in DOMAIN f})
        <5>1. IsFiniteSet(DOMAIN f)
          BY <4>2
        <5> HIDE DEF f
        <5> QED
          BY <5>1, Values
      <4> QED
        BY <4>1, <4>3
    <3> DEFINE g == [r \in Range(l.ok) |-> r.id]
    <3>4. T = {g[r] : r \in Range(l.ok)}
      BY <3>1
    <3> HIDE DEF g
    <3> QED
      BY <3>3, <3>4, Values
  <2> HIDE DEF here, some, idsOf
  <2>7. IsFiniteSet(UNION some)
    BY <2>4, <2>5, <2>6, FS_UNION
  <2> QED
    BY <2>7 DEF some, here
<1>6. ASSUME NEW p \in DOMAIN logs PROVE idOf[p] \in ids
  <2>1. PICK i \in own : \E j \in DOMAIN rowsOf[i] :
          logs[p] \in {rowsOf[i][j], [rowsOf[i][j] EXCEPT !.groups = @ \cap allowed]}
    BY <1>4
  <2>0. PICK j \in DOMAIN rowsOf[i] :
          logs[p] \in {rowsOf[i][j], [rowsOf[i][j] EXCEPT !.groups = @ \cap allowed]}
    BY <2>1
  <2> DEFINE r == rowsOf[i][j]
             l == lines[i]
  <2>2. r \in Log
    <3>1. rowsOf[i] \in Seq(Log)
      BY <1>2, <1>3 DEF RowLists
    <3> QED
      BY <3>1
  <2>3. r \in Range(l.ok) /\ l \in Range(lines) /\ l.site = site
    BY <1>2, <1>3 DEF Range
  <2>4. r.id \in ids
    <3> HIDE DEF r, l
    <3> QED
      BY <2>3
  <2> HIDE DEF r, ids
  <2>5. [r EXCEPT !.groups = @ \cap allowed].id = r.id
    BY <2>2 DEF Log
  <2>6. logs[p].id = r.id
    BY <2>0, <2>5 DEF r
  <2> QED
    BY <2>4, <2>6
<1>7. counted \in SUBSET DOMAIN logs /\ IsFiniteSet(counted)
  <2>1. counted \in SUBSET DOMAIN logs
    OBVIOUS
  <2> HIDE DEF counted
  <2> QED
    BY <1>4, <2>1, FS_Subset
<1>8. \A x, y \in counted : idOf[x] = idOf[y] => x = y
  <2>1. \A x \in counted : idOf[x] = logs[x].id
    OBVIOUS
  <2> HIDE DEF idOf, counted
  <2> QED
    BY <1>4, <1>7, <2>1
<1>9. CountOf(logs, model) = Cardinality(counted)
  BY DEF CountOf
<1> HIDE DEF ids, counted, idOf
<1>a. Cardinality({idOf[x] : x \in counted}) = Cardinality(counted)
  BY <1>7, <1>8, Values
<1>b. {idOf[x] : x \in counted} \in SUBSET ids
  BY <1>6, <1>7
<1>c. Cardinality({idOf[x] : x \in counted}) <= Cardinality(ids)
  BY <1>5, <1>b, FS_Subset
<1> QED
  BY <1>9, <1>a, <1>c DEF ids, logs, Succeeded

LEMMA SitesAreFinite ==
  ASSUME NEW lines, LinesAnswer(lines)
  PROVE  IsFiniteSet(SitesOf(lines))
<1> DEFINE h == [i \in DOMAIN lines |-> lines[i].site]
<1>1. SitesOf(lines) = {h[i] : i \in DOMAIN lines}
  BY DEF SitesOf, Range
<1>2. IsFiniteSet(DOMAIN lines)
  BY Positions DEF LinesAnswer
<1> HIDE DEF h
<1> QED
  BY <1>1, <1>2, Values

LEMMA ProjectIsSound ==
  ASSUME NEW lines, LinesAnswer(lines)
  PROVE  SoundTable(Project(lines))
<1> DEFINE data == [s \in SitesOf(lines) |-> SiteData(lines, s)]
           Offering(m) == {s \in SitesOf(lines) : m \in ModelsOf(data[s])}
           all == {ModelsOf(data[s]) : s \in SitesOf(lines)}
           cells(m) == [s \in Offering(m) |-> SiteCell(data[s], m)]
           rows == [m \in UNION all |-> Row(cells(m))]
<1>1. Project(lines) = [rows |-> rows, totals |-> Totals(rows)]
  BY DEF Project
<1>2. IsFiniteSet(UNION all)
  <2> DEFINE h == [s \in SitesOf(lines) |-> ModelsOf(data[s])]
  <2>1. all = {h[s] : s \in SitesOf(lines)}
    OBVIOUS
  <2>2. IsFiniteSet(all)
    <3> HIDE DEF h, all
    <3> QED
      BY <2>1, SitesAreFinite, Values
  <2>3. \A T \in all : IsFiniteSet(T)
    <3> TAKE T \in all
    <3>1. PICK s \in SitesOf(lines) : T = ModelsOf(SiteData(lines, s))
      OBVIOUS
    <3> DEFINE channels == SiteData(lines, s).channels
               sets == {c.models : c \in Range(channels)}
               g == [c \in Range(channels) |-> c.models]
    <3>2. IsFiniteSet(Range(channels)) /\ \A c \in Range(channels) : IsFiniteSet(c.models)
      BY SiteChannels
    <3>3. T = UNION sets
      BY <3>1 DEF ModelsOf
    <3>4. sets = {g[c] : c \in Range(channels)}
      OBVIOUS
    <3>5. \A U \in sets : IsFiniteSet(U)
      BY <3>2
    <3> HIDE DEF g, sets, channels
    <3>6. IsFiniteSet(sets)
      BY <3>2, <3>4, Values
    <3> QED
      BY <3>3, <3>5, <3>6, FS_UNION
  <2> HIDE DEF all
  <2> QED
    BY <2>2, <2>3, FS_UNION
<1>3. ASSUME NEW s, NEW m, NEW d PROVE SoundCell(SiteCell(d, m))
  <2> DEFINE t == Cell(CountOf(d.ok, m), CountOf(d.bad, m))
             g == [k \in GroupsOf(d, m) |-> Cell(CountIn(d.ok, m, k), CountIn(d.bad, m, k))]
  <2>1. SiteCell(d, m) = [total |-> t, groups |-> g]
    BY DEF SiteCell
  <2>2. t.status = StatusFromCounts(t.ok, t.bad)
    BY CellIs
  <2> HIDE DEF t, g
  <2>3. SoundCell([total |-> t, groups |-> g])
    BY <2>2 DEF SoundCell
  <2> QED
    BY <2>1, <2>3
<1>4. ASSUME NEW m PROVE SoundRow(Row(cells(m)))
  <2>1. \A s \in DOMAIN cells(m) : SoundCell(cells(m)[s])
    BY <1>3
  <2> DEFINE f == cells(m)
  <2>2. \A s \in DOMAIN f : SoundCell(f[s])
    BY <2>1
  <2> HIDE DEF f
  <2>3. SoundRow(Row(f))
    BY <2>2, RowIs
  <2> QED
    BY <2>3 DEF f
<1>5. DOMAIN rows = UNION all /\ \A m \in DOMAIN rows : rows[m] = Row(cells(m))
  OBVIOUS
<1> HIDE DEF rows, all, cells
<1>6. \A m \in DOMAIN rows : SoundRow(rows[m])
  BY <1>4, <1>5
<1>7. SoundTable([rows |-> rows, totals |-> Totals(rows)])
  BY <1>2, <1>5, <1>6 DEF SoundTable
<1> QED
  BY <1>1, <1>7

LEMMA CountedOnceAlways ==
  ASSUME NEW lines, LinesAnswer(lines)
  PROVE  CountedOnce(lines)
<1> DEFINE status == Project(lines)
           data == [s \in SitesOf(lines) |-> SiteData(lines, s)]
           Offering(m) == {s \in SitesOf(lines) : m \in ModelsOf(data[s])}
           cells(m) == [s \in Offering(m) |-> SiteCell(data[s], m)]
           rows == [m \in UNION {ModelsOf(data[s]) : s \in SitesOf(lines)} |-> Row(cells(m))]
<1>1. status.rows = rows
  BY DEF Project
<1>2. ASSUME NEW m \in DOMAIN rows, NEW s \in DOMAIN rows[m].sites
      PROVE  rows[m].sites[s].total.ok = CountOf(SiteData(lines, s).ok, m)
  <2>1. rows[m].sites = cells(m)
    BY DEF Row
  <2>2. s \in Offering(m) /\ cells(m)[s] = SiteCell(SiteData(lines, s), m)
    BY <2>1
  <2>3. SiteCell(SiteData(lines, s), m).total.ok = CountOf(SiteData(lines, s).ok, m)
    BY DEF SiteCell, Cell
  <2> HIDE DEF rows, cells
  <2> QED
    BY <2>1, <2>2, <2>3
<1> HIDE DEF rows, status
<1>3. \A m \in DOMAIN status.rows : \A s \in DOMAIN status.rows[m].sites :
    status.rows[m].sites[s].total.ok <= Cardinality(Succeeded(lines, s))
  BY <1>1, <1>2, SiteLogs
<1> QED
  BY <1>3 DEF CountedOnce, status

LEMMA TestChannelsAre ==
  ASSUME NEW channels, IsFiniteSet(Range(channels)), NEW model, NEW group,
         \A c \in Range(channels) : c \in Channel,
         \A c, d \in Range(channels) : c.id = d.id => c = d
  PROVE  LET chosen == TestChannels(channels, model, group)
             fit == {c \in Range(channels) :
                       c.on /\ model \in c.models /\ (group # "" => group \in c.groups)}
         IN  /\ fit # {} => chosen # <<>>
             /\ \A i \in 1..Len(chosen) - 1 : Rank(chosen[i].time) <= Rank(chosen[i + 1].time)
<1> DEFINE fit == {c \in Range(channels) :
                     c.on /\ model \in c.models /\ (group # "" => group \in c.groups)}
           before == {pair \in fit \X fit : Faster(pair[1], pair[2])}
           chosen == InOrder(fit, before)
           n == Cardinality(fit)
<1>1. fit \in SUBSET Range(channels)
  OBVIOUS
<1>2. chosen = TestChannels(channels, model, group)
  BY DEF TestChannels
<1>3. \A a, b \in fit : <<a, b>> \in before <=> Faster(a, b)
  <2>1. \A a, b \in fit : <<a, b>> \in fit \X fit
    OBVIOUS
  <2> HIDE DEF fit
  <2> QED
    BY <2>1
<1> HIDE DEF fit, before
<1>4. IsFiniteSet(fit) /\ n \in Nat
  BY <1>1, FS_Subset, FS_CardinalityType
<1>5. \A c \in fit : c.id \in Int /\ Rank(c.time) \in Int
  <2>1. \A c \in fit : c.id \in Int /\ c.time \in Int
    BY <1>1 DEF Channel
  <2> QED
    BY <2>1 DEF Rank
<1>6. Orders(before, fit)
  <2>1. \A x \in fit : <<x, x>> \notin before
    BY <1>3, <1>5 DEF Faster
  <2>2. \A x, y \in fit : x # y => <<x, y>> \in before \/ <<y, x>> \in before
    <3>1. \A x, y \in fit : x # y => x.id # y.id
      BY <1>1
    <3> QED
      BY <1>3, <1>5, <3>1 DEF Faster
  <2>3. \A x, y, z \in fit : <<x, y>> \in before /\ <<y, z>> \in before => <<x, z>> \in before
    BY <1>3, <1>5 DEF Faster
  <2> QED
    BY <2>1, <2>2, <2>3 DEF Orders
<1>7. /\ chosen \in [1..n -> fit]
      /\ \A x \in fit : \E k \in 1..n : chosen[k] = x
      /\ \A j, k \in 1..n : j < k => <<chosen[j], chosen[k]>> \in before
  BY <1>4, <1>6, InOrderIs
<1> HIDE DEF chosen
<1>8. Len(chosen) = n /\ DOMAIN chosen = 1..n
  <2>1. chosen \in Seq(fit)
    BY <1>4, <1>7
  <2> QED
    BY <1>4, <1>7, <2>1
<1>9. fit # {} => chosen # <<>>
  BY <1>7, <1>8
<1>a. ASSUME NEW i \in 1..Len(chosen) - 1
      PROVE  Rank(chosen[i].time) <= Rank(chosen[i + 1].time)
  <2>1. i \in 1..n /\ i + 1 \in 1..n /\ i < i + 1
    BY <1>4, <1>8
  <2>2. chosen[i] \in fit /\ chosen[i + 1] \in fit /\ <<chosen[i], chosen[i + 1]>> \in before
    BY <1>7, <2>1
  <2>3. Faster(chosen[i], chosen[i + 1])
    BY <1>3, <2>2
  <2> QED
    BY <1>5, <2>2, <2>3 DEF Faster
<1> QED
  BY <1>2, <1>9, <1>a DEF fit

LEMMA CellsAreTestableAlways ==
  ASSUME NEW lines, LinesAnswer(lines)
  PROVE  CellsAreTestable(lines)
<1> SUFFICES ASSUME NEW s \in SitesOf(lines), NEW m, NEW g
    PROVE  LET channels == SiteData(lines, s).channels
               chosen == TestChannels(channels, m, g)
           IN  /\ (\E c \in Range(channels) : c.on /\ m \in c.models /\ (g # "" => g \in c.groups))
                    => chosen # <<>>
               /\ \A i \in 1..Len(chosen) - 1 : Rank(chosen[i].time) <= Rank(chosen[i + 1].time)
  BY DEF CellsAreTestable
<1> DEFINE channels == SiteData(lines, s).channels
<1>1. /\ IsFiniteSet(Range(channels))
      /\ \A c \in Range(channels) : c \in Channel
      /\ \A c, d \in Range(channels) : c.id = d.id => c = d
  BY SiteChannels
<1> HIDE DEF channels
<1>2. LET chosen == TestChannels(channels, m, g)
          fit == {c \in Range(channels) : c.on /\ m \in c.models /\ (g # "" => g \in c.groups)}
      IN  /\ fit # {} => chosen # <<>>
          /\ \A i \in 1..Len(chosen) - 1 : Rank(chosen[i].time) <= Rank(chosen[i + 1].time)
  BY <1>1, TestChannelsAre
<1>3. (\E c \in Range(channels) : c.on /\ m \in c.models /\ (g # "" => g \in c.groups))
        => {c \in Range(channels) : c.on /\ m \in c.models /\ (g # "" => g \in c.groups)} # {}
  OBVIOUS
<1> QED
  BY <1>2, <1>3 DEF channels

\* Whatever the lines answer and however often models are tested, the table adds up.
LEMMA StatusAddsUpAlways ==
  ASSUME NEW lines, LinesAnswer(lines), NEW X, NEW tests \in Seq(X)
  PROVE  StatusAddsUp(lines, tests)
<1>1. SoundTable(Applied(Project(lines), tests))
  BY ProjectIsSound, AppliedIsSound
<1>2. AddsUp(Applied(Project(lines), tests))
  BY <1>1, SoundTableAddsUp
<1> QED
  BY <1>2, CountedOnceAlways, CellsAreTestableAlways DEF StatusAddsUp

(***************************************************************************)
(* The scene                                                               *)
(***************************************************************************)

LEMMA AlongInt ==
  ASSUME NEW a \in Points, NEW b \in Points, NEW object \in Objects
  PROVE  Along(a, b, object) \in Int
<1>1. \A x, y \in Int : x * y \in Int /\ x + y \in Int /\ x - y \in Int
  OBVIOUS
<1>2. /\ a.x \in Int /\ a.y \in Int /\ b.x \in Int /\ b.y \in Int
      /\ object.x \in Int /\ object.y \in Int
  BY DEF Points, Objects
<1>3. /\ object.x - a.x \in Int /\ object.y - a.y \in Int
      /\ b.x - a.x \in Int /\ b.y - a.y \in Int
  BY <1>1, <1>2
<1>4. Along(a, b, object)
        = (object.x - a.x) * (b.x - a.x) + (object.y - a.y) * (b.y - a.y)
  BY DEF Along, Dot, Minus
<1>5. /\ (object.x - a.x) * (b.x - a.x) \in Int
      /\ (object.y - a.y) * (b.y - a.y) \in Int
  BY <1>1, <1>3
<1> QED
  BY <1>1, <1>4, <1>5

LEMMA ClampIsPoint ==
  ASSUME NEW p \in Points
  PROVE  ClampPoint(p) \in Points
BY DEF Points, ClampPoint, Clamp

\* The object a cast meets first.
LEMMA NearestIs ==
  ASSUME NEW objects \in Seq(Objects), NEW a \in Points, NEW b \in Points
  PROVE  LET met == {i \in DOMAIN objects : Meets(a, b, objects[i])}
         IN  /\ met = {} => Nearest(objects, a, b) = <<>>
             /\ met # {} => \E i \in met :
                  /\ Nearest(objects, a, b) = <<objects[i]>>
                  /\ \A j \in met : Along(a, b, objects[i]) <= Along(a, b, objects[j])
<1> DEFINE met  == {i \in DOMAIN objects : Meets(a, b, objects[i])}
           near == {i \in met : \A j \in met : Along(a, b, objects[i]) <= Along(a, b, objects[j])}
<1>1. met = {} => Nearest(objects, a, b) = <<>>
  BY DEF Nearest
<1>2. met # {} => Nearest(objects, a, b) = <<objects[Min(near)]>>
  BY DEF Nearest
<1>3. met \in SUBSET DOMAIN objects /\ IsFiniteSet(met)
  <2>1. met \in SUBSET DOMAIN objects
    OBVIOUS
  <2> HIDE DEF met
  <2> QED
    BY <2>1, Positions, FS_Subset
<1>4. \A i \in DOMAIN objects : i \in Nat /\ objects[i] \in Objects
  BY Entry
<1> DEFINE f == [i \in met |-> Along(a, b, objects[i])]
<1>5. \A i \in met : f[i] = Along(a, b, objects[i]) /\ f[i] \in Int
  <2>1. \A i \in met : f[i] = Along(a, b, objects[i])
    OBVIOUS
  <2> HIDE DEF f, met
  <2> QED
    BY <1>3, <1>4, <2>1, AlongInt
<1> HIDE DEF f
<1>6. met # {} => near # {}
  <2>1. near = {i \in met : \A j \in met : Along(a, b, objects[i]) <= Along(a, b, objects[j])}
    OBVIOUS
  <2> HIDE DEF met, near
  <2>2. ASSUME met # {} PROVE \E m \in met : \A n \in met : f[m] <= f[n]
    BY <1>3, <1>5, <2>2, LeastValue
  <2> QED
    BY <1>5, <2>1, <2>2
<1>7. near \in SUBSET Nat
  BY <1>4
<1>8. met # {} => Min(near) \in near
  <2> HIDE DEF near, met
  <2> QED
    BY <1>6, <1>7, FirstOne
<1>9. ASSUME met # {}
      PROVE  \E i \in met : /\ Nearest(objects, a, b) = <<objects[i]>>
                            /\ \A j \in met : Along(a, b, objects[i]) <= Along(a, b, objects[j])
  <2>1. Min(near) \in near
    BY <1>8, <1>9
  <2>2. Min(near) \in met /\ \A j \in met : Along(a, b, objects[Min(near)]) <= Along(a, b, objects[j])
    BY <2>1
  <2> HIDE DEF near, met
  <2> QED
    BY <1>2, <1>9, <2>2
<1> QED
  BY <1>1, <1>9

\* What is left of a scene.
LEMMA LeftIs ==
  ASSUME NEW objects \in Seq(Objects), NEW removed
  PROVE  /\ Left(objects, removed) \in Seq(Objects)
         /\ \A k \in DOMAIN Left(objects, removed) : \E i \in DOMAIN objects :
              Left(objects, removed)[k] = objects[i] /\ objects[i].id \notin Range(removed)
         /\ \A o \in Range(Left(objects, removed)) : \E k \in DOMAIN Left(objects, removed) :
              o = Left(objects, removed)[k]
<1> DEFINE at == {i \in DOMAIN objects : objects[i].id \notin Range(removed)}
<1>1. at \in SUBSET DOMAIN objects /\ \A i \in at : objects[i].id \notin Range(removed)
  OBVIOUS
<1>2. Left(objects, removed) = Picked(objects, at)
  BY DEF Left
<1> HIDE DEF at
<1>3. /\ Picked(objects, at) \in Seq(Objects)
      /\ \A k \in DOMAIN Picked(objects, at) : \E i \in at : Picked(objects, at)[k] = objects[i]
  BY <1>1, PickedSeq
<1> QED
  BY <1>1, <1>2, <1>3 DEF Range

\* A cast takes what is in the scene, the zongzi only if nothing stands before it.
LEMMA CastIs ==
  ASSUME NEW layout, WellLaid(layout), NEW target \in Points, NEW removed
  PROVE  LET cast == ResolveCast(Scene(layout, removed), target)
         IN  /\ cast.hit \in BOOLEAN
             /\ cast.hit => \E i \in DOMAIN layout.zongzi :
                  cast.taken = <<layout.zongzi[i].id>> /\ layout.zongzi[i].id \notin Range(removed)
             /\ ~cast.hit => \/ cast.taken = <<>>
                             \/ \E i \in DOMAIN layout.obstacles :
                                  cast.taken = <<layout.obstacles[i].id>>
             /\ ClearWay(Scene(layout, removed), ClampPoint(target), cast)
<1> DEFINE os == Left(layout.obstacles, removed)
           zs == Left(layout.zongzi, removed)
           b  == ClampPoint(target)
           o  == Nearest(os, HookOrigin, b)
           z  == Nearest(zs, HookOrigin, b)
           cast == ResolveCast(Scene(layout, removed), target)
           omet == {i \in DOMAIN os : Meets(HookOrigin, b, os[i])}
           zmet == {i \in DOMAIN zs : Meets(HookOrigin, b, zs[i])}
<1>1. b \in Points /\ HookOrigin \in Points
  BY ClampIsPoint DEF HookOrigin, Points
<1>2. cast = CastMeets(o, z, b)
  BY DEF ResolveCast, Scene
<1>3. /\ os \in Seq(Objects) /\ zs \in Seq(Objects)
      /\ \A k \in DOMAIN os : \E i \in DOMAIN layout.obstacles : os[k] = layout.obstacles[i]
      /\ \A k \in DOMAIN zs : \E i \in DOMAIN layout.zongzi :
           zs[k] = layout.zongzi[i] /\ layout.zongzi[i].id \notin Range(removed)
      /\ \A x \in Range(os) : \E k \in DOMAIN os : x = os[k]
      /\ \A x \in Range(zs) : \E k \in DOMAIN zs : x = zs[k]
  <2>1. layout.obstacles \in Seq(Objects) /\ layout.zongzi \in Seq(Objects)
    BY DEF WellLaid
  <2>2. /\ os \in Seq(Objects)
        /\ \A k \in DOMAIN os : \E i \in DOMAIN layout.obstacles : os[k] = layout.obstacles[i]
        /\ \A x \in Range(os) : \E k \in DOMAIN os : x = os[k]
    BY <2>1, LeftIs
  <2>3. /\ zs \in Seq(Objects)
        /\ \A k \in DOMAIN zs : \E i \in DOMAIN layout.zongzi :
             zs[k] = layout.zongzi[i] /\ layout.zongzi[i].id \notin Range(removed)
        /\ \A x \in Range(zs) : \E k \in DOMAIN zs : x = zs[k]
    BY <2>1, LeftIs
  <2> QED
    BY <2>2, <2>3
<1>s. Scene(layout, removed).obstacles = os /\ Scene(layout, removed).zongzi = zs
  BY DEF Scene
<1> HIDE DEF b, os, zs
<1>4. /\ omet = {} => o = <<>>
      /\ omet # {} => \E i \in omet : /\ o = <<os[i]>>
           /\ \A j \in omet : Along(HookOrigin, b, os[i]) <= Along(HookOrigin, b, os[j])
  BY <1>1, <1>3, NearestIs
<1>5. /\ zmet = {} => z = <<>>
      /\ zmet # {} => \E i \in zmet : /\ z = <<zs[i]>>
           /\ \A j \in zmet : Along(HookOrigin, b, zs[i]) <= Along(HookOrigin, b, zs[j])
  BY <1>1, <1>3, NearestIs
<1>6. omet \in SUBSET DOMAIN os /\ zmet \in SUBSET DOMAIN zs
  OBVIOUS
<1> DEFINE blocked == z # <<>> => Along(HookOrigin, b, o[1]) < Along(HookOrigin, b, z[1])
<1>7. cast = IF o # <<>> /\ blocked THEN [hit |-> FALSE, taken |-> <<o[1].id>>]
             ELSE IF z = <<>> THEN [hit |-> FALSE, taken |-> <<>>]
             ELSE [hit |-> TRUE, taken |-> <<z[1].id>>]
  BY <1>2 DEF CastMeets
<1> HIDE DEF o, z, cast, omet, zmet
<1>8. ASSUME cast.hit
      PROVE  /\ z # <<>> /\ cast.taken = <<z[1].id>> /\ cast.hit = TRUE
             /\ o = <<>> \/ ~(Along(HookOrigin, b, o[1]) < Along(HookOrigin, b, z[1]))
  BY <1>7, <1>8
<1>9. ASSUME ~cast.hit
      PROVE  cast.hit = FALSE /\ (cast.taken = <<>> \/ (o # <<>> /\ cast.taken = <<o[1].id>>))
  BY <1>7, <1>9
<1>10. ASSUME cast.hit
       PROVE  \E k \in DOMAIN zs : /\ cast.taken = <<zs[k].id>> /\ z[1] = zs[k]
  <2>1. zmet # {}
    BY <1>5, <1>8, <1>10
  <2>2. PICK i \in zmet : z = <<zs[i]>>
    BY <1>5, <2>1
  <2>3. z[1] = zs[i] /\ i \in DOMAIN zs
    BY <1>6, <2>2
  <2> QED
    BY <1>8, <1>10, <2>3
<1>11. ASSUME cast.hit
       PROVE  \E i \in DOMAIN layout.zongzi :
                cast.taken = <<layout.zongzi[i].id>> /\ layout.zongzi[i].id \notin Range(removed)
  BY <1>3, <1>10, <1>11
<1>12. ASSUME ~cast.hit
       PROVE  \/ cast.taken = <<>>
              \/ \E i \in DOMAIN layout.obstacles : cast.taken = <<layout.obstacles[i].id>>
  <2>1. SUFFICES ASSUME o # <<>>, cast.taken = <<o[1].id>>
                 PROVE  \E i \in DOMAIN layout.obstacles : cast.taken = <<layout.obstacles[i].id>>
    BY <1>9, <1>12
  <2>2. omet # {}
    BY <1>4, <2>1
  <2>3. PICK i \in omet : o = <<os[i]>>
    BY <1>4, <2>2
  <2>4. o[1] = os[i] /\ i \in DOMAIN os
    BY <1>6, <2>3
  <2> QED
    BY <1>3, <2>1, <2>4
<1>13. ClearWay(Scene(layout, removed), b, cast)
  <2> SUFFICES ASSUME cast.hit, NEW x \in Range(os), NEW y \in Range(zs),
                      y.id = cast.taken[1], Meets(HookOrigin, b, x)
               PROVE  Along(HookOrigin, b, y) <= Along(HookOrigin, b, x)
    BY <1>s DEF ClearWay
  <2>1. PICK k \in DOMAIN zs : cast.taken = <<zs[k].id>> /\ z[1] = zs[k]
    BY <1>10
  <2>2. PICK l \in DOMAIN zs : y = zs[l]
    BY <1>3
  <2>3. zs[k].id = zs[l].id
    BY <2>1, <2>2
  <2>4. zs[k] = zs[l]
    <3>1. PICK i \in DOMAIN layout.zongzi : zs[k] = layout.zongzi[i]
      BY <1>3
    <3>2. PICK j \in DOMAIN layout.zongzi : zs[l] = layout.zongzi[j]
      BY <1>3
    <3>3. i = j
      BY <2>3, <3>1, <3>2 DEF WellLaid, OwnNames
    <3> QED
      BY <3>1, <3>2, <3>3
  <2>5. PICK m \in DOMAIN os : x = os[m]
    BY <1>3
  <2>6. m \in omet
    BY <2>5 DEF omet
  <2>7. PICK i \in omet : /\ o = <<os[i]>>
                          /\ \A j \in omet : Along(HookOrigin, b, os[i]) <= Along(HookOrigin, b, os[j])
    BY <1>4, <2>6
  <2>8. o # <<>> /\ o[1] = os[i] /\ Along(HookOrigin, b, os[i]) <= Along(HookOrigin, b, x)
    BY <2>5, <2>6, <2>7
  <2>9. ~(Along(HookOrigin, b, os[i]) < Along(HookOrigin, b, y))
    BY <1>8, <2>1, <2>2, <2>4, <2>8
  <2>10. os[i] \in Objects /\ x \in Objects /\ y \in Objects
    BY <1>3, <1>6, <2>2, <2>5, Entry
  <2>11. /\ Along(HookOrigin, b, os[i]) \in Int /\ Along(HookOrigin, b, x) \in Int
         /\ Along(HookOrigin, b, y) \in Int
    BY <1>1, <2>10, AlongInt
  <2> QED
    BY <2>8, <2>9, <2>11
<1>14. cast.hit \in BOOLEAN
  BY <1>8, <1>9
<1> QED
  BY <1>11, <1>12, <1>13, <1>14 DEF cast, b

(***************************************************************************)
(* Games                                                                     *)
(***************************************************************************)

NamesIn(layout) ==
  {layout.obstacles[i].id : i \in DOMAIN layout.obstacles}
  \cup {layout.zongzi[i].id : i \in DOMAIN layout.zongzi}

\* A list of what was taken: names of objects, each once.
Kept(layout, removed) ==
  /\ removed \in Seq(NamesIn(layout))
  /\ \A i, j \in DOMAIN removed : removed[i] = removed[j] => i = j

Taken(layout, removed) == {z \in Range(layout.zongzi) : z.id \in Range(removed)}

LEMMA ReadAgain ==
  ASSUME NEW layout, WellLaid(layout), NEW removed, Kept(layout, removed)
  PROVE  ReadRemoved(removed) = removed
<1> DEFINE at == {i \in DOMAIN removed : /\ removed[i] # ""
                                         /\ \A j \in 1..(i - 1) : removed[j] # removed[i]}
<1>1. removed \in Seq(NamesIn(layout))
  BY DEF Kept
<1>2. \A i \in DOMAIN removed : i \in Nat /\ removed[i] \in NamesIn(layout)
  BY <1>1, Entry
<1>3. \A x \in NamesIn(layout) : x # ""
  BY DEF NamesIn, WellLaid, OwnNames
<1>4. \A i \in DOMAIN removed : \A j \in 1..(i - 1) : j \in DOMAIN removed /\ j # i
  <2> TAKE i \in DOMAIN removed
  <2> TAKE j \in 1..(i - 1)
  <2>1. j \in DOMAIN removed
    BY <1>1, Before
  <2>2. j # i
    BY <1>2
  <2> QED
    BY <2>1, <2>2
<1>5. \A i \in DOMAIN removed : \A j \in 1..(i - 1) : removed[j] # removed[i]
  BY <1>4 DEF Kept
<1>6. at = DOMAIN removed
  BY <1>2, <1>3, <1>5
<1> HIDE DEF at
<1>7. ReadRemoved(removed) = Picked(removed, at)
  BY DEF ReadRemoved, at
<1> QED
  BY <1>1, <1>6, <1>7, PickedAll

\* What is added to the list.
LEMMA RemovedAfterIs ==
  ASSUME NEW layout, WellLaid(layout), NEW removed, Kept(layout, removed), NEW cast,
         cast.taken = <<>> \/ \E id \in NamesIn(layout) : cast.taken = <<id>>
  PROVE  LET after == RemovedAfter(removed, cast)
         IN  /\ Kept(layout, after)
             /\ Range(after) = Range(removed) \cup (IF cast.taken = <<>> THEN {} ELSE {cast.taken[1]})
<1> DEFINE after == RemovedAfter(removed, cast)
<1>1. removed \in Seq(NamesIn(layout))
  BY DEF Kept
<1>2. after = IF cast.taken = <<>> \/ cast.taken[1] \in Range(removed) THEN removed
              ELSE removed \o cast.taken
  BY ReadAgain DEF RemovedAfter
<1> HIDE DEF after
<1>3. ASSUME cast.taken = <<>> PROVE Kept(layout, after) /\ Range(after) = Range(removed)
  BY <1>2, <1>3
<1>4. ASSUME NEW id \in NamesIn(layout), cast.taken = <<id>>
      PROVE  Kept(layout, after) /\ Range(after) = Range(removed) \cup {id}
  <2>1. cast.taken[1] = id /\ cast.taken # <<>>
    BY <1>4
  <2>2. CASE id \in Range(removed)
    BY <1>2, <2>1, <2>2
  <2>3. CASE id \notin Range(removed)
    <3>1. after = removed \o <<id>>
      BY <1>2, <1>4, <2>1, <2>3
    <3>2. /\ after \in Seq(NamesIn(layout)) /\ DOMAIN after = DOMAIN removed \cup {Len(removed) + 1}
          /\ \A i \in DOMAIN removed : after[i] = removed[i]
          /\ after[Len(removed) + 1] = id /\ Len(removed) + 1 \notin DOMAIN removed
      BY <1>1, <1>4, <3>1, AddedAt
    <3>3. \A i \in DOMAIN removed : removed[i] # id
      BY <2>3 DEF Range
    <3>4. \A i, j \in DOMAIN after : after[i] = after[j] => i = j
      BY <3>2, <3>3 DEF Kept
    <3>5. Range(after) = Range(removed) \cup {id}
      BY <3>2 DEF Range
    <3> QED
      BY <3>2, <3>4, <3>5 DEF Kept
  <2> QED
    BY <2>2, <2>3
<1>5. \A id : <<id>>[1] = id /\ <<id>> # <<>>
  OBVIOUS
<1> QED
  BY <1>3, <1>4, <1>5 DEF after

\* A cast adds the zongzi it catches to those that are gone.
LEMMA OneMoreTaken ==
  ASSUME NEW layout, WellLaid(layout), NEW removed, NEW after
  PROVE  /\ IsFiniteSet(Taken(layout, removed)) /\ Cardinality(Taken(layout, removed)) \in Nat
         /\ Range(removed) = {} => Cardinality(Taken(layout, removed)) = 0
         /\ \A i \in DOMAIN layout.zongzi :
              (/\ layout.zongzi[i].id \notin Range(removed)
               /\ Range(after) = Range(removed) \cup {layout.zongzi[i].id})
                => Cardinality(Taken(layout, after)) = Cardinality(Taken(layout, removed)) + 1
         /\ \A i \in DOMAIN layout.obstacles :
              Range(after) = Range(removed) \cup {layout.obstacles[i].id}
                => Taken(layout, after) = Taken(layout, removed)
<1> DEFINE zs == layout.zongzi
           all == {zs[i] : i \in DOMAIN zs}
<1>1. zs \in Seq(Objects)
  BY DEF WellLaid
<1>2. IsFiniteSet(all)
  <2>1. IsFiniteSet(DOMAIN zs)
    BY <1>1, Positions
  <2> HIDE DEF zs
  <2> QED
    BY <2>1, Values
<1>3. Taken(layout, removed) \in SUBSET all /\ Taken(layout, after) \in SUBSET all
  BY DEF Taken, Range
<1>4. /\ IsFiniteSet(Taken(layout, removed)) /\ Cardinality(Taken(layout, removed)) \in Nat
  <2> HIDE DEF all
  <2> QED
    BY <1>2, <1>3, FS_Subset, FS_CardinalityType
<1>5. Range(removed) = {} => Taken(layout, removed) = {}
  BY DEF Taken
<1>6. ASSUME NEW i \in DOMAIN zs, zs[i].id \notin Range(removed),
             Range(after) = Range(removed) \cup {zs[i].id}
      PROVE  Cardinality(Taken(layout, after)) = Cardinality(Taken(layout, removed)) + 1
  <2>1. \A j \in DOMAIN zs : zs[j].id = zs[i].id => j = i
    BY DEF WellLaid, OwnNames
  <2>2. Taken(layout, after) = Taken(layout, removed) \cup {zs[i]}
    BY <1>6, <2>1 DEF Taken, Range
  <2>3. zs[i] \notin Taken(layout, removed)
    BY <1>6 DEF Taken
  <2> HIDE DEF zs
  <2> QED
    BY <1>4, <2>2, <2>3, FS_AddElement
<1>7. ASSUME NEW i \in DOMAIN layout.obstacles,
             Range(after) = Range(removed) \cup {layout.obstacles[i].id}
      PROVE  Taken(layout, after) = Taken(layout, removed)
  <2>1. \A j \in DOMAIN zs : zs[j].id # layout.obstacles[i].id
    BY DEF WellLaid
  <2>2. \A z \in Range(layout.zongzi) : z.id # layout.obstacles[i].id
    BY <2>1 DEF Range
  <2> QED
    BY <1>7, <2>2 DEF Taken
<1> QED
  BY <1>4, <1>5, <1>6, <1>7, FS_EmptySet

Rounds == [used : Nat, caught : Nat, peeled : Nat, status : {"caught", "peeled", "fishing"}]

\* What is true of a card after any number of casts.
GamesOn(layout, total) ==
  {game \in [round : Rounds, removed : Seq(NamesIn(layout))] :
     /\ Kept(layout, game.removed) /\ game.round.used <= total
     /\ game.round.caught = Cardinality(Taken(layout, game.removed))}

NewGame == [round |-> NewRound, removed |-> <<>>]

LEMMA NewGameIs ==
  ASSUME NEW layout, WellLaid(layout), NEW total \in Nat
  PROVE  NewGame \in GamesOn(layout, total) /\ NewGame.round.used = 0
<1>1. NewGame.round = NewRound /\ NewGame.removed = <<>>
  BY DEF NewGame
<1>2. NewRound \in Rounds /\ NewRound.used = 0 /\ NewRound.caught = 0
  BY DEF NewRound, Rounds
<1>3. <<>> \in Seq(NamesIn(layout)) /\ DOMAIN <<>> = {}
  OBVIOUS
<1>4. Kept(layout, <<>>) /\ Range(<<>>) = {}
  BY <1>3 DEF Kept, Range
<1>5. Cardinality(Taken(layout, <<>>)) = 0
  BY <1>4, OneMoreTaken
<1>6. NewGame \in [round : Rounds, removed : Seq(NamesIn(layout))]
  BY <1>2, <1>3 DEF NewGame
<1> QED
  BY <1>1, <1>2, <1>4, <1>5, <1>6 DEF GamesOn

LEMMA Counted ==
  ASSUME NEW S, NEW round \in [used : Nat, caught : Nat, peeled : Nat, status : S], NEW n \in {0, 1},
         NEW s \in S
  PROVE  LET next == [used |-> round.used + 1, caught |-> round.caught + n,
                      peeled |-> round.peeled, status |-> round.status]
         IN  [next EXCEPT !.status = s]
               = [used |-> round.used + 1, caught |-> round.caught + n, peeled |-> round.peeled,
                  status |-> s]
OBVIOUS

LEMMA FishIs ==
  ASSUME NEW total \in Nat, NEW round \in Rounds, NEW cast, cast.hit \in BOOLEAN,
         CanFish(total, round)
  PROVE  /\ Fish(total, round, cast) \in Rounds
         /\ Fish(total, round, cast).used = round.used + 1
         /\ Fish(total, round, cast).used <= total
         /\ Fish(total, round, cast).caught = round.caught + (IF cast.hit THEN 1 ELSE 0)
<1> DEFINE n    == IF cast.hit THEN 1 ELSE 0
           S    == {"caught", "peeled", "fishing"}
           next == [used |-> round.used + 1, caught |-> round.caught + n,
                    peeled |-> round.peeled, status |-> round.status]
           s    == StatusFor(next, total)
<1>1. s \in S /\ n \in {0, 1}
  BY DEF StatusFor
<1>2. Fish(total, round, cast) = [next EXCEPT !.status = s]
  BY DEF Fish
<1>3. round \in [used : Nat, caught : Nat, peeled : Nat, status : S]
  BY DEF Rounds
<1> HIDE DEF n, s, S
<1>4. Fish(total, round, cast) = [used |-> round.used + 1, caught |-> round.caught + n,
                                  peeled |-> round.peeled, status |-> s]
  BY <1>1, <1>2, <1>3, Counted
<1>5. round.used \in Nat /\ round.caught \in Nat /\ round.peeled \in Nat /\ round.used < total
  BY <1>3 DEF CanFish
<1>6. Fish(total, round, cast) \in [used : Nat, caught : Nat, peeled : Nat, status : S]
  BY <1>1, <1>4, <1>5
<1>7. /\ Fish(total, round, cast).used = round.used + 1
      /\ Fish(total, round, cast).caught = round.caught + n
  BY <1>4
<1>8. Fish(total, round, cast).used <= total
  BY <1>5, <1>7
<1> QED
  BY <1>6, <1>7, <1>8 DEF Rounds, S, n

LEMMA CastKeeps ==
  ASSUME NEW layout, WellLaid(layout), NEW total \in Nat, NEW target \in Points,
         NEW game \in GamesOn(layout, total)
  PROVE  /\ CastOnce(layout, total, game, target) \in GamesOn(layout, total)
         /\ CastOnce(layout, total, game, target).round.used <= game.round.used + 1
<1> DEFINE cast  == ResolveCast(Scene(layout, game.removed), target)
           after == RemovedAfter(game.removed, cast)
           fished == Fish(total, game.round, cast)
<1>1. /\ game \in [round : Rounds, removed : Seq(NamesIn(layout))]
      /\ Kept(layout, game.removed) /\ game.round.used <= total
      /\ game.round.caught = Cardinality(Taken(layout, game.removed))
  BY DEF GamesOn
<1>2. game.round \in Rounds /\ game.round.used \in Nat
  BY <1>1 DEF Rounds
<1>3. ASSUME ~CanFish(total, game.round)
      PROVE  CastOnce(layout, total, game, target) = game
  BY <1>3 DEF CastOnce
<1>4. ASSUME CanFish(total, game.round)
      PROVE  /\ CastOnce(layout, total, game, target) \in GamesOn(layout, total)
             /\ CastOnce(layout, total, game, target).round.used = game.round.used + 1
  <2>1. CastOnce(layout, total, game, target) = [round |-> fished, removed |-> after]
    BY <1>4 DEF CastOnce
  <2>2. /\ cast.hit \in BOOLEAN
        /\ cast.hit => \E i \in DOMAIN layout.zongzi :
             cast.taken = <<layout.zongzi[i].id>> /\ layout.zongzi[i].id \notin Range(game.removed)
        /\ ~cast.hit => \/ cast.taken = <<>>
                        \/ \E i \in DOMAIN layout.obstacles :
                             cast.taken = <<layout.obstacles[i].id>>
    BY CastIs
  <2> HIDE DEF cast
  <2>3. /\ fished \in Rounds /\ fished.used = game.round.used + 1 /\ fished.used <= total
        /\ fished.caught = game.round.caught + (IF cast.hit THEN 1 ELSE 0)
    BY <1>2, <1>4, <2>2, FishIs
  <2>4. cast.taken = <<>> \/ \E id \in NamesIn(layout) : cast.taken = <<id>>
    BY <2>2 DEF NamesIn
  <2>5. /\ Kept(layout, after)
        /\ Range(after) = Range(game.removed)
                            \cup (IF cast.taken = <<>> THEN {} ELSE {cast.taken[1]})
    BY <1>1, <2>4, RemovedAfterIs
  <2> HIDE DEF after, fished
  <2>6. fished.caught = Cardinality(Taken(layout, after))
    <3>1. ASSUME cast.hit PROVE fished.caught = Cardinality(Taken(layout, after))
      <4>1. PICK i \in DOMAIN layout.zongzi :
              cast.taken = <<layout.zongzi[i].id>> /\ layout.zongzi[i].id \notin Range(game.removed)
        BY <2>2, <3>1
      <4>2. Range(after) = Range(game.removed) \cup {layout.zongzi[i].id}
        BY <2>5, <4>1
      <4>3. Cardinality(Taken(layout, after)) = Cardinality(Taken(layout, game.removed)) + 1
        BY <4>1, <4>2, OneMoreTaken
      <4> QED
        BY <1>1, <2>3, <3>1, <4>3
    <3>2. ASSUME ~cast.hit PROVE fished.caught = Cardinality(Taken(layout, after))
      <4>1. Taken(layout, after) = Taken(layout, game.removed)
        <5>1. ASSUME cast.taken = <<>> PROVE Taken(layout, after) = Taken(layout, game.removed)
          <6>1. Range(after) = Range(game.removed)
            BY <2>5, <5>1
          <6> QED
            BY <6>1 DEF Taken
        <5>2. ASSUME NEW i \in DOMAIN layout.obstacles, cast.taken = <<layout.obstacles[i].id>>
              PROVE  Taken(layout, after) = Taken(layout, game.removed)
          <6>1. Range(after) = Range(game.removed) \cup {layout.obstacles[i].id}
            BY <2>5, <5>2
          <6> QED
            BY <6>1, OneMoreTaken
        <5> QED
          BY <2>2, <3>2, <5>1, <5>2
      <4>2. game.round.caught \in Nat
        BY <1>2 DEF Rounds
      <4> QED
        BY <1>1, <2>3, <3>2, <4>1, <4>2
    <3> QED
      BY <2>2, <3>1, <3>2
  <2>7. after \in Seq(NamesIn(layout))
    BY <2>5 DEF Kept
  <2> QED
    BY <2>1, <2>3, <2>5, <2>6, <2>7 DEF GamesOn
<1> QED
  BY <1>2, <1>3, <1>4

\* A card played through: the casts so far are counted, and the game is sound after each.
LEMMA PlayedIs ==
  ASSUME NEW layout, WellLaid(layout), NEW total \in Nat, NEW targets \in Seq(Points)
  PROVE  /\ Played(layout, total, targets) \in GamesOn(layout, total)
         /\ Played(layout, total, targets).round.used <= Len(targets)
<1> DEFINE N == Len(targets)
           D == GamesOn(layout, total)
           Goes(f) == f = [n \in 0..N |-> IF n = 0 THEN NewGame
                                          ELSE CastOnce(layout, total, f[n - 1], targets[n])]
           after == CHOOSE f : Goes(f)
           step  == [p \in (1..N) \X D |-> CastOnce(layout, total, p[2], targets[p[1]])]
<1>1. N \in Nat /\ \A n \in 1..N : targets[n] \in Points
  OBVIOUS
<1>2. NewGame \in D /\ NewGame.round.used = 0
  BY NewGameIs
<1>3. \A n \in 1..N : \A x \in D :
        /\ CastOnce(layout, total, x, targets[n]) \in D
        /\ CastOnce(layout, total, x, targets[n]).round.used <= x.round.used + 1
        /\ x.round.used \in Nat /\ CastOnce(layout, total, x, targets[n]).round.used \in Nat
  <2> TAKE n \in 1..N
  <2> TAKE x \in D
  <2>1. \A y \in D : y.round.used \in Nat
    BY DEF GamesOn, Rounds
  <2>2. /\ CastOnce(layout, total, x, targets[n]) \in D
        /\ CastOnce(layout, total, x, targets[n]).round.used <= x.round.used + 1
    BY <1>1, CastKeeps
  <2> HIDE DEF D
  <2> QED
    BY <2>1, <2>2
<1>4. Played(layout, total, targets) = after[N]
  BY DEF Played, NewGame
<1>5. \A n \in 1..N : \A x \in D : step[<<n, x>>] = CastOnce(layout, total, x, targets[n])
  <2> HIDE DEF D, N
  <2> QED
    OBVIOUS
<1> HIDE DEF D, step
<1>6. \E g : Follows(g, N, D, NewGame, step)
  <2>1. Stays(N, D, step)
    BY <1>3, <1>5 DEF Stays
  <2> HIDE DEF N
  <2> QED
    BY <1>1, <1>2, <2>1, Recursion
<1>7. \E g : Goes(g)
  <2>1. PICK g : Follows(g, N, D, NewGame, step)
    BY <1>6
  <2> HIDE DEF N
  <2>2. g \in [0..N -> D] /\ g[0] = NewGame /\ \A n \in 1..N : g[n] = step[<<n, g[n - 1]>>]
    BY <2>1 DEF Follows
  <2>3. \A n \in 0..N : g[n] = IF n = 0 THEN NewGame
                               ELSE CastOnce(layout, total, g[n - 1], targets[n])
    <3> TAKE n \in 0..N
    <3>1. CASE n = 0
      BY <2>2, <3>1
    <3>2. CASE n # 0
      <4>1. n \in 1..N /\ n - 1 \in 0..N
        BY <1>1, <3>2
      <4>2. g[n - 1] \in D /\ g[n] = step[<<n, g[n - 1]>>]
        BY <2>2, <4>1
      <4> QED
        BY <1>5, <3>2, <4>1, <4>2
    <3> QED
      BY <3>1, <3>2
  <2>4. g = [n \in 0..N |-> g[n]]
    BY <2>2
  <2>5. Goes(g)
    BY <2>3, <2>4
  <2> QED
    BY <2>5
<1>8. Goes(after)
  <2> HIDE DEF Goes
  <2> QED
    BY <1>7
<1>9. after[0] = NewGame /\ \A n \in 1..N : after[n] = CastOnce(layout, total, after[n - 1], targets[n])
  <2> HIDE DEF after, N
  <2> QED
    BY <1>1, <1>8
<1> DEFINE Q == {n \in Nat : n <= N => after[n] \in D /\ after[n].round.used <= n}
<1> HIDE DEF after, N, Goes
<1>10. 0 \in Q
  BY <1>2, <1>9
<1>11. ASSUME NEW n \in Q \cap Nat PROVE n + 1 \in Q
  <2>1. SUFFICES ASSUME n + 1 <= N
                 PROVE  after[n + 1] \in D /\ after[n + 1].round.used <= n + 1
    OBVIOUS
  <2>2. n + 1 \in 1..N /\ (n + 1) - 1 = n /\ n <= N
    BY <1>1, <2>1
  <2>3. after[n + 1] = CastOnce(layout, total, after[n], targets[n + 1])
    BY <1>9, <2>2
  <2>4. after[n] \in D /\ after[n].round.used <= n /\ n \in Nat
    BY <2>2
  <2> DEFINE last == after[n]
             next == CastOnce(layout, total, last, targets[n + 1])
  <2> HIDE DEF last, next, Q
  <2>5. /\ next \in D /\ next.round.used <= last.round.used + 1
        /\ last.round.used \in Nat /\ next.round.used \in Nat
    BY <1>3, <2>2, <2>4 DEF last, next
  <2>6. last.round.used <= n /\ after[n + 1] = next
    BY <2>3, <2>4 DEF last, next
  <2>7. next.round.used <= n + 1
    BY <2>4, <2>5, <2>6
  <2> QED
    BY <2>5, <2>6, <2>7
<1>12. N \in Q
  <2> HIDE DEF Q
  <2> QED
    BY <1>1, <1>10, <1>11, Induction
<1> QED
  BY <1>4, <1>12 DEF N, D

\* However a card is cast, no zongzi is caught twice or through an obstacle.
LEMMA EachZongziOnceAlways ==
  ASSUME NEW layout, WellLaid(layout), NEW total \in Nat, NEW targets \in Seq(Points)
  PROVE  EachZongziOnce(layout, total, targets)
<1> DEFINE game == Played(layout, total, targets)
<1>1. game \in GamesOn(layout, total) /\ game.round.used <= Len(targets)
  BY PlayedIs
<1> HIDE DEF game
<1>2. game.round.used <= total /\ game.round.caught = Cardinality(Taken(layout, game.removed))
  BY <1>1 DEF GamesOn
<1>3. ASSUME NEW t \in Range(targets)
      PROVE  ClearWay(Scene(layout, game.removed), ClampPoint(t),
                      ResolveCast(Scene(layout, game.removed), t))
  <2>1. t \in Points
    BY <1>3 DEF Range
  <2> QED
    BY <2>1, CastIs
<1> QED
  BY <1>1, <1>2, <1>3 DEF EachZongziOnce, FairGame, Taken, game

(***************************************************************************)
(* Pools                                                                   *)
(***************************************************************************)

LEMMA TheTexts ==
  /\ "" \in Texts /\ "win" \in Texts /\ "miss" \in Texts /\ "retry" \in Texts
  /\ "win" # "" /\ "miss" # "" /\ "miss" # "win" /\ "retry" # "win"
BY DEF Texts

\* A row without a type is given one.
TypeOf(p) == IF p.type # "" THEN p.type ELSE IF p.dollars > 0 THEN "win" ELSE "miss"
DollarsOf(p) == IF TypeOf(p) = "win" THEN p.dollars ELSE 0

LEMMA TypeOfAny ==
  ASSUME NEW T, NEW win \in T, NEW miss \in T, NEW none, win # none, miss # none, miss # win,
         NEW given \in T, NEW d \in Int,
         NEW type, type = IF given # none THEN given ELSE IF d > 0 THEN win ELSE miss,
         NEW e, e = IF type = win THEN d ELSE 0
  PROVE  /\ type \in T /\ type # none /\ e \in Int
         /\ e > 0 => type = win
         /\ given # none => type = given /\ e = IF given = win THEN d ELSE 0
OBVIOUS

LEMMA TypeOfIs ==
  ASSUME NEW p, p.type \in Texts, p.dollars \in Int
  PROVE  /\ TypeOf(p) \in Texts /\ TypeOf(p) # "" /\ DollarsOf(p) \in Int
         /\ DollarsOf(p) > 0 => TypeOf(p) = "win"
         /\ p.type # "" =>
              /\ TypeOf(p) = p.type
              /\ DollarsOf(p) = IF p.type = "win" THEN p.dollars ELSE 0
<1> DEFINE win == "win"
           miss == "miss"
           none == ""
           type == TypeOf(p)
           e == DollarsOf(p)
<1>1. type = IF p.type # none THEN p.type ELSE IF p.dollars > 0 THEN win ELSE miss
  BY DEF TypeOf
<1>2. e = IF type = win THEN p.dollars ELSE 0
  BY DEF DollarsOf
<1>3. /\ win \in Texts /\ miss \in Texts
      /\ win # none /\ miss # none /\ miss # win
  BY TheTexts
<1> HIDE DEF win, miss, none, type, e
<1>4. /\ type \in Texts /\ type # none /\ e \in Int
      /\ e > 0 => type = win
      /\ p.type # none => type = p.type /\ e = IF p.type = win THEN p.dollars ELSE 0
  BY ONLY p.type \in Texts, p.dollars \in Int, <1>1, <1>2, <1>3, TypeOfAny
<1> QED
  BY <1>4 DEF win, none, type, e

LEMMA TypedIs ==
  ASSUME NEW p \in PrizeRows
  PROVE  /\ Typed(p) \in PrizeRows
         /\ Typed(p).weight = p.weight /\ Typed(p).adv = p.adv /\ Typed(p).rank = p.rank
         /\ Typed(p).type # ""
         /\ p.type # "" => Value(Typed(p)) = Value(p)
         /\ Typed(p).dollars > 0 => Typed(p).type = "win"
<1> DEFINE type == TypeOf(p)
           dollars == DollarsOf(p)
           q == [type |-> type, dollars |-> dollars, weight |-> p.weight, rank |-> p.rank,
                 adv |-> p.adv]
<1>1. Typed(p) = q
  BY DEF Typed, TypeOf, DollarsOf
<1>2. /\ p.type \in Texts /\ p.dollars \in Int /\ p.weight \in Int /\ p.rank \in Texts
      /\ p.adv \in BOOLEAN
  BY DEF PrizeRows
<1>3. /\ type \in Texts /\ type # "" /\ dollars \in Int
      /\ dollars > 0 => type = "win"
      /\ p.type # "" => type = p.type /\ dollars = IF p.type = "win" THEN p.dollars ELSE 0
  BY <1>2, TypeOfIs
<1> HIDE DEF type, dollars
<1>6. q \in PrizeRows
  BY <1>2, <1>3 DEF PrizeRows
<1>7. q.type = type /\ q.dollars = dollars /\ q.weight = p.weight /\ q.adv = p.adv /\ q.rank = p.rank
  OBVIOUS
<1>8. ASSUME p.type # "" PROVE Value(q) = Value(p)
  <2>1. q.type = p.type /\ q.dollars = IF p.type = "win" THEN p.dollars ELSE 0
    BY <1>3, <1>7, <1>8
  <2> HIDE DEF q
  <2> QED
    BY <2>1 DEF Value
<1> QED
  BY <1>1, <1>3, <1>6, <1>7, <1>8

LEMMA ValueIs ==
  ASSUME NEW p \in PrizeRows
  PROVE  Value(p) \in Nat /\ p.weight \in Int /\ p.dollars \in Int /\ p.adv \in BOOLEAN
BY DEF PrizeRows, Value

\* A row with another weight.
LEMMA Reweighed ==
  ASSUME NEW p \in PrizeRows, NEW w \in Int
  PROVE  LET q == [p EXCEPT !.weight = w]
         IN  /\ q \in PrizeRows /\ q.weight = w /\ q.adv = p.adv /\ Value(q) = Value(p)
             /\ q.type = p.type
             /\ w = p.weight => q = p
BY DEF PrizeRows, Value

\* The rows that can be drawn or are advertised.
LEMMA WithRowsIs ==
  ASSUME NEW pool \in Seq(PrizeRows)
  PROVE  /\ WithRows(pool) \in Seq(PrizeRows)
         /\ \A i \in DOMAIN pool : pool[i].weight > 0 =>
              \E k \in DOMAIN WithRows(pool) : WithRows(pool)[k] = pool[i]
<1> DEFINE at == {i \in DOMAIN pool : pool[i].weight > 0 \/ pool[i].adv}
<1>1. at \in SUBSET DOMAIN pool /\ \A i \in DOMAIN pool : pool[i].weight > 0 => i \in at
  OBVIOUS
<1>2. WithRows(pool) = Picked(pool, at)
  BY DEF WithRows
<1> HIDE DEF at
<1> QED
  BY <1>1, <1>2, PickedSeq

LEMMA NormalizeIs ==
  ASSUME NEW pool \in Seq(PrizeRows)
  PROVE  /\ Normalize(pool) \in Seq(PrizeRows)
         /\ \A i \in DOMAIN Normalize(pool) : Normalize(pool)[i].type # ""
         /\ \A i \in DOMAIN pool : pool[i].weight > 0 =>
              \E k \in DOMAIN Normalize(pool) : Normalize(pool)[k] = Typed(pool[i])
<1> DEFINE kept == WithRows(pool)
<1>1. /\ kept \in Seq(PrizeRows)
      /\ \A i \in DOMAIN pool : pool[i].weight > 0 => \E k \in DOMAIN kept : kept[k] = pool[i]
  BY WithRowsIs
<1> HIDE DEF kept
<1>2. \A k \in DOMAIN kept : kept[k] \in PrizeRows
  BY <1>1, Entry
<1> DEFINE all == [k \in DOMAIN kept |-> Typed(kept[k])]
<1>3. \A k \in DOMAIN kept : Typed(kept[k]) \in PrizeRows /\ Typed(kept[k]).type # ""
  BY <1>2, TypedIs
<1>4. all \in [DOMAIN kept -> PrizeRows]
  BY <1>3
<1>5. all \in Seq(PrizeRows)
  <2>1. kept \in Seq(PrizeRows)
    BY ONLY <1>1
  <2> HIDE DEF all
  <2> QED
    BY ONLY <1>4, <2>1, SameLength
<1>6. Normalize(pool) = all
  BY DEF Normalize, kept
<1> QED
  BY <1>1, <1>3, <1>5, <1>6

LEMMA Product ==
  ASSUME NEW a \in Int, NEW b \in Int
  PROVE  a * b \in Int /\ (a = 0 => a * b = 0) /\ (a >= 0 /\ b >= 0 => a * b >= 0)
         /\ (a > 0 /\ b > 0 => a * b > 0)
<1>1. a * b \in Int
  OBVIOUS
<1>2. a = 0 => a * b = 0
  OBVIOUS
<1>3. a > 0 /\ b > 0 => a * b > 0
  BY SMTT(30)
<1>4. a >= 0 /\ b >= 0 => a * b >= 0
  BY SMTT(30)
<1> QED
  BY <1>1, <1>2, <1>3, <1>4

Paying(pool) == {i \in Live(pool) : Value(pool[i]) > 0}

\* What the rows of a pool weigh and are worth is a number.
LEMMA Weighed ==
  ASSUME NEW pool \in Seq(PrizeRows)
  PROVE  /\ Live(pool) \in SUBSET DOMAIN pool /\ Paying(pool) \in SUBSET Live(pool)
         /\ IsFiniteSet(DOMAIN pool) /\ IsFiniteSet(Live(pool)) /\ IsFiniteSet(Paying(pool))
         /\ \A i \in DOMAIN pool :
              /\ pool[i] \in PrizeRows
              /\ pool[i].weight \in Int /\ Value(pool[i]) \in Nat
              /\ Value(pool[i]) * pool[i].weight \in Int
         /\ \A i \in Live(pool) : pool[i].weight > 0
<1>1. \A i \in DOMAIN pool : pool[i] \in PrizeRows
  BY Entry
<1>2. \A i \in DOMAIN pool : pool[i].weight \in Int /\ Value(pool[i]) \in Nat
  BY <1>1, ValueIs
<1>3. \A i \in DOMAIN pool : Value(pool[i]) * pool[i].weight \in Int
  <2> TAKE i \in DOMAIN pool
  <2>1. pool[i].weight \in Int /\ Value(pool[i]) \in Int
    BY <1>2
  <2> QED
    BY <2>1, Product
<1>4. Live(pool) \in SUBSET DOMAIN pool /\ Paying(pool) \in SUBSET Live(pool)
  BY DEF Live, Paying
<1>5. IsFiniteSet(DOMAIN pool)
  BY Positions
<1>6. IsFiniteSet(Live(pool)) /\ IsFiniteSet(Paying(pool))
  BY <1>4, <1>5, FS_Subset
<1>7. \A i \in Live(pool) : pool[i].weight > 0
  BY DEF Live
<1> QED
  BY <1>1, <1>2, <1>3, <1>4, <1>5, <1>6, <1>7

\* What is paid out of a pool is what its paying rows pay.
LEMMA PaidWorth ==
  ASSUME NEW pool \in Seq(PrizeRows)
  PROVE  /\ WeightOf(Paid(pool), DOMAIN Paid(pool)) = WeightOf(pool, Paying(pool))
         /\ ValueOf(Paid(pool), DOMAIN Paid(pool)) = ValueOf(pool, Paying(pool))
         /\ Paid(pool) # <<>> => Paying(pool) # {}
<1> DEFINE at == Paying(pool)
           out == Picked(pool, at)
           f == [i \in DOMAIN pool |-> pool[i].weight]
           g == [k \in DOMAIN out |-> out[k].weight]
           u == [i \in DOMAIN pool |-> Value(pool[i]) * pool[i].weight]
           v == [k \in DOMAIN out |-> Value(out[k]) * out[k].weight]
<1>1. Paid(pool) = out
  BY DEF Paid, Paying
<1>2. at \in SUBSET DOMAIN pool /\ at \in SUBSET Live(pool)
  BY Weighed
<1>3. \A i \in at : f[i] \in Int /\ u[i] \in Int
  BY <1>2, Weighed
<1>4. \A k \in DOMAIN out, i \in at : out[k] = pool[i] => g[k] = f[i] /\ v[k] = u[i]
  BY <1>2
<1>5. at \in SUBSET Int /\ IsFiniteSet(at)
  BY <1>2, Weighed, Positions
<1> HIDE DEF f, g, u, v, at
<1>9. /\ \A i \in at : f[i] \in Int
      /\ \A k \in DOMAIN out, i \in at : out[k] = pool[i] => g[k] = f[i]
  BY <1>3, <1>4
<1>10. /\ \A i \in at : u[i] \in Int
       /\ \A k \in DOMAIN out, i \in at : out[k] = pool[i] => v[k] = u[i]
  BY <1>3, <1>4
<1>11. Total(g, DOMAIN out) = Total(f, at) /\ Total(v, DOMAIN out) = Total(u, at)
  <2>1. Total(g, DOMAIN out) = Total(f, at)
    BY <1>5, <1>9, TotalPickedAll
  <2>2. Total(v, DOMAIN out) = Total(u, at)
    BY <1>5, <1>10, TotalPickedAll
  <2> QED
    BY <2>1, <2>2
<1> HIDE DEF out
<1>12. WeightOf(out, DOMAIN out) = WeightOf(pool, at) /\ ValueOf(out, DOMAIN out) = ValueOf(pool, at)
  BY <1>11 DEF WeightOf, ValueOf, f, g, u, v
<1>13. at = {} => out = <<>>
  BY PickedNone DEF out
<1> QED
  BY <1>1, <1>12, <1>13 DEF at

\* Whole quotients.
LEMMA Divided ==
  ASSUME NEW a \in Int, NEW b \in Int, b > 0
  PROVE  /\ a \div b \in Int /\ a % b \in Int
         /\ 0 <= a % b /\ a % b < b
         /\ a = b * (a \div b) + (a % b)
         /\ a >= 0 => a \div b >= 0
OBVIOUS

LEMMA Multiples ==
  ASSUME NEW b \in Int, b > 0, NEW x \in Int, NEW y \in Int
  PROVE  /\ b * x <= b * y => x <= y
         /\ b * x = b * y => x = y
OBVIOUS

LEMMA Rounded ==
  ASSUME NEW d \in Int, NEW t \in Int, t > 0, d > 0
  PROVE  LET n == (2 * d + t) \div (2 * t)
         IN  n \in Nat /\ 2 * (n * t - d) \in -t..t
<1> DEFINE n == (2 * d + t) \div (2 * t)
<1>1. 2 * t \in Int /\ 2 * t > 0 /\ 2 * d + t \in Int /\ 2 * d + t >= 0
  OBVIOUS
<1>2. n \in Int /\ n >= 0
  BY <1>1, Divided
<1>3. /\ (2 * d + t) % (2 * t) \in Int
      /\ 0 <= (2 * d + t) % (2 * t) /\ (2 * d + t) % (2 * t) < 2 * t
      /\ 2 * d + t = (2 * t) * n + ((2 * d + t) % (2 * t))
  BY <1>1, Divided
<1>4. (2 * t) * n = 2 * (n * t) /\ n * t \in Int
  BY <1>2
<1> HIDE DEF n
<1>5. 2 * (n * t - d) \in -t..t
  BY <1>3, <1>4
<1> QED
  BY <1>2, <1>5 DEF n

\* Shares of a weight come to the whole of it.
LEMMA Shared ==
  ASSUME NEW pool \in Seq(PrizeRows), NEW rows \in SUBSET Live(pool), rows # {}, NEW n \in Nat
  PROVE  LET a == Allocate(pool, rows, WeightOf(pool, rows), n)
         IN  DOMAIN a = rows /\ (\A i \in rows : a[i] \in Nat) /\ Total(a, rows) = n
<1> DEFINE T == WeightOf(pool, rows)
           f == [i \in DOMAIN pool |-> pool[i].weight]
           base == [i \in rows |-> (n * pool[i].weight) \div T]
           rest == [i \in rows |-> (n * pool[i].weight) % T]
           left == n - Total(base, rows)
           ahead(i) == {j \in rows : rest[j] > rest[i] \/ (rest[j] = rest[i] /\ j < i)}
           more == [i \in rows |-> IF Cardinality(ahead(i)) < left THEN 1 ELSE 0]
           a == [i \in rows |-> base[i] + (IF Cardinality(ahead(i)) < left THEN 1 ELSE 0)]
<1>1. Allocate(pool, rows, T, n) = a
  BY DEF Allocate
<1>2. /\ rows \in SUBSET DOMAIN pool /\ IsFiniteSet(rows) /\ rows \in SUBSET Int
      /\ \A i \in rows : f[i] \in Int /\ f[i] > 0 /\ f[i] = pool[i].weight
  <2>1. rows \in SUBSET DOMAIN pool /\ IsFiniteSet(rows)
    BY Weighed, FS_Subset
  <2>2. rows \in SUBSET Int
    BY <2>1, Entry
  <2>3. \A i \in rows : pool[i].weight \in Int /\ pool[i].weight > 0
    BY <2>1, Weighed
  <2> QED
    BY <2>1, <2>2, <2>3
<1>3. T = Total(f, rows) /\ T \in Int /\ T > 0
  <2>1. T = Total(f, rows)
    BY DEF WeightOf
  <2> HIDE DEF T, f
  <2>2. Total(f, rows) \in Int
    BY <1>2, TotalInt
  <2>3. Total(f, rows) > 0
    BY <1>2, TotalPositive
  <2> QED
    BY <2>1, <2>2, <2>3
<1> HIDE DEF T
<1> DEFINE share == [i \in rows |-> n * f[i]]
           whole == [i \in rows |-> T * base[i]]
<1>4. \A i \in rows : /\ share[i] \in Int /\ share[i] >= 0
                      /\ share[i] = n * f[i] /\ share[i] = n * pool[i].weight
  <2> TAKE i \in rows
  <2>1. f[i] \in Int /\ f[i] > 0 /\ f[i] = pool[i].weight
    BY <1>2
  <2> DEFINE w == f[i]
  <2>2. w \in Int /\ w >= 0 /\ n \in Int /\ n >= 0
    BY <2>1
  <2> HIDE DEF w
  <2>3. n * w \in Int /\ n * w >= 0
    BY ONLY <2>2, Product
  <2>4. n * f[i] \in Int /\ n * f[i] >= 0
    BY ONLY <2>3 DEF w
  <2>5. share[i] = n * f[i]
    OBVIOUS
  <2>6. n * f[i] = n * pool[i].weight
    BY <2>1
  <2> QED
    BY ONLY <2>4, <2>5, <2>6
<1>5. \A i \in rows : /\ base[i] \in Int /\ base[i] >= 0 /\ rest[i] \in Int
                      /\ 0 <= rest[i] /\ rest[i] < T
                      /\ whole[i] = T * base[i] /\ whole[i] \in Int
                      /\ share[i] = whole[i] + rest[i]
  <2> TAKE i \in rows
  <2>1. share[i] \in Int /\ share[i] >= 0 /\ share[i] = n * pool[i].weight
    BY <1>4
  <2>2. base[i] = share[i] \div T /\ rest[i] = share[i] % T /\ whole[i] = T * base[i]
    BY <2>1
  <2> HIDE DEF share, base, rest, whole
  <2>3. /\ share[i] \div T \in Int /\ share[i] % T \in Int
        /\ 0 <= share[i] % T /\ share[i] % T < T
        /\ share[i] = T * (share[i] \div T) + (share[i] % T)
        /\ share[i] \div T >= 0
    BY <1>3, <2>1, Divided
  <2>4. T * base[i] \in Int
    BY <1>3, <2>2, <2>3, Product
  <2> QED
    BY <2>2, <2>3, <2>4
<1> HIDE DEF share, base, rest, whole, f
<1>6. Total(share, rows) = n * T
  BY <1>2, <1>3, <1>4, TotalTimes
<1>7. Total(whole, rows) = T * Total(base, rows)
  BY <1>2, <1>3, <1>5, TotalTimes
<1>8. Total(share, rows) = Total(whole, rows) + Total(rest, rows)
  BY <1>2, <1>5, TotalSum
<1>9. Total(base, rows) \in Int /\ Total(rest, rows) \in Int
  BY <1>2, <1>5, TotalInt
<1>10. left \in Int /\ T * left = Total(rest, rows)
  <2>1. ASSUME NEW t \in Int, NEW m \in Int, NEW x \in Int, NEW y \in Int, m * t = t * x + y
        PROVE  t * (m - x) = y
    BY <2>1
  <2>2. n * T = T * Total(base, rows) + Total(rest, rows) /\ n \in Int
    BY <1>6, <1>7, <1>8
  <2>3. T * (n - Total(base, rows)) = Total(rest, rows)
    BY ONLY <1>3, <1>9, <2>1, <2>2
  <2> QED
    BY <1>9, <2>2, <2>3
<1>11. left \in 0..Cardinality(rows)
  <2> DEFINE one == [i \in rows |-> 1]
             each == [i \in rows |-> T * one[i]]
             none == [i \in rows |-> 0]
  <2>1. Total(one, rows) = Cardinality(rows)
    BY <1>2, TotalOnes
  <2>2. \A i \in rows : /\ one[i] \in Int /\ each[i] = T * one[i] /\ each[i] = T
                        /\ none[i] = 0
    BY <1>3
  <2> HIDE DEF one, each, none, left
  <2>3. Total(each, rows) = T * Total(one, rows)
    BY <1>2, <1>3, <2>2, TotalTimes
  <2>4. \A i \in rows : rest[i] \in Int /\ each[i] \in Int /\ rest[i] <= each[i]
    BY <1>3, <1>5, <2>2
  <2>5. \A i \in rows : none[i] \in Int /\ rest[i] \in Int /\ none[i] <= rest[i]
    BY <1>5, <2>2
  <2>6. Total(rest, rows) <= Total(each, rows)
    BY <1>2, <2>4, TotalAtLeast
  <2>7. Total(none, rows) <= Total(rest, rows) /\ Total(none, rows) = 0
    BY <1>2, <2>2, <2>5, TotalAtLeast, TotalNone
  <2>8. Cardinality(rows) \in Nat
    BY <1>2, FS_CardinalityType
  <2>9. T * 0 <= T * left /\ T * left <= T * Cardinality(rows)
    BY <1>3, <1>10, <2>1, <2>3, <2>6, <2>7
  <2> QED
    BY <1>3, <1>10, <2>8, <2>9, Multiples
<1> DEFINE before == {p \in rows \X rows : \/ rest[p[1]] > rest[p[2]]
                                           \/ rest[p[1]] = rest[p[2]] /\ p[1] < p[2]}
<1> HIDE DEF left
<1>12. \A i, j \in rows : <<j, i>> \in before <=> rest[j] > rest[i] \/ (rest[j] = rest[i] /\ j < i)
  OBVIOUS
<1>13. \A i \in rows : Below(rows, before, i) = ahead(i)
  BY <1>12 DEF Below
<1> HIDE DEF before
<1>14. Orders(before, rows)
  <2>1. \A i \in rows : rest[i] \in Int /\ i \in Int
    BY <1>2, <1>5
  <2> QED
    BY <1>12, <2>1 DEF Orders
<1> DEFINE ones == {i \in rows : Cardinality(Below(rows, before, i)) < left}
<1>15. Cardinality(ones) = left
  BY <1>2, <1>11, <1>14, FirstOnes
<1>16. \A i \in rows : more[i] = IF i \in ones THEN 1 ELSE 0
  BY <1>13
<1>17. \A i \in rows : a[i] = base[i] + more[i] /\ more[i] \in 0..1
  OBVIOUS
<1>18. ones \in SUBSET rows /\ DOMAIN a = rows
  OBVIOUS
<1> HIDE DEF a, more, ones, ahead
<1>19. Total(more, rows) = left
  BY <1>2, <1>15, <1>16, <1>18, TotalOnes
<1>20. Total(a, rows) = Total(base, rows) + Total(more, rows)
  <2>1. \A i \in rows : base[i] \in Int /\ more[i] \in Int /\ a[i] = base[i] + more[i]
    BY <1>5, <1>17
  <2> QED
    BY ONLY <1>2, <2>1, TotalSum
<1>21. Total(a, rows) = n
  BY <1>9, <1>11, <1>19, <1>20 DEF left
<1>22. \A i \in rows : a[i] \in Nat
  BY <1>5, <1>17
<1> QED
  BY <1>1, <1>18, <1>21, <1>22 DEF T

\* A pool with other weights for the rows that can be drawn.
Reweigh(pool, W) == [i \in DOMAIN pool |-> IF i \in DOMAIN W THEN [pool[i] EXCEPT !.weight = W[i]]
                                           ELSE pool[i]]

LEMMA ReweighIs ==
  ASSUME NEW pool \in Seq(PrizeRows), NEW W, DOMAIN W = Live(pool), \A i \in Live(pool) : W[i] \in Nat
  PROVE  LET other == Reweigh(pool, W)
         IN  /\ other \in Seq(PrizeRows) /\ DOMAIN other = DOMAIN pool
             /\ Live(other) = {i \in Live(pool) : W[i] > 0}
             /\ \A i \in Live(pool) : other[i].weight = W[i] /\ (W[i] = pool[i].weight => other[i] = pool[i])
             /\ \A i \in DOMAIN pool : /\ Value(other[i]) = Value(pool[i])
                                       /\ other[i].type = pool[i].type
                                       /\ i \notin Live(pool) => other[i] = pool[i]
<1> DEFINE other == Reweigh(pool, W)
           row(i) == IF i \in Live(pool) THEN [pool[i] EXCEPT !.weight = W[i]] ELSE pool[i]
<1>1. other = [i \in DOMAIN pool |-> row(i)]
  BY DEF Reweigh
<1>2. /\ Live(pool) \in SUBSET DOMAIN pool
      /\ \A i \in DOMAIN pool : pool[i] \in PrizeRows /\ pool[i].weight \in Int
  BY Weighed
<1>3. ASSUME NEW i \in Live(pool)
      PROVE  /\ row(i) \in PrizeRows /\ row(i).weight = W[i] /\ row(i).type = pool[i].type
             /\ Value(row(i)) = Value(pool[i])
             /\ W[i] = pool[i].weight => row(i) = pool[i]
  <2>1. pool[i] \in PrizeRows /\ W[i] \in Int
    BY <1>2
  <2> DEFINE p == pool[i]
             w == W[i]
  <2>2. row(i) = [p EXCEPT !.weight = w]
    OBVIOUS
  <2> HIDE DEF p, w, row
  <2>3. p \in PrizeRows /\ w \in Int
    BY <2>1 DEF p, w
  <2>4. /\ row(i) \in PrizeRows /\ row(i).weight = w /\ row(i).type = p.type
        /\ Value(row(i)) = Value(p)
        /\ w = p.weight => row(i) = p
    BY <2>2, <2>3, Reweighed
  <2> QED
    BY <2>4 DEF p, w
<1>4. \A i \in DOMAIN pool : i \notin Live(pool) => row(i) = pool[i]
  OBVIOUS
<1> HIDE DEF row, other
<1>5. \A i \in DOMAIN pool : row(i) \in PrizeRows
  BY <1>2, <1>3, <1>4
<1>6. other \in [DOMAIN pool -> PrizeRows]
  BY <1>1, <1>5
<1>7. other \in Seq(PrizeRows) /\ DOMAIN other = DOMAIN pool
  BY <1>6, SameLength
<1>8. \A i \in Live(pool) : other[i].weight = W[i] /\ (W[i] = pool[i].weight => other[i] = pool[i])
  BY <1>1, <1>2, <1>3
<1>9. \A i \in DOMAIN pool : /\ Value(other[i]) = Value(pool[i])
                             /\ other[i].type = pool[i].type
                             /\ i \notin Live(pool) => other[i] = pool[i]
  BY <1>1, <1>3, <1>4
<1>10. Live(other) = {i \in Live(pool) : W[i] > 0}
  BY <1>2, <1>7, <1>8, <1>9 DEF Live
<1> QED
  BY <1>7, <1>8, <1>9, <1>10 DEF other

\* What it weighs, and what can be won of it, once it is cleared of rows that cannot be drawn.
LEMMA Rebalanced ==
  ASSUME NEW pool \in Seq(PrizeRows), NEW W, DOMAIN W = Live(pool), \A i \in Live(pool) : W[i] \in Nat
  PROVE  LET after == WithRows(Reweigh(pool, W))
         IN  /\ after \in Seq(PrizeRows)
             /\ WeightOf(after, Live(after)) = Total(W, Live(pool))
             /\ (\A i \in Paying(pool) : W[i] = pool[i].weight) => Paid(after) = Paid(pool)
             /\ \A k \in Live(after) : \E i \in Live(pool) :
                  W[i] > 0 /\ Value(after[k]) = Value(pool[i]) /\ after[k].type = pool[i].type
<1> DEFINE other == Reweigh(pool, W)
           at == {i \in DOMAIN other : other[i].weight > 0 \/ other[i].adv}
           after == Picked(other, at)
           f == [i \in DOMAIN other |-> other[i].weight]
           g == [k \in DOMAIN after |-> after[k].weight]
<1>1. WithRows(Reweigh(pool, W)) = after
  BY DEF WithRows
<1>2. /\ other \in Seq(PrizeRows) /\ DOMAIN other = DOMAIN pool
      /\ Live(other) = {i \in Live(pool) : W[i] > 0}
      /\ \A i \in Live(pool) : other[i].weight = W[i] /\ (W[i] = pool[i].weight => other[i] = pool[i])
      /\ \A i \in DOMAIN pool : /\ Value(other[i]) = Value(pool[i])
                                /\ other[i].type = pool[i].type
                                /\ i \notin Live(pool) => other[i] = pool[i]
  BY ReweighIs
<1> HIDE DEF other
<1>3. /\ at \in SUBSET DOMAIN other /\ Live(other) \in SUBSET at /\ Paying(other) \in SUBSET at
  BY DEF Live, Paying
<1>4. /\ IsFiniteSet(at) /\ at \in SUBSET Int /\ after \in Seq(PrizeRows)
      /\ \A k \in DOMAIN after : \E i \in at : after[k] = other[i]
  <2> HIDE DEF at
  <2>1. /\ IsFiniteSet(at) /\ at \in SUBSET Nat /\ after \in Seq(PrizeRows)
        /\ \A k \in DOMAIN after : \E i \in at : after[k] = other[i]
    BY ONLY <1>2, <1>3, PickedSeq
  <2> QED
    BY <2>1
<1>5. \A i \in DOMAIN other : f[i] = other[i].weight /\ f[i] \in Int
  BY <1>2, Weighed
<1> HIDE DEF at
<1>6. \A k \in DOMAIN after, i \in at : after[k] = other[i] =>
        g[k] = f[i] /\ (k \in Live(after) <=> i \in Live(other))
                    /\ (k \in Paying(after) <=> i \in Paying(other))
  BY <1>3 DEF Live, Paying
<1>7. Live(after) \in SUBSET DOMAIN after /\ Paying(after) \in SUBSET DOMAIN after
  BY DEF Live, Paying
<1> HIDE DEF f, g
<1>8. Total(g, Live(after)) = Total(f, Live(other))
  <2>1. \A i \in at : f[i] \in Int
    BY <1>3, <1>5
  <2>2. \A k \in DOMAIN after, i \in at : after[k] = other[i] => g[k] = f[i]
    BY <1>6
  <2>3. \A k \in DOMAIN after, i \in at : after[k] = other[i] => (k \in Live(after) <=> i \in Live(other))
    BY <1>6
  <2> QED
    <3> DEFINE B == Live(after)
               C == Live(other)
    <3> HIDE DEF B, C
    <3>1. B \in SUBSET DOMAIN Picked(other, at) /\ C \in SUBSET at
      BY <1>3, <1>7 DEF B, C
    <3>2. \A k \in DOMAIN Picked(other, at), i \in at :
            Picked(other, at)[k] = other[i] => (k \in B <=> i \in C)
      BY <2>3 DEF B, C
    <3>3. \A k \in DOMAIN Picked(other, at), i \in at :
            Picked(other, at)[k] = other[i] => g[k] = f[i]
      BY ONLY <2>2 DEF after
    <3>4. at \in SUBSET Int /\ IsFiniteSet(at)
      BY ONLY <1>4
    <3> HIDE DEF after
    <3>5. Total(g, B) = Total(f, C)
      BY ONLY <2>1, <3>1, <3>2, <3>3, <3>4, TotalPicked, SMTT(60)
    <3> QED
      BY <3>5 DEF B, C
<1>9. Picked(after, Paying(after)) = Picked(other, Paying(other))
  <2>1. \A k \in DOMAIN after, i \in at : after[k] = other[i] => (k \in Paying(after) <=> i \in Paying(other))
    BY <1>6
  <2> QED
    BY ONLY <1>3, <1>4, <1>7, <2>1, PickedTwice
<1>10. WeightOf(after, Live(after)) = Total(g, Live(after))
  BY DEF WeightOf, g
<1>11. Total(f, Live(other)) = Total(W, Live(other))
  <2>1. \A i \in Live(other) : W[i] \in Int /\ f[i] = W[i]
    BY <1>2, <1>5, Weighed
  <2>2. IsFiniteSet(Live(other))
    BY <1>2, Weighed
  <2> QED
    BY ONLY <2>1, <2>2, TotalSame
<1>12. Total(W, Live(pool)) = Total(W, Live(other))
  <2> DEFINE rest == Live(pool) \ Live(other)
  <2>1. IsFiniteSet(Live(pool)) /\ Live(other) \in SUBSET Live(pool) /\ IsFiniteSet(rest)
    BY <1>2, Weighed, FS_Subset
  <2>2. \A i \in rest : W[i] = 0
    BY <1>2
  <2>3. \A i \in Live(pool) : W[i] \in Int
    OBVIOUS
  <2> HIDE DEF rest
  <2>4. Total(W, rest) = 0
    BY ONLY <2>1, <2>2, TotalNone
  <2>5. Total(W, Live(pool)) = Total(W, Live(other)) + Total(W, rest)
    BY ONLY <2>1, <2>3, TotalParts DEF rest
  <2>6. Total(W, Live(other)) \in Int
    BY <1>2, <2>1, <2>3, TotalInt, FS_Subset
  <2> QED
    BY <2>4, <2>5, <2>6
<1>13. ASSUME \A i \in Paying(pool) : W[i] = pool[i].weight PROVE Paid(after) = Paid(pool)
  <2>1. Paying(other) = Paying(pool)
    BY <1>2, <1>13, Weighed DEF Paying
  <2>2. \A i \in Paying(pool) : other[i] = pool[i]
    BY <1>2, <1>13, Weighed
  <2>3. Paying(pool) \in SUBSET Int /\ IsFiniteSet(Paying(pool))
    BY Weighed, Entry
  <2>4. Picked(other, Paying(pool)) = Picked(pool, Paying(pool))
    BY <2>2, <2>3, PickedSame
  <2> HIDE DEF after
  <2> QED
    BY <1>9, <2>1, <2>4 DEF Paid, Paying
<1>14. ASSUME NEW k \in Live(after)
       PROVE  \E i \in Live(pool) :
                W[i] > 0 /\ Value(after[k]) = Value(pool[i]) /\ after[k].type = pool[i].type
  <2>1. PICK i \in at : after[k] = other[i]
    BY <1>4, <1>7
  <2>2. i \in Live(other)
    BY <1>6, <1>7, <2>1
  <2> HIDE DEF after
  <2>3. i \in Live(pool) /\ W[i] > 0 /\ i \in DOMAIN pool
    BY <1>2, <2>2, Weighed
  <2> QED
    BY <1>2, <2>1, <2>3
<1> HIDE DEF after
<1> QED
  BY <1>1, <1>4, <1>8, <1>10, <1>11, <1>12, <1>13, <1>14

LEMMA TargetIs ==
  ASSUME NEW target \in Rationals, NEW actual \in Rationals, NEW draws \in Int
  PROVE  TargetPerDraw(target, actual, draws) \in Nat \X (Nat \ {0})
<1> DEFINE planned == 2 * target[1] * actual[2] - actual[1] * target[2]
           each == IF draws <= 0 THEN 1 ELSE draws
           spread == target[2] * actual[2] * each
<1>1. /\ target[1] \in Int /\ target[2] \in Int /\ target[2] > 0
      /\ actual[1] \in Int /\ actual[2] \in Int /\ actual[2] > 0
  BY DEF Rationals
<1>2. target[2] * actual[2] \in Int /\ target[2] * actual[2] > 0
  BY <1>1, Product
<1>3. each \in Int /\ each > 0
  OBVIOUS
<1>4. planned \in Int
  <2>1. 2 * target[1] \in Int
    BY <1>1
  <2>2. 2 * target[1] * actual[2] \in Int /\ actual[1] * target[2] \in Int
    BY <1>1, <2>1, Product
  <2> QED
    BY <2>2
<1> HIDE DEF each
<1>5. spread \in Int /\ spread > 0
  BY <1>2, <1>3, Product
<1>6. TargetPerDraw(target, actual, draws)
        = IF target[1] <= 0 \/ planned < 0 THEN <<0, 1>> ELSE <<planned, spread>>
  BY DEF TargetPerDraw, each
<1> HIDE DEF planned, spread
<1>7. CASE target[1] <= 0 \/ planned < 0
  BY <1>6, <1>7
<1>8. CASE ~(target[1] <= 0 \/ planned < 0)
  <2>1. planned \in Nat /\ spread \in Nat \ {0}
    BY <1>1, <1>4, <1>5, <1>8
  <2>2. TargetPerDraw(target, actual, draws) = <<planned, spread>>
    BY <1>6, <1>8
  <2> QED
    BY <2>1, <2>2
<1> QED
  BY <1>7, <1>8

\* The weight for the rows that pay nothing.
LEMMA NeutralIs ==
  ASSUME NEW v \in Int, NEW w \in Int, NEW t \in Nat \X (Nat \ {0}), t[1] > 0
  PROVE  LET n   == NeutralWeight(v, w, t)
             off == 2 * ((w + n) * t[1] - v * t[2])
         IN  /\ n \in Nat
             /\ \/ off \in -t[1]..t[1]
                \/ n = 0 /\ off >= 0
<1> DEFINE a == v * t[2]
           b == t[1] * w
           n == NeutralWeight(v, w, t)
           s == t[1]
<1>1. s \in Int /\ s > 0 /\ t[2] \in Int
  OBVIOUS
<1>2. a \in Int /\ b \in Int /\ b = w * s
  BY <1>1, Product
<1>3. n = IF b >= a THEN 0 ELSE (2 * (a - b) + s) \div (2 * s)
  BY DEF NeutralWeight
<1> HIDE DEF a, b, n, s
<1>4. n \in Nat /\ (2 * (n * s - (a - b)) \in -s..s \/ (n = 0 /\ b >= a))
  <2>1. CASE b >= a
    BY <1>2, <1>3, <2>1
  <2>2. CASE ~(b >= a)
    <3>1. a - b \in Int /\ a - b > 0
      BY <1>2, <2>2
    <3>2. (2 * (a - b) + s) \div (2 * s) = n
      BY <1>3, <2>2
    <3> QED
      BY <1>1, <3>1, <3>2, Rounded
  <2> QED
    BY <2>1, <2>2
<1>5. (w + n) * s = b + n * s /\ n * s \in Int /\ (n = 0 => n * s = 0)
  BY <1>1, <1>2, <1>4
<1>6. (w + n) * s - a = n * s - (a - b)
  BY <1>2, <1>5
<1>7. 2 * ((w + n) * s - a) \in -s..s \/ (n = 0 /\ 2 * ((w + n) * s - a) >= 0)
  BY <1>1, <1>2, <1>4, <1>5, <1>6
<1> QED
  BY <1>4, <1>7 DEF a, n, s

\* What a draw is worth.
LEMMA WorthIs ==
  ASSUME NEW pool \in Seq(PrizeRows), \A i \in DOMAIN pool : Value(Typed(pool[i])) = Value(pool[i]),
         Live(pool) # {}
  PROVE  /\ ExpectedValue(pool) = <<ValueOf(pool, Paying(pool)), WeightOf(pool, Live(pool))>>
         /\ ValueOf(pool, Paying(pool)) \in Nat
         /\ Paying(pool) # {} => ValueOf(pool, Paying(pool)) > 0
         /\ WeightOf(pool, Live(pool)) \in Int /\ WeightOf(pool, Paying(pool)) \in Int
<1> DEFINE live == Live(pool)
           paying == Paying(pool)
           neutral == live \ paying
           f == [i \in DOMAIN pool |-> pool[i].weight]
           u == [i \in DOMAIN pool |-> Value(pool[i]) * pool[i].weight]
           typed == [i \in DOMAIN pool |-> Typed(pool[i])]
           s == [i \in DOMAIN typed |-> Value(typed[i]) * typed[i].weight]
<1>1. /\ live \in SUBSET DOMAIN pool /\ paying \in SUBSET live /\ neutral \in SUBSET live
      /\ IsFiniteSet(live) /\ IsFiniteSet(paying) /\ IsFiniteSet(neutral)
  BY Weighed, FS_Subset
<1>2. \A i \in live : f[i] \in Int /\ u[i] \in Int
  BY Weighed
<1>3. ASSUME NEW i \in live
      PROVE  /\ Value(pool[i]) \in Int /\ pool[i].weight \in Int /\ pool[i].weight > 0
             /\ u[i] = Value(pool[i]) * pool[i].weight /\ Value(pool[i]) >= 0
  BY Weighed
<1>4. /\ \A i \in paying : Value(pool[i]) > 0
      /\ \A i \in neutral : ~(Value(pool[i]) > 0)
  BY DEF Paying
<1>5. ExpectedValue(pool) = <<ValueOf(typed, live), WeightOf(pool, live)>>
  BY DEF ExpectedValue
<1>6. ValueOf(typed, live) = Total(s, live) /\ ValueOf(pool, paying) = Total(u, paying)
  BY DEF ValueOf
<1>7. WeightOf(pool, live) = Total(f, live) /\ WeightOf(pool, paying) = Total(f, paying)
  BY DEF WeightOf
<1>8. \A i \in live : s[i] = u[i]
  <2> TAKE i \in live
  <2>1. i \in DOMAIN pool /\ pool[i] \in PrizeRows /\ Value(Typed(pool[i])) = Value(pool[i])
    BY <1>1, Weighed
  <2>2. Typed(pool[i]).weight = pool[i].weight
    BY <2>1, TypedIs
  <2> QED
    BY <1>1, <2>1, <2>2
<1> HIDE DEF typed, s, u, f, live, paying
<1>9. \A i \in paying : u[i] > 0
  <2> TAKE i \in paying
  <2> QED
    BY <1>1, <1>3, <1>4, Product
<1>10. \A i \in neutral : u[i] = 0
  <2> TAKE i \in neutral
  <2>1. Value(pool[i]) = 0
    BY <1>1, <1>3, <1>4
  <2> QED
    BY <1>1, <1>3, <2>1, Product
<1>11. Total(s, live) = Total(u, live)
  BY ONLY <1>1, <1>2, <1>8, TotalSame
<1>12. Total(u, live) = Total(u, paying) + Total(u, live \ paying)
  BY ONLY <1>1, <1>2, TotalParts
<1>13. Total(u, neutral) = 0
  <2> HIDE DEF neutral
  <2> QED
    BY ONLY <1>1, <1>10, TotalNone
<1>14. /\ Total(u, paying) \in Nat
       /\ paying # {} => Total(u, paying) > 0
  <2>1. \A i \in paying : u[i] \in Int /\ u[i] >= 0 /\ u[i] > 0
    BY <1>1, <1>2, <1>9
  <2> QED
    BY ONLY <1>1, <2>1, TotalPositive
<1>15. Total(f, live) \in Int /\ Total(f, paying) \in Int
  BY <1>1, <1>2, TotalInt
<1>16. Total(u, live) = Total(u, paying)
  BY <1>12, <1>13, <1>14
<1> QED
  BY <1>5, <1>6, <1>7, <1>11, <1>14, <1>15, <1>16 DEF live, paying

\* The new weights of a pool with rows that pay and rows that do not.
LEMMA BalancedIs ==
  ASSUME NEW pool \in Seq(PrizeRows), \A i \in DOMAIN pool : Value(Typed(pool[i])) = Value(pool[i]),
         NEW t \in Nat \X (Nat \ {0}), Paying(pool) # {}, Live(pool) \ Paying(pool) # {}
  PROVE  LET W   == BalanceWeights(pool, t)
             v   == ValueOf(pool, Paying(pool))
             w   == WeightOf(pool, Paying(pool))
             off == 2 * (Total(W, Live(pool)) * t[1] - v * t[2])
         IN  /\ DOMAIN W = Live(pool)
             /\ \A i \in Live(pool) : W[i] \in Nat
             /\ t[1] <= 0 =>
                  \A i \in Live(pool) : W[i] = IF i \in Paying(pool) THEN 0 ELSE pool[i].weight
             /\ t[1] > 0 =>
                  /\ \A i \in Paying(pool) : W[i] = pool[i].weight
                  /\ off \in -t[1]..t[1] \/ (Total(W, Live(pool)) = w /\ off >= 0)
<1> DEFINE live == Live(pool)
           paying == Paying(pool)
           neutral == live \ paying
           f == [i \in DOMAIN pool |-> pool[i].weight]
           v == ValueOf(pool, paying)
           w == WeightOf(pool, paying)
           all == WeightOf(pool, live)
           ev == ExpectedValue(pool)
           n == NeutralWeight(v, w, t)
           asIs == [i \in live |-> pool[i].weight]
           balanced == Allocate(pool, neutral, WeightOf(pool, neutral), n)
           nothing == [i \in live |-> IF i \in neutral THEN pool[i].weight
                                      ELSE IF neutral = {} /\ i = Min(live) THEN 1 ELSE 0]
           mixed == [i \in live |-> IF i \in paying THEN pool[i].weight ELSE balanced[i]]
           W == BalanceWeights(pool, t)
           total == Total(W, live)
           off == 2 * (total * t[1] - v * t[2])
           Right == /\ DOMAIN W = live
                    /\ \A i \in live : W[i] \in Nat
                    /\ t[1] <= 0 => \A i \in live : W[i] = IF i \in paying THEN 0 ELSE pool[i].weight
                    /\ t[1] > 0 => /\ \A i \in paying : W[i] = pool[i].weight
                                   /\ off \in -t[1]..t[1] \/ (total = w /\ off >= 0)
<1>1. W = IF live = {} \/ ev[1] * t[2] = t[1] * ev[2] THEN asIs
          ELSE IF paying = {} THEN asIs
          ELSE IF t[1] <= 0 THEN nothing
          ELSE IF neutral = {} THEN asIs
          ELSE mixed
  BY DEF BalanceWeights, Paying
<1>2. paying # {} /\ neutral # {} /\ live # {}
  BY DEF Paying
<1>3. /\ live \in SUBSET DOMAIN pool /\ paying \in SUBSET live /\ neutral \in SUBSET live
      /\ IsFiniteSet(live) /\ IsFiniteSet(paying) /\ IsFiniteSet(neutral)
  BY Weighed, FS_Subset
<1>4. \A i \in live : /\ pool[i].weight \in Nat /\ pool[i].weight > 0
                      /\ f[i] = pool[i].weight /\ f[i] \in Int
  BY Weighed
<1>5. /\ ev = <<v, all>> /\ v \in Int /\ v > 0 /\ w \in Int /\ all \in Int
      /\ all = Total(f, live) /\ w = Total(f, paying)
  BY <1>2, WorthIs DEF WeightOf
<1>6. t[1] \in Int /\ t[1] >= 0 /\ t[2] \in Int /\ t[2] > 0
  OBVIOUS
<1>7. n \in Nat => /\ DOMAIN balanced = neutral /\ \A i \in neutral : balanced[i] \in Nat
                   /\ Total(balanced, neutral) = n
  <2> SUFFICES ASSUME n \in Nat
               PROVE  /\ DOMAIN balanced = neutral /\ \A i \in neutral : balanced[i] \in Nat
                      /\ Total(balanced, neutral) = n
    OBVIOUS
  <2> HIDE DEF neutral, n
  <2>1. neutral \in SUBSET Live(pool) /\ neutral # {}
    BY <1>2, <1>3
  <2> QED
    BY ONLY <2>1, n \in Nat, pool \in Seq(PrizeRows), Shared
<1>8. t[1] > 0 => /\ n \in Nat
                  /\ \/ 2 * ((w + n) * t[1] - v * t[2]) \in -t[1]..t[1]
                     \/ n = 0 /\ 2 * ((w + n) * t[1] - v * t[2]) >= 0
  <2> HIDE DEF v, w
  <2> QED
    BY <1>5, NeutralIs
<1> HIDE DEF f, v, w, all, live, paying, ev, n, balanced, W
<1>9. ASSUME ev[1] * t[2] = t[1] * ev[2] PROVE Right
  <2>1. W = asIs
    BY ONLY <1>1, <1>9
  <2>2. v * t[2] = t[1] * all
    BY ONLY <1>5, <1>9
  <2>3. v * t[2] > 0 /\ v * t[2] \in Int
    BY ONLY <1>5, <1>6, Product
  <2>4. t[1] > 0
    BY ONLY <1>5, <1>6, <2>2, <2>3, Product
  <2>5. DOMAIN W = live /\ \A i \in live : W[i] = pool[i].weight
    BY ONLY <2>1
  <2>6. total = all
    <3>1. \A i \in live : f[i] \in Int /\ W[i] = f[i]
      BY ONLY <1>4, <2>5
    <3>2. Total(W, live) = Total(f, live)
      BY ONLY <1>3, <3>1, TotalSame
    <3> QED
      BY ONLY <1>5, <3>2
  <2> HIDE DEF total
  <2>7. total * t[1] = v * t[2]
    BY ONLY <1>5, <1>6, <2>2, <2>6
  <2>8. off \in -t[1]..t[1]
    BY ONLY <1>6, <2>3, <2>4, <2>7
  <2>9. \A i \in live : W[i] \in Nat
    BY ONLY <1>4, <2>5
  <2>10. ~(t[1] <= 0) /\ \A i \in paying : W[i] = pool[i].weight
    BY ONLY <1>3, <1>6, <2>4, <2>5
  <2> HIDE DEF off
  <2> QED
    BY ONLY <2>5, <2>8, <2>9, <2>10
<1>10. ASSUME ~(ev[1] * t[2] = t[1] * ev[2]) /\ t[1] <= 0 PROVE Right
  <2>1. W = nothing
    BY ONLY <1>1, <1>2, <1>10
  <2>2. DOMAIN W = live /\ \A i \in live : W[i] = IF i \in paying THEN 0 ELSE pool[i].weight
    BY ONLY <1>2, <1>3, <2>1
  <2>3. \A i \in live : W[i] \in Nat
    BY ONLY <1>4, <2>2
  <2>4. ~(t[1] > 0)
    BY ONLY <1>6, <1>10
  <2> HIDE DEF off, total
  <2> QED
    BY ONLY <2>2, <2>3, <2>4
<1>11. ASSUME ~(ev[1] * t[2] = t[1] * ev[2]) /\ t[1] > 0 PROVE Right
  <2>0. ~(t[1] <= 0)
    BY ONLY <1>6, <1>11
  <2>1. W = mixed
    BY ONLY <1>1, <1>2, <1>11, <2>0
  <2>2. /\ n \in Nat
        /\ \/ 2 * ((w + n) * t[1] - v * t[2]) \in -t[1]..t[1]
           \/ n = 0 /\ 2 * ((w + n) * t[1] - v * t[2]) >= 0
    BY ONLY <1>8, <1>11
  <2>3. /\ \A i \in neutral : balanced[i] \in Nat
        /\ Total(balanced, neutral) = n
    BY ONLY <1>7, <2>2
  <2>4. /\ DOMAIN W = live
        /\ \A i \in paying : W[i] = pool[i].weight
        /\ \A i \in neutral : W[i] = balanced[i]
    BY ONLY <1>3, <2>1
  <2>5. \A i \in live : W[i] \in Nat
    <3>1. \A i \in paying : W[i] \in Nat
      BY ONLY <1>3, <1>4, <2>4
    <3>2. \A i \in neutral : W[i] \in Nat
      BY ONLY <2>3, <2>4
    <3> QED
      BY ONLY <3>1, <3>2
  <2>6. total = Total(W, paying) + Total(W, neutral)
    <3>1. \A i \in live : W[i] \in Int
      BY ONLY <2>5
    <3> QED
      BY ONLY <1>3, <3>1, TotalParts
  <2>7. Total(W, neutral) = n
    <3> HIDE DEF neutral
    <3>1. \A i \in neutral : balanced[i] \in Int /\ W[i] = balanced[i]
      BY ONLY <2>3, <2>4
    <3>2. Total(W, neutral) = Total(balanced, neutral)
      BY ONLY <1>3, <3>1, TotalSame
    <3> QED
      BY ONLY <2>3, <3>2
  <2>8. Total(W, paying) = w
    <3>1. \A i \in paying : f[i] \in Int /\ W[i] = f[i]
      BY ONLY <1>3, <1>4, <2>4
    <3>2. Total(W, paying) = Total(f, paying)
      BY ONLY <1>3, <3>1, TotalSame
    <3> QED
      BY ONLY <1>5, <3>2
  <2> HIDE DEF total, neutral
  <2>9. total = w + n
    BY ONLY <2>6, <2>7, <2>8
  <2>10. off \in -t[1]..t[1] \/ (total = w /\ off >= 0)
    <3>1. off = 2 * ((w + n) * t[1] - v * t[2])
      BY ONLY <2>9
    <3>2. n = 0 => total = w
      BY ONLY <1>5, <2>9
    <3> HIDE DEF off
    <3> QED
      BY ONLY <2>2, <3>1, <3>2
  <2> HIDE DEF off
  <2> QED
    BY ONLY <2>0, <2>4, <2>5, <2>10
<1>12. Right
  <2>1. t[1] <= 0 \/ t[1] > 0
    BY ONLY <1>6
  <2> HIDE DEF Right
  <2> QED
    BY <1>9, <1>10, <1>11, <2>1
<1> QED
  BY ONLY <1>12 DEF live, paying, v, w, W

\* A rebalanced pool is worth its target, whatever the pool, the target and what was paid.
LEMMA BalancedPays ==
  ASSUME NEW pool \in Seq(PrizeRows), NEW target \in Rationals, NEW actual \in Rationals,
         NEW draws \in Int
  PROVE  BalancedPaysTarget(pool, target, actual, draws)
<1> DEFINE t == TargetPerDraw(target, actual, draws)
           P == Normalize(pool)
           W == BalanceWeights(P, t)
           after == BalancePool(pool, target, actual, draws)
           before == Paid(P)
           total == WeightOf(after, Live(after))
           value == ValueOf(before, DOMAIN before)
           weight == WeightOf(before, DOMAIN before)
           off == 2 * (total * t[1] - value * t[2])
           mixed == before # <<>> /\ \E p \in {pool[i] : i \in DOMAIN pool} :
                                       p.weight > 0 /\ Value(Typed(p)) = 0
           Right == IF t[1] <= 0 THEN ExpectedValue(after) = <<0, total>>
                    ELSE /\ Paid(after) = before
                         /\ off \in -t[1]..t[1] \/ (total = weight /\ off >= 0)
<1>1. BalancedPaysTarget(pool, target, actual, draws) = (mixed => Right)
  BY DEF BalancedPaysTarget
<1>2. SUFFICES ASSUME mixed PROVE Right
  BY <1>1
<1>3. t \in Nat \X (Nat \ {0})
  BY TargetIs
<1>4. /\ P \in Seq(PrizeRows)
      /\ \A i \in DOMAIN P : Value(Typed(P[i])) = Value(P[i])
  <2>1. P \in Seq(PrizeRows) /\ \A i \in DOMAIN P : P[i].type # ""
    BY NormalizeIs
  <2> HIDE DEF P
  <2>2. \A i \in DOMAIN P : P[i] \in PrizeRows
    BY <2>1, Entry
  <2> QED
    BY <2>1, <2>2, TypedIs
<1>s. \A i \in DOMAIN P : P[i].type # ""
  BY NormalizeIs
<1>5. Live(P) \ Paying(P) # {}
  <2>1. PICK i \in DOMAIN pool : pool[i].weight > 0 /\ Value(Typed(pool[i])) = 0
    BY <1>2
  <2>2. PICK k \in DOMAIN P : P[k] = Typed(pool[i])
    BY <2>1, NormalizeIs
  <2>3. pool[i] \in PrizeRows
    BY Entry
  <2>4. P[k].weight = pool[i].weight /\ Value(P[k]) = 0
    BY <2>1, <2>2, <2>3, TypedIs
  <2> HIDE DEF P
  <2>5. k \in Live(P) /\ k \notin Paying(P)
    BY <2>1, <2>4 DEF Live, Paying
  <2> QED
    BY <2>5
<1>6. after = WithRows(Reweigh(P, W))
  BY DEF BalancePool, Reweigh
<1> HIDE DEF t, P
<1>7. Paying(P) # {} /\ weight = WeightOf(P, Paying(P)) /\ value = ValueOf(P, Paying(P))
  BY ONLY <1>2, <1>4, PaidWorth
<1> HIDE DEF W
<1>8. /\ DOMAIN W = Live(P)
      /\ \A i \in Live(P) : W[i] \in Nat
      /\ t[1] <= 0 =>
           \A i \in Live(P) : W[i] = IF i \in Paying(P) THEN 0 ELSE P[i].weight
      /\ t[1] > 0 =>
           /\ \A i \in Paying(P) : W[i] = P[i].weight
           /\ \/ 2 * (Total(W, Live(P)) * t[1] - ValueOf(P, Paying(P)) * t[2]) \in -t[1]..t[1]
              \/ /\ Total(W, Live(P)) = WeightOf(P, Paying(P))
                 /\ 2 * (Total(W, Live(P)) * t[1] - ValueOf(P, Paying(P)) * t[2]) >= 0
  BY ONLY <1>3, <1>4, <1>5, <1>7, BalancedIs DEF W
<1> HIDE DEF after
<1>9. /\ after \in Seq(PrizeRows)
      /\ total = Total(W, Live(P))
      /\ (\A i \in Paying(P) : W[i] = P[i].weight) => Paid(after) = before
      /\ \A k \in Live(after) : \E i \in Live(P) :
           W[i] > 0 /\ Value(after[k]) = Value(P[i]) /\ after[k].type = P[i].type
  <2> DEFINE other == WithRows(Reweigh(P, W))
  <2>1. DOMAIN W = Live(P) /\ \A i \in Live(P) : W[i] \in Nat
    BY ONLY <1>8
  <2>2. /\ other \in Seq(PrizeRows)
        /\ WeightOf(other, Live(other)) = Total(W, Live(P))
        /\ (\A i \in Paying(P) : W[i] = P[i].weight) => Paid(other) = Paid(P)
        /\ \A k \in Live(other) : \E i \in Live(P) :
             W[i] > 0 /\ Value(other[k]) = Value(P[i]) /\ other[k].type = P[i].type
    BY ONLY <1>4, <2>1, Rebalanced
  <2> HIDE DEF other
  <2>3. after = other
    BY <1>6 DEF other
  <2> QED
    BY ONLY <2>2, <2>3
<1> HIDE DEF total, before, value, weight
<1>10. ASSUME t[1] > 0 PROVE Right
  <2>1. ~(t[1] <= 0)
    BY <1>3, <1>10
  <2>2. Paid(after) = before
    BY ONLY <1>8, <1>9, <1>10
  <2>3. off \in -t[1]..t[1] \/ (total = weight /\ off >= 0)
    BY ONLY <1>7, <1>8, <1>9, <1>10
  <2> HIDE DEF off
  <2> QED
    BY ONLY <2>1, <2>2, <2>3
<1>11. ASSUME t[1] <= 0 PROVE Right
  <2>1. \A i \in Live(P) : W[i] = IF i \in Paying(P) THEN 0 ELSE P[i].weight
    BY ONLY <1>8, <1>11
  <2>w. \A i \in Live(P) : W[i] \in Nat
    BY ONLY <1>8
  <2>2. \A k \in Live(after) : Value(after[k]) = 0
    <3> TAKE k \in Live(after)
    <3>1. PICK i \in Live(P) : W[i] > 0 /\ Value(after[k]) = Value(P[i])
      BY ONLY <1>9
    <3>2. i \notin Paying(P)
      BY ONLY <2>1, <3>1
    <3>3. ~(Value(P[i]) > 0) /\ P[i] \in PrizeRows
      BY ONLY <1>4, <3>2, Weighed DEF Paying
    <3>4. Value(P[i]) \in Nat
      BY ONLY <3>3, ValueIs
    <3> QED
      BY ONLY <3>1, <3>3, <3>4
  <2>3. total > 0
    <3>1. PICK i \in Live(P) : i \notin Paying(P)
      BY ONLY <1>5
    <3>2. W[i] > 0 /\ \A j \in Live(P) : W[j] \in Int /\ W[j] >= 0
      <4>1. P[i].weight > 0
        BY ONLY <1>4, <3>1, Weighed
      <4> QED
        BY ONLY <2>1, <2>w, <3>1, <4>1
    <3>3. IsFiniteSet(Live(P))
      BY ONLY <1>4, Weighed
    <3>4. Total(W, Live(P)) > 0
      BY ONLY <3>1, <3>2, <3>3, TotalPositive
    <3> QED
      BY ONLY <1>9, <3>4
  <2>4. Live(after) # {}
    <3>1. WeightOf(after, {}) = 0
      BY ONLY TotalEmpty DEF WeightOf
    <3>2. Live(after) = {} => total = 0
      BY ONLY <3>1 DEF total
    <3> QED
      BY ONLY <2>3, <3>2
  <2> DEFINE typed == [i \in DOMAIN after |-> Typed(after[i])]
             s == [i \in DOMAIN typed |-> Value(typed[i]) * typed[i].weight]
  <2>5. ExpectedValue(after) = <<ValueOf(typed, Live(after)), total>>
    BY ONLY <2>4 DEF ExpectedValue, total
  <2>6. ValueOf(typed, Live(after)) = Total(s, Live(after))
    BY DEF ValueOf
  <2>7. \A k \in Live(after) : s[k] = 0
    <3> TAKE k \in Live(after)
    <3>1. k \in DOMAIN after /\ after[k] \in PrizeRows
      BY ONLY <1>9, Weighed
    <3>2. PICK i \in Live(P) : Value(after[k]) = Value(P[i]) /\ after[k].type = P[i].type
      BY ONLY <1>9
    <3>3. after[k].type # ""
      <4>1. i \in DOMAIN P
        BY <1>4, Weighed
      <4> QED
        BY <1>s, <3>2, <4>1
    <3>4. Value(Typed(after[k])) = 0 /\ Typed(after[k]).weight \in Int
      <4>1. Value(Typed(after[k])) = Value(after[k]) /\ Typed(after[k]).weight = after[k].weight
        BY <3>1, <3>3, TypedIs
      <4>2. Value(after[k]) = 0 /\ after[k].weight \in Int
        BY ONLY <2>2, <3>1, ValueIs
      <4> QED
        BY ONLY <4>1, <4>2
    <3> QED
      BY ONLY <3>1, <3>4, Product
  <2> HIDE DEF typed, s
  <2>8. Total(s, Live(after)) = 0
    <3>1. IsFiniteSet(Live(after))
      BY ONLY <1>9, Weighed
    <3> QED
      BY ONLY <2>7, <3>1, TotalNone
  <2>9. ExpectedValue(after) = <<0, total>>
    BY ONLY <2>5, <2>6, <2>8
  <2> QED
    BY ONLY <1>11, <2>9
<1> QED
  <2>1. t[1] <= 0 \/ t[1] > 0
    BY <1>3
  <2> QED
    BY ONLY <1>10, <1>11, <2>1
=============================================================================
