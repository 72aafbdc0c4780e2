--------------------------- MODULE ListingProofs ---------------------------
(***************************************************************************)
(* Proofs about the lists of Listing, and about the least and the greatest *)
(* of a set of numbers.                                                    *)
(***************************************************************************)
EXTENDS Listing, FiniteSetsExt, FiniteSetTheorems, FunctionTheorems, WellFoundedInduction, TLAPS

-----------------------------------------------------------------------------
(***************************************************************************)
(* A finite set has a list in any order that is total on it: a member's    *)
(* place is one more than the number of those before it.                   *)
(***************************************************************************)
IsOrder(S, before) ==
    /\ \A x \in S : <<x, x>> \notin before
    /\ \A x, y \in S : x = y \/ <<x, y>> \in before \/ <<y, x>> \in before
    /\ \A x, y, z \in S : <<x, y>> \in before /\ <<y, z>> \in before => <<x, z>> \in before

\* A list of all of a set.
IsListOf(s, S) ==
    /\ Len(s) \in Nat /\ s \in [1 .. Len(s) -> S]
    /\ S = {s[k] : k \in DOMAIN s}

IsAscending(s) == \A j, k \in DOMAIN s : j < k => s[j] < s[k]

\* Members of a list in order are different, and the list has all of the set.
LEMMA ListIsOnto ==
  ASSUME NEW S, IsFiniteSet(S), NEW before, IsOrder(S, before),
         NEW s \in [1 .. Cardinality(S) -> S],
         \A j, k \in DOMAIN s : j < k => <<s[j], s[k]>> \in before
  PROVE  S = {s[k] : k \in DOMAIN s}
<1>1. \A j, k \in 1 .. Cardinality(S) : s[j] = s[k] => j = k
  <2> SUFFICES ASSUME NEW j \in 1 .. Cardinality(S), NEW k \in 1 .. Cardinality(S), j # k
               PROVE  s[j] # s[k]
    OBVIOUS
  <2>1. j < k \/ k < j
    BY FS_CardinalityType
  <2>2. s[j] \in S /\ s[k] \in S /\ (<<s[j], s[k]>> \in before \/ <<s[k], s[j]>> \in before)
    BY <2>1
  <2> QED BY <2>2 DEF IsOrder
<1>2. s \in Injection(1 .. Cardinality(S), S)
  BY <1>1 DEF Injection, IsInjective
<1>3. Cardinality(1 .. Cardinality(S)) = Cardinality(S)
  BY FS_CardinalityType, FS_Interval
<1>4. s \in Surjection(1 .. Cardinality(S), S)
  BY <1>2, <1>3, FS_Injection
<1> QED BY <1>4 DEF Surjection

LEMMA ListExists ==
  ASSUME NEW S, IsFiniteSet(S), NEW before, IsOrder(S, before)
  PROVE  \E s \in [1 .. Cardinality(S) -> S] :
             \A j, k \in DOMAIN s : j < k => <<s[j], s[k]>> \in before
<1> DEFINE Below(x) == {y \in S : <<y, x>> \in before}
           rank == [x \in S |-> Cardinality(Below(x)) + 1]
           n == Cardinality(S)
<1>0. n \in Nat
  BY FS_CardinalityType
<1>1. \A x \in S : IsFiniteSet(Below(x)) /\ Cardinality(Below(x)) \in Nat
  BY FS_Subset, FS_CardinalityType
<1>2. \A x \in S : rank[x] \in 1 .. n
  <2> SUFFICES ASSUME NEW x \in S PROVE rank[x] \in 1 .. n
    OBVIOUS
  <2>1. Below(x) \in SUBSET S /\ x \notin Below(x)
    BY DEF IsOrder
  <2>2. Cardinality(Below(x)) =< n /\ Cardinality(Below(x)) # n
    <3> HIDE DEF Below
    <3> QED BY <2>1, FS_Subset
  <2> HIDE DEF Below, n
  <2> QED BY <1>0, <1>1, <2>2
<1>3. \A x, y \in S : <<x, y>> \in before => rank[x] < rank[y]
  <2> SUFFICES ASSUME NEW x \in S, NEW y \in S, <<x, y>> \in before PROVE rank[x] < rank[y]
    OBVIOUS
  <2>1. Below(x) \cup {x} \in SUBSET Below(y) /\ x \notin Below(x)
    BY DEF IsOrder
  <2>2. Cardinality(Below(x) \cup {x}) = Cardinality(Below(x)) + 1
    <3> HIDE DEF Below
    <3> QED BY <1>1, <2>1, FS_AddElement
  <2>3. Cardinality(Below(x) \cup {x}) =< Cardinality(Below(y))
    <3> HIDE DEF Below
    <3> QED BY <1>1, <2>1, FS_Subset
  <2> HIDE DEF Below
  <2> QED BY <1>1, <2>2, <2>3
<1> HIDE DEF Below
<1>4. \A x \in S : rank[x] \in Nat
  BY <1>1
<1> HIDE DEF rank
<1>5. \A x, y \in S : rank[x] = rank[y] => x = y
  <2> SUFFICES ASSUME NEW x \in S, NEW y \in S, x # y PROVE rank[x] # rank[y]
    OBVIOUS
  <2>1. <<x, y>> \in before \/ <<y, x>> \in before
    BY DEF IsOrder
  <2> QED BY <1>3, <1>4, <2>1
<1>6. rank \in Injection(S, 1 .. n)
  BY <1>2, <1>5 DEF Injection, IsInjective, rank
<1>7. Cardinality(1 .. n) = n /\ IsFiniteSet(1 .. n)
  BY <1>0, FS_Interval
<1>8. rank \in Surjection(S, 1 .. n)
  BY <1>6, <1>7, FS_Injection
<1>9. \A k \in 1 .. n : \E x \in S : rank[x] = k
  BY <1>8 DEF Surjection
<1> DEFINE s == [k \in 1 .. n |-> CHOOSE x \in S : rank[x] = k]
<1>10. \A k \in 1 .. n : s[k] \in S /\ rank[s[k]] = k
  BY <1>9
<1>11. s \in [1 .. n -> S]
  BY <1>10
<1>12. \A j, k \in DOMAIN s : j < k => <<s[j], s[k]>> \in before
  <2> SUFFICES ASSUME NEW j \in 1 .. n, NEW k \in 1 .. n, j < k PROVE <<s[j], s[k]>> \in before
    BY <1>11
  <2>1. s[j] \in S /\ s[k] \in S /\ rank[s[j]] = j /\ rank[s[k]] = k
    BY <1>10
  <2> HIDE DEF s, n
  <2>2. s[j] # s[k] /\ ~(rank[s[k]] < rank[s[j]])
    BY <2>1, <1>0
  <2> QED BY <1>3, <2>1, <2>2 DEF IsOrder
<1> HIDE DEF s
<1> QED BY <1>11, <1>12

\* What InOrder yields.
LEMMA InOrderIsList ==
  ASSUME NEW S, IsFiniteSet(S), NEW before, IsOrder(S, before)
  PROVE  /\ IsListOf(InOrder(S, before), S)
         /\ \A j, k \in DOMAIN InOrder(S, before) :
                j < k => <<InOrder(S, before)[j], InOrder(S, before)[k]>> \in before
<1>1. /\ InOrder(S, before) \in [1 .. Cardinality(S) -> S]
      /\ \A j, k \in DOMAIN InOrder(S, before) :
             j < k => <<InOrder(S, before)[j], InOrder(S, before)[k]>> \in before
  BY ListExists DEF InOrder
<1>2. S = {InOrder(S, before)[k] : k \in DOMAIN InOrder(S, before)}
  BY <1>1, ListIsOnto
<1>3. Cardinality(S) \in Nat
  BY FS_CardinalityType
<1>4. Len(InOrder(S, before)) = Cardinality(S)
  BY <1>1, <1>3
<1> QED BY <1>1, <1>2, <1>3, <1>4 DEF IsListOf

\* Numbers in ascending order.
LEMMA AscendingIsList ==
  ASSUME NEW S, S \subseteq Nat, IsFiniteSet(S)
  PROVE  IsListOf(Ascending(S), S) /\ IsAscending(Ascending(S))
<1> DEFINE before == {x \in S \X S : x[1] < x[2]}
<1>1. \A x, y \in S : <<x, y>> \in before <=> x < y
  OBVIOUS
<1> HIDE DEF before
<1>2. IsOrder(S, before)
  BY <1>1 DEF IsOrder
<1>3. InOrder(S, before) = Ascending(S)
  BY DEF Ascending, before
<1>4. IsListOf(Ascending(S), S)
  BY <1>2, <1>3, InOrderIsList
<1>5. \A j, k \in DOMAIN Ascending(S) : j < k => <<Ascending(S)[j], Ascending(S)[k]>> \in before
  BY <1>2, <1>3, InOrderIsList
<1> QED BY <1>1, <1>4, <1>5 DEF IsListOf, IsAscending

\* Nested loops over two or three indices come to each place once.
LEMMA EarlierPair ==
  ASSUME NEW a \in Nat \X Nat, NEW b \in Nat \X Nat
  PROVE  Earlier(a, b) <=> a[1] < b[1] \/ (a[1] = b[1] /\ a[2] < b[2])
<1>1. DOMAIN a = {1, 2}
  OBVIOUS
<1>2. a[1] \in Nat /\ a[2] \in Nat /\ b[1] \in Nat /\ b[2] \in Nat
  OBVIOUS
<1> QED BY <1>1, <1>2 DEF Earlier

LEMMA EarlierTriple ==
  ASSUME NEW a \in Nat \X Nat \X Nat, NEW b \in Nat \X Nat \X Nat
  PROVE  Earlier(a, b) <=> \/ a[1] < b[1]
                           \/ a[1] = b[1] /\ a[2] < b[2]
                           \/ a[1] = b[1] /\ a[2] = b[2] /\ a[3] < b[3]
<1>1. DOMAIN a = {1, 2, 3}
  OBVIOUS
<1>2. /\ a[1] \in Nat /\ a[2] \in Nat /\ a[3] \in Nat
      /\ b[1] \in Nat /\ b[2] \in Nat /\ b[3] \in Nat
  OBVIOUS
<1> QED BY <1>1, <1>2 DEF Earlier

LEMMA LoopOrderIsList ==
  ASSUME NEW S, IsFiniteSet(S), S \subseteq Nat \X Nat \/ S \subseteq Nat \X Nat \X Nat
  PROVE  /\ IsListOf(InLoopOrder(S), S)
         /\ \A j, k \in DOMAIN InLoopOrder(S) :
                j < k => Earlier(InLoopOrder(S)[j], InLoopOrder(S)[k])
<1> DEFINE before == {x \in S \X S : Earlier(x[1], x[2])}
<1>1. \A x, y \in S : <<x, y>> \in before <=> Earlier(x, y)
  OBVIOUS
<1> HIDE DEF before
<1>2. IsOrder(S, before)
  <2>1. CASE S \subseteq Nat \X Nat
    <3>1. \A x, y \in S : <<x, y>> \in before <=> x[1] < y[1] \/ (x[1] = y[1] /\ x[2] < y[2])
      BY <1>1, <2>1, EarlierPair
    <3>2. \A x \in S : x[1] \in Nat /\ x[2] \in Nat /\ x = <<x[1], x[2]>>
      BY <2>1
    <3> QED BY <3>1, <3>2 DEF IsOrder
  <2>2. CASE S \subseteq Nat \X Nat \X Nat
    <3>1. \A x, y \in S : <<x, y>> \in before <=>
                              \/ x[1] < y[1]
                              \/ x[1] = y[1] /\ x[2] < y[2]
                              \/ x[1] = y[1] /\ x[2] = y[2] /\ x[3] < y[3]
      BY <1>1, <2>2, EarlierTriple
    <3>2. \A x \in S : x[1] \in Nat /\ x[2] \in Nat /\ x[3] \in Nat /\ x = <<x[1], x[2], x[3]>>
      BY <2>2
    <3> QED BY <3>1, <3>2 DEF IsOrder
  <2> QED BY <2>1, <2>2
<1>3. InOrder(S, before) = InLoopOrder(S)
  BY DEF InLoopOrder, before
<1>4. IsListOf(InLoopOrder(S), S)
  BY <1>2, <1>3, InOrderIsList
<1>5. \A j, k \in DOMAIN InLoopOrder(S) :
          j < k => <<InLoopOrder(S)[j], InLoopOrder(S)[k]>> \in before
  BY <1>2, <1>3, InOrderIsList
<1> QED BY <1>1, <1>4, <1>5 DEF IsListOf

-----------------------------------------------------------------------------
(***************************************************************************)
(* The least and the greatest.                                             *)
(***************************************************************************)

\* A set of natural numbers has a least one.
LEMMA MinIn ==
  ASSUME NEW T, T \subseteq Nat, T # {}
  PROVE  Min(T) \in T
<1>1. \E x \in T : \A y \in T : ~(<<y, x>> \in OpToRel(<, Nat))
  BY NatLessThanWellFounded, WFMin
<1>2. PICK x \in T : \A y \in T : ~(<<y, x>> \in OpToRel(<, Nat))
  BY <1>1
<1>3. \A y \in T : ~(y < x)
  BY <1>2 DEF OpToRel
<1>4. \A y \in T : x =< y
  BY <1>3
<1> QED BY <1>4 DEF Min

\* A set of numbers up to n has a greatest one.
LEMMA MaxIn ==
  ASSUME NEW n \in Nat, NEW T, T \subseteq 1 .. n, T # {}
  PROVE  Max(T) \in T
<1> DEFINE U == {n - x : x \in T}
<1>1. U \subseteq Nat /\ U # {}
  <2>1. \A x \in T : n - x \in Nat
    <3>1. \A x \in 1 .. n : n - x \in Nat
      OBVIOUS
    <3> QED BY <3>1
  <2> QED BY <2>1
<1>2. \E u \in U : \A v \in U : ~(<<v, u>> \in OpToRel(<, Nat))
  <2> HIDE DEF U
  <2> QED BY <1>1, NatLessThanWellFounded, WFMin
<1>3. PICK x \in T : \A v \in U : ~(<<v, n - x>> \in OpToRel(<, Nat))
  BY <1>2
<1>4. ASSUME NEW y \in T PROVE x >= y
  <2>1. n - y \in U /\ n - y \in Nat /\ n - x \in Nat
    OBVIOUS
  <2>2. ~(n - y < n - x)
    BY <1>3, <2>1 DEF OpToRel
  <2> QED BY <2>2
<1> QED BY <1>4 DEF Max
=============================================================================
