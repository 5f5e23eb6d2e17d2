--------------------------- MODULE Written_proofs ---------------------------
(***************************************************************************)
(* What a review session takes and keeps, and that what is written into    *)
(* the sources is what was reviewed, for any pool, any proposal, and any   *)
(* judgments.                                                              *)
(***************************************************************************)
EXTENDS MCRecords, Records_proofs

-----------------------------------------------------------------------------
(* Numbers *)

\* A finite set of numbers has a least one: those below it are the least of such sets.
LEMMA Smallest ==
  ASSUME NEW S \in SUBSET Nat, S # {}, IsFiniteSet(S)
  PROVE \E x \in S : \A y \in S : x <= y
<1> DEFINE Below(x) == {y \in S : y < x}
           T == {Below(x) : x \in S}
<1>1. IsWellFoundedOn(StrictSubsetOrdering(S), FiniteSubsetsOf(S))
  BY FS_StrictSubsetOrderingWellFounded
<1>2. T \subseteq FiniteSubsetsOf(S) /\ T # {}
  <2>1. \A x \in S : Below(x) \in SUBSET S
    OBVIOUS
  <2>2. \A x \in S : Below(x) \in FiniteSubsetsOf(S)
    <3> TAKE x \in S
    <3> QED BY <2>1, FS_Subset DEF FiniteSubsetsOf
  <2> QED BY <2>2
<1>3. PICK A \in T : \A B \in T : ~(<<B, A>> \in StrictSubsetOrdering(S))
  <2> HIDE DEF T
  <2> QED BY <1>1, <1>2, WFMin
<1>4. PICK x \in S : A = Below(x)
  OBVIOUS
<1>5. ASSUME NEW y \in S, y < x PROVE FALSE
  <2>1. Below(y) \in T /\ Below(y) \subseteq S /\ A \subseteq S
    BY <1>4
  <2>2. x \in Nat /\ y \in Nat
    OBVIOUS
  <2>3. \A z \in S : z < y => z < x
    BY <1>5, <2>2
  <2>4. Below(y) \subseteq A
    BY <1>4, <2>3
  <2>5. y \in A
    BY <1>4, <1>5
  <2>6. y \notin Below(y)
    <3>1. ~(y < y)
      BY <2>2
    <3> QED BY <3>1
  <2>7. <<Below(y), A>> \in StrictSubsetOrdering(S)
    BY <2>1, <2>4, <2>5, <2>6 DEF StrictSubsetOrdering
  <2> QED BY <1>3, <2>1, <2>7
<1>6. \A y \in S : x <= y
  BY <1>5
<1> QED BY <1>6

\* And so what holds of 0 and, with each number, of the next one holds up to any bound.
LEMMA Reaches ==
  ASSUME NEW n \in Nat, NEW S, 0 \in S, \A k \in 1..n : k - 1 \in S => k \in S
  PROVE  \A k \in 0..n : k \in S
<1> SUFFICES ASSUME (0..n) \ S # {} PROVE FALSE
  OBVIOUS
<1>1. PICK k \in (0..n) \ S : \A m \in (0..n) \ S : k <= m
  <2> DEFINE R == (0..n) \ S
  <2>1. R \in SUBSET Nat /\ R # {} /\ IsFiniteSet(R)
    <3>1. IsFiniteSet(0..n) /\ R \in SUBSET (0..n)
      BY FS_Interval
    <3> QED
      BY <3>1, FS_Subset
  <2> HIDE DEF R
  <2>2. \E k \in R : \A m \in R : k <= m
    BY <2>1, Smallest
  <2> QED
    BY <2>2 DEF R
<1>2. k # 0 /\ k \in 1..n /\ k - 1 \in 0..n /\ ~(k <= k - 1)
  BY <1>1
<1>3. k - 1 \in S
  BY <1>1, <1>2
<1> QED
  BY <1>1, <1>2, <1>3

-----------------------------------------------------------------------------
(* The selection *)

\* selectBalanced takes one case after the other: more[k] are those it has after k steps.
Steps(more, p, S, n, T, B, cap, x) ==
  /\ DOMAIN more = 0..n /\ more[0] = {}
  /\ \A k \in 1..n : more[k] = OneMore(p, S, T, B, cap, x, more[k - 1])
  /\ SelectBalanced(p, S, n, T, B, cap, x) = more[n]

LEMMA Taking ==
  ASSUME NEW p, NEW S, NEW n \in Nat, NEW T, NEW B, NEW cap, NEW x
  PROVE  \E more : Steps(more, p, S, n, T, B, cap, x)
<1> DEFINE Next1(M) == OneMore(p, S, T, B, cap, x, M)
           Chain(f, m) == /\ f = [k \in 0..m |-> f[k]] /\ f[0] = {}
                          /\ \A k \in 1..m : f[k] = Next1(f[k - 1])
           Good == {m \in 0..n : \E f : Chain(f, m)}
<1> HIDE DEF Next1
<1>1. 0 \in Good
  <2>1. Chain([k \in 0..0 |-> {}], 0)
    OBVIOUS
  <2> HIDE DEF Chain
  <2> QED
    BY <2>1
<1>2. ASSUME NEW k \in 1..n, k - 1 \in Good PROVE k \in Good
  <2>1. PICK f : Chain(f, k - 1)
    BY <1>2
  <2> DEFINE g == [i \in 0..k |-> IF i = k THEN Next1(f[k - 1]) ELSE f[i]]
  <2>2. Chain(g, k)
    <3>1. g[0] = {} /\ \A i \in 0..k - 1 : g[i] = f[i]
      <4>1. f[0] = {}
        BY <2>1
      <4>2. k # 0 /\ 0 \in 0..k /\ \A i \in 0..k - 1 : i \in 0..k /\ i # k
        OBVIOUS
      <4> HIDE DEF Chain
      <4>3. \A i \in 0..k : i # k => g[i] = f[i]
        OBVIOUS
      <4> HIDE DEF g
      <4> QED
        BY <4>1, <4>2, <4>3
    <3>2. \A i \in 1..k : g[i] = Next1(g[i - 1])
      <4> TAKE i \in 1..k
      <4>1. CASE i = k
        BY <4>1, <3>1
      <4>2. CASE i # k
        <5>1. i \in 1..k - 1 /\ i \in 0..k - 1 /\ i - 1 \in 0..k - 1
          BY <4>2
        <5> QED
          BY <5>1, <2>1, <3>1
      <4> QED
        BY <4>1, <4>2
    <3> QED
      BY <3>1, <3>2
  <2> HIDE DEF Chain, g
  <2> QED
    BY <2>2
<1>3. n \in Good
  <2> HIDE DEF Good
  <2>1. \A k \in 0..n : k \in Good
    BY <1>1, <1>2, Reaches
  <2> QED
    BY <2>1
<1>4. PICK f : Chain(f, n)
  BY <1>3
<1> DEFINE Recursive(m) == m = [k \in 0..n |-> IF k = 0 THEN {} ELSE Next1(m[k - 1])]
           more == CHOOSE m : Recursive(m)
<1>5. Recursive(f)
  <2>1. ASSUME NEW k \in 0..n PROVE f[k] = IF k = 0 THEN {} ELSE Next1(f[k - 1])
    <3>1. k = 0 \/ k \in 1..n
      OBVIOUS
    <3> QED
      BY <1>4, <3>1
  <2>2. f = [k \in 0..n |-> f[k]]
    BY <1>4
  <2> QED
    BY <2>1, <2>2
<1>6. Recursive(more)
  <2> HIDE DEF Recursive
  <2> QED
    BY <1>5
<1>7. SelectBalanced(p, S, n, T, B, cap, x) = more[n]
  BY DEF SelectBalanced, Next1
<1>8. DOMAIN more = 0..n /\ more[0] = {} /\ \A k \in 1..n : more[k] = Next1(more[k - 1])
  <2> HIDE DEF more
  <2>1. DOMAIN more = 0..n /\ \A k \in 0..n : more[k] = IF k = 0 THEN {} ELSE Next1(more[k - 1])
    BY <1>6
  <2>2. 0 \in 0..n /\ \A k \in 1..n : k \in 0..n /\ k # 0
    OBVIOUS
  <2> QED
    BY <2>1, <2>2
<1>9. Steps(more, p, S, n, T, B, cap, x)
  <2> HIDE DEF more
  <2> QED
    BY <1>7, <1>8 DEF Next1, Steps
<1> QED
  BY <1>9

\* A pool as buildReviewSession is given it, and the share of a cluster in a selection.
IsPool(p) ==
  /\ p.cluster \in [Pool -> Clusters] /\ p.source \in [Pool -> Sources] /\ p.quiet \in SUBSET Pool
  /\ p.size \in 1..PoolSize /\ p.exploration \in 0..p.size
Share(p, A, k) == Cardinality(InCluster(p, A, k))

LEMMA Finite ==
  /\ IsFiniteSet(Pool) /\ Pool \subseteq Nat
  /\ \A A \in SUBSET Pool : IsFiniteSet(A) /\ Cardinality(A) \in Nat
<1>1. IsFiniteSet(Pool) /\ Pool \subseteq Nat
  BY SessionAssumption, FS_Interval DEF Pool
<1>2. \A A \in SUBSET Pool : IsFiniteSet(A)
  BY <1>1, FS_Subset
<1> QED
  BY <1>1, <1>2, FS_CardinalityType

\* Any set of numbers that is not empty has a least one.
LEMMA LeastOf ==
  ASSUME NEW S \in SUBSET Nat, S # {}
  PROVE  \E x \in S : \A y \in S : x <= y
<1>1. PICK z : z \in S
  OBVIOUS
<1> DEFINE U == {y \in S : y <= z}
<1>2. U \in SUBSET (0..z) /\ z \in U /\ U \in SUBSET Nat
  <2>1. z \in Nat /\ z <= z
    BY <1>1
  <2>2. \A y \in U : y \in Nat /\ y \in 0..z
    BY <2>1
  <2> QED
    BY <1>1, <2>1, <2>2
<1>3. IsFiniteSet(U)
  <2>1. IsFiniteSet(0..z)
    BY <1>1, FS_Interval
  <2> HIDE DEF U
  <2> QED
    BY <1>2, <2>1, FS_Subset
<1>4. PICK x \in U : \A y \in U : x <= y
  <2> HIDE DEF U
  <2> QED
    BY <1>2, <1>3, Smallest
<1>5. ASSUME NEW y \in S PROVE x <= y
  BY <1>1, <1>4
<1> QED
  BY <1>4, <1>5

\* And any set of cases a last one.
LEMMA LastOf ==
  ASSUME NEW S \in SUBSET Pool, S # {}
  PROVE  \E x \in S : \A y \in S : y <= x
<1> DEFINE U == {PoolSize - y : y \in S}
<1>1. U \in SUBSET Nat /\ U # {}
  <2>1. \A y \in S : y \in 1..PoolSize
    BY DEF Pool
  <2>2. \A y \in 1..PoolSize : PoolSize - y \in Nat
    BY SessionAssumption
  <2> QED
    BY <2>1, <2>2
<1>2. PICK u \in U : \A w \in U : u <= w
  <2> HIDE DEF U
  <2> QED
    BY <1>1, LeastOf
<1>3. PICK x \in S : u = PoolSize - x
  BY <1>2
<1>4. ASSUME NEW y \in S PROVE y <= x
  <2>1. PoolSize - x <= PoolSize - y
    BY <1>2, <1>3
  <2> QED
    BY <2>1, SessionAssumption DEF Pool
<1> QED
  BY <1>4

LEMMA EndsOf ==
  ASSUME NEW S \in SUBSET Pool, S # {}
  PROVE  /\ Foremost(S) \in S /\ \A d \in S : Foremost(S) <= d
         /\ Hindmost(S) \in S
<1>1. \E c \in S : \A d \in S : c <= d
  BY Finite, LeastOf
<1>2. \E c \in S : \A d \in S : d <= c
  BY LastOf
<1> QED
  BY <1>1, <1>2 DEF Foremost, Hindmost

\* Among the cases that fit there are some whose source was taken from least.
LEMMA SomeScarce ==
  ASSUME NEW p, NEW E \in SUBSET Pool, E # {}, NEW A \in SUBSET Pool
  PROVE  Scarce(p, E, A) \in SUBSET E /\ Scarce(p, E, A) # {}
<1> DEFINE Count(c) == Cardinality(OfSource(p, A, p.source[c]))
           U == {Count(c) : c \in E}
<1>1. \A c \in E : Count(c) \in Nat
  BY Finite DEF OfSource
<1>2. U \in SUBSET Nat /\ U # {}
  BY <1>1
<1>3. PICK u \in U : \A w \in U : u <= w
  <2> HIDE DEF U
  <2> QED
    BY <1>2, LeastOf
<1>4. PICK c \in E : u = Count(c)
  BY <1>3
<1>5. \A d \in E : Count(c) <= Count(d)
  BY <1>3, <1>4
<1> QED
  BY <1>5 DEF Scarce

LEMMA OneMoreIs ==
  ASSUME NEW p, NEW S \in SUBSET Pool, NEW T \in SUBSET Pool, NEW B \in SUBSET Pool,
         NEW cap, NEW x, NEW R \in SUBSET Pool
  PROVE  \/ WithRoom(p, S, T \cup R, cap) = {} /\ OneMore(p, S, T, B, cap, x, R) = R
         \/ \E c \in WithRoom(p, S, T \cup R, cap) : OneMore(p, S, T, B, cap, x, R) = R \cup {c}
<1> DEFINE E == WithRoom(p, S, T \cup R, cap)
           C == Scarce(p, E, B \cup R)
<1>1. E \in SUBSET Pool
  BY DEF WithRoom
<1>2. CASE E = {}
  BY <1>2 DEF OneMore
<1>3. CASE E # {}
  <2>1. C \in SUBSET E /\ C # {}
    <3> HIDE DEF E
    <3> QED
      BY <1>1, <1>3, SomeScarce
  <2>2. Foremost(C) \in C /\ Hindmost(C) \in C
    <3> HIDE DEF E, C
    <3> QED
      BY <1>1, <2>1, EndsOf
  <2>3. OneMore(p, S, T, B, cap, x, R) = R \cup {IF x THEN Hindmost(C) ELSE Foremost(C)}
    BY <1>3 DEF OneMore
  <2> HIDE DEF E, C
  <2> QED
    BY <2>1, <2>2, <2>3 DEF E
<1> QED
  BY <1>2, <1>3

\* What k steps of selectBalanced have taken: no more than k, within the shares, and fewer
\* than k only because nothing fits.
Fits(p, S, T, cap, R, k) ==
  /\ R \in SUBSET (S \ T) /\ Cardinality(R) <= k
  /\ \A q \in Clusters : Share(p, T \cup R, q) <= cap
  /\ Cardinality(R) = k \/ WithRoom(p, S, T \cup R, cap) = {}

LEMMA OneMoreFits ==
  ASSUME NEW p, IsPool(p), NEW S \in SUBSET Pool, NEW T \in SUBSET Pool,
         NEW B \in SUBSET Pool, NEW cap \in Nat, NEW x, NEW R, NEW k \in Nat, Fits(p, S, T, cap, R, k)
  PROVE  /\ Fits(p, S, T, cap, OneMore(p, S, T, B, cap, x, R), k + 1)
         /\ R \subseteq OneMore(p, S, T, B, cap, x, R)
<1>1. R \in SUBSET Pool /\ R \in SUBSET (S \ T) /\ IsFiniteSet(R) /\ Cardinality(R) \in Nat
  BY Finite DEF Fits
<1>2. CASE WithRoom(p, S, T \cup R, cap) = {} /\ OneMore(p, S, T, B, cap, x, R) = R
  <2>1. Cardinality(R) <= k + 1
    BY <1>1 DEF Fits
  <2>2. Fits(p, S, T, cap, R, k + 1)
    BY <1>1, <1>2, <2>1 DEF Fits
  <2> QED
    BY <1>2, <2>2
<1>3. CASE \E c \in WithRoom(p, S, T \cup R, cap) : OneMore(p, S, T, B, cap, x, R) = R \cup {c}
  <2>1. PICK c \in WithRoom(p, S, T \cup R, cap) : OneMore(p, S, T, B, cap, x, R) = R \cup {c}
    BY <1>3
  <2>2. /\ c \in S \ T /\ c \notin R /\ c \in Pool
        /\ Cardinality(InCluster(p, T \cup R, p.cluster[c])) < cap
    BY <2>1 DEF WithRoom
  <2>3. Cardinality(R) = k
    BY <2>1 DEF Fits
  <2>4. Cardinality(R \cup {c}) = k + 1
    BY <1>1, <2>2, <2>3, FS_AddElement
  <2>5. ASSUME NEW q \in Clusters PROVE Share(p, T \cup (R \cup {c}), q) <= cap
    <3>1. InCluster(p, T \cup R, q) \in SUBSET Pool
      BY <1>1 DEF InCluster
    <3>2. IsFiniteSet(InCluster(p, T \cup R, q)) /\ Share(p, T \cup R, q) \in Nat
      BY <3>1, Finite DEF Share
    <3>3. CASE q # p.cluster[c]
      <4>1. InCluster(p, T \cup (R \cup {c}), q) = InCluster(p, T \cup R, q)
        BY <3>3 DEF InCluster
      <4> QED
        BY <4>1 DEF Share, Fits
    <3>4. CASE q = p.cluster[c]
      <4>1. InCluster(p, T \cup (R \cup {c}), q) = InCluster(p, T \cup R, q) \cup {c}
        BY <3>4 DEF InCluster
      <4>2. c \notin InCluster(p, T \cup R, q)
        BY <2>2 DEF InCluster
      <4>3. Share(p, T \cup (R \cup {c}), q) = Share(p, T \cup R, q) + 1
        BY <3>2, <4>1, <4>2, FS_AddElement DEF Share
      <4>4. Share(p, T \cup R, q) < cap
        BY <2>2, <3>4 DEF Share
      <4> QED
        BY <3>2, <4>3, <4>4
    <3> QED
      BY <3>3, <3>4
  <2>6. Fits(p, S, T, cap, R \cup {c}, k + 1)
    <3>1. R \cup {c} \in SUBSET (S \ T) /\ Cardinality(R \cup {c}) <= k + 1
      BY <1>1, <2>2, <2>4
    <3> QED
      BY <2>4, <2>5, <3>1 DEF Fits
  <2> QED
    BY <2>1, <2>6
<1> QED
  BY <1>1, <1>2, <1>3, OneMoreIs

\* What selectBalanced returns.
LEMMA Balanced ==
  ASSUME NEW p, IsPool(p), NEW S \in SUBSET Pool, NEW T \in SUBSET Pool,
         NEW B \in SUBSET Pool, NEW cap \in Nat, NEW x, NEW n \in Nat,
         \A q \in Clusters : Share(p, T, q) <= cap
  PROVE  /\ Fits(p, S, T, cap, SelectBalanced(p, S, n, T, B, cap, x), n)
         /\ n >= 1 => OneMore(p, S, T, B, cap, x, {}) \subseteq SelectBalanced(p, S, n, T, B, cap, x)
<1>1. PICK more : Steps(more, p, S, n, T, B, cap, x)
  BY Taking
<1>5. /\ DOMAIN more = 0..n /\ more[0] = {}
      /\ \A k \in 1..n : more[k] = OneMore(p, S, T, B, cap, x, more[k - 1])
      /\ SelectBalanced(p, S, n, T, B, cap, x) = more[n]
  BY <1>1 DEF Steps
<1> DEFINE First == OneMore(p, S, T, B, cap, x, {})
           Good == {k \in 0..n : Fits(p, S, T, cap, more[k], k) /\ (k >= 1 => First \subseteq more[k])}
<1>2. 0 \in Good
  <2>1. Fits(p, S, T, cap, {}, 0)
    <3>1. T \cup {} = T /\ Cardinality({}) = 0
      BY FS_EmptySet
    <3> QED
      BY <3>1 DEF Fits
  <2>2. 0 \in 0..n /\ ~(0 >= 1)
    OBVIOUS
  <2> QED
    BY <1>5, <2>1, <2>2
<1>3. ASSUME NEW k \in 1..n, k - 1 \in Good PROVE k \in Good
  <2>1. k - 1 \in Nat /\ (k - 1) + 1 = k /\ more[k] = OneMore(p, S, T, B, cap, x, more[k - 1])
    BY <1>5
  <2>2. Fits(p, S, T, cap, more[k - 1], k - 1) /\ (k - 1 >= 1 => First \subseteq more[k - 1])
    BY <1>3
  <2>3. Fits(p, S, T, cap, more[k], (k - 1) + 1) /\ more[k - 1] \subseteq more[k]
    <3> DEFINE R == more[k - 1]
    <3>1. Fits(p, S, T, cap, R, k - 1)
      BY <2>2
    <3> HIDE DEF R
    <3>2. /\ Fits(p, S, T, cap, OneMore(p, S, T, B, cap, x, R), (k - 1) + 1)
          /\ R \subseteq OneMore(p, S, T, B, cap, x, R)
      BY <2>1, <3>1, OneMoreFits
    <3> QED
      BY <2>1, <3>2 DEF R
  <2>4. First \subseteq more[k]
    <3>1. CASE k - 1 = 0
      BY <1>5, <2>1, <3>1
    <3>2. CASE k - 1 >= 1
      BY <2>2, <2>3, <3>2
    <3> QED
      BY <2>1, <3>1, <3>2
  <2> QED
    BY <2>1, <2>3, <2>4
<1>4. n \in Good
  <2> HIDE DEF Good
  <2>1. \A k \in 0..n : k \in Good
    BY <1>2, <1>3, Reaches
  <2> QED
    BY <2>1
<1> QED
  BY <1>4, <1>5

\* There is room for a case in every cluster.
LEMMA CapIs ==
  ASSUME NEW p, IsPool(p)
  PROVE  /\ CapPerCluster(p) \in Nat /\ CapPerCluster(p) >= 1
         /\ Capacity(p) = p.size /\ Capacity(p) \in 1..PoolSize
<1>1. Capacity(p) = p.size /\ Capacity(p) \in 1..PoolSize
  BY SessionAssumption DEF Capacity, Least, IsPool
<1> DEFINE K == ClustersOf(p)
           f == [c \in Pool |-> p.cluster[c]]
<1>2. f \in Surjection(Pool, K)
  BY DEF Surjection, ClustersOf
<1>3. IsFiniteSet(K)
  <2> HIDE DEF K, f
  <2> QED
    BY <1>2, Finite, FS_Surjection
<1>4. K # {}
  <2>1. 1 \in Pool
    BY SessionAssumption DEF Pool
  <2> QED
    BY <2>1 DEF ClustersOf
<1>5. Cardinality(K) \in Nat /\ Cardinality(K) # 0
  <2> HIDE DEF K
  <2> QED
    BY <1>3, <1>4, FS_CardinalityType, FS_EmptySet
<1>6. \A a, b \in Nat \ {0} : (a + b - 1) \div b \in Nat /\ (a + b - 1) \div b >= 1
  OBVIOUS
<1> QED
  BY <1>1, <1>5, <1>6 DEF CapPerCluster

\* What SelectionIsFair says, of the cases s chosen from a pool.
Fair(p, s) ==
  /\ s.chosen \in SUBSET Pool /\ Cardinality(s.chosen) <= Capacity(p)
  /\ \A k \in Clusters : Share(p, s.chosen, k) <= CapPerCluster(p)
  /\ \A c \in Pool \ s.chosen : \/ Cardinality(s.chosen) = Capacity(p)
                                \/ Share(p, s.chosen, p.cluster[c]) = CapPerCluster(p)
  /\ Capacity(p) > p.exploration => 1 \in s.chosen
  /\ s.explored \subseteq p.quiet /\ Cardinality(s.explored) <= p.exploration

LEMMA Together ==
  ASSUME NEW A \in SUBSET Pool, NEW B \in SUBSET Pool, A \cap B = {}
  PROVE  A \cup B \in SUBSET Pool /\ Cardinality(A \cup B) = Cardinality(A) + Cardinality(B)
<1>1. Cardinality(A \cap B) = 0 /\ IsFiniteSet(A) /\ IsFiniteSet(B)
  BY Finite, FS_EmptySet
<1>2. Cardinality(A) \in Nat /\ Cardinality(B) \in Nat
  BY Finite
<1>3. Cardinality(A \cup B) = Cardinality(A) + Cardinality(B) - Cardinality(A \cap B)
  BY <1>1, FS_Union
<1> QED
  BY <1>1, <1>2, <1>3

\* The best case of all represents its cluster.
LEMMA FirstRepresents ==
  ASSUME NEW p, IsPool(p)
  PROVE  /\ Representatives(p) \in SUBSET Pool /\ 1 \in Representatives(p)
         /\ Cardinality(Representatives(p)) >= 1
<1>1. ASSUME NEW k \in ClustersOf(p)
      PROVE  InCluster(p, Pool, k) \in SUBSET Pool /\ InCluster(p, Pool, k) # {}
  BY <1>1 DEF ClustersOf, InCluster
<1>2. Representatives(p) \in SUBSET Pool
  <2>1. ASSUME NEW k \in ClustersOf(p) PROVE Foremost(InCluster(p, Pool, k)) \in Pool
    BY <1>1, EndsOf
  <2> QED
    BY <2>1 DEF Representatives
<1>3. 1 \in Pool /\ p.cluster[1] \in ClustersOf(p) /\ 1 \in InCluster(p, Pool, p.cluster[1])
  <2>1. 1 \in Pool
    BY SessionAssumption DEF Pool
  <2> QED
    BY <2>1 DEF ClustersOf, InCluster
<1>4. Foremost(InCluster(p, Pool, p.cluster[1])) = 1
  <2> DEFINE S == InCluster(p, Pool, p.cluster[1])
  <2>1. S \in SUBSET Pool /\ 1 \in S /\ S # {}
    BY <1>1, <1>3
  <2> HIDE DEF S
  <2>2. Foremost(S) \in Pool /\ Foremost(S) <= 1
    BY <2>1, EndsOf
  <2>3. Foremost(S) = 1
    BY <2>2 DEF Pool
  <2> QED
    BY <2>3 DEF S
<1>5. 1 \in Representatives(p)
  BY <1>3, <1>4 DEF Representatives
<1>6. Cardinality(Representatives(p)) \in Nat /\ Cardinality(Representatives(p)) # 0
  BY <1>2, <1>5, Finite, FS_EmptySet
<1> QED
  BY <1>2, <1>5, <1>6

\* From nothing, the first case taken of a set that has the best one is that one.
LEMMA BestFirst ==
  ASSUME NEW p, IsPool(p), NEW S \in SUBSET Pool, 1 \in S, NEW cap \in Nat, cap >= 1
  PROVE  1 \in OneMore(p, S, {}, {}, cap, FALSE, {})
<1>1. \A A \in SUBSET Pool : A = {} => Cardinality(A) = 0
  BY FS_EmptySet
<1>2. WithRoom(p, S, {} \cup {}, cap) = S
  <2>1. \A k : InCluster(p, {} \cup {}, k) = {}
    BY DEF InCluster
  <2>2. \A k : Cardinality(InCluster(p, {} \cup {}, k)) = 0
    BY <2>1, FS_EmptySet
  <2> QED
    BY <2>2 DEF WithRoom
<1>3. Scarce(p, S, {} \cup {}) = S
  <2>1. \A k : OfSource(p, {} \cup {}, k) = {}
    BY DEF OfSource
  <2>2. \A k : Cardinality(OfSource(p, {} \cup {}, k)) = 0
    BY <2>1, FS_EmptySet
  <2> QED
    BY <2>2 DEF Scarce
<1>4. Foremost(S) = 1
  <2>1. Foremost(S) \in Pool /\ Foremost(S) <= 1
    BY EndsOf
  <2> QED
    BY <2>1 DEF Pool
<1> QED
  BY <1>2, <1>3, <1>4 DEF OneMore

LEMMA SelectionFair == ASSUME NEW p, IsPool(p) PROVE Fair(p, Selection(p))
<1> DEFINE cap == CapPerCluster(p)
           explore == Least(p.exploration, Capacity(p))
           wanted == Capacity(p) - explore
           reps == Representatives(p)
           places == Least(wanted, Cardinality(reps))
           first == SelectBalanced(p, reps, places, {}, {}, cap, FALSE)
           more == SelectBalanced(p, Pool \ first, wanted - Cardinality(first), first, first, cap, FALSE)
           priority == first \cup more
           explored == SelectBalanced(p, p.quiet \ priority, explore, priority, priority, cap, TRUE)
           chosen == priority \cup explored
           fill == SelectBalanced(p, Pool \ chosen, Capacity(p) - Cardinality(chosen), chosen, chosen, cap, FALSE)
<1>1. Selection(p) = [chosen |-> chosen \cup fill, explored |-> explored]
  BY DEF Selection
<1>2. cap \in Nat /\ cap >= 1 /\ Capacity(p) \in 1..PoolSize /\ Capacity(p) = p.size
  BY CapIs
<1>3. /\ explore = p.exploration /\ explore \in Nat /\ wanted \in Nat /\ wanted = Capacity(p) - explore
      /\ p.exploration \in Nat
  BY <1>2 DEF IsPool, Least
<1>4. reps \in SUBSET Pool /\ 1 \in reps /\ Cardinality(reps) \in Nat /\ Cardinality(reps) >= 1
  BY FirstRepresents, Finite
<1>5. places \in Nat /\ places <= wanted /\ (wanted >= 1 => places >= 1)
  BY <1>3, <1>4 DEF Least
<1>6. {} \in SUBSET Pool /\ \A q \in Clusters : Share(p, {}, q) <= cap
  <2>1. ASSUME NEW q \in Clusters PROVE Share(p, {}, q) = 0
    <3>1. InCluster(p, {}, q) = {}
      BY DEF InCluster
    <3> QED
      BY <3>1, FS_EmptySet DEF Share
  <2> QED
    BY <1>2, <2>1
<1>7. p.quiet \in SUBSET Pool
  BY DEF IsPool
<1> HIDE DEF cap, explore, wanted, reps, places
<1>8. /\ Fits(p, reps, {}, cap, first, places)
      /\ wanted >= 1 => 1 \in first
  <2>1. /\ Fits(p, reps, {}, cap, first, places)
        /\ places >= 1 => OneMore(p, reps, {}, {}, cap, FALSE, {}) \subseteq first
    BY <1>2, <1>4, <1>5, <1>6, Balanced
  <2>2. 1 \in OneMore(p, reps, {}, {}, cap, FALSE, {})
    BY <1>2, <1>4, BestFirst
  <2> QED
    BY <1>5, <2>1, <2>2
<1>9. /\ first \in SUBSET Pool /\ Cardinality(first) \in Nat /\ Cardinality(first) <= wanted
      /\ \A q \in Clusters : Share(p, first, q) <= cap
  <2>1. first \in SUBSET Pool /\ Cardinality(first) <= places /\ {} \cup first = first
    BY <1>4, <1>8 DEF Fits
  <2>2. Cardinality(first) \in Nat
    BY <2>1, Finite
  <2>3. \A q \in Clusters : Share(p, {} \cup first, q) <= cap
    BY <1>8 DEF Fits
  <2>4. \A q \in Clusters : Share(p, first, q) <= cap
    BY <2>1, <2>3, Zenon
  <2>5. Cardinality(first) <= wanted
    <3> HIDE DEF first
    <3> QED
      BY <1>3, <1>5, <2>1, <2>2
  <2> QED
    BY <2>1, <2>2, <2>4, <2>5
<1> HIDE DEF first
<1>10. Fits(p, Pool \ first, first, cap, more, wanted - Cardinality(first))
  <2>1. wanted - Cardinality(first) \in Nat /\ Pool \ first \in SUBSET Pool
    BY <1>3, <1>9
  <2> QED
    BY <1>2, <1>9, <2>1, Balanced
<1>11. /\ priority \in SUBSET Pool /\ Cardinality(priority) \in Nat /\ Cardinality(priority) <= wanted
       /\ \A q \in Clusters : Share(p, priority, q) <= cap
  <2>1. more \in SUBSET Pool /\ first \cap more = {} /\ Cardinality(more) <= wanted - Cardinality(first)
    BY <1>10 DEF Fits
  <2>2. priority \in SUBSET Pool /\ Cardinality(priority) = Cardinality(first) + Cardinality(more)
    BY <1>9, <2>1, Together
  <2>3. Cardinality(more) \in Nat
    BY <2>1, Finite
  <2>4. \A q \in Clusters : Share(p, priority, q) <= cap
    BY <1>10 DEF Fits
  <2>5. Cardinality(priority) \in Nat /\ Cardinality(priority) <= wanted
    <3> HIDE DEF priority, more
    <3> QED
      BY <1>3, <1>9, <2>1, <2>2, <2>3
  <2> QED
    BY <2>2, <2>4, <2>5
<1>12. first \subseteq priority
  OBVIOUS
<1> HIDE DEF priority
<1>13. Fits(p, p.quiet \ priority, priority, cap, explored, explore)
  <2>1. p.quiet \ priority \in SUBSET Pool
    BY <1>7
  <2> QED
    BY <1>2, <1>3, <1>11, <2>1, Balanced
<1>14. /\ chosen \in SUBSET Pool /\ Cardinality(chosen) \in Nat /\ Cardinality(chosen) <= Capacity(p)
       /\ \A q \in Clusters : Share(p, chosen, q) <= cap
  <2>1. explored \in SUBSET Pool /\ priority \cap explored = {} /\ Cardinality(explored) <= explore
    BY <1>7, <1>13 DEF Fits
  <2>2. chosen \in SUBSET Pool /\ Cardinality(chosen) = Cardinality(priority) + Cardinality(explored)
    BY <1>11, <2>1, Together
  <2>3. Cardinality(explored) \in Nat
    BY <2>1, Finite
  <2>4. \A q \in Clusters : Share(p, chosen, q) <= cap
    BY <1>13 DEF Fits
  <2>5. Cardinality(chosen) \in Nat /\ Cardinality(chosen) <= Capacity(p)
    <3> HIDE DEF chosen, explored
    <3> QED
      BY <1>2, <1>3, <1>11, <2>1, <2>2, <2>3
  <2> QED
    BY <2>2, <2>4, <2>5
<1>15. priority \subseteq chosen
  OBVIOUS
<1>16. explored \subseteq p.quiet /\ Cardinality(explored) <= p.exploration
  BY <1>3, <1>13 DEF Fits
<1> HIDE DEF explored, chosen
<1>17. Fits(p, Pool \ chosen, chosen, cap, fill, Capacity(p) - Cardinality(chosen))
  <2>1. Capacity(p) - Cardinality(chosen) \in Nat /\ Pool \ chosen \in SUBSET Pool
    BY <1>2, <1>14
  <2> QED
    BY <1>2, <1>14, <2>1, Balanced
<1> HIDE DEF fill
<1>18. /\ fill \in SUBSET Pool /\ chosen \cap fill = {} /\ Cardinality(fill) \in Nat
       /\ Cardinality(fill) <= Capacity(p) - Cardinality(chosen)
       /\ chosen \cup fill \in SUBSET Pool
       /\ Cardinality(chosen \cup fill) = Cardinality(chosen) + Cardinality(fill)
  <2>1. /\ fill \in SUBSET Pool /\ chosen \cap fill = {}
        /\ Cardinality(fill) <= Capacity(p) - Cardinality(chosen)
    BY <1>17 DEF Fits
  <2> QED
    BY <1>14, <2>1, Together, Finite
<1>19. Cardinality(chosen \cup fill) <= Capacity(p)
  BY <1>2, <1>14, <1>18
<1>20. ASSUME NEW c \in Pool \ (chosen \cup fill)
       PROVE  \/ Cardinality(chosen \cup fill) = Capacity(p)
              \/ Share(p, chosen \cup fill, p.cluster[c]) = cap
  <2>1. CASE Cardinality(fill) = Capacity(p) - Cardinality(chosen)
    BY <1>2, <1>14, <1>18, <2>1
  <2>2. CASE WithRoom(p, Pool \ chosen, chosen \cup fill, cap) = {}
    <3>1. ~(Cardinality(InCluster(p, chosen \cup fill, p.cluster[c])) < cap)
      BY <2>2 DEF WithRoom
    <3>2. p.cluster[c] \in Clusters
      BY DEF IsPool
    <3>3. Share(p, chosen \cup fill, p.cluster[c]) <= cap
      BY <1>17, <3>2 DEF Fits
    <3>4. InCluster(p, chosen \cup fill, p.cluster[c]) \in SUBSET Pool
      BY <1>18 DEF InCluster
    <3>5. Share(p, chosen \cup fill, p.cluster[c]) \in Nat
      BY <3>4, Finite DEF Share
    <3> QED
      BY <1>2, <3>1, <3>3, <3>5 DEF Share
  <2> QED
    BY <1>17, <2>1, <2>2 DEF Fits
<1>21. Capacity(p) > p.exploration => 1 \in chosen
  <2>1. Capacity(p) > p.exploration => wanted >= 1
    BY <1>2, <1>3
  <2> QED
    BY <1>8, <1>12, <1>15, <2>1
<1>22. \A q \in Clusters : Share(p, chosen \cup fill, q) <= cap
  BY <1>17 DEF Fits
<1>23. cap = CapPerCluster(p)
  BY DEF cap
<1>24. Selection(p).chosen = chosen \cup fill /\ Selection(p).explored = explored
  BY <1>1
<1> QED
  BY <1>16, <1>18, <1>19, <1>20, <1>21, <1>22, <1>23, <1>24 DEF Fair

-----------------------------------------------------------------------------
(* The log of a session *)

SessionLogged == [kind : {"item-completed", "item-skipped", "session-completed"}, case : 0..PoolSize,
           requeue : BOOLEAN]

\* What is built is fair, and a session has a log only once it is open; each case is in
\* the log once, and the close is the last of it and comes when all cases have been seen.
SessInv ==
  /\ build # NoBuild => IsPool(build) /\ Fair(build, build) /\ items = {}
  /\ items \in SUBSET Pool
  /\ events \in Seq(SessionLogged) /\ (items = {} => events = <<>>)
  /\ \A n \in DOMAIN events : events[n] \in ItemEvents \cup {ClosingEvent}
  /\ \A m, n \in DOMAIN events : events[m].case = events[n].case => m = n
  /\ \A n \in DOMAIN events : events[n] = ClosingEvent => n = Len(events) /\ Settled(events) = items
  /\ seen \in [Windows -> Nat] /\ \A w \in Windows : seen[w] <= Len(events)

LEMMA EventsTyped ==
  ASSUME items \in SUBSET Pool
  PROVE  /\ ItemEvents \cup {ClosingEvent} \subseteq SessionLogged
         /\ \A e \in ItemEvents : e.kind # "session-completed" /\ e.case \in items /\ e.case # 0
         /\ \A e \in ItemEvents : e.kind = "item-completed" => e.requeue = FALSE
         /\ ClosingEvent.kind = "session-completed" /\ ClosingEvent.case = 0
         /\ ClosingEvent.requeue = FALSE /\ ClosingEvent \notin ItemEvents
<1>1. /\ ClosingEvent.kind = "session-completed" /\ ClosingEvent.case = 0
      /\ ClosingEvent.requeue = FALSE /\ ClosingEvent \in SessionLogged
  BY SessionAssumption DEF ClosingEvent, SessionLogged
<1>2. ASSUME NEW e \in ItemEvents
      PROVE  /\ e.kind # "session-completed" /\ e.case \in items /\ e.case # 0 /\ e \in SessionLogged
             /\ e.kind = "item-completed" => e.requeue = FALSE
  <2>1. items \subseteq 0..PoolSize /\ 0 \notin items
    BY SessionAssumption DEF Pool
  <2> QED
    BY <2>1 DEF ItemEvents, SessionLogged
<1> QED
  BY <1>1, <1>2

LEMMA SessInitInv == SessInit => SessInv
BY DEF SessInit, SessInv

LEMMA SessBuilds == ASSUME SessInv, BuildReviewSession PROVE SessInv'
<1> DEFINE P(cluster, source, quiet, size, exploration) ==
             [cluster |-> cluster, source |-> source, quiet |-> quiet, size |-> size,
              exploration |-> exploration]
<1>1. \E cluster \in [Pool -> Clusters], source \in [Pool -> Sources], quiet \in SUBSET Pool,
         size \in 1..PoolSize : \E exploration \in 0..size :
        LET q == [cluster |-> cluster, source |-> source, quiet |-> quiet, size |-> size,
                  exploration |-> exploration]
            s == Selection(q)
        IN build' = [cluster |-> cluster, source |-> source, quiet |-> quiet, size |-> size,
                     exploration |-> exploration, chosen |-> s.chosen, explored |-> s.explored]
  BY DEF BuildReviewSession
<1>10. PICK cluster \in [Pool -> Clusters], source \in [Pool -> Sources], quiet \in SUBSET Pool,
            size \in 1..PoolSize : \E exploration \in 0..size :
        LET q == [cluster |-> cluster, source |-> source, quiet |-> quiet, size |-> size,
                  exploration |-> exploration]
            s == Selection(q)
        IN build' = [cluster |-> cluster, source |-> source, quiet |-> quiet, size |-> size,
                     exploration |-> exploration, chosen |-> s.chosen, explored |-> s.explored]
  BY <1>1
<1>9. PICK exploration \in 0..size :
        LET q == [cluster |-> cluster, source |-> source, quiet |-> quiet, size |-> size,
                  exploration |-> exploration]
            s == Selection(q)
        IN build' = [cluster |-> cluster, source |-> source, quiet |-> quiet, size |-> size,
                     exploration |-> exploration, chosen |-> s.chosen, explored |-> s.explored]
  BY <1>10
<1> DEFINE p == P(cluster, source, quiet, size, exploration)
<1>2. IsPool(p)
  BY DEF IsPool
<1>3. Fair(p, Selection(p))
  <2> HIDE DEF p
  <2> QED
    BY <1>2, SelectionFair
<1>4. /\ build'.cluster = p.cluster /\ build'.source = p.source /\ build'.quiet = p.quiet
      /\ build'.size = p.size /\ build'.exploration = p.exploration
      /\ build'.chosen = Selection(p).chosen /\ build'.explored = Selection(p).explored
  BY <1>9
<1> HIDE DEF p
<1>5. IsPool(build')
  BY <1>2, <1>4 DEF IsPool
<1>6. /\ Capacity(build') = Capacity(p) /\ CapPerCluster(build') = CapPerCluster(p)
      /\ \A A, k : Share(build', A, k) = Share(p, A, k)
  BY <1>4 DEF Capacity, CapPerCluster, ClustersOf, Share, InCluster
<1>7. Fair(build', build')
  BY <1>3, <1>4, <1>6 DEF Fair
<1>8. items = {} /\ items' = items /\ events' = events /\ seen' = seen
  BY DEF BuildReviewSession
<1> QED
  BY <1>5, <1>7, <1>8 DEF SessInv, ItemEvents, Settled

LEMMA SessOpens == ASSUME SessInv, Open PROVE SessInv'
<1>1. /\ events = <<>> /\ items' = build.chosen /\ build' = NoBuild /\ build.chosen \in SUBSET Pool
      /\ events' = events /\ seen' = seen
  BY DEF Open, SessInv, Fair
<1> QED
  BY <1>1 DEF SessInv

LEMMA SessAppends ==
  ASSUME SessInv, NEW w \in Windows, AppendReviewSessionEvent(w)
  PROVE  SessInv'
<1>1. PICK e \in ItemEvents \cup {ClosingEvent} :
        /\ items # {} /\ Acceptable(w, e) /\ events' = Append(events, e)
        /\ seen' = [seen EXCEPT ![w] = Revision + 1]
  BY DEF AppendReviewSessionEvent
<1>2. UNCHANGED <<build, items>>
  BY DEF AppendReviewSessionEvent
<1> DEFINE L == Len(events)
<1>3. items \in SUBSET Pool /\ e \in SessionLogged /\ events \in Seq(SessionLogged) /\ L \in Nat
  <2>1. items \in SUBSET Pool /\ events \in Seq(SessionLogged)
    BY DEF SessInv
  <2>2. e \in SessionLogged
    BY <2>1, EventsTyped
  <2> QED
    BY <2>1, <2>2
<1>4. /\ events' \in Seq(SessionLogged) /\ Len(events') = L + 1 /\ events'[L + 1] = e
      /\ DOMAIN events = 1..L /\ DOMAIN events' = 1..L + 1
      /\ \A n \in 1..L : events'[n] = events[n]
  BY <1>1, <1>3
<1>5. \A n \in 1..L : events[n] \in ItemEvents
  <2>1. SUFFICES ASSUME NEW n \in 1..L, events[n] \notin ItemEvents PROVE FALSE
    OBVIOUS
  <2>2. events[n] = ClosingEvent
    BY <1>4, <2>1 DEF SessInv
  <2>3. Closed(events)
    BY <1>3, <1>4, <2>2, EventsTyped DEF Closed
  <2> QED
    BY <1>1, <2>3 DEF Acceptable
<1>6. Settled(events) = {events[n].case : n \in 1..L}
  BY <1>3, <1>4, <1>5, EventsTyped DEF Settled
<1> HIDE DEF L
<1>7. \A n \in DOMAIN events' : n \in 1..L \/ n = L + 1
  BY <1>3, <1>4
<1>8. ItemEvents' = ItemEvents
  BY <1>2 DEF ItemEvents
<1>9. \A n \in DOMAIN events' : events'[n] \in ItemEvents \cup {ClosingEvent}
  BY <1>1, <1>4, <1>5, <1>7
<1>10. \A n \in 1..L : events[n].case # e.case
  <2> TAKE n \in 1..L
  <2>1. CASE e = ClosingEvent
    BY <1>3, <1>5, <2>1, EventsTyped
  <2>2. CASE e # ClosingEvent
    <3>1. e.case \notin Settled(events)
      BY <1>1, <2>2 DEF Acceptable
    <3> QED
      BY <1>6, <3>1
  <2> QED
    BY <2>1, <2>2
<1>11. \A m, n \in DOMAIN events' : events'[m].case = events'[n].case => m = n
  <2> TAKE m, n \in DOMAIN events'
  <2>1. CASE m \in 1..L /\ n \in 1..L
    BY <1>4, <2>1 DEF SessInv
  <2>2. CASE m = L + 1 /\ n \in 1..L
    BY <1>4, <1>10, <2>2
  <2>3. CASE m \in 1..L /\ n = L + 1
    BY <1>4, <1>10, <2>3
  <2> QED
    BY <1>7, <2>1, <2>2, <2>3
<1>12. \A n \in DOMAIN events' : events'[n] = ClosingEvent => n = L + 1 /\ Settled(events') = items
  <2> TAKE n \in DOMAIN events'
  <2>1. CASE n \in 1..L
    BY <1>3, <1>4, <1>5, <2>1, EventsTyped
  <2>2. CASE n = L + 1 /\ e = ClosingEvent
    <3>1. Settled(events) = items
      BY <1>1, <2>2 DEF Acceptable
    <3>2. {i \in DOMAIN events' : events'[i].kind # "session-completed"} = 1..L
      <4>1. \A i \in 1..L : events'[i].kind # "session-completed" /\ i \in DOMAIN events'
        <5> TAKE i \in 1..L
        <5>1. events'[i] \in ItemEvents
          BY <1>4, <1>5
        <5>2. i \in DOMAIN events'
          BY <1>3, <1>4
        <5> QED
          BY <1>3, <5>1, <5>2, EventsTyped
      <4>2. events'[L + 1].kind = "session-completed"
        BY <1>3, <1>4, <2>2, EventsTyped
      <4> QED
        BY <1>7, <4>1, <4>2
    <3>3. Settled(events') = {events'[i].case : i \in 1..L}
      BY <3>2 DEF Settled
    <3> QED
      BY <1>4, <1>6, <2>2, <3>1, <3>3
  <2>3. CASE n = L + 1 /\ e # ClosingEvent
    BY <1>4, <2>3
  <2> QED
    BY <1>7, <2>1, <2>2, <2>3
<1>13. seen' \in [Windows -> Nat] /\ \A v \in Windows : seen'[v] <= L + 1
  <2>1. Revision = L /\ seen \in [Windows -> Nat] /\ \A v \in Windows : seen[v] <= L
    BY DEF SessInv, Revision, L
  <2> QED
    BY <1>1, <1>3, <2>1
<1>14. build = NoBuild
  BY <1>1 DEF SessInv
<1> QED
  BY <1>1, <1>2, <1>3, <1>4, <1>8, <1>9, <1>11, <1>12, <1>13, <1>14 DEF SessInv

LEMMA SessInductive == SessInv /\ [SessNext]_sessVars => SessInv'
<1> SUFFICES ASSUME SessInv, [SessNext]_sessVars PROVE SessInv'
  OBVIOUS
<1>1. ASSUME NEW w \in Windows, Reread(w) PROVE SessInv'
  <2>1. UNCHANGED <<build, items, events>> /\ seen' = [seen EXCEPT ![w] = Len(events)]
    BY <1>1 DEF Reread, Revision
  <2>2. Len(events) \in Nat
    BY DEF SessInv
  <2>3. seen' \in [Windows -> Nat] /\ \A v \in Windows : seen'[v] <= Len(events)
    BY <2>1, <2>2 DEF SessInv
  <2>4. ItemEvents' = ItemEvents /\ Settled(events') = Settled(events)
    BY <2>1 DEF ItemEvents, Settled
  <2> QED
    BY <2>1, <2>3, <2>4 DEF SessInv
<1>2. CASE UNCHANGED sessVars
  <2>1. UNCHANGED <<build, items, events, seen>>
    BY <1>2 DEF sessVars
  <2>2. ItemEvents' = ItemEvents /\ Settled(events') = Settled(events)
    BY <2>1 DEF ItemEvents, Settled
  <2> QED
    BY <2>1, <2>2 DEF SessInv
<1> QED
  BY <1>1, <1>2, SessBuilds, SessOpens, SessAppends DEF SessNext

LEMMA SessInvTyped == SessInv => SessTypeOK
<1> SUFFICES ASSUME SessInv PROVE SessTypeOK
  OBVIOUS
<1> DEFINE L == Len(events)
           f == [n \in 1..L |-> events[n].case]
<1>1. L \in Nat /\ DOMAIN events = 1..L /\ \A n \in 1..L : events[n] \in SessionLogged
  BY DEF SessInv
<1>2. f \in Injection(1..L, 0..PoolSize)
  <2>1. \A n \in 1..L : events[n].case \in 0..PoolSize
    BY <1>1 DEF SessionLogged
  <2>2. \A m, n \in 1..L : events[m].case = events[n].case => m = n
    BY <1>1 DEF SessInv
  <2> QED
    BY <2>1, <2>2 DEF Injection, IsInjective
<1>3. IsFiniteSet(0..PoolSize) /\ Cardinality(0..PoolSize) = PoolSize + 1
  BY SessionAssumption, FS_Interval
<1>4. Cardinality(1..L) <= PoolSize + 1
  <2> HIDE DEF f, L
  <2> QED
    BY <1>2, <1>3, FS_Injection
<1>5. L <= PoolSize + 1
  <2> HIDE DEF L
  <2>1. Cardinality(1..L) = L
    BY <1>1, FS_Interval
  <2> QED
    BY <1>4, <2>1
<1>6. \A w \in Windows : seen[w] \in Nat /\ seen[w] <= L
  BY DEF SessInv
<1>7. \A w \in Windows : seen[w] \in 0..PoolSize + 1
  <2> HIDE DEF L
  <2> QED
    BY <1>1, <1>5, <1>6, SessionAssumption
<1> QED
  BY <1>6, <1>7 DEF SessTypeOK, SessInv, Revision

LEMMA SessInvHolds == SessInv => SessionsHold
<1> SUFFICES ASSUME SessInv PROVE SelectionIsFair /\ ReviewedOnce
  BY DEF SessionsHold
<1>1. SelectionIsFair
  <2>1. SUFFICES ASSUME build # NoBuild PROVE SelectionIsFair
    BY DEF SelectionIsFair
  <2>2. IsPool(build) /\ Fair(build, build)
    BY <2>1 DEF SessInv
  <2>3. ClustersOf(build) \subseteq Clusters
    BY <2>2 DEF ClustersOf, IsPool
  <2> QED
    BY <2>2, <2>3 DEF SelectionIsFair, Fair, Share
<1>2. ReviewedOnce
  <2>1. Closed(events) => events[Len(events)] = ClosingEvent /\ Settled(events) = items
    <3>1. SUFFICES ASSUME NEW n \in DOMAIN events, events[n].kind = "session-completed"
                   PROVE  events[Len(events)] = ClosingEvent /\ Settled(events) = items
      BY DEF Closed
    <3>2. events[n] = ClosingEvent
      BY <3>1, EventsTyped DEF SessInv
    <3> QED
      BY <3>2 DEF SessInv
  <2>2. Completed \cap Requeued = {}
    <3>1. SUFFICES ASSUME NEW c, NEW m \in DOMAIN events, NEW n \in DOMAIN events,
                          events[m].case = c, events[m].kind = "item-completed",
                          events[n].case = c, events[n].requeue
                   PROVE  FALSE
      BY DEF Completed, Requeued
    <3>2. m = n
      BY <3>1 DEF SessInv
    <3> QED
      BY <3>1, <3>2, EventsTyped DEF SessInv
  <2>3. Resumable \cap Settled(events) = {}
    BY DEF Resumable
  <2> QED
    BY <2>1, <2>2, <2>3 DEF ReviewedOnce, SessInv
<1> QED
  BY <1>1, <1>2

\* For any pool, clusters, sources, sizes and places for quiet cases the selection is fair,
\* and whatever the windows send in whatever order, each case of a session ends once and
\* the session is closed when all have.
THEOREM SessionsKeepTheirWord == SessSpec => []SessionsHold
BY SessInitInv, SessInductive, SessInvHolds, PTL DEF SessSpec

\* The cases of a session are of the pool, and no window has read what was not written.
THEOREM SessTypeCorrect == SessSpec => []SessTypeOK
BY SessInitInv, SessInductive, SessInvTyped, PTL DEF SessSpec

-----------------------------------------------------------------------------
(* Proposals *)

Everything == Concepts \cup Drafts

\* The places an operation gives its concept, and those it takes from it.
Gains(o) == CASE o.type = "anchor-add" -> {o.at} [] o.type = "anchor-adjust" -> {o.nextAt} [] OTHER -> {}
Loses(o) == IF o.type \in {"anchor-remove", "anchor-adjust"} THEN {o.at} ELSE {}

\* What an operation finds in the sources.
Sound(o) ==
  LET has == base[o.on] IN
  /\ o.type = "phrase-add" => o.phrase \notin has.lexicon
  /\ o.type = "phrase-remove" => o.phrase \in has.lexicon
  /\ o.type = "anchor-add" => \A a \in has.anchors : a.at # o.at
  /\ o.type \in {"anchor-remove", "anchor-adjust"} =>
       \E a \in has.anchors : a.at = o.at /\ a.from = {"editorial"}
                              /\ (o.type = "anchor-adjust" => a.weight = o.weight)
  /\ o.type = "anchor-adjust" /\ o.nextAt # o.at => \A a \in has.anchors : a.at # o.nextAt
  /\ o.type \in {"related-add", "related-remove"} =>
       o.on # o.to /\ (o.type = "related-add" <=> o.to \notin has.related)

\* Two operations on one concept are not about the same.
Distinct(o, r) ==
  o.on = r.on =>
    /\ o.type \in {"phrase-add", "phrase-remove"} /\ r.type \in {"phrase-add", "phrase-remove"} =>
         o.phrase # r.phrase
    /\ Gains(o) \cap Gains(r) = {} /\ Loses(o) \cap Loses(r) = {}
    /\ Gains(o) \cap Loses(r) = {} /\ Gains(r) \cap Loses(o) = {}
    /\ o.type \in {"related-add", "related-remove"} /\ r.type \in {"related-add", "related-remove"} =>
         o.to # r.to
    /\ ~(o.type = "draft" /\ r.type = "draft")

\* The operations that have been applied.
Applied == IF submitted THEN ops \ todo ELSE {}

PropTyped ==
  /\ ops \in SUBSET ProposalOps /\ todo \in SUBSET ops /\ submitted \in BOOLEAN
  /\ DOMAIN base = Everything
  /\ \A c \in Concepts : /\ base[c] \in Concept
                         /\ \A a, b \in base[c].anchors : a.at = b.at => a = b
  /\ \A d \in Drafts : base[d] = Absent

OpsAgree ==
  /\ \A o \in ops : Sound(o)
  /\ \A o, r \in ops : o # r => Distinct(o, r)

PropInv ==
  /\ PropTyped /\ OpsAgree
  /\ refused = {} /\ made = yaml /\ made = [c \in Everything |-> Declared(Applied, c)]

\* The fields of the operations.
LEMMA OpsTyped ==
  ASSUME NEW o \in ProposalOps
  PROVE  /\ o.type \in {"phrase-add", "phrase-remove", "anchor-add", "anchor-remove", "anchor-adjust",
                        "related-add", "related-remove", "draft"}
         /\ o.type = "draft" => o.on \in Drafts /\ o.to \in Everything
         /\ o.type # "draft" => o.on \in Concepts
         /\ o.type \in {"phrase-add", "phrase-remove", "draft"} => o.phrase \in Phrases
         /\ o.type \in {"anchor-add", "anchor-remove", "anchor-adjust", "draft"} => o.at \in Places
         /\ o.type \in {"anchor-add", "anchor-adjust", "draft"} => o.weight \in Weights
         /\ o.type = "anchor-adjust" => o.nextAt \in Places /\ o.nextWeight \in Weights
         /\ o.type \in {"related-add", "related-remove"} => o.to \in Concepts
BY DEF ProposalOps, PhraseOps, AnchorOps, EdgeOps, DraftOps, Everything

\* Two removals of one phrase of one concept are one operation.
LEMMA OneRemoval ==
  ASSUME NEW o \in ProposalOps, NEW r \in ProposalOps, o.type = "phrase-remove", r.type = "phrase-remove",
         o.on = r.on, o.phrase = r.phrase
  PROVE  o = r
BY DEF ProposalOps, PhraseOps, AnchorOps, EdgeOps, DraftOps

LEMMA Nothing ==
  ASSUME PropTyped, NEW c \in Everything
  PROVE  Declared({}, c) = base[c]
<1>1. CASE c \in Drafts
  BY <1>1 DEF Declared, PropTyped
<1>2. CASE c \in Concepts /\ c \notin Drafts
  <2>1. base[c] \in Concept
    BY <1>2 DEF PropTyped
  <2>2. Declared({}, c) = [lexicon |-> base[c].lexicon, anchors |-> base[c].anchors,
                           related |-> base[c].related]
    BY <1>2 DEF Declared, OfType, PendingPhrases, RemovedPhrases
  <2> QED
    BY <2>1, <2>2 DEF Concept
<1> QED
  BY <1>1, <1>2 DEF Everything

LEMMA PropInitInv == PropInit => PropInv
<1> SUFFICES ASSUME PropInit PROVE PropInv
  OBVIOUS
<1>1. PICK s \in Ontologies : base = [c \in Everything |-> IF c \in Concepts THEN s[c] ELSE Absent]
  BY DEF PropInit, Everything
<1>2. PropTyped
  <2>1. \A c \in Concepts : base[c] = s[c]
    BY <1>1 DEF Everything
  <2>2. \A d \in Drafts : base[d] = Absent
    BY <1>1, ProposalAssumption DEF Everything
  <2>3. DOMAIN base = Everything
    BY <1>1
  <2>4. \A c \in Concepts : s[c] \in Concept /\ \A a, b \in s[c].anchors : a.at = b.at => a = b
    BY OntologyAssumption
  <2>5. ops \in SUBSET ProposalOps /\ todo \in SUBSET ops /\ submitted \in BOOLEAN
    BY DEF PropInit
  <2> QED
    BY <2>1, <2>2, <2>3, <2>4, <2>5 DEF PropTyped
<1>3. Applied = {} /\ ops = {}
  BY DEF PropInit, Applied
<1>4. [c \in Everything |-> Declared(Applied, c)] = base
  BY <1>1, <1>2, <1>3, Nothing
<1> QED
  BY <1>2, <1>3, <1>4 DEF PropInit, PropInv, OpsAgree

\* What validation found of an operation it let pass.
LEMMA LetPass ==
  ASSUME NEW o \in ProposalOps, NEW before, ~Collides(o, before)
  PROVE  /\ o.type = "phrase-remove" => PhraseRemovable(o, before)
         /\ o.type = "phrase-add" => PhraseAddable(o, before)
         /\ o.type = "anchor-add" => AnchorAddable(o, before)
         /\ o.type = "anchor-remove" => AnchorRemovable(o, before)
         /\ o.type = "anchor-adjust" => AnchorAdjustable(o, before)
         /\ o.type = "draft" => DraftCreatable(o, before)
         /\ o.type \in {"related-add", "related-remove"} => EdgeChangeable(o, before)
BY DEF Collides, PhraseRemovable, PhraseAddable, AnchorAddable, AnchorRemovable, AnchorAdjustable,
       DraftCreatable, EdgeChangeable

LEMMA Held == \A c \in Concepts : \A a \in base[c].anchors : <<c, a.at>> \in HeldAnchors
BY DEF HeldAnchors

LEMMA NewIsSound ==
  ASSUME PropTyped, NEW o \in ProposalOps, ~Collides(o, ops)
  PROVE  Sound(o)
<1>1. CASE o.type = "phrase-remove"
  BY <1>1, LetPass DEF Sound, PhraseRemovable
<1>2. CASE o.type = "phrase-add"
  BY <1>2, LetPass, OpsTyped DEF Sound, PhraseAddable, OwnedPhrases
<1>3. CASE o.type = "anchor-add"
  <2>1. AnchorAddable(o, ops) /\ o.on \in Concepts
    BY <1>3, LetPass, OpsTyped
  <2>2. \A a \in base[o.on].anchors : a.at # o.at
    BY <2>1, Held DEF AnchorAddable
  <2> QED
    BY <1>3, <2>2 DEF Sound
<1>4. CASE o.type = "anchor-remove"
  BY <1>4, LetPass DEF Sound, AnchorRemovable, AnchorFree
<1>5. CASE o.type = "anchor-adjust"
  <2>1. AnchorAdjustable(o, ops) /\ o.on \in Concepts
    BY <1>5, LetPass, OpsTyped
  <2>2. PICK a \in base[o.on].anchors : a.at = o.at /\ a.from = {"editorial"}
    BY <2>1 DEF AnchorAdjustable, AnchorFree
  <2>3. a.weight = o.weight
    BY <2>1, <2>2 DEF AnchorAdjustable, PropTyped
  <2>4. o.nextAt # o.at => \A b \in base[o.on].anchors : b.at # o.nextAt
    BY <2>1, Held DEF AnchorAdjustable
  <2> QED
    BY <1>5, <2>2, <2>3, <2>4 DEF Sound
<1>6. CASE o.type \in {"related-add", "related-remove"}
  BY <1>6, LetPass DEF Sound, EdgeChangeable
<1>7. CASE o.type = "draft"
  BY <1>7 DEF Sound
<1> QED
  BY <1>1, <1>2, <1>3, <1>4, <1>5, <1>6, <1>7, OpsTyped

\* The places of an operation are those it is looked up by.
LEMMA PlacesOf ==
  ASSUME NEW set, NEW r \in set
  PROVE  /\ \A x \in Gains(r) : <<r.on, x>> \in PendingAnchors(set)
         /\ \A x \in Loses(r) : <<r.on, x>> \in ConsumedAnchors(set)
BY DEF Gains, Loses, PendingAnchors, ConsumedAnchors, OfType

\* The places of a new one are not yet looked up.
LEMMA PlacesFree ==
  ASSUME NEW o \in ProposalOps, NEW before, ~Collides(o, before)
  PROVE  /\ \A x \in Gains(o) : <<o.on, x>> \notin PendingAnchors(before) \cup ConsumedAnchors(before)
         /\ \A x \in Loses(o) : <<o.on, x>> \notin PendingAnchors(before) \cup ConsumedAnchors(before)
<1>1. CASE o.type = "anchor-add"
  BY <1>1, LetPass DEF Gains, Loses, AnchorAddable
<1>2. CASE o.type = "anchor-remove"
  BY <1>2, LetPass DEF Gains, Loses, AnchorRemovable, AnchorFree
<1>3. CASE o.type = "anchor-adjust"
  BY <1>3, LetPass DEF Gains, Loses, AnchorAdjustable, AnchorFree
<1>4. CASE o.type \notin {"anchor-add", "anchor-remove", "anchor-adjust"}
  BY <1>4 DEF Gains, Loses
<1> QED
  BY <1>1, <1>2, <1>3, <1>4

LEMMA NewIsApart ==
  ASSUME PropTyped, OpsAgree, NEW o \in ProposalOps, ~Collides(o, ops), NEW r \in ops, o # r
  PROVE  Distinct(o, r) /\ Distinct(r, o)
<1> SUFFICES ASSUME o.on = r.on PROVE Distinct(o, r) /\ Distinct(r, o)
  BY DEF Distinct
<1>1. r \in ProposalOps
  BY DEF PropTyped
<1>2. /\ Gains(o) \cap Gains(r) = {} /\ Loses(o) \cap Loses(r) = {}
      /\ Gains(o) \cap Loses(r) = {} /\ Gains(r) \cap Loses(o) = {}
  <2>1. /\ \A x \in Gains(r) : <<o.on, x>> \in PendingAnchors(ops)
        /\ \A x \in Loses(r) : <<o.on, x>> \in ConsumedAnchors(ops)
    BY PlacesOf
  <2>2. /\ \A x \in Gains(o) : <<o.on, x>> \notin PendingAnchors(ops) \cup ConsumedAnchors(ops)
        /\ \A x \in Loses(o) : <<o.on, x>> \notin PendingAnchors(ops) \cup ConsumedAnchors(ops)
    BY PlacesFree
  <2> QED
    BY <2>1, <2>2
<1>3. ASSUME o.type \in {"phrase-add", "phrase-remove"}, r.type \in {"phrase-add", "phrase-remove"}
      PROVE  o.phrase # r.phrase
  <2>1. CASE o.type = "phrase-add"
    BY <1>3, <2>1, LetPass DEF PhraseAddable, PendingPhrases, RemovedPhrases, OfType
  <2>2. CASE o.type = "phrase-remove" /\ r.type = "phrase-add"
    BY <2>2, LetPass DEF PhraseRemovable, PendingPhrases, OfType
  <2>3. CASE o.type = "phrase-remove" /\ r.type = "phrase-remove"
    BY <1>1, <2>3, OneRemoval
  <2> QED
    BY <1>3, <2>1, <2>2, <2>3
<1>4. ASSUME o.type \in {"related-add", "related-remove"}, r.type \in {"related-add", "related-remove"}
      PROVE  o.to # r.to
  BY <1>4, LetPass DEF EdgeChangeable, TouchedEdges, OfType
<1>5. ~(o.type = "draft" /\ r.type = "draft")
  BY LetPass DEF DraftCreatable, OfType
<1> QED
  BY <1>2, <1>3, <1>4, <1>5 DEF Distinct

LEMMA DeclareKeeps == ASSUME PropInv, Declare PROVE PropInv'
<1>1. PICK o \in ProposalOps \ ops : ~Collides(o, ops) /\ ops' = ops \cup {o}
  BY DEF Declare
<1>2. UNCHANGED <<base, todo, submitted, made, yaml, refused>> /\ ~submitted
  BY DEF Declare
<1>3. PropTyped /\ OpsAgree
  BY DEF PropInv
<1>4. PropTyped'
  BY <1>1, <1>2, <1>3 DEF PropTyped
<1>5. Sound(o) /\ \A r \in ops : Distinct(o, r) /\ Distinct(r, o)
  BY <1>1, <1>3, NewIsSound, NewIsApart
<1>6. \A r : Sound(r)' = Sound(r)
  BY <1>2 DEF Sound
<1>7. OpsAgree'
  <2>1. \A r \in ops' : Sound(r)'
    BY <1>1, <1>3, <1>5, <1>6 DEF OpsAgree
  <2>2. \A q, r \in ops' : q # r => Distinct(q, r)
    BY <1>1, <1>3, <1>5 DEF OpsAgree
  <2> QED
    BY <2>1, <2>2 DEF OpsAgree
<1>8. Applied' = Applied
  BY <1>2 DEF Applied
<1>9. \A c : Declared(Applied, c)' = Declared(Applied, c)
  BY <1>2, <1>8 DEF Declared
<1> QED
  BY <1>2, <1>4, <1>7, <1>9 DEF PropInv

LEMMA SubmitKeeps == ASSUME PropInv, SubmitProposal PROVE PropInv'
<1>1. /\ ~submitted /\ submitted' = TRUE /\ todo' = ops
      /\ UNCHANGED <<base, ops, made, yaml, refused>>
  BY DEF SubmitProposal
<1>2. PropTyped' /\ OpsAgree'
  <2>1. \A r : Sound(r)' = Sound(r)
    BY <1>1 DEF Sound
  <2> QED
    BY <1>1, <2>1 DEF PropInv, PropTyped, OpsAgree
<1>3. Applied = {} /\ Applied' = {}
  BY <1>1 DEF Applied
<1>4. \A c : Declared(Applied, c)' = Declared(Applied, c)
  BY <1>1, <1>3 DEF Declared
<1> QED
  BY <1>1, <1>2, <1>4 DEF PropInv

\* What a set of operations makes of the phrases, the anchors and the relations of a
\* concept of the sources.
Lex(D, c) == {x \in Phrases : /\ \/ x \in base[c].lexicon
                                 \/ \E r \in D : r.on = c /\ r.type = "phrase-add" /\ r.phrase = x
                              /\ ~\E r \in D : r.on = c /\ r.type = "phrase-remove" /\ r.phrase = x}
Anch(D, c) == {a \in base[c].anchors : ~\E r \in D : r.on = c /\ a.at \in Loses(r)}
              \cup {Anchor(r.at, r.weight) : r \in {r \in D : r.on = c /\ r.type = "anchor-add"}}
              \cup {Anchor(r.nextAt, r.nextWeight) : r \in {r \in D : r.on = c /\ r.type = "anchor-adjust"}}
Rel(D, c) == {x \in Everything : /\ \/ x \in base[c].related
                                    \/ \E r \in D : r.on = c /\ r.type = "related-add" /\ r.to = x
                                 /\ ~\E r \in D : r.on = c /\ r.type = "related-remove" /\ r.to = x}
Made(D, c) == [lexicon |-> Lex(D, c), anchors |-> Anch(D, c), related |-> Rel(D, c)]

LEMMA DeclaredIs ==
  ASSUME PropTyped, NEW D \in SUBSET ops, NEW c \in Concepts
  PROVE  Declared(D, c) = Made(D, c)
<1> DEFINE Mine == {r \in D : r.on = c}
<1>1. c \notin Drafts
  BY ProposalAssumption
<1>2. \A r \in Mine : r \in D /\ r.on = c /\ r \in ProposalOps /\ r.type # "draft"
  BY <1>1, OpsTyped DEF PropTyped
<1>3. base[c] \in Concept
  BY DEF PropTyped
<1>4. (base[c].lexicon \cup PendingPhrases(Mine)) \ RemovedPhrases(Mine) = Lex(D, c)
  <2>1. PendingPhrases(Mine) = {r.phrase : r \in {r \in D : r.on = c /\ r.type = "phrase-add"}}
    BY <1>2 DEF PendingPhrases, OfType
  <2>2. RemovedPhrases(Mine) = {r.phrase : r \in {r \in D : r.on = c /\ r.type = "phrase-remove"}}
    BY <1>2 DEF RemovedPhrases, OfType
  <2>3. PendingPhrases(Mine) \subseteq Phrases /\ base[c].lexicon \subseteq Phrases
    BY <1>2, <1>3, <2>1, OpsTyped DEF Concept
  <2> HIDE DEF Mine
  <2> QED
    BY <2>1, <2>2, <2>3 DEF Lex
<1>5. {a \in base[c].anchors : a.at \notin {o.at : o \in OfType({"anchor-remove", "anchor-adjust"}, Mine)}}
        = {a \in base[c].anchors : ~\E r \in D : r.on = c /\ a.at \in Loses(r)}
  BY <1>2 DEF OfType, Loses
<1>6. /\ OfType({"anchor-add"}, Mine) = {r \in D : r.on = c /\ r.type = "anchor-add"}
      /\ OfType({"anchor-adjust"}, Mine) = {r \in D : r.on = c /\ r.type = "anchor-adjust"}
  BY <1>2 DEF OfType
<1>7. (base[c].related \cup {o.to : o \in OfType({"related-add"}, Mine)})
        \ {o.to : o \in OfType({"related-remove"}, Mine)} = Rel(D, c)
  <2>1. {o.to : o \in OfType({"related-add"}, Mine)} = {r.to : r \in {r \in D : r.on = c /\ r.type = "related-add"}}
    BY <1>2 DEF OfType
  <2>2. {o.to : o \in OfType({"related-remove"}, Mine)} = {r.to : r \in {r \in D : r.on = c /\ r.type = "related-remove"}}
    BY <1>2 DEF OfType
  <2>3. {r.to : r \in {r \in D : r.on = c /\ r.type = "related-add"}} \subseteq Everything
    BY <1>2, OpsTyped DEF Everything
  <2>4. base[c].related \subseteq Everything
    BY <1>3 DEF Concept, Everything
  <2> QED
    BY <2>1, <2>2, <2>3, <2>4 DEF Rel
<1>8. Declared(D, c) =
        [lexicon |-> (base[c].lexicon \cup PendingPhrases(Mine)) \ RemovedPhrases(Mine),
         anchors |-> {a \in base[c].anchors : a.at \notin {o.at : o \in OfType({"anchor-remove", "anchor-adjust"}, Mine)}}
                       \cup {Anchor(o.at, o.weight) : o \in OfType({"anchor-add"}, Mine)}
                       \cup {Anchor(o.nextAt, o.nextWeight) : o \in OfType({"anchor-adjust"}, Mine)},
         related |-> (base[c].related \cup {o.to : o \in OfType({"related-add"}, Mine)})
                       \ {o.to : o \in OfType({"related-remove"}, Mine)}]
  BY <1>1 DEF Declared
<1> HIDE DEF Mine
<1> QED
  BY <1>4, <1>5, <1>6, <1>7, <1>8 DEF Made, Anch

LEMMA MadeTyped ==
  ASSUME PropTyped, NEW D \in SUBSET ops, NEW c \in Concepts
  PROVE  Made(D, c) \in Concept
<1>1. base[c] \in Concept /\ \A r \in D : r \in ProposalOps
  BY DEF PropTyped
<1>2. Lex(D, c) \subseteq Phrases /\ Rel(D, c) \subseteq Concepts \cup Drafts
  BY DEF Lex, Rel, Everything
<1> DEFINE A == [at : Places, weight : Weights, from : SUBSET Owners]
<1>3. base[c].anchors \subseteq A
  BY <1>1 DEF Concept
<1>4. \A r \in D : r.type = "anchor-add" => Anchor(r.at, r.weight) \in A
  BY <1>1, OpsTyped, ProposalAssumption DEF Anchor
<1>5. \A r \in D : r.type = "anchor-adjust" => Anchor(r.nextAt, r.nextWeight) \in A
  BY <1>1, OpsTyped, ProposalAssumption DEF Anchor
<1>6. Anch(D, c) \subseteq A
  <2> HIDE DEF A
  <2> QED
    BY <1>3, <1>4, <1>5 DEF Anch
<1> QED
  BY <1>2, <1>6 DEF Made, Concept

\* What it makes of a draft.
DraftOf(M) == IF M = {} THEN Absent ELSE Created(CHOOSE d \in M : TRUE)

LEMMA DraftIs ==
  ASSUME NEW D, NEW c \in Drafts
  PROVE  Declared(D, c) = DraftOf({r \in D : r.on = c})
BY DEF Declared, DraftOf

\* An operation touches its own concept only.
LEMMA Elsewhere ==
  ASSUME PropTyped, NEW D \in SUBSET ops, NEW o \in ops, NEW c \in Everything, c # o.on
  PROVE  Declared(D \cup {o}, c) = Declared(D, c)
<1>1. {r \in D \cup {o} : r.on = c} = {r \in D : r.on = c}
  OBVIOUS
<1>2. CASE c \in Drafts
  BY <1>1, <1>2, DraftIs
<1>3. CASE c \in Concepts
  <2>1. Lex(D \cup {o}, c) = Lex(D, c) /\ Rel(D \cup {o}, c) = Rel(D, c)
    BY DEF Lex, Rel
  <2>2. Anch(D \cup {o}, c) = Anch(D, c)
    <3>1. \A t : {r \in D \cup {o} : r.on = c /\ r.type = t} = {r \in D : r.on = c /\ r.type = t}
      OBVIOUS
    <3>2. {a \in base[c].anchors : ~\E r \in D \cup {o} : r.on = c /\ a.at \in Loses(r)}
            = {a \in base[c].anchors : ~\E r \in D : r.on = c /\ a.at \in Loses(r)}
      OBVIOUS
    <3> QED
      BY <3>1, <3>2 DEF Anch
  <2>3. Declared(D, c) = Made(D, c) /\ Declared(D \cup {o}, c) = Made(D \cup {o}, c)
    BY <1>3, DeclaredIs
  <2> QED
    BY <2>1, <2>2, <2>3 DEF Made
<1> QED
  BY <1>2, <1>3 DEF Everything

\* One operation more, by what it is about.
LEMMA OneMorePhrase ==
  ASSUME PropTyped, OpsAgree, NEW D \in SUBSET ops, NEW o \in ops, o \notin D
  PROVE  LET c == o.on IN
         /\ o.type = "phrase-add" =>
              o.phrase \notin Lex(D, c) /\ Lex(D \cup {o}, c) = Lex(D, c) \cup {o.phrase}
         /\ o.type = "phrase-remove" =>
              o.phrase \in Lex(D, c) /\ Lex(D \cup {o}, c) = Lex(D, c) \ {o.phrase}
         /\ o.type \notin {"phrase-add", "phrase-remove"} => Lex(D \cup {o}, c) = Lex(D, c)
<1>1. o \in ProposalOps /\ Sound(o)
  BY DEF PropTyped, OpsAgree
<1>2. o.type \in {"phrase-add", "phrase-remove"} =>
        o.phrase \in Phrases
        /\ \A r \in D : r.on = o.on /\ r.type \in {"phrase-add", "phrase-remove"} => r.phrase # o.phrase
  BY <1>1, OpsTyped DEF OpsAgree, Distinct
<1>3. CASE o.type = "phrase-add"
  BY <1>1, <1>2, <1>3 DEF Lex, Sound
<1>4. CASE o.type = "phrase-remove"
  BY <1>1, <1>2, <1>4 DEF Lex, Sound
<1>5. CASE o.type \notin {"phrase-add", "phrase-remove"}
  BY <1>5 DEF Lex
<1> QED
  BY <1>3, <1>4, <1>5

LEMMA OneMoreRelation ==
  ASSUME PropTyped, OpsAgree, NEW D \in SUBSET ops, NEW o \in ops, o \notin D
  PROVE  LET c == o.on IN
         /\ o.type = "related-add" =>
              o.to \notin Rel(D, c) /\ Rel(D \cup {o}, c) = Rel(D, c) \cup {o.to}
         /\ o.type = "related-remove" =>
              o.to \in Rel(D, c) /\ Rel(D \cup {o}, c) = Rel(D, c) \ {o.to}
         /\ o.type \notin {"related-add", "related-remove"} => Rel(D \cup {o}, c) = Rel(D, c)
<1>1. o \in ProposalOps /\ Sound(o)
  BY DEF PropTyped, OpsAgree
<1>2. o.type \in {"related-add", "related-remove"} =>
        o.to \in Everything
        /\ \A r \in D : r.on = o.on /\ r.type \in {"related-add", "related-remove"} => r.to # o.to
  BY <1>1, OpsTyped DEF OpsAgree, Distinct, Everything
<1>3. CASE o.type = "related-add"
  BY <1>1, <1>2, <1>3 DEF Rel, Sound
<1>4. CASE o.type = "related-remove"
  BY <1>1, <1>2, <1>4 DEF Rel, Sound
<1>5. CASE o.type \notin {"related-add", "related-remove"}
  BY <1>5 DEF Rel
<1> QED
  BY <1>3, <1>4, <1>5

\* The anchors of a concept at a place that an operation takes or gives.
LEMMA AnchorsAt ==
  ASSUME PropTyped, OpsAgree, NEW D \in SUBSET ops, NEW o \in ops, o \notin D
  PROVE  /\ \A a \in Anch(D, o.on) : a.at \notin Gains(o) \ Loses(o)
         /\ \A x \in Loses(o), a \in Anch(D, o.on) : a.at = x => a \in base[o.on].anchors
         /\ \A x \in Loses(o), a \in base[o.on].anchors : a.at = x => a \in Anch(D, o.on)
<1>1. \A r \in D : r.on = o.on => /\ Gains(o) \cap Gains(r) = {} /\ Loses(o) \cap Loses(r) = {}
                                  /\ Gains(o) \cap Loses(r) = {} /\ Gains(r) \cap Loses(o) = {}
  BY DEF OpsAgree, Distinct
<1>2. \A a \in Anch(D, o.on) : \/ a \in base[o.on].anchors
                               \/ \E r \in D : r.on = o.on /\ a.at \in Gains(r)
  BY DEF Anch, Anchor, Gains
<1>3. ASSUME NEW a \in Anch(D, o.on), a.at \in Gains(o) \ Loses(o) PROVE FALSE
  <2>1. o.type = "anchor-add" \/ o.type = "anchor-adjust"
    BY <1>3 DEF Gains
  <2>2. \A b \in base[o.on].anchors : b.at # a.at
    BY <1>3, <2>1 DEF Gains, Loses, OpsAgree, Sound
  <2> QED
    BY <1>1, <1>2, <1>3, <2>2
<1>4. ASSUME NEW x \in Loses(o), NEW a \in Anch(D, o.on), a.at = x PROVE a \in base[o.on].anchors
  BY <1>1, <1>2, <1>4
<1>5. ASSUME NEW x \in Loses(o), NEW a \in base[o.on].anchors, a.at = x PROVE a \in Anch(D, o.on)
  BY <1>1, <1>5 DEF Anch
<1> QED
  BY <1>3, <1>4, <1>5

\* The anchors D leaves of the sources, and those it brings.
Kept(D, c) == {a \in base[c].anchors : ~\E r \in D : r.on = c /\ a.at \in Loses(r)}
Brought(D, c) ==
  {Anchor(r.at, r.weight) : r \in {r \in D : r.on = c /\ r.type = "anchor-add"}}
  \cup {Anchor(r.nextAt, r.nextWeight) : r \in {r \in D : r.on = c /\ r.type = "anchor-adjust"}}

LEMMA AnchIs == \A D, c : Anch(D, c) = Kept(D, c) \cup Brought(D, c)
BY DEF Anch, Kept, Brought

LEMMA OneMoreKept ==
  ASSUME NEW D, NEW o
  PROVE  /\ \A x : o.type \in {"anchor-remove", "anchor-adjust"} /\ x = o.at =>
               Kept(D \cup {o}, o.on) = {a \in Kept(D, o.on) : a.at # x}
         /\ o.type \notin {"anchor-remove", "anchor-adjust"} => Kept(D \cup {o}, o.on) = Kept(D, o.on)
BY DEF Kept, Loses

LEMMA OneMoreBrought ==
  ASSUME NEW D, NEW o
  PROVE  /\ o.type = "anchor-add" =>
               Brought(D \cup {o}, o.on) = Brought(D, o.on) \cup {Anchor(o.at, o.weight)}
         /\ o.type = "anchor-adjust" =>
               Brought(D \cup {o}, o.on) = Brought(D, o.on) \cup {Anchor(o.nextAt, o.nextWeight)}
         /\ o.type \notin {"anchor-add", "anchor-adjust"} => Brought(D \cup {o}, o.on) = Brought(D, o.on)
<1> DEFINE T(E, t) == {r \in E : r.on = o.on /\ r.type = t}
           Adds(E) == {Anchor(r.at, r.weight) : r \in E}
           Moves(E) == {Anchor(r.nextAt, r.nextWeight) : r \in E}
<1>1. \A t : T(D \cup {o}, t) = IF o.type = t THEN T(D, t) \cup {o} ELSE T(D, t)
  OBVIOUS
<1>2. \A E : Brought(E, o.on) = Adds(T(E, "anchor-add")) \cup Moves(T(E, "anchor-adjust"))
  BY DEF Brought
<1>6. /\ \A E : Adds(E \cup {o}) = Adds(E) \cup {Anchor(o.at, o.weight)}
      /\ \A E : Moves(E \cup {o}) = Moves(E) \cup {Anchor(o.nextAt, o.nextWeight)}
  OBVIOUS
<1>7. \A X, Y, Z : /\ (X \cup Y) \cup Z = (X \cup Z) \cup Y
                    /\ X \cup (Y \cup Z) = (X \cup Y) \cup Z
  OBVIOUS
<1> HIDE DEF T, Adds, Moves
<1>3. CASE o.type = "anchor-add"
  <2>1. /\ T(D \cup {o}, "anchor-add") = T(D, "anchor-add") \cup {o}
        /\ T(D \cup {o}, "anchor-adjust") = T(D, "anchor-adjust")
    BY <1>1, <1>3
  <2>2. Brought(D \cup {o}, o.on)
          = (Adds(T(D, "anchor-add")) \cup {Anchor(o.at, o.weight)}) \cup Moves(T(D, "anchor-adjust"))
    BY <1>2, <1>6, <2>1, Zenon
  <2>3. Brought(D \cup {o}, o.on) = Brought(D, o.on) \cup {Anchor(o.at, o.weight)}
    BY <1>2, <1>7, <2>2, Zenon
  <2> QED
    BY <1>3, <2>3
<1>4. CASE o.type = "anchor-adjust"
  <2>1. /\ T(D \cup {o}, "anchor-add") = T(D, "anchor-add")
        /\ T(D \cup {o}, "anchor-adjust") = T(D, "anchor-adjust") \cup {o}
    BY <1>1, <1>4
  <2>4. Moves(T(D \cup {o}, "anchor-adjust"))
          = Moves(T(D, "anchor-adjust")) \cup {Anchor(o.nextAt, o.nextWeight)}
    BY <1>6, <2>1, Zenon
  <2>2. Brought(D \cup {o}, o.on)
          = Adds(T(D, "anchor-add")) \cup (Moves(T(D, "anchor-adjust")) \cup {Anchor(o.nextAt, o.nextWeight)})
    BY <1>2, <2>1, <2>4, Zenon
  <2>3. Brought(D \cup {o}, o.on) = Brought(D, o.on) \cup {Anchor(o.nextAt, o.nextWeight)}
    BY <1>2, <1>7, <2>2, Zenon
  <2> QED
    BY <1>4, <2>3
<1>5. CASE o.type \notin {"anchor-add", "anchor-adjust"}
  <2>1. /\ T(D \cup {o}, "anchor-add") = T(D, "anchor-add")
        /\ T(D \cup {o}, "anchor-adjust") = T(D, "anchor-adjust")
    BY <1>1, <1>5
  <2> QED
    BY <1>2, <1>5, <2>1
<1> QED
  BY <1>3, <1>4, <1>5

LEMMA BroughtAt ==
  ASSUME PropTyped, OpsAgree, NEW D \in SUBSET ops, NEW o \in ops, o \notin D,
         NEW a \in Brought(D, o.on)
  PROVE  a.at \notin Loses(o) /\ a.at \notin Gains(o)
<1>1. PICK r \in D : r.on = o.on /\ a.at \in Gains(r)
  BY DEF Brought, Anchor, Gains
<1> QED
  BY <1>1 DEF OpsAgree, Distinct

LEMMA OneMoreAnchor ==
  ASSUME PropTyped, OpsAgree, NEW D \in SUBSET ops, NEW o \in ops, o \notin D
  PROVE  LET A == Anch(D, o.on)
             B == Anch(D \cup {o}, o.on)
         IN
         /\ o.type = "anchor-add" =>
              (\A a \in A : a.at # o.at) /\ B = A \cup {Anchor(o.at, o.weight)}
         /\ o.type \in {"anchor-remove", "anchor-adjust"} =>
              \E e \in A : /\ e.at = o.at /\ e.from = {"editorial"} /\ \A a \in A : a.at = o.at => a = e
                           /\ o.type = "anchor-adjust" => e.weight = o.weight
         /\ o.type = "anchor-remove" => B = {a \in A : a.at # o.at}
         /\ o.type = "anchor-adjust" =>
              /\ o.nextAt # o.at => \A a \in A : a.at # o.nextAt
              /\ B = {a \in A : a.at # o.at} \cup {Anchor(o.nextAt, o.nextWeight)}
         /\ o.type \notin {"anchor-add", "anchor-remove", "anchor-adjust"} => B = A
<1> DEFINE A == Anch(D, o.on)
           B == Anch(D \cup {o}, o.on)
<1>1. o \in ProposalOps /\ Sound(o)
  BY DEF PropTyped, OpsAgree
<1>2. \A a \in A : \/ a \in base[o.on].anchors
                   \/ a \in Brought(D, o.on)
  BY AnchIs DEF Kept
<1>3. CASE o.type = "anchor-add"
  <2>1. \A a \in A : a.at # o.at
    BY <1>3, AnchorsAt DEF Gains, Loses
  <2>2. Kept(D \cup {o}, o.on) = Kept(D, o.on)
    BY <1>3, OneMoreKept
  <2>3. Brought(D \cup {o}, o.on) = Brought(D, o.on) \cup {Anchor(o.at, o.weight)}
    BY <1>3, OneMoreBrought
  <2> QED
    BY <1>3, <2>1, <2>2, <2>3, AnchIs
<1>9. o.type \in {"anchor-remove", "anchor-adjust"} =>
        Kept(D \cup {o}, o.on) = {a \in Kept(D, o.on) : a.at # o.at}
  <2>1. \A x : o.type \in {"anchor-remove", "anchor-adjust"} /\ x = o.at =>
               Kept(D \cup {o}, o.on) = {a \in Kept(D, o.on) : a.at # x}
    BY OneMoreKept, Zenon
  <2> QED
    BY <2>1, Zenon
<1>4. ASSUME o.type \in {"anchor-remove", "anchor-adjust"}
      PROVE  /\ \E e \in A : /\ e.at = o.at /\ e.from = {"editorial"} /\ \A a \in A : a.at = o.at => a = e
                             /\ o.type = "anchor-adjust" => e.weight = o.weight
             /\ Kept(D \cup {o}, o.on) \cup Brought(D, o.on) = {a \in A : a.at # o.at}
  <2>1. PICK e \in base[o.on].anchors :
          e.at = o.at /\ e.from = {"editorial"} /\ (o.type = "anchor-adjust" => e.weight = o.weight)
    BY <1>1, <1>4 DEF Sound
  <2>2. o.at \in Loses(o) /\ o.on \in Concepts
    BY <1>1, <1>4, OpsTyped DEF Loses
  <2>3. e \in A
    BY <2>1, <2>2, AnchorsAt
  <2>4. ASSUME NEW a \in A, a.at = o.at PROVE a = e
    <3>1. a \in base[o.on].anchors
      BY <2>2, <2>4, AnchorsAt
    <3> QED
      BY <2>1, <2>2, <2>4, <3>1 DEF PropTyped
  <2>5. \A a \in Brought(D, o.on) : a.at # o.at
    BY <2>2, BroughtAt
  <2>6. Kept(D \cup {o}, o.on) = {a \in Kept(D, o.on) : a.at # o.at}
    BY <1>4, <1>9, Zenon
  <2>7. Kept(D \cup {o}, o.on) \cup Brought(D, o.on) = {a \in A : a.at # o.at}
    BY <2>5, <2>6, AnchIs
  <2> QED
    BY <2>1, <2>3, <2>4, <2>7
<1>5. CASE o.type = "anchor-remove"
  <2>1. Brought(D \cup {o}, o.on) = Brought(D, o.on)
    BY <1>5, OneMoreBrought
  <2>2. B = {a \in A : a.at # o.at}
    BY <1>4, <1>5, <2>1, AnchIs
  <2> QED
    BY <1>4, <1>5, <2>2
<1>6. CASE o.type = "anchor-adjust"
  <2>1. Brought(D \cup {o}, o.on) = Brought(D, o.on) \cup {Anchor(o.nextAt, o.nextWeight)}
    BY <1>6, OneMoreBrought
  <2>2. B = (Kept(D \cup {o}, o.on) \cup Brought(D, o.on)) \cup {Anchor(o.nextAt, o.nextWeight)}
    BY <2>1, AnchIs
  <2>3. B = {a \in A : a.at # o.at} \cup {Anchor(o.nextAt, o.nextWeight)}
    BY <1>4, <1>6, <2>2
  <2>4. o.nextAt # o.at => \A a \in A : a.at # o.nextAt
    BY <1>6, AnchorsAt DEF Gains, Loses
  <2> QED
    BY <1>4, <1>6, <2>3, <2>4
<1>7. CASE o.type \notin {"anchor-add", "anchor-remove", "anchor-adjust"}
  <2>1. Kept(D \cup {o}, o.on) = Kept(D, o.on) /\ Brought(D \cup {o}, o.on) = Brought(D, o.on)
    BY <1>7, OneMoreKept, OneMoreBrought
  <2> QED
    BY <1>7, <2>1, AnchIs
<1> QED
  BY <1>3, <1>5, <1>6, <1>7

-----------------------------------------------------------------------------
(* The two appliers *)

LEMMA AppliesPhrase ==
  ASSUME PropInv, NEW o \in todo, submitted, o.type \in {"phrase-add", "phrase-remove"}
  PROVE  /\ ~PipelineRefuses(o, made) /\ ~YamlRefuses(o, made[o.on])
         /\ PipelineApplies(o, made) = [made EXCEPT ![o.on] = Declared(Applied \cup {o}, o.on)]
         /\ YamlEdited(o, made[o.on]) = Declared(Applied \cup {o}, o.on)
<1> DEFINE D == Applied
           c == o.on
           f == made[c]
<1>1. PropTyped /\ OpsAgree /\ D \in SUBSET ops /\ o \in ops /\ o \notin D /\ o \in ProposalOps
  BY DEF PropInv, PropTyped, Applied
<1>2. c \in Concepts
  BY <1>1, OpsTyped
<1>3. f = Made(D, c) /\ Declared(D \cup {o}, c) = Made(D \cup {o}, c)
  BY <1>1, <1>2, DeclaredIs DEF PropInv, Everything
<1>4. Anch(D \cup {o}, c) = Anch(D, c) /\ Rel(D \cup {o}, c) = Rel(D, c)
  BY <1>1, OneMoreAnchor, OneMoreRelation
<1>5. f # Absent
  BY <1>1, <1>2, <1>3, MadeTyped, OntologyAssumption
<1>6. DOMAIN made = Everything /\ c \in Everything
  BY <1>2 DEF PropInv, Everything
<1> HIDE DEF D, f
<1>7. CASE o.type = "phrase-add"
  <2>1. o.phrase \notin Lex(D, c) /\ Lex(D \cup {o}, c) = Lex(D, c) \cup {o.phrase}
    BY <1>1, <1>7, OneMorePhrase
  <2>2. Declared(D \cup {o}, c) = [f EXCEPT !.lexicon = @ \cup {o.phrase}]
    BY <1>3, <1>4, <2>1 DEF Made
  <2>3. o.phrase \notin f.lexicon
    BY <1>3, <2>1 DEF Made
  <2> QED
    BY <1>5, <1>6, <1>7, <2>2, <2>3 DEF f, PipelineRefuses, YamlRefuses, PipelineApplies, YamlEdited, D
<1>8. CASE o.type = "phrase-remove"
  <2>1. o.phrase \in Lex(D, c) /\ Lex(D \cup {o}, c) = Lex(D, c) \ {o.phrase}
    BY <1>1, <1>8, OneMorePhrase
  <2>2. Declared(D \cup {o}, c) = [f EXCEPT !.lexicon = @ \ {o.phrase}]
    BY <1>3, <1>4, <2>1 DEF Made
  <2>3. o.phrase \in f.lexicon
    BY <1>3, <2>1 DEF Made
  <2> QED
    BY <1>5, <1>6, <1>8, <2>2, <2>3 DEF f, PipelineRefuses, YamlRefuses, PipelineApplies, YamlEdited, D
<1> QED
  BY <1>7, <1>8

LEMMA AppliesRelation ==
  ASSUME PropInv, NEW o \in todo, submitted, o.type \in {"related-add", "related-remove"}
  PROVE  /\ ~PipelineRefuses(o, made) /\ ~YamlRefuses(o, made[o.on])
         /\ PipelineApplies(o, made) = [made EXCEPT ![o.on] = Declared(Applied \cup {o}, o.on)]
         /\ YamlEdited(o, made[o.on]) = Declared(Applied \cup {o}, o.on)
<1> DEFINE D == Applied
           c == o.on
           f == made[c]
<1>1. PropTyped /\ OpsAgree /\ D \in SUBSET ops /\ o \in ops /\ o \notin D /\ o \in ProposalOps
  BY DEF PropInv, PropTyped, Applied
<1>2. c \in Concepts /\ o.on # o.to
  BY <1>1, OpsTyped DEF OpsAgree, Sound
<1>3. f = Made(D, c) /\ Declared(D \cup {o}, c) = Made(D \cup {o}, c)
  BY <1>1, <1>2, DeclaredIs DEF PropInv, Everything
<1>4. Anch(D \cup {o}, c) = Anch(D, c) /\ Lex(D \cup {o}, c) = Lex(D, c)
  BY <1>1, OneMoreAnchor, OneMorePhrase
<1>5. f # Absent
  BY <1>1, <1>2, <1>3, MadeTyped, OntologyAssumption
<1>6. DOMAIN made = Everything /\ c \in Everything
  BY <1>2 DEF PropInv, Everything
<1> HIDE DEF D, f
<1>7. CASE o.type = "related-add"
  <2>1. o.to \notin Rel(D, c) /\ Rel(D \cup {o}, c) = Rel(D, c) \cup {o.to}
    BY <1>1, <1>7, OneMoreRelation
  <2>2. Declared(D \cup {o}, c) = [f EXCEPT !.related = @ \cup {o.to}]
    BY <1>3, <1>4, <2>1 DEF Made
  <2>3. o.to \notin f.related
    BY <1>3, <2>1 DEF Made
  <2> QED
    BY <1>2, <1>5, <1>6, <1>7, <2>2, <2>3 DEF f, PipelineRefuses, YamlRefuses, PipelineApplies, YamlEdited, D
<1>8. CASE o.type = "related-remove"
  <2>1. o.to \in Rel(D, c) /\ Rel(D \cup {o}, c) = Rel(D, c) \ {o.to}
    BY <1>1, <1>8, OneMoreRelation
  <2>2. Declared(D \cup {o}, c) = [f EXCEPT !.related = @ \ {o.to}]
    BY <1>3, <1>4, <2>1 DEF Made
  <2>3. o.to \in f.related
    BY <1>3, <2>1 DEF Made
  <2> QED
    BY <1>2, <1>5, <1>6, <1>8, <2>2, <2>3 DEF f, PipelineRefuses, YamlRefuses, PipelineApplies, YamlEdited, D
<1> QED
  BY <1>7, <1>8

LEMMA AppliesAnchor ==
  ASSUME PropInv, NEW o \in todo, submitted, o.type \in {"anchor-add", "anchor-remove", "anchor-adjust"}
  PROVE  /\ ~PipelineRefuses(o, made) /\ ~YamlRefuses(o, made[o.on])
         /\ PipelineApplies(o, made) = [made EXCEPT ![o.on] = Declared(Applied \cup {o}, o.on)]
         /\ YamlEdited(o, made[o.on]) = Declared(Applied \cup {o}, o.on)
<1> DEFINE D == Applied
           c == o.on
           f == made[c]
           A == Anch(D, c)
           B == Anch(D \cup {o}, c)
<1>1. PropTyped /\ OpsAgree /\ D \in SUBSET ops /\ o \in ops /\ o \notin D /\ o \in ProposalOps
  BY DEF PropInv, PropTyped, Applied
<1>2. c \in Concepts
  BY <1>1, OpsTyped
<1>3. f = Made(D, c) /\ Declared(D \cup {o}, c) = Made(D \cup {o}, c)
  BY <1>1, <1>2, DeclaredIs DEF PropInv, Everything
<1>4. Lex(D \cup {o}, c) = Lex(D, c) /\ Rel(D \cup {o}, c) = Rel(D, c)
  BY <1>1, OneMoreRelation, OneMorePhrase
<1>5. f # Absent
  BY <1>1, <1>2, <1>3, MadeTyped, OntologyAssumption
<1>6. DOMAIN made = Everything /\ c \in Everything
  BY <1>2 DEF PropInv, Everything
<1>9. \A a \in A : a = [at |-> a.at, weight |-> a.weight, from |-> a.from]
  <2>1. Made(D, c) \in Concept /\ Made(D, c).anchors = A
    BY <1>1, <1>2, MadeTyped DEF Made
  <2>2. A \subseteq [at : Places, weight : Weights, from : SUBSET Owners]
    BY <2>1 DEF Concept
  <2> QED
    BY <2>2
<1>10. f.anchors = A /\ \A S : B = S => Declared(D \cup {o}, c) = [f EXCEPT !.anchors = S]
  BY <1>3, <1>4 DEF Made
<1>7. CASE o.type = "anchor-add"
  <2>1. (\A a \in A : a.at # o.at) /\ B = A \cup {Anchor(o.at, o.weight)}
    BY <1>1, <1>7, OneMoreAnchor
  <2> HIDE DEF D, f, A, B
  <2>2. Declared(D \cup {o}, c) = [f EXCEPT !.anchors = @ \cup {Anchor(o.at, o.weight)}]
    BY <1>10, <2>1
  <2>3. AnchorMap(f, o.at) = {}
    BY <1>10, <2>1 DEF AnchorMap
  <2>4. ~PipelineRefuses(o, made) /\ ~YamlRefuses(o, f)
    BY <1>5, <1>7, <1>10, <2>1, <2>3 DEF f, PipelineRefuses, YamlRefuses
  <2> QED
    BY <1>6, <1>7, <2>2, <2>4 DEF f, PipelineApplies, YamlEdited, D
<1>8. ASSUME o.type \in {"anchor-remove", "anchor-adjust"}
      PROVE  \E e \in A : /\ e.at = o.at /\ e.from = {"editorial"} /\ (o.type = "anchor-adjust" => e.weight = o.weight)
                          /\ AnchorMap(f, o.at) = {e}
                          /\ {a \in A : a.at # o.at} = A \ {e}
  <2>1. PICK e \in A : /\ e.at = o.at /\ e.from = {"editorial"} /\ \A a \in A : a.at = o.at => a = e
                       /\ o.type = "anchor-adjust" => e.weight = o.weight
    BY <1>1, <1>8, OneMoreAnchor
  <2> HIDE DEF A, f
  <2>2. AnchorMap(f, o.at) = {e} /\ {a \in A : a.at # o.at} = A \ {e}
    BY <1>10, <2>1 DEF AnchorMap
  <2> QED
    BY <2>1, <2>2
<1>11. CASE o.type = "anchor-remove"
  <2>1. B = {a \in A : a.at # o.at}
    BY <1>1, <1>11, OneMoreAnchor
  <2>2. PICK e \in A : /\ e.at = o.at /\ e.from = {"editorial"} /\ (o.type = "anchor-adjust" => e.weight = o.weight)
                       /\ AnchorMap(f, o.at) = {e}
                       /\ {a \in A : a.at # o.at} = A \ {e}
    BY <1>8, <1>11
  <2> HIDE DEF D, f, A, B
  <2>3. /\ Declared(D \cup {o}, c) = [f EXCEPT !.anchors = {a \in @ : a.at # o.at}]
        /\ Declared(D \cup {o}, c) = [f EXCEPT !.anchors = @ \ {e}]
    BY <1>10, <2>1, <2>2
  <2>4. ~PipelineRefuses(o, made) /\ ~YamlRefuses(o, f)
    BY <1>5, <1>10, <1>11, <2>2 DEF f, PipelineRefuses, YamlRefuses
  <2>5. YamlEdited(o, f) = [f EXCEPT !.anchors = @ \ {e}]
    BY <1>11, <2>2 DEF YamlEdited
  <2>6. PipelineApplies(o, made) = [made EXCEPT ![c] = [f EXCEPT !.anchors = {a \in @ : a.at # o.at}]]
    BY <1>6, <1>11 DEF f, PipelineApplies
  <2> QED
    BY <2>3, <2>4, <2>5, <2>6 DEF f, D
<1>12. CASE o.type = "anchor-adjust"
  <2> DEFINE new == Anchor(o.nextAt, o.nextWeight)
  <2>1. /\ o.nextAt # o.at => \A a \in A : a.at # o.nextAt
        /\ B = {a \in A : a.at # o.at} \cup {new}
    BY <1>1, <1>12, OneMoreAnchor
  <2>2. PICK e \in A : /\ e.at = o.at /\ e.from = {"editorial"} /\ (o.type = "anchor-adjust" => e.weight = o.weight)
                       /\ AnchorMap(f, o.at) = {e}
                       /\ {a \in A : a.at # o.at} = A \ {e}
    BY <1>8, <1>12
  <2>3. e = [at |-> o.at, weight |-> o.weight, from |-> {"editorial"}]
    BY <1>9, <1>12, <2>2
  <2> DEFINE m(a) == IF a.at = o.at THEN [a EXCEPT !.at = o.nextAt, !.weight = o.nextWeight] ELSE a
  <2>4. m(e) = new
    BY <2>3 DEF Anchor
  <2>5. \A a \in A : a # e => m(a) = a
    BY <2>2
  <2> HIDE DEF D, f, A, B, m, new
  <2>6. {m(a) : a \in A} = (A \ {e}) \cup {new}
    BY <2>2, <2>4, <2>5
  <2>7. {[at |-> o.nextAt, weight |-> o.nextWeight, from |-> a.from] : a \in AnchorMap(f, o.at)} = {new}
    BY <2>2 DEF Anchor, new
  <2>8. Declared(D \cup {o}, c) = [f EXCEPT !.anchors = (A \ {e}) \cup {new}]
    BY <1>10, <2>1, <2>2
  <2>9. YamlEdited(o, f) = [f EXCEPT !.anchors = (A \ {e}) \cup {new}]
    BY <1>10, <1>12, <2>2, <2>7 DEF YamlEdited
  <2>10. PipelineApplies(o, made) = [made EXCEPT ![c] = [f EXCEPT !.anchors = (A \ {e}) \cup {new}]]
    <3>1. PipelineApplies(o, made) = [made EXCEPT ![c].anchors = {m(a) : a \in @}]
      BY <1>12 DEF PipelineApplies, m
    <3> QED
      BY <1>6, <1>10, <2>6, <3>1 DEF f
  <2>11. ~PipelineRefuses(o, made)
    BY <1>10, <1>12, <2>1, <2>2 DEF f, PipelineRefuses
  <2>12. o.nextAt # o.at => AnchorMap(f, o.nextAt) = {}
    BY <1>10, <2>1 DEF AnchorMap
  <2>13. ~YamlRefuses(o, f)
    BY <1>5, <1>12, <2>2, <2>12 DEF YamlRefuses
  <2> QED
    BY <2>8, <2>9, <2>10, <2>11, <2>13 DEF f, D
<1> QED
  BY <1>7, <1>11, <1>12

LEMMA AppliesDraft ==
  ASSUME PropInv, NEW o \in todo, submitted, o.type = "draft"
  PROVE  /\ ~PipelineRefuses(o, made) /\ ~YamlRefuses(o, made[o.on])
         /\ PipelineApplies(o, made) = [made EXCEPT ![o.on] = Declared(Applied \cup {o}, o.on)]
         /\ YamlEdited(o, made[o.on]) = Declared(Applied \cup {o}, o.on)
<1> DEFINE D == Applied
<1>1. PropTyped /\ OpsAgree /\ D \in SUBSET ops /\ o \in ops /\ o \notin D /\ o \in ProposalOps
  BY DEF PropInv, PropTyped, Applied
<1>2. o.on \in Drafts /\ o.on \in Everything
  BY <1>1, OpsTyped DEF Everything
<1>3. \A r \in D : r.on # o.on
  <2> SUFFICES ASSUME NEW r \in D, r.on = o.on PROVE FALSE
    OBVIOUS
  <2>1. r \in ProposalOps /\ r # o /\ r \in ops
    BY <1>1 DEF PropTyped
  <2>2. r.type = "draft"
    BY <1>2, <2>1, OpsTyped, ProposalAssumption
  <2> QED
    BY <1>1, <2>1, <2>2 DEF OpsAgree, Distinct
<1>4. {r \in D : r.on = o.on} = {} /\ {r \in D \cup {o} : r.on = o.on} = {o}
  BY <1>3
<1>5. Declared(D, o.on) = Absent /\ Declared(D \cup {o}, o.on) = Created(o)
  BY <1>2, <1>4, DraftIs DEF DraftOf
<1>6. made[o.on] = Absent
  BY <1>2, <1>5 DEF PropInv
<1> QED
  BY <1>5, <1>6 DEF PipelineRefuses, YamlRefuses, PipelineApplies, YamlEdited

LEMMA ApplyKeeps == ASSUME PropInv, Apply PROVE PropInv'
<1>1. PICK o \in todo :
        /\ todo' = todo \ {o}
        /\ refused' = (IF PipelineRefuses(o, made) THEN {"pipeline"} ELSE {})
                      \cup (IF YamlRefuses(o, yaml[o.on]) THEN {"workbench"} ELSE {})
        /\ made' = (IF "pipeline" \in refused' THEN made ELSE PipelineApplies(o, made))
        /\ yaml' = (IF "workbench" \in refused' THEN yaml ELSE [yaml EXCEPT ![o.on] = YamlEdited(o, @)])
  BY DEF Apply
<1>2. submitted /\ UNCHANGED <<base, ops, submitted>>
  BY DEF Apply
<1> DEFINE D == Applied
<1>3. PropTyped /\ OpsAgree /\ D \in SUBSET ops /\ o \in ops /\ o \notin D /\ o \in ProposalOps
  BY <1>2 DEF PropInv, PropTyped, Applied
<1>4. made = yaml /\ made = [c \in Everything |-> Declared(D, c)]
  BY DEF PropInv
<1>5. /\ ~PipelineRefuses(o, made) /\ ~YamlRefuses(o, made[o.on])
      /\ PipelineApplies(o, made) = [made EXCEPT ![o.on] = Declared(D \cup {o}, o.on)]
      /\ YamlEdited(o, made[o.on]) = Declared(D \cup {o}, o.on)
  BY <1>2, <1>3, OpsTyped, AppliesPhrase, AppliesRelation, AppliesAnchor, AppliesDraft
<1>6. refused' = {}
  BY <1>1, <1>4, <1>5
<1>7. /\ made' = [made EXCEPT ![o.on] = Declared(D \cup {o}, o.on)]
      /\ yaml' = made'
  BY <1>1, <1>4, <1>5, <1>6
<1>8. Applied' = D \cup {o}
  BY <1>1, <1>2, <1>3 DEF Applied, PropInv, PropTyped
<1>9. \A E, c : Declared(E, c)' = Declared(E', c)
  BY <1>2 DEF Declared
<1>10. made' = [c \in Everything |-> Declared(D \cup {o}, c)]
  <2> HIDE DEF D
  <2>1. \A c \in Everything : c # o.on => Declared(D \cup {o}, c) = Declared(D, c)
    BY <1>3, Elsewhere
  <2> QED
    BY <1>4, <1>7, <2>1
<1>11. PropTyped' /\ OpsAgree'
  <2>1. \A r : Sound(r)' = Sound(r)
    BY <1>2 DEF Sound
  <2> QED
    BY <1>1, <1>2, <2>1 DEF PropInv, PropTyped, OpsAgree
<1>12. [c \in Everything |-> Declared(Applied, c)]' = [c \in Everything |-> Declared(D \cup {o}, c)]
  BY <1>2, <1>8 DEF Declared
<1> QED
  BY <1>6, <1>7, <1>10, <1>11, <1>12 DEF PropInv

LEMMA PropInductive == PropInv /\ [PropNext]_propVars => PropInv'
<1>1. ASSUME PropInv, UNCHANGED propVars PROVE PropInv'
  <2>1. UNCHANGED <<base, ops, todo, submitted, made, yaml, refused>>
    BY <1>1 DEF propVars
  <2>2. PropTyped' /\ OpsAgree'
    <3>1. \A r : Sound(r)' = Sound(r)
      BY <2>1 DEF Sound
    <3> QED
      BY <1>1, <2>1, <3>1 DEF PropInv, PropTyped, OpsAgree
  <2>3. [c \in Everything |-> Declared(Applied, c)]' = [c \in Everything |-> Declared(Applied, c)]
    BY <2>1 DEF Applied, Declared
  <2> QED
    BY <1>1, <2>1, <2>2, <2>3 DEF PropInv
<1> QED
  BY <1>1, DeclareKeeps, SubmitKeeps, ApplyKeeps DEF PropNext

LEMMA PropInvHolds == PropInv => AppliedAsReviewed
BY DEF PropInv, AppliedAsReviewed, NeitherRefuses, MeasuredIsAdmitted, Applied, Everything

LEMMA PropInvTyped == PropInv => PropTypeOK
<1> SUFFICES ASSUME PropInv PROVE PropTypeOK
  OBVIOUS
<1>1. PropTyped /\ Applied \in SUBSET ops
  BY DEF PropInv, PropTyped, Applied
<1>2. \A c \in Concepts : Declared(Applied, c) \in Concept
  BY <1>1, DeclaredIs, MadeTyped
<1>3. ASSUME NEW c \in Drafts PROVE Declared(Applied, c) \in Concept \cup {Absent}
  <2> DEFINE M == {r \in Applied : r.on = c}
  <2>1. CASE M = {}
    BY <2>1, DraftIs DEF DraftOf
  <2>2. CASE M # {}
    <3> DEFINE d == CHOOSE d \in M : TRUE
    <3>1. d \in M
      BY <2>2
    <3>2. d \in ProposalOps /\ d.on = c
      BY <1>1, <3>1 DEF PropTyped
    <3> HIDE DEF d
    <3>3. d.type = "draft"
      BY <3>2, OpsTyped, ProposalAssumption
    <3>4. d.phrase \in Phrases /\ d.at \in Places /\ d.weight \in Weights /\ d.to \in Concepts \cup Drafts
      BY <3>2, <3>3, OpsTyped DEF Everything
    <3>5. Created(d) \in Concept
      BY <3>4, ProposalAssumption DEF Created, Anchor, Concept
    <3>6. Declared(Applied, c) = Created(d)
      BY <2>2, DraftIs DEF DraftOf, d
    <3> QED
      BY <3>5, <3>6
  <2> QED
    BY <2>1, <2>2
<1>4. made \in [Concepts \cup Drafts -> Concept \cup {Absent}]
  BY <1>2, <1>3 DEF PropInv, Everything
<1> QED
  BY <1>1, <1>4 DEF PropInv, PropTyped, PropTypeOK

\* Whatever the reviewed sources and whatever a proposal declares that is let pass: neither
\* applier refuses any of it, in no order, at every step the candidate that is measured and
\* the files agree, and at the end both are what was declared (proposals.ts, applyProposal
\* of buildCandidate.ts, structuredYaml.ts).
THEOREM ProposalsApplyAsReviewed == PropSpec => []AppliedAsReviewed
BY PropInitInv, PropInductive, PropInvHolds, PTL DEF PropSpec

\* The candidate and the files hold concepts, and what is applied is what was declared.
THEOREM ProposalTypeCorrect == PropSpec => []PropTypeOK
BY PropInitInv, PropInductive, PropInvTyped, PTL DEF PropSpec

-----------------------------------------------------------------------------
(* Judgments compiled to fixtures *)

\* What a file of the fixtures is.
Filed(g) == g \in {NoFile, HandWritten} \/ (g = Generated(g.asserts, g.active) /\ g.active \in BOOLEAN)

\* What is written at a slug comes from a look at the file that is replaced: it is nothing
\* a person wrote, and what takes its place is active as a promotion of the same
\* assertions left it.
Looked(new, old) ==
  /\ old.kind # "hand"
  /\ new.kind = "generated" =>
       new.active = (old.kind = "generated" /\ old.active /\ old.asserts = new.asserts)

\* What a plan would write comes from a whole log, and it leaves no fixture of the
\* workbench that has become empty.
FromLog(L, there, after) ==
  LET E == Effective(L)
      F == Fixtures(E)
  IN /\ Compiles(E) /\ DOMAIN after \subseteq DOMAIN F
     /\ \A s \in DOMAIN F :
          IF Empty(F[s])
          THEN IF s \in DOMAIN after THEN after[s] = NoFile ELSE there[s].kind # "generated"
          ELSE s \in DOMAIN after /\ \E b \in BOOLEAN : after[s] = Generated(F[s], b)

\* The chapters a plan needs in the corpus.
Needed(after) ==
  {Chapter[v] : v \in UNION {Mentioned(after[s].asserts) : s \in {s \in DOMAIN after : after[s] # NoFile}}}

FilesTyped ==
  /\ log \in Seq([vote : Votes, supersedes : Nat])
  /\ DOMAIN golden = Slugs /\ \A s \in Slugs : Filed(golden[s])
  /\ DOMAIN promoted = Slugs

PlanTyped ==
  plan # NoPlan =>
    /\ plan.at \in {"observed", "compiled", "checked"}
    /\ plan.at # "checked" => plan.inputs.judgments \in Nat /\ plan.inputs.judgments <= Len(log)
    /\ plan.at = "compiled" =>
         /\ plan = [at |-> "compiled", for |-> plan.for, inputs |-> plan.inputs, after |-> plan.after,
                    edited |-> plan.edited]
         /\ DOMAIN plan.after \subseteq Slugs
    /\ plan.at = "checked" =>
         /\ plan.ops.inputs.judgments \in Nat /\ plan.ops.inputs.judgments <= Len(log)
         /\ DOMAIN plan.ops.after \subseteq Slugs /\ DOMAIN plan.ops.before = DOMAIN plan.ops.after

\* The plan that is made, if nothing came in since it began.
PlanFromLog ==
  plan # NoPlan =>
    /\ plan.at = "compiled" /\ plan.inputs.judgments = Len(log) => FromLog(log, golden, plan.after)
    /\ plan.at = "checked" /\ plan.ops.inputs.judgments = Len(log) =>
         FromLog(log, golden, plan.ops.after) /\ Needed(plan.ops.after) \subseteq plan.ops.sampled

\* The plan that is made, where nobody edited.
PlanLooked ==
  plan # NoPlan =>
    /\ plan.at = "compiled" => \A s \in DOMAIN plan.after \ plan.edited : Looked(plan.after[s], golden[s])
    /\ plan.at = "checked" =>
         \A s \in DOMAIN plan.ops.after \ plan.edited : Looked(plan.ops.after[s], plan.ops.before[s])

\* The plan on the screen.
ReviewLooked ==
  /\ plan # NoPlan /\ plan.for = "apply" => reviewed # NoPlan
  /\ reviewed # NoPlan =>
       \A s \in DOMAIN reviewed.plan.after \ reviewed.edited :
         Looked(reviewed.plan.after[s], reviewed.plan.before[s])

\* A promotion is of what the file asserts.
PromotionsStand ==
  \A s \in Slugs : promoted[s] # NoPlan => golden[s].kind = "generated" /\ golden[s].asserts = promoted[s]

PlansHold == PlanTyped /\ PlanFromLog /\ PlanLooked /\ ReviewLooked
FilesHold == FilesTyped /\ PromotionsStand /\ PeopleRespected /\ NoContradiction /\ CompiledWhole
CompInv == PlansHold /\ FilesHold

LEMMA KindsApart ==
  /\ NoFile.kind = "none" /\ HandWritten.kind = "hand" /\ \A a, b : Generated(a, b).kind = "generated"
  /\ \A a, b : Generated(a, b) # NoFile /\ Generated(a, b).asserts = a /\ Generated(a, b).active = b
BY DEF NoFile, HandWritten, Generated

LEMMA Effectual ==
  ASSUME FilesTyped
  PROVE  /\ Effective(log) \subseteq Votes
         /\ DOMAIN Fixtures(Effective(log)) \subseteq Slugs
         /\ \A s \in DOMAIN Fixtures(Effective(log)) :
              \E q \in Asked(Effective(log)) : Fixtures(Effective(log))[s] = Fixture(OfQuery(q, Effective(log)))
<1> DEFINE E == Effective(log)
<1>1. \A i \in DOMAIN log : log[i].vote \in Votes
  <2>1. log \in Seq([vote : Votes, supersedes : Nat]) /\ DOMAIN log = 1..Len(log)
    BY DEF FilesTyped
  <2>2. \A i \in DOMAIN log : log[i] \in [vote : Votes, supersedes : Nat]
    BY <2>1, ElementOfSeq
  <2> QED
    BY <2>2
<1>2. E \subseteq Votes
  BY <1>1 DEF Effective
<1> HIDE DEF E
<1>3. DOMAIN Fixtures(E) = {SlugOf[q] : q \in Asked(E)}
  BY DEF Fixtures
<1>4. DOMAIN Fixtures(E) \subseteq Slugs
  BY <1>2, <1>3, VotesAssumption DEF Asked, Slugs
<1>5. ASSUME NEW s \in DOMAIN Fixtures(E)
      PROVE  \E q \in Asked(E) : Fixtures(E)[s] = Fixture(OfQuery(q, E))
  <2> DEFINE q == CHOOSE q \in Asked(E) : SlugOf[q] = s
  <2>1. \E p \in Asked(E) : SlugOf[p] = s
    BY <1>3, <1>5
  <2>2. q \in Asked(E)
    BY <2>1
  <2>3. Fixtures(E)[s] = Fixture(OfQuery(q, E))
    BY <1>3, <1>5 DEF Fixtures
  <2> QED
    BY <2>2, <2>3
<1> QED
  BY <1>2, <1>4, <1>5 DEF E

\* A fixture that compiles from consistent judgments does not contradict itself.
Agreed(a) ==
  /\ \A x \in a.expected, b \in a.banned : ~Overlap(x.on, b.on)
  /\ \A x, y \in a.expected : Overlap(x.on, y.on) => x = y
  /\ \A p, r \in a.order : ~(p.above = r.below /\ p.below = r.above)

LEMMA ConsistentAgrees ==
  ASSUME NEW E, Consistent(E)
  PROVE  Agreed(Fixture(E))
<1> DEFINE X == Expecting(E)
           At(on) == {x \in X : x.on = on}
           Wide(x) == IF \A y \in At(x.on) : y.window = 0 THEN 0 ELSE Window(x)
           Known(on) == IF \A y \in At(on) : y.family = "" THEN ""
                        ELSE (CHOOSE y \in At(on) : y.family # "").family
           Merged(x) == [on |-> x.on, window |-> Wide(x), family |-> Known(x.on)]
<1>1. /\ Fixture(E).expected = {Merged(x) : x \in X}
      /\ Fixture(E).banned = Banning(E) /\ Fixture(E).order = Preferring(E)
  BY DEF Fixture
<1>2. \A x, y \in X : x.on = y.on => Window(x) = Window(y)
  BY DEF Consistent
<1>3. \A x, y \in X : x.on = y.on => Wide(x) = Wide(y)
  BY <1>2
<1> HIDE DEF X, Wide, Known
<1>4. \A x, y \in X : x.on = y.on => Merged(x) = Merged(y)
  BY <1>3
<1>5. \A x, y \in X : x.on = y.on \/ ~Overlap(x.on, y.on)
  BY DEF Consistent, Apart, X
<1>6. \A x \in X, b \in Banning(E) : ~Overlap(x.on, b.on)
  BY DEF Consistent, X
<1>7. \A p, r \in Preferring(E) : ~(p.above = r.below /\ p.below = r.above)
  BY DEF Consistent
<1>8. \A x : Merged(x).on = x.on
  OBVIOUS
<1> HIDE DEF Merged
<1>9. \A x \in Fixture(E).expected, b \in Fixture(E).banned : ~Overlap(x.on, b.on)
  BY <1>1, <1>6, <1>8
<1>10. \A x, y \in Fixture(E).expected : Overlap(x.on, y.on) => x = y
  BY <1>1, <1>4, <1>5, <1>8
<1> QED
  BY <1>1, <1>7, <1>9, <1>10 DEF Agreed

LEMMA CompilerInitInv == CompilerInit => CompInv
<1> SUFFICES ASSUME CompilerInit PROVE CompInv
  OBVIOUS
<1>1. PICK h \in Histories : log = [i \in DOMAIN h |-> [vote |-> h[i], supersedes |-> 0]]
  BY DEF CompilerInit
<1>2. log \in Seq([vote : Votes, supersedes : Nat])
  <2>1. h \in Seq(Votes)
    BY <1>1, VotesAssumption
  <2>2. DOMAIN h = 1..Len(h) /\ Len(h) \in Nat /\ \A i \in DOMAIN h : h[i] \in Votes
    BY <2>1
  <2>3. log \in [1..Len(h) -> [vote : Votes, supersedes : Nat]]
    BY <1>1, <2>2
  <2>4. \A Q : \A q \in UNION {[1..n -> Q] : n \in Nat} : q \in Seq(Q)
    BY SeqDef, Zenon
  <2>5. log \in UNION {[1..n -> [vote : Votes, supersedes : Nat]] : n \in Nat}
    BY <2>2, <2>3, Zenon
  <2> QED
    BY <2>4, <2>5, Zenon
<1>3. /\ golden = [s \in Slugs |-> NoFile] /\ promoted = [s \in Slugs |-> NoPlan]
      /\ plan = NoPlan /\ reviewed = NoPlan /\ fresh = FALSE /\ byHand = {}
  BY DEF CompilerInit
<1>4. FilesTyped /\ PromotionsStand
  BY <1>2, <1>3 DEF FilesTyped, PromotionsStand, Filed
<1>5. PeopleRespected /\ NoContradiction /\ CompiledWhole
  BY <1>3, KindsApart DEF PeopleRespected, NoContradiction, CompiledWhole
<1> QED
  BY <1>3, <1>4, <1>5 DEF CompInv, PlansHold, FilesHold, PlanTyped, PlanFromLog, PlanLooked, ReviewLooked

\* The steps that leave the files as they are.
LEMMA FilesRest ==
  ASSUME FilesHold, UNCHANGED <<log, golden, sampled, byHand, promoted, raced, fresh>>
  PROVE  FilesHold'
<1>1. FilesTyped' /\ PromotionsStand'
  BY DEF FilesHold, FilesTyped, PromotionsStand
<1>2. PeopleRespected' /\ NoContradiction'
  BY DEF FilesHold, PeopleRespected, NoContradiction
<1>3. CompiledWhole'
  BY DEF FilesHold, CompiledWhole
<1> QED
  BY <1>1, <1>2, <1>3 DEF FilesHold

LEMMA ObserveKeeps == ASSUME CompInv, ObserveInputs PROVE CompInv'
<1>1. /\ UNCHANGED <<log, golden, sampled, byHand, promoted, raced, fresh>> /\ reviewed' = reviewed
      /\ plan = NoPlan
  BY DEF ObserveInputs
<1>2. PICK for \in {"preview", "apply"} :
        /\ for = "apply" => reviewed # NoPlan
        /\ plan' = [at |-> "observed", for |-> for, inputs |-> Inputs]
  BY DEF ObserveInputs
<1>3. plan'.at = "observed" /\ plan'.for = for /\ plan'.inputs.judgments = Len(log) /\ Len(log) \in Nat
  BY <1>2 DEF Inputs, CompInv, FilesHold, FilesTyped
<1>4. PlanTyped' /\ PlanFromLog' /\ PlanLooked'
  BY <1>1, <1>3 DEF PlanTyped, PlanFromLog, PlanLooked
<1>5. ReviewLooked'
  BY <1>1, <1>2, <1>3 DEF ReviewLooked, CompInv, PlansHold
<1> QED
  BY <1>1, <1>4, <1>5, FilesRest DEF CompInv, PlansHold

LEMMA CompileKeeps == ASSUME CompInv, Compile PROVE CompInv'
<1> DEFINE E == Effective(log)
           F == Fixtures(E)
           Owned(s) == golden[s].kind = "generated"
           after == [s \in {s \in DOMAIN F : ~Empty(F[s]) \/ Owned(s)} |->
                       IF Empty(F[s]) THEN NoFile ELSE Generated(F[s], Status(golden[s], F[s]))]
<1>1. /\ UNCHANGED <<log, golden, sampled, byHand, promoted, raced, fresh>> /\ reviewed' = reviewed
      /\ plan # NoPlan /\ plan.at = "observed"
  BY DEF Compile
<1>2. plan' = IF Compiles(E) /\ \A s \in DOMAIN F : ~Empty(F[s]) => golden[s].kind # "hand"
              THEN [at |-> "compiled", for |-> plan.for, inputs |-> plan.inputs, after |-> after, edited |-> {}]
              ELSE NoPlan
  BY DEF Compile
<1>3. PlanTyped /\ ReviewLooked /\ FilesTyped
  BY DEF CompInv, PlansHold, FilesHold
<1>4. DOMAIN F \subseteq Slugs
  BY <1>3, Effectual
<1>5. plan' = NoPlan => PlansHold'
  BY <1>1, <1>3 DEF PlansHold, PlanTyped, PlanFromLog, PlanLooked, ReviewLooked
<1>6. ASSUME plan' # NoPlan PROVE PlansHold'
  <2>1. /\ Compiles(E) /\ \A s \in DOMAIN F : ~Empty(F[s]) => golden[s].kind # "hand"
        /\ plan' = [at |-> "compiled", for |-> plan.for, inputs |-> plan.inputs, after |-> after, edited |-> {}]
    BY <1>2, <1>6
  <2>2. /\ DOMAIN after = {s \in DOMAIN F : ~Empty(F[s]) \/ Owned(s)}
        /\ \A s \in DOMAIN after :
             after[s] = IF Empty(F[s]) THEN NoFile ELSE Generated(F[s], Status(golden[s], F[s]))
    OBVIOUS
  <2>3. \A s : Status(golden[s], F[s]) \in BOOLEAN
    BY DEF Status
  <2> HIDE DEF after, E
  <2>4. FromLog(log, golden, after)
    BY <2>1, <2>2, <2>3 DEF FromLog, E
  <2>5. \A s \in DOMAIN after : Looked(after[s], golden[s])
    <3> SUFFICES ASSUME NEW s \in DOMAIN after PROVE Looked(after[s], golden[s])
      OBVIOUS
    <3>1. golden[s].kind # "hand"
      BY <2>1, <2>2
    <3>2. CASE Empty(F[s])
      BY <2>2, <3>1, <3>2, KindsApart DEF Looked
    <3>3. CASE ~Empty(F[s])
      <4>1. after[s] = Generated(F[s], Status(golden[s], F[s]))
        BY <2>2, <3>3
      <4>2. after[s].active = Status(golden[s], F[s]) /\ after[s].asserts = F[s]
        BY <4>1, KindsApart
      <4> QED
        BY <3>1, <4>2 DEF Looked, Status
    <3> QED
      BY <3>2, <3>3
  <2>6. /\ plan'.at = "compiled" /\ plan'.for = plan.for /\ plan'.inputs = plan.inputs /\ plan'.after = after
        /\ plan'.edited = {}
    BY <2>1
  <2>7. PlanTyped'
    BY <1>1, <1>3, <1>4, <2>1, <2>2, <2>6 DEF PlanTyped
  <2>8. PlanFromLog'
    BY <1>1, <2>4, <2>6 DEF PlanFromLog
  <2>9. PlanLooked'
    BY <1>1, <2>5, <2>6 DEF PlanLooked
  <2>10. ReviewLooked'
    BY <1>1, <1>3, <2>6 DEF ReviewLooked
  <2> QED
    BY <2>7, <2>8, <2>9, <2>10 DEF PlansHold
<1> QED
  BY <1>1, <1>5, <1>6, FilesRest DEF CompInv

LEMMA DigestKeeps == ASSUME CompInv, Digest PROVE CompInv'
<1>1. /\ UNCHANGED <<log, golden, sampled, byHand, promoted, raced, fresh>>
      /\ plan # NoPlan /\ plan.at = "compiled"
  BY DEF Digest
<1>2. PlanTyped /\ PlanFromLog /\ PlanLooked /\ ReviewLooked
  BY DEF CompInv, PlansHold
<1>3. /\ Planned.inputs = plan.inputs /\ Planned.after = plan.after /\ DOMAIN Planned.before = DOMAIN plan.after
      /\ \A s \in DOMAIN plan.after : Planned.before[s] = golden[s]
  BY DEF Planned
<1>4. Needed(plan.after) \subseteq Planned.sampled
  BY DEF Needed, Planned
<1>5. CASE plan' = NoPlan /\ reviewed' = reviewed
  BY <1>1, <1>2, <1>5, FilesRest DEF CompInv, PlansHold, PlanTyped, PlanFromLog, PlanLooked, ReviewLooked
<1>6. CASE plan' = NoPlan /\ reviewed' = [plan |-> Planned, edited |-> plan.edited]
  <2>1. \A s \in DOMAIN plan.after \ plan.edited : Looked(plan.after[s], golden[s])
    BY <1>1, <1>2 DEF PlanLooked
  <2>2. reviewed'.plan = Planned /\ reviewed'.edited = plan.edited
    BY <1>6
  <2>3. ReviewLooked'
    BY <1>3, <1>6, <2>1, <2>2 DEF ReviewLooked
  <2> QED
    BY <1>1, <1>6, <2>3, FilesRest DEF CompInv, PlansHold, PlanTyped, PlanFromLog, PlanLooked
<1>7. CASE /\ Inputs = plan.inputs /\ plan.for = "apply" /\ Planned = reviewed.plan /\ reviewed' = reviewed
           /\ plan' = [at |-> "checked", for |-> "apply", ops |-> Planned,
                       edited |-> plan.edited \cap reviewed.edited]
  <2>1. /\ plan'.at = "checked" /\ plan'.ops = Planned /\ plan'.for = "apply"
        /\ plan'.edited = plan.edited \cap reviewed.edited
    BY <1>7
  <2>2. reviewed # NoPlan
    BY <1>1, <1>2, <1>7 DEF ReviewLooked
  <2>3. \A s \in DOMAIN plan.after \ (plan.edited \cap reviewed.edited) : Looked(plan.after[s], Planned.before[s])
    BY <1>1, <1>2, <1>3, <1>7, <2>2 DEF PlanLooked, ReviewLooked
  <2>4. PlanTyped'
    BY <1>1, <1>2, <1>3, <2>1 DEF PlanTyped
  <2>5. PlanFromLog'
    BY <1>1, <1>2, <1>3, <1>4, <2>1 DEF PlanFromLog
  <2>6. PlanLooked'
    BY <1>3, <2>1, <2>3 DEF PlanLooked
  <2>7. ReviewLooked'
    BY <1>2, <1>7, <2>2 DEF ReviewLooked
  <2> QED
    BY <1>1, <2>4, <2>5, <2>6, <2>7, FilesRest DEF CompInv, PlansHold
<1> QED
  BY <1>5, <1>6, <1>7 DEF Digest

LEMMA ApplyPlanKeeps == ASSUME CompInv, ApplyPlan PROVE CompInv'
<1> DEFINE due == plan.ops
           after == due.after
           E == Effective(log)
           F == Fixtures(E)
<1>1. /\ plan # NoPlan /\ plan.at = "checked" /\ plan' = NoPlan
      /\ UNCHANGED <<log, reviewed, byHand>>
  BY DEF ApplyPlan
<1>2. PlansHold'
  BY <1>1 DEF CompInv, PlansHold, PlanTyped, PlanFromLog, PlanLooked, ReviewLooked
<1>3. CASE UNCHANGED <<golden, sampled, promoted, raced, fresh>>
  BY <1>1, <1>2, <1>3, FilesRest DEF CompInv
<1>4. CASE /\ ~(Inputs # due.inputs \/ \E s \in DOMAIN due.before : golden[s] # due.before[s])
           /\ sampled' = due.sampled /\ fresh' = TRUE
           /\ golden' = [s \in Slugs |-> IF s \in DOMAIN due.after THEN due.after[s] ELSE golden[s]]
           /\ promoted' = [s \in Slugs |->
                 IF s \in DOMAIN due.after /\ due.after[s] \notin {Generated(promoted[s], b) : b \in BOOLEAN}
                 THEN NoPlan ELSE promoted[s]]
           /\ raced' = raced \cup plan.edited
  <2>1. /\ due.inputs.judgments = Len(log) /\ DOMAIN after \subseteq Slugs
        /\ \A s \in DOMAIN after : due.before[s] = golden[s]
    BY <1>1, <1>4 DEF Inputs, CompInv, PlansHold, PlanTyped
  <2>2. FromLog(log, golden, after) /\ Needed(after) \subseteq due.sampled
    BY <1>1, <2>1 DEF CompInv, PlansHold, PlanFromLog
  <2>3. \A s \in DOMAIN after \ plan.edited : Looked(after[s], golden[s])
    BY <1>1, <2>1 DEF CompInv, PlansHold, PlanLooked
  <2>4. FilesTyped /\ PromotionsStand /\ PeopleRespected /\ NoContradiction
    BY DEF CompInv, FilesHold
  <2>5. /\ \A s \in DOMAIN after : golden'[s] = after[s]
        /\ \A s \in Slugs \ DOMAIN after : golden'[s] = golden[s] /\ promoted'[s] = promoted[s]
        /\ \A s \in DOMAIN after :
             promoted'[s] = IF after[s] \notin {Generated(promoted[s], b) : b \in BOOLEAN} THEN NoPlan ELSE promoted[s]
    BY <1>4, <2>1
  <2>6. /\ Compiles(E) /\ DOMAIN after \subseteq DOMAIN F
        /\ \A s \in DOMAIN F :
             IF Empty(F[s])
             THEN IF s \in DOMAIN after THEN after[s] = NoFile ELSE golden[s].kind # "generated"
             ELSE s \in DOMAIN after /\ \E b \in BOOLEAN : after[s] = Generated(F[s], b)
    BY <2>2 DEF FromLog
  <2>7. DOMAIN F \subseteq Slugs /\ \A s \in DOMAIN F : \E q \in Asked(E) : F[s] = Fixture(OfQuery(q, E))
    BY <2>4, Effectual
  <2>8. \A s \in DOMAIN F : F[s] # NoPlan
    <3>1. \A q : OfQuery(q, E) \in SUBSET Votes
      BY <2>4, Effectual DEF OfQuery
    <3> QED
      BY <2>7, <3>1, VotesAssumption
  <2>9. \A s \in DOMAIN F : Agreed(F[s])
    BY <2>6, <2>7, ConsistentAgrees DEF Compiles
  <2>10. UNCHANGED <<log, byHand>> /\ fresh' /\ sampled' = due.sampled /\ raced' = raced \cup plan.edited
         /\ DOMAIN golden' = Slugs /\ DOMAIN promoted' = Slugs
    BY <1>1, <1>4
  <2> HIDE DEF due, after, F, E
  <2>11. \A s \in DOMAIN after : \/ after[s] = NoFile
                                 \/ \E b \in BOOLEAN : after[s] = Generated(F[s], b)
    BY <2>6
  <2>12. FilesTyped'
    <3>1. \A s \in DOMAIN after : Filed(after[s])
      BY <2>11, KindsApart DEF Filed
    <3>2. \A s \in Slugs : Filed(golden'[s])
      BY <2>4, <2>5, <3>1 DEF FilesTyped
    <3> QED
      BY <2>4, <2>10, <3>2 DEF FilesTyped
  <2>13. PromotionsStand'
    <3> SUFFICES ASSUME NEW s \in Slugs, promoted'[s] # NoPlan
                 PROVE  golden'[s].kind = "generated" /\ golden'[s].asserts = promoted'[s]
      BY DEF PromotionsStand
    <3>1. CASE s \notin DOMAIN after
      BY <2>4, <2>5, <3>1 DEF PromotionsStand
    <3>2. CASE s \in DOMAIN after
      <4>1. PICK b \in BOOLEAN : after[s] = Generated(promoted[s], b)
        BY <2>5, <3>2
      <4>2. promoted'[s] = promoted[s] /\ golden'[s] = Generated(promoted[s], b)
        BY <2>5, <3>2, <4>1
      <4> QED
        BY <4>2, KindsApart
    <3> QED
      BY <3>1, <3>2
  <2>14. PeopleRespected'
    <3> SUFFICES ASSUME NEW s \in Slugs, s \notin raced'
                 PROVE  /\ s \in byHand => golden'[s] = HandWritten
                        /\ golden'[s].kind = "generated" => golden'[s].active = (promoted'[s] = golden'[s].asserts)
      BY <2>10 DEF PeopleRespected
    <3>1. s \notin raced /\ s \notin plan.edited
      BY <2>10
    <3>2. /\ s \in byHand => golden[s] = HandWritten
          /\ golden[s].kind = "generated" => golden[s].active = (promoted[s] = golden[s].asserts)
      BY <2>4, <3>1 DEF PeopleRespected
    <3>3. CASE s \notin DOMAIN after
      BY <2>5, <3>2, <3>3
    <3>4. CASE s \in DOMAIN after
      <4>1. Looked(after[s], golden[s]) /\ golden'[s] = after[s]
        BY <2>3, <2>5, <3>1, <3>4
      <4>2. s \notin byHand
        BY <3>2, <4>1, KindsApart DEF Looked
      <4>3. ASSUME golden'[s].kind = "generated"
            PROVE  golden'[s].active = (promoted'[s] = golden'[s].asserts)
        <5>1. PICK b \in BOOLEAN : after[s] = Generated(F[s], b)
          BY <2>11, <3>4, <4>1, <4>3, KindsApart
        <5>2. golden'[s].active = b /\ golden'[s].asserts = F[s] /\ F[s] # NoPlan
          BY <2>6, <2>8, <3>4, <4>1, <5>1, KindsApart
        <5>3. b = (golden[s].kind = "generated" /\ golden[s].active /\ golden[s].asserts = F[s])
          BY <4>1, <5>1, KindsApart DEF Looked
        <5>4. promoted[s] # NoPlan => golden[s].kind = "generated" /\ golden[s].asserts = promoted[s]
          BY <2>4 DEF PromotionsStand
        <5>5. after[s] \in {Generated(promoted[s], x) : x \in BOOLEAN} <=> promoted[s] = F[s]
          BY <5>1, KindsApart
        <5>6. promoted'[s] = IF promoted[s] = F[s] THEN promoted[s] ELSE NoPlan
          BY <2>5, <3>4, <5>5
        <5>7. b <=> promoted[s] = F[s]
          BY <3>2, <5>2, <5>3, <5>4
        <5> QED
          BY <5>2, <5>6, <5>7
      <4> QED
        BY <4>2, <4>3
    <3> QED
      BY <3>3, <3>4
  <2>15. NoContradiction'
    <3> SUFFICES ASSUME NEW s \in Slugs, golden'[s].kind = "generated" PROVE Agreed(golden'[s].asserts)
      BY DEF NoContradiction, Agreed
    <3>1. CASE s \notin DOMAIN after
      BY <2>4, <2>5, <3>1 DEF NoContradiction, Agreed
    <3>2. CASE s \in DOMAIN after
      BY <2>5, <2>6, <2>9, <2>11, <3>2, KindsApart
    <3> QED
      BY <3>1, <3>2
  <2>16. CompiledWhole'
    <3>1. ASSUME NEW s \in DOMAIN F, Empty(F[s]) PROVE golden'[s].kind # "generated"
      BY <2>5, <2>6, <2>7, <3>1, KindsApart
    <3>2. ASSUME NEW s \in DOMAIN F, ~Empty(F[s])
          PROVE  golden'[s] = Generated(F[s], Status(golden'[s], F[s]))
      <4>1. PICK b \in BOOLEAN : after[s] = Generated(F[s], b)
        BY <2>6, <3>2
      <4>2. golden'[s] = Generated(F[s], b)
        BY <2>5, <2>6, <3>2, <4>1
      <4>3. Status(golden'[s], F[s]) = b
        BY <4>2, KindsApart DEF Status
      <4> QED
        BY <4>2, <4>3
    <3>3. \A s \in DOMAIN F : Mentioned(F[s]) # {} => s \in DOMAIN after /\ after[s] # NoFile /\ after[s].asserts = F[s]
      <4> SUFFICES ASSUME NEW s \in DOMAIN F, Mentioned(F[s]) # {}
                   PROVE  s \in DOMAIN after /\ after[s] # NoFile /\ after[s].asserts = F[s]
        OBVIOUS
      <4>1. ~Empty(F[s])
        BY DEF Mentioned, Empty
      <4> QED
        BY <2>6, <4>1, KindsApart
    <3>4. {Chapter[v] : v \in UNION {Mentioned(F[s]) : s \in DOMAIN F}} \subseteq sampled'
      <4>1. UNION {Mentioned(F[s]) : s \in DOMAIN F}
              \subseteq UNION {Mentioned(after[s].asserts) : s \in {s \in DOMAIN after : after[s] # NoFile}}
        BY <3>3
      <4> QED
        BY <2>2, <2>10, <4>1 DEF Needed
    <3>5. E' = E
      BY <2>10 DEF E
    <3>6. /\ Compiles(E')
          /\ \A s \in DOMAIN Fixtures(E') :
               IF Empty(Fixtures(E')[s]) THEN golden'[s].kind # "generated"
               ELSE golden'[s] = Generated(Fixtures(E')[s], Status(golden'[s], Fixtures(E')[s]))
          /\ {Chapter[v] : v \in UNION {Mentioned(Fixtures(E')[s]) : s \in DOMAIN Fixtures(E')}} \subseteq sampled'
      BY <2>6, <3>1, <3>2, <3>4, <3>5 DEF F
    <3> QED
      BY <3>6 DEF CompiledWhole, E
  <2> QED
    BY <1>2, <2>12, <2>13, <2>14, <2>15, <2>16 DEF CompInv, FilesHold
<1> QED
  BY <1>3, <1>4 DEF ApplyPlan

LEMMA AppendKeeps == ASSUME CompInv, AppendJudgment PROVE CompInv'
<1>1. /\ UNCHANGED <<golden, sampled, plan, reviewed, byHand, promoted, raced>> /\ fresh' = FALSE
  BY DEF AppendJudgment
<1>2. PICK v \in Votes, i \in 0..Len(log) : log' = Append(log, [vote |-> v, supersedes |-> i])
  BY DEF AppendJudgment
<1>3. log \in Seq([vote : Votes, supersedes : Nat])
  BY DEF CompInv, FilesHold, FilesTyped
<1>4. log' \in Seq([vote : Votes, supersedes : Nat]) /\ Len(log') = Len(log) + 1 /\ Len(log) \in Nat
  <2>1. i \in Nat /\ [vote |-> v, supersedes |-> i] \in [vote : Votes, supersedes : Nat]
    BY <1>3
  <2> QED
    BY <1>2, <1>3, <2>1, AppendProperties, LenProperties
<1>5. FilesTyped' /\ PromotionsStand'
  BY <1>1, <1>4 DEF CompInv, FilesHold, FilesTyped, PromotionsStand
<1>6. PeopleRespected' /\ NoContradiction' /\ CompiledWhole'
  BY <1>1 DEF CompInv, FilesHold, PeopleRespected, NoContradiction, CompiledWhole
<1>7. PlanTyped'
  BY <1>1, <1>4 DEF CompInv, PlansHold, PlanTyped
<1>8. PlanFromLog'
  BY <1>1, <1>4 DEF CompInv, PlansHold, PlanTyped, PlanFromLog
<1>9. PlanLooked' /\ ReviewLooked'
  BY <1>1 DEF CompInv, PlansHold, PlanLooked, ReviewLooked
<1> QED
  BY <1>5, <1>6, <1>7, <1>8, <1>9 DEF CompInv, PlansHold, FilesHold

LEMMA EditCorpusKeeps == ASSUME CompInv, EditCorpus PROVE CompInv'
<1>1. /\ UNCHANGED <<log, golden, plan, reviewed, byHand, promoted, raced>> /\ fresh' = FALSE
  BY DEF EditCorpus
<1>2. FilesHold'
  BY <1>1 DEF CompInv, FilesHold, FilesTyped, PromotionsStand, PeopleRespected, NoContradiction, CompiledWhole
<1>3. PlanTyped' /\ PlanFromLog'
  BY <1>1 DEF CompInv, PlansHold, PlanTyped, PlanFromLog
<1>4. PlanLooked' /\ ReviewLooked'
  BY <1>1 DEF CompInv, PlansHold, PlanLooked, ReviewLooked
<1> QED
  BY <1>2, <1>3, <1>4 DEF CompInv, PlansHold

LEMMA EditFixtureKeeps == ASSUME CompInv, NEW s \in Slugs, EditFixture(s) PROVE CompInv'
<1>1. /\ UNCHANGED <<log, sampled, reviewed, raced>> /\ fresh' = FALSE
      /\ plan' = IF plan # NoPlan /\ plan.at = "compiled" THEN [plan EXCEPT !.edited = @ \cup {s}] ELSE plan
  BY DEF EditFixture, Edited
<1>2. FilesTyped /\ PromotionsStand /\ PeopleRespected /\ NoContradiction
  BY DEF CompInv, FilesHold
<1>3. /\ DOMAIN golden' = Slugs /\ DOMAIN promoted' = Slugs
      /\ \A t \in Slugs \ {s} : golden'[t] = golden[t] /\ promoted'[t] = promoted[t] /\ (t \in byHand' <=> t \in byHand)
      /\ \/ /\ golden[s].kind = "generated" /\ golden'[s].kind = "generated" /\ golden'[s].active = TRUE
            /\ golden'[s].asserts = golden[s].asserts /\ Filed(golden'[s])
            /\ promoted'[s] = golden[s].asserts /\ byHand' = byHand
         \/ golden'[s] = HandWritten /\ promoted'[s] = NoPlan
         \/ golden'[s] = NoFile /\ golden[s].kind = "hand" /\ s \notin byHand' /\ promoted' = promoted
  <2>1. CASE /\ golden[s].kind = "generated" /\ golden' = [golden EXCEPT ![s].active = TRUE]
             /\ promoted' = [promoted EXCEPT ![s] = golden[s].asserts] /\ UNCHANGED byHand
    <3>1. PICK a, b : golden[s] = Generated(a, b)
      BY <1>2, <2>1, KindsApart DEF FilesTyped, Filed
    <3>2. golden'[s] = [Generated(a, b) EXCEPT !.active = TRUE]
      BY <1>2, <2>1, <3>1 DEF FilesTyped
    <3>3. \A c : [Generated(a, b) EXCEPT !.active = c] = Generated(a, c)
      BY DEF Generated
    <3>4. golden'[s] = Generated(a, TRUE) /\ golden[s].asserts = a
      <4>1. [Generated(a, b) EXCEPT !.active = TRUE] = Generated(a, TRUE)
        BY <3>3, Zenon
      <4>2. golden'[s] = Generated(a, TRUE)
        BY <3>2, <4>1, Zenon
      <4>3. golden[s].asserts = a
        BY <3>1, KindsApart
      <4> QED
        BY <4>2, <4>3
    <3>5. /\ golden'[s].kind = "generated" /\ golden'[s].active = TRUE
          /\ golden'[s].asserts = golden[s].asserts
      BY <3>4 DEF Generated
    <3>6. Filed(golden'[s])
      BY <3>4, <3>5 DEF Filed, Generated
    <3> QED
      BY <1>2, <2>1, <3>5, <3>6 DEF FilesTyped
  <2>2. CASE /\ golden[s].kind # "hand" /\ golden' = [golden EXCEPT ![s] = HandWritten]
             /\ byHand' = byHand \cup {s} /\ promoted' = [promoted EXCEPT ![s] = NoPlan]
    BY <1>2, <2>2 DEF FilesTyped
  <2>3. CASE /\ golden[s].kind = "hand" /\ golden' = [golden EXCEPT ![s] = NoFile]
             /\ byHand' = byHand \ {s} /\ UNCHANGED promoted
    BY <1>2, <2>3 DEF FilesTyped
  <2> QED
    BY <2>1, <2>2, <2>3 DEF EditFixture
<1>4. \A t \in Slugs : golden'[t].kind = "generated" =>
        golden[t].kind = "generated" /\ golden'[t].asserts = golden[t].asserts
  BY <1>3, KindsApart
<1>5. FilesTyped'
  <2>1. Filed(golden'[s])
    BY <1>3, KindsApart DEF Filed
  <2> QED
    BY <1>1, <1>2, <1>3, <2>1 DEF FilesTyped
<1>6. PromotionsStand'
  <2>1. promoted'[s] # NoPlan => golden'[s].kind = "generated" /\ golden'[s].asserts = promoted'[s]
    BY <1>2, <1>3, KindsApart DEF PromotionsStand
  <2> QED
    BY <1>2, <1>3, <2>1 DEF PromotionsStand
<1>7. PeopleRespected'
  <2>1. s \notin raced => /\ s \in byHand' => golden'[s] = HandWritten
                          /\ golden'[s].kind = "generated" => golden'[s].active = (promoted'[s] = golden'[s].asserts)
    <3>1. CASE /\ golden[s].kind = "generated" /\ golden'[s].kind = "generated" /\ golden'[s].active = TRUE
               /\ golden'[s].asserts = golden[s].asserts
               /\ promoted'[s] = golden[s].asserts /\ byHand' = byHand
      BY <1>2, <3>1, KindsApart DEF PeopleRespected
    <3>2. CASE golden'[s] = HandWritten
      BY <3>2, KindsApart
    <3>3. CASE golden'[s] = NoFile /\ s \notin byHand'
      BY <3>3, KindsApart
    <3> QED
      BY <1>3, <3>1, <3>2, <3>3
  <2>2. \A t \in Slugs \ raced : t # s =>
          /\ t \in byHand' => golden'[t] = HandWritten
          /\ golden'[t].kind = "generated" => golden'[t].active = (promoted'[t] = golden'[t].asserts)
    BY <1>2, <1>3 DEF PeopleRespected
  <2> QED
    BY <1>1, <2>1, <2>2 DEF PeopleRespected
<1>8. NoContradiction'
  BY <1>2, <1>4 DEF NoContradiction
<1>9. CompiledWhole'
  BY <1>1 DEF CompiledWhole
<1>10. PlanTyped /\ PlanFromLog /\ PlanLooked /\ ReviewLooked
  BY DEF CompInv, PlansHold
<1>11. \A after : FromLog(log, golden, after) => FromLog(log, golden', after)
  <2>1. DOMAIN Fixtures(Effective(log)) \subseteq Slugs
    BY <1>2, Effectual
  <2> QED
    BY <1>4, <2>1 DEF FromLog
<1>12. CASE plan # NoPlan /\ plan.at = "compiled"
  <2>1. plan' = [at |-> "compiled", for |-> plan.for, inputs |-> plan.inputs, after |-> plan.after,
                 edited |-> plan.edited \cup {s}]
    BY <1>1, <1>10, <1>12 DEF PlanTyped
  <2>2. /\ plan'.at = "compiled" /\ plan'.for = plan.for /\ plan'.inputs = plan.inputs /\ plan'.after = plan.after
        /\ plan'.edited = plan.edited \cup {s}
    BY <2>1
  <2>3. PlanTyped'
    BY <1>1, <1>10, <1>12, <2>1, <2>2 DEF PlanTyped
  <2>4. PlanFromLog'
    BY <1>1, <1>10, <1>11, <1>12, <2>2 DEF PlanFromLog
  <2>5. PlanLooked'
    BY <1>3, <1>10, <1>12, <2>2 DEF PlanLooked, PlanTyped
  <2>6. ReviewLooked'
    BY <1>1, <1>10, <1>12, <2>2 DEF ReviewLooked
  <2> QED
    BY <2>3, <2>4, <2>5, <2>6, <1>5, <1>6, <1>7, <1>8, <1>9 DEF CompInv, PlansHold, FilesHold
<1>13. CASE ~(plan # NoPlan /\ plan.at = "compiled")
  <2>1. plan' = plan
    BY <1>1, <1>13
  <2>2. PlanTyped' /\ ReviewLooked'
    BY <1>1, <1>10, <2>1 DEF PlanTyped, ReviewLooked
  <2>3. PlanFromLog'
    BY <1>1, <1>10, <1>11, <1>13, <2>1 DEF PlanFromLog
  <2>4. PlanLooked'
    BY <1>10, <1>13, <2>1 DEF PlanLooked
  <2> QED
    BY <2>2, <2>3, <2>4, <1>5, <1>6, <1>7, <1>8, <1>9 DEF CompInv, PlansHold, FilesHold
<1> QED
  BY <1>12, <1>13

LEMMA CompilerInductive == CompInv /\ [CompilerNext]_compileVars => CompInv'
<1>1. ASSUME CompInv, UNCHANGED compileVars PROVE CompInv'
  <2>1. UNCHANGED <<log, golden, sampled, byHand, promoted, raced, fresh>> /\ UNCHANGED <<plan, reviewed>>
    BY <1>1 DEF compileVars
  <2>2. PlansHold'
    BY <1>1, <2>1 DEF CompInv, PlansHold, PlanTyped, PlanFromLog, PlanLooked, ReviewLooked
  <2> QED
    BY <1>1, <2>1, <2>2, FilesRest DEF CompInv
<1> QED
  BY <1>1, ObserveKeeps, CompileKeeps, DigestKeeps, ApplyPlanKeeps, AppendKeeps, EditCorpusKeeps, EditFixtureKeeps
     DEF CompilerNext

LEMMA CompInvHolds == CompInv => CompiledAsJudged
BY DEF CompInv, FilesHold, CompiledAsJudged

\* Whatever is judged, edited and promoted while plans are made: a fixture somebody wrote
\* is not overwritten, a promotion stands as long as its assertions, what is on disk after
\* an apply is what the whole log compiles to, and no fixture contradicts itself
\* (compileJudgments.ts).
THEOREM JudgmentsCompileAsJudged == CompilerSpec => []CompiledAsJudged
BY CompilerInitInv, CompilerInductive, CompInvHolds, PTL DEF CompilerSpec

-----------------------------------------------------------------------------
(* The records in one state graph (MCRecords) *)

\* A behaviour of the composition is one of each of its parts: the others rest.
LEMMA PartsOfRecords ==
  MCSpec => TelSpec /\ MonSpec /\ SessSpec /\ BlindSpec /\ SignSpec /\ PropSpec /\ CompilerSpec
<1> USE DEF all, others, Of, OfAudits, OfMerges, OfSessions, OfBlind, OfSigning, OfProposals, OfFixtures
<1>1. MCInit => TelInit /\ MonInit /\ SessInit /\ BlindInit /\ SignInit /\ PropInit /\ CompilerInit
  BY DEF MCInit
<1>2. [MCNext]_all => [TelNext]_telVars
  BY DEF MCNext
<1>3. [MCNext]_all => [EvidenceNext \/ RecoveryNext]_monVars
  BY DEF MCNext
<1>4. [MCNext]_all => [SessNext]_sessVars
  BY DEF MCNext
<1>5. [MCNext]_all => [BlindNext]_blindVars
  BY DEF MCNext
<1>6. [MCNext]_all => [SignNext]_signVars
  BY DEF MCNext
<1>7. [MCNext]_all => [PropNext]_propVars
  BY DEF MCNext
<1>8. [MCNext]_all => [CompilerNext]_compileVars
  BY DEF MCNext
<1> QED
  BY <1>1, <1>2, <1>3, <1>4, <1>5, <1>6, <1>7, <1>8, PTL
     DEF MCSpec, TelSpec, MonSpec, SessSpec, BlindSpec, SignSpec, PropSpec, CompilerSpec

\* What a review rests on and comes to: a fair selection that is reviewed once
\* (reviewSessions.ts), and a proposal or judgments that are written as they were reviewed
\* (proposals.ts, compileJudgments.ts).
THEOREM ReviewsAreWritten == MCSpec => []WrittenAsReviewed
<1>1. SessionsHold /\ AppliedAsReviewed /\ CompiledAsJudged => WrittenAsReviewed
  BY DEF WrittenAsReviewed
<1> QED
  BY PartsOfRecords, SessionsKeepTheirWord, ProposalsApplyAsReviewed, JudgmentsCompileAsJudged, <1>1, PTL

\* The types of everything a reviewer works on.
THEOREM RecordsAreTyped == MCSpec => []RecordsTypeOK
<1>1. TelTypeOK /\ MonTypeOK /\ SessTypeOK /\ BlindTypeOK /\ SignTypeOK /\ PropTypeOK => RecordsTypeOK
  BY DEF RecordsTypeOK
<1> QED
  BY PartsOfRecords, AuditsTypeCorrect, MonitoringTypeCorrect, SessTypeCorrect, BlindTypeCorrect,
     SigningTypeCorrect, ProposalTypeCorrect, <1>1, PTL
=============================================================================
