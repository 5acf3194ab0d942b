----------------------------- MODULE OrderProofs -----------------------------
(***************************************************************************)
(* What sorting and folding return, for any finite set and any sequence.   *)
(* A relation is a set of pairs and an operation a function here, so that  *)
(* a fact about any of them can be cited for one.                          *)
(***************************************************************************)
EXTENDS Orders, SequencesExt, FiniteSetTheorems, FunctionTheorems, WellFoundedInduction, TLAPS

\* A set of natural numbers has a least one.
LEMMA LeastOf ==
    ASSUME NEW T \in SUBSET Nat, T # {}
    PROVE  \E m \in T : \A n \in T : m <= n
<1>1. PICK m \in T : \A n \in T : ~(<<n, m>> \in OpToRel(<, Nat))
  BY NatLessThanWellFounded, WFMin
<1>2. \A n \in T : ~(n < m)
  BY <1>1 DEF OpToRel
<1>. QED  BY <1>2

-----------------------------------------------------------------------------
(* Sorting *)

IsStrictOrder(R, S) ==
    /\ \A x \in S : <<x, x>> \notin R
    /\ \A x, y, z \in S : <<x, y>> \in R /\ <<y, z>> \in R => <<x, z>> \in R
    /\ \A x, y \in S : x = y \/ <<x, y>> \in R \/ <<y, x>> \in R

Prior(R, S, x) == {y \in S : <<y, x>> \in R}

\* The number of elements before an element tells its place.
LEMMA Places ==
    ASSUME NEW S, IsFiniteSet(S), NEW R, IsStrictOrder(R, S)
    PROVE  /\ \A x \in S : Cardinality(Prior(R, S, x)) \in 0..(Cardinality(S) - 1)
           /\ \A x, y \in S : <<x, y>> \in R =>
                 Cardinality(Prior(R, S, x)) < Cardinality(Prior(R, S, y))
           /\ \A k \in 0..(Cardinality(S) - 1) : \E x \in S : Cardinality(Prior(R, S, x)) = k
<1>. DEFINE n == Cardinality(S)
            place == [x \in S |-> Cardinality(Prior(R, S, x))]
<1>1. n \in Nat
  BY FS_CardinalityType
<1>2. ASSUME NEW x \in S PROVE IsFiniteSet(Prior(R, S, x)) /\ Cardinality(Prior(R, S, x)) \in 0..(n - 1)
  <2>1. Prior(R, S, x) \in SUBSET (S \ {x})
    BY DEF Prior, IsStrictOrder
  <2>2. IsFiniteSet(S \ {x}) /\ Cardinality(S \ {x}) = n - 1
    BY FS_RemoveElement
  <2>3. IsFiniteSet(Prior(R, S, x)) /\ Cardinality(Prior(R, S, x)) <= n - 1
    BY <2>1, <2>2, FS_Subset
  <2>. QED  BY <1>1, <2>3, FS_CardinalityType
<1>3. ASSUME NEW x \in S, NEW y \in S, <<x, y>> \in R
      PROVE  Cardinality(Prior(R, S, x)) < Cardinality(Prior(R, S, y))
  <2>1. Prior(R, S, x) \in SUBSET Prior(R, S, y) /\ x \in Prior(R, S, y) /\ x \notin Prior(R, S, x)
    BY <1>3 DEF Prior, IsStrictOrder
  <2>2. /\ Cardinality(Prior(R, S, x)) <= Cardinality(Prior(R, S, y))
        /\ Cardinality(Prior(R, S, x)) # Cardinality(Prior(R, S, y))
    BY <1>2, <2>1, FS_Subset
  <2>. QED  BY <1>1, <1>2, <2>2
<1>4. place \in Injection(S, 0..(n - 1))
  <2>1. place \in [S -> 0..(n - 1)]
    BY <1>2
  <2>2. ASSUME NEW x \in S, NEW y \in S, place[x] = place[y] PROVE x = y
    <3>1. Cardinality(Prior(R, S, x)) = Cardinality(Prior(R, S, y))
      BY <2>2
    <3>2. ~(<<x, y>> \in R) /\ ~(<<y, x>> \in R)
      BY <1>1, <1>2, <1>3, <3>1
    <3>. QED  BY <3>2 DEF IsStrictOrder
  <2>. QED  BY <2>1, <2>2 DEF Injection, IsInjective
<1>5. IsFiniteSet(0..(n - 1)) /\ Cardinality(0..(n - 1)) = n
  BY <1>1, FS_Interval
<1>6. place \in Surjection(S, 0..(n - 1))
  BY <1>4, <1>5, FS_Injection
<1>. QED  BY <1>2, <1>3, <1>6 DEF Surjection

IsRanking(f, R, S) ==
    \A k \in 1..Cardinality(S) :
        (\E x \in S : Cardinality(Prior(R, S, x)) = k - 1)
            => f[k] \in S /\ Cardinality(Prior(R, S, f[k])) = k - 1

Arranges(f, R, S) ==
    /\ Cardinality(S) \in Nat /\ \A k \in 1..Cardinality(S) : f[k] \in S
    /\ \A x \in S : \E k \in 1..Cardinality(S) : f[k] = x
    /\ \A j, k \in 1..Cardinality(S) : j < k => <<f[j], f[k]>> \in R
    /\ \A j, k \in 1..Cardinality(S) : f[j] = f[k] => j = k

\* Choosing the element of every place puts each element of a finite set in one place, in order.
LEMMA Sorts ==
    ASSUME NEW S, IsFiniteSet(S), NEW R, IsStrictOrder(R, S),
           NEW f, IsRanking(f, R, S)
    PROVE  Arranges(f, R, S)
<1>. DEFINE n == Cardinality(S)
            Place(x) == Cardinality(Prior(R, S, x))
<1>1. n \in Nat
  BY FS_CardinalityType
<1>2. ASSUME NEW k \in 1..n PROVE f[k] \in S /\ Place(f[k]) = k - 1
  <2>1. \E x \in S : Place(x) = k - 1
    <3>1. k - 1 \in 0..(n - 1)
      BY <1>1
    <3>. QED  BY <3>1, Places
  <2>. QED  BY <2>1 DEF IsRanking
<1>3. ASSUME NEW x \in S, NEW y \in S, Place(x) = Place(y) PROVE x = y
  <2>1. Place(x) \in Int
    BY <1>1, Places
  <2>2. ~(<<x, y>> \in R) /\ ~(<<y, x>> \in R)
    BY <1>3, <2>1, Places
  <2>. QED  BY <2>2 DEF IsStrictOrder
<1>4. ASSUME NEW x \in S PROVE \E k \in 1..n : f[k] = x
  <2>1. Place(x) + 1 \in 1..n /\ Place(x) \in Int
    BY <1>1, Places
  <2>2. Place(f[Place(x) + 1]) = Place(x)
    BY <1>2, <2>1
  <2>. QED  BY <1>2, <1>3, <2>1, <2>2
<1>5. ASSUME NEW j \in 1..n, NEW k \in 1..n, j < k PROVE <<f[j], f[k]>> \in R
  <2>1. Place(f[j]) < Place(f[k])
    BY <1>1, <1>2, <1>5
  <2>2. <<f[k], f[j]>> \in R => Place(f[k]) < Place(f[j])
    BY <1>2, Places
  <2>3. f[j] # f[k] /\ ~(<<f[k], f[j]>> \in R)
    BY <1>1, <1>2, <1>5, <2>1, <2>2
  <2>. QED  BY <1>2, <2>3 DEF IsStrictOrder
<1>6. ASSUME NEW j \in 1..n, NEW k \in 1..n, f[j] = f[k] PROVE j = k
  BY <1>1, <1>2, <1>6
<1>. QED  BY <1>1, <1>2, <1>4, <1>5, <1>6 DEF Arranges

-----------------------------------------------------------------------------
(* Folding *)

\* An operation on an element's place and what was accumulated before.
Accumulates(n, A, base, G) == n \in Nat /\ base \in A /\ G \in [(1..n) \X A -> A]

\* The largest of 1..k, and what is left without it.
LEMMA Largest ==
    ASSUME NEW k \in Nat \ {0}
    PROVE  /\ \A s \in SUBSET (1..k) : k \in s => Max(s) = k
           /\ Max(1..k) = k /\ (1..k) \ {k} = 1..(k - 1)
<1>1. ASSUME NEW s \in SUBSET (1..k), k \in s PROVE Max(s) = k
  <2>1. \A x \in s : (\A y \in s : x >= y) => x = k
    BY <1>1
  <2>2. k \in s /\ \A y \in s : k >= y
    BY <1>1
  <2>. QED  BY <2>1, <2>2 DEF Max
<1>. QED  BY <1>1

LEMMA LargestIn ==
    ASSUME NEW n \in Nat, NEW s \in SUBSET (1..n), s # {}
    PROVE  Max(s) \in s /\ \A y \in s : y <= Max(s)
<1>. DEFINE T == {k \in Nat : n - k \in s}
<1>1. PICK x \in s : TRUE
  OBVIOUS
<1>2. n - x \in T
  OBVIOUS
<1>3. PICK m \in T : \A k \in T : m <= k
  BY <1>2, LeastOf
<1>4. n - m \in s
  OBVIOUS
<1>5. ASSUME NEW y \in s PROVE n - m >= y
  <2>1. n - y \in T
    OBVIOUS
  <2>2. m <= n - y /\ m \in Nat
    <3>. HIDE DEF T
    <3>1. m <= n - y
      BY <1>3, <2>1
    <3>. QED  BY <1>3, <3>1 DEF T
  <2>. QED  BY <2>2
<1>. QED  BY <1>4, <1>5 DEF Max

Folds(it, n, base, G) ==
    \A s \in SUBSET (1..n) :
        it[s] = IF s = {} THEN base ELSE G[<<Max(s), it[s \ {Max(s)}]>>]

\* A fold over 1..n is defined: what it gives for the prefixes is a run of the operation.
LEMMA FoldDefined ==
    ASSUME NEW n, NEW A, NEW base, NEW G, Accumulates(n, A, base, G)
    PROVE  \E it \in [SUBSET (1..n) -> A] : Folds(it, n, base, G)
<1>. USE DEF Accumulates
<1>. DEFINE Obeys(it, k) ==
              \A s \in SUBSET (1..k) :
                 it[s] = IF s = {} THEN base ELSE G[<<Max(s), it[s \ {Max(s)}]>>]
            Bad == {k \in 0..n : ~\E it \in [SUBSET (1..k) -> A] : Obeys(it, k)}
<1>1. 0 \notin Bad
  <2>1. [s \in SUBSET (1..0) |-> base] \in [SUBSET (1..0) -> A]
    OBVIOUS
  <2>2. Obeys([s \in SUBSET (1..0) |-> base], 0)
    OBVIOUS
  <2>. QED  BY <2>1, <2>2
<1>2. ASSUME NEW k \in 1..n, NEW it \in [SUBSET (1..(k - 1)) -> A], Obeys(it, k - 1)
      PROVE  \E more \in [SUBSET (1..k) -> A] : Obeys(more, k)
  <2>. DEFINE more == [s \in SUBSET (1..k) |-> IF k \in s THEN G[<<k, it[s \ {k}]>>] ELSE it[s]]
  <2>1. \A s \in SUBSET (1..k) : /\ s \ {k} \in SUBSET (1..(k - 1))
                                 /\ k \notin s => s \in SUBSET (1..(k - 1))
    OBVIOUS
  <2>2. \A s \in SUBSET (1..(k - 1)) : s \in SUBSET (1..k) /\ k \notin s /\ more[s] = it[s]
    OBVIOUS
  <2>3. more \in [SUBSET (1..k) -> A]
    BY <2>1
  <2>4. ASSUME NEW s \in SUBSET (1..k)
        PROVE  more[s] = IF s = {} THEN base ELSE G[<<Max(s), more[s \ {Max(s)}]>>]
    <3>1. CASE k \in s
      <4>1. Max(s) = k
        BY <3>1, Largest
      <4>2. more[s \ {k}] = it[s \ {k}]
        BY <2>1, <2>2
      <4>. QED  BY <3>1, <4>1, <4>2
    <3>2. CASE k \notin s
      <4>1. s \in SUBSET (1..(k - 1)) /\ more[s] = it[s]
        BY <2>1, <2>2, <3>2
      <4>2. more[s \ {Max(s)}] = it[s \ {Max(s)}]
        BY <2>2, <4>1
      <4>. QED  BY <1>2, <4>1, <4>2
    <3>. QED  BY <3>1, <3>2
  <2>. HIDE DEF more
  <2>. QED  BY <2>3, <2>4
<1>3. Bad = {}
  <2>1. SUFFICES ASSUME Bad # {} PROVE FALSE
    OBVIOUS
  <2>2. Bad \in SUBSET Nat
    OBVIOUS
  <2>3. PICK k \in Bad : \A j \in Bad : k <= j
    BY <2>1, <2>2, LeastOf
  <2>4. k \in 0..n /\ ~\E it \in [SUBSET (1..k) -> A] : Obeys(it, k)
    OBVIOUS
  <2>5. k # 0
    BY <1>1
  <2>6. k \in 1..n /\ k - 1 \in 0..n
    BY <2>4, <2>5
  <2>7. k - 1 \notin Bad
    <3>. HIDE DEF Bad
    <3>. QED  BY <2>3, <2>6
  <2>8. PICK it \in [SUBSET (1..(k - 1)) -> A] : Obeys(it, k - 1)
    BY <2>6, <2>7
  <2>. QED  BY <1>2, <2>4, <2>6, <2>8
<1>4. n \notin Bad
  <2>. HIDE DEF Bad
  <2>. QED  BY <1>3
<1>5. n \in 0..n
  OBVIOUS
<1>. QED  BY <1>4, <1>5 DEF Folds

IsFold(it, n, A, base, G) ==
    /\ it[{}] = base
    /\ \A s \in SUBSET (1..n) :
          s # {} /\ it[s \ {Max(s)}] \in A => it[s] = G[<<Max(s), it[s \ {Max(s)}]>>]

\* So it gives a value of the accumulator's type, and is the last of a run: what an operation
\* makes of the elements one after the other.
LEMMA FoldRuns ==
    ASSUME NEW n, NEW A, NEW base, NEW G, Accumulates(n, A, base, G),
           NEW it, IsFold(it, n, A, base, G)
    PROVE  \A k \in 0..n :
              /\ it[1..k] \in A
              /\ k = 0 => it[1..k] = base
              /\ k > 0 => it[1..k] = G[<<k, it[1..(k - 1)]>>]
<1>. USE DEF Accumulates
<1>1. \A k \in 0..n : 1..k \in SUBSET (1..n)
  OBVIOUS
<1>2. it[1..0] = base
  <2>1. 1..0 = {}
    OBVIOUS
  <2>. QED  BY <2>1 DEF IsFold
<1>3. ASSUME NEW k \in 1..n, it[1..(k - 1)] \in A PROVE it[1..k] = G[<<k, it[1..(k - 1)]>>]
  <2>0. k \in Nat \ {0} /\ 1..k # {} /\ 1..k \in SUBSET (1..n)
    BY <1>1
  <2>1. Max(1..k) = k /\ (1..k) \ {k} = 1..(k - 1) /\ 1..k # {} /\ 1..k \in SUBSET (1..n)
    BY <2>0, Largest
  <2>2. it[1..k] = G[<<Max(1..k), it[(1..k) \ {Max(1..k)}]>>]
    BY <1>3, <2>1 DEF IsFold
  <2>. QED  BY <2>1, <2>2
<1>. DEFINE Bad == {k \in 0..n : it[1..k] \notin A}
<1>4. Bad = {}
  <2>1. SUFFICES ASSUME Bad # {} PROVE FALSE
    OBVIOUS
  <2>2. Bad \in SUBSET Nat
    OBVIOUS
  <2>3. PICK k \in Bad : \A j \in Bad : k <= j
    BY <2>1, <2>2, LeastOf
  <2>4. k \in 0..n /\ it[1..k] \notin A
    OBVIOUS
  <2>5. k # 0
    BY <1>2, <2>4
  <2>6. k \in 1..n /\ k - 1 \in 0..n
    BY <2>4, <2>5
  <2>7. k - 1 \notin Bad
    <3>. HIDE DEF Bad
    <3>. QED  BY <2>3, <2>6
  <2>8. it[1..(k - 1)] \in A
    BY <2>6, <2>7
  <2>9. <<k, it[1..(k - 1)]>> \in (1..n) \X A
    BY <2>6, <2>8
  <2>. QED  BY <1>3, <2>4, <2>6, <2>8, <2>9
<1>5. \A k \in 0..n : it[1..k] \in A
  BY <1>4
<1>. HIDE DEF Bad
<1>. TAKE k \in 0..n
<1>6. k = 0 => it[1..k] = base
  BY <1>2
<1>7. k > 0 => it[1..k] = G[<<k, it[1..(k - 1)]>>]
  <2>1. k > 0 => k \in 1..n /\ it[1..(k - 1)] \in A
    BY <1>5
  <2>. QED  BY <1>3, <2>1
<1>. QED  BY <1>5, <1>6, <1>7
-----------------------------------------------------------------------------
(* Sums *)

\* p[k] is the sum of the first k numbers.
Sums(p, s, n) ==
    /\ n \in Nat /\ p \in [0..n -> Int] /\ p[0] = 0
    /\ \A k \in 1..n : p[k] = p[k - 1] + s[k]

\* So is q[k], for the first m of them.
Accrues(q, s, m) == q[0] = 0 /\ \A k \in 1..m : q[k] = q[k - 1] + s[k]

Ceases(s, m, n) == \A k \in 1..n : k > m => s[k] = 0

\* Adding up a sequence of integers passes through the sums of its prefixes.
LEMMA SumRuns ==
    ASSUME NEW n \in Nat, NEW s, DOMAIN s = 1..n, \A k \in 1..n : s[k] \in Int
    PROVE  \E p : Sums(p, s, n) /\ FoldLeft(+, 0, s) = p[n]
<1>. DEFINE G == [q \in (1..n) \X Int |-> q[2] + s[q[1]]]
            Obeys(it) == it = [J \in SUBSET DOMAIN s |->
                                  IF J = {} THEN 0 ELSE it[J \ {Max(J)}] + s[Max(J)]]
<1>1. Accumulates(n, Int, 0, G)
  BY DEF Accumulates
<1>2. \E it : Obeys(it)
  <2>1. PICK it \in [SUBSET (1..n) -> Int] : Folds(it, n, 0, G)
    <3>. HIDE DEF G
    <3>. QED  BY <1>1, FoldDefined
  <2>2. ASSUME NEW J \in SUBSET (1..n), J # {}
        PROVE  it[J] = it[J \ {Max(J)}] + s[Max(J)]
    <3>1. Max(J) \in 1..n /\ it[J \ {Max(J)}] \in Int
      BY <2>2, LargestIn
    <3>. QED  BY <2>1, <2>2, <3>1 DEF Folds
  <2>3. Obeys(it)
    BY <2>1, <2>2 DEF Folds
  <2>. QED  BY <2>3
<1>. DEFINE it == CHOOSE it : Obeys(it)
<1>3. Obeys(it) /\ FoldLeft(+, 0, s) = it[1..n]
  BY <1>2 DEF FoldLeft, MapThenFoldSet
<1>. HIDE DEF it
<1>4. IsFold(it, n, Int, 0, G)
  <2>1. it[{}] = 0
    BY <1>3
  <2>2. ASSUME NEW J \in SUBSET (1..n), J # {}, it[J \ {Max(J)}] \in Int
        PROVE  it[J] = G[<<Max(J), it[J \ {Max(J)}]>>]
    <3>1. Max(J) \in 1..n
      BY <2>2, LargestIn
    <3>2. it[J] = it[J \ {Max(J)}] + s[Max(J)]
      BY <1>3, <2>2
    <3>. QED  BY <2>2, <3>1, <3>2
  <2>. QED  BY <2>1, <2>2 DEF IsFold
<1>5. \A k \in 0..n : /\ it[1..k] \in Int
                      /\ k = 0 => it[1..k] = 0
                      /\ k > 0 => it[1..k] = G[<<k, it[1..(k - 1)]>>]
  <2>. HIDE DEF G
  <2>. QED  BY <1>1, <1>4, FoldRuns
<1>. DEFINE p == [k \in 0..n |-> it[1..k]]
<1>6. ASSUME NEW k \in 1..n PROVE p[k] = p[k - 1] + s[k]
  <2>1. k \in 0..n /\ k > 0 /\ k - 1 \in 0..n
    OBVIOUS
  <2>2. it[1..(k - 1)] \in Int /\ it[1..k] = G[<<k, it[1..(k - 1)]>>]
    BY <1>5, <2>1
  <2>3. it[1..k] = it[1..(k - 1)] + s[k]
    BY <2>2
  <2>. QED  BY <2>1, <2>3
<1>7. p \in [0..n -> Int] /\ p[0] = 0
  <2>1. \A k \in 0..n : it[1..k] \in Int
    BY <1>5
  <2>2. 0 \in 0..n
    OBVIOUS
  <2>3. it[1..0] = 0
    BY <1>5, <2>2, Zenon
  <2>4. p[0] = it[1..0]
    BY <2>2
  <2>. QED  BY <2>1, <2>3, <2>4
<1>8. p[n] = it[1..n]
  OBVIOUS
<1>9. Sums(p, s, n)
  <2>. HIDE DEF p
  <2>. QED  BY <1>6, <1>7 DEF Sums
<1>. QED  BY <1>3, <1>8, <1>9

\* Two runs of sums that add the same numbers up to k, and nothing later.
LEMMA SameSums ==
    ASSUME NEW n, NEW p, NEW s, Sums(p, s, n), NEW m \in 0..n,
           NEW q, Accrues(q, s, m), Ceases(s, m, n)
    PROVE  p[n] = q[m] /\ \A k \in 0..m : p[k] = q[k]
<1>. USE DEF Sums, Accrues, Ceases
<1>. DEFINE Bad == {k \in 0..m : p[k] # q[k]}
            Late == {k \in 0..n : k >= m /\ p[k] # p[m]}
<1>1. Bad = {}
  <2>1. SUFFICES ASSUME Bad # {} PROVE FALSE
    OBVIOUS
  <2>2. PICK k \in Bad : \A j \in Bad : k <= j
    <3>1. Bad \in SUBSET Nat
      OBVIOUS
    <3>. HIDE DEF Bad
    <3>. QED  BY <2>1, <3>1, LeastOf
  <2>3. k \in 1..m /\ k - 1 \in 0..m /\ k - 1 \notin Bad
    <3>1. k \in 0..m /\ k # 0
      OBVIOUS
    <3>2. k - 1 \notin Bad
      <4>. HIDE DEF Bad
      <4>. QED  BY <2>2, <3>1
    <3>. QED  BY <3>1, <3>2
  <2>4. p[k - 1] = q[k - 1] /\ k \in 1..n
    BY <2>3
  <2>. QED  BY <2>3, <2>4
<1>2. Late = {}
  <2>1. SUFFICES ASSUME Late # {} PROVE FALSE
    OBVIOUS
  <2>2. PICK k \in Late : \A j \in Late : k <= j
    <3>1. Late \in SUBSET Nat
      OBVIOUS
    <3>. HIDE DEF Late
    <3>. QED  BY <2>1, <3>1, LeastOf
  <2>3. k \in 1..n /\ k - 1 >= m /\ k - 1 \notin Late
    <3>1. k \in 0..n /\ k > m
      OBVIOUS
    <3>2. k - 1 \notin Late
      <4>. HIDE DEF Late
      <4>. QED  BY <2>2, <3>1
    <3>. QED  BY <3>1, <3>2
  <2>4. p[k - 1] = p[m] /\ p[k] = p[k - 1] + s[k] /\ s[k] = 0 /\ p[m] \in Int
    BY <2>3
  <2>. QED  BY <2>3, <2>4
<1>3. \A k \in 0..m : p[k] = q[k]
  BY <1>1
<1>4. p[n] = p[m]
  <2>1. n \in 0..n /\ n >= m
    OBVIOUS
  <2>2. n \notin Late
    BY <1>2
  <2>. QED  BY <2>1, <2>2
<1>. QED  BY <1>3, <1>4

-----------------------------------------------------------------------------
(* Sequences in order that share their beginnings *)

\* n elements, each in relation to the later ones.
Increases(f, n, R) == \A i, j \in 1..n : i < j => <<f[i], f[j]>> \in R

IsAsymmetric(R) == \A x, y : <<x, y>> \in R => <<y, x>> \notin R

\* What is before an element of E is in E.
ClosedBelow(E, R) == \A x, y : <<x, y>> \in R /\ y \in E => x \in E

\* What f has in E is in g.
Occurs(f, n, g, k, E) == \A i \in 1..n : f[i] \in E => \E j \in 1..k : g[j] = f[i]

\* In order, two sequences that have the same elements in a beginning have them
\* at the same places.
LEMMA AgreeBelow ==
    ASSUME NEW n \in Nat, NEW k \in Nat, NEW f, NEW g, NEW R, NEW E,
           Increases(f, n, R), Increases(g, k, R), IsAsymmetric(R), ClosedBelow(E, R),
           Occurs(f, n, g, k, E), Occurs(g, k, f, n, E)
    PROVE  \A i \in 1..n : f[i] \in E => i \in 1..k /\ g[i] = f[i]
<1>. DEFINE Agrees(i) == i \in 1..k /\ g[i] = f[i]
            Bad == {i \in 1..n : f[i] \in E /\ ~Agrees(i)}
<1>1. SUFFICES ASSUME Bad # {} PROVE FALSE
  OBVIOUS
<1>2. PICK i \in Bad : \A j \in Bad : i <= j
  <2>1. Bad \in SUBSET Nat
    OBVIOUS
  <2>. HIDE DEF Bad
  <2>. QED  BY <1>1, <2>1, LeastOf
<1>3. i \in 1..n /\ f[i] \in E /\ ~Agrees(i)
  OBVIOUS
<1>4. ASSUME NEW j \in 1..n, j < i PROVE j \in 1..k /\ g[j] = f[j] /\ <<f[j], f[i]>> \in R
  <2>1. <<f[j], f[i]>> \in R
    BY <1>3, <1>4 DEF Increases
  <2>2. f[j] \in E
    BY <1>3, <2>1 DEF ClosedBelow
  <2>3. j \notin Bad
    <3>. HIDE DEF Bad
    <3>. QED  BY <1>2, <1>3, <1>4
  <2>. QED  BY <2>1, <2>2, <2>3
<1>. HIDE DEF Bad
<1>5. \A x, y : <<x, y>> \in R => <<y, x>> \notin R /\ x # y
  BY DEF IsAsymmetric
<1>6. PICK p \in 1..k : g[p] = f[i]
  BY <1>3 DEF Occurs
<1>7. ~(p < i)
  <2>1. SUFFICES ASSUME p < i PROVE FALSE
    OBVIOUS
  <2>2. p \in 1..n
    BY <1>3, <2>1
  <2>. QED  BY <1>4, <1>5, <1>6, <2>1, <2>2
<1>8. i < p /\ i \in 1..k
  BY <1>3, <1>6, <1>7
<1>9. <<g[i], f[i]>> \in R
  BY <1>6, <1>8 DEF Increases
<1>10. PICK l \in 1..n : f[l] = g[i]
  <2>1. g[i] \in E
    BY <1>3, <1>9 DEF ClosedBelow
  <2>. QED  BY <1>8, <2>1 DEF Occurs
<1>11. l < i
  <2>1. SUFFICES ASSUME ~(l < i) PROVE FALSE
    OBVIOUS
  <2>2. l = i \/ i < l
    BY <1>3, <2>1
  <2>3. i < l => <<f[i], f[l]>> \in R
    BY <1>3 DEF Increases
  <2>. QED  BY <1>5, <1>9, <1>10, <2>2, <2>3
<1>12. l \in 1..k /\ g[l] = g[i]
  BY <1>4, <1>10, <1>11
<1>13. <<g[l], g[i]>> \in R
  BY <1>8, <1>11, <1>12 DEF Increases
<1>. QED  BY <1>5, <1>12, <1>13

\* n integers, each less than the later ones.
Rises(f, n) ==
    /\ n \in Nat /\ \A i \in 1..n : f[i] \in Int
    /\ \A i, j \in 1..n : i < j => f[i] < f[j]

\* What f has up to a bound is in g.
OccursBy(f, n, g, k, t) == \A i \in 1..n : f[i] <= t => \E j \in 1..k : g[j] = f[i]

\* What f has up to a bound g has at the same places.
AgreesBy(f, n, g, k, t) == \A i \in 1..n : f[i] <= t => i \in 1..k /\ g[i] = f[i]

LEMMA IncreasingAgree ==
    ASSUME NEW n, NEW k, NEW f, NEW g, NEW t \in Int, Rises(f, n), Rises(g, k),
           OccursBy(f, n, g, k, t), OccursBy(g, k, f, n, t)
    PROVE  AgreesBy(f, n, g, k, t)
<1>. DEFINE R == {q \in Int \X Int : q[1] < q[2]}
            E == {x \in Int : x <= t}
<1>1. \A x, y : <<x, y>> \in R <=> x \in Int /\ y \in Int /\ x < y
  OBVIOUS
<1>2. \A x : x \in E <=> x \in Int /\ x <= t
  OBVIOUS
<1>. HIDE DEF R, E
<1>3. n \in Nat /\ k \in Nat /\ Increases(f, n, R) /\ Increases(g, k, R)
  BY <1>1 DEF Increases, Rises
<1>4. IsAsymmetric(R) /\ ClosedBelow(E, R)
  BY <1>1, <1>2 DEF IsAsymmetric, ClosedBelow
<1>5. Occurs(f, n, g, k, E) /\ Occurs(g, k, f, n, E)
  BY <1>2 DEF Occurs, OccursBy
<1>6. \A i \in 1..n : f[i] \in E => i \in 1..k /\ g[i] = f[i]
  BY <1>3, <1>4, <1>5, AgreeBelow
<1>7. \A i \in 1..n : f[i] \in Int
  BY DEF Rises
<1>. QED  BY <1>2, <1>6, <1>7 DEF AgreesBy

\* All of them up to a bound: they have the same length.
LEMMA IncreasingSame ==
    ASSUME NEW n, NEW k, NEW f, NEW g, NEW t \in Int, Rises(f, n), Rises(g, k),
           \A i \in 1..n : f[i] <= t, \A i \in 1..k : g[i] <= t,
           OccursBy(f, n, g, k, t), OccursBy(g, k, f, n, t)
    PROVE  n = k /\ \A i \in 1..n : g[i] = f[i]
<1>1. n \in Nat /\ k \in Nat
  BY DEF Rises
<1>2. AgreesBy(f, n, g, k, t) /\ AgreesBy(g, k, f, n, t)
  BY IncreasingAgree
<1>3. /\ \A i \in 1..n : i \in 1..k /\ g[i] = f[i]
      /\ \A i \in 1..k : i \in 1..n
  BY <1>2 DEF AgreesBy
<1>4. n <= k
  <2>1. n = 0 \/ n \in 1..n
    BY <1>1
  <2>. QED  BY <1>1, <1>3, <2>1
<1>5. k <= n
  <2>1. k = 0 \/ k \in 1..k
    BY <1>1
  <2>. QED  BY <1>1, <1>3, <2>1
<1>. QED  BY <1>1, <1>3, <1>4, <1>5
=============================================================================
