-------------------------------- MODULE Maxima --------------------------------
(***************************************************************************)
(* The greatest element of a finite set of numbers, without induction: the *)
(* numbers not above some element are an initial segment of Nat, whose     *)
(* cardinality tells where it ends.  From it, induction for a set in place *)
(* of a predicate, functions defined by recursion on numbers, and what a   *)
(* filter keeps of a list.                                                 *)
(***************************************************************************)
EXTENDS Filter, FiniteSets, FiniteSetsExt, FiniteSetTheorems, SequenceTheorems, TLAPS

\* A set of numbers below a bound has a greatest element.
LEMMA BoundedMax ==
  ASSUME NEW n \in Nat, NEW S \in SUBSET (0 .. n), S # {}
  PROVE  \E x \in S : \A y \in S : x >= y
  <1> DEFINE D == {d \in 0 .. n : \E y \in S : d <= y}
             k == Cardinality(D)
  <1>1. IsFiniteSet(0 .. n)
    BY FS_Interval
  <1>2. D \in SUBSET (0 .. n) /\ S \subseteq D /\ IsFiniteSet(D) /\ k \in Nat
    BY <1>1, FS_Subset, FS_CardinalityType
  <1>3. ASSUME NEW d \in D, NEW e \in Nat, e <= d
        PROVE  e \in D
    <2>1. PICK y \in S : d <= y
      BY <1>3
    <2>2. e \in 0 .. n /\ e <= y
      BY <1>2, <1>3, <2>1
    <2> QED
      BY <2>2
  <1>4. k \notin D
    <2> SUFFICES ASSUME k \in D PROVE FALSE
      OBVIOUS
    <2>1. 0 .. k \subseteq D
      BY <1>2, <1>3
    <2>2. Cardinality(0 .. k) = k + 1
      BY <1>2, FS_Interval
    <2>3. Cardinality(0 .. k) <= k
      BY <1>2, <2>1, FS_Subset
    <2> HIDE DEF D, k
    <2> QED
      BY <1>2, <2>2, <2>3
  <1>5. k > 0 /\ k - 1 \in D
    <2>1. 0 \in D
      <3>1. PICK y \in S : TRUE
        OBVIOUS
      <3>2. y \in D /\ 0 \in Nat /\ 0 <= y
        BY <1>2, <3>1
      <3> QED
        BY <1>3, <3>2
    <2>2. k # 0
      BY <1>4, <2>1
    <2>3. ASSUME k - 1 \notin D PROVE FALSE
      <3>1. D \subseteq 0 .. (k - 2)
        <4> SUFFICES ASSUME NEW d \in D PROVE d \in 0 .. (k - 2)
          OBVIOUS
        <4>1. d \in Nat
          BY <1>2
        <4>2. ~(k - 1 <= d)
          <5>1. k - 1 \in Nat
            BY <1>2, <2>2
          <5> QED
            BY <1>3, <2>3, <5>1
        <4> HIDE DEF D, k
        <4> QED
          BY <1>2, <4>1, <4>2
      <3>2. k - 2 \in Int
        BY <1>2
      <3>3. IsFiniteSet(0 .. (k - 2)) /\ Cardinality(0 .. (k - 2)) = IF 0 > k - 2 THEN 0 ELSE k - 2 - 0 + 1
        BY <3>2, FS_Interval
      <3>4. k <= Cardinality(0 .. (k - 2))
        BY <3>1, <3>3, FS_Subset
      <3> HIDE DEF D, k
      <3> QED
        BY <1>2, <2>2, <3>3, <3>4
    <2> HIDE DEF D
    <2> QED
      BY <1>2, <2>2, <2>3
  <1>6. \A y \in S : k - 1 >= y
    <2> TAKE y \in S
    <2>1. y \in D /\ y \in Nat
      BY <1>2
    <2>2. ~(k <= y)
      BY <1>2, <1>3, <1>4, <2>1
    <2> HIDE DEF D, k
    <2> QED
      BY <1>2, <2>1, <2>2
  <1>7. PICK x \in S : k - 1 <= x
    BY <1>5
  <1>8. x \in Nat /\ k \in Nat
    BY <1>2
  <1> HIDE DEF D, k
  <1> QED
    BY <1>6, <1>7, <1>8

\* So does a finite set of numbers.
LEMMA GreatestExists ==
  ASSUME NEW S \in SUBSET Nat, IsFiniteSet(S), S # {}
  PROVE  \E x \in S : \A y \in S : x >= y
  <1> DEFINE Above(x) == {y \in S : y > x}
             n == Cardinality(S)
             Rank(x) == n - Cardinality(Above(x))
             R == {Rank(x) : x \in S}
  <1>1. n \in Nat /\ \A x \in S : /\ IsFiniteSet(Above(x))
                                  /\ Cardinality(Above(x)) \in 0 .. n
    BY FS_Subset, FS_CardinalityType
  <1>2. R \in SUBSET (0 .. n) /\ R # {}
    <2>1. \A x \in S : Rank(x) \in 0 .. n
      <3> HIDE DEF n, Above
      <3> QED
        BY <1>1
    <2> QED
      BY <2>1
  <1>3. PICK m \in R : \A i \in R : m >= i
    <2> HIDE DEF n, R
    <2> QED
      BY <1>1, <1>2, BoundedMax
  <1>4. PICK x \in S : m = Rank(x)
    BY <1>3
  <1>5. \A y \in S : Cardinality(Above(x)) <= Cardinality(Above(y))
    <2> TAKE y \in S
    <2>1. Rank(x) >= Rank(y)
      BY <1>3, <1>4
    <2> HIDE DEF n, Above
    <2> QED
      BY <1>1, <2>1
  <1>6. \A y \in S : x >= y
    <2> SUFFICES ASSUME NEW y \in S, y > x PROVE FALSE
      OBVIOUS
    <2>0. x \in Nat /\ y \in Nat /\ \A z \in S : z \in Nat
      OBVIOUS
    <2>1. Above(y) \in SUBSET Above(x) /\ y \in Above(x) /\ y \notin Above(y)
      <3>1. \A z \in S : z > y => z > x
        BY <2>0
      <3>2. ~(y > y)
        BY <2>0
      <3> QED
        BY <3>1, <3>2
    <2>2. Cardinality(Above(y)) <= Cardinality(Above(x)) /\ Cardinality(Above(x)) # Cardinality(Above(y))
      BY <1>1, <2>1, FS_Subset
    <2> HIDE DEF n, Above
    <2> QED
      BY <1>1, <1>5, <2>2
  <1> QED
    BY <1>6

\* Max of FiniteSetsExt is that element.
LEMMA FiniteMax ==
  ASSUME NEW S \in SUBSET Nat, IsFiniteSet(S), S # {}
  PROVE  Max(S) \in S /\ \A y \in S : Max(S) >= y
  BY GreatestExists DEF Max

\* Min is the least element of a set of positions.
LEMMA BoundedMin ==
  ASSUME NEW n \in Nat, NEW S \in SUBSET (1 .. n), S # {}
  PROVE  Min(S) \in S /\ \A y \in S : Min(S) <= y
  <1> DEFINE T == {n - x : x \in S}
  <1>1. T \in SUBSET (0 .. n) /\ T # {}
    <2>1. \A x \in S : n - x \in 0 .. n
      OBVIOUS
    <2> QED
      BY <2>1
  <1>2. PICK t \in T : \A u \in T : t >= u
    <2> HIDE DEF T
    <2> QED
      BY <1>1, BoundedMax
  <1>3. PICK x \in S : t = n - x
    BY <1>2
  <1>4. \A y \in S : x <= y
    <2> TAKE y \in S
    <2>1. n - x >= n - y
      BY <1>2, <1>3
    <2> QED
      BY <2>1
  <1> HIDE DEF T
  <1> QED
    BY <1>4 DEF Min

\* The greater of two numbers.
LEMMA MaxOfTwo ==
  ASSUME NEW a \in Nat, NEW b \in Nat
  PROVE  Max({a, b}) = IF a >= b THEN a ELSE b
  <1>1. \E x \in {a, b} : \A y \in {a, b} : x >= y
    OBVIOUS
  <1>2. Max({a, b}) \in {a, b} /\ \A y \in {a, b} : Max({a, b}) >= y
    BY <1>1 DEF Max
  <1> QED
    BY <1>2

\* Induction: a set of numbers with 0 and the successor of each of its elements is Nat.
LEMMA SetInduction ==
  ASSUME NEW S \in SUBSET Nat, 0 \in S, \A n \in S : n + 1 \in S
  PROVE  \A n \in Nat : n \in S
  <1> SUFFICES ASSUME NEW n \in Nat PROVE n \in S
    OBVIOUS
  <1> DEFINE J == {d \in 0 .. n : d \in S}
             T == {d \in 0 .. n : d \notin S}
  <1>1. ASSUME n \notin S PROVE FALSE
    <2> DEFINE M == {n - d : d \in T}
    <2>1. M \in SUBSET (0 .. n) /\ M # {}
      <3>1. \A d \in T : n - d \in 0 .. n
        OBVIOUS
      <3>2. n \in T
        BY <1>1
      <3> HIDE DEF T
      <3> QED
        BY <3>1, <3>2
    <2>2. PICK m \in M : \A k \in M : m >= k
      <3> HIDE DEF M
      <3> QED
        BY <2>1, BoundedMax
    <2>3. PICK d \in T : m = n - d
      BY <2>2
    <2>4. d \in Nat /\ d <= n /\ d \notin S /\ d # 0
      BY <2>3
    <2>5. d - 1 \notin S
      <3>1. ASSUME d - 1 \in S PROVE FALSE
        <4>1. (d - 1) + 1 \in S
          BY <3>1
        <4>2. (d - 1) + 1 = d
          BY <2>4
        <4> QED
          BY <2>4, <4>1, <4>2
      <3> QED
        BY <3>1
    <2>6. d - 1 \in T
      BY <2>4, <2>5
    <2>7. m >= n - (d - 1)
      BY <2>2, <2>6
    <2> HIDE DEF M, T
    <2> QED
      BY <2>3, <2>4, <2>7
  <1> QED
    BY <1>1

\* g has the value v at 0, and the one D gives at each of the next N numbers.
Follows(g, N, v, D) == g[0] = v /\ \A i \in 1 .. N : g[i] = D[<<g[i - 1], i>>]

\* Such a function exists, for every v and D.
LEMMA Recursion ==
  \A N \in Nat : \A S : \A v \in S : \A D \in [S \X (1 .. N) -> S] :
    \E g \in [0 .. N -> S] : Follows(g, N, v, D)
  <1> SUFFICES ASSUME NEW N \in Nat, NEW S, NEW v \in S, NEW D \in [S \X (1 .. N) -> S]
               PROVE  \E g \in [0 .. N -> S] : Follows(g, N, v, D)
    OBVIOUS
  <1> DEFINE Upto(k, g) == g[0] = v /\ \A i \in 1 .. k : g[i] = D[<<g[i - 1], i>>]
             K == {k \in Nat : k <= N => \E g \in [0 .. k -> S] : Upto(k, g)}
  <1>1. 0 \in K
    <2> DEFINE g == [i \in 0 .. 0 |-> v]
    <2>1. g \in [0 .. 0 -> S] /\ Upto(0, g)
      OBVIOUS
    <2> HIDE DEF g, Upto
    <2> QED
      BY <2>1
  <1>2. ASSUME NEW k \in K PROVE k + 1 \in K
    <2> SUFFICES ASSUME k + 1 <= N PROVE \E g \in [0 .. (k + 1) -> S] : Upto(k + 1, g)
      BY <1>2
    <2>1. PICK g \in [0 .. k -> S] : Upto(k, g)
      BY <1>2
    <2> DEFINE h == [i \in 0 .. (k + 1) |-> IF i = k + 1 THEN D[<<g[k], k + 1>>] ELSE g[i]]
    <2>2. g[k] \in S /\ D[<<g[k], k + 1>>] \in S
      BY <2>1
    <2>3. h \in [0 .. (k + 1) -> S]
      BY <2>1, <2>2
    <2>4. h[0] = v
      BY <2>1
    <2>5. \A i \in 1 .. (k + 1) : h[i] = D[<<h[i - 1], i>>]
      <3> TAKE i \in 1 .. (k + 1)
      <3>1. CASE i = k + 1
        <4>1. i - 1 = k /\ k # k + 1 /\ k \in 0 .. (k + 1)
          BY <3>1
        <4> QED
          BY <3>1, <4>1
      <3>2. CASE i # k + 1
        <4>1. i \in 1 .. k /\ i - 1 # k + 1 /\ i - 1 \in 0 .. (k + 1)
          BY <3>2
        <4>2. h[i] = g[i] /\ h[i - 1] = g[i - 1]
          BY <4>1, <3>2
        <4> QED
          BY <2>1, <4>1, <4>2
      <3> QED
        BY <3>1, <3>2
    <2>6. Upto(k + 1, h)
      BY <2>4, <2>5
    <2> HIDE DEF h, Upto
    <2> QED
      BY <2>3, <2>6
  <1>3. N \in K
    <2>1. K \in SUBSET Nat
      OBVIOUS
    <2> HIDE DEF K
    <2> QED
      BY <1>1, <1>2, <2>1, SetInduction
  <1> QED
    BY <1>3 DEF Follows

-----------------------------------------------------------------------------
(***************************************************************************)
(* Filtering.                                                              *)
(***************************************************************************)
\* The entries kept of each beginning of the list.
Keeping(list, wanted) ==
  LET kept[n \in 0 .. Len(list)] ==
        IF n = 0 THEN <<>>
        ELSE IF list[n] \in wanted THEN Append(kept[n - 1], list[n]) ELSE kept[n - 1]
  IN  kept

\* The recursive definition of a filter has its fixed point.
LEMMA KeepingSteps ==
  ASSUME NEW S, NEW list \in Seq(S), NEW wanted
  PROVE  /\ Keeping(list, wanted) \in [0 .. Len(list) -> Seq(S)]
         /\ Keeping(list, wanted)[0] = <<>>
         /\ \A n \in 1 .. Len(list) :
              Keeping(list, wanted)[n] =
                IF list[n] \in wanted THEN Append(Keeping(list, wanted)[n - 1], list[n])
                                      ELSE Keeping(list, wanted)[n - 1]
  <1> DEFINE N == Len(list)
             Step(s, n) == IF list[n] \in wanted THEN Append(s, list[n]) ELSE s
             D == [p \in Seq(S) \X (1 .. N) |-> Step(p[1], p[2])]
             Body(g) == [n \in 0 .. N |-> IF n = 0 THEN <<>> ELSE Step(g[n - 1], n)]
  <1>1. N \in Nat /\ <<>> \in Seq(S) /\ \A s \in Seq(S), n \in 1 .. N : Step(s, n) \in Seq(S)
    OBVIOUS
  <1>2. D \in [Seq(S) \X (1 .. N) -> Seq(S)]
    <2> HIDE DEF Step, N
    <2> QED
      BY <1>1
  <1>3. PICK g \in [0 .. N -> Seq(S)] : g[0] = <<>> /\ \A n \in 1 .. N : g[n] = D[<<g[n - 1], n>>]
    <2> DEFINE T == Seq(S)
               v == <<>>
    <2>1. v \in T /\ D \in [T \X (1 .. N) -> T] /\ N \in Nat
      BY <1>1, <1>2
    <2> HIDE DEF D, N, T, v
    <2>2. \E g \in [0 .. N -> T] : Follows(g, N, v, D)
      BY <2>1, Recursion
    <2> QED
      BY <2>2 DEF T, v, Follows
  <1>4. g = Body(g)
    <2>1. \A n \in 1 .. N : g[n] = Step(g[n - 1], n)
      <3> TAKE n \in 1 .. N
      <3>1. n - 1 \in 0 .. N
        BY <1>1
      <3>2. g[n - 1] \in Seq(S)
        BY <1>3, <3>1
      <3> HIDE DEF Step, N
      <3> QED
        BY <1>3, <3>2
    <2> HIDE DEF Step, N
    <2> QED
      BY <1>1, <1>3, <2>1
  <1>5. Keeping(list, wanted) = CHOOSE f : f = Body(f)
    BY DEF Keeping
  <1> DEFINE K == Keeping(list, wanted)
  <1>6. K = Body(K)
    <2> HIDE DEF Body, K
    <2> QED
      BY <1>4, <1>5 DEF K
  <1>7. K[0] = <<>> /\ \A n \in 1 .. N : K[n] = Step(K[n - 1], n)
    <2>1. \A n \in 0 .. N : Body(K)[n] = IF n = 0 THEN <<>> ELSE Step(K[n - 1], n)
      <3> HIDE DEF Step, N, K
      <3> QED
        OBVIOUS
    <2> HIDE DEF Step, N, K, Body
    <2> QED
      BY <1>1, <1>6, <2>1
  <1>8. \A n \in 0 .. N : K[n] \in Seq(S)
    <2> DEFINE J == {n \in Nat : n <= N => K[n] \in Seq(S)}
    <2> HIDE DEF Step, N, K, Body, D
    <2>1. 0 \in J
      BY <1>1, <1>7
    <2>2. ASSUME NEW n \in J PROVE n + 1 \in J
      <3> SUFFICES ASSUME n + 1 <= N PROVE K[n + 1] \in Seq(S)
        OBVIOUS
      <3>1. K[n] \in Seq(S) /\ n + 1 \in 1 .. N /\ (n + 1) - 1 = n
        BY <1>1
      <3> QED
        BY <1>1, <1>7, <3>1
    <2>3. \A n \in Nat : n \in J
      <3> HIDE DEF J
      <3>1. J \in SUBSET Nat
        BY DEF J
      <3> QED
        BY <2>1, <2>2, <3>1, SetInduction
    <2> QED
      BY <1>1, <2>3
  <1>9. K \in [0 .. N -> Seq(S)]
    <2>1. K = [n \in 0 .. N |-> K[n]]
      <3> HIDE DEF Step, N, K
      <3> QED
        BY <1>6
    <2> HIDE DEF Step, N, K, Body
    <2> QED
      BY <1>8, <2>1
  <1> QED
    BY <1>7, <1>9

\* h leads from each entry kept to its place among the first n entries of the list,
\* and to each of the wanted ones.
Places(h, kept, list, wanted, n) ==
  /\ h \in [1 .. Len(kept) -> 1 .. n]
  /\ \A i \in 1 .. Len(kept) : kept[i] = list[h[i]] /\ kept[i] \in wanted
  /\ \A i, j \in 1 .. Len(kept) : h[i] = h[j] => i = j
  /\ \A m \in 1 .. n : list[m] \in wanted => \E i \in 1 .. Len(kept) : h[i] = m

\* The places of kept entries follow one another as the entries do.
InOrder(h, kept) == \A i, j \in 1 .. Len(kept) : i < j => h[i] < h[j]

\* Filtering keeps exactly the wanted entries, each once, in their order (Kept).
LEMMA KeptInOrder ==
  ASSUME NEW S, NEW list \in Seq(S), NEW wanted
  PROVE  /\ Kept(list, wanted) \in Seq(S)
         /\ \E h : /\ Places(h, Kept(list, wanted), list, wanted, Len(list))
                   /\ InOrder(h, Kept(list, wanted))
  <1> DEFINE N == Len(list)
             K == Keeping(list, wanted)
             P(n) == \E h : Places(h, K[n], list, wanted, n) /\ InOrder(h, K[n])
             J == {n \in Nat : n <= N => P(n)}
  <1>1. /\ N \in Nat
        /\ K \in [0 .. N -> Seq(S)]
        /\ K[0] = <<>>
        /\ \A n \in 1 .. N : K[n] = IF list[n] \in wanted THEN Append(K[n - 1], list[n]) ELSE K[n - 1]
    BY KeepingSteps
  <1>2. Kept(list, wanted) = K[N]
    BY DEF Kept, Keeping
  <1> HIDE DEF K
  <1>3. 0 \in J
    <2>1. K[0] \in Seq(S) /\ Len(K[0]) = 0
      BY <1>1
    <2> DEFINE h == [i \in 1 .. 0 |-> 0]
    <2>2. Places(h, K[0], list, wanted, 0) /\ InOrder(h, K[0])
      BY <2>1 DEF Places, InOrder
    <2> HIDE DEF h
    <2>3. P(0)
      BY <2>2
    <2> QED
      BY <2>3
  <1>4. ASSUME NEW n \in J PROVE n + 1 \in J
    <2> SUFFICES ASSUME n + 1 <= N PROVE P(n + 1)
      BY <1>4
    <2>1. n \in Nat /\ n \in 0 .. N /\ n + 1 \in 1 .. N /\ (n + 1) - 1 = n
      BY <1>1
    <2>2. PICK h : Places(h, K[n], list, wanted, n) /\ InOrder(h, K[n])
      BY <1>1
    <2> DEFINE k == K[n]
               e == list[n + 1]
    <2>3. k \in Seq(S) /\ Len(k) \in Nat /\ e \in S
      <3>1. k \in Seq(S)
        BY <1>1, <2>1
      <3>2. e \in S
        BY <2>1, ElementOfSeq
      <3> QED
        BY <3>1, <3>2, LenProperties
    <2>4. CASE e \in wanted
      <3> DEFINE g == [i \in 1 .. (Len(k) + 1) |-> IF i = Len(k) + 1 THEN n + 1 ELSE h[i]]
      <3>1. K[n + 1] = Append(k, e)
        BY <1>1, <2>1, <2>4
      <3>2. Len(Append(k, e)) = Len(k) + 1
        BY <2>3
      <3>a. \A i \in 1 .. (Len(k) + 1) : i = Len(k) + 1 \/ i \in 1 .. Len(k)
        BY <2>3
      <3>b. h \in [1 .. Len(k) -> 1 .. n]
        BY <2>2 DEF Places
      <3>c. \A i \in 1 .. Len(k) : g[i] = h[i] /\ g[i] \in 1 .. n /\ Append(k, e)[i] = k[i]
        <4> TAKE i \in 1 .. Len(k)
        <4>1. i \in 1 .. (Len(k) + 1) /\ i # Len(k) + 1
          BY <2>3
        <4>2. g[i] = h[i] /\ h[i] \in 1 .. n
          BY <3>b, <4>1
        <4>3. Append(k, e)[i] = k[i]
          BY <2>3, AppendProperties
        <4> QED
          BY <4>2, <4>3
      <3>d. g[Len(k) + 1] = n + 1 /\ Append(k, e)[Len(k) + 1] = e /\ DOMAIN g = 1 .. (Len(k) + 1)
        BY <2>3
      <3>e. \A i \in 1 .. (Len(k) + 1) : g[i] \in 1 .. (n + 1)
        <4> HIDE DEF g, k, e
        <4>1. 1 .. n \subseteq 1 .. (n + 1) /\ n + 1 \in 1 .. (n + 1)
          BY <2>1
        <4> QED
          BY <3>a, <3>c, <3>d, <4>1
      <3>3. g \in [1 .. (Len(k) + 1) -> 1 .. (n + 1)]
        <4> HIDE DEF k, e
        <4> QED
          BY <3>e
      <3> HIDE DEF g, k, e
      <3>4. \A i \in 1 .. (Len(k) + 1) : Append(k, e)[i] = list[g[i]] /\ Append(k, e)[i] \in wanted
        BY <2>2, <2>4, <3>a, <3>c, <3>d DEF Places, k, e
      <3>5. \A i, j \in 1 .. (Len(k) + 1) : g[i] = g[j] => i = j
        <4> TAKE i, j \in 1 .. (Len(k) + 1)
        <4>1. \A x \in 1 .. Len(k) : g[x] # n + 1
          BY <2>1, <3>c
        <4>2. \A x, y \in 1 .. Len(k) : g[x] = g[y] => x = y
          BY <2>2, <3>c DEF Places, k
        <4> QED
          BY <3>a, <3>d, <4>1, <4>2
      <3>6. \A m \in 1 .. (n + 1) : list[m] \in wanted => \E i \in 1 .. (Len(k) + 1) : g[i] = m
        <4> TAKE m \in 1 .. (n + 1)
        <4>1. CASE m = n + 1
          BY <2>3, <3>d, <4>1
        <4>2. CASE m \in 1 .. n
          <5>1. ASSUME list[m] \in wanted PROVE \E i \in 1 .. Len(k) : h[i] = m
            BY <2>2, <4>2, <5>1 DEF Places, k
          <5> QED
            BY <2>3, <3>c, <5>1
        <4> QED
          BY <2>1, <4>1, <4>2
      <3>7. Places(g, K[n + 1], list, wanted, n + 1)
        <4> HIDE DEF P, J
        <4>1. Places(g, Append(k, e), list, wanted, n + 1)
          <5> DEFINE t == Append(k, e)
          <5>1. Len(t) = Len(k) + 1
            BY <3>2
          <5> HIDE DEF t
          <5>2. g \in [1 .. Len(t) -> 1 .. (n + 1)]
            BY <3>3, <5>1
          <5>3. \A i \in 1 .. Len(t) : t[i] = list[g[i]] /\ t[i] \in wanted
            BY <3>4, <5>1 DEF t
          <5>4. \A i, j \in 1 .. Len(t) : g[i] = g[j] => i = j
            BY <3>5, <5>1
          <5>5. \A m \in 1 .. (n + 1) : list[m] \in wanted => \E i \in 1 .. Len(t) : g[i] = m
            BY <3>6, <5>1
          <5>6. Places(g, t, list, wanted, n + 1)
            BY <5>2, <5>3, <5>4, <5>5 DEF Places
          <5> QED
            BY <5>6 DEF t
        <4> QED
          BY <3>1, <4>1
      <3>8. InOrder(g, K[n + 1])
        <4> SUFFICES ASSUME NEW i \in 1 .. (Len(k) + 1), NEW j \in 1 .. (Len(k) + 1), i < j
                     PROVE  g[i] < g[j]
          BY <3>1, <3>2 DEF InOrder
        <4>1. i \in 1 .. Len(k) /\ g[i] = h[i] /\ g[i] \in 1 .. n
          <5>1. i \in 1 .. Len(k)
            BY <2>3, <3>a
          <5> QED
            BY <3>c, <5>1
        <4>2. CASE j = Len(k) + 1
          BY <2>1, <3>d, <4>1, <4>2
        <4>3. CASE j \in 1 .. Len(k)
          <5>1. g[j] = h[j] /\ h[i] < h[j]
            BY <2>2, <3>c, <4>1, <4>3 DEF InOrder, k
          <5> QED
            BY <4>1, <5>1
        <4> QED
          BY <3>a, <4>2, <4>3
      <3> QED
        BY <3>7, <3>8
    <2>5. CASE e \notin wanted
      <3>1. K[n + 1] = k
        BY <1>1, <2>1, <2>5
      <3> HIDE DEF k
      <3>2. Places(h, k, list, wanted, n + 1)
        <4>1. h \in [1 .. Len(k) -> 1 .. (n + 1)]
          <5>1. h \in [1 .. Len(k) -> 1 .. n] /\ 1 .. n \subseteq 1 .. (n + 1)
            BY <2>1, <2>2 DEF Places, k
          <5> QED
            BY <5>1
        <4>2. \A m \in 1 .. (n + 1) : list[m] \in wanted => m \in 1 .. n
          BY <2>1, <2>5
        <4> QED
          BY <2>2, <4>1, <4>2 DEF Places, k
      <3>3. InOrder(h, k)
        BY <2>2 DEF k
      <3> QED
        BY <3>1, <3>2, <3>3
    <2> QED
      BY <2>4, <2>5
  <1>5. P(N)
    <2>1. J \in SUBSET Nat
      OBVIOUS
    <2>2. \A n \in Nat : n \in J
      <3> HIDE DEF J
      <3> QED
        BY <1>3, <1>4, <2>1, SetInduction
    <2> QED
      BY <1>1, <2>2
  <1> QED
    BY <1>1, <1>2, <1>5

\* Filtering keeps exactly the wanted entries, each once (Kept).
LEMMA KeptPlaces ==
  ASSUME NEW S, NEW list \in Seq(S), NEW wanted
  PROVE  /\ Kept(list, wanted) \in Seq(S)
         /\ \E h : Places(h, Kept(list, wanted), list, wanted, Len(list))
  BY KeptInOrder

\* The entries of a filtered list are the wanted ones of the list.
LEMMA KeptEntries ==
  ASSUME NEW S, NEW list \in Seq(S), NEW wanted
  PROVE  /\ Kept(list, wanted) \in Seq(S)
         /\ \A e : (\E i \in DOMAIN Kept(list, wanted) : Kept(list, wanted)[i] = e)
                    <=> e \in wanted /\ \E i \in DOMAIN list : list[i] = e
  <1> DEFINE k == Kept(list, wanted)
  <1>1. k \in Seq(S)
    BY KeptPlaces
  <1>2. PICK h : Places(h, k, list, wanted, Len(list))
    BY KeptPlaces
  <1>3. DOMAIN k = 1 .. Len(k) /\ DOMAIN list = 1 .. Len(list)
    BY <1>1, LenProperties
  <1> HIDE DEF k
  <1>4. \A i \in DOMAIN k : k[i] \in wanted /\ h[i] \in DOMAIN list /\ k[i] = list[h[i]]
    BY <1>2, <1>3 DEF Places
  <1>5. \A m \in DOMAIN list : list[m] \in wanted => \E i \in DOMAIN k : k[i] = list[m]
    BY <1>2, <1>3 DEF Places
  <1>6. \A e : (\E i \in DOMAIN k : k[i] = e) <=> e \in wanted /\ \E i \in DOMAIN list : list[i] = e
    BY <1>4, <1>5
  <1> QED
    BY <1>1, <1>6 DEF k

=============================================================================
