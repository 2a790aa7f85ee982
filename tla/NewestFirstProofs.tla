------------------------- MODULE NewestFirstProofs -------------------------
(***************************************************************************)
(* What the operators of NewestFirst return, for finite sets of numbers.   *)
(* The sorted list of a set is the inverse of the rank of its elements, so *)
(* that it exists without an induction over the set.                       *)
(***************************************************************************)
EXTENDS NewestFirst, FiniteSetTheorems, TLAPS

\* Newest first and oldest first
Falls(q) == \A i, j \in DOMAIN q : i < j => q[i] > q[j]
Rises(q) == \A i, j \in DOMAIN q : i < j => q[i] < q[j]

\* An interval of n numbers
LEMMA IntervalFacts ==
    ASSUME NEW n \in Nat
    PROVE  /\ IsFiniteSet(1 .. n) /\ Cardinality(1 .. n) = n
           /\ IsFiniteSet(0 .. (n - 1)) /\ Cardinality(0 .. (n - 1)) = n
<1>1. 1 \in Int /\ n \in Int /\ 0 \in Int /\ n - 1 \in Int
  OBVIOUS
<1>2. IsFiniteSet(1 .. n) /\ Cardinality(1 .. n) = IF 1 > n THEN 0 ELSE n - 1 + 1
  BY <1>1, FS_Interval
<1>3. IsFiniteSet(0 .. (n - 1)) /\ Cardinality(0 .. (n - 1)) = IF 0 > n - 1 THEN 0 ELSE n - 1 - 0 + 1
  BY <1>1, FS_Interval
<1> QED  BY <1>2, <1>3

\* The elements of S below one of S are fewer than S.
LEMMA BelowFacts ==
    ASSUME NEW S \in SUBSET Nat, IsFiniteSet(S), NEW m \in S
    PROVE  /\ IsFiniteSet({x \in S : x < m})
           /\ Cardinality({x \in S : x < m}) \in 0 .. (Cardinality(S) - 1)
<1>1. {x \in S : x < m} \in SUBSET (S \ {m})
  OBVIOUS
<1>2. IsFiniteSet(S \ {m}) /\ Cardinality(S \ {m}) = Cardinality(S) - 1 /\ Cardinality(S) \in Nat
  BY FS_RemoveElement, FS_CardinalityType
<1>3. /\ IsFiniteSet({x \in S : x < m})
      /\ Cardinality({x \in S : x < m}) <= Cardinality(S \ {m})
  BY <1>1, <1>2, FS_Subset
<1>4. Cardinality({x \in S : x < m}) \in Nat
  BY <1>3, FS_CardinalityType
<1> QED  BY <1>2, <1>3, <1>4

\* A larger element of S has more elements below it.
LEMMA RankGrows ==
    ASSUME NEW S \in SUBSET Nat, IsFiniteSet(S), NEW m \in S, NEW k \in S, m < k
    PROVE  Cardinality({x \in S : x < m}) < Cardinality({x \in S : x < k})
<1> DEFINE A == {x \in S : x < m}
           B == {x \in S : x < k}
<1>1. /\ IsFiniteSet(A) /\ Cardinality(A) \in Nat
      /\ IsFiniteSet(B) /\ Cardinality(B) \in Nat
  BY BelowFacts, FS_CardinalityType
<1>0. m \in Nat /\ k \in Nat /\ S \subseteq Nat
  OBVIOUS
<1>2. A \in SUBSET B /\ m \in B /\ m \notin A
  <2>1. \A x \in A : x \in Nat /\ x \in S /\ x < m
    BY <1>0
  <2>2. \A x \in A : x < k
    BY <1>0, <2>1
  <2>3. A \subseteq B
    BY <2>1, <2>2
  <2>4. m \notin A
    BY <1>0
  <2> QED  BY <2>3, <2>4
<1> HIDE DEF A, B
<1>3. Cardinality(A) <= Cardinality(B) /\ Cardinality(A) # Cardinality(B)
  BY <1>1, <1>2, FS_Subset
<1> QED  BY <1>1, <1>3 DEF A, B

\* Every rank is taken.
LEMMA EveryRank ==
    ASSUME NEW S \in SUBSET Nat, IsFiniteSet(S), NEW i \in 1 .. Cardinality(S)
    PROVE  \E m \in S : Cardinality({x \in S : x < m}) = i - 1
<1> DEFINE n == Cardinality(S)
           T == 0 .. (n - 1)
           rank == [m \in S |-> Cardinality({x \in S : x < m})]
<1>1. n \in Nat /\ i \in 1 .. n
  BY FS_CardinalityType
<1>2. rank \in [S -> T]
  BY BelowFacts
<1>3. \A m, k \in S : m # k => rank[m] # rank[k]
  <2> TAKE m, k \in S
  <2>1. m \in Nat /\ k \in Nat /\ rank[m] \in Nat /\ rank[k] \in Nat
    BY <1>2
  <2>2. CASE m < k
    BY <2>1, <2>2, RankGrows
  <2>3. CASE k < m
    BY <2>1, <2>3, RankGrows
  <2> QED  BY <2>1, <2>2, <2>3
<1> HIDE DEF rank
<1>4. rank \in Injection(S, T)
  BY <1>2, <1>3 DEF Injection, IsInjective
<1>5. IsFiniteSet(T) /\ Cardinality(T) = n
  BY <1>1, IntervalFacts
<1>6. rank \in Surjection(S, T)
  BY <1>4, <1>5, FS_Injection
<1>7. i - 1 \in T
  BY <1>1
<1>8. \E m \in S : rank[m] = i - 1
  BY <1>6, <1>7 DEF Surjection
<1> QED  BY <1>8 DEF rank

\* A rising enumeration of as many elements as S has is one of all of S.
LEMMA Enumerates ==
    ASSUME NEW S \in SUBSET Nat, IsFiniteSet(S), NEW q \in [1 .. Cardinality(S) -> S],
           Rises(q) \/ Falls(q)
    PROVE  q \in Seq(S) /\ Len(q) = Cardinality(S) /\ Elems(q) = S
<1> DEFINE n == Cardinality(S)
<1>1. n \in Nat
  BY FS_CardinalityType
<1>2. q \in [1 .. n -> S]
  OBVIOUS
<1>3. IsFiniteSet(1 .. n) /\ Cardinality(1 .. n) = n /\ n = Cardinality(S)
  BY <1>1, IntervalFacts
<1> HIDE DEF n
<1>4. \A i, j \in 1 .. n : q[i] = q[j] => i = j
  <2> SUFFICES ASSUME NEW i \in 1 .. n, NEW j \in 1 .. n, q[i] = q[j], i # j PROVE FALSE
    OBVIOUS
  <2>1. q[i] \in S /\ S \subseteq Nat /\ DOMAIN q = 1 .. n
    BY <1>2
  <2>2. q[i] \in Nat
    BY <2>1
  <2>3. i < j \/ j < i
    BY <1>1
  <2>4. q[i] < q[j] \/ q[j] < q[i] \/ q[i] > q[j] \/ q[j] > q[i]
    BY <2>1, <2>3 DEF Rises, Falls
  <2> QED  BY <2>2, <2>4
<1>5. q \in Injection(1 .. n, S)
  BY <1>2, <1>4 DEF Injection, IsInjective
<1>6. q \in Surjection(1 .. n, S)
  BY <1>3, <1>5, FS_Injection
<1>7. Elems(q) = S
  BY <1>2, <1>6 DEF Surjection, Elems
<1>8. q \in Seq(S) /\ Len(q) = n
  BY <1>1, <1>2
<1> QED  BY <1>3, <1>7, <1>8

\* Ascending is the sorted sequence of a set.
LEMMA AscendingFacts ==
    ASSUME NEW S \in SUBSET Nat, IsFiniteSet(S)
    PROVE  /\ Ascending(S) \in [1 .. Cardinality(S) -> S]
           /\ Ascending(S) \in Seq(S) /\ Len(Ascending(S)) = Cardinality(S)
           /\ Elems(Ascending(S)) = S
           /\ Rises(Ascending(S))
<1> DEFINE n == Cardinality(S)
           Rank(m) == Cardinality({x \in S : x < m})
           w == [i \in 1 .. n |-> CHOOSE m \in S : Rank(m) = i - 1]
<1>1. \A i \in 1 .. n : w[i] \in S /\ Rank(w[i]) = i - 1
  <2> TAKE i \in 1 .. n
  <2>1. \E m \in S : Rank(m) = i - 1
    BY EveryRank
  <2> QED  BY <2>1
<1>2. n \in Nat
  BY FS_CardinalityType
<1>3. w \in [1 .. n -> S]
  BY <1>1
<1> HIDE DEF w
<1>4. \A i, j \in DOMAIN w : i < j => w[i] < w[j]
  <2> SUFFICES ASSUME NEW i \in 1 .. n, NEW j \in 1 .. n, i < j PROVE w[i] < w[j]
    BY <1>3
  <2>1. w[i] \in S /\ Rank(w[i]) = i - 1 /\ w[j] \in S /\ Rank(w[j]) = j - 1
    BY <1>1
  <2>2. w[j] < w[i] => Rank(w[j]) < Rank(w[i])
    BY <2>1, RankGrows
  <2> HIDE DEF Rank, n
  <2>3. w[i] # w[j] /\ ~(w[j] < w[i])
    BY <1>2, <2>1, <2>2
  <2>4. w[i] \in Nat /\ w[j] \in Nat
    BY <2>1
  <2> QED  BY <2>3, <2>4
<1>5. /\ Ascending(S) \in [1 .. n -> S]
      /\ \A i, j \in DOMAIN Ascending(S) : i < j => Ascending(S)[i] < Ascending(S)[j]
  BY <1>3, <1>4 DEF Ascending
<1>6. Rises(Ascending(S))
  BY <1>5 DEF Rises
<1> QED  BY <1>5, <1>6, Enumerates

\* The i-th element is above exactly i - 1 others.
LEMMA RankOf ==
    ASSUME NEW S \in SUBSET Nat, IsFiniteSet(S), NEW i \in 1 .. Cardinality(S)
    PROVE  Cardinality({x \in S : x < Ascending(S)[i]}) = i - 1
<1> DEFINE n == Cardinality(S)
           q == Ascending(S)
           B == {x \in S : x < q[i]}
           f == [j \in 1 .. (i - 1) |-> q[j]]
<1>1. n \in Nat /\ i \in 1 .. n /\ i - 1 \in Nat
  BY FS_CardinalityType
<1>2. q \in [1 .. n -> S] /\ Elems(q) = S /\ Rises(q)
  BY AscendingFacts
<1> HIDE DEF q, n
<1>3. \A j \in 1 .. n : j < i <=> q[j] < q[i]
  <2> TAKE j \in 1 .. n
  <2>0. q[j] \in S /\ q[i] \in S /\ S \subseteq Nat
    BY <1>1, <1>2
  <2>1. q[j] \in Nat /\ q[i] \in Nat
    BY <2>0
  <2>3. i \in Nat /\ j \in Nat
    BY <1>1
  <2>2. (j < i => q[j] < q[i]) /\ (i < j => q[i] < q[j])
    BY <1>1, <1>2 DEF Rises
  <2> QED  BY <2>1, <2>2, <2>3
<1>4. f \in [1 .. (i - 1) -> B]
  BY <1>1, <1>2, <1>3
<1>5. \A j, k \in 1 .. (i - 1) : f[j] = f[k] => j = k
  <2> SUFFICES ASSUME NEW j \in 1 .. (i - 1), NEW k \in 1 .. (i - 1), f[j] = f[k], j # k PROVE FALSE
    OBVIOUS
  <2>0. j \in 1 .. n /\ k \in 1 .. n /\ q[j] = q[k] /\ (j < k \/ k < j)
    BY <1>1
  <2>1. q[j] \in S /\ S \subseteq Nat /\ DOMAIN q = 1 .. n
    BY <1>2, <2>0
  <2>2. q[j] \in Nat
    BY <2>1
  <2>3. q[j] < q[k] \/ q[k] < q[j]
    BY <1>2, <2>0, <2>1 DEF Rises
  <2> QED  BY <2>0, <2>2, <2>3
<1>6. \A x \in B : \E j \in 1 .. (i - 1) : f[j] = x
  <2> TAKE x \in B
  <2>1. PICK j \in 1 .. n : x = q[j]
    BY <1>2 DEF Elems
  <2>2. j \in 1 .. (i - 1)
    BY <1>1, <1>3, <2>1
  <2> QED  BY <2>1, <2>2
<1> HIDE DEF f, B
<1>7. f \in Bijection(1 .. (i - 1), B)
  BY <1>4, <1>5, <1>6 DEF Bijection, Injection, Surjection, IsInjective
<1>8. Cardinality(B) = i - 1
  BY <1>1, <1>7, FS_CountingElements DEF ExistsBijection
<1> QED  BY <1>8 DEF B, q

\* A sequence read backwards has the same elements.
LEMMA BackwardsFacts ==
    ASSUME NEW A, NEW q \in Seq(A)
    PROVE  /\ Backwards(q) \in Seq(A) /\ Len(Backwards(q)) = Len(q)
           /\ Elems(Backwards(q)) = Elems(q)
           /\ Backwards(Backwards(q)) = q
           /\ A \subseteq Nat /\ Rises(q) => Falls(Backwards(q))
           /\ A \subseteq Nat /\ Falls(q) => Rises(Backwards(q))
<1> DEFINE n == Len(q)
           r == Backwards(q)
<1>1. n \in Nat /\ DOMAIN q = 1 .. n /\ \A i \in 1 .. n : q[i] \in A
  OBVIOUS
<1>2. r = [i \in 1 .. n |-> q[n + 1 - i]]
  BY <1>1 DEF Backwards
<1>3. \A i \in 1 .. n : n + 1 - i \in 1 .. n /\ n + 1 - (n + 1 - i) = i
  BY <1>1
<1> HIDE DEF n, r
<1>4. r \in Seq(A) /\ Len(r) = n /\ DOMAIN r = 1 .. n
  BY <1>1, <1>2, <1>3
<1>5. Elems(r) = Elems(q)
  <2>1. \A i \in 1 .. n : r[i] = q[n + 1 - i] /\ q[i] = r[n + 1 - i]
    BY <1>2, <1>3
  <2>2. ASSUME NEW x \in Elems(r) PROVE x \in Elems(q)
    BY <1>1, <1>3, <1>4, <2>1, <2>2 DEF Elems
  <2>3. ASSUME NEW x \in Elems(q) PROVE x \in Elems(r)
    <3>1. PICK i \in 1 .. n : x = q[i]
      BY <1>1, <2>3 DEF Elems
    <3>2. n + 1 - i \in DOMAIN r /\ r[n + 1 - i] = x
      BY <1>3, <1>4, <2>1, <3>1
    <3> QED  BY <3>2 DEF Elems
  <2> QED  BY <2>2, <2>3
<1>6. Backwards(r) = q
  <2>1. Backwards(r) = [i \in 1 .. n |-> r[n + 1 - i]]
    BY <1>4 DEF Backwards
  <2>2. \A i \in 1 .. n : r[n + 1 - i] = q[i]
    BY <1>2, <1>3
  <2>3. q = [i \in 1 .. n |-> q[i]]
    BY <1>1
  <2> QED  BY <2>1, <2>2, <2>3
<1>7. ASSUME NEW i \in 1 .. n, NEW j \in 1 .. n, i < j PROVE n + 1 - j < n + 1 - i
  BY <1>1, <1>7
<1>8. A \subseteq Nat /\ Rises(q) => Falls(r)
  BY <1>1, <1>2, <1>3, <1>4, <1>7 DEF Rises, Falls
<1>9. A \subseteq Nat /\ Falls(q) => Rises(r)
  BY <1>1, <1>2, <1>3, <1>4, <1>7 DEF Rises, Falls
<1> QED  BY <1>4, <1>5, <1>6, <1>8, <1>9 DEF r, n

\* Descending lists S largest first.
LEMMA DescendingFacts ==
    ASSUME NEW S \in SUBSET Nat, IsFiniteSet(S)
    PROVE  /\ Descending(S) \in Seq(S) /\ Len(Descending(S)) = Cardinality(S)
           /\ Elems(Descending(S)) = S
           /\ Falls(Descending(S))
<1> DEFINE n == Cardinality(S)
           w == Backwards(Ascending(S))
<1>1. Ascending(S) \in Seq(S) /\ Len(Ascending(S)) = n /\ Rises(Ascending(S)) /\ S \subseteq Nat
  BY AscendingFacts
<1>2. w \in Seq(S) /\ Len(w) = n /\ Falls(w)
  BY <1>1, BackwardsFacts
<1> HIDE DEF w
<1>3. w \in [1 .. n -> S]
  BY <1>2
<1>4. \A i, j \in DOMAIN w : i < j => w[i] > w[j]
  BY <1>2 DEF Falls
<1>5. /\ Descending(S) \in [1 .. n -> S]
      /\ \A i, j \in DOMAIN Descending(S) : i < j => Descending(S)[i] > Descending(S)[j]
  BY <1>3, <1>4 DEF Descending
<1>6. Falls(Descending(S))
  BY <1>5 DEF Falls
<1> QED  BY <1>5, <1>6, Enumerates

\* Only selects.
LEMMA OnlyFacts ==
    ASSUME NEW A, NEW q \in Seq(A), NEW S
    PROVE  /\ Only(q, S) \in Seq(A)
           /\ Elems(Only(q, S)) = Elems(q) \cap S
           /\ Len(Only(q, S)) = Cardinality({i \in DOMAIN q : q[i] \in S})
           /\ A \subseteq Nat /\ Falls(q) => Falls(Only(q, S))
           /\ Elems(q) \subseteq S => Only(q, S) = q
<1> DEFINE K == {i \in DOMAIN q : q[i] \in S}
           k == Ascending(K)
           r == Only(q, S)
<1>1. Len(q) \in Nat /\ DOMAIN q = 1 .. Len(q) /\ \A i \in DOMAIN q : q[i] \in A
  OBVIOUS
<1>2. K \in SUBSET Nat /\ IsFiniteSet(K) /\ K \subseteq DOMAIN q
  <2>1. IsFiniteSet(1 .. Len(q)) /\ K \in SUBSET (1 .. Len(q))
    BY <1>1, FS_Interval
  <2> QED  BY <1>1, <2>1, FS_Subset
<1>3. r = [j \in DOMAIN k |-> q[k[j]]]
  BY DEF Only
<1>4. \A i \in K : i \in DOMAIN q /\ q[i] \in S
  OBVIOUS
<1>5. \A i \in DOMAIN q : q[i] \in S => i \in K
  OBVIOUS
<1> HIDE DEF K
<1>6. /\ k \in Seq(K) /\ Len(k) = Cardinality(K) /\ Cardinality(K) \in Nat
      /\ DOMAIN k = 1 .. Cardinality(K)
      /\ Elems(k) = K /\ Rises(k)
  BY <1>2, AscendingFacts, FS_CardinalityType
<1> HIDE DEF k, r
<1>7. \A j \in 1 .. Cardinality(K) : k[j] \in K /\ r[j] = q[k[j]]
  BY <1>3, <1>6
<1>8. r \in Seq(A) /\ DOMAIN r = 1 .. Cardinality(K) /\ Len(r) = Cardinality(K)
  <2> DEFINE c == Cardinality(K)
  <2>1. c \in Nat /\ r = [j \in 1 .. c |-> r[j]] /\ \A j \in 1 .. c : r[j] \in A
    BY <1>1, <1>2, <1>3, <1>6, <1>7
  <2> HIDE DEF c
  <2>2. r \in Seq(A) /\ DOMAIN r = 1 .. c /\ Len(r) = c
    BY <2>1
  <2> QED  BY <2>2 DEF c
<1>9. Elems(r) = Elems(q) \cap S
  <2>1. ASSUME NEW x \in Elems(r) PROVE x \in Elems(q) \cap S
    BY <1>4, <1>7, <1>8, <2>1 DEF Elems
  <2>2. ASSUME NEW x \in Elems(q) \cap S PROVE x \in Elems(r)
    <3>1. PICK i \in DOMAIN q : x = q[i]
      BY <2>2 DEF Elems
    <3>2. PICK j \in DOMAIN k : i = k[j]
      BY <1>5, <1>6, <2>2, <3>1 DEF Elems
    <3> QED  BY <1>6, <1>7, <1>8, <3>1, <3>2 DEF Elems
  <2> QED  BY <2>1, <2>2
<1>10. ASSUME A \subseteq Nat, Falls(q) PROVE Falls(r)
  <2> SUFFICES ASSUME NEW i \in 1 .. Cardinality(K), NEW j \in 1 .. Cardinality(K), i < j
               PROVE  r[i] > r[j]
    BY <1>8 DEF Falls
  <2>1. k[i] < k[j] /\ k[i] \in DOMAIN q /\ k[j] \in DOMAIN q
    BY <1>4, <1>6, <1>7 DEF Rises
  <2> QED  BY <1>7, <1>10, <2>1 DEF Falls
<1>11. ASSUME Elems(q) \subseteq S PROVE r = q
  <2>1. K = 1 .. Len(q)
    BY <1>1, <1>2, <1>5, <1>11 DEF Elems
  <2>2. Cardinality(K) = Len(q)
    BY <1>1, <2>1, IntervalFacts
  <2>3. \A j \in 1 .. Len(q) : k[j] = j
    <3> TAKE j \in 1 .. Len(q)
    <3>1. \A m \in K : {x \in K : x < m} = 1 .. (m - 1) /\ Cardinality(1 .. (m - 1)) = m - 1
      <4> TAKE m \in K
      <4>1. m \in Nat /\ m >= 1 /\ m <= Len(q)
        BY <1>1, <2>1
      <4>2. Cardinality(1 .. (m - 1)) = m - 1
        <5>1. m - 1 \in Nat
          BY <4>1
        <5> QED  BY <5>1, IntervalFacts
      <4>3. {x \in K : x < m} = 1 .. (m - 1)
        BY <1>1, <2>1, <4>1
      <4> QED  BY <4>2, <4>3
    <3>4. k[j] \in K /\ Cardinality({x \in K : x < k[j]}) = j - 1
      BY <1>2, <1>7, <2>2, RankOf DEF k
    <3>5. k[j] - 1 = j - 1
      BY <3>1, <3>4
    <3>6. k[j] \in Nat /\ j \in Nat
      BY <1>1, <2>1, <3>4
    <3> QED  BY <3>5, <3>6
  <2>4. r = [j \in 1 .. Len(q) |-> q[j]]
    BY <1>3, <1>6, <2>2, <2>3
  <2> QED  BY <1>1, <2>4
<1> QED  BY <1>8, <1>9, <1>10, <1>11 DEF r, K

\* The elements of sequences put together
LEMMA JoinFacts ==
    ASSUME NEW A, NEW s \in Seq(A), NEW t \in Seq(A)
    PROVE  /\ s \o t \in Seq(A) /\ Len(s \o t) = Len(s) + Len(t)
           /\ Elems(s \o t) = Elems(s) \cup Elems(t)
<1> DEFINE a == Len(s)
           b == Len(t)
           q == s \o t
<1>1. /\ a \in Nat /\ b \in Nat /\ DOMAIN s = 1 .. a /\ DOMAIN t = 1 .. b
      /\ q \in Seq(A) /\ Len(q) = a + b /\ DOMAIN q = 1 .. (a + b)
  OBVIOUS
<1>2. \A i \in 1 .. a : q[i] = s[i] /\ i \in 1 .. (a + b)
  OBVIOUS
<1>3. \A i \in 1 .. b : q[a + i] = t[i] /\ a + i \in 1 .. (a + b)
  OBVIOUS
<1> HIDE DEF a, b, q
<1>4. \A i \in 1 .. (a + b) : i \in 1 .. a \/ (i - a \in 1 .. b /\ i = a + (i - a))
  BY <1>1
<1>5. Elems(q) = Elems(s) \cup Elems(t)
  <2>1. ASSUME NEW i \in 1 .. (a + b) PROVE q[i] \in Elems(s) \cup Elems(t)
    <3>1. CASE i \in 1 .. a
      BY <1>1, <1>2, <3>1 DEF Elems
    <3>2. CASE i - a \in 1 .. b /\ i = a + (i - a)
      <4>1. q[i] = t[i - a]
        BY <1>3, <3>2
      <4> QED  BY <1>1, <3>2, <4>1 DEF Elems
    <3> QED  BY <1>4, <3>1, <3>2
  <2>2. \A i \in 1 .. a : s[i] \in Elems(q)
    BY <1>1, <1>2 DEF Elems
  <2>3. \A i \in 1 .. b : t[i] \in Elems(q)
    BY <1>1, <1>3 DEF Elems
  <2> QED  BY <1>1, <2>1, <2>2, <2>3 DEF Elems
<1> QED  BY <1>1, <1>5 DEF a, b, q

\* A falling sequence that continues below falls.
LEMMA JoinFalls ==
    ASSUME NEW A, NEW s \in Seq(A), NEW t \in Seq(A), Falls(s), Falls(t),
           \A x \in Elems(s), y \in Elems(t) : x > y
    PROVE  Falls(s \o t)
<1> DEFINE a == Len(s)
           b == Len(t)
           q == s \o t
<1>1. /\ a \in Nat /\ b \in Nat /\ DOMAIN s = 1 .. a /\ DOMAIN t = 1 .. b
      /\ q \in Seq(A) /\ Len(q) = a + b /\ DOMAIN q = 1 .. (a + b)
  OBVIOUS
<1>2. \A i \in 1 .. a : q[i] = s[i] /\ i \in 1 .. (a + b)
  OBVIOUS
<1>3. \A i \in 1 .. b : q[a + i] = t[i] /\ a + i \in 1 .. (a + b)
  OBVIOUS
<1> HIDE DEF a, b, q
<1>4. \A i \in 1 .. (a + b) : i \in 1 .. a \/ (i - a \in 1 .. b /\ i = a + (i - a))
  BY <1>1
<1>6. Falls(q)
  <2> SUFFICES ASSUME NEW i \in 1 .. (a + b), NEW j \in 1 .. (a + b), i < j PROVE q[i] > q[j]
    BY <1>1 DEF Falls
  <2>1. CASE i \in 1 .. a /\ j \in 1 .. a
    BY <1>1, <1>2, <2>1 DEF Falls
  <2>2. CASE i \in 1 .. a /\ j - a \in 1 .. b /\ j = a + (j - a)
    <3>1. s[i] \in Elems(s) /\ t[j - a] \in Elems(t)
      BY <1>1, <2>2 DEF Elems
    <3>2. q[i] = s[i] /\ q[j] = t[j - a]
      BY <1>2, <1>3, <2>2
    <3> QED  BY <3>1, <3>2
  <2>3. CASE i - a \in 1 .. b /\ i = a + (i - a) /\ j - a \in 1 .. b /\ j = a + (j - a)
    <3>1. q[i] = t[i - a] /\ q[j] = t[j - a]
      BY <1>3, <2>3
    <3>2. i - a < j - a
      BY <1>1
    <3> QED  BY <1>1, <2>3, <3>1, <3>2 DEF Falls
  <2>4. CASE i - a \in 1 .. b /\ j \in 1 .. a
    BY <1>1, <2>4
  <2> QED  BY <1>4, <2>1, <2>2, <2>3, <2>4
<1> QED  BY <1>6 DEF q

\* A sequence over A is one over any larger set.
LEMMA SeqGrows ==
    ASSUME NEW A, NEW B, A \subseteq B, NEW s \in Seq(A)
    PROVE  s \in Seq(B)
<1> DEFINE n == Len(s)
<1>1. n \in Nat /\ s \in [1 .. n -> A]
  OBVIOUS
<1> HIDE DEF n
<1>2. s \in [1 .. n -> B]
  BY <1>1
<1> QED  BY <1>1, <1>2

\* The first k elements; of a falling sequence they are its largest.
LEMMA TopFacts ==
    ASSUME NEW A, NEW q \in Seq(A), NEW k \in 0 .. Len(q)
    PROVE  /\ SubSeq(q, 1, k) \in Seq(A) /\ Len(SubSeq(q, 1, k)) = k
           /\ Elems(SubSeq(q, 1, k)) \subseteq Elems(q)
           /\ k = Len(q) => SubSeq(q, 1, k) = q
           /\ Falls(q) => /\ Falls(SubSeq(q, 1, k))
                          /\ \A x \in Elems(q) \ Elems(SubSeq(q, 1, k)) :
                               k < Len(q) /\ \A y \in Elems(SubSeq(q, 1, k)) : y > x
<1> DEFINE n == Len(q)
           t == SubSeq(q, 1, k)
<1>1. n \in Nat /\ DOMAIN q = 1 .. n /\ k \in 0 .. n /\ \A i \in 1 .. n : q[i] \in A
  OBVIOUS
<1>2. t \in Seq(A) /\ Len(t) = k /\ DOMAIN t = 1 .. k /\ \A i \in 1 .. k : t[i] = q[i]
  OBVIOUS
<1> HIDE DEF n, t
<1>3. \A i \in 1 .. k : i \in 1 .. n
  BY <1>1
<1>4. Elems(t) \subseteq Elems(q)
  BY <1>1, <1>2, <1>3 DEF Elems
<1>5. k = n => t = q
  BY <1>1, <1>2 DEF n
<1>6. ASSUME Falls(q) PROVE Falls(t)
  BY <1>1, <1>2, <1>3, <1>6 DEF Falls
<1>7. ASSUME Falls(q), NEW x \in Elems(q) \ Elems(t)
      PROVE  k < n /\ \A y \in Elems(t) : y > x
  <2>1. PICK i \in 1 .. n : x = q[i]
    BY <1>1, <1>7 DEF Elems
  <2>2. ~(i \in 1 .. k)
    BY <1>2, <1>7, <2>1 DEF Elems
  <2>3. k < i /\ i <= n
    BY <1>1, <2>2
  <2>4. \A j \in 1 .. k : q[j] > q[i]
    BY <1>1, <1>3, <1>7, <2>3 DEF Falls
  <2> QED  BY <1>1, <1>2, <2>1, <2>3, <2>4 DEF Elems
<1> QED  BY <1>2, <1>4, <1>5, <1>6, <1>7 DEF n, t

\* A falling sequence holds as many messages as it is long.
LEMMA FallsCount ==
    ASSUME NEW A \in SUBSET Nat, NEW q \in Seq(A), Falls(q)
    PROVE  IsFiniteSet(Elems(q)) /\ Cardinality(Elems(q)) = Len(q)
<1> DEFINE n == Len(q)
<1>1. n \in Nat /\ q \in [1 .. n -> A] /\ DOMAIN q = 1 .. n
  OBVIOUS
<1> HIDE DEF n
<1>2. \A i, j \in 1 .. n : q[i] = q[j] => i = j
  <2> SUFFICES ASSUME NEW i \in 1 .. n, NEW j \in 1 .. n, q[i] = q[j], i # j PROVE FALSE
    OBVIOUS
  <2>1. q[i] \in A /\ A \subseteq Nat
    BY <1>1
  <2>2. q[i] \in Nat
    BY <2>1
  <2>3. i < j \/ j < i
    BY <1>1
  <2>4. q[i] > q[j] \/ q[j] > q[i]
    BY <1>1, <2>3 DEF Falls
  <2> QED  BY <2>2, <2>4
<1>3. q \in [1 .. n -> Elems(q)] /\ \A x \in Elems(q) : \E i \in 1 .. n : q[i] = x
  BY <1>1 DEF Elems
<1>4. q \in Bijection(1 .. n, Elems(q))
  BY <1>2, <1>3 DEF Bijection, Injection, Surjection, IsInjective
<1>5. ExistsBijection(1 .. n, Elems(q))
  BY <1>4 DEF ExistsBijection
<1>6. IsFiniteSet(Elems(q))
  BY <1>1, <1>5, FS_NatBijection
<1>7. Cardinality(Elems(q)) = n
  BY <1>1, <1>5, FS_CountingElements
<1> QED  BY <1>6, <1>7 DEF n

\* The last number of a set that has one
LEMMA Newest ==
    ASSUME NEW S \in SUBSET Nat, IsFiniteSet(S), S # {}
    PROVE  \E m \in S : \A x \in S : x <= m
<1> DEFINE q == Descending(S)
           n == Cardinality(S)
<1>1. q \in Seq(S) /\ Len(q) = n /\ Elems(q) = S /\ Falls(q) /\ n \in Nat
  BY DescendingFacts, FS_CardinalityType
<1> HIDE DEF q, n
<1>2. DOMAIN q = 1 .. n /\ \A i \in 1 .. n : q[i] \in S
  BY <1>1
<1>3. PICK i \in 1 .. n : q[i] \in S
  BY <1>1, <1>2 DEF Elems
<1>4. 1 \in 1 .. n
  BY <1>1
<1>5. \A j \in 1 .. n : q[j] <= q[1]
  <2> TAKE j \in 1 .. n
  <2>1. q[j] \in S /\ q[1] \in S /\ S \subseteq Nat
    BY <1>2, <1>4
  <2>2. q[j] \in Nat /\ q[1] \in Nat
    BY <2>1
  <2>3. j = 1 \/ 1 < j
    BY <1>1
  <2>4. 1 < j => q[1] > q[j]
    BY <1>1, <1>2, <1>4 DEF Falls
  <2>5. CASE j = 1
    BY <2>2, <2>5
  <2>6. CASE q[1] > q[j]
    BY <2>2, <2>6
  <2> QED  BY <2>3, <2>4, <2>5, <2>6
<1>6. \A x \in S : x <= q[1]
  BY <1>1, <1>2, <1>5 DEF Elems
<1> QED  BY <1>2, <1>4, <1>6

\* The first number of a set that has one
LEMMA Oldest ==
    ASSUME NEW S \in SUBSET Nat, IsFiniteSet(S), S # {}
    PROVE  \E m \in S : \A x \in S : m <= x
<1> DEFINE q == Ascending(S)
           n == Cardinality(S)
<1>1. q \in Seq(S) /\ Len(q) = n /\ Elems(q) = S /\ Rises(q) /\ n \in Nat
  BY AscendingFacts, FS_CardinalityType
<1> HIDE DEF q, n
<1>2. DOMAIN q = 1 .. n /\ \A i \in 1 .. n : q[i] \in S
  BY <1>1
<1>3. PICK i \in 1 .. n : q[i] \in S
  BY <1>1, <1>2 DEF Elems
<1>4. 1 \in 1 .. n
  BY <1>1
<1>5. \A j \in 1 .. n : q[1] <= q[j]
  <2> TAKE j \in 1 .. n
  <2>1. q[j] \in S /\ q[1] \in S /\ S \subseteq Nat
    BY <1>2, <1>4
  <2>2. q[j] \in Nat /\ q[1] \in Nat
    BY <2>1
  <2>3. j = 1 \/ 1 < j
    BY <1>1
  <2>4. 1 < j => q[1] < q[j]
    BY <1>1, <1>2, <1>4 DEF Rises
  <2>5. CASE j = 1
    BY <2>2, <2>5
  <2>6. CASE q[1] < q[j]
    BY <2>2, <2>6
  <2> QED  BY <2>3, <2>4, <2>5, <2>6
<1>6. \A x \in S : q[1] <= x
  BY <1>1, <1>2, <1>5 DEF Elems
<1> QED  BY <1>2, <1>4, <1>6
=============================================================================
