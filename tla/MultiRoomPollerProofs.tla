----------------------- MODULE MultiRoomPollerProofs -----------------------
(***************************************************************************)
(* Theorems about MultiRoomPoller, for any rooms, page sizes, limits and   *)
(* numbers of messages, deletions and faults:                              *)
(*                                                                         *)
(*   - neither a saved checkpoint nor a boundary in memory covers a        *)
(*     message that was not handled, or not emitted (SavedLosesNothing,    *)
(*     MemoryLosesNothing);                                                *)
(*   - a room's messages are emitted in order, each once, and none from    *)
(*     before its baseline (OrderPerRoom, HistoryStays), as long as fewer  *)
(*     of them have been deleted than a boundary keeps.                    *)
(*                                                                         *)
(* The first two rest on SafeInv: a poller's backlog has no gaps down to   *)
(* where its next poll goes on (Gapless), its boundary in memory is the    *)
(* checkpoint of its room that was handed out last, wherever that is now   *)
(* (LatestInv), and a checkpoint covers what is handled or sent no later   *)
(* than itself (FlowInv).  The other two need, in addition, OrderInv: a    *)
(* checkpoint holds the newest of the messages it covers (Anchor), so that *)
(* one of them is still listed and a poll stops there.                     *)
(***************************************************************************)
EXTENDS MultiRoomPoller, NewestFirstProofs

\* The empty sequence
LEMMA NoElems == /\ Elems(<< >>) = {} /\ Falls(<< >>) /\ Rises(<< >>)
                 /\ \A A : << >> \in Seq(A) /\ Backwards(<< >>) = << >>
<1>1. DOMAIN << >> = {}
  <2>1. << >> \in Seq({}) /\ Len(<< >>) = 0
    OBVIOUS
  <2>2. DOMAIN << >> = 1 .. 0
    BY <2>1
  <2> QED  BY <2>2
<1>2. Elems(<< >>) = {}
  BY <1>1 DEF Elems
<1>3. Backwards(<< >>) = << >>
  <2>1. Backwards(<< >>) \in Seq({}) /\ Len(Backwards(<< >>)) = Len(<< >>)
    <3>1. << >> \in Seq({})
      OBVIOUS
    <3> QED  BY <3>1, BackwardsFacts
  <2> QED  BY <2>1
<1> QED  BY <1>1, <1>2, <1>3 DEF Falls, Rises

\* A boundary after remember_newest_first holds ids of the old boundary and of
\* the new messages.
LEMMA RememberFacts ==
    ASSUME NEW A, NEW seen \in Seq(A), NEW ids \in Seq(A)
    PROVE  /\ RememberNewestFirst(seen, ids) \in Seq(A)
           /\ Len(RememberNewestFirst(seen, ids)) <= MaxSeen
           /\ Elems(RememberNewestFirst(seen, ids)) \subseteq Elems(seen) \cup Elems(ids)
<1> DEFINE unseen == Elems(ids) \ Elems(seen)
           fresh == Only(ids, unseen)
           q == fresh \o seen
           k == IF Len(q) > MaxSeen THEN MaxSeen ELSE Len(q)
<1> HIDE DEF unseen
<1>1. fresh \in Seq(A) /\ Elems(fresh) \subseteq Elems(ids)
  <2>1. fresh \in Seq(A) /\ Elems(fresh) = Elems(ids) \cap unseen
    BY OnlyFacts
  <2> QED  BY <2>1
<1> HIDE DEF fresh
<1>2. q \in Seq(A) /\ Elems(q) = Elems(fresh) \cup Elems(seen)
  BY <1>1, JoinFacts
<1> HIDE DEF q
<1>3. k \in 0 .. Len(q) /\ k <= MaxSeen
  BY <1>2, LimitAssumption
<1>4. RememberNewestFirst(seen, ids) = SubSeq(q, 1, k)
  BY DEF RememberNewestFirst, q, fresh, unseen
<1> HIDE DEF k
<1>5. /\ SubSeq(q, 1, k) \in Seq(A) /\ Len(SubSeq(q, 1, k)) = k
      /\ Elems(SubSeq(q, 1, k)) \subseteq Elems(q)
  BY <1>2, <1>3, TopFacts
<1> QED  BY <1>1, <1>2, <1>3, <1>4, <1>5

\* New messages above a falling boundary: the new boundary falls, and what it
\* drops is below it.
LEMMA RememberTop ==
    ASSUME NEW A \in SUBSET Nat, NEW seen \in Seq(A), NEW ids \in Seq(A), Falls(seen), Falls(ids),
           \A x \in Elems(ids), y \in Elems(seen) : x > y,
           NEW new, new = RememberNewestFirst(seen, ids)
    PROVE  /\ Falls(new)
           /\ \/ Len(new) = MaxSeen
              \/ Len(new) = Len(ids) + Len(seen) /\ Elems(new) = Elems(ids) \cup Elems(seen)
           /\ \A x \in (Elems(ids) \cup Elems(seen)) \ Elems(new) :
                Len(new) = MaxSeen /\ \A y \in Elems(new) : y > x
<1> DEFINE q == ids \o seen
           k == IF Len(q) > MaxSeen THEN MaxSeen ELSE Len(q)
<1>0. Elems(ids) \subseteq Elems(ids) \ Elems(seen)
  <2> SUFFICES ASSUME NEW x \in Elems(ids), x \in Elems(seen) PROVE FALSE
    OBVIOUS
  <2>1. x > x
    OBVIOUS
  <2>2. x \in A /\ A \subseteq Nat
    BY DEF Elems
  <2>3. x \in Nat
    BY <2>2
  <2> QED  BY <2>1, <2>3
<1>1. Only(ids, Elems(ids) \ Elems(seen)) = ids
  BY <1>0, OnlyFacts
<1>2. /\ q \in Seq(A) /\ Len(q) = Len(ids) + Len(seen)
      /\ Elems(q) = Elems(ids) \cup Elems(seen) /\ Falls(q)
  BY JoinFacts, JoinFalls
<1>3. new = SubSeq(q, 1, k)
  BY <1>1 DEF RememberNewestFirst
<1> HIDE DEF q
<1>4. k \in 0 .. Len(q) /\ (k = MaxSeen \/ k = Len(q)) /\ (k < Len(q) => k = MaxSeen)
  BY <1>2, LimitAssumption
<1> HIDE DEF k
<1>5. /\ Len(new) = k /\ Falls(new)
      /\ k = Len(q) => new = q
      /\ \A x \in Elems(q) \ Elems(new) : k < Len(q) /\ \A y \in Elems(new) : y > x
  BY <1>2, <1>3, <1>4, TopFacts
<1> QED  BY <1>2, <1>4, <1>5

\* A poller that is seeded with a boundary has this boundary.
LEMMA SeededFacts ==
    ASSUME NEW A, NEW ids \in Seq(A), Len(ids) <= MaxSeen
    PROVE  Seeded(ids) = [NewPoller EXCEPT !.seen = ids, !.initialized = TRUE]
<1> DEFINE fresh == Only(ids, Elems(ids) \ Elems(<< >>))
<1>1. Elems(<< >>) = {}
  BY NoElems
<1>2. fresh = ids
  <2>1. Elems(ids) \subseteq Elems(ids) \ Elems(<< >>)
    BY <1>1
  <2> QED  BY <2>1, OnlyFacts
<1> HIDE DEF fresh
<1>3. fresh \o << >> = ids
  BY <1>2
<1>4. ~(Len(ids) > MaxSeen)
  BY LimitAssumption
<1>5. RememberNewestFirst(<< >>, ids) = SubSeq(ids, 1, Len(ids))
  BY <1>3, <1>4 DEF RememberNewestFirst, fresh
<1>6. Len(ids) \in 0 .. Len(ids)
  OBVIOUS
<1>7. SubSeq(ids, 1, Len(ids)) = ids
  BY <1>6, TopFacts
<1> QED  BY <1>5, <1>7 DEF Seeded
-----------------------------------------------------------------------------
\* The pages of a poll: page n ends n * PageSize messages into the listing.
LEMMA ReadFacts ==
    ASSUME NEW A, NEW q \in Seq(A), NEW n \in 1 .. MaxPages
    PROVE  /\ n * PageSize \in Nat /\ n * PageSize >= 1
           /\ Reads(q, n) \in 0 .. Len(q)
           /\ Len(q) <= n * PageSize => Reads(q, n) = Len(q)
           /\ ~(Len(q) <= n * PageSize) => Reads(q, n) = n * PageSize /\ n * PageSize \in 1 .. Len(q)
<1> DEFINE k == n * PageSize
<1>1. n \in Nat /\ n >= 1 /\ PageSize \in Nat /\ PageSize >= 1
  BY PageAssumption
<1>2. k \in Nat /\ k >= 1
  BY <1>1
<1>3. Reads(q, n) = IF k < Len(q) THEN k ELSE Len(q)
  BY DEF Reads
<1> HIDE DEF k
<1>4. Len(q) \in Nat
  OBVIOUS
<1>5. /\ Reads(q, n) \in 0 .. Len(q)
      /\ Len(q) <= k => Reads(q, n) = Len(q)
      /\ ~(Len(q) <= k) => Reads(q, n) = k /\ k \in 1 .. Len(q)
  BY <1>2, <1>3, <1>4
<1> QED  BY <1>2, <1>5 DEF k

\* What the first n pages of the listing q of T bring to poller p: the
\* messages collected are new and newest first, a poll that ends leaves out
\* nothing above the boundary, and one that goes on nothing it has passed.
Collects(O, T, p, q, n, ids) ==
    /\ ids \in Seq(O) /\ Falls(ids)
    /\ \E t \in Seq(O) : ids = p.ids \o t
    /\ Elems(p.ids) \subseteq Elems(ids)
    /\ \A x \in Elems(ids) \ Elems(p.ids) :
         x \in T /\ (p.initialized => \A b \in Elems(p.seen) \cap T : b < x)
    /\ Ends(p, q, n) => \A m \in T : m \in Elems(ids) \/ \E b \in Elems(p.seen) : m <= b
    /\ ~Ends(p, q, n) =>
         /\ q[n * PageSize] \in Elems(ids) /\ q[n * PageSize] \in T /\ Len(ids) >= n * PageSize
         /\ \A x \in Elems(ids) : x >= q[n * PageSize]
         /\ \A m \in T : m \in Elems(ids) \/ m < q[n * PageSize]

\* The messages that collect_page_messages takes from the first n pages
LEMMA CollectedFacts ==
    ASSUME NEW O \in SUBSET Nat, NEW T \in SUBSET O, IsFiniteSet(T), NEW n \in 1 .. MaxPages,
           NEW p, p.seen \in Seq(O), p.ids \in Seq(O), Falls(p.ids), p.initialized \in BOOLEAN,
           ~p.initialized => p.seen = << >>,
           \A x \in Elems(p.ids), m \in T : x > m,
           NEW q, q = Descending(T), NEW ids, ids = CollectedIds(p, q, n)
    PROVE  Collects(O, T, p, q, n, ids)
<1> DEFINE k == n * PageSize
           R == Reads(q, n)
           boundary(i) == p.initialized /\ \E j \in 1 .. i : q[j] \in Elems(p.seen)
           new == {i \in 1 .. R : ~boundary(i) /\ q[i] \notin Elems(p.seen) \cup Elems(p.ids)}
           N == {q[i] : i \in new}
           d == Descending(N)
<1>0. T \subseteq Nat /\ O \subseteq Nat /\ T \subseteq O
  OBVIOUS
<1>1. q \in Seq(T) /\ Elems(q) = T /\ Falls(q) /\ Len(q) = Cardinality(T)
  BY <1>0, DescendingFacts
<1>2. Len(q) \in Nat /\ DOMAIN q = 1 .. Len(q) /\ \A i \in 1 .. Len(q) : q[i] \in T /\ q[i] \in Nat
  <2>1. Len(q) \in Nat /\ DOMAIN q = 1 .. Len(q) /\ \A i \in 1 .. Len(q) : q[i] \in T
    BY <1>1
  <2> QED  BY <1>0, <2>1
<1>3. /\ k \in Nat /\ k >= 1 /\ R \in 0 .. Len(q)
      /\ Len(q) <= k => R = Len(q)
      /\ ~(Len(q) <= k) => R = k /\ k \in 1 .. Len(q)
  BY <1>1, ReadFacts
<1>4. ids = p.ids \o d
  BY DEF CollectedIds
<1>5. Ends(p, q, n) <=> (p.initialized /\ \E i \in 1 .. R : q[i] \in Elems(p.seen)) \/ Len(q) <= k
  BY DEF Ends, SawKnown
<1> HIDE DEF k, R
<1>21. Len(q) \in Nat
  BY <1>2
<1>22. R \in Nat /\ R <= Len(q) /\ k \in Nat /\ k >= 1
  BY <1>3, <1>21
<1>6. \A i \in 1 .. R : i \in 1 .. Len(q)
  BY <1>21, <1>22
<1>7. \A i, j \in 1 .. Len(q) : i < j => q[i] > q[j]
  BY <1>1, <1>2 DEF Falls
<1>8. \A m \in T : \E i \in 1 .. Len(q) : m = q[i]
  BY <1>1, <1>2 DEF Elems
<1>9. \A i \in 1 .. R : q[i] \notin Elems(p.ids)
  <2> SUFFICES ASSUME NEW i \in 1 .. R, q[i] \in Elems(p.ids) PROVE FALSE
    OBVIOUS
  <2>1. q[i] \in T /\ q[i] \in Nat
    BY <1>2, <1>6
  <2>2. q[i] > q[i]
    BY <2>1
  <2> QED  BY <2>1, <2>2
<1>10. /\ \A x \in N : \E i \in 1 .. R : x = q[i] /\ ~boundary(i)
       /\ \A i \in 1 .. R : boundary(i) \/ q[i] \in Elems(p.seen) \/ q[i] \in N
  BY <1>9
<1>11. N \subseteq T
  BY <1>2, <1>6
<1> HIDE DEF new, N
<1>12. IsFiniteSet(N) /\ N \in SUBSET Nat
  BY <1>0, <1>11, FS_Subset
<1>13. d \in Seq(N) /\ Elems(d) = N /\ Falls(d) /\ Len(d) = Cardinality(N)
  BY <1>12, DescendingFacts
<1> HIDE DEF d
<1>14. d \in Seq(O)
  <2>1. N \subseteq O
    BY <1>0, <1>11
  <2> QED  BY <1>13, <2>1, SeqGrows
<1>15. \A x \in Elems(p.ids), y \in Elems(d) : x > y
  BY <1>11, <1>13
<1>16. /\ ids \in Seq(O) /\ Falls(ids) /\ Elems(ids) = Elems(p.ids) \cup N
       /\ Len(ids) = Len(p.ids) + Len(d)
  <2> DEFINE s == p.ids
  <2>1. s \in Seq(O) /\ Falls(s) /\ \A x \in Elems(s), y \in Elems(d) : x > y
    BY <1>15
  <2>2. ids = s \o d
    BY <1>4
  <2> HIDE DEF s
  <2>3. /\ ids \in Seq(O) /\ Falls(ids) /\ Elems(ids) = Elems(s) \cup Elems(d)
        /\ Len(ids) = Len(s) + Len(d)
    <3>1. Falls(ids)
      BY <1>13, <1>14, <2>1, <2>2, JoinFalls
    <3>2. /\ ids \in Seq(O) /\ Elems(ids) = Elems(s) \cup Elems(d)
          /\ Len(ids) = Len(s) + Len(d)
      BY <1>14, <2>1, <2>2, JoinFacts
    <3> QED  BY <3>1, <3>2
  <2> QED  BY <1>13, <2>3 DEF s
<1>17. \E t \in Seq(O) : ids = p.ids \o t
  BY <1>4, <1>14
<1>18. \A x \in N : p.initialized => \A b \in Elems(p.seen) \cap T : b < x
  <2> SUFFICES ASSUME NEW x \in N, p.initialized, NEW b \in Elems(p.seen) \cap T PROVE b < x
    OBVIOUS
  <2>1. PICK i \in 1 .. R : x = q[i] /\ ~boundary(i)
    BY <1>10
  <2>2. PICK j \in 1 .. Len(q) : b = q[j]
    BY <1>8
  <2>3. ~(j \in 1 .. i)
    BY <2>1, <2>2
  <2>4. i \in 1 .. Len(q) /\ i < j
    BY <1>2, <1>6, <2>3
  <2>5. q[i] > q[j] /\ q[i] \in Nat /\ q[j] \in Nat
    BY <1>2, <1>7, <2>4
  <2> QED  BY <2>1, <2>2, <2>5
<1>19. ASSUME Ends(p, q, n), NEW m \in T
       PROVE  m \in Elems(ids) \/ \E b \in Elems(p.seen) : m <= b
  <2>1. PICK i \in 1 .. Len(q) : m = q[i]
    BY <1>8
  <2>2. \A j \in 1 .. Len(q) : j <= i => m <= q[j]
    BY <1>2, <1>7, <2>1
  <2>3. CASE i \in 1 .. R
    <3>1. CASE boundary(i)
      <4>1. PICK j \in 1 .. i : q[j] \in Elems(p.seen)
        BY <3>1
      <4>2. j \in 1 .. Len(q) /\ j <= i
        BY <1>2
      <4> QED  BY <2>2, <4>1, <4>2
    <3>2. CASE q[i] \in Elems(p.seen)
      BY <2>1, <2>2, <3>2
    <3>3. CASE q[i] \in N
      BY <1>16, <2>1, <3>3
    <3> QED  BY <1>10, <2>3, <3>1, <3>2, <3>3
  <2>4. CASE ~(i \in 1 .. R)
    <3>1. R < i
      BY <1>21, <1>22, <2>4
    <3>2. ~(Len(q) <= k)
      BY <1>3, <1>21, <1>22, <3>1
    <3>3. PICK j \in 1 .. R : q[j] \in Elems(p.seen)
      BY <1>5, <1>19, <3>2
    <3>4. j \in 1 .. Len(q) /\ j <= i
      BY <1>21, <1>22, <1>6, <3>1
    <3> QED  BY <2>2, <3>3, <3>4
  <2> QED  BY <2>3, <2>4
<1>20. ASSUME ~Ends(p, q, n)
       PROVE  /\ q[k] \in Elems(ids) /\ q[k] \in T /\ Len(ids) >= k
              /\ \A x \in Elems(ids) : x >= q[k]
              /\ \A m \in T : m \in Elems(ids) \/ m < q[k]
  <2>1. R = k /\ k \in 1 .. Len(q) /\ k \in 1 .. R
    BY <1>3, <1>5, <1>20
  <2>2. \A i \in 1 .. R : q[i] \notin Elems(p.seen)
    BY <1>5, <1>20, NoElems
  <2>3. \A i \in 1 .. R : ~boundary(i)
    BY <1>3, <2>2
  <2>4. \A i \in 1 .. R : q[i] \in N
    BY <1>10, <2>2, <2>3
  <2>5. q[k] \in Elems(ids) /\ q[k] \in T
    BY <1>2, <1>16, <2>1, <2>4
  <2>6. \A x \in N : x >= q[k]
    <3> TAKE x \in N
    <3>1. PICK i \in 1 .. R : x = q[i]
      BY <1>10
    <3>2. i = k \/ i < k
      BY <1>3, <2>1
    <3> QED  BY <1>2, <1>6, <1>7, <2>1, <3>1, <3>2
  <2>7. \A x \in Elems(ids) : x >= q[k]
    <3>1. \A x \in Elems(p.ids) : x \in Nat
      <4>1. \A x \in Elems(p.ids) : x \in O
        BY DEF Elems
      <4> QED  BY <1>0, <4>1
    <3>2. \A x \in Elems(p.ids) : x > q[k]
      BY <2>5
    <3>3. q[k] \in Nat
      BY <1>2, <2>1
    <3>4. \A x \in Elems(p.ids) : x >= q[k]
      BY <3>1, <3>2, <3>3
    <3> QED  BY <1>16, <2>6, <3>4
  <2>8. ASSUME NEW m \in T PROVE m \in Elems(ids) \/ m < q[k]
    <3>1. PICK i \in 1 .. Len(q) : m = q[i]
      BY <1>8
    <3>2. i \in 1 .. R \/ k < i
      BY <1>21, <1>22, <2>1
    <3> QED  BY <1>2, <1>7, <1>16, <2>1, <2>4, <3>1, <3>2
  <2>9. Len(ids) >= k
    <3> DEFINE f == [i \in 1 .. k |-> q[i]]
    <3>1. f \in [1 .. k -> N]
      BY <2>1, <2>4
    <3>2. \A i, j \in 1 .. k : f[i] = f[j] => i = j
      <4> SUFFICES ASSUME NEW i \in 1 .. k, NEW j \in 1 .. k, q[i] = q[j], i # j PROVE FALSE
        OBVIOUS
      <4>1. i \in 1 .. Len(q) /\ j \in 1 .. Len(q) /\ (i < j \/ j < i)
        BY <1>21, <1>22, <2>1
      <4>2. q[i] > q[j] \/ q[j] > q[i]
        BY <1>7, <4>1
      <4>3. q[i] \in Nat
        BY <1>2, <4>1
      <4> QED  BY <4>2, <4>3
    <3> HIDE DEF f
    <3>3. f \in Injection(1 .. k, N)
      BY <3>1, <3>2 DEF Injection, IsInjective
    <3>4. IsFiniteSet(1 .. k) /\ Cardinality(1 .. k) = k
      BY <1>3, IntervalFacts
    <3>5. Cardinality(1 .. k) <= Cardinality(N)
      BY <1>12, <3>3, FS_Injection DEF ExistsInjection
    <3>6. Len(p.ids) \in Nat /\ Cardinality(N) \in Nat
      BY <1>12, FS_CardinalityType
    <3> QED  BY <1>3, <1>13, <1>16, <3>4, <3>5, <3>6
  <2> QED  BY <2>5, <2>7, <2>8, <2>9
<1> QED  BY <1>11, <1>16, <1>17, <1>18, <1>19, <1>20 DEF k, Collects
-----------------------------------------------------------------------------
(***************************************************************************)
(* What a poller knows of its room, of which O are the messages and L the  *)
(* ones not deleted.                                                       *)
(***************************************************************************)
\* A boundary holds messages of the room, and no more than MaxSeen.
IsBoundary(O, ids) == ids \in Seq(O) /\ Len(ids) <= MaxSeen

\* The ids collected leave out nothing of the room from c on, unless the
\* boundary covers it.
Gapless(L, seen, ids, c) ==
    \A m \in L : m >= c /\ (\E x \in Elems(ids) : m <= x) =>
        m \in Elems(ids) \/ \E b \in Elems(seen) : m <= b

Backlog(O, L, seen, ids, next) ==
    /\ ids \in Seq(O) /\ Falls(ids) /\ next \in Nat
    /\ next # 0 => next \in Elems(ids) /\ \A x \in Elems(ids) : x >= next
    /\ Gapless(L, seen, ids, next)

PollerOK(O, L, p) ==
    /\ p.initialized \in BOOLEAN
    /\ IsBoundary(O, p.seen)
    /\ Backlog(O, L, p.seen, p.ids, p.next)
    /\ p.fresh = p.ids
    /\ ~p.initialized => p = NewPoller

\* Where a poll starts to read
From(p, c) == IF p.next = 0 THEN c ELSE p.next

\* Does a poll collect messages to emit?
Emits(p) == p.initialized \/ EmitExisting

Ids(u) == IF u.commitSeen THEN u.seenIds ELSE u.ids

\* The update of such a poll: the whole backlog, or the part read so far
Collected(O, L, p, u) ==
    /\ Backlog(O, L, p.seen, Ids(u), u.next)
    /\ \/ u = Committed(Ids(u), Ids(u))
       \/ u = Pending(Ids(u), Ids(u), u.next) /\ u.next # 0

\* The update of a baseline: the newest messages below the cutoff c, which
\* are all of them or as many as the pages hold
Baseline(O, L, c, u) ==
    /\ u = Committed(<< >>, u.seenIds)
    /\ u.seenIds \in Seq(O) /\ Falls(u.seenIds)
    /\ \A x \in Elems(u.seenIds) : x < c
    /\ \A m \in L : m < c /\ m \notin Elems(u.seenIds) =>
         Len(u.seenIds) >= MaxPages * PageSize /\ \A x \in Elems(u.seenIds) : m < x

UpdateOK(O, L, p, c, u) == IF Emits(p) THEN Collected(O, L, p, u) ELSE Baseline(O, L, c, u)

\* What is collected was collected before, or is newer than whatever part of
\* the boundary the poll can read.
Newer(L, p, c, ids) ==
    \A x \in Elems(ids) : \/ x \in Elems(p.ids)
                          \/ x \in L /\ (p.initialized => \A b \in Elems(p.seen) \cap L : b < c => b < x)

\* The part of a sequence that follows a prefix of it
LEMMA SuffixFacts ==
    ASSUME NEW A, NEW s \in Seq(A), NEW t \in Seq(A)
    PROVE  SubSeq(s \o t, Len(s) + 1, Len(s \o t)) = t
<1> DEFINE a == Len(s)
           b == Len(t)
           q == s \o t
           u == SubSeq(q, a + 1, a + b)
<1>1. a \in Nat /\ b \in Nat /\ Len(q) = a + b /\ q \in Seq(A) /\ t = [i \in 1 .. b |-> t[i]]
  OBVIOUS
<1>2. \A i \in 1 .. b : q[a + i] = t[i]
  OBVIOUS
<1> HIDE DEF a, b, q
<1>3. u = [i \in 1 .. (a + b - (a + 1) + 1) |-> q[i + (a + 1) - 1]]
  BY <1>1
<1>4. a + b - (a + 1) + 1 = b
  BY <1>1
<1>5. \A i \in 1 .. b : i + (a + 1) - 1 = a + i
  BY <1>1
<1>6. u = [i \in 1 .. b |-> t[i]]
  BY <1>2, <1>3, <1>4, <1>5
<1> QED  BY <1>1, <1>6 DEF a, b, q

\* The update after n pages
LEMMA PagesFacts ==
    ASSUME NEW O \in SUBSET Nat, 0 \notin O, NEW L \in SUBSET O, IsFiniteSet(L),
           NEW n \in 1 .. MaxPages, NEW p, PollerOK(O, L, p), ~HeldBatch(p), NEW c \in Nat,
           NEW q, q = Descending({m \in L : m < From(p, c)}),
           NEW u, u = PagesUpdate(p, q, n),
           Emits(p) \/ Ends(p, q, n) \/ n = MaxPages
    PROVE  /\ UpdateOK(O, L, p, c, u)
           /\ Emits(p) => Newer(L, p, From(p, c), Ids(u))
<1> DEFINE d == From(p, c)
           T == {m \in L : m < d}
           ids == CollectedIds(p, q, n)
           k == n * PageSize
<1>1. /\ p.initialized \in BOOLEAN /\ p.seen \in Seq(O) /\ p.ids \in Seq(O) /\ Falls(p.ids)
      /\ p.next \in Nat /\ p.fresh = p.ids
      /\ p.next # 0 => p.next \in Elems(p.ids) /\ \A x \in Elems(p.ids) : x >= p.next
      /\ Gapless(L, p.seen, p.ids, p.next)
      /\ ~p.initialized => p = NewPoller
  BY DEF PollerOK, IsBoundary, Backlog
<1>2. O \subseteq Nat /\ L \subseteq Nat /\ T \subseteq L /\ T \in SUBSET O /\ d \in Nat
  BY <1>1 DEF From
<1>3. IsFiniteSet(T)
  BY <1>2, FS_Subset
<1>4. ~p.initialized => p.seen = << >> /\ p.ids = << >> /\ p.fresh = << >> /\ p.next = 0
  BY <1>1 DEF NewPoller
<1>5. p.next = 0 => p.ids = << >> /\ d = c
  BY <1>1 DEF HeldBatch, From
<1>6. p.next # 0 => d = p.next
  BY DEF From
<1>7. \A x \in Elems(p.ids) : x \in Nat /\ x >= d /\ p.next # 0
  <2>1. \A x \in Elems(p.ids) : x \in O
    BY <1>1 DEF Elems
  <2>2. \A x \in Elems(p.ids) : p.next # 0
    BY <1>5, NoElems
  <2> QED  BY <1>1, <1>2, <1>6, <2>1, <2>2
<1>8. \A m \in T : m \in Nat /\ m \in L /\ m < d
  BY <1>2
<1>9. \A m \in L : m \in T \/ m >= d
  BY <1>2
<1> HIDE DEF T, d
<1>10. \A x \in Elems(p.ids), m \in T : x > m
  BY <1>2, <1>7, <1>8
<1>11. q = Descending(T)
  BY DEF T, d
<1>12. /\ ids \in Seq(O) /\ Falls(ids)
       /\ \E t \in Seq(O) : ids = p.ids \o t
       /\ Elems(p.ids) \subseteq Elems(ids)
       /\ \A x \in Elems(ids) \ Elems(p.ids) :
                x \in T /\ (p.initialized => \A b \in Elems(p.seen) \cap T : b < x)
       /\ Ends(p, q, n) => \A m \in T : m \in Elems(ids) \/ \E b \in Elems(p.seen) : m <= b
       /\ ~Ends(p, q, n) =>
                /\ q[k] \in Elems(ids) /\ q[k] \in T /\ Len(ids) >= k
                /\ \A x \in Elems(ids) : x >= q[k]
                /\ \A m \in T : m \in Elems(ids) \/ m < q[k]
  <2>1. Collects(O, T, p, q, n, ids)
    BY <1>1, <1>2, <1>3, <1>4, <1>10, <1>11, CollectedFacts
  <2> QED  BY <2>1 DEF Collects
<1>13. u = IF ~Ends(p, q, n) /\ Emits(p) THEN Pending(CollectedFresh(p, q, n), ids, q[k])
           ELSE Committed(CollectedFresh(p, q, n), ids)
  BY DEF PagesUpdate, Emits
<1>14. CollectedFresh(p, q, n) = IF Emits(p) THEN ids ELSE << >>
  <2>1. PICK t \in Seq(O) : ids = p.ids \o t
    BY <1>12
  <2>2. CollectedFresh(p, q, n) =
            p.ids \o (IF Emits(p) THEN SubSeq(ids, Len(p.ids) + 1, Len(ids)) ELSE << >>)
    BY <1>1 DEF CollectedFresh, Emits
  <2>3. CASE Emits(p)
    <3>1. SubSeq(ids, Len(p.ids) + 1, Len(ids)) = t
      BY <1>1, <2>1, SuffixFacts
    <3> QED  BY <2>1, <2>2, <2>3, <3>1
  <2>4. CASE ~Emits(p)
    <3>1. p.ids = << >>
      BY <1>4, <2>4 DEF Emits
    <3>2. << >> \o << >> = << >>
      OBVIOUS
    <3> QED  BY <2>2, <2>4, <3>1, <3>2
  <2> QED  BY <2>3, <2>4
<1>15. Newer(L, p, d, ids)
  BY <1>8, <1>9, <1>12 DEF Newer, T
<1> HIDE DEF ids, k
\* Whatever lies at or above the start of this poll was dealt with before.
<1>16. ASSUME NEW m \in L, m >= d, NEW x \in Elems(ids), m <= x
       PROVE  m \in Elems(ids) \/ \E b \in Elems(p.seen) : m <= b
  <2>1. x \in Elems(p.ids)
    <3> SUFFICES ASSUME x \in T PROVE FALSE
      BY <1>12
    <3> QED  BY <1>2, <1>8, <1>16
  <2>2. m >= p.next
    BY <1>6, <1>7, <1>16, <2>1
  <2> QED  BY <1>1, <1>12, <1>16, <2>1, <2>2 DEF Gapless
<1>17. CASE Emits(p) /\ Ends(p, q, n)
  <2>1. u = Committed(ids, ids)
    BY <1>13, <1>14, <1>17
  <2>2. Ids(u) = ids /\ u.next = 0
    BY <2>1 DEF Ids, Committed
  <2>3. Gapless(L, p.seen, ids, 0)
    BY <1>9, <1>12, <1>16, <1>17 DEF Gapless
  <2>4. Backlog(O, L, p.seen, ids, 0)
    BY <1>12, <2>3 DEF Backlog
  <2> QED  BY <1>15, <1>17, <2>1, <2>2, <2>4 DEF UpdateOK, Collected, d
<1>18. CASE Emits(p) /\ ~Ends(p, q, n)
  <2> DEFINE e == q[k]
  <2>1. u = Pending(ids, ids, e)
    BY <1>13, <1>14, <1>18
  <2>2. /\ e \in Elems(ids) /\ e \in T /\ \A x \in Elems(ids) : x >= e
        /\ \A m \in T : m \in Elems(ids) \/ m < e
    BY <1>12, <1>18
  <2> HIDE DEF e
  <2>3. Ids(u) = ids /\ u.next = e
    BY <2>1 DEF Ids, Pending
  <2>4. e \in Nat
    BY <1>8, <2>2
  <2>5. Gapless(L, p.seen, ids, e)
    <3> SUFFICES ASSUME NEW m \in L, m >= e, NEW x \in Elems(ids), m <= x
                 PROVE  m \in Elems(ids) \/ \E b \in Elems(p.seen) : m <= b
      BY DEF Gapless
    <3>1. CASE m >= d
      BY <1>16, <3>1
    <3>2. CASE m \in T
      BY <1>8, <2>2, <2>4, <3>2
    <3> QED  BY <1>9, <3>1, <3>2
  <2>6. Backlog(O, L, p.seen, ids, e)
    BY <1>12, <2>2, <2>4, <2>5 DEF Backlog
  <2>7. Newer(L, p, From(p, c), Ids(u))
    BY <1>15, <2>3 DEF d
  <2>8. e # 0
    BY <1>2, <2>2
  <2> QED  BY <1>18, <2>1, <2>3, <2>6, <2>7, <2>8 DEF UpdateOK, Collected
<1>19. CASE ~Emits(p)
  <2>1. u = Committed(<< >>, ids)
    BY <1>13, <1>14, <1>19
  <2>2. u.seenIds = ids
    BY <2>1 DEF Committed
  <2>3. p.seen = << >> /\ p.ids = << >> /\ d = c
    BY <1>4, <1>5, <1>19 DEF Emits
  <2>4. \A x \in Elems(ids) : x \in T /\ x < c
    BY <1>8, <1>12, <2>3, NoElems
  <2>5. ASSUME NEW m \in L, m < c, m \notin Elems(ids)
        PROVE  Len(ids) >= MaxPages * PageSize /\ \A x \in Elems(ids) : m < x
    <3>1. m \in T
      BY <1>2, <1>9, <2>3, <2>5
    <3>2. ~Ends(p, q, n)
      BY <1>12, <2>3, <2>5, <3>1, NoElems
    <3>3. n = MaxPages
      BY <1>19, <3>2
    <3>4. k = MaxPages * PageSize
      BY <3>3 DEF k
    <3>5. q[k] \in T /\ Len(ids) >= k /\ m < q[k] /\ \A x \in Elems(ids) : x >= q[k]
      BY <1>12, <2>5, <3>1, <3>2
    <3>6. \A x \in Elems(ids) : m < x
      <4> DEFINE e == q[k]
      <4> TAKE x \in Elems(ids)
      <4>1. m \in Nat /\ e \in Nat /\ x \in Nat
        BY <1>8, <2>4, <3>1, <3>5
      <4>2. m < e /\ x >= e
        BY <3>5
      <4> HIDE DEF e
      <4> QED  BY <4>1, <4>2
    <3> QED  BY <3>4, <3>5, <3>6
  <2>6. Baseline(O, L, c, u)
    BY <1>12, <2>1, <2>2, <2>4, <2>5 DEF Baseline
  <2> QED  BY <1>19, <2>6 DEF UpdateOK
<1> QED  BY <1>17, <1>18, <1>19

\* A poll returns an error alone, or one update, which is what it should be.
PollOK(O, L, p, c, result) ==
    \/ result.updates = {}
    \/ \E u \in result.updates : /\ result.updates = {u}
                                 /\ UpdateOK(O, L, p, c, u)
                                 /\ Emits(p) => Newer(L, p, From(p, c), Ids(u))

\* poll_once_transaction, with or without an error, is such a poll.
LEMMA PollFacts ==
    ASSUME NEW O \in SUBSET Nat, 0 \notin O, NEW L \in SUBSET O, IsFiniteSet(L),
           NEW p, PollerOK(O, L, p), NEW c \in Nat,
           NEW q, q = Descending({m \in L : m < From(p, c)}),
           NEW result, result = Answered(p, q) \/ result \in Interrupted(p, q)
    PROVE  PollOK(O, L, p, c, result)
<1>1. ASSUME NEW n \in 1 .. MaxPages, ~HeldBatch(p), Emits(p) \/ Ends(p, q, n) \/ n = MaxPages
      PROVE  /\ UpdateOK(O, L, p, c, PagesUpdate(p, q, n))
             /\ Emits(p) => Newer(L, p, From(p, c), Ids(PagesUpdate(p, q, n)))
  BY <1>1, PagesFacts
<1>2. CASE result = Answered(p, q) /\ HeldBatch(p)
  <2> DEFINE u == Committed(p.ids, p.ids)
  <2>1. p.fresh = p.ids /\ p.next = 0 /\ p.fresh # << >>
    BY <1>2 DEF PollerOK, HeldBatch
  <2>2. result.updates = {u}
    BY <1>2, <2>1 DEF Answered, Good
  <2>3. Emits(p)
    BY <2>1 DEF Emits, PollerOK, NewPoller
  <2>4. Ids(u) = p.ids /\ u.next = 0
    BY DEF Ids, Committed
  <2>5. Backlog(O, L, p.seen, p.ids, 0)
    BY <2>1 DEF PollerOK
  <2>6. UpdateOK(O, L, p, c, u)
    BY <2>3, <2>4, <2>5 DEF UpdateOK, Collected
  <2>7. Newer(L, p, From(p, c), Ids(u))
    BY <2>4 DEF Newer
  <2> HIDE DEF u
  <2> QED  BY <2>2, <2>6, <2>7 DEF PollOK
<1>3. CASE result = Answered(p, q) /\ ~HeldBatch(p)
  <2> DEFINE Stops(j) == ~GoesOn(p, q, j) /\ \A i \in 1 .. j - 1 : GoesOn(p, q, i)
             n == CHOOSE j \in 1 .. MaxPages : Stops(j)
  <2>1. \E j \in 1 .. MaxPages : Stops(j)
    <3> DEFINE S == {j \in 1 .. MaxPages : ~GoesOn(p, q, j)}
    <3>1. MaxPages \in Nat /\ MaxPages \in 1 .. MaxPages
      BY PageAssumption
    <3>2. MaxPages \in S
      BY <3>1 DEF GoesOn
    <3>3. IsFiniteSet(1 .. MaxPages)
      BY <3>1, IntervalFacts
    <3>4. IsFiniteSet(S)
      BY <3>3, FS_Subset
    <3>5. S \in SUBSET Nat
      BY <3>1
    <3>6. PICK j \in S : \A i \in S : j <= i
      BY <3>2, <3>4, <3>5, Oldest
    <3>7. ASSUME NEW i \in 1 .. j - 1 PROVE GoesOn(p, q, i)
      <4>1. i \in 1 .. MaxPages /\ ~(j <= i)
        BY <3>1
      <4> QED  BY <3>6, <4>1
    <3> QED  BY <3>7
  <2>2. n \in 1 .. MaxPages /\ ~GoesOn(p, q, n)
    BY <2>1
  <2>3. result = IF OverLimit(p, q, n) THEN Failed({}) ELSE Good(PagesUpdate(p, q, n))
    BY <1>3 DEF Answered
  <2> HIDE DEF n
  <2>4. CASE OverLimit(p, q, n)
    BY <2>3, <2>4 DEF PollOK, Failed
  <2>5. CASE ~OverLimit(p, q, n)
    <3>1. Ends(p, q, n) \/ n = MaxPages
      BY <2>2, <2>5, PageAssumption DEF GoesOn
    <3>2. result.updates = {PagesUpdate(p, q, n)}
      BY <2>3, <2>5 DEF Good
    <3> QED  BY <1>1, <1>3, <2>2, <3>1, <3>2 DEF PollOK
  <2> QED  BY <2>4, <2>5
<1>4. CASE result \in Interrupted(p, q)
  <2>1. ~HeldBatch(p)
    BY <1>4 DEF Interrupted
  <2>2. CASE result = Failed({})
    BY <2>2 DEF PollOK, Failed
  <2>3. CASE \E n \in 1 .. MaxPages :
               result = Failed(IF p.initialized \/ EmitExisting THEN {PagesUpdate(p, q, n)} ELSE {})
    <3>1. PICK n \in 1 .. MaxPages :
               result = Failed(IF p.initialized \/ EmitExisting THEN {PagesUpdate(p, q, n)} ELSE {})
      BY <2>3
    <3>2. CASE Emits(p)
      <4>1. result.updates = {PagesUpdate(p, q, n)}
        BY <3>1, <3>2 DEF Emits, Failed
      <4> QED  BY <1>1, <2>1, <3>2, <4>1 DEF PollOK
    <3>3. CASE ~Emits(p)
      BY <3>1, <3>3 DEF Emits, Failed, PollOK
    <3> QED  BY <3>2, <3>3
  <2> QED  BY <1>4, <2>1, <2>2, <2>3 DEF Interrupted
<1> QED  BY <1>2, <1>3, <1>4
-----------------------------------------------------------------------------
(***************************************************************************)
(* The inductive invariant.                                                *)
(***************************************************************************)
\* The messages of room r, and those a listing still has
Of(r) == {m \in Msgs : posted[m] = r}
Listed(r) == Of(r) \ deleted

Checkpoint == [given : BOOLEAN, ids : Seq(Nat)]

TypeInv ==
    /\ posted \in Seq(Room) /\ deleted \subseteq Msgs /\ members \subseteq Room
    /\ known \in [Room -> BOOLEAN] /\ base \in [Room -> Nat]
    /\ rooms \subseteq Room /\ inactive \in Seq(Room)
    /\ points \in [Room -> Checkpoint] /\ batch \in [Room -> Checkpoint]
    /\ durable \in [Room -> Checkpoint]
    /\ channel \in Seq([events : Seq(Nat), points : [Room -> Checkpoint]])
    /\ emitted \in Seq(Msgs)
    /\ phase \in {"idle", "polling"} /\ todo \subseteq rooms /\ cutoff \in Nat
    /\ DOMAIN results = Room
    /\ phase = "idle" => todo = {}
    /\ phase = "polling" => cutoff \in 1 .. (Len(posted) + 1)

BaseInv(r) ==
    /\ base[r] <= Len(posted) /\ (EmitExisting => base[r] = 0)
    /\ phase = "polling" => base[r] < cutoff /\ \A b \in Elems(poller[r].seen) : b < cutoff

PointOK(O, point) == point = NoPoint \/ (point = Point(point.ids) /\ IsBoundary(O, point.ids))

PointInv(r) ==
    /\ PointOK(Of(r), points[r]) /\ PointOK(Of(r), batch[r]) /\ PointOK(Of(r), durable[r])
    /\ \A i \in DOMAIN channel : PointOK(Of(r), channel[i].points[r])

PollerInv(r) == PollerOK(Of(r), Listed(r), poller[r])

\* A room has a poller, or a checkpoint that waits for one.
MemberInv(r) ==
    IF r \in rooms \cup Inactive THEN points[r] = NoPoint ELSE poller[r] = NewPoller

\* point is the checkpoint of room r that was handed out last.
IsLatest(r, point) ==
    \/ \E i \in DOMAIN channel :
         /\ channel[i].points[r].given /\ channel[i].points[r] = point
         /\ \A j \in DOMAIN channel : channel[j].points[r].given => j <= i
    \/ /\ \A i \in DOMAIN channel : ~channel[i].points[r].given
       /\ point = IF batch[r].given THEN batch[r] ELSE durable[r]

\* The boundary in memory is the checkpoint handed out last.
LatestInv(r) ==
    /\ known[r] <=> poller[r].initialized \/ points[r].given
    /\ ~poller[r].initialized => IsLatest(r, points[r])
    /\ poller[r].initialized =>
         \/ IsLatest(r, Point(poller[r].seen))
         \/ /\ IsLatest(r, NoPoint) /\ poller[r].seen = << >>
            /\ HasPendingBacklog(poller[r]) /\ EmitExisting

\* What the poll of room r returned
ResultInv(r) ==
    Updated(r) =>
        /\ phase = "polling" /\ r \in rooms
        /\ \E u \in results[r].updates :
             results[r].updates = {u} /\ UpdateOK(Of(r), Listed(r), poller[r], cutoff, u)

\* What the batches of the channel up to the i-th bring
Sent(i) == UNION {Elems(channel[j].events) : j \in {k \in DOMAIN channel : k <= i}}

\* A checkpoint covers nothing but what is handled by the time it is saved.
FlowInv(r) ==
    /\ Below(r, durable[r].ids) \subseteq handled
    /\ Below(r, batch[r].ids) \subseteq handled
    /\ \A i \in DOMAIN channel : Below(r, channel[i].points[r].ids) \subseteq handled \cup Sent(i)

RoomInv(r) ==
    /\ BaseInv(r) /\ PointInv(r) /\ PollerInv(r) /\ MemberInv(r) /\ LatestInv(r)
    /\ ResultInv(r) /\ FlowInv(r)

SentInv == Sent(Len(channel)) \subseteq Elems(emitted)

SafeInv == TypeInv /\ SentInv /\ \A r \in Room : RoomInv(r)

\* The messages of a room are numbers, and finitely many.
LEMMA OfFacts ==
    ASSUME TypeInv, NEW r \in Room
    PROVE  /\ Len(posted) \in Nat /\ Msgs = 1 .. Len(posted)
           /\ Of(r) \in SUBSET Nat /\ 0 \notin Of(r) /\ \A m \in Of(r) : m <= Len(posted)
           /\ IsFiniteSet(Of(r))
           /\ Listed(r) \in SUBSET Of(r) /\ IsFiniteSet(Listed(r))
           /\ \A c : {m \in Msgs : posted[m] = r /\ m \notin deleted /\ m < c}
                        = {m \in Listed(r) : m < c}
           /\ Claimed(r) = {m \in Listed(r) : m > base[r]}
<1>1. Len(posted) \in Nat /\ Msgs = 1 .. Len(posted)
  BY DEF TypeInv, Msgs
<1>2. Of(r) \in SUBSET (1 .. Len(posted)) /\ Listed(r) \in SUBSET Of(r)
  BY <1>1 DEF Of, Listed
<1>3. IsFiniteSet(1 .. Len(posted))
  BY <1>1, IntervalFacts
<1>4. IsFiniteSet(Of(r))
  BY <1>2, <1>3, FS_Subset
<1>5. IsFiniteSet(Listed(r))
  BY <1>2, <1>4, FS_Subset
<1>6. Of(r) \in SUBSET Nat /\ 0 \notin Of(r) /\ \A m \in Of(r) : m <= Len(posted)
  BY <1>1, <1>2
<1>7. /\ \A c : {m \in Msgs : posted[m] = r /\ m \notin deleted /\ m < c}
                        = {m \in Listed(r) : m < c}
      /\ Claimed(r) = {m \in Listed(r) : m > base[r]}
  BY DEF Of, Listed, Claimed
<1> QED  BY <1>1, <1>2, <1>4, <1>5, <1>6, <1>7

\* The elements of a sequence over A are in A.
LEMMA ElemsIn == ASSUME NEW A, NEW q \in Seq(A) PROVE Elems(q) \subseteq A
  BY DEF Elems

\* Messages that are posted are newer than all that is known, and deletions
\* take away what might have been left out.
LEMMA PollerGrows ==
    ASSUME NEW n \in Nat, NEW O \in SUBSET Nat, \A m \in O : m <= n, NEW L, NEW P \in SUBSET Nat,
           O \subseteq P, NEW K \in SUBSET Nat, \A m \in K : m \in L \/ m > n,
           NEW p, PollerOK(O, L, p)
    PROVE  PollerOK(P, K, p)
<1>1. IsBoundary(P, p.seen)
  BY SeqGrows DEF PollerOK, IsBoundary
<1>2. p.ids \in Seq(P) /\ Elems(p.ids) \subseteq O
  BY SeqGrows, ElemsIn DEF PollerOK, Backlog
<1>3. Gapless(K, p.seen, p.ids, p.next)
  <2> SUFFICES ASSUME NEW m \in K, m >= p.next, NEW x \in Elems(p.ids), m <= x
               PROVE  m \in Elems(p.ids) \/ \E b \in Elems(p.seen) : m <= b
    BY DEF Gapless
  <2>1. x \in O /\ x <= n
    BY <1>2
  <2>2. x \in Nat /\ m \in Nat
    BY <2>1
  <2>3. m \in L
    BY <2>1, <2>2
  <2> QED  BY <2>3 DEF PollerOK, Backlog, Gapless
<1> QED  BY <1>1, <1>2, <1>3 DEF PollerOK, Backlog

\* Neither does an update become wrong while its batch goes on.
LEMMA UpdateGrows ==
    ASSUME NEW n \in Nat, NEW O \in SUBSET Nat, \A m \in O : m <= n, NEW L, NEW P \in SUBSET Nat,
           O \subseteq P, NEW K \in SUBSET Nat, \A m \in K : m \in L \/ m > n,
           NEW p, NEW c \in 1 .. (n + 1), NEW u, UpdateOK(O, L, p, c, u)
    PROVE  UpdateOK(P, K, p, c, u)
<1>1. CASE Emits(p)
  <2> DEFINE ids == Ids(u)
  <2>1. Backlog(O, L, p.seen, ids, u.next)
    BY <1>1 DEF UpdateOK, Collected
  <2> HIDE DEF ids
  <2>2. ids \in Seq(P) /\ Elems(ids) \subseteq O
    BY <2>1, SeqGrows, ElemsIn DEF Backlog
  <2>3. Gapless(K, p.seen, ids, u.next)
    <3> SUFFICES ASSUME NEW m \in K, m >= u.next, NEW x \in Elems(ids), m <= x
                 PROVE  m \in Elems(ids) \/ \E b \in Elems(p.seen) : m <= b
      BY DEF Gapless
    <3>1. x \in O /\ x <= n
      BY <2>2
    <3>2. x \in Nat /\ m \in Nat
      BY <3>1
    <3>3. m \in L
      BY <3>1, <3>2
    <3> QED  BY <2>1, <3>3 DEF Backlog, Gapless
  <2>4. Backlog(P, K, p.seen, ids, u.next)
    BY <2>1, <2>2, <2>3 DEF Backlog
  <2> QED  BY <1>1, <2>4 DEF UpdateOK, Collected, ids
<1>2. CASE ~Emits(p)
  <2>1. Baseline(O, L, c, u)
    BY <1>2 DEF UpdateOK
  <2>2. u.seenIds \in Seq(P)
    BY <2>1, SeqGrows DEF Baseline
  <2>3. \A m \in K : m < c => m \in L
    <3> SUFFICES ASSUME NEW m \in K, m < c, m > n PROVE FALSE
      OBVIOUS
    <3> QED  OBVIOUS
  <2>4. Baseline(P, K, c, u)
    BY <2>1, <2>2, <2>3 DEF Baseline
  <2> QED  BY <1>2, <2>4 DEF UpdateOK
<1> QED  BY <1>1, <1>2

\* A checkpoint is NoPoint or has a boundary.
LEMMA PointFacts ==
    ASSUME NEW O, NEW point, PointOK(O, point)
    PROVE  /\ point.ids \in Seq(O) /\ Len(point.ids) <= MaxSeen /\ point.given \in BOOLEAN
           /\ point.given => point = Point(point.ids)
           /\ ~point.given => point = NoPoint
<1>1. CASE point = NoPoint
  <2>1. << >> \in Seq(O) /\ Len(<< >>) <= MaxSeen
    BY LimitAssumption
  <2> QED  BY <1>1, <2>1 DEF NoPoint
<1>2. CASE point = Point(point.ids) /\ IsBoundary(O, point.ids)
  <2> DEFINE ids == point.ids
  <2>1. point = [given |-> TRUE, ids |-> ids]
    BY <1>2 DEF Point
  <2> HIDE DEF ids
  <2>2. point.given = TRUE
    BY <2>1
  <2> QED  BY <1>2, <2>2 DEF IsBoundary
<1> QED  BY <1>1, <1>2 DEF PointOK

\* All checkpoints of a room hold messages of the room.
LEMMA PointInvFacts ==
    ASSUME NEW r \in Room, PointInv(r)
    PROVE  /\ points[r].ids \in Seq(Of(r)) /\ batch[r].ids \in Seq(Of(r))
           /\ durable[r].ids \in Seq(Of(r))
           /\ \A i \in DOMAIN channel : channel[i].points[r].ids \in Seq(Of(r))
<1>1. \A point : PointOK(Of(r), point) => point.ids \in Seq(Of(r))
  BY PointFacts
<1>2. /\ PointOK(Of(r), points[r]) /\ PointOK(Of(r), batch[r]) /\ PointOK(Of(r), durable[r])
      /\ \A i \in DOMAIN channel : PointOK(Of(r), channel[i].points[r])
  BY DEF PointInv
<1> QED  BY <1>1, <1>2
-----------------------------------------------------------------------------
(***************************************************************************)
(* Webex: Post, Delete, Leave and Join.                                    *)
(***************************************************************************)
WebexChanges ==
    /\ TypeInv'
    /\ \A m \in Msgs : m \in Msgs' /\ posted'[m] = posted[m]
    /\ \A m \in Msgs' : m \in Msgs \/ m > Len(posted)
    /\ deleted \subseteq deleted'
    /\ UNCHANGED <<known, base, state, phase, current, consumer>>

\* A room gains messages that are newer than all others, and loses some.
LEMMA WebexMsgs ==
    ASSUME TypeInv, WebexChanges, NEW r \in Room
    PROVE  /\ Of(r) \subseteq Of(r)' /\ Of(r)' \in SUBSET Nat /\ Listed(r)' \in SUBSET Nat
           /\ \A m \in Listed(r)' : m \in Listed(r) \/ m > Len(posted)
           /\ Len(posted) <= Len(posted')
<1>1. Len(posted) \in Nat /\ Msgs = 1 .. Len(posted) /\ Len(posted') \in Nat /\ Msgs' = 1 .. Len(posted')
  BY DEF WebexChanges, TypeInv, Msgs
<1>2. Of(r) \subseteq Of(r)'
  BY DEF WebexChanges, Of
<1>3. Of(r)' \in SUBSET Nat /\ Listed(r)' \in SUBSET Nat
  BY <1>1 DEF Of, Listed
<1>4. \A m \in Listed(r)' : m \in Listed(r) \/ m > Len(posted)
  BY DEF WebexChanges, Of, Listed
<1>5. Len(posted) <= Len(posted')
  <2>1. CASE Len(posted) = 0
    BY <1>1, <2>1
  <2>2. CASE Len(posted) \in Msgs
    BY <1>1, <2>2 DEF WebexChanges
  <2> QED  BY <1>1, <2>1, <2>2
<1> QED  BY <1>2, <1>3, <1>4, <1>5

\* Whatever happens in Webex, the pollers stay right.
LEMMA WebexSafe ==
    ASSUME SafeInv, WebexChanges
    PROVE  SafeInv'
<1>1. TypeInv /\ SentInv /\ TypeInv'
  BY DEF SafeInv, WebexChanges
<1> USE DEF WebexChanges, state, current, consumer
<1>2. SentInv'
  BY <1>1 DEF SentInv, Sent
<1>3. ASSUME NEW r \in Room PROVE RoomInv(r)'
  <2>1. RoomInv(r)
    BY DEF SafeInv
  <2>2. /\ Of(r) \subseteq Of(r)' /\ Of(r)' \in SUBSET Nat /\ Listed(r)' \in SUBSET Nat
        /\ \A m \in Listed(r)' : m \in Listed(r) \/ m > Len(posted)
        /\ Len(posted) <= Len(posted')
    BY <1>1, WebexMsgs
  <2>3. /\ Of(r) \in SUBSET Nat /\ Len(posted) \in Nat /\ \A m \in Of(r) : m <= Len(posted)
        /\ Claimed(r) = {m \in Listed(r) : m > base[r]}
    BY <1>1, OfFacts
  <2>4. Claimed(r)' = {m \in Listed(r)' : m > base[r]'} /\ Len(posted') \in Nat
    BY <1>1 DEF Claimed, Of, Listed, TypeInv
  <2> DEFINE O == Of(r)
             P == Of(r)'
             L == Listed(r)
             K == Listed(r)'
             n == Len(posted)
  <2>5. BaseInv(r)'
    <3>1. base[r] \in Nat
      BY <1>1 DEF TypeInv
    <3>2. base'[r] <= Len(posted')
      BY <2>1, <2>2, <2>3, <2>4, <3>1 DEF RoomInv, BaseInv
    <3> QED  BY <2>1, <3>2 DEF RoomInv, BaseInv
  <2>6. ASSUME NEW point, PointOK(O, point) PROVE PointOK(P, point)
    BY <2>2, <2>6, SeqGrows DEF PointOK, IsBoundary
  <2>7. PointInv(r)'
    BY <2>1, <2>6 DEF RoomInv, PointInv
  <2>8. PollerOK(O, L, poller[r])
    BY <2>1 DEF RoomInv, PollerInv
  <2>9. PollerOK(P, K, poller[r])
    BY <2>2, <2>3, <2>8, PollerGrows
  <2>10. PollerInv(r)'
    BY <2>9 DEF PollerInv
  <2>11. MemberInv(r)' /\ LatestInv(r)'
    BY <2>1 DEF RoomInv, MemberInv, LatestInv, IsLatest, Inactive
  <2>12. ResultInv(r)'
    <3>1. CASE ~Updated(r)
      BY <3>1 DEF ResultInv, Updated
    <3>2. CASE Updated(r)
      <4>1. phase = "polling" /\ r \in rooms
        BY <2>1, <3>2 DEF RoomInv, ResultInv
      <4>2. PICK u \in results[r].updates :
                results[r].updates = {u} /\ UpdateOK(O, L, poller[r], cutoff, u)
        BY <2>1, <3>2 DEF RoomInv, ResultInv
      <4>3. cutoff \in 1 .. (n + 1)
        BY <1>1, <4>1 DEF TypeInv
      <4>4. UpdateOK(P, K, poller[r], cutoff, u)
        BY <2>2, <2>3, <4>2, <4>3, UpdateGrows
      <4> QED  BY <4>1, <4>2, <4>4 DEF ResultInv
    <3> QED  BY <3>1, <3>2
  <2>13. ASSUME NEW ids, ids \in Seq(O) PROVE Below(r, ids)' \subseteq Below(r, ids)
    <3> SUFFICES ASSUME NEW m \in Claimed(r)', NEW x \in Elems(ids), m <= x
                 PROVE  m \in Claimed(r)
      BY DEF Below
    <3>1. x \in O
      BY <2>13, ElemsIn
    <3>2. x \in Nat /\ x <= n /\ m \in Nat
      BY <2>2, <2>3, <2>4, <3>1
    <3>3. m \in K /\ ~(m > n)
      BY <2>3, <2>4, <3>2
    <3> QED  BY <2>2, <2>3, <2>4, <3>3
  <2>14. FlowInv(r)'
    <3>1. /\ durable[r].ids \in Seq(O) /\ batch[r].ids \in Seq(O)
          /\ \A i \in DOMAIN channel : channel[i].points[r].ids \in Seq(O)
      BY <2>1, PointInvFacts DEF RoomInv
    <3>2. Below(r, durable[r].ids)' \subseteq handled /\ Below(r, batch[r].ids)' \subseteq handled
      <4>1. Below(r, durable[r].ids)' \subseteq Below(r, durable[r].ids)
        BY <2>13, <3>1 DEF Below
      <4>2. Below(r, batch[r].ids)' \subseteq Below(r, batch[r].ids)
        BY <2>13, <3>1 DEF Below
      <4> QED  BY <2>1, <4>1, <4>2 DEF RoomInv, FlowInv
    <3>3. ASSUME NEW i \in DOMAIN channel
          PROVE  Below(r, channel[i].points[r].ids)' \subseteq handled \cup Sent(i)
      <4>1. Below(r, channel[i].points[r].ids)' \subseteq Below(r, channel[i].points[r].ids)
        BY <2>13, <3>1 DEF Below
      <4> QED  BY <2>1, <4>1 DEF RoomInv, FlowInv
    <3>4. \A i : Sent(i)' = Sent(i)
      BY DEF Sent
    <3> QED  BY <3>2, <3>3, <3>4 DEF FlowInv
  <2> QED  BY <2>5, <2>7, <2>10, <2>11, <2>12, <2>14 DEF RoomInv
<1> QED  BY <1>1, <1>2, <1>3 DEF SafeInv

\* The actions of Webex change nothing else.
LEMMA WebexSteps ==
    ASSUME TypeInv, Leave \/ (\E r \in Room : Post(r) \/ Join(r)) \/ \E m \in Msgs : Delete(m)
    PROVE  WebexChanges
<1> USE DEF state, current, consumer
<1>0. Len(posted) \in Nat /\ Msgs = 1 .. Len(posted)
  BY DEF TypeInv, Msgs
<1>1. CASE \E r \in Room : Post(r)
  <2>1. PICK r \in Room : Post(r)
    BY <1>1
  <2>2. posted' = Append(posted, r) /\ posted \in Seq(Room)
    BY <2>1 DEF Post, TypeInv
  <2>3. /\ posted' \in Seq(Room) /\ Len(posted') = Len(posted) + 1
        /\ Msgs' = 1 .. (Len(posted) + 1) /\ \A m \in Msgs : posted'[m] = posted[m]
    BY <2>2 DEF Msgs
  <2>4. Msgs \subseteq Msgs' /\ \A m \in Msgs' : m \in Msgs \/ m > Len(posted)
    BY <1>0, <2>3
  <2>5. emitted' \in Seq(Msgs')
    <3>1. emitted \in Seq(Msgs) /\ emitted' = emitted
      BY <2>1 DEF Post, TypeInv
    <3> HIDE DEF Msgs
    <3> QED  BY <2>4, <3>1, SeqGrows
  <2>6. phase' = "polling" => cutoff' \in 1 .. (Len(posted') + 1)
    BY <1>0, <2>1, <2>3 DEF Post, TypeInv
  <2>7. TypeInv'
    BY <2>1, <2>3, <2>4, <2>5, <2>6 DEF Post, TypeInv
  <2> QED  BY <2>1, <2>3, <2>4, <2>7 DEF Post, WebexChanges
<1>2. CASE \E m \in Msgs : Delete(m)
  <2>1. PICK m \in Msgs : Delete(m)
    BY <1>2
  <2>2. Msgs' = Msgs
    BY <2>1 DEF Delete, Msgs
  <2>3. TypeInv'
    BY <2>1, <2>2 DEF Delete, TypeInv
  <2> QED  BY <2>1, <2>2, <2>3 DEF Delete, WebexChanges
<1>3. CASE Leave \/ \E r \in Room : Join(r)
  <2>1. /\ UNCHANGED <<posted, deleted, known, base, state, phase, current, consumer>>
        /\ members' \subseteq Room
    BY <1>3 DEF Leave, Join, TypeInv
  <2>2. Msgs' = Msgs
    BY <2>1 DEF Msgs
  <2>3. TypeInv'
    BY <2>1, <2>2 DEF TypeInv
  <2> QED  BY <2>1, <2>2, <2>3 DEF WebexChanges
<1> QED  BY <1>1, <1>2, <1>3
-----------------------------------------------------------------------------
(***************************************************************************)
(* The polls.                                                              *)
(***************************************************************************)
\* Steps that leave alone what has been posted: facts that stay
LEMMA SameMsgs ==
    ASSUME NEW r \in Room, UNCHANGED <<posted, deleted>>
    PROVE  /\ Msgs' = Msgs /\ Of(r)' = Of(r) /\ Listed(r)' = Listed(r)
           /\ base'[r] = base[r] => Claimed(r)' = Claimed(r) /\ \A ids : Below(r, ids)' = Below(r, ids)
  BY DEF Msgs, Of, Listed, Claimed, Below

PollStep(r, result) ==
    /\ PollOK(Of(r), Listed(r), poller[r], cutoff, result)
    /\ Polled(r, result)

\* PollRoom and PollRoomFails store a result as PollOK describes it.
LEMMA PollSteps ==
    ASSUME SafeInv, NEW r \in Room, PollRoom(r) \/ PollRoomFails(r)
    PROVE  \E result : PollStep(r, result)
<1> DEFINE O == Of(r)
           L == Listed(r)
           p == poller[r]
           q == ListingFor(r)
<1>1. /\ O \in SUBSET Nat /\ 0 \notin O /\ L \in SUBSET O /\ IsFiniteSet(L)
      /\ \A c : {m \in Msgs : posted[m] = r /\ m \notin deleted /\ m < c} = {m \in L : m < c}
  BY OfFacts DEF SafeInv
<1>2. PollerOK(O, L, p) /\ cutoff \in Nat
  BY DEF SafeInv, RoomInv, PollerInv, TypeInv
<1>3. q = Descending({m \in L : m < From(p, cutoff)})
  BY <1>1 DEF ListingFor, Listing, From
<1>4. PICK result : (result = Answered(p, q) \/ result \in Interrupted(p, q)) /\ Polled(r, result)
  BY DEF PollRoom, PollRoomFails
<1> HIDE DEF O, L, p, q
<1>5. PollOK(O, L, p, cutoff, result)
  BY <1>1, <1>2, <1>3, <1>4, PollFacts
<1> QED  BY <1>4, <1>5 DEF PollStep, O, L, p

\* Such a result keeps the invariant: nothing is applied yet.
LEMMA PollSafe ==
    ASSUME SafeInv, NEW s \in Room, NEW result, PollStep(s, result)
    PROVE  SafeInv'
<1> USE DEF PollStep, Polled, webex, state, consumer
<1>1. TypeInv'
  BY DEF SafeInv, TypeInv, Msgs
<1>2. SentInv'
  BY DEF SafeInv, SentInv, Sent
<1>3. ASSUME NEW r \in Room PROVE RoomInv(r)'
  <2>1. RoomInv(r)
    BY DEF SafeInv
  <2>2. Of(r)' = Of(r) /\ Listed(r)' = Listed(r) /\ \A ids : Below(r, ids)' = Below(r, ids)
    BY SameMsgs
  <2>3. BaseInv(r)' /\ PointInv(r)' /\ PollerInv(r)' /\ MemberInv(r)' /\ LatestInv(r)'
    BY <2>1, <2>2 DEF RoomInv, BaseInv, PointInv, PollerInv, MemberInv, LatestInv, IsLatest, Inactive
  <2>4. FlowInv(r)'
    BY <2>1, <2>2 DEF RoomInv, FlowInv, Sent
  <2>5. ResultInv(r)'
    <3>1. CASE r # s
      BY <2>1, <2>2, <3>1 DEF RoomInv, ResultInv, Updated
    <3>2. CASE r = s
      <4>1. results'[r] = result /\ phase = "polling" /\ r \in rooms
        BY <3>2 DEF SafeInv, TypeInv
      <4> QED  BY <2>2, <3>2, <4>1 DEF ResultInv, Updated, PollOK
    <3> QED  BY <3>1, <3>2
  <2> QED  BY <2>1, <2>3, <2>4, <2>5 DEF RoomInv
<1> QED  BY <1>1, <1>2, <1>3 DEF SafeInv
-----------------------------------------------------------------------------
(***************************************************************************)
(* Changes of the rooms polled: RefreshRooms, Reseed, StartRefreshed and   *)
(* Start.                                                                  *)
(***************************************************************************)
\* A poller with the boundary ids and no backlog
WithBoundary(ids) == [NewPoller EXCEPT !.seen = ids, !.initialized = TRUE]

\* A poller without a backlog is right, whatever its boundary.
LEMMA SeedOK ==
    ASSUME NEW O, NEW L, NEW ids, IsBoundary(O, ids)
    PROVE  /\ PollerOK(O, L, WithBoundary(ids)) /\ PollerOK(O, L, NewPoller)
           /\ WithBoundary(ids).seen = ids /\ WithBoundary(ids).initialized = TRUE
           /\ WithBoundary(ids).ids = << >>
<1> DEFINE p == WithBoundary(ids)
           e == NewPoller
<1>2. p.seen = ids /\ p.fresh = << >> /\ p.ids = << >> /\ p.next = 0 /\ p.initialized = TRUE
  BY DEF WithBoundary, NewPoller
<1>3. e.seen = << >> /\ e.fresh = << >> /\ e.ids = << >> /\ e.next = 0 /\ e.initialized = FALSE
  BY DEF NewPoller
<1> HIDE DEF p, e
<1>4. \A seen : Backlog(O, L, seen, << >>, 0)
  <2>1. \A seen : Gapless(L, seen, << >>, 0)
    BY NoElems DEF Gapless
  <2>2. << >> \in Seq(O) /\ Falls(<< >>)
    BY NoElems
  <2> QED  BY <2>1, <2>2 DEF Backlog
<1>5. IsBoundary(O, << >>)
  <2>1. << >> \in Seq(O) /\ Len(<< >>) <= MaxSeen
    BY LimitAssumption
  <2> QED  BY <2>1 DEF IsBoundary
<1>6. PollerOK(O, L, p)
  BY <1>2, <1>4 DEF PollerOK
<1>7. PollerOK(O, L, e)
  BY <1>3, <1>4, <1>5 DEF PollerOK, e
<1> QED  BY <1>2, <1>6, <1>7 DEF p, e

SameRoom(r) == poller'[r] = poller[r] /\ points'[r] = points[r]

\* The room is given up, and its boundary kept as a checkpoint.
Evicted(r) ==
    /\ poller[r].initialized /\ ~HasPendingBacklog(poller[r])
    /\ poller'[r] = NewPoller /\ points'[r] = Point(poller[r].seen)

\* The room gets a poller with the boundary of its checkpoint.
Revived(r) ==
    /\ points[r].given /\ poller[r] = NewPoller
    /\ poller'[r] = WithBoundary(points[r].ids) /\ points'[r] = NoPoint

\* The room loses its backlog.
Dropped(r) ==
    /\ poller[r].initialized /\ IsLatest(r, Point(poller[r].seen))
    /\ poller'[r] = WithBoundary(poller[r].seen) /\ points'[r] = points[r]

RoomsChange ==
    /\ phase = "idle" /\ UNCHANGED <<posted, deleted, known, base, results, consumer>>
    /\ TypeInv' /\ (phase' = "polling" => cutoff' = Len(posted) + 1)
    /\ \A r \in Room : /\ MemberInv(r)'
                       /\ SameRoom(r) \/ Evicted(r) \/ Revived(r) \/ Dropped(r)

\* These changes keep the invariant: the boundary of a room stays the same.
LEMMA RoomsSafe ==
    ASSUME SafeInv, RoomsChange
    PROVE  SafeInv'
<1>1. TypeInv /\ SentInv /\ TypeInv'
  BY DEF SafeInv, RoomsChange
<1> USE DEF consumer
<1>2. SentInv'
  BY <1>1 DEF RoomsChange, SentInv, Sent
<1>3. ASSUME NEW r \in Room PROVE RoomInv(r)'
  <2> DEFINE O == Of(r)
             L == Listed(r)
             p == poller[r]
             e == poller'[r]
  <2>1. RoomInv(r)
    BY DEF SafeInv
  <2>2. O' = O /\ L' = L /\ \A ids : Below(r, ids)' = Below(r, ids)
    BY SameMsgs DEF RoomsChange
  <2>3. /\ O \in SUBSET Nat /\ \A m \in O : m <= Len(posted)
        /\ Len(posted) \in Nat /\ base[r] \in Nat
    BY <1>1, OfFacts DEF TypeInv
  <2>4. PollerOK(O, L, p) /\ IsBoundary(O, p.seen)
    BY <2>1 DEF RoomInv, PollerInv, PollerOK
  <2>5. PointOK(O, points[r])
    BY <2>1 DEF RoomInv, PointInv
  <2>6. IsBoundary(O, points[r].ids) /\ (points[r].given => points[r] = Point(points[r].ids))
    BY <2>5, PointFacts DEF IsBoundary
  <2>7. PollerOK(O, L, e)
    <3>1. /\ PollerOK(O, L, NewPoller) /\ PollerOK(O, L, WithBoundary(p.seen))
          /\ PollerOK(O, L, WithBoundary(points[r].ids))
      BY <2>4, <2>6, SeedOK
    <3> QED  BY <2>4, <3>1 DEF RoomsChange, SameRoom, Evicted, Revived, Dropped
  <2>8. PollerInv(r)'
    BY <2>2, <2>7 DEF PollerInv
  <2>9. BaseInv(r)'
    <3>1. base'[r] = base[r] /\ base[r] <= Len(posted) /\ (EmitExisting => base[r] = 0)
          /\ posted' = posted
      BY <2>1 DEF RoomsChange, RoomInv, BaseInv
    <3>2. ASSUME phase' = "polling", NEW b \in Elems(e.seen) PROVE b < cutoff'
      <4>1. b \in O
        BY <2>7, ElemsIn DEF PollerOK, IsBoundary
      <4>2. b <= Len(posted) /\ b \in Nat /\ cutoff' = Len(posted) + 1
        BY <2>3, <3>2, <4>1 DEF RoomsChange
      <4> QED  BY <2>3, <4>2
    <3>3. phase' = "polling" => base[r] < cutoff'
      BY <2>3, <3>1 DEF RoomsChange
    <3> QED  BY <3>1, <3>2, <3>3 DEF BaseInv
  <2>10. PointOK(O, points'[r])
    <3>1. PointOK(O, NoPoint)
      BY DEF PointOK
    <3>2. PointOK(O, Point(p.seen))
      <4>1. Point(p.seen).ids = p.seen
        BY DEF Point
      <4> QED  BY <2>4, <4>1 DEF PointOK
    <3> QED  BY <2>5, <3>1, <3>2 DEF RoomsChange, SameRoom, Evicted, Revived, Dropped
  <2>11. PointInv(r)'
    BY <2>1, <2>2, <2>10 DEF RoomsChange, RoomInv, PointInv
  <2>12. \A point : IsLatest(r, point)' <=> IsLatest(r, point)
    BY DEF RoomsChange, IsLatest
  <2>13. LatestInv(r)'
    <3>1. known'[r] = known[r] /\ LatestInv(r)
      BY <2>1 DEF RoomsChange, RoomInv
    <3> HIDE DEF O, L
    <3>2. CASE SameRoom(r)
      BY <2>12, <3>1, <3>2 DEF SameRoom, LatestInv
    <3>3. CASE Evicted(r)
      <4>1. e.initialized = FALSE /\ points'[r].given = TRUE /\ points'[r] = Point(p.seen)
        BY <3>3 DEF Evicted, NewPoller, Point
      <4>2. known[r] /\ IsLatest(r, Point(p.seen))
        BY <3>1, <3>3 DEF Evicted, LatestInv
      <4>3. IsLatest(r, points'[r])
        BY <4>1, <4>2
      <4> QED  BY <2>12, <3>1, <4>1, <4>2, <4>3 DEF LatestInv
    <3>4. CASE Revived(r)
      <4>1. e.initialized = TRUE /\ e.seen = points[r].ids /\ p.initialized = FALSE
        <5>1. LET w == WithBoundary(points[r].ids) IN w.initialized = TRUE /\ w.seen = points[r].ids
          BY <2>6, SeedOK
        <5> QED  BY <3>4, <5>1 DEF Revived, NewPoller
      <4>2. known[r] /\ IsLatest(r, points[r]) /\ points[r] = Point(e.seen)
        BY <2>6, <3>1, <3>4, <4>1 DEF Revived, LatestInv
      <4> QED  BY <2>12, <3>1, <4>1, <4>2 DEF LatestInv
    <3>5. CASE Dropped(r)
      <4>1. e.initialized = TRUE /\ e.seen = p.seen
        BY <2>4, <3>5, SeedOK DEF Dropped
      <4>2. known[r] /\ IsLatest(r, Point(p.seen))
        BY <3>1, <3>5 DEF Dropped, LatestInv
      <4> QED  BY <2>12, <3>1, <4>1, <4>2 DEF LatestInv
    <3> QED  BY <3>2, <3>3, <3>4, <3>5 DEF RoomsChange
  <2>14. ResultInv(r)'
    BY <2>1 DEF RoomsChange, RoomInv, ResultInv, Updated
  <2>15. FlowInv(r)'
    BY <2>1, <2>2 DEF RoomsChange, RoomInv, FlowInv, Sent
  <2>16. MemberInv(r)'
    BY DEF RoomsChange
  <2> QED  BY <2>8, <2>9, <2>11, <2>13, <2>14, <2>15, <2>16 DEF RoomInv
<1> QED  BY <1>1, <1>2, <1>3 DEF SafeInv

\* refresh_rooms evicts and revives rooms, and does nothing else to them.
LEMMA RefreshFacts ==
    ASSUME SafeInv, NEW found \in SUBSET Room, Refresh(found)
    PROVE  /\ rooms' = found /\ inactive' \in Seq(Room) /\ points' \in [Room -> Checkpoint]
           /\ \A r \in Room : MemberInv(r)' /\ (SameRoom(r) \/ Evicted(r) \/ Revived(r))
<1> DEFINE order == InactiveOrder(found)
           pruned == Pruned(order)
<1>1. /\ rooms' = found
      /\ inactive' = Only(order, Room \ pruned)
      /\ poller' = [r \in Room |->
                        IF r \in pruned THEN NewPoller
                        ELSE IF r \in New(found) /\ points[r].given THEN Seeded(points[r].ids)
                        ELSE poller[r]]
      /\ points' = [r \in Room |->
                        IF r \in pruned THEN CurrentCheckpoint(r)
                        ELSE IF r \in New(found) THEN NoPoint
                        ELSE points[r]]
  BY DEF Refresh
<1>2. TypeInv /\ \A r \in Room : RoomInv(r)
  BY DEF SafeInv
<1>3. order \in Seq(Room) /\ Elems(order) = (Inactive \cup rooms) \ found
  <2> DEFINE kept == Room \ found
             gone == rooms \ found
             a == Only(inactive, kept)
             b == Ascending(gone)
  <2>1. inactive \in Seq(Room) /\ rooms \subseteq Room /\ Inactive \subseteq Room
    BY <1>2, ElemsIn DEF TypeInv, Inactive
  <2>2. a \in Seq(Room) /\ Elems(a) = Elems(inactive) \cap kept
    <3> HIDE DEF kept
    <3> QED  BY <2>1, OnlyFacts
  <2>3. gone \in SUBSET Nat /\ gone \in SUBSET Room /\ IsFiniteSet(gone)
    BY <2>1, RoomAssumption, FS_Subset
  <2>4. b \in Seq(gone) /\ Elems(b) = gone
    <3> HIDE DEF gone
    <3> QED  BY <2>3, AscendingFacts
  <2>5. b \in Seq(Room)
    <3> HIDE DEF b, gone
    <3> QED  BY <2>3, <2>4, SeqGrows
  <2>6. order = a \o b
    BY DEF InactiveOrder
  <2> HIDE DEF a, b, order
  <2>7. order \in Seq(Room) /\ Elems(order) = Elems(a) \cup Elems(b)
    BY <2>2, <2>5, <2>6, JoinFacts
  <2> QED  BY <2>1, <2>2, <2>4, <2>7 DEF Inactive
<1>4. pruned \subseteq Elems(order) /\ \A r \in pruned : ~HasPendingBacklog(poller[r])
  BY DEF Pruned, Elems
<1> HIDE DEF order, pruned
<1>5. inactive' \in Seq(Room) /\ Inactive' = Elems(order) \ pruned
  <2> DEFINE kept == Room \ pruned
  <2>1. Elems(order) \subseteq Room
    BY <1>3, ElemsIn
  <2>2. inactive' = Only(order, kept)
    BY <1>1
  <2> HIDE DEF kept
  <2>3. inactive' \in Seq(Room) /\ Elems(inactive') = Elems(order) \cap kept
    BY <1>3, <2>2, OnlyFacts
  <2> QED  BY <2>1, <2>3 DEF kept, Inactive
<1>6. ASSUME NEW r \in Room
      PROVE  /\ MemberInv(r)' /\ (SameRoom(r) \/ Evicted(r) \/ Revived(r)) /\ points'[r] \in Checkpoint
  <2>0. MemberInv(r) /\ PollerInv(r) /\ PointOK(Of(r), points[r]) /\ points[r] \in Checkpoint
    BY <1>2 DEF RoomInv, PointInv, TypeInv
  <2>1. CASE r \in pruned
    <3>1. /\ r \in Inactive \cup rooms /\ r \notin rooms' /\ r \notin Inactive'
          /\ ~HasPendingBacklog(poller[r]) /\ points[r] = NoPoint
      BY <1>1, <1>3, <1>4, <1>5, <2>0, <2>1 DEF MemberInv
    <3>2. poller'[r] = NewPoller /\ points'[r] = CurrentCheckpoint(r)
      BY <1>1, <2>1
    <3>3. MemberInv(r)'
      BY <3>1, <3>2 DEF MemberInv
    <3>4. CASE poller[r].initialized
      <4>1. points'[r] = Point(poller[r].seen)
        BY <3>2, <3>4 DEF CurrentCheckpoint
      <4>2. poller[r].seen \in Seq(Nat)
        <5>1. poller[r].seen \in Seq(Of(r)) /\ Of(r) \subseteq Nat
          BY <1>2, <2>0, OfFacts DEF PollerInv, PollerOK, IsBoundary
        <5> QED  BY <5>1, SeqGrows
      <4>3. points'[r] \in Checkpoint
        BY <4>1, <4>2 DEF Point, Checkpoint
      <4> QED  BY <3>1, <3>2, <3>3, <3>4, <4>1, <4>3 DEF Evicted
    <3>5. CASE ~poller[r].initialized
      <4>1. points'[r] = points[r] /\ poller[r] = NewPoller
        BY <2>0, <3>2, <3>5 DEF CurrentCheckpoint, PollerInv, PollerOK
      <4> QED  BY <2>0, <3>2, <3>3, <4>1 DEF SameRoom
    <3> QED  BY <3>4, <3>5
  <2>2. CASE r \notin pruned /\ r \in New(found)
    <3>1. r \in rooms' /\ points'[r] = NoPoint /\ poller[r] = NewPoller
      BY <1>1, <2>0, <2>2 DEF New, MemberInv
    <3>2. MemberInv(r)'
      BY <3>1 DEF MemberInv
    <3>3. NoPoint \in Checkpoint
      BY DEF NoPoint, Checkpoint
    <3>4. CASE points[r].given
      <4>1. poller'[r] = Seeded(points[r].ids)
        BY <1>1, <2>2, <3>4
      <4>2. points[r].ids \in Seq(Of(r)) /\ Len(points[r].ids) <= MaxSeen
        BY <2>0, PointFacts
      <4>3. poller'[r] = WithBoundary(points[r].ids)
        BY <4>1, <4>2, SeededFacts DEF WithBoundary
      <4> QED  BY <3>1, <3>2, <3>3, <3>4, <4>3 DEF Revived
    <3>5. CASE ~points[r].given
      <4>1. poller'[r] = poller[r] /\ points[r] = NoPoint
        BY <1>1, <2>0, <2>2, <3>5, PointFacts
      <4> QED  BY <3>1, <3>2, <3>3, <4>1 DEF SameRoom
    <3> QED  BY <3>4, <3>5
  <2>3. CASE r \notin pruned /\ r \notin New(found)
    <3>1. SameRoom(r)
      BY <1>1, <2>3 DEF SameRoom
    <3>2. r \in rooms' \cup Inactive' <=> r \in rooms \cup Inactive
      BY <1>1, <1>3, <1>5, <2>3 DEF New
    <3>3. MemberInv(r)'
      BY <2>0, <3>1, <3>2 DEF MemberInv, SameRoom
    <3> QED  BY <2>0, <3>1, <3>3 DEF SameRoom
  <2> QED  BY <2>1, <2>2, <2>3
<1>7. points' \in [Room -> Checkpoint]
  BY <1>1, <1>6
<1> QED  BY <1>1, <1>5, <1>6, <1>7

\* The four actions make no other changes: a poller that is seeded again while
\* nothing is on its way to the consumer gets the boundary it had.
LEMMA RoomSteps ==
    ASSUME SafeInv, RefreshRooms \/ Reseed \/ StartRefreshed \/ Start
    PROVE  RoomsChange
<1> USE DEF webex, state, current, consumer
<1>0. TypeInv /\ \A r \in Room : RoomInv(r)
  BY DEF SafeInv
<1>1. CASE RefreshRooms \/ StartRefreshed
  <2>1. Refresh(members) /\ members \in SUBSET Room /\ phase = "idle"
    BY <1>0, <1>1 DEF RefreshRooms, StartRefreshed, StartBatch, AtRest, Discovered, TypeInv
  <2>2. /\ rooms' = members /\ inactive' \in Seq(Room) /\ points' \in [Room -> Checkpoint]
        /\ \A r \in Room : MemberInv(r)' /\ (SameRoom(r) \/ Evicted(r) \/ Revived(r))
    BY <2>1, RefreshFacts
  <2>3. /\ UNCHANGED <<webex, known, base, results, consumer>>
        /\ \/ UNCHANGED <<phase, cutoff, todo>>
           \/ phase' = "polling" /\ cutoff' = Len(posted) + 1 /\ todo' = members
    BY <1>1 DEF RefreshRooms, StartRefreshed, StartBatch, Discovered
  <2>4. Len(posted) \in Nat /\ cutoff \in Nat /\ Msgs' = Msgs /\ todo = {}
    BY <1>0, <2>1, <2>3 DEF TypeInv, Msgs
  <2>5. TypeInv'
    BY <1>0, <2>1, <2>2, <2>3, <2>4 DEF TypeInv
  <2> QED  BY <2>1, <2>2, <2>3, <2>5 DEF RoomsChange
<1>2. CASE Start
  <2>1. UNCHANGED state /\ phase = "idle" /\ UNCHANGED <<webex, known, base, results, consumer>>
        /\ phase' = "polling" /\ cutoff' = Len(posted) + 1 /\ todo' = rooms
    BY <1>2 DEF Start, StartBatch, NotRefreshed
  <2>2. Len(posted) \in Nat /\ Msgs' = Msgs
    BY <1>0, <2>1 DEF TypeInv, Msgs
  <2>3. TypeInv'
    BY <1>0, <2>1, <2>2 DEF TypeInv
  <2>4. \A r \in Room : MemberInv(r)' /\ SameRoom(r)
    BY <1>0, <2>1 DEF RoomInv, MemberInv, SameRoom, Inactive
  <2> QED  BY <2>1, <2>3, <2>4 DEF RoomsChange
<1>3. CASE Reseed
  <2>1. /\ phase = "idle" /\ channel = << >> /\ batch = NoPoints
        /\ UNCHANGED <<webex, known, base, rooms, inactive, phase, cutoff, todo, results, consumer>>
    BY <1>3 DEF Reseed, AtRest
  <2>2. ASSUME NEW r \in Room
        PROVE  MemberInv(r)' /\ (SameRoom(r) \/ Dropped(r)) /\ points'[r] \in Checkpoint
    <3>1. /\ MemberInv(r) /\ PollerInv(r) /\ PointOK(Of(r), durable[r]) /\ LatestInv(r)
          /\ durable[r] \in Checkpoint
      BY <1>0 DEF RoomInv, PointInv, TypeInv
    <3>2. \A point : IsLatest(r, point) => point = durable[r]
      BY <2>1, NoElems DEF IsLatest, NoPoints, NoPoint
    <3>3. /\ poller'[r] = IF r \in rooms \cup Inactive /\ durable[r].given
                          THEN Seeded(durable[r].ids) ELSE poller[r]
          /\ points'[r] = IF r \in rooms \cup Inactive THEN NoPoint ELSE durable[r]
      BY <1>3 DEF Reseed
    <3>4. NoPoint \in Checkpoint
      BY DEF NoPoint, Checkpoint
    <3>5. CASE r \in rooms \cup Inactive
      <4>1. points'[r] = NoPoint /\ points[r] = NoPoint
        BY <3>1, <3>3, <3>5 DEF MemberInv
      <4>2. MemberInv(r)'
        BY <2>1, <3>5, <4>1 DEF MemberInv, Inactive
      <4>3. CASE durable[r].given
        <5>1. durable[r] # NoPoint
          BY <4>3 DEF NoPoint
        <5>2. poller[r].initialized
          BY <3>1, <3>2, <4>1, <5>1 DEF LatestInv
        <5>3. IsLatest(r, Point(poller[r].seen))
          BY <3>1, <3>2, <5>1, <5>2 DEF LatestInv
        <5>4. durable[r] = Point(poller[r].seen)
          BY <3>2, <5>3
        <5>5. durable[r].ids = poller[r].seen
          BY <5>4 DEF Point
        <5>6. durable[r].ids \in Seq(Of(r)) /\ Len(durable[r].ids) <= MaxSeen
          BY <3>1, PointFacts
        <5>7. poller'[r] = WithBoundary(poller[r].seen)
          BY <3>3, <3>5, <4>3, <5>5, <5>6, SeededFacts DEF WithBoundary
        <5> QED  BY <3>4, <4>1, <4>2, <5>2, <5>3, <5>7 DEF Dropped
      <4>4. CASE ~durable[r].given
        BY <3>3, <3>4, <4>1, <4>2, <4>4 DEF SameRoom
      <4> QED  BY <4>3, <4>4
    <3>6. CASE r \notin rooms \cup Inactive
      <4>1. poller[r] = NewPoller /\ poller'[r] = poller[r] /\ points'[r] = durable[r]
        BY <3>1, <3>3, <3>6 DEF MemberInv
      <4>2. points[r] = durable[r]
        BY <3>1, <3>2, <4>1 DEF LatestInv, NewPoller
      <4>3. MemberInv(r)'
        BY <2>1, <3>6, <4>1 DEF MemberInv, Inactive
      <4> QED  BY <3>1, <4>1, <4>2, <4>3 DEF SameRoom
    <3> QED  BY <3>5, <3>6
  <2>3. points' \in [Room -> Checkpoint]
    BY <1>3, <2>2 DEF Reseed
  <2>4. TypeInv'
    BY <1>0, <2>1, <2>3 DEF TypeInv, Msgs
  <2> QED  BY <2>1, <2>2, <2>4 DEF RoomsChange
<1> QED  BY <1>1, <1>2, <1>3
-----------------------------------------------------------------------------
(***************************************************************************)
(* Finish.                                                                 *)
(***************************************************************************)
After(seen, ids, next) ==
    [seen |-> seen, fresh |-> ids, ids |-> ids, next |-> next, initialized |-> TRUE]

Found(r) == Ids(Update(r))

CheckpointOf(r) == IF r \in rooms THEN CheckpointAfterUpdate(r) ELSE NoPoint

\* No update for the room
Unpolled(r) ==
    /\ ~Updated(r)
    /\ poller'[r] = poller[r] /\ known'[r] = known[r] /\ base'[r] = base[r]
    /\ CheckpointOf(r) = NoPoint

\* The first baseline of the room
Based(r) ==
    /\ r \in rooms /\ ~Emits(poller[r]) /\ Baseline(Of(r), Listed(r), cutoff, Update(r))
    /\ poller'[r] = After(RememberNewestFirst(<< >>, Found(r)), << >>, 0)
    /\ known'[r] /\ base'[r] = cutoff - 1
    /\ CheckpointOf(r) = Point(poller'[r].seen)

\* The messages found are held back.
Held(r) ==
    /\ r \in rooms /\ Updated(r) /\ Emits(poller[r])
    /\ Backlog(Of(r), Listed(r), poller[r].seen, Found(r), poller'[r].next)
    /\ poller'[r] = After(poller[r].seen, Found(r), poller'[r].next)
    /\ HasPendingBacklog(poller'[r])
    /\ known'[r] /\ base'[r] = base[r]
    /\ CheckpointOf(r) = NoPoint /\ BatchHasBacklog

\* The messages found are emitted.
Done(r) ==
    /\ r \in rooms /\ Updated(r) /\ Emits(poller[r])
    /\ Backlog(Of(r), Listed(r), poller[r].seen, Found(r), 0)
    /\ poller'[r] = After(RememberNewestFirst(poller[r].seen, Found(r)), << >>, 0)
    /\ Elems(Found(r)) \subseteq Elems(Events)
    /\ known'[r] /\ base'[r] = base[r]
    /\ CheckpointOf(r) = Point(poller'[r].seen)

\* The fields of an update that commits ids
LEMMA CommittedFacts ==
    ASSUME NEW A, NEW ids \in Seq(A), NEW u, u = Committed(ids, ids)
    PROVE  /\ Elems(u.messages) = Elems(ids) /\ Backwards(u.messages) = ids
           /\ u.messages = << >> <=> ids = << >>
           /\ u.seenIds = ids /\ u.fresh = << >> /\ u.ids = << >> /\ u.next = 0 /\ u.commitSeen = TRUE
<1>1. /\ u.messages = Backwards(ids)
      /\ u.seenIds = ids /\ u.fresh = << >> /\ u.ids = << >> /\ u.next = 0 /\ u.commitSeen = TRUE
  BY DEF Committed
<1>2. /\ Backwards(ids) \in Seq(A) /\ Len(Backwards(ids)) = Len(ids)
      /\ Elems(Backwards(ids)) = Elems(ids) /\ Backwards(Backwards(ids)) = ids
  BY BackwardsFacts
<1>3. Backwards(ids) = << >> <=> ids = << >>
  BY <1>2
<1> QED  BY <1>1, <1>2, <1>3

\* The only update a poll returned
LEMMA UpdateFacts ==
    ASSUME SafeInv, NEW r \in Room, Updated(r)
    PROVE  /\ results[r].updates = {Update(r)} /\ r \in rooms /\ phase = "polling"
           /\ UpdateOK(Of(r), Listed(r), poller[r], cutoff, Update(r))
  BY DEF SafeInv, RoomInv, ResultInv, Update

\* What an update that is not a baseline brings: all of it, or a part
LEMMA CollectedUpdate ==
    ASSUME SafeInv, NEW r \in Room, Updated(r), Emits(poller[r]), NEW u, u = Update(r)
    PROVE  /\ Found(r) \in Seq(Of(r))
           /\ \/ /\ u.commitSeen = TRUE /\ Backlog(Of(r), Listed(r), poller[r].seen, Found(r), 0)
                 /\ Elems(u.messages) = Elems(Found(r)) /\ Backwards(u.messages) = Found(r)
                 /\ u.messages = << >> <=> Found(r) = << >>
                 /\ u.seenIds = Found(r) /\ u.fresh = << >> /\ u.ids = << >> /\ u.next = 0
              \/ /\ u.commitSeen = FALSE /\ u.next # 0
                 /\ Backlog(Of(r), Listed(r), poller[r].seen, Found(r), u.next)
                 /\ u.messages = << >> /\ u.fresh = Found(r) /\ u.ids = Found(r)
<1> DEFINE ids == Found(r)
<1>1. Collected(Of(r), Listed(r), poller[r], u)
  BY UpdateFacts DEF UpdateOK
<1>2. /\ Backlog(Of(r), Listed(r), poller[r].seen, ids, u.next)
      /\ u = Committed(ids, ids) \/ (u = Pending(ids, ids, u.next) /\ u.next # 0)
  BY <1>1 DEF Collected, Found
<1> HIDE DEF ids
<1>3. ids \in Seq(Of(r))
  BY <1>2 DEF Backlog
<1>4. CASE u = Committed(ids, ids)
  BY <1>2, <1>3, <1>4, CommittedFacts DEF ids
<1>5. CASE u = Pending(ids, ids, u.next) /\ u.next # 0
  <2> DEFINE n == u.next
  <2>1. u = Pending(ids, ids, n) /\ n # 0
    BY <1>5
  <2> HIDE DEF n
  <2>2. u.commitSeen = FALSE /\ u.messages = << >> /\ u.fresh = ids /\ u.ids = ids
    BY <2>1 DEF Pending
  <2> QED  BY <1>2, <1>3, <1>5, <2>2 DEF ids
<1> QED  BY <1>2, <1>3, <1>4, <1>5 DEF ids

\* What the update of a baseline brings: no messages
LEMMA BaselineUpdate ==
    ASSUME SafeInv, NEW r \in Room, Updated(r), ~Emits(poller[r]), NEW u, u = Update(r)
    PROVE  /\ u.messages = << >> /\ u.seenIds = Found(r) /\ u.fresh = << >> /\ u.ids = << >>
           /\ u.next = 0 /\ u.commitSeen = TRUE
           /\ Baseline(Of(r), Listed(r), cutoff, u)
<1>1. Baseline(Of(r), Listed(r), cutoff, u)
  BY UpdateFacts DEF UpdateOK
<1> DEFINE ids == u.seenIds
<1>2. u = Committed(<< >>, ids)
  BY <1>1 DEF Baseline
<1> HIDE DEF ids
<1>3. u.messages = << >> /\ u.seenIds = ids /\ u.fresh = << >> /\ u.ids = << >>
      /\ u.next = 0 /\ u.commitSeen = TRUE
  BY <1>2, NoElems DEF Committed
<1> QED  BY <1>1, <1>3 DEF Found, Ids

\* The events of a batch are in order, and each was found in its room.
LEMMA EventsFacts ==
    ASSUME SafeInv
    PROVE  /\ Events \in Seq(Msgs) /\ Rises(Events)
           /\ \A e \in Elems(Events) :
                \E r \in rooms : Updated(r) /\ Emits(poller[r]) /\ e \in Elems(Found(r))
           /\ ~BatchHasBacklog =>
                \A r \in rooms : Updated(r) => Elems(Update(r).messages) \subseteq Elems(Events)
<1>1. TypeInv /\ rooms \subseteq Room
  BY DEF SafeInv, TypeInv
<1>2. CASE BatchHasBacklog
  <2>1. Events = << >>
    BY <1>2 DEF Events
  <2>2. Elems(<< >>) = {} /\ Rises(<< >>)
    BY NoElems
  <2>3. << >> \in Seq(Msgs)
    OBVIOUS
  <2> QED  BY <1>2, <2>1, <2>2, <2>3
<1>3. CASE ~BatchHasBacklog
  <2> DEFINE U == {x \in rooms : Updated(x)}
             E == UNION {Elems(Update(r).messages) : r \in U}
  <2>1. Events = Ascending(E)
    BY <1>3 DEF Events
  <2>2. ASSUME NEW r \in U, NEW e \in Elems(Update(r).messages)
        PROVE  Emits(poller[r]) /\ e \in Elems(Found(r)) /\ e \in Msgs
    <3>1. r \in Room /\ Updated(r)
      BY <1>1
    <3>2. Emits(poller[r])
      BY <2>2, <3>1, BaselineUpdate, NoElems
    <3>3. e \in Elems(Found(r)) /\ Found(r) \in Seq(Of(r))
      BY <2>2, <3>1, <3>2, CollectedUpdate, NoElems
    <3>4. e \in Of(r)
      BY <3>3, ElemsIn
    <3> QED  BY <3>2, <3>3, <3>4 DEF Of
  <2>3. E \subseteq Msgs /\ \A e \in E : \E r \in U : e \in Elems(Update(r).messages)
    BY <2>2
  <2>4. \A r \in U : Elems(Update(r).messages) \subseteq E
    OBVIOUS
  <2>5. IsFiniteSet(Msgs) /\ Msgs \subseteq Nat
    <3>1. Len(posted) \in Nat /\ Msgs = 1 .. Len(posted)
      BY <1>1 DEF TypeInv, Msgs
    <3> QED  BY <3>1, IntervalFacts
  <2> HIDE DEF E
  <2>6. E \in SUBSET Nat /\ IsFiniteSet(E)
    BY <2>3, <2>5, FS_Subset
  <2>7. Events \in Seq(E) /\ Elems(Events) = E /\ Rises(Events)
    BY <2>1, <2>6, AscendingFacts
  <2>8. Events \in Seq(Msgs)
    BY <2>3, <2>7, SeqGrows
  <2> QED  BY <2>2, <2>3, <2>4, <2>7, <2>8
<1> QED  BY <1>2, <1>3

\* What Finish does to each room
LEMMA FinishRooms ==
    ASSUME SafeInv, Finish, NEW r \in Room
    PROVE  Unpolled(r) \/ Based(r) \/ Held(r) \/ Done(r)
<1> DEFINE p == poller[r]
           u == Update(r)
<1>1. /\ rooms \subseteq Room
      /\ poller'[r] = IF r \in rooms /\ Updated(r) THEN ApplyUpdate(p, Applied(r)) ELSE p
      /\ known'[r] <=> known[r] \/ (r \in rooms /\ Updated(r))
      /\ known'[r] \in BOOLEAN /\ known[r] \in BOOLEAN
      /\ base'[r] = IF r \in rooms /\ IsBaseline(r) /\ ~EmitExisting THEN cutoff - 1 ELSE base[r]
  BY DEF Finish, SafeInv, TypeInv
<1>2. PollerInv(r) /\ MemberInv(r) /\ LatestInv(r)
  BY DEF SafeInv, RoomInv
<1>3. CASE ~Updated(r)
  <2>1. CheckpointOf(r) = NoPoint
    BY <1>3 DEF CheckpointOf, CheckpointAfterUpdate
  <2>2. poller'[r] = p /\ base'[r] = base[r] /\ known'[r] = known[r]
    BY <1>1, <1>3 DEF IsBaseline
  <2> QED  BY <1>3, <2>1, <2>2 DEF Unpolled
<1>4. CASE Updated(r)
  <2>1. r \in rooms
    BY <1>4, UpdateFacts
  <2>2. poller'[r] = ApplyUpdate(p, Applied(r)) /\ known'[r]
    BY <1>1, <1>4, <2>1
  <2>3. CheckpointOf(r) = IF Applied(r).commitSeen THEN Point(poller'[r].seen) ELSE NoPoint
    BY <1>4, <2>1, <2>2 DEF CheckpointOf, CheckpointAfterUpdate
  <2>4. CASE ~Emits(p)
    <3>1. /\ u.messages = << >> /\ u.seenIds = Found(r) /\ u.fresh = << >> /\ u.ids = << >>
          /\ u.next = 0 /\ u.commitSeen = TRUE
          /\ Baseline(Of(r), Listed(r), cutoff, u)
      BY <1>4, <2>4, BaselineUpdate
    <3>2. Applied(r) = u
      BY <3>1 DEF Applied
    <3>3. ~p.initialized /\ p.seen = << >> /\ ~EmitExisting /\ points[r] = NoPoint
      BY <1>2, <2>1, <2>4 DEF Emits, PollerInv, PollerOK, NewPoller, MemberInv
    <3>4. ~known[r]
      BY <1>2, <3>3 DEF LatestInv, NoPoint
    <3>5. base'[r] = cutoff - 1
      BY <1>1, <1>4, <2>1, <3>3, <3>4 DEF IsBaseline
    <3>6. poller'[r] = After(RememberNewestFirst(<< >>, Found(r)), << >>, 0)
      BY <2>2, <3>1, <3>2, <3>3 DEF ApplyUpdate, After
    <3>7. CheckpointOf(r) = Point(poller'[r].seen)
      BY <2>3, <3>1, <3>2
    <3> QED  BY <2>1, <2>2, <2>4, <3>1, <3>5, <3>6, <3>7 DEF Based
  <2>5. CASE Emits(p)
    <3>1. base'[r] = base[r]
      BY <1>1, <1>2, <2>5 DEF IsBaseline, Emits, LatestInv
    <3> DEFINE O == Of(r)
               L == Listed(r)
               ids == Found(r)
    <3>2. ids \in Seq(O)
      BY <1>4, <2>5, CollectedUpdate
    <3>3. CASE u.commitSeen = TRUE
      <4>1. /\ Backlog(O, L, p.seen, ids, 0)
            /\ Elems(u.messages) = Elems(ids) /\ Backwards(u.messages) = ids
            /\ u.messages = << >> <=> ids = << >>
            /\ u.seenIds = ids /\ u.fresh = << >> /\ u.ids = << >> /\ u.next = 0
        BY <1>4, <2>5, <3>3, CollectedUpdate
      <4> HIDE DEF O, L, ids, p, u
      <4>2. CASE BatchHasBacklog /\ ids # << >>
        <5>1. Applied(r) = Pending(ids, ids, 0)
          BY <3>3, <4>1, <4>2 DEF Applied, u
        <5>2. poller'[r] = After(p.seen, ids, 0)
          BY <2>2, <5>1 DEF ApplyUpdate, Pending, After
        <5>3. poller'[r].next = 0 /\ poller'[r].ids = ids
          BY <5>2 DEF After
        <5>4. CheckpointOf(r) = NoPoint
          BY <2>3, <5>1 DEF Pending
        <5>5. HasPendingBacklog(poller'[r])
          BY <4>2, <5>3 DEF HasPendingBacklog
        <5> QED  BY <1>4, <2>1, <2>2, <2>5, <3>1, <4>1, <4>2, <5>2, <5>3, <5>4, <5>5 DEF Held, O, L, ids, p
      <4>3. CASE ~(BatchHasBacklog /\ ids # << >>)
        <5>1. Applied(r) = u
          BY <4>1, <4>3 DEF Applied, u
        <5>2. poller'[r] = After(RememberNewestFirst(p.seen, ids), << >>, 0)
          BY <2>2, <3>3, <4>1, <5>1 DEF ApplyUpdate, After
        <5>3. Elems(ids) \subseteq Elems(Events)
          <6>1. CASE ids = << >>
            BY <6>1, NoElems
          <6>2. CASE ~BatchHasBacklog
            BY <1>4, <2>1, <4>1, <6>2, EventsFacts DEF u
          <6> QED  BY <4>3, <6>1, <6>2
        <5>4. CheckpointOf(r) = Point(poller'[r].seen)
          BY <2>3, <3>3, <5>1
        <5> QED  BY <1>4, <2>1, <2>2, <2>5, <3>1, <4>1, <5>2, <5>3, <5>4 DEF Done, O, L, ids, p
      <4> QED  BY <4>2, <4>3
    <3>4. CASE u.commitSeen = FALSE
      <4>1. /\ u.next # 0 /\ Backlog(O, L, p.seen, ids, u.next)
            /\ u.messages = << >> /\ u.fresh = ids /\ u.ids = ids
        BY <1>4, <2>5, <3>4, CollectedUpdate
      <4> HIDE DEF O, L, ids, p, u
      <4>2. Applied(r) = u
        BY <3>4 DEF Applied, u
      <4>3. poller'[r] = After(p.seen, ids, u.next)
        BY <2>2, <3>4, <4>1, <4>2 DEF ApplyUpdate, After
      <4>4. poller'[r].next = u.next
        BY <4>3 DEF After
      <4>5. CheckpointOf(r) = NoPoint
        BY <2>3, <3>4, <4>2
      <4>6. HasPendingBacklog(poller'[r])
        BY <4>1, <4>4 DEF HasPendingBacklog
      <4>7. BatchHasBacklog
        BY <1>4, <2>1, <3>4 DEF BatchHasBacklog, u
      <4> QED  BY <1>4, <2>1, <2>2, <2>5, <3>1, <4>1, <4>3, <4>4, <4>5, <4>6, <4>7 DEF Held, O, L, ids, p
    <3> QED  BY <1>4, <2>5, <3>3, <3>4, CollectedUpdate
  <2> QED  BY <2>4, <2>5
<1> QED  BY <1>3, <1>4

\* The boundary in memory covers nothing but what was handled or sent.
LEMMA Covered ==
    ASSUME NEW r \in Room, TypeInv, RoomInv(r)
    PROVE  Below(r, poller[r].seen) \cup Below(r, points[r].ids) \subseteq handled \cup Sent(Len(channel))
<1>1. ASSUME NEW point, IsLatest(r, point)
      PROVE  Below(r, point.ids) \subseteq handled \cup Sent(Len(channel))
  <2>1. FlowInv(r) /\ Len(channel) \in Nat /\ DOMAIN channel = 1 .. Len(channel)
    BY DEF RoomInv, TypeInv
  <2>2. CASE \E i \in DOMAIN channel : channel[i].points[r] = point
    <3>1. PICK i \in DOMAIN channel : channel[i].points[r] = point
      BY <2>2
    <3>2. Sent(i) \subseteq Sent(Len(channel))
      BY <2>1 DEF Sent
    <3> QED  BY <2>1, <3>1, <3>2 DEF FlowInv
  <2>3. CASE point = batch[r] \/ point = durable[r]
    BY <2>1, <2>3 DEF FlowInv
  <2> QED  BY <1>1, <2>2, <2>3 DEF IsLatest
<1>2. Below(r, << >>) = {}
  BY NoElems DEF Below
<1>3. Point(poller[r].seen).ids = poller[r].seen /\ NoPoint.ids = << >>
  BY DEF Point, NoPoint
<1>4. LatestInv(r) /\ MemberInv(r) /\ PollerInv(r)
  BY DEF RoomInv
<1>5. CASE poller[r].initialized
  <2>1. points[r].ids = << >>
    <3>1. poller[r] # NewPoller
      BY <1>5 DEF NewPoller
    <3> QED  BY <1>3, <1>4, <3>1 DEF MemberInv
  <2>2. CASE IsLatest(r, Point(poller[r].seen))
    BY <1>1, <1>2, <1>3, <2>1, <2>2
  <2>3. CASE poller[r].seen = << >>
    BY <1>2, <2>1, <2>3
  <2> QED  BY <1>4, <1>5, <2>2, <2>3 DEF LatestInv
<1>6. CASE ~poller[r].initialized
  <2>1. poller[r].seen = << >>
    BY <1>4, <1>6 DEF PollerInv, PollerOK, NewPoller
  <2> QED  BY <1>1, <1>2, <1>4, <1>6, <2>1 DEF LatestInv
<1> QED  BY <1>5, <1>6

\* The elements of a sequence to which one is appended
LEMMA AppendFacts ==
    ASSUME NEW A, NEW q \in Seq(A), NEW e \in A, NEW s, s = Append(q, e)
    PROVE  /\ s \in Seq(A) /\ Len(q) \in Nat /\ Len(s) = Len(q) + 1
           /\ DOMAIN q = 1 .. Len(q) /\ DOMAIN s = 1 .. (Len(q) + 1)
           /\ \A i \in DOMAIN q : i \in DOMAIN s /\ s[i] = q[i]
           /\ Len(q) + 1 \in DOMAIN s /\ s[Len(q) + 1] = e
           /\ \A i \in DOMAIN s : i \in DOMAIN q \/ i = Len(q) + 1
           /\ \A i \in DOMAIN q : i <= Len(q)
<1>1. /\ s \in Seq(A) /\ Len(q) \in Nat /\ Len(s) = Len(q) + 1
      /\ DOMAIN q = 1 .. Len(q) /\ DOMAIN s = 1 .. (Len(q) + 1)
      /\ s[Len(q) + 1] = e
  OBVIOUS
<1>2. \A i \in 1 .. Len(q) : s[i] = q[i]
  OBVIOUS
<1> DEFINE n == Len(q)
<1> HIDE DEF n
<1>3. \A i \in 1 .. n : i \in 1 .. (n + 1) /\ i <= n
  BY <1>1 DEF n
<1>4. n + 1 \in 1 .. (n + 1) /\ \A i \in 1 .. (n + 1) : i \in 1 .. n \/ i = n + 1
  BY <1>1 DEF n
<1> QED  BY <1>1, <1>2, <1>3, <1>4 DEF n

\* A batch is sent, with the checkpoints of its rooms.
LEMMA FinishSends ==
    ASSUME SafeInv, Finish, NEW n, n = Len(channel)
    PROVE  /\ n \in Nat /\ DOMAIN channel = 1 .. n /\ DOMAIN channel' = 1 .. (n + 1)
           /\ Len(channel') = n + 1
           /\ \A i \in DOMAIN channel : i <= n /\ i \in DOMAIN channel' /\ channel'[i] = channel[i]
           /\ \A i \in DOMAIN channel' : i \in DOMAIN channel \/ i = n + 1
           /\ channel'[n + 1].events = Events
           /\ \A r \in Room : channel'[n + 1].points[r] = CheckpointOf(r)
           /\ \A i \in DOMAIN channel : Sent(i)' = Sent(i)
           /\ Sent(n + 1)' = Sent(n) \cup Elems(Events)
           /\ \A r \in Room : CheckpointOf(r) \in Checkpoint /\ PointOK(Of(r), CheckpointOf(r))
           /\ channel' \in Seq([events : Seq(Nat), points : [Room -> Checkpoint]])
<1> DEFINE B == [events : Seq(Nat), points : [Room -> Checkpoint]]
           e == [events |-> Events, points |-> [r \in Room |-> CheckpointOf(r)]]
<1>1. TypeInv /\ channel \in Seq(B)
  BY DEF SafeInv, TypeInv
<1>2. channel' = Append(channel, e)
  BY DEF Finish, Send, CheckpointOf
<1>3. ASSUME NEW r \in Room
      PROVE  CheckpointOf(r) \in Checkpoint /\ PointOK(Of(r), CheckpointOf(r))
  <2>1. Of(r) \subseteq Nat
    BY <1>1, OfFacts
  <2>2. poller[r].seen \in Seq(Of(r))
    BY DEF SafeInv, RoomInv, PollerInv, PollerOK, IsBoundary
  <2>3. CASE CheckpointOf(r) = NoPoint
    BY <2>3 DEF NoPoint, Checkpoint, PointOK
  <2>4. ASSUME NEW ids, IsBoundary(Of(r), ids), CheckpointOf(r) = Point(ids)
        PROVE  CheckpointOf(r) \in Checkpoint /\ PointOK(Of(r), CheckpointOf(r))
    <3>1. Point(ids).ids = ids
      BY DEF Point
    <3>2. ids \in Seq(Nat)
      BY <2>1, <2>4, SeqGrows DEF IsBoundary
    <3> QED  BY <2>4, <3>1, <3>2 DEF Point, Checkpoint, PointOK
  <2>5. CASE Based(r)
    <3>1. Found(r) \in Seq(Of(r)) /\ << >> \in Seq(Of(r))
      <4>1. Found(r) \in Seq(Of(r))
        BY <2>5 DEF Based, Baseline, Found, Ids, Committed
      <4> QED  BY <4>1
    <3>2. IsBoundary(Of(r), RememberNewestFirst(<< >>, Found(r)))
      BY <3>1, RememberFacts DEF IsBoundary
    <3>3. poller'[r].seen = RememberNewestFirst(<< >>, Found(r))
      BY <2>5 DEF Based, After
    <3> QED  BY <2>4, <2>5, <3>2, <3>3 DEF Based
  <2>6. CASE Done(r)
    <3>1. Found(r) \in Seq(Of(r))
      BY <2>6 DEF Done, Backlog
    <3>2. IsBoundary(Of(r), RememberNewestFirst(poller[r].seen, Found(r)))
      BY <2>2, <3>1, RememberFacts DEF IsBoundary
    <3>3. poller'[r].seen = RememberNewestFirst(poller[r].seen, Found(r))
      BY <2>6 DEF Done, After
    <3> QED  BY <2>4, <2>6, <3>2, <3>3 DEF Done
  <2> QED  BY <2>3, <2>5, <2>6, FinishRooms DEF Unpolled, Held
<1>4. Events \in Seq(Nat)
  <2>1. Events \in Seq(Msgs) /\ Msgs \subseteq Nat
    BY <1>1, EventsFacts DEF TypeInv, Msgs
  <2> HIDE DEF Msgs
  <2> QED  BY <2>1, SeqGrows
<1>5. e \in B /\ e.events = Events /\ \A r \in Room : e.points[r] = CheckpointOf(r)
  BY <1>3, <1>4
<1> HIDE DEF e, B
<1>6. /\ channel' \in Seq(B) /\ n \in Nat /\ Len(channel') = n + 1
      /\ DOMAIN channel = 1 .. n /\ DOMAIN channel' = 1 .. (n + 1)
      /\ \A i \in DOMAIN channel : i \in DOMAIN channel' /\ channel'[i] = channel[i]
      /\ n + 1 \in DOMAIN channel' /\ channel'[n + 1] = e
      /\ \A i \in DOMAIN channel' : i \in DOMAIN channel \/ i = n + 1
      /\ \A i \in DOMAIN channel : i <= n
  BY <1>1, <1>2, <1>5, AppendFacts
<1>7. \A i \in DOMAIN channel : Sent(i)' = Sent(i)
  <2> TAKE i \in DOMAIN channel
  <2>1. {k \in DOMAIN channel' : k <= i} = {k \in DOMAIN channel : k <= i}
    BY <1>6
  <2> QED  BY <1>6, <2>1 DEF Sent
<1>8. Sent(n + 1)' = Sent(n) \cup Elems(Events)
  <2>1. {k \in DOMAIN channel' : k <= n + 1} = {k \in DOMAIN channel : k <= n} \cup {n + 1}
    BY <1>6
  <2> QED  BY <1>5, <1>6, <2>1 DEF Sent
<1> QED  BY <1>3, <1>5, <1>6, <1>7, <1>8 DEF B

\* The end of poll_once: a room that is not held back hands out its boundary
\* together with the messages up to it.
LEMMA FinishSafe ==
    ASSUME SafeInv, Finish
    PROVE  SafeInv'
<1>0. PICK n : n = Len(channel)
  OBVIOUS
<1>1. /\ n \in Nat /\ DOMAIN channel = 1 .. n /\ DOMAIN channel' = 1 .. (n + 1) /\ Len(channel') = n + 1
      /\ \A i \in DOMAIN channel : i <= n /\ i \in DOMAIN channel' /\ channel'[i] = channel[i]
      /\ \A i \in DOMAIN channel' : i \in DOMAIN channel \/ i = n + 1
      /\ channel'[n + 1].events = Events
      /\ \A r \in Room : channel'[n + 1].points[r] = CheckpointOf(r)
      /\ \A i \in DOMAIN channel : Sent(i)' = Sent(i)
      /\ Sent(n + 1)' = Sent(n) \cup Elems(Events)
      /\ \A r \in Room : CheckpointOf(r) \in Checkpoint /\ PointOK(Of(r), CheckpointOf(r))
      /\ channel' \in Seq([events : Seq(Nat), points : [Room -> Checkpoint]])
  BY <1>0, FinishSends
<1>2. TypeInv /\ SentInv /\ (\A r \in Room : RoomInv(r)) /\ phase = "polling"
  BY DEF SafeInv, Finish
<1>3. UNCHANGED <<posted, deleted, members, rooms, inactive, points, todo, batch, durable, handled>>
      /\ phase' = "idle" /\ todo = {} /\ cutoff' = 0 /\ emitted' = emitted \o Events
      /\ results' = [r \in Room |-> NoResult]
  BY DEF Finish, webex
<1>4. /\ Len(posted) \in Nat /\ cutoff \in 1 .. (Len(posted) + 1) /\ cutoff - 1 \in Nat
      /\ cutoff - 1 <= Len(posted)
  BY <1>2 DEF TypeInv
<1>5. emitted' \in Seq(Msgs) /\ Elems(emitted') = Elems(emitted) \cup Elems(Events)
  <2>1. emitted \in Seq(Msgs) /\ Events \in Seq(Msgs)
    BY <1>2, EventsFacts DEF TypeInv
  <2> QED  BY <1>3, <2>1, JoinFacts
<1>6. TypeInv'
  <2>1. /\ known' \in [Room -> BOOLEAN] /\ base' \in [Room -> Nat]
    BY <1>2, <1>4 DEF Finish, TypeInv
  <2>2. Msgs' = Msgs
    BY <1>3 DEF Msgs
  <2> QED  BY <1>1, <1>2, <1>3, <1>5, <2>1, <2>2 DEF TypeInv
<1>7. SentInv'
  <2>1. Sent(n) \subseteq Elems(emitted)
    BY <1>0, <1>2 DEF SentInv
  <2>2. Sent(n + 1)' \subseteq Elems(emitted')
    BY <1>1, <1>5, <2>1
  <2>3. Sent(Len(channel))' = Sent(n + 1)'
    BY <1>1 DEF Sent
  <2> QED  BY <2>2, <2>3 DEF SentInv
<1>8. ASSUME NEW r \in Room PROVE RoomInv(r)'
  <2> DEFINE O == Of(r)
             L == Listed(r)
             p == poller[r]
             e == poller'[r]
             c == CheckpointOf(r)
  <2>1. /\ BaseInv(r) /\ PointInv(r) /\ PollerInv(r) /\ MemberInv(r) /\ LatestInv(r)
        /\ ResultInv(r) /\ FlowInv(r)
    BY <1>2 DEF RoomInv
  <2>2. Msgs' = Msgs /\ O' = O /\ L' = L
    BY <1>3, SameMsgs
  <2>3. /\ O \in SUBSET Nat /\ L \in SUBSET O /\ Claimed(r) = {m \in L : m > base[r]}
        /\ 0 \notin O
    BY <1>2, OfFacts
  <2>4. Claimed(r)' = {m \in L : m > base'[r]}
    BY <1>3 DEF Claimed, Listed, Of, Msgs
  <2>5. base[r] \in Nat /\ base'[r] \in Nat /\ base[r] <= base'[r] /\ base[r] < cutoff /\ cutoff \in Nat
    <3>1. base[r] \in Nat /\ base'[r] \in Nat /\ base[r] < cutoff
      BY <1>2, <1>6, <2>1 DEF TypeInv, BaseInv
    <3>2. base'[r] = base[r] \/ base'[r] = cutoff - 1
      BY FinishRooms DEF Unpolled, Based, Held, Done
    <3> QED  BY <1>4, <3>1, <3>2
  <2>6. Claimed(r)' \subseteq Claimed(r)
    BY <2>3, <2>4, <2>5
  <2>7. Unpolled(r) \/ Based(r) \/ Held(r) \/ Done(r)
    BY FinishRooms
  <2>8. PollerOK(O, L, p) /\ IsBoundary(O, p.seen)
    BY <2>1 DEF PollerInv, PollerOK
  <2>9. \A seen, ids, next : After(seen, ids, next).seen = seen /\ After(seen, ids, next).ids = ids
                             /\ After(seen, ids, next).fresh = ids /\ After(seen, ids, next).next = next
                             /\ After(seen, ids, next).initialized = TRUE
    BY DEF After
  \* The new boundary
  <2>10. /\ IsBoundary(O, e.seen)
         /\ Based(r) \/ Done(r) => Elems(e.seen) \subseteq Elems(p.seen) \cup Elems(Found(r))
    <3>1. CASE Unpolled(r)
      BY <2>8, <3>1 DEF Unpolled, Based, Done
    <3>2. CASE Held(r)
      BY <2>8, <2>9, <3>2 DEF Held, Based, Done
    <3>3. CASE Based(r)
      <4>1. Found(r) \in Seq(O)
        BY <3>3 DEF Based, Baseline, Found, Ids, Committed
      <4>2. << >> \in Seq(O)
        OBVIOUS
      <4>3. e.seen = RememberNewestFirst(<< >>, Found(r))
        BY <2>9, <3>3 DEF Based
      <4>4. /\ e.seen \in Seq(O) /\ Len(e.seen) <= MaxSeen
            /\ Elems(e.seen) \subseteq Elems(<< >>) \cup Elems(Found(r))
        BY <4>1, <4>2, <4>3, RememberFacts
      <4> QED  BY <4>4, NoElems DEF IsBoundary
    <3>4. CASE Done(r)
      <4>1. Found(r) \in Seq(O) /\ p.seen \in Seq(O)
        BY <2>8, <3>4 DEF Done, Backlog, IsBoundary
      <4>2. e.seen = RememberNewestFirst(p.seen, Found(r))
        BY <2>9, <3>4 DEF Done
      <4> QED  BY <4>1, <4>2, RememberFacts DEF IsBoundary
    <3> QED  BY <2>7, <3>1, <3>2, <3>3, <3>4
  <2>11. PollerOK(O, L, e)
    <3>1. \A seen : Backlog(O, L, seen, << >>, 0)
      <4>1. \A seen : Gapless(L, seen, << >>, 0)
        BY NoElems DEF Gapless
      <4>2. << >> \in Seq(O) /\ Falls(<< >>)
        BY NoElems
      <4> QED  BY <4>1, <4>2 DEF Backlog
    <3>2. CASE Unpolled(r)
      BY <2>8, <3>2 DEF Unpolled
    <3>3. CASE Held(r)
      <4>1. e = After(p.seen, Found(r), e.next) /\ Backlog(O, L, p.seen, Found(r), e.next)
        BY <3>3 DEF Held
      <4>2. e.seen = p.seen /\ e.ids = Found(r) /\ e.fresh = Found(r) /\ e.initialized = TRUE
        BY <2>9, <4>1
      <4> QED  BY <2>10, <4>1, <4>2 DEF PollerOK
    <3>4. CASE Based(r) \/ Done(r)
      <4>1. e.ids = << >> /\ e.fresh = << >> /\ e.next = 0 /\ e.initialized = TRUE
        BY <2>9, <3>4 DEF Based, Done
      <4> QED  BY <2>10, <3>1, <4>1 DEF PollerOK
    <3> QED  BY <2>7, <3>2, <3>3, <3>4
  <2>12. PollerInv(r)'
    BY <2>2, <2>11 DEF PollerInv
  <2>13. BaseInv(r)'
    <3>1. base'[r] <= Len(posted) /\ (EmitExisting => base'[r] = 0)
      BY <1>4, <2>1, <2>7 DEF BaseInv, Unpolled, Based, Held, Done, Emits
    <3> QED  BY <1>3, <3>1 DEF BaseInv
  <2>14. PointInv(r)'
    BY <1>1, <1>3, <2>1, <2>2 DEF PointInv
  <2>15. MemberInv(r)'
    <3>1. r \notin rooms => Unpolled(r)
      BY <2>7 DEF Based, Held, Done
    <3> QED  BY <1>3, <2>1, <3>1 DEF MemberInv, Unpolled, Inactive
  <2>16. ResultInv(r)'
    BY <1>3 DEF ResultInv, Updated, NoResult, Failed
  <2>17. ASSUME NEW point, IsLatest(r, point), c = NoPoint PROVE IsLatest(r, point)'
    <3>1. ~channel'[n + 1].points[r].given
      BY <1>1, <2>17 DEF NoPoint
    <3> QED  BY <1>1, <1>3, <2>17, <3>1 DEF IsLatest
  <2>18. ASSUME c = Point(e.seen) PROVE IsLatest(r, Point(poller[r].seen))'
    <3>1. channel'[n + 1].points[r].given /\ channel'[n + 1].points[r] = Point(e.seen)
      <4>1. Point(e.seen).given = TRUE
        BY DEF Point
      <4> QED  BY <1>1, <2>18, <4>1
    <3>2. n + 1 \in DOMAIN channel' /\ \A j \in DOMAIN channel' : j <= n + 1
      BY <1>1
    <3> QED  BY <3>1, <3>2 DEF IsLatest
  <2>19. LatestInv(r)'
    <3> HIDE DEF O, L
    <3>1. CASE Unpolled(r)
      BY <1>3, <2>1, <2>17, <3>1 DEF Unpolled, LatestInv
    <3>2. CASE Based(r) \/ Done(r)
      <4>1. e.initialized = TRUE /\ known'[r] /\ c = Point(e.seen)
        BY <2>9, <3>2 DEF Based, Done
      <4> QED  BY <2>18, <4>1 DEF LatestInv
    <3>3. CASE Held(r)
      <4>1. /\ e.initialized = TRUE /\ known'[r] /\ c = NoPoint /\ e.seen = p.seen
            /\ HasPendingBacklog(e)
        BY <2>9, <3>3 DEF Held
      <4>2. CASE p.initialized
        BY <2>1, <2>17, <4>1, <4>2 DEF LatestInv
      <4>3. CASE ~p.initialized
        <5>1. EmitExisting /\ r \in rooms
          BY <3>3, <4>3 DEF Held, Emits
        <5>2. p.seen = << >> /\ points[r] = NoPoint /\ IsLatest(r, NoPoint)
          BY <2>1, <4>3, <5>1 DEF LatestInv, MemberInv, PollerInv, PollerOK, NewPoller
        <5> QED  BY <2>17, <4>1, <5>1, <5>2 DEF LatestInv
      <4> QED  BY <2>8, <4>2, <4>3 DEF PollerOK
    <3> QED  BY <2>7, <3>1, <3>2, <3>3
  <2>20. \A ids : Below(r, ids)' \subseteq Below(r, ids)
    BY <2>6 DEF Below
  <2>21. {m \in Claimed(r)' : \E x \in Elems(c.ids) : m <= x}
              \subseteq handled \cup Sent(n) \cup Elems(Events)
    <3>1. CASE c = NoPoint
      BY <3>1, NoElems DEF NoPoint
    <3>2. CASE Based(r)
      <4>1. c.ids = e.seen /\ base'[r] = cutoff - 1
        BY <3>2 DEF Based, Point
      <4>2. p.seen = << >>
        BY <2>8, <3>2 DEF Based, Emits, PollerOK, NewPoller
      <4>3. \A x \in Elems(Found(r)) : x < cutoff
        BY <3>2 DEF Based, Baseline, Found, Ids, Committed
      <4>4. \A x \in Elems(e.seen) : x < cutoff /\ x \in Nat
        BY <2>3, <2>10, <3>2, <4>2, <4>3, NoElems, ElemsIn DEF IsBoundary
      <4> SUFFICES ASSUME NEW m \in L, m > cutoff - 1, NEW x \in Elems(e.seen), m <= x PROVE FALSE
        BY <2>4, <4>1
      <4>5. m \in Nat /\ x \in Nat /\ x < cutoff
        BY <2>3, <4>4
      <4> QED  BY <2>5, <4>5
    <3>3. CASE Done(r)
      <4>1. c.ids = e.seen
        BY <3>3 DEF Done, Point
      <4> SUFFICES ASSUME NEW m \in Claimed(r), NEW x \in Elems(e.seen), m <= x
                   PROVE  m \in handled \cup Sent(n) \cup Elems(Events)
        BY <2>6, <4>1
      <4>2. Below(r, p.seen) \subseteq handled \cup Sent(n)
        BY <1>0, <1>2, Covered
      <4>3. (\E b \in Elems(p.seen) : m <= b) => m \in handled \cup Sent(n)
        BY <4>2 DEF Below
      <4>4. CASE x \in Elems(Found(r))
        <5>1. m \in L /\ m \in Nat /\ m >= 0
          BY <2>3
        <5>2. m \in Elems(Found(r)) \/ \E b \in Elems(p.seen) : m <= b
          BY <3>3, <4>4, <5>1 DEF Done, Backlog, Gapless
        <5> QED  BY <3>3, <4>3, <5>2 DEF Done
      <4>5. CASE x \in Elems(p.seen)
        BY <4>3, <4>5
      <4> QED  BY <2>10, <3>3, <4>4, <4>5
    <3> QED  BY <2>7, <3>1, <3>2, <3>3 DEF Unpolled, Held
  <2>22. FlowInv(r)'
    <3>1. Below(r, durable[r].ids)' \subseteq handled' /\ Below(r, batch[r].ids)' \subseteq handled'
      BY <1>3, <2>1, <2>6 DEF FlowInv, Below
    <3>2. ASSUME NEW i \in DOMAIN channel
          PROVE  Below(r, channel[i].points[r].ids)' \subseteq handled' \cup Sent(i)'
      <4>1. Below(r, channel[i].points[r].ids)' \subseteq Below(r, channel[i].points[r].ids)
        BY <1>1, <2>6 DEF Below
      <4> QED  BY <1>1, <1>3, <2>1, <4>1 DEF FlowInv
    <3>3. Below(r, channel[n + 1].points[r].ids)' \subseteq handled' \cup Sent(n + 1)'
      BY <1>1, <1>3, <2>21 DEF Below
    <3> QED  BY <1>1, <3>1, <3>2, <3>3 DEF FlowInv
  <2> QED  BY <2>12, <2>13, <2>14, <2>15, <2>16, <2>19, <2>22 DEF RoomInv
<1> QED  BY <1>6, <1>7, <1>8 DEF SafeInv
-----------------------------------------------------------------------------
(***************************************************************************)
(* Cancel, and the consumer: HandleEvents, SaveCheckpoints and Rebuild.    *)
(***************************************************************************)
\* A poll that is cancelled leaves no trace.
LEMMA CancelSafe ==
    ASSUME SafeInv, Cancel
    PROVE  SafeInv'
<1> USE DEF Cancel, webex, state, consumer
<1>1. TypeInv'
  BY DEF SafeInv, TypeInv, Msgs
<1>2. SentInv'
  BY DEF SafeInv, SentInv, Sent
<1>3. ASSUME NEW r \in Room PROVE RoomInv(r)'
  <2>1. RoomInv(r)
    BY DEF SafeInv
  <2>2. Of(r)' = Of(r) /\ Listed(r)' = Listed(r) /\ \A ids : Below(r, ids)' = Below(r, ids)
    BY SameMsgs
  <2>3. BaseInv(r)' /\ PointInv(r)' /\ PollerInv(r)' /\ MemberInv(r)' /\ LatestInv(r)'
    BY <2>1, <2>2 DEF RoomInv, BaseInv, PointInv, PollerInv, MemberInv, LatestInv, IsLatest, Inactive
  <2>4. FlowInv(r)'
    BY <2>1, <2>2 DEF RoomInv, FlowInv, Sent
  <2>5. ResultInv(r)'
    BY DEF ResultInv, Updated, NoResult, Failed
  <2> QED  BY <2>3, <2>4, <2>5 DEF RoomInv
<1> QED  BY <1>1, <1>2, <1>3 DEF SafeInv

\* The elements of a sequence without its first
LEMMA TailFacts ==
    ASSUME NEW A, NEW q \in Seq(A), q # << >>, NEW t, t = Tail(q)
    PROVE  /\ t \in Seq(A) /\ Len(q) \in Nat /\ Len(q) >= 1 /\ Len(t) = Len(q) - 1
           /\ DOMAIN q = 1 .. Len(q) /\ DOMAIN t = 1 .. (Len(q) - 1)
           /\ 1 \in DOMAIN q /\ Head(q) = q[1] /\ q[1] \in A
           /\ \A i \in DOMAIN t : i + 1 \in DOMAIN q /\ t[i] = q[i + 1]
           /\ \A i \in DOMAIN q : i = 1 \/ i - 1 \in DOMAIN t
<1>1. /\ t \in Seq(A) /\ Len(q) \in Nat /\ Len(q) >= 1 /\ Len(t) = Len(q) - 1
      /\ DOMAIN q = 1 .. Len(q) /\ DOMAIN t = 1 .. (Len(q) - 1)
      /\ Head(q) = q[1] /\ q[1] \in A
  OBVIOUS
<1>2. \A i \in 1 .. (Len(q) - 1) : t[i] = q[i + 1]
  OBVIOUS
<1> DEFINE n == Len(q)
<1> HIDE DEF n
<1>3. /\ 1 \in 1 .. n /\ \A i \in 1 .. (n - 1) : i + 1 \in 1 .. n
      /\ \A i \in 1 .. n : i = 1 \/ i - 1 \in 1 .. (n - 1)
  BY <1>1 DEF n
<1> QED  BY <1>1, <1>2, <1>3 DEF n

\* The consumer handles the events of a batch before its checkpoints are saved.
LEMMA HandleSafe ==
    ASSUME SafeInv, HandleEvents
    PROVE  SafeInv'
<1> USE DEF webex, state, current
<1> DEFINE B == [events : Seq(Nat), points : [Room -> Checkpoint]]
           h == channel[1]
<1>0. TypeInv /\ SentInv /\ channel \in Seq(B) /\ channel # << >> /\ channel' = Tail(channel)
  BY DEF SafeInv, TypeInv, HandleEvents
<1>1. /\ channel' \in Seq(B) /\ Len(channel) \in Nat /\ Len(channel) >= 1
      /\ Len(channel') = Len(channel) - 1
      /\ DOMAIN channel = 1 .. Len(channel) /\ DOMAIN channel' = 1 .. (Len(channel) - 1)
      /\ 1 \in DOMAIN channel /\ Head(channel) = h /\ h \in B
      /\ \A i \in DOMAIN channel' : i + 1 \in DOMAIN channel /\ channel'[i] = channel[i + 1]
      /\ \A i \in DOMAIN channel : i = 1 \/ i - 1 \in DOMAIN channel'
  <2> HIDE DEF B
  <2> QED  BY <1>0, TailFacts
<1>2. handled' = handled \cup Elems(h.events) /\ batch' = h.points /\ batch = NoPoints
      /\ UNCHANGED <<posted, deleted, members, known, base, rooms, inactive, poller, points,
                     phase, cutoff, todo, results, durable, emitted>>
  BY <1>1 DEF HandleEvents
<1>3. batch' \in [Room -> Checkpoint]
  BY <1>1, <1>2
<1>4. TypeInv'
  BY <1>0, <1>1, <1>2, <1>3 DEF TypeInv, Msgs
<1> HIDE DEF B, h
<1>5. \A i \in DOMAIN channel' : Sent(i)' \cup Elems(h.events) = Sent(i + 1)
  <2> TAKE i \in DOMAIN channel'
  <2>1. i \in Nat /\ \A k \in DOMAIN channel' : k \in Nat
    BY <1>1
  <2>2. ASSUME NEW x \in Sent(i)' PROVE x \in Sent(i + 1)
    <3>1. PICK k \in DOMAIN channel' : k <= i /\ x \in Elems(channel'[k].events)
      BY <2>2 DEF Sent
    <3>2. k + 1 \in DOMAIN channel /\ k + 1 <= i + 1 /\ x \in Elems(channel[k + 1].events)
      BY <1>1, <2>1, <3>1
    <3> QED  BY <3>2 DEF Sent
  <2>3. Elems(h.events) \subseteq Sent(i + 1)
    <3>1. 1 <= i + 1
      BY <2>1
    <3> QED  BY <1>1, <3>1 DEF Sent, h
  <2>4. ASSUME NEW x \in Sent(i + 1) PROVE x \in Sent(i)' \/ x \in Elems(h.events)
    <3>1. PICK k \in DOMAIN channel : k <= i + 1 /\ x \in Elems(channel[k].events)
      BY <2>4 DEF Sent
    <3>2. CASE k = 1
      BY <3>1, <3>2 DEF h
    <3>3. CASE k - 1 \in DOMAIN channel'
      <4>1. k \in Nat /\ k - 1 <= i /\ (k - 1) + 1 = k
        BY <1>1, <2>1, <3>1
      <4>2. x \in Elems(channel'[k - 1].events)
        BY <1>1, <3>1, <3>3, <4>1
      <4> QED  BY <3>3, <4>1, <4>2 DEF Sent
    <3> QED  BY <1>1, <3>2, <3>3
  <2> QED  BY <2>2, <2>3, <2>4
<1>6. SentInv'
  <2>1. Sent(Len(channel)) \subseteq Elems(emitted)
    BY <1>0 DEF SentInv
  <2>2. ASSUME NEW x \in Sent(Len(channel))' PROVE x \in Sent(Len(channel))
    <3>1. PICK k \in DOMAIN channel' : x \in Elems(channel'[k].events)
      BY <2>2 DEF Sent
    <3>2. k + 1 \in DOMAIN channel /\ k + 1 <= Len(channel) /\ x \in Elems(channel[k + 1].events)
      BY <1>1, <3>1
    <3> QED  BY <3>2 DEF Sent
  <2> QED  BY <1>2, <2>1, <2>2 DEF SentInv
<1>7. ASSUME NEW r \in Room PROVE RoomInv(r)'
  <2>1. RoomInv(r)
    BY DEF SafeInv
  <2>2. Of(r)' = Of(r) /\ Listed(r)' = Listed(r) /\ \A ids : Below(r, ids)' = Below(r, ids)
    BY <1>2, SameMsgs
  <2>3. BaseInv(r)' /\ PollerInv(r)' /\ MemberInv(r)' /\ ResultInv(r)'
    BY <1>2, <2>1, <2>2 DEF RoomInv, BaseInv, PollerInv, MemberInv, ResultInv, Updated, Inactive
  <2>4. batch'[r] = channel[1].points[r] /\ ~batch[r].given /\ 1 \in DOMAIN channel
    BY <1>1, <1>2 DEF h, NoPoints, NoPoint
  <2>5. PointInv(r)'
    BY <1>1, <1>2, <2>1, <2>2, <2>4 DEF RoomInv, PointInv
  <2>6. ASSUME NEW point, IsLatest(r, point) PROVE IsLatest(r, point)'
    <3>1. CASE \E i \in DOMAIN channel :
                 /\ channel[i].points[r].given /\ channel[i].points[r] = point
                 /\ \A j \in DOMAIN channel : channel[j].points[r].given => j <= i
      <4>1. PICK i \in DOMAIN channel :
                 /\ channel[i].points[r].given /\ channel[i].points[r] = point
                 /\ \A j \in DOMAIN channel : channel[j].points[r].given => j <= i
        BY <3>1
      <4>2. CASE i = 1
        <5>1. ASSUME NEW j \in DOMAIN channel', channel'[j].points[r].given PROVE FALSE
          <6>1. j + 1 \in DOMAIN channel /\ channel[j + 1].points[r].given
            BY <1>1, <5>1
          <6>2. j + 1 <= 1 /\ j \in Nat /\ j >= 1
            BY <1>1, <4>1, <4>2, <6>1
          <6> QED  BY <6>2
        <5> QED  BY <2>4, <4>1, <4>2, <5>1 DEF IsLatest
      <4>3. CASE i - 1 \in DOMAIN channel'
        <5>1. i \in Nat /\ (i - 1) + 1 = i
          BY <1>1
        <5>2. channel'[i - 1] = channel[i]
          BY <1>1, <4>3, <5>1
        <5>3. ASSUME NEW j \in DOMAIN channel', channel'[j].points[r].given PROVE j <= i - 1
          <6>1. j + 1 \in DOMAIN channel /\ channel[j + 1].points[r].given /\ j \in Nat
            BY <1>1, <5>3
          <6>2. j + 1 <= i
            BY <4>1, <6>1
          <6> QED  BY <5>1, <6>1, <6>2
        <5> QED  BY <4>1, <4>3, <5>2, <5>3 DEF IsLatest
      <4> QED  BY <1>1, <4>2, <4>3
    <3>2. CASE /\ \A i \in DOMAIN channel : ~channel[i].points[r].given
               /\ point = IF batch[r].given THEN batch[r] ELSE durable[r]
      <4>1. point = durable'[r] /\ ~batch'[r].given
        BY <1>2, <2>4, <3>2
      <4>2. \A i \in DOMAIN channel' : ~channel'[i].points[r].given
        BY <1>1, <3>2
      <4> QED  BY <4>1, <4>2 DEF IsLatest
    <3> QED  BY <2>6, <3>1, <3>2 DEF IsLatest
  <2>7. LatestInv(r)'
    BY <1>2, <2>1, <2>6 DEF RoomInv, LatestInv
  <2>8. FlowInv(r)'
    <3>1. FlowInv(r)
      BY <2>1 DEF RoomInv
    <3>2. Below(r, durable[r].ids)' \subseteq handled'
      BY <1>2, <2>2, <3>1 DEF FlowInv
    <3>3. Below(r, batch[r].ids)' \subseteq handled'
      <4>1. Sent(1) = Elems(h.events)
        <5>1. {k \in DOMAIN channel : k <= 1} = {1}
          BY <1>1
        <5> QED  BY <5>1 DEF Sent, h
      <4>2. Below(r, channel[1].points[r].ids) \subseteq handled'
        BY <1>1, <1>2, <3>1, <4>1 DEF FlowInv
      <4> QED  BY <2>2, <2>4, <4>2
    <3>4. ASSUME NEW i \in DOMAIN channel'
          PROVE  Below(r, channel'[i].points[r].ids) \subseteq handled' \cup Sent(i)'
      <4>1. i + 1 \in DOMAIN channel /\ channel'[i] = channel[i + 1]
        BY <1>1
      <4>2. Below(r, channel[i + 1].points[r].ids) \subseteq handled \cup Sent(i + 1)
        BY <3>1, <4>1 DEF FlowInv
      <4> QED  BY <1>2, <1>5, <4>1, <4>2
    <3>5. \A i \in DOMAIN channel' :
            Below(r, channel[i].points[r].ids)' = Below(r, channel'[i].points[r].ids)
      BY <2>2
    <3> QED  BY <3>2, <3>3, <3>4, <3>5 DEF FlowInv
  <2> QED  BY <2>3, <2>5, <2>7, <2>8 DEF RoomInv
<1> QED  BY <1>4, <1>6, <1>7 DEF SafeInv

\* A checkpoint that is saved replaces an older one of the same room.
LEMMA SaveSafe ==
    ASSUME SafeInv, SaveCheckpoints
    PROVE  SafeInv'
<1> USE DEF webex, state, current
<1>0. TypeInv /\ SentInv
  BY DEF SafeInv
<1>1. /\ UNCHANGED <<posted, deleted, members, known, base, rooms, inactive, poller, points,
                     phase, cutoff, todo, results, channel, handled, emitted>>
      /\ batch' = NoPoints /\ durable' = Saved(Room)
  BY DEF SaveCheckpoints
<1>2. durable' = [r \in Room |-> IF batch[r].given THEN batch[r] ELSE durable[r]]
  BY <1>1 DEF Saved
<1>3. durable' \in [Room -> Checkpoint] /\ batch' \in [Room -> Checkpoint]
  BY <1>0, <1>1, <1>2 DEF TypeInv, NoPoints, NoPoint, Checkpoint
<1>4. TypeInv'
  BY <1>0, <1>1, <1>3 DEF TypeInv, Msgs
<1>5. SentInv'
  BY <1>0, <1>1 DEF SentInv, Sent
<1>6. ASSUME NEW r \in Room PROVE RoomInv(r)'
  <2>1. RoomInv(r)
    BY DEF SafeInv
  <2>2. Of(r)' = Of(r) /\ Listed(r)' = Listed(r) /\ \A ids : Below(r, ids)' = Below(r, ids)
    BY <1>1, SameMsgs
  <2>3. BaseInv(r)' /\ PollerInv(r)' /\ MemberInv(r)' /\ ResultInv(r)'
    BY <1>1, <2>1, <2>2 DEF RoomInv, BaseInv, PollerInv, MemberInv, ResultInv, Updated, Inactive
  <2>4. /\ batch'[r] = NoPoint /\ ~batch'[r].given
        /\ durable'[r] = IF batch[r].given THEN batch[r] ELSE durable[r]
    BY <1>1, <1>2 DEF NoPoints, NoPoint
  <2>5. PointInv(r)'
    <3>1. PointOK(Of(r), NoPoint)
      BY DEF PointOK
    <3> QED  BY <1>1, <2>1, <2>2, <2>4, <3>1 DEF RoomInv, PointInv
  <2>6. \A point : IsLatest(r, point) => IsLatest(r, point)'
    BY <1>1, <2>4 DEF IsLatest
  <2>7. LatestInv(r)'
    BY <1>1, <2>1, <2>6 DEF RoomInv, LatestInv
  <2>8. FlowInv(r)'
    <3>1. FlowInv(r) /\ \A i : Sent(i)' = Sent(i)
      BY <1>1, <2>1 DEF RoomInv, Sent
    <3>2. Below(r, NoPoint.ids) = {}
      BY NoElems DEF Below, NoPoint
    <3> QED  BY <1>1, <2>2, <2>4, <3>1, <3>2 DEF FlowInv
  <2> QED  BY <2>3, <2>5, <2>7, <2>8 DEF RoomInv
<1> QED  BY <1>4, <1>5, <1>6 DEF SafeInv

\* A poller that starts from the saved checkpoints
Restarted ==
    /\ rooms = {} /\ inactive = << >> /\ poller = [r \in Room |-> NewPoller]
    /\ phase = "idle" /\ cutoff = 0 /\ todo = {}
    /\ results = [r \in Room |-> NoResult]
    /\ channel = << >> /\ batch = NoPoints /\ emitted = << >>
    /\ points = durable /\ known = [r \in Room |-> durable[r].given]
    /\ posted \in Seq(Room) /\ deleted \subseteq Msgs /\ members \subseteq Room
    /\ base \in [Room -> Nat] /\ durable \in [Room -> Checkpoint]
    /\ \A r \in Room : /\ base[r] <= Len(posted) /\ (EmitExisting => base[r] = 0)
                       /\ PointOK(Of(r), durable[r])
                       /\ Below(r, durable[r].ids) \subseteq handled

\* A new poller with the saved checkpoints satisfies the invariant,
LEMMA RestartedSafe == Restarted => SafeInv
<1> SUFFICES ASSUME Restarted PROVE SafeInv
  OBVIOUS
<1> USE DEF Restarted
<1>0. DOMAIN << >> = {} /\ Len(<< >>) = 0 /\ \A A : << >> \in Seq(A)
  <2>1. << >> \in Seq({})
    OBVIOUS
  <2>2. DOMAIN << >> = 1 .. Len(<< >>) /\ Len(<< >>) = 0
    BY <2>1
  <2> QED  BY <2>2, NoElems
<1>1. TypeInv
  <2>1. NoPoints \in [Room -> Checkpoint]
    <3>1. << >> \in Seq(Nat)
      OBVIOUS
    <3> QED  BY <3>1 DEF NoPoints, NoPoint, Checkpoint
  <2>2. known \in [Room -> BOOLEAN]
    BY DEF Checkpoint
  <2>3. /\ emitted \in Seq(Msgs) /\ inactive \in Seq(Room)
        /\ channel \in Seq([events : Seq(Nat), points : [Room -> Checkpoint]])
    BY <1>0
  <2> QED  BY <2>1, <2>2, <2>3 DEF TypeInv
<1>2. \A i : Sent(i) = {}
  BY <1>0 DEF Sent
<1>3. SentInv
  BY <1>2 DEF SentInv
<1>4. ASSUME NEW r \in Room PROVE RoomInv(r)
  <2>1. poller[r] = NewPoller /\ batch[r] = NoPoint /\ points[r] = durable[r] /\ known[r] = durable[r].given
        /\ ~Updated(r)
    BY DEF NoPoints, Updated, NoResult, Failed
  <2>2. NewPoller.initialized = FALSE /\ NewPoller.seen = << >>
    BY DEF NewPoller
  <2>3. BaseInv(r) /\ ResultInv(r)
    BY <2>1 DEF BaseInv, ResultInv
  <2>4. IsBoundary(Of(r), << >>)
    <3>1. << >> \in Seq(Of(r)) /\ Len(<< >>) <= MaxSeen
      BY LimitAssumption
    <3> QED  BY <3>1 DEF IsBoundary
  <2>5. PollerInv(r)
    BY <2>1, <2>4, SeedOK DEF PollerInv
  <2>6. MemberInv(r)
    BY <2>1, NoElems DEF MemberInv, Inactive
  <2>7. PointInv(r)
    <3>1. PointOK(Of(r), NoPoint)
      BY DEF PointOK
    <3> QED  BY <1>0, <2>1, <3>1 DEF PointInv
  <2>8. LatestInv(r)
    <3>1. ~batch[r].given
      BY <2>1 DEF NoPoint
    <3>2. IsLatest(r, points[r])
      BY <1>0, <2>1, <3>1 DEF IsLatest
    <3> QED  BY <2>1, <2>2, <3>2 DEF LatestInv
  <2>9. FlowInv(r)
    <3>1. Below(r, NoPoint.ids) = {}
      BY NoElems DEF Below, NoPoint
    <3> QED  BY <1>0, <2>1, <3>1 DEF FlowInv
  <2> QED  BY <2>3, <2>5, <2>6, <2>7, <2>8, <2>9 DEF RoomInv
<1> QED  BY <1>1, <1>3, <1>4 DEF SafeInv

\* also in the next state.
LEMMA RestartedSafeNext == Restarted' => SafeInv'
  BY RestartedSafe, PTL

\* The saved checkpoint after a restart is the one before or a newer one.
LEMMA RebuildSaves ==
    ASSUME SafeInv, Rebuild, NEW r \in Room
    PROVE  durable'[r] = durable[r] \/ (durable'[r] = batch[r] /\ batch[r].given)
  BY DEF Rebuild, Saved

\* The consumer may give up the poller at any time.
LEMMA RebuildSafe ==
    ASSUME SafeInv, Rebuild
    PROVE  SafeInv'
<1>0. TypeInv
  BY DEF SafeInv
<1>1. UNCHANGED <<posted, deleted, members, base, handled>>
  BY DEF Rebuild, webex
<1>3. durable' \in [Room -> Checkpoint]
  <2>1. PICK saved : durable' = Saved(saved)
    BY DEF Rebuild
  <2> QED  BY <1>0, <2>1 DEF Saved, TypeInv
<1>4. /\ posted' \in Seq(Room) /\ deleted' \subseteq Msgs' /\ members' \subseteq Room
      /\ base' \in [Room -> Nat]
  BY <1>0, <1>1 DEF TypeInv, Msgs
<1>5. ASSUME NEW r \in Room
      PROVE  /\ base'[r] <= Len(posted') /\ (EmitExisting => base'[r] = 0)
             /\ PointOK(Of(r)', durable'[r])
             /\ Below(r, durable[r].ids)' \subseteq handled'
  <2>1. Of(r)' = Of(r) /\ \A ids : Below(r, ids)' = Below(r, ids)
    BY <1>1, SameMsgs
  <2>2. RoomInv(r) /\ (durable'[r] = durable[r] \/ durable'[r] = batch[r])
    BY RebuildSaves DEF SafeInv
  <2>3. PointOK(Of(r)', durable'[r])
    BY <2>1, <2>2 DEF RoomInv, PointInv
  <2>4. Below(r, durable'[r].ids) \subseteq handled
    BY <2>2 DEF RoomInv, FlowInv
  <2>5. Below(r, durable[r].ids)' \subseteq handled'
    BY <1>1, <2>1, <2>4
  <2> QED  BY <1>1, <2>2, <2>3, <2>5 DEF RoomInv, BaseInv
<1>6. Restarted'
  BY <1>3, <1>4, <1>5 DEF Rebuild, Discard, Restarted
<1> QED  BY <1>6, RestartedSafeNext

\* At first nothing is saved.
LEMMA InitSafe == Init => SafeInv
<1> SUFFICES ASSUME Init PROVE SafeInv
  OBVIOUS
<1>1. posted \in Seq(Room) /\ deleted \subseteq Msgs /\ Len(posted) = 0
  BY DEF Init
<1>2. NoPoints \in [Room -> Checkpoint]
  <2>1. << >> \in Seq(Nat)
    OBVIOUS
  <2> QED  BY <2>1 DEF NoPoints, NoPoint, Checkpoint
<1>3. ASSUME NEW r \in Room
      PROVE  /\ base[r] = 0 /\ PointOK(Of(r), durable[r]) /\ Below(r, durable[r].ids) = {}
             /\ durable[r].given = FALSE
  <2>1. base[r] = 0 /\ durable[r] = NoPoint
    BY DEF Init, NoPoints
  <2>2. Below(r, << >>) = {}
    BY NoElems DEF Below
  <2> QED  BY <2>1, <2>2 DEF PointOK, NoPoint
<1>4. base \in [Room -> Nat] /\ known = [r \in Room |-> durable[r].given]
  BY <1>3 DEF Init
<1>5. durable \in [Room -> Checkpoint] /\ points = durable /\ members \subseteq Room
  BY <1>2 DEF Init
<1>6. \A r \in Room : /\ base[r] <= Len(posted) /\ (EmitExisting => base[r] = 0)
                      /\ PointOK(Of(r), durable[r]) /\ Below(r, durable[r].ids) \subseteq handled
  <2> TAKE r \in Room
  <2>1. base[r] = 0 /\ PointOK(Of(r), durable[r]) /\ Below(r, durable[r].ids) = {}
    BY <1>3
  <2>2. base[r] <= Len(posted)
    BY <1>1, <2>1
  <2>3. Below(r, durable[r].ids) \subseteq handled
    BY <2>1
  <2> QED  BY <2>1, <2>2, <2>3
<1>7. /\ rooms = {} /\ inactive = << >> /\ poller = [r \in Room |-> NewPoller]
      /\ phase = "idle" /\ cutoff = 0 /\ todo = {} /\ results = [r \in Room |-> NoResult]
      /\ channel = << >> /\ batch = NoPoints /\ emitted = << >>
  BY DEF Init
<1>8. Restarted
  BY <1>1, <1>4, <1>5, <1>6, <1>7, Zenon DEF Restarted
<1> QED  BY <1>8, RestartedSafe

\* The invariant depends on nothing but the variables.
LEMMA StutterSafe ==
    ASSUME SafeInv, UNCHANGED vars
    PROVE  SafeInv'
<1> USE DEF vars
<1>1. TypeInv'
  BY DEF SafeInv, TypeInv, Msgs
<1>2. SentInv'
  BY DEF SafeInv, SentInv, Sent
<1>3. ASSUME NEW r \in Room PROVE RoomInv(r)'
  <2>1. RoomInv(r)
    BY DEF SafeInv
  <2>2. Of(r)' = Of(r) /\ Listed(r)' = Listed(r) /\ \A ids : Below(r, ids)' = Below(r, ids)
    BY SameMsgs
  <2>3. /\ BaseInv(r)' /\ PointInv(r)' /\ PollerInv(r)' /\ MemberInv(r)' /\ LatestInv(r)'
        /\ ResultInv(r)'
    BY <2>1, <2>2 DEF RoomInv, BaseInv, PointInv, PollerInv, MemberInv, LatestInv, IsLatest,
                      ResultInv, Updated, Inactive
  <2>4. FlowInv(r)'
    BY <2>1, <2>2 DEF RoomInv, FlowInv, Sent
  <2> QED  BY <2>3, <2>4 DEF RoomInv
<1> QED  BY <1>1, <1>2, <1>3 DEF SafeInv

\* Every step keeps the invariant.
LEMMA NextSafe ==
    ASSUME SafeInv, [Next]_vars
    PROVE  SafeInv'
<1>0. TypeInv
  BY DEF SafeInv
<1>1. CASE Leave \/ (\E r \in Room : Post(r) \/ Join(r)) \/ \E m \in Msgs : Delete(m)
  BY <1>0, <1>1, WebexSteps, WebexSafe
<1>2. CASE \E r \in Room : PollRoom(r) \/ PollRoomFails(r)
  BY <1>2, PollSteps, PollSafe
<1>3. CASE RefreshRooms \/ Reseed \/ StartRefreshed \/ Start
  BY <1>3, RoomSteps, RoomsSafe
<1>4. CASE Finish
  BY <1>4, FinishSafe
<1>5. CASE Cancel
  BY <1>5, CancelSafe
<1>6. CASE HandleEvents
  BY <1>6, HandleSafe
<1>7. CASE SaveCheckpoints
  BY <1>7, SaveSafe
<1>8. CASE Rebuild
  BY <1>8, RebuildSafe
<1>9. CASE UNCHANGED vars
  BY <1>9, StutterSafe
<1> QED  BY <1>1, <1>2, <1>3, <1>4, <1>5, <1>6, <1>7, <1>8, <1>9 DEF Next

\* The invariant holds in every state of every behaviour.
LEMMA SafeAlways == Spec => []SafeInv
<1>1. Init => SafeInv
  BY InitSafe
<1>2. SafeInv /\ [Next]_vars => SafeInv'
  BY NextSafe
<1> QED  BY <1>1, <1>2, PTL DEF Spec

\* A checkpoint that save_room_checkpoints has stored never covers a message
\* that the consumer has not handled, so that a restart loses nothing: for
\* any failures, cancelled polls, held batches, evicted rooms and restarts.
THEOREM SavedLosesNothing == Spec => []CheckpointLosesNothing
<1>1. SafeInv => CheckpointLosesNothing
  BY DEF SafeInv, RoomInv, FlowInv, CheckpointLosesNothing
<1> QED  BY <1>1, SafeAlways, PTL

\* Neither does a boundary in memory, which current_checkpoint would hand out
\* for an evicted room, cover a message that was neither handled nor emitted.
THEOREM MemoryLosesNothing == Spec => []BoundaryLosesNothing
<1>1. ASSUME SafeInv PROVE BoundaryLosesNothing
  <2>1. TypeInv /\ Sent(Len(channel)) \subseteq Elems(emitted)
    BY <1>1 DEF SafeInv, SentInv
  <2>2. \A r \in Room : Below(r, poller[r].seen) \cup Below(r, points[r].ids)
                           \subseteq handled \cup Sent(Len(channel))
    BY <1>1, <2>1, Covered DEF SafeInv
  <2> QED  BY <2>1, <2>2 DEF BoundaryLosesNothing
<1>2. SafeInv => BoundaryLosesNothing
  BY <1>1
<1> QED  BY <1>2, SafeAlways, PTL
-----------------------------------------------------------------------------
(***************************************************************************)
(* Order and history: what holds as long as the messages deleted of a room *)
(* are fewer than its boundary keeps.                                      *)
(***************************************************************************)
\* How many messages a boundary keeps at least, if there are as many: a
\* baseline may know no more than its pages held.
Kept == IF EmitExisting \/ MaxSeen <= MaxPages * PageSize THEN MaxSeen ELSE MaxPages * PageSize

\* Fewer messages of room r have been deleted than its boundary keeps.
Few(r) == Cardinality(Of(r) \cap deleted) < Kept

\* Message m is at or below the baseline b or the boundary ids.
Old(b, ids, m) == m <= b \/ \E x \in Elems(ids) : m <= x

AllNew(b, seen, ids) == \A x \in Elems(ids) : ~Old(b, seen, x)

\* The boundary ids holds the newest of the old messages: all of them, or as
\* many as Kept.
Anchor(L, b, ids) ==
    /\ Falls(ids)
    /\ \A m \in L : Old(b, ids, m) /\ m \notin Elems(ids) =>
         Len(ids) >= Kept /\ \A x \in Elems(ids) : m < x

\* A boundary keeps at least one message.
LEMMA KeptFacts == /\ Kept \in Nat /\ Kept >= 1 /\ Kept <= MaxSeen
                   /\ ~EmitExisting => Kept <= MaxPages * PageSize
<1> DEFINE k == MaxPages * PageSize
<1>1. MaxPages \in Nat /\ MaxPages >= 1 /\ PageSize \in Nat /\ PageSize >= 1
  BY PageAssumption
<1>2. k \in Nat /\ k >= 1
  BY <1>1
<1>3. Kept = IF EmitExisting \/ MaxSeen <= k THEN MaxSeen ELSE k
  BY DEF Kept
<1> HIDE DEF k
<1>4. Kept \in Nat /\ Kept >= 1 /\ Kept <= MaxSeen /\ (~EmitExisting => Kept <= k)
  BY <1>2, <1>3, LimitAssumption
<1> QED  BY <1>4 DEF k

\* A poll collects new messages only: of the boundary, which holds more
\* messages than have been deleted, at least one is still listed, and the
\* poll stops there.
LEMMA PollNew ==
    ASSUME NEW O \in SUBSET Nat, IsFiniteSet(O), NEW L \in SUBSET O, Cardinality(O \ L) < Kept,
           NEW p, PollerOK(O, L, p), NEW b, Anchor(L, b, p.seen), NEW c \in Nat,
           \A y \in Elems(p.seen) : y < c,
           AllNew(b, p.seen, p.ids), NEW ids, Newer(L, p, c, ids)
    PROVE  AllNew(b, p.seen, ids)
<1> SUFFICES ASSUME NEW x \in Elems(ids), Old(b, p.seen, x), x \notin Elems(p.ids) PROVE FALSE
  BY DEF AllNew
<1>1. x \in L /\ (p.initialized => \A y \in Elems(p.seen) \cap L : y < c => y < x)
  BY DEF Newer
<1>2. p.seen \in Seq(O) /\ Falls(p.seen)
  BY DEF PollerOK, IsBoundary, Anchor
<1>3. ~p.initialized => Elems(p.seen) = {}
  BY NoElems DEF PollerOK, NewPoller
<1>4. O \subseteq Nat /\ x \in Nat /\ Elems(p.seen) \subseteq O
  BY <1>1, <1>2, ElemsIn
<1>5. \A y \in Elems(p.seen) \cap L : y \in Nat /\ y < x
  BY <1>1, <1>3, <1>4 DEF PollerOK
<1>6. x \notin Elems(p.seen)
  BY <1>1, <1>4, <1>5
<1>7. Len(p.seen) >= Kept /\ \A y \in Elems(p.seen) : x < y
  BY <1>1, <1>6 DEF Anchor
<1>8. Elems(p.seen) \subseteq O \ L
  <2> SUFFICES ASSUME NEW y \in Elems(p.seen), y \in L PROVE FALSE
    BY <1>4
  <2>1. y \in Nat /\ y < x /\ x < y
    BY <1>5, <1>7
  <2> QED  BY <1>4, <2>1
<1>9. IsFiniteSet(O \ L)
  BY FS_Subset
<1>10. Cardinality(Elems(p.seen)) <= Cardinality(O \ L)
  BY <1>8, <1>9, FS_Subset
<1>11. Cardinality(Elems(p.seen)) = Len(p.seen)
  BY <1>2, FallsCount
<1>12. Cardinality(O \ L) \in Nat /\ Len(p.seen) \in Nat
  BY <1>2, <1>9, FS_CardinalityType
<1> QED  BY <1>7, <1>10, <1>11, <1>12, KeptFacts

\* Messages that are posted later are newer than a boundary.
LEMMA AnchorGrows ==
    ASSUME NEW n \in Nat, NEW O \in SUBSET Nat, \A m \in O : m <= n, NEW L,
           NEW K \in SUBSET Nat, \A m \in K : m \in L \/ m > n,
           NEW b \in Nat, b <= n, NEW ids \in Seq(O), Anchor(L, b, ids)
    PROVE  Anchor(K, b, ids)
<1>1. Elems(ids) \subseteq O /\ O \subseteq Nat
  BY ElemsIn
<1> SUFFICES ASSUME NEW m \in K, Old(b, ids, m) PROVE m \in L
  BY DEF Anchor
<1>2. m \in Nat
  OBVIOUS
<1>3. ~(m > n)
  <2>1. CASE m <= b
    BY <1>2, <2>1
  <2>2. CASE \E x \in Elems(ids) : m <= x
    <3>1. PICK x \in Elems(ids) : m <= x
      BY <2>2
    <3>2. x \in Nat /\ x <= n
      BY <1>1
    <3> QED  BY <1>2, <3>1, <3>2
  <2> QED  BY <2>1, <2>2 DEF Old
<1> QED  BY <1>3

\* Every message at or below one of S is at or below one of new.
Covers(new, S) == \A m \in Nat : (\E x \in S : m <= x) => \E x \in Elems(new) : m <= x

\* What is remembered covers what the old boundary covered and what was found.
LEMMA RememberCovers ==
    ASSUME NEW O \in SUBSET Nat, NEW seen \in Seq(O), NEW ids \in Seq(O), Falls(seen), Falls(ids),
           \A x \in Elems(ids), y \in Elems(seen) : x > y,
           NEW new, new = RememberNewestFirst(seen, ids)
    PROVE  Covers(new, Elems(seen) \cup Elems(ids))
<1> SUFFICES ASSUME NEW m \in Nat, NEW x \in Elems(seen) \cup Elems(ids), m <= x
             PROVE  \E y \in Elems(new) : m <= y
  BY DEF Covers
<1>1. CASE x \in Elems(new)
  BY <1>1
<1>2. CASE x \notin Elems(new)
  <2>1. Len(new) = MaxSeen /\ \A y \in Elems(new) : y > x
    BY <1>2, RememberTop, Zenon
  <2>2. new \in Seq(O)
    BY RememberFacts
  <2>3. Len(new) \in Nat /\ 1 \in DOMAIN new
    BY <2>1, <2>2, LimitAssumption
  <2>4. new[1] \in Elems(new)
    BY <2>3 DEF Elems
  <2>5. new[1] \in O /\ O \subseteq Nat /\ x \in O
    BY <2>2, <2>3, ElemsIn
  <2>6. new[1] > x /\ new[1] \in Nat /\ x \in Nat
    BY <2>1, <2>4, <2>5
  <2> QED  BY <2>4, <2>6
<1> QED  BY <1>1, <1>2

\* The boundary after the messages found were emitted
LEMMA AnchorDone ==
    ASSUME NEW O \in SUBSET Nat, NEW L \in SUBSET O, NEW b, NEW seen \in Seq(O), NEW ids,
           Anchor(L, b, seen), AllNew(b, seen, ids), Backlog(O, L, seen, ids, 0),
           NEW new, new = RememberNewestFirst(seen, ids)
    PROVE  Anchor(L, b, new)
<1>1. ids \in Seq(O) /\ Falls(ids) /\ Falls(seen) /\ O \subseteq Nat
  BY DEF Backlog, Anchor
<1>2. /\ Elems(ids) \subseteq O /\ Elems(seen) \subseteq O
      /\ Elems(ids) \subseteq Nat /\ Elems(seen) \subseteq Nat
  BY <1>1, ElemsIn
<1>3. \A x \in Elems(ids), y \in Elems(seen) : x > y
  <2> SUFFICES ASSUME NEW x \in Elems(ids), NEW y \in Elems(seen) PROVE x > y
    OBVIOUS
  <2>1. ~(x <= y) /\ x \in Nat /\ y \in Nat
    BY <1>2 DEF AllNew, Old
  <2> QED  BY <2>1
<1>4. /\ Falls(new)
      /\ \/ Len(new) = MaxSeen
         \/ Len(new) = Len(ids) + Len(seen) /\ Elems(new) = Elems(ids) \cup Elems(seen)
      /\ \A x \in (Elems(ids) \cup Elems(seen)) \ Elems(new) :
           Len(new) = MaxSeen /\ \A y \in Elems(new) : y > x
  BY <1>1, <1>3, RememberTop, Zenon
<1>5. new \in Seq(O) /\ Elems(new) \subseteq Elems(seen) \cup Elems(ids)
  BY <1>1, RememberFacts
<1>6. Len(new) \in Nat /\ Len(ids) \in Nat /\ Len(seen) \in Nat
  BY <1>1, <1>5
<1>7. ASSUME NEW m \in L, Old(b, new, m), m \notin Elems(new)
      PROVE  Len(new) >= Kept /\ \A x \in Elems(new) : m < x
  <2>0. m \in Nat
    BY <1>1
  <2>1. CASE m \in Elems(ids) \cup Elems(seen)
    <3>1. Len(new) = MaxSeen /\ \A y \in Elems(new) : y > m
      BY <1>4, <1>7, <2>1
    <3>2. \A x \in Elems(new) : x \in Nat
      BY <1>2, <1>5
    <3> QED  BY <2>0, <3>1, <3>2, KeptFacts, LimitAssumption
  <2>2. CASE m \notin Elems(ids) \cup Elems(seen) /\ Old(b, seen, m)
    <3>1. Len(seen) >= Kept /\ \A x \in Elems(seen) : m < x
      BY <2>2 DEF Anchor
    <3>2. Len(new) >= Kept
      BY <1>4, <1>6, <3>1, KeptFacts, LimitAssumption
    <3>3. 1 \in DOMAIN seen
      BY <1>6, <3>1, KeptFacts
    <3>4. seen[1] \in Elems(seen)
      BY <3>3 DEF Elems
    <3>5. ASSUME NEW x \in Elems(ids) PROVE m < x
      <4>1. x > seen[1] /\ m < seen[1] /\ x \in Nat /\ seen[1] \in Nat
        BY <1>2, <1>3, <3>1, <3>4
      <4> QED  BY <2>0, <4>1
    <3> QED  BY <1>5, <3>1, <3>2, <3>5
  <2>3. CASE m \notin Elems(ids) \cup Elems(seen) /\ ~Old(b, seen, m)
    <3>1. PICK x \in Elems(new) : m <= x
      BY <1>7, <2>3 DEF Old
    <3>2. x \in Elems(ids)
      BY <1>5, <2>3, <3>1 DEF Old
    <3>3. m >= 0
      BY <2>0
    <3>4. m \in Elems(ids) \/ \E y \in Elems(seen) : m <= y
      BY <3>1, <3>2, <3>3 DEF Backlog, Gapless
    <3> QED  BY <2>3, <3>4 DEF Old
  <2> QED  BY <2>1, <2>2, <2>3
<1> QED  BY <1>4, <1>7 DEF Anchor

\* The boundary after a baseline
LEMMA AnchorBased ==
    ASSUME NEW O \in SUBSET Nat, NEW L \in SUBSET O, NEW c \in Nat, NEW u, Baseline(O, L, c, u),
           ~EmitExisting, NEW new, new = RememberNewestFirst(<< >>, u.seenIds)
    PROVE  Anchor(L, c - 1, new)
<1> DEFINE ids == u.seenIds
           k == MaxPages * PageSize
<1>1. /\ ids \in Seq(O) /\ Falls(ids) /\ (\A x \in Elems(ids) : x < c)
      /\ \A m \in L : m < c /\ m \notin Elems(ids) => Len(ids) >= k /\ \A x \in Elems(ids) : m < x
  BY DEF Baseline
<1>2. << >> \in Seq(O) /\ Falls(<< >>) /\ Elems(<< >>) = {} /\ Len(<< >>) = 0
  <2>1. << >> \in Seq(O) /\ Len(<< >>) = 0
    OBVIOUS
  <2> QED  BY <2>1, NoElems
<1>3. k \in Nat /\ Kept <= k /\ Kept \in Nat /\ Kept <= MaxSeen /\ MaxSeen \in Nat
  <2>1. MaxPages \in Nat /\ PageSize \in Nat
    BY PageAssumption
  <2>2. k \in Nat
    BY <2>1
  <2> QED  BY <2>2, KeptFacts, LimitAssumption
<1> HIDE DEF ids, k
<1>4. new = RememberNewestFirst(<< >>, ids)
  BY DEF ids
<1>5. \A x \in Elems(ids), y \in Elems(<< >>) : x > y
  BY <1>2
<1>6. /\ Falls(new)
      /\ \/ Len(new) = MaxSeen
         \/ Len(new) = Len(ids) + Len(<< >>) /\ Elems(new) = Elems(ids) \cup Elems(<< >>)
      /\ \A x \in (Elems(ids) \cup Elems(<< >>)) \ Elems(new) :
           Len(new) = MaxSeen /\ \A y \in Elems(new) : y > x
  BY <1>1, <1>2, <1>4, <1>5, RememberTop, Zenon
<1>7. new \in Seq(O) /\ Elems(new) \subseteq Elems(<< >>) \cup Elems(ids)
  <2>1. PICK none \in Seq(O) : none = << >>
    BY <1>2
  <2>2. /\ RememberNewestFirst(none, ids) \in Seq(O)
        /\ Elems(RememberNewestFirst(none, ids)) \subseteq Elems(none) \cup Elems(ids)
    BY <1>1, RememberFacts
  <2> QED  BY <1>4, <2>1, <2>2
<1>8. Elems(ids) \subseteq Nat /\ Elems(new) \subseteq Elems(ids)
  BY <1>1, <1>2, <1>7, ElemsIn
<1>9. ASSUME NEW m \in L, Old(c - 1, new, m), m \notin Elems(new)
      PROVE  Len(new) >= Kept /\ \A x \in Elems(new) : m < x
  <2>0. m \in Nat
    OBVIOUS
  <2>1. m < c
    <3>1. CASE m <= c - 1
      BY <2>0, <3>1
    <3>2. CASE \E x \in Elems(new) : m <= x
      <4>1. PICK x \in Elems(new) : m <= x
        BY <3>2
      <4>2. x \in Nat /\ x < c
        BY <1>1, <1>8
      <4> QED  BY <2>0, <4>1, <4>2
    <3> QED  BY <1>9, <3>1, <3>2 DEF Old
  <2>2. CASE m \in Elems(ids)
    <3>1. Len(new) = MaxSeen /\ \A y \in Elems(new) : y > m
      BY <1>6, <1>9, <2>2
    <3>2. \A x \in Elems(new) : x \in Nat
      BY <1>8
    <3> QED  BY <1>3, <2>0, <3>1, <3>2
  <2>3. CASE m \notin Elems(ids)
    <3>1. Len(ids) >= k /\ \A x \in Elems(ids) : m < x
      BY <1>1, <2>1, <2>3
    <3>2. Len(ids) \in Nat
      BY <1>1
    <3>3. Len(new) >= Kept
      BY <1>2, <1>3, <1>6, <3>1, <3>2
    <3> QED  BY <1>8, <3>1, <3>3
  <2> QED  BY <2>2, <2>3
<1> QED  BY <1>6, <1>9 DEF Anchor
-----------------------------------------------------------------------------
\* A checkpoint that was given out is an anchor.
Anchored(r, point) == point.given => Anchor(Listed(r), base[r], point.ids)

AnchorInv(r) ==
    /\ Anchored(r, durable[r]) /\ Anchored(r, batch[r])
    /\ \A i \in DOMAIN channel : Anchored(r, channel[i].points[r])

\* What waits to be emitted is new.
NewInv(r) ==
    /\ AllNew(base[r], poller[r].seen, poller[r].ids)
    /\ Updated(r) /\ Emits(poller[r]) => AllNew(base[r], poller[r].seen, Found(r))

\* Where the next poll of room r stops
Boundary(r) == IF poller[r].initialized THEN poller[r].seen ELSE points[r].ids

\* What has been emitted came after the baseline, is covered by the boundary,
\* and was in order.
EmittedInv(r) ==
    \A i \in DOMAIN emitted : posted[emitted[i]] = r =>
        /\ emitted[i] > base[r] /\ \E b \in Elems(Boundary(r)) : emitted[i] <= b
        /\ \A j \in DOMAIN emitted : i < j /\ posted[emitted[j]] = r => emitted[i] < emitted[j]

Ordered(r) == AnchorInv(r) /\ NewInv(r) /\ EmittedInv(r)

OrderInv == \A r \in Room : Few(r) => Ordered(r)

\* Steps that leave alone what Ordered is about
SameOrder(r) ==
    /\ \A m \in Msgs : posted'[m] = posted[m]
    /\ UNCHANGED emitted /\ base'[r] = base[r]
    /\ Boundary(r)' = Boundary(r)

\* Such a step keeps the order of the messages emitted.
LEMMA SameEmitted ==
    ASSUME SafeInv, NEW r \in Room, EmittedInv(r), SameOrder(r)
    PROVE  EmittedInv(r)'
<1>1. emitted' = emitted /\ base'[r] = base[r] /\ Boundary(r)' = Boundary(r)
  BY DEF SameOrder
<1>2. \A i \in DOMAIN emitted : posted'[emitted[i]] = posted[emitted[i]]
  BY DEF SafeInv, TypeInv, SameOrder
<1> QED  BY <1>1, <1>2 DEF EmittedInv

\* The boundary in memory is an anchor too.
LEMMA SeenAnchor ==
    ASSUME SafeInv, NEW r \in Room, AnchorInv(r), Emits(poller[r])
    PROVE  Anchor(Listed(r), base[r], poller[r].seen)
<1> DEFINE seen == poller[r].seen
<1>1. TypeInv /\ LatestInv(r) /\ PollerInv(r) /\ BaseInv(r)
  BY DEF SafeInv, RoomInv
<1>2. CASE poller[r].initialized /\ IsLatest(r, Point(seen))
  <2> DEFINE point == Point(seen)
  <2>1. point.given = TRUE /\ point.ids = seen
    BY DEF Point
  <2> HIDE DEF point
  <2>2. IsLatest(r, point)
    BY <1>2 DEF point
  <2>3. Anchored(r, point)
    <3>1. \/ \E i \in DOMAIN channel : channel[i].points[r] = point
          \/ point = batch[r] \/ point = durable[r]
      BY <2>2 DEF IsLatest
    <3> QED  BY <3>1 DEF AnchorInv
  <2> QED  BY <2>1, <2>3 DEF Anchored
<1>3. CASE ~(poller[r].initialized /\ IsLatest(r, Point(seen)))
  <2>1. seen = << >> /\ EmitExisting
    BY <1>1, <1>3 DEF LatestInv, PollerInv, PollerOK, NewPoller, Emits
  <2>2. base[r] = 0
    BY <1>1, <2>1 DEF BaseInv
  <2>3. Elems(<< >>) = {} /\ Falls(<< >>)
    BY NoElems
  <2>4. \A m \in Listed(r) : m \in Nat /\ m # 0
    BY <1>1, OfFacts
  <2>5. \A m \in Listed(r) : ~(m <= 0)
    BY <2>4
  <2> QED  BY <2>1, <2>2, <2>3, <2>5 DEF Anchor, Old
<1> QED  BY <1>2, <1>3

\* A poll starts above the boundary.
LEMMA SeenBelow ==
    ASSUME SafeInv, NEW r \in Room, NewInv(r), phase = "polling"
    PROVE  From(poller[r], cutoff) \in Nat /\ \A b \in Elems(poller[r].seen) : b < From(poller[r], cutoff)
<1> DEFINE p == poller[r]
<1>1. TypeInv /\ PollerOK(Of(r), Listed(r), p) /\ Of(r) \subseteq Nat
  BY OfFacts DEF SafeInv, RoomInv, PollerInv
<1>2. CASE p.next = 0
  <2>1. From(p, cutoff) = cutoff /\ cutoff \in Nat
    BY <1>1, <1>2 DEF From, TypeInv
  <2>2. \A b \in Elems(p.seen) : b < cutoff
    BY DEF SafeInv, RoomInv, BaseInv
  <2> QED  BY <2>1, <2>2
<1>3. CASE p.next # 0
  <2>1. From(p, cutoff) = p.next /\ p.next \in Nat /\ p.next \in Elems(p.ids)
    BY <1>1, <1>3 DEF From, PollerOK, Backlog
  <2>2. \A b \in Elems(p.seen) : ~(p.next <= b)
    BY <2>1 DEF NewInv, AllNew, Old
  <2>3. \A b \in Elems(p.seen) : b \in Nat
    <3>1. Elems(p.seen) \subseteq Of(r)
      BY <1>1, ElemsIn DEF PollerOK, IsBoundary
    <3> QED  BY <1>1, <3>1
  <2>4. \A b \in Elems(p.seen) : b < p.next
    BY <2>1, <2>2, <2>3
  <2> QED  BY <2>1, <2>4
<1> QED  BY <1>2, <1>3
-----------------------------------------------------------------------------
\* Messages posted are new, and messages deleted make Few no truer.
LEMMA WebexOrder ==
    ASSUME SafeInv, OrderInv, WebexChanges
    PROVE  OrderInv'
<1> USE DEF WebexChanges, state, current, consumer
<1>1. TypeInv /\ TypeInv'
  BY DEF SafeInv
<1> SUFFICES ASSUME NEW r \in Room, Few(r)' PROVE Ordered(r)'
  BY DEF OrderInv
<1> DEFINE O == Of(r)
           L == Listed(r)
           K == Listed(r)'
           n == Len(posted)
<1>2. /\ n \in Nat /\ O \in SUBSET Nat /\ (\A m \in O : m <= n) /\ K \in SUBSET Nat
      /\ \A m \in K : m \in L \/ m > n
      /\ Of(r) \subseteq Of(r)'
  BY <1>1, OfFacts, WebexMsgs
<1>3. Few(r)
  <2> DEFINE A == Of(r) \cap deleted
             B == Of(r)' \cap deleted'
  <2>1. A \subseteq B
    BY <1>2
  <2>2. IsFiniteSet(Of(r)')
    <3>1. Len(posted') \in Nat /\ Msgs' = 1 .. Len(posted')
      BY <1>1 DEF TypeInv, Msgs
    <3>2. IsFiniteSet(Msgs') /\ Of(r)' \subseteq Msgs'
      BY <3>1, IntervalFacts DEF Of
    <3> QED  BY <3>2, FS_Subset
  <2>3. IsFiniteSet(B)
    BY <2>2, FS_Subset
  <2>4. IsFiniteSet(A) /\ Cardinality(A) <= Cardinality(B)
    BY <2>1, <2>3, FS_Subset
  <2>5. Cardinality(A) \in Nat /\ Cardinality(B) \in Nat
    BY <2>3, <2>4, FS_CardinalityType
  <2>6. Cardinality(B) < Kept
    BY DEF Few
  <2> QED  BY <2>4, <2>5, <2>6, KeptFacts DEF Few
<1>4. AnchorInv(r) /\ NewInv(r) /\ EmittedInv(r)
  BY <1>3 DEF OrderInv, Ordered
<1>5. UNCHANGED <<base, durable, batch, channel, poller, points, results, emitted>>
  OBVIOUS
<1>6. base[r] \in Nat /\ base[r] <= n
  BY <1>1 DEF SafeInv, RoomInv, BaseInv, TypeInv
<1>7. ASSUME NEW ids \in Seq(O), Anchor(L, base[r], ids) PROVE Anchor(K, base[r], ids)
  <2> HIDE DEF O, L, K, n
  <2> QED  BY <1>2, <1>6, <1>7, AnchorGrows
<1>8. /\ durable[r].ids \in Seq(O) /\ batch[r].ids \in Seq(O)
      /\ \A i \in DOMAIN channel : channel[i].points[r].ids \in Seq(O)
  BY PointInvFacts DEF SafeInv, RoomInv
<1>9. AnchorInv(r)'
  BY <1>4, <1>5, <1>7, <1>8 DEF AnchorInv, Anchored
<1>10. NewInv(r)'
  BY <1>4, <1>5 DEF NewInv, Updated, Found, Update
<1>11. EmittedInv(r)'
  <2>1. SameOrder(r)
    BY DEF SameOrder, Boundary
  <2> QED  BY <1>4, <2>1, SameEmitted
<1> QED  BY <1>9, <1>10, <1>11 DEF Ordered

\* Steps that leave alone what has been posted
LEMMA SameFew ==
    ASSUME NEW r \in Room, UNCHANGED <<posted, deleted>>
    PROVE  Few(r)' <=> Few(r)
  BY SameMsgs DEF Few

\* A poll finds new messages only.
LEMMA PollOrder ==
    ASSUME SafeInv, OrderInv, NEW s \in Room, NEW result, PollStep(s, result)
    PROVE  OrderInv'
<1> USE DEF PollStep, Polled, webex, state, consumer
<1> SUFFICES ASSUME NEW r \in Room, Few(r)' PROVE Ordered(r)'
  BY DEF OrderInv
<1>1. Few(r) /\ Listed(r)' = Listed(r)
  BY SameFew, SameMsgs
<1>2. AnchorInv(r) /\ NewInv(r) /\ EmittedInv(r)
  BY <1>1 DEF OrderInv, Ordered
<1>3. AnchorInv(r)'
  BY <1>1, <1>2 DEF AnchorInv, Anchored
<1>4. EmittedInv(r)'
  <2>1. SameOrder(r)
    BY DEF SameOrder, Boundary
  <2> QED  BY <1>2, <2>1, SameEmitted
<1>5. NewInv(r)'
  <2>1. CASE r # s
    BY <1>2, <2>1 DEF NewInv, Updated, Found, Update
  <2>2. CASE r = s
    <3> DEFINE p == poller[r]
               O == Of(r)
               L == Listed(r)
               c == From(p, cutoff)
    <3>1. results'[r] = result /\ phase = "polling" /\ poller'[r] = p /\ base'[r] = base[r]
      BY <2>2 DEF SafeInv, TypeInv
    <3>2. AllNew(base[r], p.seen, p.ids)
      BY <1>2 DEF NewInv
    <3>3. ASSUME Updated(r)', Emits(p) PROVE AllNew(base[r], p.seen, Found(r)')
      <4>1. PICK u \in result.updates : result.updates = {u} /\ Newer(L, p, c, Ids(u))
        BY <2>2, <3>1, <3>3 DEF PollOK, Updated
      <4>2. Found(r)' = Ids(u)
        BY <3>1, <4>1 DEF Found, Update
      <4>3. /\ O \in SUBSET Nat /\ IsFiniteSet(O) /\ L \in SUBSET O /\ PollerOK(O, L, p)
        BY OfFacts DEF SafeInv, RoomInv, PollerInv
      <4>4. Cardinality(O \ L) < Kept
        <5>1. O \ L = Of(r) \cap deleted
          BY DEF Listed
        <5> QED  BY <1>1, <5>1 DEF Few
      <4>5. Anchor(L, base[r], p.seen)
        BY <1>2, <3>3, SeenAnchor
      <4>6. c \in Nat /\ \A y \in Elems(p.seen) : y < c
        BY <1>2, <3>1, SeenBelow
      <4> HIDE DEF O, L, p, c
      <4>7. AllNew(base[r], p.seen, Ids(u))
        BY <3>2, <4>1, <4>3, <4>4, <4>5, <4>6, PollNew
      <4> QED  BY <4>2, <4>7
    <3> QED  BY <3>1, <3>2, <3>3 DEF NewInv
  <2> QED  BY <2>1, <2>2
<1> QED  BY <1>3, <1>4, <1>5 DEF Ordered
-----------------------------------------------------------------------------
\* A room that is evicted, revived or seeded again keeps its boundary.
LEMMA RoomsOrder ==
    ASSUME SafeInv, OrderInv, RoomsChange
    PROVE  OrderInv'
<1> USE DEF RoomsChange, consumer
<1> SUFFICES ASSUME NEW r \in Room, Few(r)' PROVE Ordered(r)'
  BY DEF OrderInv
<1> DEFINE p == poller[r]
           e == poller'[r]
<1>1. Few(r) /\ Listed(r)' = Listed(r)
  BY SameFew, SameMsgs
<1>2. AnchorInv(r) /\ NewInv(r) /\ EmittedInv(r)
  BY <1>1 DEF OrderInv, Ordered
<1>3. AnchorInv(r)'
  BY <1>1, <1>2 DEF AnchorInv, Anchored
<1>4. ~Updated(r)'
  BY DEF SafeInv, RoomInv, ResultInv, Updated
<1>5. \A ids : /\ WithBoundary(ids).seen = ids /\ WithBoundary(ids).initialized = TRUE
               /\ WithBoundary(ids).ids = << >>
  BY DEF WithBoundary, NewPoller
<1>6. NewPoller.seen = << >> /\ NewPoller.initialized = FALSE /\ NewPoller.ids = << >>
  BY DEF NewPoller
<1>7. \A ids : Point(ids).ids = ids
  BY DEF Point
<1>8. SameRoom(r) \/ Evicted(r) \/ Revived(r) \/ Dropped(r)
  OBVIOUS
<1>9. Boundary(r)' = Boundary(r)
  <2>1. CASE SameRoom(r)
    BY <2>1 DEF SameRoom, Boundary
  <2>2. CASE Evicted(r)
    BY <1>6, <1>7, <2>2 DEF Evicted, Boundary
  <2>3. CASE Revived(r)
    BY <1>5, <1>6, <2>3 DEF Revived, Boundary
  <2>4. CASE Dropped(r)
    BY <1>5, <2>4 DEF Dropped, Boundary
  <2> QED  BY <1>8, <2>1, <2>2, <2>3, <2>4
<1>10. AllNew(base[r], e.seen, e.ids)
  <2>1. CASE SameRoom(r)
    BY <1>2, <2>1 DEF SameRoom, NewInv
  <2>2. CASE ~SameRoom(r)
    <3>1. e.ids = << >>
      BY <1>5, <1>6, <1>8, <2>2 DEF Evicted, Revived, Dropped
    <3> QED  BY <3>1, NoElems DEF AllNew
  <2> QED  BY <2>1, <2>2
<1>11. NewInv(r)'
  BY <1>4, <1>10 DEF NewInv
<1>12. EmittedInv(r)'
  <2>1. SameOrder(r)
    BY <1>9 DEF SameOrder
  <2> QED  BY <1>2, <2>1, SameEmitted
<1> QED  BY <1>3, <1>11, <1>12 DEF Ordered

\* The messages emitted are followed by the events of the batch.
LEMMA EmittedEvents ==
    ASSUME SafeInv, Finish, NEW i \in DOMAIN emitted'
    PROVE  \/ i \in DOMAIN emitted /\ emitted'[i] = emitted[i]
           \/ /\ i - Len(emitted) \in DOMAIN Events /\ emitted'[i] = Events[i - Len(emitted)]
              /\ emitted'[i] \in Elems(Events)
              /\ \A j \in DOMAIN emitted : j < i
<1> DEFINE a == Len(emitted)
           b == Len(Events)
<1>1. emitted \in Seq(Msgs) /\ Events \in Seq(Msgs) /\ emitted' = emitted \o Events
  BY EventsFacts DEF SafeInv, TypeInv, Finish
<1>2. /\ a \in Nat /\ b \in Nat /\ DOMAIN emitted = 1 .. a /\ DOMAIN Events = 1 .. b
      /\ DOMAIN emitted' = 1 .. (a + b)
      /\ \A k \in 1 .. (a + b) : emitted'[k] = IF k <= a THEN emitted[k] ELSE Events[k - a]
  <2> DEFINE q == Events
  <2> HIDE DEF Msgs, q
  <2>1. emitted \in Seq(Msgs) /\ q \in Seq(Msgs) /\ emitted' = emitted \o q
    BY <1>1 DEF q
  <2>2. /\ a \in Nat /\ Len(q) \in Nat /\ DOMAIN emitted = 1 .. a /\ DOMAIN q = 1 .. Len(q)
        /\ DOMAIN emitted' = 1 .. (a + Len(q))
        /\ \A k \in 1 .. (a + Len(q)) : emitted'[k] = IF k <= a THEN emitted[k] ELSE q[k - a]
    BY <2>1
  <2> QED  BY <2>2 DEF q
<1> HIDE DEF a, b
<1>3. CASE i <= a
  BY <1>2, <1>3
<1>4. CASE i > a
  <2>1. i \in Nat /\ i - a \in 1 .. b /\ ~(i <= a) /\ \A j \in 1 .. a : j < i
    BY <1>2, <1>4
  <2>2. emitted'[i] = Events[i - a]
    BY <1>2, <2>1
  <2>3. Events[i - a] \in Elems(Events)
    BY <1>2, <2>1 DEF Elems
  <2> QED  BY <1>2, <2>1, <2>2, <2>3 DEF a
<1>5. i \in Nat
  BY <1>2
<1> QED  BY <1>2, <1>3, <1>4, <1>5

\* An event of room r was found in room r.
LEMMA EventOf ==
    ASSUME SafeInv, NEW r \in Room, NEW e \in Elems(Events), posted[e] = r
    PROVE  ~BatchHasBacklog /\ Updated(r) /\ Emits(poller[r]) /\ e \in Elems(Found(r))
<1>1. PICK s \in rooms : Updated(s) /\ Emits(poller[s]) /\ e \in Elems(Found(s))
  BY EventsFacts
<1>2. s \in Room
  BY DEF SafeInv, TypeInv
<1>3. Found(s) \in Seq(Of(s))
  BY <1>1, <1>2, CollectedUpdate
<1>4. e \in Of(s)
  BY <1>1, <1>3, ElemsIn
<1>5. s = r
  BY <1>4 DEF Of
<1>6. ~BatchHasBacklog
  BY NoElems DEF Events
<1> QED  BY <1>1, <1>5, <1>6

\* A room without new events: Unpolled, Based and Held
LEMMA NoEvents ==
    ASSUME SafeInv, Finish, NEW r \in Room, EmittedInv(r),
           \A e \in Elems(Events) : posted[e] # r,
           base'[r] = base[r] \/ Elems(Boundary(r)) = {},
           Elems(Boundary(r)) \subseteq Elems(Boundary(r)')
    PROVE  EmittedInv(r)'
<1>1. posted' = posted
  BY DEF Finish, webex
<1>2. ASSUME NEW i \in DOMAIN emitted', posted[emitted'[i]] = r
      PROVE  i \in DOMAIN emitted /\ emitted'[i] = emitted[i]
  BY <1>2, EmittedEvents
<1>3. ASSUME NEW i \in DOMAIN emitted', posted[emitted'[i]] = r
      PROVE  /\ emitted'[i] > base'[r] /\ \E b \in Elems(Boundary(r)') : emitted'[i] <= b
             /\ \A j \in DOMAIN emitted' : i < j /\ posted[emitted'[j]] = r => emitted'[i] < emitted'[j]
  <2>1. i \in DOMAIN emitted /\ emitted'[i] = emitted[i] /\ posted[emitted[i]] = r
    BY <1>2, <1>3
  <2>2. /\ emitted[i] > base[r] /\ \E b \in Elems(Boundary(r)) : emitted[i] <= b
        /\ \A j \in DOMAIN emitted : i < j /\ posted[emitted[j]] = r => emitted[i] < emitted[j]
    BY <2>1 DEF EmittedInv
  <2>3. base'[r] = base[r] /\ \E b \in Elems(Boundary(r)') : emitted[i] <= b
    BY <2>2
  <2> QED  BY <1>2, <2>1, <2>2, <2>3
<1> QED  BY <1>1, <1>3 DEF EmittedInv
-----------------------------------------------------------------------------
\* The messages found in room r are emitted.
LEMMA DoneOrder ==
    ASSUME SafeInv, Finish, NEW r \in Room, Ordered(r), Done(r)
    PROVE  Anchor(Listed(r), base[r], poller'[r].seen) /\ EmittedInv(r)'
<1> DEFINE O == Of(r)
           L == Listed(r)
           seen == poller[r].seen
           ids == Found(r)
           new == poller'[r].seen
<1>1. /\ new = RememberNewestFirst(seen, ids) /\ Backlog(O, L, seen, ids, 0) /\ base'[r] = base[r]
      /\ poller'[r].initialized = TRUE /\ r \in rooms /\ Emits(poller[r]) /\ Updated(r)
  BY DEF Done, After
<1>2. Anchor(L, base[r], seen) /\ AllNew(base[r], seen, ids) /\ EmittedInv(r)
  BY <1>1, SeenAnchor DEF Ordered, NewInv
<1>3. /\ TypeInv /\ O \in SUBSET Nat /\ L \in SUBSET O /\ seen \in Seq(O)
      /\ base[r] \in Nat /\ Msgs \subseteq Nat
  BY OfFacts DEF SafeInv, RoomInv, PollerInv, PollerOK, IsBoundary, TypeInv, Msgs
<1>4. Boundary(r) = seen /\ Boundary(r)' = new
  <2>1. ~poller[r].initialized => seen = << >> /\ points[r].ids = << >>
    BY <1>1 DEF SafeInv, RoomInv, PollerInv, PollerOK, MemberInv, NewPoller, NoPoint
  <2> QED  BY <1>1, <2>1 DEF Boundary
<1>5. posted' = posted /\ emitted \in Seq(Msgs)
  BY <1>3 DEF Finish, webex, TypeInv
<1>6. ASSUME NEW e \in Elems(Events), posted[e] = r PROVE e \in Elems(ids)
  BY <1>6, EventOf
<1>7. \A i \in DOMAIN emitted : emitted[i] \in Nat
  <2>1. \A i \in DOMAIN emitted : emitted[i] \in Msgs
    BY <1>5
  <2> QED  BY <1>3, <2>1
<1> HIDE DEF O, L, seen, ids, new
<1>8. Anchor(L, base[r], new)
  BY <1>1, <1>2, <1>3, AnchorDone
<1>9. ids \in Seq(O) /\ Falls(ids) /\ Falls(seen)
  BY <1>1, <1>2 DEF Backlog, Anchor
<1>10. Elems(ids) \subseteq Nat /\ Elems(seen) \subseteq Nat
  BY <1>3, <1>9, ElemsIn
<1>11. \A x \in Elems(ids) : x > base[r] /\ \A y \in Elems(seen) : x > y
  <2> TAKE x \in Elems(ids)
  <2>1. x \in Nat /\ ~(x <= base[r]) /\ \A y \in Elems(seen) : ~(x <= y)
    BY <1>2, <1>10 DEF AllNew, Old
  <2>2. \A y \in Elems(seen) : y \in Nat
    BY <1>10
  <2> QED  BY <1>3, <2>1, <2>2
<1>12. \A x \in Elems(ids), y \in Elems(seen) : x > y
  BY <1>11
<1>13. \A m \in Nat : (\E x \in Elems(seen) \cup Elems(ids) : m <= x) => \E x \in Elems(new) : m <= x
  <2>1. new = RememberNewestFirst(seen, ids) /\ O \in SUBSET Nat /\ seen \in Seq(O)
    BY <1>1, <1>3
  <2>2. Covers(new, Elems(seen) \cup Elems(ids))
    BY <1>9, <1>12, <2>1, RememberCovers, Zenon
  <2> QED  BY <2>2 DEF Covers
<1>14. ASSUME NEW i \in DOMAIN emitted', posted[emitted'[i]] = r
       PROVE  /\ emitted'[i] > base[r] /\ \E b \in Elems(new) : emitted'[i] <= b
              /\ \A j \in DOMAIN emitted' : i < j /\ posted[emitted'[j]] = r => emitted'[i] < emitted'[j]
  <2> DEFINE m == emitted'[i]
  <2>1. CASE i \in DOMAIN emitted /\ m = emitted[i]
    <3>1. /\ m \in Nat /\ m > base[r] /\ \E b \in Elems(seen) : m <= b
          /\ \A j \in DOMAIN emitted : i < j /\ posted[emitted[j]] = r => m < emitted[j]
      BY <1>2, <1>4, <1>7, <1>14, <2>1 DEF EmittedInv
    <3>2. \E b \in Elems(new) : m <= b
      BY <1>13, <3>1
    <3>3. ASSUME NEW j \in DOMAIN emitted', i < j, posted[emitted'[j]] = r PROVE m < emitted'[j]
      <4>1. CASE j \in DOMAIN emitted /\ emitted'[j] = emitted[j]
        BY <3>1, <3>3, <4>1
      <4>2. CASE emitted'[j] \in Elems(Events)
        <5>1. emitted'[j] \in Elems(ids)
          BY <1>6, <3>3, <4>2
        <5>2. PICK b \in Elems(seen) : m <= b
          BY <3>1
        <5>3. b \in Nat /\ emitted'[j] \in Nat /\ emitted'[j] > b
          BY <1>10, <1>11, <5>1
        <5> QED  BY <3>1, <5>2, <5>3
      <4> QED  BY <4>1, <4>2, EmittedEvents
    <3> QED  BY <3>1, <3>2, <3>3
  <2>2. CASE /\ i - Len(emitted) \in DOMAIN Events /\ m = Events[i - Len(emitted)]
             /\ m \in Elems(Events)
             /\ \A j \in DOMAIN emitted : j < i
    <3>1. m \in Elems(ids) /\ m \in Nat
      BY <1>6, <1>10, <1>14, <2>2
    <3>2. m > base[r] /\ \E b \in Elems(new) : m <= b
      <4>1. m <= m
        BY <3>1
      <4> QED  BY <1>11, <1>13, <3>1, <4>1
    <3>3. ASSUME NEW j \in DOMAIN emitted', i < j, posted[emitted'[j]] = r PROVE m < emitted'[j]
      <4>1. i \in Nat /\ j \in Nat /\ Len(emitted) \in Nat
        <5>1. emitted' \in Seq(Msgs)
          <6>1. Events \in Seq(Msgs) /\ emitted' = emitted \o Events
            BY EventsFacts DEF Finish
          <6> QED  BY <1>5, <6>1, JoinFacts
        <5> QED  BY <1>5, <5>1
      <4>2. j \notin DOMAIN emitted
        <5>1. ~(j < i)
          BY <3>3, <4>1
        <5> QED  BY <2>2, <5>1
      <4>3. j - Len(emitted) \in DOMAIN Events /\ emitted'[j] = Events[j - Len(emitted)]
        BY <4>2, EmittedEvents
      <4>4. i - Len(emitted) < j - Len(emitted)
        BY <3>3, <4>1
      <4>5. Rises(Events)
        BY EventsFacts
      <4> QED  BY <2>2, <4>3, <4>4, <4>5 DEF Rises
    <3> QED  BY <3>2, <3>3
  <2> QED  BY <2>1, <2>2, EmittedEvents
<1>15. EmittedInv(r)'
  BY <1>1, <1>4, <1>5, <1>14 DEF EmittedInv
<1> QED  BY <1>8, <1>15 DEF L, new

\* The other rooms: no checkpoint, or that of a first baseline
LEMMA FinishAnchors ==
    ASSUME SafeInv, Finish, NEW r \in Room, Ordered(r)
    PROVE  AnchorInv(r)'
<1>0. PICK n : n = Len(channel)
  OBVIOUS
<1>1. /\ \A i \in DOMAIN channel' : i \in DOMAIN channel \/ i = n + 1
      /\ \A i \in DOMAIN channel : channel'[i] = channel[i]
      /\ channel'[n + 1].points[r] = CheckpointOf(r)
  BY <1>0, FinishSends
<1>2. Listed(r)' = Listed(r) /\ durable' = durable /\ batch' = batch
  BY SameMsgs DEF Finish, webex
<1>3. \A i \in DOMAIN channel' : Anchored(r, channel[i].points[r])' <=>
           (channel'[i].points[r].given => Anchor(Listed(r), base'[r], channel'[i].points[r].ids))
  BY <1>2 DEF Anchored
<1>4. AnchorInv(r)
  BY DEF Ordered
<1>5. Point(poller'[r].seen).ids = poller'[r].seen /\ ~NoPoint.given
  BY DEF Point, NoPoint
<1>6. CASE base'[r] = base[r] /\ (CheckpointOf(r) = NoPoint \/ Done(r))
  <2>1. CheckpointOf(r).given => Anchor(Listed(r), base[r], CheckpointOf(r).ids)
    BY <1>5, <1>6, DoneOrder DEF Done
  <2> QED  BY <1>1, <1>2, <1>3, <1>4, <1>6, <2>1 DEF AnchorInv, Anchored
<1>7. CASE Based(r)
  <2>1. ~EmitExisting /\ ~poller[r].initialized /\ points[r] = NoPoint
    BY <1>7 DEF Based, Emits, SafeInv, RoomInv, MemberInv
  <2>2. IsLatest(r, NoPoint)
    BY <2>1 DEF SafeInv, RoomInv, LatestInv
  <2>3. ~durable[r].given /\ ~batch[r].given /\ \A i \in DOMAIN channel : ~channel[i].points[r].given
    BY <1>5, <2>2 DEF IsLatest
  <2>4. /\ Of(r) \in SUBSET Nat /\ Listed(r) \in SUBSET Of(r) /\ cutoff \in Nat
    BY OfFacts DEF SafeInv, TypeInv
  <2>5. Found(r) = Update(r).seenIds
    BY <1>7 DEF Based, Baseline, Found, Ids, Committed
  <2>6. /\ Baseline(Of(r), Listed(r), cutoff, Update(r)) /\ base'[r] = cutoff - 1
        /\ poller'[r].seen = RememberNewestFirst(<< >>, Update(r).seenIds)
        /\ CheckpointOf(r) = Point(poller'[r].seen)
    BY <1>7, <2>5 DEF Based, After
  <2>7. Anchor(Listed(r), base'[r], poller'[r].seen)
    BY <2>1, <2>4, <2>6, AnchorBased
  <2> QED  BY <1>1, <1>2, <1>3, <1>5, <2>3, <2>6, <2>7 DEF AnchorInv, Anchored
<1> QED  BY <1>6, <1>7, FinishRooms DEF Unpolled, Held, Done

\* The end of poll_once: the messages emitted are above the old boundary, and
\* at or below the new one.
LEMMA FinishOrder ==
    ASSUME SafeInv, OrderInv, Finish
    PROVE  OrderInv'
<1> SUFFICES ASSUME NEW r \in Room, Few(r)' PROVE Ordered(r)'
  BY DEF OrderInv
<1>1. UNCHANGED <<posted, deleted, points>> /\ ~Updated(r)'
  BY DEF Finish, webex, Updated, NoResult, Failed
<1>2. Few(r)
  BY <1>1, SameFew
<1>3. Ordered(r) /\ NewInv(r) /\ EmittedInv(r)
  BY <1>2 DEF OrderInv, Ordered
<1>4. AnchorInv(r)'
  BY <1>3, FinishAnchors
<1>5. \A seen, ids, next : LET p == After(seen, ids, next)
                           IN  p.seen = seen /\ p.ids = ids /\ p.initialized = TRUE
  BY DEF After
<1>6. AllNew(base'[r], poller'[r].seen, poller'[r].ids)
  <2>1. CASE Unpolled(r)
    BY <1>3, <2>1 DEF Unpolled, NewInv
  <2>2. CASE Held(r)
    BY <1>3, <1>5, <2>2 DEF Held, NewInv
  <2>3. CASE Based(r) \/ Done(r)
    <3>1. poller'[r].ids = << >>
      BY <1>5, <2>3 DEF Based, Done
    <3> QED  BY <3>1, NoElems DEF AllNew
  <2> QED  BY <2>1, <2>2, <2>3, FinishRooms
<1>7. NewInv(r)'
  BY <1>1, <1>6 DEF NewInv
<1>8. ~poller[r].initialized => poller[r].seen = << >> /\ (r \in rooms => points[r].ids = << >>)
  BY DEF SafeInv, RoomInv, PollerInv, PollerOK, MemberInv, NewPoller, NoPoint
<1>9. EmittedInv(r)'
  <2>1. CASE Done(r)
    BY <1>3, <2>1, DoneOrder
  <2>2. ASSUME Unpolled(r) \/ Based(r) \/ Held(r), NEW e \in Elems(Events), posted[e] = r PROVE FALSE
    BY <2>2, EventOf DEF Unpolled, Based, Held
  <2>3. CASE Unpolled(r)
    <3>1. base'[r] = base[r] /\ Boundary(r)' = Boundary(r)
      BY <1>1, <2>3 DEF Unpolled, Boundary
    <3> QED  BY <1>3, <2>2, <2>3, <3>1, NoEvents
  <2>4. CASE Based(r)
    <3>1. Boundary(r) = << >>
      BY <1>8, <2>4 DEF Based, Boundary, Emits
    <3>2. Elems(Boundary(r)) = {}
      BY <3>1, NoElems
    <3> QED  BY <1>3, <2>2, <2>4, <3>2, NoEvents
  <2>5. CASE Held(r)
    <3>1. base'[r] = base[r] /\ Boundary(r)' = poller[r].seen /\ r \in rooms
      BY <1>5, <2>5 DEF Held, Boundary
    <3>2. Boundary(r) = poller[r].seen
      BY <1>8, <3>1 DEF Boundary
    <3> QED  BY <1>3, <2>2, <2>5, <3>1, <3>2, NoEvents
  <2> QED  BY <2>1, <2>3, <2>4, <2>5, FinishRooms
<1> QED  BY <1>4, <1>7, <1>9 DEF Ordered
-----------------------------------------------------------------------------
\* A poll that is cancelled emits nothing.
LEMMA CancelOrder ==
    ASSUME SafeInv, OrderInv, Cancel
    PROVE  OrderInv'
<1> USE DEF Cancel, webex, state, consumer
<1> SUFFICES ASSUME NEW r \in Room, Few(r)' PROVE Ordered(r)'
  BY DEF OrderInv
<1>1. Few(r) /\ Listed(r)' = Listed(r)
  BY SameFew, SameMsgs
<1>2. AnchorInv(r) /\ NewInv(r) /\ EmittedInv(r)
  BY <1>1 DEF OrderInv, Ordered
<1>3. AnchorInv(r)'
  BY <1>1, <1>2 DEF AnchorInv, Anchored
<1>4. ~Updated(r)'
  BY DEF Updated, NoResult, Failed
<1>5. NewInv(r)'
  BY <1>2, <1>4 DEF NewInv
<1>6. SameOrder(r)
  BY DEF SameOrder, Boundary
<1> QED  BY <1>2, <1>3, <1>5, <1>6, SameEmitted DEF Ordered

\* HandleEvents and SaveCheckpoints pass the checkpoints on.
LEMMA ConsumerOrder ==
    ASSUME SafeInv, OrderInv,
           UNCHANGED <<posted, deleted, base, poller, points, results, emitted>>,
           \A r \in Room : AnchorInv(r) => AnchorInv(r)'
    PROVE  OrderInv'
<1> SUFFICES ASSUME NEW r \in Room, Few(r)' PROVE Ordered(r)'
  BY DEF OrderInv
<1>1. Few(r)
  BY SameFew
<1>2. AnchorInv(r) /\ NewInv(r) /\ EmittedInv(r)
  BY <1>1 DEF OrderInv, Ordered
<1>3. NewInv(r)'
  BY <1>2 DEF NewInv, Updated, Found, Update
<1>4. SameOrder(r)
  BY DEF SameOrder, Boundary
<1> QED  BY <1>2, <1>3, <1>4, SameEmitted DEF Ordered

\* The checkpoints of the batch handled are anchors,
LEMMA HandleOrder ==
    ASSUME SafeInv, OrderInv, HandleEvents
    PROVE  OrderInv'
<1> DEFINE B == [events : Seq(Nat), points : [Room -> Checkpoint]]
<1>1. UNCHANGED <<posted, deleted, base, poller, points, results, emitted, durable>>
  BY DEF HandleEvents, webex, state, current
<1>2. channel \in Seq(B) /\ channel # << >> /\ channel' = Tail(channel)
  BY DEF HandleEvents, SafeInv, TypeInv
<1> HIDE DEF B
<1>3. /\ 1 \in DOMAIN channel /\ Head(channel) = channel[1]
      /\ \A i \in DOMAIN channel' : i + 1 \in DOMAIN channel /\ channel'[i] = channel[i + 1]
  BY <1>2, TailFacts
<1>4. ASSUME NEW r \in Room, AnchorInv(r) PROVE AnchorInv(r)'
  <2>1. Listed(r)' = Listed(r)
    BY <1>1, SameMsgs
  <2>2. batch'[r] = channel[1].points[r]
    BY <1>3 DEF HandleEvents
  <2> QED  BY <1>1, <1>3, <1>4, <2>1, <2>2 DEF AnchorInv, Anchored
<1> QED  BY <1>1, <1>4, ConsumerOrder

\* and so are the ones saved,
LEMMA SaveOrder ==
    ASSUME SafeInv, OrderInv, SaveCheckpoints
    PROVE  OrderInv'
<1>1. UNCHANGED <<posted, deleted, base, poller, points, results, emitted, channel>>
  BY DEF SaveCheckpoints, webex, state, current
<1>2. ASSUME NEW r \in Room, AnchorInv(r) PROVE AnchorInv(r)'
  <2>1. Listed(r)' = Listed(r)
    BY <1>1, SameMsgs
  <2>2. ~batch'[r].given /\ durable'[r] = IF batch[r].given THEN batch[r] ELSE durable[r]
    BY DEF SaveCheckpoints, Saved, NoPoints, NoPoint
  <2> QED  BY <1>1, <1>2, <2>1, <2>2 DEF AnchorInv, Anchored
<1> QED  BY <1>1, <1>2, ConsumerOrder

\* also when only some of them are saved before the poller is given up.
LEMMA RebuildOrder ==
    ASSUME SafeInv, OrderInv, Rebuild
    PROVE  OrderInv'
<1> SUFFICES ASSUME NEW r \in Room, Few(r)' PROVE Ordered(r)'
  BY DEF OrderInv
<1>1. UNCHANGED <<posted, deleted, base>>
  BY DEF Rebuild, webex
<1>2. Few(r) /\ Listed(r)' = Listed(r)
  BY <1>1, SameFew, SameMsgs
<1>3. AnchorInv(r)
  BY <1>2 DEF OrderInv, Ordered
<1>4. poller'[r].ids = << >> /\ ~Updated(r)' /\ emitted' = << >> /\ channel' = << >> /\ ~batch'[r].given
  BY DEF Rebuild, Discard, NewPoller, Updated, NoResult, Failed, NoPoints, NoPoint
<1>5. DOMAIN << >> = {}
  <2>1. << >> \in Seq({})
    OBVIOUS
  <2>2. DOMAIN << >> = 1 .. Len(<< >>) /\ Len(<< >>) = 0
    BY <2>1
  <2> QED  BY <2>2
<1>6. AnchorInv(r)'
  <2>1. durable'[r] = durable[r] \/ durable'[r] = batch[r]
    BY RebuildSaves
  <2> QED  BY <1>1, <1>2, <1>3, <1>4, <1>5, <2>1 DEF AnchorInv, Anchored
<1>7. NewInv(r)'
  BY <1>4, NoElems DEF NewInv, AllNew
<1>8. EmittedInv(r)'
  BY <1>4, <1>5 DEF EmittedInv
<1> QED  BY <1>6, <1>7, <1>8 DEF Ordered

\* At first nothing has been emitted.
LEMMA InitOrder == Init => OrderInv
<1> SUFFICES ASSUME Init, NEW r \in Room PROVE Ordered(r)
  BY DEF OrderInv
<1>1. /\ poller[r].ids = << >> /\ ~Updated(r) /\ emitted = << >> /\ channel = << >>
      /\ ~batch[r].given /\ ~durable[r].given
  BY DEF Init, NewPoller, Updated, NoResult, Failed, NoPoints, NoPoint
<1>2. DOMAIN << >> = {}
  <2>1. << >> \in Seq({})
    OBVIOUS
  <2>2. DOMAIN << >> = 1 .. Len(<< >>) /\ Len(<< >>) = 0
    BY <2>1
  <2> QED  BY <2>2
<1>3. AnchorInv(r)
  BY <1>1, <1>2 DEF AnchorInv, Anchored
<1>4. NewInv(r)
  BY <1>1, NoElems DEF NewInv, AllNew
<1>5. EmittedInv(r)
  BY <1>1, <1>2 DEF EmittedInv
<1> QED  BY <1>3, <1>4, <1>5 DEF Ordered

\* Every step keeps the order of the rooms with few messages deleted.
LEMMA NextOrder ==
    ASSUME SafeInv, OrderInv, [Next]_vars
    PROVE  OrderInv'
<1>0. TypeInv
  BY DEF SafeInv
<1>1. CASE Leave \/ (\E r \in Room : Post(r) \/ Join(r)) \/ \E m \in Msgs : Delete(m)
  BY <1>0, <1>1, WebexSteps, WebexOrder
<1>2. CASE \E r \in Room : PollRoom(r) \/ PollRoomFails(r)
  BY <1>2, PollSteps, PollOrder
<1>3. CASE RefreshRooms \/ Reseed \/ StartRefreshed \/ Start
  BY <1>3, RoomSteps, RoomsOrder
<1>4. CASE Finish
  BY <1>4, FinishOrder
<1>5. CASE Cancel
  BY <1>5, CancelOrder
<1>6. CASE HandleEvents
  BY <1>6, HandleOrder
<1>7. CASE SaveCheckpoints
  BY <1>7, SaveOrder
<1>8. CASE Rebuild
  BY <1>8, RebuildOrder
<1>9. CASE UNCHANGED vars
  <2>1. UNCHANGED <<posted, deleted, base, poller, points, results, emitted, channel, batch, durable>>
    BY <1>9 DEF vars
  <2>2. ASSUME NEW r \in Room, AnchorInv(r) PROVE AnchorInv(r)'
    <3>1. Listed(r)' = Listed(r)
      BY <2>1, SameMsgs
    <3> QED  BY <2>1, <2>2, <3>1 DEF AnchorInv, Anchored
  <2> QED  BY <2>1, <2>2, ConsumerOrder
<1> QED  BY <1>1, <1>2, <1>3, <1>4, <1>5, <1>6, <1>7, <1>8, <1>9 DEF Next

\* Both invariants hold in every state of every behaviour.
LEMMA OrderAlways == Spec => [](SafeInv /\ OrderInv)
<1>1. Init => SafeInv /\ OrderInv
  BY InitSafe, InitOrder
<1>2. SafeInv /\ OrderInv /\ [Next]_vars => (SafeInv /\ OrderInv)'
  BY NextSafe, NextOrder
<1> QED  BY <1>1, <1>2, PTL DEF Spec

\* A message emitted belongs to a room.
LEMMA EmittedRoom ==
    ASSUME SafeInv, OrderInv, \A r \in Room : Few(r), NEW i \in DOMAIN emitted
    PROVE  EmittedInv(posted[emitted[i]])
<1>1. emitted[i] \in Msgs /\ posted \in Seq(Room)
  BY DEF SafeInv, TypeInv
<1>2. posted[emitted[i]] \in Room
  BY <1>1 DEF Msgs
<1> QED  BY <1>2 DEF OrderInv, Ordered

\* The messages of a room leave poll_once in the order of their creation,
\* each once, as long as fewer of them have been deleted than its boundary
\* keeps: whatever polls fail, are cut off by their page limit or are held
\* back, and wherever checkpoints are handed over.
THEOREM OrderPerRoom == Spec => []((\A r \in Room : Few(r)) => RoomOrder)
<1>1. ASSUME SafeInv, OrderInv, \A r \in Room : Few(r) PROVE RoomOrder
  BY <1>1, EmittedRoom DEF EmittedInv, RoomOrder
<1>2. SafeInv /\ OrderInv => ((\A r \in Room : Few(r)) => RoomOrder)
  BY <1>1
<1> QED  BY <1>2, OrderAlways, PTL

\* Under the same condition no message from before the first baseline of its
\* room (collect_page_messages stops at the boundary) is emitted.
THEOREM HistoryStays == Spec => []((\A r \in Room : Few(r)) => NoHistory)
<1>1. ASSUME SafeInv, OrderInv, \A r \in Room : Few(r) PROVE NoHistory
  BY <1>1, EmittedRoom DEF EmittedInv, NoHistory
<1>2. SafeInv /\ OrderInv => ((\A r \in Room : Few(r)) => NoHistory)
  BY <1>1
<1> QED  BY <1>2, OrderAlways, PTL
====
