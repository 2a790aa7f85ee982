-------------------------- MODULE AccountBotProofs --------------------------
(***************************************************************************)
(* Proofs about AccountBot, for any number of messages, permits and        *)
(* remembered ids, and any timeouts and leases.                            *)
(***************************************************************************)
EXTENDS AccountBot, FiniteSetTheorems, TLAPS

\* What the store knows to be answered
Known(s) == Ids(s) \cup s.volatile

Full(q) == Len(q) = MaxIds

File == [order : Seq(Msg), attempts : [Msg -> Nat]]

StoreInv == /\ IsFiniteSet(mem.volatile)
            /\ Len(mem.order) <= MaxIds
            /\ Len(disk.order) <= MaxIds

\* The attempt of an active task has not expired, and cannot before the
\* timeouts have ended the task; its message is not known yet.
ActiveInv ==
    \A t \in Task : Active(t) =>
        /\ msg[t] \in Msg /\ msg[t] \notin Known(mem)
        /\ mem.attempts[msg[t]] > now
        /\ pc[t] \in {"hold", "send"} => now <= due[t] /\ mem.attempts[msg[t]] > due[t]
        /\ pc[t] = "hold" => mem.attempts[msg[t]] > due[t] + WebexTimeout

\* A reply the bot is accountable for is known, or its task is about to say so.
ReplyInv ==
    \A m \in Msg :
        /\ replies[m] <= 1
        /\ replies[m] # 0 => \/ m \in Known(mem)
                             \/ \E t \in Task : pc[t] = "send" /\ reply[t] = "accepted" /\ msg[t] = m

\* A reply whose outcome is not known is covered by a lease as long as the one
\* it was sent under, in memory and in the file, or by the list of ids.
Covered(m) == \/ Full(mem.order) \/ m \in Known(mem)
              \/ mem.attempts[m] >= unsure[m]

CoveredOnDisk(m) == \/ Full(disk.order) \/ m \in Ids(disk)
                    \/ disk.attempts[m] >= unsure[m]

UnsureInv ==
    /\ \A m \in Msg : unsure[m] > now => Covered(m) /\ CoveredOnDisk(m)
    /\ \A t \in Task : pc[t] \in {"hold", "drop"} => unsure[msg[t]] <= now \/ Full(mem.order)
    /\ \A t \in Task : pc[t] = "hold" => \/ Full(disk.order) \/ msg[t] \in Ids(disk)
                                         \/ disk.attempts[msg[t]] >= mem.attempts[msg[t]]

BotInv == TypeOK /\ StoreInv /\ MemoryIsDurable /\ ActiveInv /\ OneAttempt /\ ReplyInv /\ UnsureInv
-----------------------------------------------------------------------------
(***************************************************************************)
(* The list of ids.                                                        *)
(***************************************************************************)
Elements(q) == {q[i] : i \in DOMAIN q}

\* The list is cut down to max_ids, and only when it is longer.
LEMMA RecentFacts ==
    ASSUME NEW q \in Seq(Msg)
    PROVE  /\ Recent(q) \in Seq(Msg)
           /\ Len(Recent(q)) <= MaxIds
           /\ Len(q) >= MaxIds => Full(Recent(q))
           /\ Full(Recent(q)) \/ Recent(q) = q
           /\ Elements(Recent(q)) \subseteq Elements(q)
<1>0. Len(q) \in Nat /\ MaxIds \in Nat /\ MaxIds # 0
  BY MaxIdsAssumption
<1>1. CASE Len(q) > MaxIds
  <2> DEFINE r == SubSeq(q, Len(q) - MaxIds + 1, Len(q))
  <2>1. Recent(q) = r
    BY <1>1 DEF Recent
  <2>2. /\ r \in Seq(Msg) /\ Len(r) = MaxIds
        /\ \A i \in 1 .. Len(r) : r[i] = q[Len(q) - MaxIds + i] /\ Len(q) - MaxIds + i \in 1 .. Len(q)
    BY <1>0, <1>1
  <2> HIDE DEF r
  <2>3. Elements(r) \subseteq Elements(q)
    <3>1. DOMAIN r = 1 .. Len(r) /\ DOMAIN q = 1 .. Len(q)
      BY <2>2
    <3>2. ASSUME NEW i \in 1 .. Len(r) PROVE \E j \in 1 .. Len(q) : r[i] = q[j]
      BY <2>2
    <3> QED  BY <3>1, <3>2 DEF Elements
  <2> QED  BY <1>0, <2>1, <2>2, <2>3 DEF Full
<1>2. CASE Len(q) <= MaxIds
  BY <1>0, <1>2 DEF Recent, Full
<1> QED  BY <1>0, <1>1, <1>2

LEMMA ConcatFacts ==
    ASSUME NEW q \in Seq(Msg), NEW r \in Seq(Msg)
    PROVE  /\ q \o r \in Seq(Msg)
           /\ Len(q \o r) = Len(q) + Len(r)
           /\ Elements(q \o r) = Elements(q) \cup Elements(r)
<1> DEFINE k == q \o r
<1>1. /\ k \in Seq(Msg) /\ Len(k) = Len(q) + Len(r)
      /\ \A i \in 1 .. Len(q) : k[i] = q[i]
      /\ \A i \in 1 .. Len(r) : k[Len(q) + i] = r[i]
      /\ \A i \in 1 .. Len(k) : i > Len(q) => k[i] = r[i - Len(q)]
      /\ Len(q) \in Nat /\ Len(r) \in Nat
  OBVIOUS
<1> HIDE DEF k
<1>2. Elements(k) \subseteq Elements(q) \cup Elements(r)
  <2> SUFFICES ASSUME NEW i \in 1 .. Len(k) PROVE k[i] \in Elements(q) \cup Elements(r)
    BY <1>1 DEF Elements
  <2>1. CASE i <= Len(q)
    BY <1>1, <2>1 DEF Elements
  <2>2. CASE i > Len(q)
    <3>1. k[i] = r[i - Len(q)] /\ i - Len(q) \in 1 .. Len(r)
      BY <1>1, <2>2
    <3> QED  BY <3>1 DEF Elements
  <2> QED  BY <1>1, <2>1, <2>2
<1>3. Elements(q) \subseteq Elements(k)
  BY <1>1 DEF Elements
<1>4. Elements(r) \subseteq Elements(k)
  <2> SUFFICES ASSUME NEW i \in 1 .. Len(r) PROVE r[i] \in Elements(k)
    BY <1>1 DEF Elements
  <2>1. k[Len(q) + i] = r[i] /\ Len(q) + i \in 1 .. Len(k)
    BY <1>1
  <2>2. DOMAIN k = 1 .. Len(k)
    BY <1>1
  <2>3. k[Len(q) + i] \in Elements(k)
    BY <2>1, <2>2 DEF Elements
  <2> QED  BY <2>1, <2>3
<1> QED  BY <1>1, <1>2, <1>3, <1>4 DEF k

\* An id is remembered unless the list is full, and nothing is forgotten then.
LEMMA RememberFacts ==
    ASSUME NEW q \in Seq(Msg), NEW m \in Msg, Len(q) <= MaxIds
    PROVE  /\ Remember(q, m) \in Seq(Msg)
           /\ Len(Remember(q, m)) <= MaxIds
           /\ Elements(Remember(q, m)) \subseteq Elements(q) \cup {m}
           /\ Full(Remember(q, m)) \/ Elements(Remember(q, m)) = Elements(q) \cup {m}
           /\ Full(q) => Full(Remember(q, m))
<1>1. CASE \E i \in DOMAIN q : q[i] = m
  BY <1>1 DEF Remember, Elements
<1>2. CASE ~(\E i \in DOMAIN q : q[i] = m)
  <2>1. Remember(q, m) = Recent(Append(q, m))
    BY <1>2 DEF Remember
  <2>2. /\ Append(q, m) \in Seq(Msg)
        /\ Len(Append(q, m)) = Len(q) + 1
        /\ Len(q) \in Nat
    OBVIOUS
  <2>3. Elements(Append(q, m)) = Elements(q) \cup {m}
    <3>1. /\ DOMAIN Append(q, m) = 1 .. (Len(q) + 1) /\ DOMAIN q = 1 .. Len(q)
          /\ \A i \in 1 .. Len(q) : Append(q, m)[i] = q[i]
          /\ Append(q, m)[Len(q) + 1] = m
          /\ 1 .. (Len(q) + 1) = (1 .. Len(q)) \cup {Len(q) + 1}
      BY <2>2
    <3> QED  BY <3>1 DEF Elements
  <2>4. Full(q) => Len(Append(q, m)) >= MaxIds
    BY <2>2, MaxIdsAssumption DEF Full
  <2> QED  BY <2>1, <2>2, <2>3, <2>4, RecentFacts
<1> QED  BY <1>1, <1>2

\* What was just remembered is in the list, even if the list is full.
LEMMA RememberLast ==
    ASSUME NEW q \in Seq(Msg), NEW m \in Msg
    PROVE  m \in Elements(Remember(q, m))
<1>1. CASE \E i \in DOMAIN q : q[i] = m
  BY <1>1 DEF Remember, Elements
<1>2. CASE ~(\E i \in DOMAIN q : q[i] = m)
  <2> DEFINE k == Append(q, m)
  <2>0. Len(q) \in Nat /\ MaxIds \in Nat /\ MaxIds # 0
    BY MaxIdsAssumption
  <2>1. k \in Seq(Msg) /\ Len(k) = Len(q) + 1 /\ k[Len(k)] = m /\ DOMAIN k = 1 .. Len(k)
    OBVIOUS
  <2>2. Remember(q, m) = IF Len(k) > MaxIds THEN SubSeq(k, Len(k) - MaxIds + 1, Len(k)) ELSE k
    BY <1>2 DEF Remember, Recent
  <2> HIDE DEF k
  <2>3. CASE Len(k) > MaxIds
    <3> DEFINE r == SubSeq(k, Len(k) - MaxIds + 1, Len(k))
    <3>1. DOMAIN r = 1 .. MaxIds /\ r[MaxIds] = k[Len(k)]
      BY <2>0, <2>1, <2>3
    <3> HIDE DEF r
    <3>2. m \in Elements(r)
      BY <2>0, <2>1, <3>1 DEF Elements
    <3> QED  BY <2>2, <2>3, <3>2 DEF r
  <2>4. CASE ~(Len(k) > MaxIds)
    <3>1. Len(k) \in DOMAIN k
      BY <2>0, <2>1
    <3> QED  BY <2>1, <2>2, <2>4, <3>1 DEF Elements
  <2> QED  BY <2>3, <2>4
<1> QED  BY <1>1, <1>2

\* An arrangement of a finite set lists all of it.
LEMMA ArrangementFacts ==
    ASSUME NEW S \in SUBSET Msg, IsFiniteSet(S), NEW q \in Arrangements(S)
    PROVE  q \in Seq(Msg) /\ Elements(q) = S
<1> DEFINE n == Cardinality(S)
<1>1. n \in Nat /\ IsFiniteSet(1 .. n) /\ Cardinality(1 .. n) = n
  BY FS_CardinalityType, FS_Interval
<1>2. q \in [1 .. n -> S] /\ \A i, j \in DOMAIN q : i # j => q[i] # q[j]
  BY DEF Arrangements
<1> HIDE DEF n
<1>3. q \in Injection(1 .. n, S)
  BY <1>2 DEF Injection, IsInjective
<1>4. q \in Surjection(1 .. n, S)
  BY <1>1, <1>3, FS_Injection DEF n
<1>5. Elements(q) = S
  BY <1>2, <1>4 DEF Elements, Surjection
<1>6. q \in Seq(Msg)
  BY <1>1, <1>2
<1> QED  BY <1>5, <1>6
-----------------------------------------------------------------------------
(***************************************************************************)
(* The store.                                                              *)
(***************************************************************************)
\* s is what an operation on the attempt of message x makes of the store: it
\* keeps the attempts of the others, and what is known unless the list is full.
StoreOp(s, x) ==
    /\ s \in Stores
    /\ IsFiniteSet(s.volatile)
    /\ Len(s.order) <= MaxIds
    /\ \A m \in Msg \ {x} : m \notin Known(mem) /\ mem.attempts[m] > now =>
                             s.attempts[m] = mem.attempts[m]
    /\ Known(s) \subseteq Known(mem) \cup {x}
    /\ Full(mem.order) => Full(s.order)
    /\ Full(s.order) \/ (Ids(mem) \subseteq Ids(s) /\ Known(mem) \subseteq Known(s))

\* The messages told are in the list of s, and no longer volatile.
Heard(s, told) == told # {} => told \subseteq Ids(s) /\ s.volatile = mem.volatile \ told

\* What the store and the file are after such an operation, with the messages
\* told that it was told about.
StoreMove(x, told) ==
    /\ mem' \in Stores /\ disk' \in File
    /\ StoreInv' /\ MemoryIsDurable'
    /\ \A m \in Msg \ {x} : m \notin Known(mem) /\ mem.attempts[m] > now =>
                             mem'.attempts[m] = mem.attempts[m]
    /\ Known(mem') \subseteq Known(mem) \cup {x}
    /\ Full(mem.order) => Full(mem'.order)
    /\ Full(mem'.order) \/ Known(mem) \cup told \subseteq Known(mem')
    /\ mem.volatile \ told # {} \/ told \subseteq Known(mem')
    /\ \/ disk' = disk
       \/ /\ \A m \in Msg \ {x} : m \notin Known(mem) /\ mem.attempts[m] > now =>
                                   disk'.attempts[m] = mem.attempts[m]
          /\ Full(mem.order) => Full(disk'.order)
          /\ Full(disk'.order) \/ Known(mem) \cup told \subseteq Ids(disk')

\* absorb_volatile_ids: what was volatile is in the list, without an attempt.
LEMMA AbsorbFacts ==
    ASSUME NEW s \in Stores, IsFiniteSet(s.volatile), NEW a \in Absorb(s)
    PROVE  /\ a \in Stores /\ a.volatile = {}
           /\ Len(a.order) <= MaxIds
           /\ Len(s.order) >= MaxIds => Full(a.order)
           /\ Known(a) = Ids(a) /\ Ids(a) \subseteq Known(s)
           /\ Full(a.order) \/ Ids(a) = Known(s)
           /\ \A m \in Msg : m \notin s.volatile => a.attempts[m] = s.attempts[m]
<1>0. s.order \in Seq(Msg) /\ s.volatile \in SUBSET Msg /\ s.attempts \in [Msg -> Nat]
      /\ s.inflight \in SUBSET Msg
  BY DEF Stores
<1>1. PICK q \in Arrangements(s.volatile \ Ids(s)) :
        a = [Lapse(s, s.volatile) EXCEPT !.order = Recent(@ \o q), !.volatile = {}]
  BY DEF Absorb
<1>2. IsFiniteSet(s.volatile \ Ids(s)) /\ s.volatile \ Ids(s) \in SUBSET Msg
  BY <1>0, FS_Subset
<1>3. q \in Seq(Msg) /\ Elements(q) = s.volatile \ Ids(s)
  BY <1>2, ArrangementFacts
<1>4. /\ a.order = Recent(s.order \o q) /\ a.volatile = {}
      /\ a.inflight = s.inflight \ s.volatile
      /\ a.attempts = [m \in Msg |-> IF m \in s.volatile THEN 0 ELSE s.attempts[m]]
      /\ a = [order |-> a.order, attempts |-> a.attempts, inflight |-> a.inflight,
              volatile |-> a.volatile]
  BY <1>0, <1>1 DEF Lapse, Stores
<1>5. /\ s.order \o q \in Seq(Msg)
      /\ Len(s.order \o q) = Len(s.order) + Len(q)
      /\ Elements(s.order \o q) = Elements(s.order) \cup Elements(q)
  BY <1>0, <1>3, ConcatFacts
<1>6. /\ Recent(s.order \o q) \in Seq(Msg)
      /\ Len(Recent(s.order \o q)) <= MaxIds
      /\ Len(s.order \o q) >= MaxIds => Full(Recent(s.order \o q))
      /\ Full(Recent(s.order \o q)) \/ Recent(s.order \o q) = s.order \o q
      /\ Elements(Recent(s.order \o q)) \subseteq Elements(s.order \o q)
  BY <1>5, RecentFacts
<1>7. a \in Stores
  BY <1>0, <1>4, <1>6 DEF Stores
<1>8. Len(s.order) >= MaxIds => Full(a.order)
  <2>1. Len(s.order) \in Nat /\ Len(q) \in Nat /\ MaxIds \in Nat
    BY <1>0, <1>3, MaxIdsAssumption
  <2> QED  BY <1>4, <1>5, <1>6, <2>1
<1>9. Ids(s) = Elements(s.order) /\ Ids(a) = Elements(a.order)
  BY DEF Ids, Elements
<1>10. Known(a) = Ids(a) /\ Ids(a) \subseteq Known(s) /\ (Full(a.order) \/ Ids(a) = Known(s))
  <2>1. a.volatile = {} /\ a.order = Recent(s.order \o q)
    BY <1>4
  <2>2. Elements(s.order \o q) = Known(s)
    BY <1>3, <1>5, <1>9 DEF Known
  <2>3. Known(a) = Ids(a)
    BY <2>1 DEF Known
  <2> QED  BY <1>6, <1>9, <2>1, <2>2, <2>3
<1> QED  BY <1>4, <1>6, <1>7, <1>8, <1>10

\* Without volatile ids the list stays as it is.
LEMMA AbsorbNothing ==
    ASSUME NEW s \in Stores, s.volatile = {}, Len(s.order) <= MaxIds, NEW a \in Absorb(s)
    PROVE  a.order = s.order
<1>0. s.order \in Seq(Msg) /\ Len(s.order) \in Nat /\ MaxIds \in Nat
  BY MaxIdsAssumption DEF Stores
<1>1. PICK q \in Arrangements(s.volatile \ Ids(s)) :
        a = [Lapse(s, s.volatile) EXCEPT !.order = Recent(@ \o q), !.volatile = {}]
  BY DEF Absorb
<1>2. q \in [1 .. Cardinality({}) -> {}] /\ Cardinality({}) = 0
  <2>1. s.volatile \ Ids(s) = {}
    OBVIOUS
  <2> QED  BY <1>1, <2>1, FS_EmptySet DEF Arrangements
<1>3. q = <<>>
  BY <1>2
<1>4. s.order \o q = s.order /\ Recent(s.order) = s.order
  BY <1>0, <1>3 DEF Recent
<1> QED  BY <1>1, <1>4 DEF Lapse, Stores

\* A successful persist.
LEMMA PersistMove ==
    ASSUME BotInv, NEW s, NEW x, NEW told, StoreOp(s, x), Persist(s), Heard(s, told)
    PROVE  /\ StoreMove(x, told)
           /\ disk'.order = mem'.order /\ disk'.attempts = mem'.attempts
           /\ Known(mem') \subseteq Known(s)
           /\ \A m \in Msg : m \notin s.volatile => mem'.attempts[m] = s.attempts[m]
<1>1. PICK a \in Absorb(s) : mem' = a /\ disk' = Saved(a)
  BY DEF Persist
<1>2. s \in Stores /\ IsFiniteSet(s.volatile)
  BY DEF StoreOp
<1>3. /\ a \in Stores /\ a.volatile = {}
      /\ Len(a.order) <= MaxIds
      /\ Len(s.order) >= MaxIds => Full(a.order)
      /\ Known(a) = Ids(a) /\ Ids(a) \subseteq Known(s)
      /\ Full(a.order) \/ Ids(a) = Known(s)
      /\ \A m \in Msg : m \notin s.volatile => a.attempts[m] = s.attempts[m]
  BY <1>2, AbsorbFacts
<1>4. /\ disk'.order = a.order /\ disk'.attempts = a.attempts
      /\ disk' \in File /\ Ids(disk') = Ids(a)
  BY <1>1, <1>3 DEF Saved, Stores, File, Ids
<1>5. StoreInv' /\ MemoryIsDurable'
  BY <1>1, <1>3, <1>4, FS_EmptySet DEF StoreInv, MemoryIsDurable
<1>6. Full(s.order) => Full(a.order)
  BY <1>2, <1>3, MaxIdsAssumption DEF Full
<1>t. told \subseteq Known(s)
  BY DEF Heard, Known
<1>7. /\ \A m \in Msg \ {x} : m \notin Known(mem) /\ mem.attempts[m] > now =>
                               a.attempts[m] = mem.attempts[m]
      /\ Known(a) \subseteq Known(mem) \cup {x}
      /\ Full(mem.order) => Full(a.order)
      /\ Full(a.order) \/ Known(mem) \cup told \subseteq Known(a)
  BY <1>t, <1>3, <1>6 DEF StoreOp, Known
<1>8. mem.volatile \ told # {} \/ told \subseteq Known(a)
  <2> SUFFICES ASSUME mem.volatile \ told = {}, told # {} PROVE told \subseteq Known(a)
    OBVIOUS
  <2>1. s.volatile = {} /\ told \subseteq Ids(s) /\ Len(s.order) <= MaxIds
    BY DEF Heard, StoreOp
  <2>2. a.order = s.order
    BY <1>2, <2>1, AbsorbNothing
  <2> QED  BY <2>1, <2>2 DEF Ids, Known
<1> QED  BY <1>1, <1>3, <1>4, <1>5, <1>7, <1>8 DEF StoreMove

\* A failed persist, after which the store is old.  The file is the one from
\* before, or holds what was to be written.
LEMMA PersistFailsMove ==
    ASSUME BotInv, NEW s, NEW old, NEW x, NEW told, StoreOp(s, x), StoreOp(old, x),
           PersistFails(s, old),
           old.order = mem.order, mem.volatile \subseteq old.volatile,
           Heard(s, told), told \subseteq Known(old)
    PROVE  StoreMove(x, told) /\ mem' = old
<1>0. mem' = old
  BY DEF PersistFails
<1>1. s \in Stores /\ IsFiniteSet(s.volatile) /\ old \in Stores /\ IsFiniteSet(old.volatile)
  BY DEF StoreOp
<1>2. Ids(old) = Ids(mem) /\ Known(mem) \subseteq Known(old)
  BY DEF Ids, Known
<1>3. /\ \A m \in Msg \ {x} : m \notin Known(mem) /\ mem.attempts[m] > now =>
                               mem'.attempts[m] = mem.attempts[m]
      /\ Known(mem') \subseteq Known(mem) \cup {x}
      /\ Full(mem.order) => Full(mem'.order)
      /\ Known(mem) \cup told \subseteq Known(mem')
      /\ mem' \in Stores /\ IsFiniteSet(mem'.volatile) /\ Len(mem'.order) <= MaxIds
  BY <1>0, <1>2 DEF StoreOp
<1>4. CASE disk' = disk
  <2>1. disk' \in File /\ StoreInv' /\ MemoryIsDurable'
    BY <1>0, <1>2, <1>3, <1>4 DEF BotInv, TypeOK, File, StoreInv, MemoryIsDurable
  <2> QED  BY <1>0, <1>3, <1>4, <2>1 DEF StoreMove
<1>5. CASE \E a \in Absorb(s) : disk' = Saved(a)
  <2>1. PICK a \in Absorb(s) : disk' = Saved(a)
    BY <1>5
  <2>2. /\ a \in Stores /\ a.volatile = {}
        /\ Len(a.order) <= MaxIds
        /\ Len(s.order) >= MaxIds => Full(a.order)
        /\ Known(a) = Ids(a) /\ Ids(a) \subseteq Known(s)
        /\ Full(a.order) \/ Ids(a) = Known(s)
        /\ \A m \in Msg : m \notin s.volatile => a.attempts[m] = s.attempts[m]
    BY <1>1, AbsorbFacts
  <2>3. /\ disk'.order = a.order /\ disk'.attempts = a.attempts
        /\ disk' \in File /\ Ids(disk') = Ids(a)
    BY <2>1, <2>2 DEF Saved, Stores, File, Ids
  <2>4. Full(s.order) => Full(a.order)
    BY <1>1, <2>2, MaxIdsAssumption DEF Full
  <2>t. told \subseteq Known(s)
    BY DEF Heard, Known
  <2>5. /\ \A m \in Msg \ {x} : m \notin Known(mem) /\ mem.attempts[m] > now =>
                                 a.attempts[m] = mem.attempts[m]
        /\ Full(mem.order) => Full(a.order)
        /\ Full(a.order) \/ Known(mem) \cup told \subseteq Ids(a)
    BY <2>t, <2>2, <2>4 DEF StoreOp, Known
  <2>6. StoreInv' /\ MemoryIsDurable'
    <3>1. Len(disk'.order) < MaxIds => ~Full(a.order)
      BY <2>2, <2>3, MaxIdsAssumption DEF Full
    <3>2. MemoryIsDurable'
      BY <1>0, <1>2, <2>3, <2>5, <3>1 DEF MemoryIsDurable, Known
    <3> QED  BY <1>3, <2>2, <2>3, <3>2 DEF StoreInv
  <2> QED  BY <1>0, <1>3, <2>3, <2>5, <2>6 DEF StoreMove
<1> QED  BY <1>4, <1>5 DEF PersistFails

\* What the operations do to the parts of a store.
LEMMA PruneFacts ==
    ASSUME NEW s \in Stores, now \in Nat
    PROVE  /\ Prune(s) \in Stores
           /\ Prune(s).order = s.order /\ Prune(s).volatile = s.volatile
           /\ Prune(s).inflight \subseteq s.inflight
           /\ \A m \in Msg : Prune(s).attempts[m] = IF s.attempts[m] > now THEN s.attempts[m] ELSE 0
<1> DEFINE e == {m \in Msg : s.attempts[m] # 0 /\ s.attempts[m] <= now}
<1>1. Prune(s) = [s EXCEPT !.attempts = [m \in Msg |-> IF m \in e THEN 0 ELSE s.attempts[m]],
                           !.inflight = s.inflight \ e]
  BY DEF Prune
<1>2. \A m \in Msg : m \in e <=> s.attempts[m] # 0 /\ s.attempts[m] <= now
  OBVIOUS
<1> HIDE DEF e
<1>3. \A m \in Msg : s.attempts[m] \in Nat
  BY DEF Stores
<1>4. Prune(s) = [order |-> s.order,
                  attempts |-> [m \in Msg |-> IF m \in e THEN 0 ELSE s.attempts[m]],
                  inflight |-> s.inflight \ e, volatile |-> s.volatile]
  BY <1>1 DEF Stores
<1>5. [m \in Msg |-> IF m \in e THEN 0 ELSE s.attempts[m]] \in [Msg -> Nat]
  BY <1>3
<1>6. \A m \in Msg : (IF m \in e THEN 0 ELSE s.attempts[m])
                        = IF s.attempts[m] > now THEN s.attempts[m] ELSE 0
  BY <1>2, <1>3
<1> QED  BY <1>4, <1>5, <1>6 DEF Stores

LEMMA LapseFacts ==
    ASSUME NEW s \in Stores, NEW ms
    PROVE  /\ Lapse(s, ms) \in Stores
           /\ Lapse(s, ms).order = s.order /\ Lapse(s, ms).volatile = s.volatile
           /\ \A m \in Msg : Lapse(s, ms).attempts[m] = IF m \in ms THEN 0 ELSE s.attempts[m]
BY DEF Lapse, Stores

LEMMA CompleteFacts ==
    ASSUME NEW s \in Stores, NEW m \in Msg, now \in Nat, Len(s.order) <= MaxIds
    PROVE  /\ Complete(s, m) \in Stores
           /\ Complete(s, m).order = Remember(s.order, m)
           /\ Complete(s, m).volatile = s.volatile \ {m}
           /\ \A k \in Msg \ {m} : s.attempts[k] > now => Complete(s, m).attempts[k] = s.attempts[k]
<1> DEFINE p == Prune(s)
           l == Lapse(p, {m})
<1>1. /\ p \in Stores /\ p.order = s.order /\ p.volatile = s.volatile
      /\ \A k \in Msg : p.attempts[k] = IF s.attempts[k] > now THEN s.attempts[k] ELSE 0
  BY PruneFacts
<1> HIDE DEF p
<1>2. /\ l \in Stores /\ l.order = p.order /\ l.volatile = p.volatile
      /\ \A k \in Msg : l.attempts[k] = IF k \in {m} THEN 0 ELSE p.attempts[k]
  BY <1>1, LapseFacts
<1>3. Complete(s, m) = [l EXCEPT !.order = Remember(l.order, m), !.volatile = l.volatile \ {m}]
  BY DEF Complete, p
<1> HIDE DEF l
<1>4. s.order \in Seq(Msg)
  BY DEF Stores
<1>5. Remember(s.order, m) \in Seq(Msg)
  BY <1>4, RememberFacts
<1>6. Complete(s, m) = [order |-> Remember(s.order, m), attempts |-> l.attempts,
                        inflight |-> l.inflight, volatile |-> s.volatile \ {m}]
  <2>1. l \in Stores
    BY <1>2
  <2>2. Complete(s, m) = [order |-> Remember(l.order, m), attempts |-> l.attempts,
                          inflight |-> l.inflight, volatile |-> l.volatile \ {m}]
    BY <1>3, <2>1 DEF Stores
  <2>3. l.order = s.order /\ l.volatile = s.volatile
    BY <1>1, <1>2
  <2> QED  BY <2>2, <2>3
<1>7. Complete(s, m) \in Stores
  BY <1>1, <1>2, <1>5, <1>6 DEF Stores
<1> QED  BY <1>1, <1>2, <1>6, <1>7

LEMMA MarkVolatileFacts ==
    ASSUME NEW s \in Stores, NEW m \in Msg, now \in Nat
    PROVE  /\ MarkVolatile(s, m) \in Stores
           /\ MarkVolatile(s, m).order = s.order
           /\ MarkVolatile(s, m).volatile = s.volatile \cup {m}
           /\ \A k \in Msg \ {m} : s.attempts[k] > now => MarkVolatile(s, m).attempts[k] = s.attempts[k]
<1> DEFINE p == Prune(s)
           l == Lapse(p, {m})
<1>1. /\ p \in Stores /\ p.order = s.order /\ p.volatile = s.volatile
      /\ \A k \in Msg : p.attempts[k] = IF s.attempts[k] > now THEN s.attempts[k] ELSE 0
  BY PruneFacts
<1> HIDE DEF p
<1>2. /\ l \in Stores /\ l.order = p.order /\ l.volatile = p.volatile
      /\ \A k \in Msg : l.attempts[k] = IF k \in {m} THEN 0 ELSE p.attempts[k]
  BY <1>1, LapseFacts
<1>3. MarkVolatile(s, m) = [l EXCEPT !.volatile = l.volatile \cup {m}]
  BY DEF MarkVolatile, p
<1> HIDE DEF l
<1>4. MarkVolatile(s, m) = [order |-> s.order, attempts |-> l.attempts,
                            inflight |-> l.inflight, volatile |-> s.volatile \cup {m}]
  BY <1>1, <1>2, <1>3 DEF Stores
<1> QED  BY <1>1, <1>2, <1>4 DEF Stores

\* Start and Postpone are alike: the attempt of m ends d seconds from now.
Leased(s, m, d, i) ==
    [order |-> Prune(s).order, attempts |-> [Prune(s).attempts EXCEPT ![m] = now + d],
     inflight |-> i, volatile |-> Prune(s).volatile]

LEMMA LeaseFacts ==
    ASSUME NEW s \in Stores, NEW m \in Msg, now \in Nat, NEW d \in Nat, NEW i \in SUBSET Msg
    PROVE  /\ Leased(s, m, d, i) \in Stores
           /\ Leased(s, m, d, i).order = s.order /\ Leased(s, m, d, i).volatile = s.volatile
           /\ Leased(s, m, d, i).attempts[m] = now + d
           /\ \A k \in Msg \ {m} : s.attempts[k] > now =>
                                   Leased(s, m, d, i).attempts[k] = s.attempts[k]
<1> DEFINE p == Prune(s)
           r == Leased(s, m, d, i)
<1>1. /\ p \in Stores /\ p.order = s.order /\ p.volatile = s.volatile
      /\ \A k \in Msg : p.attempts[k] = IF s.attempts[k] > now THEN s.attempts[k] ELSE 0
  BY PruneFacts
<1>2. /\ r.order = p.order /\ r.volatile = p.volatile /\ r.inflight = i
      /\ r.attempts = [p.attempts EXCEPT ![m] = now + d]
      /\ r = [order |-> r.order, attempts |-> r.attempts, inflight |-> r.inflight,
              volatile |-> r.volatile]
  BY DEF Leased
<1> HIDE DEF p, r
<1>3. p.attempts \in [Msg -> Nat] /\ now + d \in Nat
  BY <1>1 DEF Stores
<1>4. /\ r.attempts \in [Msg -> Nat] /\ r.attempts[m] = now + d
      /\ \A k \in Msg \ {m} : r.attempts[k] = p.attempts[k]
  BY <1>2, <1>3
<1>5. r \in Stores
  BY <1>1, <1>2, <1>4 DEF Stores
<1> QED  BY <1>1, <1>2, <1>4, <1>5 DEF r

LEMMA InflightForm ==
    ASSUME NEW p \in Stores, NEW i
    PROVE  [p EXCEPT !.inflight = i] = [order |-> p.order, attempts |-> p.attempts,
                                        inflight |-> i, volatile |-> p.volatile]
BY DEF Stores

LEMMA StartFacts ==
    ASSUME NEW s \in Stores, NEW m \in Msg, now \in Nat
    PROVE  /\ Start(s, m) \in Stores
           /\ Start(s, m).order = s.order /\ Start(s, m).volatile = s.volatile
           /\ Start(s, m).attempts[m] = now + Lease
           /\ \A k \in Msg \ {m} : s.attempts[k] > now => Start(s, m).attempts[k] = s.attempts[k]
<1> DEFINE p == Prune(s)
           i == p.inflight \cup {m}
           q == [p EXCEPT !.inflight = i]
<1>1. p \in Stores
  BY PruneFacts
<1>2. i \in SUBSET Msg /\ Lease \in Nat
  BY <1>1, TimeAssumption DEF Stores
<1>3. Start(s, m) = [q EXCEPT !.attempts = [q.attempts EXCEPT ![m] = now + Lease]]
  BY DEF Start, Expiry
<1> HIDE DEF p
<1> HIDE DEF i
<1>4. q = [order |-> p.order, attempts |-> p.attempts, inflight |-> i, volatile |-> p.volatile]
  BY <1>1, InflightForm
<1> HIDE DEF q
<1>5. Start(s, m) = [order |-> p.order, attempts |-> [p.attempts EXCEPT ![m] = now + Lease],
                inflight |-> i, volatile |-> p.volatile]
  BY <1>3, <1>4
<1>6. Start(s, m) = Leased(s, m, Lease, i)
  BY <1>5 DEF Leased, p
<1> QED  BY <1>2, <1>6, LeaseFacts

LEMMA PostponeFacts ==
    ASSUME NEW s \in Stores, NEW m \in Msg, now \in Nat, NEW d \in Nat
    PROVE  /\ Postpone(s, m, d) \in Stores
           /\ Postpone(s, m, d).order = s.order /\ Postpone(s, m, d).volatile = s.volatile
           /\ Postpone(s, m, d).attempts[m] = now + d
           /\ \A k \in Msg \ {m} : s.attempts[k] > now => Postpone(s, m, d).attempts[k] = s.attempts[k]
<1> DEFINE p == Prune(s)
           i == p.inflight \ {m}
           q == [p EXCEPT !.inflight = i]
<1>1. p \in Stores
  BY PruneFacts
<1>2. i \in SUBSET Msg /\ d \in Nat
  BY <1>1, TimeAssumption DEF Stores
<1>3. Postpone(s, m, d) = [q EXCEPT !.attempts = [q.attempts EXCEPT ![m] = now + d]]
  BY DEF Postpone, Expiry
<1> HIDE DEF p
<1> HIDE DEF i
<1>4. q = [order |-> p.order, attempts |-> p.attempts, inflight |-> i, volatile |-> p.volatile]
  BY <1>1, InflightForm
<1> HIDE DEF q
<1>5. Postpone(s, m, d) = [order |-> p.order, attempts |-> [p.attempts EXCEPT ![m] = now + d],
                inflight |-> i, volatile |-> p.volatile]
  BY <1>3, <1>4
<1>6. Postpone(s, m, d) = Leased(s, m, d, i)
  BY <1>5 DEF Leased, p
<1> QED  BY <1>2, <1>6, LeaseFacts

\* An operation that keeps the list and the volatile ids.
LEMMA SameIdsOp ==
    ASSUME BotInv, NEW s \in Stores, NEW x,
           s.order = mem.order, s.volatile = mem.volatile,
           \A k \in Msg \ {x} : mem.attempts[k] > now => s.attempts[k] = mem.attempts[k]
    PROVE  StoreOp(s, x)
<1>1. Ids(s) = Ids(mem) /\ Known(s) = Known(mem)
  BY DEF Ids, Known
<1> QED  BY <1>1 DEF StoreOp, BotInv, StoreInv

LEMMA CompleteOp ==
    ASSUME BotInv, NEW s \in Stores, NEW m \in Msg,
           s.order = mem.order, s.volatile = mem.volatile,
           \A k \in Msg : mem.attempts[k] > now => s.attempts[k] = mem.attempts[k]
    PROVE  /\ StoreOp(Complete(s, m), m)
           /\ Heard(Complete(s, m), {m})
<1> DEFINE r == Complete(s, m)
<1>0. now \in Nat /\ mem \in Stores /\ IsFiniteSet(mem.volatile) /\ Len(mem.order) <= MaxIds
      /\ s.order \in Seq(Msg)
  BY DEF BotInv, TypeOK, StoreInv, Stores
<1>1. /\ r \in Stores /\ r.order = Remember(mem.order, m) /\ r.volatile = mem.volatile \ {m}
      /\ \A k \in Msg \ {m} : s.attempts[k] > now => r.attempts[k] = s.attempts[k]
  BY <1>0, CompleteFacts
<1> HIDE DEF r
<1>2. /\ Len(r.order) <= MaxIds
      /\ Elements(r.order) \subseteq Elements(mem.order) \cup {m}
      /\ Full(r.order) \/ Elements(r.order) = Elements(mem.order) \cup {m}
      /\ Full(mem.order) => Full(r.order)
  BY <1>0, <1>1, RememberFacts
<1>3. Ids(r) = Elements(r.order) /\ Ids(mem) = Elements(mem.order)
  BY DEF Ids, Elements
<1>4. IsFiniteSet(r.volatile)
  <2>1. IsFiniteSet(mem.volatile \ {m})
    BY <1>0, FS_RemoveElement
  <2> QED  BY <1>1, <2>1
<1>5. /\ Known(r) \subseteq Known(mem) \cup {m}
      /\ Full(r.order) \/ (Ids(mem) \subseteq Ids(r) /\ Known(mem) \subseteq Known(r) /\ m \in Known(r))
  BY <1>1, <1>2, <1>3 DEF Known
<1>6. \A k \in Msg \ {m} : k \notin Known(mem) /\ mem.attempts[k] > now => r.attempts[k] = mem.attempts[k]
  BY <1>1
<1>7. Heard(r, {m})
  <2>1. m \in Ids(r)
    BY <1>0, <1>1, <1>3, RememberLast
  <2> QED  BY <1>1, <2>1 DEF Heard
<1>8. StoreOp(r, m)
  BY <1>1, <1>2, <1>4, <1>5, <1>6 DEF StoreOp
<1> QED  BY <1>7, <1>8 DEF r

LEMMA MarkVolatileOp ==
    ASSUME BotInv, NEW m \in Msg
    PROVE  /\ StoreOp(MarkVolatile(mem, m), m)
           /\ m \in Known(MarkVolatile(mem, m))
           /\ MarkVolatile(mem, m).order = mem.order
           /\ mem.volatile \subseteq MarkVolatile(mem, m).volatile
<1> DEFINE r == MarkVolatile(mem, m)
<1>0. now \in Nat /\ mem \in Stores /\ IsFiniteSet(mem.volatile) /\ Len(mem.order) <= MaxIds
  BY DEF BotInv, TypeOK, StoreInv
<1>1. /\ r \in Stores /\ r.order = mem.order /\ r.volatile = mem.volatile \cup {m}
      /\ \A k \in Msg \ {m} : mem.attempts[k] > now => r.attempts[k] = mem.attempts[k]
  BY <1>0, MarkVolatileFacts
<1> HIDE DEF r
<1>2. Ids(r) = Ids(mem) /\ Known(r) = Known(mem) \cup {m}
  BY <1>1 DEF Ids, Known
<1>3. IsFiniteSet(r.volatile)
  <2>1. IsFiniteSet(mem.volatile \cup {m})
    BY <1>0, FS_AddElement
  <2> QED  BY <1>1, <2>1
<1>4. StoreOp(r, m)
  BY <1>0, <1>1, <1>2, <1>3 DEF StoreOp
<1> QED  BY <1>1, <1>2, <1>4 DEF r

\* The operations of the store, as the actions use them
LEMMA StoreOps ==
    ASSUME BotInv
    PROVE  /\ \A x : StoreOp(mem, x) /\ StoreOp(Prune(mem), x)
           /\ \A m \in Msg : StoreOp(Lapse(mem, {m}), m) /\ StoreOp(Start(mem, m), m)
           /\ \A m \in Msg, d \in Nat : StoreOp(Postpone(mem, m, d), m)
           /\ \A m \in Msg : StoreOp(Complete(mem, m), m) /\ StoreOp(Complete(Prune(mem), m), m)
<1>0. now \in Nat /\ mem \in Stores /\ Lease \in Nat
  BY TimeAssumption DEF BotInv, TypeOK
<1>1. /\ Prune(mem) \in Stores /\ Prune(mem).order = mem.order
      /\ Prune(mem).volatile = mem.volatile
      /\ Prune(mem).inflight \in SUBSET Msg
      /\ \A k \in Msg : mem.attempts[k] > now => Prune(mem).attempts[k] = mem.attempts[k]
  BY <1>0, PruneFacts DEF Stores
<1>2. ASSUME NEW x PROVE StoreOp(mem, x) /\ StoreOp(Prune(mem), x)
  BY <1>0, <1>1, SameIdsOp
<1>3. ASSUME NEW m \in Msg PROVE StoreOp(Lapse(mem, {m}), m)
  <2>1. /\ Lapse(mem, {m}) \in Stores
        /\ Lapse(mem, {m}).order = mem.order /\ Lapse(mem, {m}).volatile = mem.volatile
        /\ \A k \in Msg : Lapse(mem, {m}).attempts[k] = IF k \in {m} THEN 0 ELSE mem.attempts[k]
    BY <1>0, LapseFacts
  <2> QED  BY <2>1, SameIdsOp
<1>4. ASSUME NEW m \in Msg PROVE StoreOp(Start(mem, m), m)
  BY <1>0, StartFacts, SameIdsOp
<1>5. ASSUME NEW m \in Msg, NEW d \in Nat PROVE StoreOp(Postpone(mem, m, d), m)
  BY <1>0, PostponeFacts, SameIdsOp
<1>6. ASSUME NEW m \in Msg
      PROVE  StoreOp(Complete(mem, m), m) /\ StoreOp(Complete(Prune(mem), m), m)
  BY <1>0, <1>1, CompleteOp
<1> QED  BY <1>2, <1>3, <1>4, <1>5, <1>6
-----------------------------------------------------------------------------
(***************************************************************************)
(* The tasks.                                                              *)
(***************************************************************************)
\* A reply that stays counted is of a message that stays known.
LEMMA CountFacts ==
    ASSUME NEW x, NEW told, NEW c, NEW u, StoreMove(x, told), Count(c, u, told)
    PROVE  /\ unsure' = u
           /\ \A m \in Msg : replies'[m] \in {0, c[m]}
           /\ \A m \in Msg : replies'[m] # 0 /\ m \in Known(mem) \cup told => m \in Known(mem')
<1>1. \A m \in Msg : replies'[m] = IF m \in Evicted(told) THEN 0 ELSE c[m]
  BY DEF Count
<1>2. unsure' = u
  BY DEF Count
<1>3. Full(mem'.order) \/ Known(mem) \cup told \subseteq Known(mem')
  BY DEF StoreMove
<1>4. ASSUME NEW m \in Known(mem) \cup told, m \notin Known(mem') PROVE m \in Evicted(told)
  <2>1. m \in told => mem.volatile \ told # {}
    BY <1>4 DEF StoreMove
  <2> QED  BY <1>3, <1>4, <2>1 DEF Evicted, Known, Full
<1> QED  BY <1>1, <1>2, <1>4

\* Task t has done something to the attempt of x, which no other active task
\* has, and goes on without a reply in flight.
LEMMA MoveInv ==
    ASSUME BotInv, NEW t \in Task, NEW x, NEW told, StoreMove(x, told),
           TypeOK', now' = now,
           \A u \in Task \ {t} : /\ pc'[u] = pc[u] /\ msg'[u] = msg[u]
                                 /\ due'[u] = due[u] /\ reply'[u] = reply[u],
           \A u \in Task \ {t} : Active(u) => msg[u] # x,
           pc'[t] # "send",
           pc'[t] \in {"hold", "drop"} =>
               /\ msg'[t] = x /\ x \in Msg /\ x \notin Known(mem') /\ mem'.attempts[x] > now
               /\ unsure'[x] <= now \/ Full(mem'.order),
           pc'[t] = "hold" =>
               /\ now <= due'[t] /\ mem'.attempts[x] > due'[t] + WebexTimeout
               /\ disk'.attempts[x] >= mem'.attempts[x],
           pc[t] = "send" /\ reply[t] = "accepted" => msg[t] = x,
           \A m \in Msg \ {x} :
               /\ replies'[m] \in {0, replies[m]}
               /\ replies'[m] # 0 /\ m \in Known(mem) => m \in Known(mem')
               /\ unsure'[m] = unsure[m],
           x \in Msg => /\ replies'[x] <= 1 /\ (replies'[x] # 0 => x \in Known(mem'))
                        /\ unsure'[x] > now => Covered(x)' /\ CoveredOnDisk(x)'
    PROVE  BotInv'
<1> USE DEF Active
<1>0. /\ now \in Nat /\ WebexTimeout \in Nat
      /\ StoreInv' /\ MemoryIsDurable'
      /\ \A m \in Msg \ {x} : m \notin Known(mem) /\ mem.attempts[m] > now =>
                               mem'.attempts[m] = mem.attempts[m]
      /\ Known(mem') \subseteq Known(mem) \cup {x}
      /\ Full(mem.order) => Full(mem'.order)
      /\ Full(mem'.order) \/ Known(mem) \subseteq Known(mem')
  BY TimeAssumption DEF BotInv, TypeOK, StoreMove
<1>1. ActiveInv'
  <2> SUFFICES ASSUME NEW u \in Task, pc'[u] \in {"hold", "send", "drop"}
               PROVE  /\ msg'[u] \in Msg /\ msg'[u] \notin Known(mem')
                      /\ mem'.attempts[msg'[u]] > now
                      /\ pc'[u] \in {"hold", "send"} => now <= due'[u] /\ mem'.attempts[msg'[u]] > due'[u]
                      /\ pc'[u] = "hold" => mem'.attempts[msg'[u]] > due'[u] + WebexTimeout
    BY DEF ActiveInv
  <2>1. CASE u = t
    <3>1. pc'[t] = "hold" => due'[t] \in Nat /\ mem'.attempts[x] \in Nat
      BY DEF TypeOK, Stores
    <3> QED  BY <1>0, <2>1, <3>1
  <2>2. CASE u # t
    <3>1. /\ msg[u] \in Msg /\ msg[u] \notin Known(mem) /\ mem.attempts[msg[u]] > now
          /\ pc[u] \in {"hold", "send"} => now <= due[u] /\ mem.attempts[msg[u]] > due[u]
          /\ pc[u] = "hold" => mem.attempts[msg[u]] > due[u] + WebexTimeout
          /\ msg[u] # x
      BY <2>2 DEF BotInv, ActiveInv
    <3>2. mem'.attempts[msg[u]] = mem.attempts[msg[u]] /\ msg[u] \notin Known(mem')
      BY <1>0, <3>1
    <3> QED  BY <2>2, <3>1, <3>2
  <2> QED  BY <2>1, <2>2
<1>2. OneAttempt'
  BY DEF BotInv, OneAttempt
<1>3. ReplyInv'
  <2> SUFFICES ASSUME NEW m \in Msg
               PROVE  /\ replies'[m] <= 1
                      /\ replies'[m] # 0 => \/ m \in Known(mem')
                                            \/ \E u \in Task : /\ pc'[u] = "send" /\ reply'[u] = "accepted"
                                                               /\ msg'[u] = m
    BY DEF ReplyInv
  <2>1. CASE m = x
    BY <2>1
  <2>2. CASE m # x
    <3>1. replies[m] <= 1 /\ (replies'[m] = 0 \/ replies'[m] = replies[m])
      BY <2>2 DEF BotInv, ReplyInv
    <3>2. ASSUME replies'[m] # 0, m \notin Known(mem')
          PROVE  \E u \in Task : pc'[u] = "send" /\ reply'[u] = "accepted" /\ msg'[u] = m
      <4>1. m \notin Known(mem) /\ replies[m] # 0
        BY <2>2, <3>1, <3>2
      <4>2. PICK u \in Task : pc[u] = "send" /\ reply[u] = "accepted" /\ msg[u] = m
        BY <4>1 DEF BotInv, ReplyInv
      <4>3. u # t
        BY <2>2, <4>2
      <4> QED  BY <4>2, <4>3
    <3> QED  BY <3>1, <3>2
  <2> QED  BY <2>1, <2>2
<1>4. UnsureInv'
  <2>1. ASSUME NEW m \in Msg, unsure'[m] > now PROVE Covered(m)' /\ CoveredOnDisk(m)'
    <3>1. CASE m = x
      BY <2>1, <3>1
    <3>2. CASE m # x
      <4>1. unsure'[m] = unsure[m] /\ unsure[m] \in Nat /\ mem.attempts[m] \in Nat
        BY <3>2 DEF BotInv, TypeOK, Stores
      <4>2. Covered(m) /\ CoveredOnDisk(m)
        BY <2>1, <4>1 DEF BotInv, UnsureInv
      <4>3. mem.attempts[m] >= unsure[m] => mem.attempts[m] > now
        BY <1>0, <2>1, <4>1
      <4>4. Covered(m)'
        BY <1>0, <3>2, <4>1, <4>2, <4>3 DEF Covered
      <4>5. CASE disk' = disk
        <5>1. Ids(disk)' = Ids(disk)
          BY <4>5 DEF Ids
        <5> QED  BY <4>1, <4>2, <4>4, <4>5, <5>1 DEF CoveredOnDisk
      <4>6. CASE disk' # disk
        BY <1>0, <3>2, <4>1, <4>2, <4>3, <4>4, <4>6 DEF StoreMove, Covered, CoveredOnDisk
      <4> QED  BY <4>4, <4>5, <4>6
    <3> QED  BY <3>1, <3>2
  <2>2. ASSUME NEW u \in Task, pc'[u] \in {"hold", "drop"}
        PROVE  unsure'[msg'[u]] <= now \/ Full(mem'.order)
    <3>1. CASE u = t
      BY <2>2, <3>1
    <3>2. CASE u # t
      <4>1. msg[u] \in Msg /\ msg[u] # x
        BY <2>2, <3>2 DEF BotInv, ActiveInv
      <4>2. unsure[msg[u]] <= now \/ Full(mem.order)
        BY <2>2, <3>2 DEF BotInv, UnsureInv
      <4> QED  BY <1>0, <3>2, <4>1, <4>2
    <3> QED  BY <3>1, <3>2
  <2>3. ASSUME NEW u \in Task, pc'[u] = "hold"
        PROVE  \/ Full(disk'.order) \/ msg'[u] \in Ids(disk')
               \/ disk'.attempts[msg'[u]] >= mem'.attempts[msg'[u]]
    <3>1. CASE u = t
      BY <2>3, <3>1
    <3>2. CASE u # t
      <4>1. /\ msg[u] \in Msg /\ msg[u] # x /\ msg[u] \notin Known(mem)
            /\ mem.attempts[msg[u]] > now /\ mem.attempts[msg[u]] \in Nat
        BY <2>3, <3>2 DEF BotInv, ActiveInv, TypeOK, Stores
      <4>2. mem'.attempts[msg[u]] = mem.attempts[msg[u]]
        BY <1>0, <4>1
      <4>3. \/ Full(disk.order) \/ msg[u] \in Ids(disk)
            \/ disk.attempts[msg[u]] >= mem.attempts[msg[u]]
        BY <2>3, <3>2 DEF BotInv, UnsureInv
      <4>4. CASE disk' = disk
        BY <3>2, <4>2, <4>3, <4>4
      <4>5. CASE disk' # disk
        <5>1. disk'.attempts[msg[u]] = mem.attempts[msg[u]]
          BY <4>1, <4>5 DEF StoreMove
        <5> QED  BY <3>2, <4>1, <4>2, <5>1
      <4> QED  BY <4>4, <4>5
    <3> QED  BY <3>1, <3>2
  <2>4. unsure' \in [Msg -> Nat] /\ now' = now
    BY DEF TypeOK
  <2> QED  BY <2>1, <2>2, <2>3, <2>4 DEF UnsureInv
<1> QED  BY <1>0, <1>1, <1>2, <1>3, <1>4 DEF BotInv

\* An unsure reply of a message that is known, or that a full list may have
\* dropped, stays covered.
LEMMA CoverFacts ==
    ASSUME BotInv, NEW x \in Msg, NEW told, StoreMove(x, told),
           x \in Known(mem) \cup told \/ Full(mem.order),
           unsure'[x] = unsure[x], unsure[x] > now
    PROVE  Covered(x)' /\ CoveredOnDisk(x)'
<1>1. /\ Full(mem.order) => Full(mem'.order)
      /\ Full(mem'.order) \/ Known(mem) \cup told \subseteq Known(mem')
      /\ \/ disk' = disk
         \/ /\ Full(mem.order) => Full(disk'.order)
            /\ Full(disk'.order) \/ Known(mem) \cup told \subseteq Ids(disk')
  BY DEF StoreMove
<1>2. Covered(x)'
  BY <1>1 DEF Covered
<1>3. CASE disk' = disk
  <2>1. CoveredOnDisk(x) /\ Ids(disk') = Ids(disk)
    BY <1>3 DEF BotInv, UnsureInv
  <2> QED  BY <1>2, <1>3, <2>1 DEF CoveredOnDisk
<1>4. CASE disk' # disk
  BY <1>1, <1>2, <1>4 DEF CoveredOnDisk
<1> QED  BY <1>3, <1>4

Place == {"free", "wait", "hold", "send", "drop", "report"}

\* Only task t moves.
Moves(t, l, m, d, r) ==
    /\ pc' \in [Task -> Place] /\ msg' \in [Task -> Msg \cup {NoMsg}]
    /\ due' \in [Task -> Nat] /\ again' \in [Task -> Nat]
    /\ reply' \in [Task -> {"none", "sent", "accepted"}]
    /\ pc'[t] = l /\ msg'[t] = m /\ due'[t] = d /\ reply'[t] = r
    /\ \A u \in Task \ {t} : /\ pc'[u] = pc[u] /\ msg'[u] = msg[u]
                             /\ due'[u] = due[u] /\ reply'[u] = reply[u]

LEMMA GotoFacts ==
    ASSUME BotInv, NEW t \in Task, NEW l \in Place, NEW m \in Msg \cup {NoMsg}, NEW d \in Nat,
           NEW r \in {"none", "sent", "accepted"}, Goto(t, l, m, d, r)
    PROVE  Moves(t, l, IF l = "free" THEN NoMsg ELSE m, d, r)
<1>1. /\ pc \in [Task -> Place] /\ msg \in [Task -> Msg \cup {NoMsg}]
      /\ due \in [Task -> Nat] /\ again \in [Task -> Nat]
      /\ reply \in [Task -> {"none", "sent", "accepted"}]
  BY DEF BotInv, TypeOK, Place
<1> DEFINE n == IF l = "free" THEN NoMsg ELSE m
<1>2. n \in Msg \cup {NoMsg}
  OBVIOUS
<1>3. /\ pc' = [pc EXCEPT ![t] = l] /\ msg' = [msg EXCEPT ![t] = n]
      /\ due' = [due EXCEPT ![t] = d] /\ reply' = [reply EXCEPT ![t] = r]
      /\ again' = [again EXCEPT ![t] = 0]
  BY DEF Goto
<1> HIDE DEF n
<1>4. Moves(t, l, n, d, r)
  BY <1>1, <1>2, <1>3 DEF Moves
<1> QED  BY <1>4 DEF n

LEMMA LeaveFacts ==
    ASSUME BotInv, NEW t \in Task, Leave(t)
    PROVE  Moves(t, "free", NoMsg, 0, "none")
<1>1. Moves(t, "free", IF "free" = "free" THEN NoMsg ELSE NoMsg, 0, "none")
  BY GotoFacts DEF Leave, Place
<1> QED  BY <1>1

LEMMA FallBackFacts ==
    ASSUME BotInv, NEW t \in Task, NEW d \in Nat, FallBack(t, d)
    PROVE  Moves(t, "drop", msg[t], due[t], "none") /\ persistFailed' = persistFailed
BY DEF BotInv, TypeOK, FallBack, Moves, Place

\* The types after a step that keeps the clock
LEMMA StepTypes ==
    ASSUME BotInv, NEW t, NEW l, NEW m, NEW d, NEW r, Moves(t, l, m, d, r),
           NEW x, NEW told, StoreMove(x, told), now' = now, persistFailed' \in BOOLEAN,
           replies' \in [Msg -> Nat], unsure' \in [Msg -> Nat]
    PROVE  TypeOK'
BY DEF BotInv, TypeOK, Moves, Place, StoreMove, File

LEMMA CountTypes ==
    ASSUME NEW c \in [Msg -> Nat], NEW u \in [Msg -> Nat], NEW told, Count(c, u, told)
    PROVE  replies' \in [Msg -> Nat] /\ unsure' \in [Msg -> Nat]
<1>1. unsure' = u /\ replies' = [m \in Msg |-> IF m \in Evicted(told) THEN 0 ELSE c[m]]
  BY DEF Count
<1>2. \A m \in Msg : c[m] \in Nat /\ 0 \in Nat
  OBVIOUS
<1> QED  BY <1>1, <1>2

\* An active task without an accepted reply has a message without a reply, and
\* no other task has that message.
LEMMA OwnerFacts ==
    ASSUME BotInv, NEW t \in Task, Active(t)
    PROVE  /\ msg[t] \in Msg /\ msg[t] \notin Known(mem)
           /\ mem.attempts[msg[t]] > now
           /\ \A u \in Task \ {t} : Active(u) => msg[u] # msg[t]
           /\ ~(pc[t] = "send" /\ reply[t] = "accepted") => replies[msg[t]] = 0
<1>1. /\ msg[t] \in Msg /\ msg[t] \notin Known(mem)
      /\ mem.attempts[msg[t]] > now
  BY DEF BotInv, ActiveInv
<1>2. \A u \in Task \ {t} : Active(u) => msg[u] # msg[t]
  BY DEF BotInv, OneAttempt
<1>3. ASSUME replies[msg[t]] # 0 PROVE pc[t] = "send" /\ reply[t] = "accepted"
  <2>1. PICK u \in Task : pc[u] = "send" /\ reply[u] = "accepted" /\ msg[u] = msg[t]
    BY <1>1, <1>3 DEF BotInv, ReplyInv
  <2> QED  BY <1>2, <2>1 DEF Active
<1> QED  BY <1>1, <1>2, <1>3
-----------------------------------------------------------------------------
(***************************************************************************)
(* One lemma per action.                                                   *)
(***************************************************************************)
\* A handler that asks has no attempt and no reply.
LEMMA AsksFacts ==
    ASSUME BotInv, NEW t \in Task, NEW m \in Msg, Asks(t, m)
    PROVE  pc[t] # "send" /\ ~Active(t)
BY DEF Asks, Active

\* prune_expired_attempts alone
LEMMA PruneMove ==
    ASSUME BotInv, mem' = Prune(mem), disk' = disk
    PROVE  StoreMove(NoMsg, {}) /\ Known(mem') = Known(mem)
<1>1. StoreOp(Prune(mem), NoMsg)
  BY StoreOps
<1>2. Prune(mem).order = mem.order /\ Prune(mem).volatile = mem.volatile
  BY PruneFacts DEF BotInv, TypeOK
<1>3. Ids(mem') = Ids(mem) /\ Known(mem') = Known(mem) /\ mem'.order = mem.order /\ Ids(disk') = Ids(disk)
  BY <1>2 DEF Ids, Known
<1>4. disk' \in File /\ StoreInv' /\ MemoryIsDurable'
  BY <1>1, <1>2, <1>3 DEF BotInv, TypeOK, File, StoreInv, MemoryIsDurable, StoreOp
<1> QED  BY <1>1, <1>3, <1>4 DEF StoreMove, StoreOp

LEMMA QuietInv ==
    ASSUME BotInv, NEW t \in Task, mem' = Prune(mem), disk' = disk, now' = now,
           persistFailed' = persistFailed, ~Active(t),
           NEW l \in {"free", "wait"}, NEW m, Moves(t, l, m, 0, "none"),
           replies' \in [Msg -> Nat], \A k \in Msg : replies'[k] \in {0, replies[k]},
           unsure' = unsure
    PROVE  BotInv'
<1>1. StoreMove(NoMsg, {}) /\ Known(mem') = Known(mem)
  BY PruneMove
<1>2. TypeOK'
  <2>1. unsure' \in [Msg -> Nat] /\ persistFailed' \in BOOLEAN
    BY DEF BotInv, TypeOK
  <2> QED  BY <1>1, <2>1, StepTypes
<1>3. pc[t] # "send"
  BY DEF Active
<1>4. NoMsg \notin Msg
  BY MsgAssumption
<1>5. \A u \in Task \ {t} : Active(u) => msg[u] # NoMsg
  BY <1>4 DEF BotInv, ActiveInv
<1>6. pc'[t] \notin {"hold", "drop", "send"}
  BY DEF Moves
<1>7. \A u \in Task \ {t} : /\ pc'[u] = pc[u] /\ msg'[u] = msg[u]
                            /\ due'[u] = due[u] /\ reply'[u] = reply[u]
  BY DEF Moves
<1> QED  BY <1>1, <1>2, <1>3, <1>4, <1>5, <1>6, <1>7, MoveInv

LEMMA BeginProcessedInv ==
    ASSUME BotInv, NEW t \in Task, NEW m \in Msg, BeginProcessed(t, m)
    PROVE  BotInv'
<1>1. /\ ~Active(t) /\ mem' = Prune(mem) /\ disk' = disk /\ now' = now
      /\ persistFailed' = persistFailed /\ Leave(t) /\ Count(replies, unsure, {})
  BY AsksFacts DEF BeginProcessed
<1>2. Moves(t, "free", NoMsg, 0, "none")
  BY <1>1, LeaveFacts
<1>3. replies' \in [Msg -> Nat]
  BY <1>1, CountTypes DEF BotInv, TypeOK
<1>4. unsure' = unsure /\ \A k \in Msg : replies'[k] \in {0, replies[k]}
  BY <1>1, PruneMove, CountFacts
<1> QED  BY <1>1, <1>2, <1>3, <1>4, QuietInv

LEMMA BeginInProgressInv ==
    ASSUME BotInv, NEW t \in Task, NEW m \in Msg, BeginInProgress(t, m)
    PROVE  BotInv'
<1>1. /\ ~Active(t) /\ mem' = Prune(mem) /\ disk' = disk /\ now' = now
      /\ persistFailed' = persistFailed /\ Goto(t, "wait", m, 0, "none")
      /\ replies' = replies /\ unsure' = unsure
  BY AsksFacts DEF BeginInProgress
<1>2. Moves(t, "wait", IF "wait" = "free" THEN NoMsg ELSE m, 0, "none")
  BY <1>1, GotoFacts DEF Place
<1>3. replies' \in [Msg -> Nat]
  BY <1>1 DEF BotInv, TypeOK
<1> QED  BY <1>1, <1>2, <1>3, QuietInv

LEMMA BeginLeasedInv ==
    ASSUME BotInv, NEW t \in Task, NEW m \in Msg, BeginLeased(t, m)
    PROVE  BotInv'
<1>1. /\ ~Active(t) /\ mem' = Prune(mem) /\ disk' = disk /\ now' = now
      /\ persistFailed' = persistFailed /\ Leave(t)
      /\ replies' = replies /\ unsure' = unsure
  BY AsksFacts DEF BeginLeased
<1>2. Moves(t, "free", NoMsg, 0, "none")
  BY <1>1, LeaveFacts
<1>3. replies' \in [Msg -> Nat]
  BY <1>1 DEF BotInv, TypeOK
<1> QED  BY <1>1, <1>2, <1>3, QuietInv

LEMMA BeginVolatileInv ==
    ASSUME BotInv, NEW t \in Task, NEW m \in Msg, BeginVolatile(t, m)
    PROVE  BotInv'
<1> DEFINE s == Complete(Prune(mem), m)
<1>0. now \in Nat /\ mem \in Stores /\ replies \in [Msg -> Nat] /\ unsure \in [Msg -> Nat]
      /\ persistFailed \in BOOLEAN
  BY DEF BotInv, TypeOK
<1>1. ~Active(t) /\ m \in Known(mem) /\ m \in mem.volatile /\ Count(replies, unsure, {m}) /\ now' = now
  BY AsksFacts DEF BeginVolatile, Known
<1>2. /\ Prune(mem) \in Stores /\ Prune(mem).order = mem.order /\ Prune(mem).volatile = mem.volatile
      /\ \A k \in Msg : mem.attempts[k] > now => Prune(mem).attempts[k] = mem.attempts[k]
  BY <1>0, PruneFacts
<1>3. StoreOp(s, m) /\ Heard(s, {m}) /\ StoreOp(Prune(mem), m)
  BY <1>2, CompleteOp, StoreOps
<1>4. \/ Persist(s) /\ persistFailed' = FALSE /\ Leave(t)
      \/ PersistFails(s, Prune(mem)) /\ Goto(t, "report", m, 0, "none") /\ persistFailed' = persistFailed
  BY DEF BeginVolatile
<1> HIDE DEF s
<1>5. StoreMove(m, {m}) /\ persistFailed' \in BOOLEAN
  <2>1. CASE Persist(s) /\ persistFailed' = FALSE
    BY <1>3, <2>1, PersistMove
  <2>2. CASE PersistFails(s, Prune(mem)) /\ persistFailed' = persistFailed
    <3>1. {m} \subseteq Known(Prune(mem))
      BY <1>1, <1>2 DEF Known
    <3> QED  BY <1>0, <1>2, <1>3, <2>2, <3>1, PersistFailsMove
  <2> QED  BY <1>4, <2>1, <2>2
<1>6. \E l \in {"free", "report"} : \E n : Moves(t, l, n, 0, "none")
  <2>1. CASE Leave(t)
    BY <2>1, LeaveFacts
  <2>2. CASE Goto(t, "report", m, 0, "none")
    BY <2>2, GotoFacts DEF Place
  <2> QED  BY <1>4, <2>1, <2>2
<1>6a. PICK l \in {"free", "report"} : \E n : Moves(t, l, n, 0, "none")
  BY <1>6
<1>7. PICK n : Moves(t, l, n, 0, "none")
  BY <1>6a
<1>8. replies' \in [Msg -> Nat] /\ unsure' \in [Msg -> Nat]
  BY <1>0, <1>1, CountTypes
<1>9. TypeOK'
  BY <1>1, <1>5, <1>7, <1>8, StepTypes
<1>10. /\ unsure' = unsure
       /\ \A k \in Msg : replies'[k] \in {0, replies[k]}
       /\ \A k \in Msg : replies'[k] # 0 /\ k \in Known(mem) \cup {m} => k \in Known(mem')
  BY <1>1, <1>5, CountFacts
<1>11. \A u \in Task \ {t} : Active(u) => msg[u] # m
  BY <1>1 DEF BotInv, ActiveInv
<1>12. unsure'[m] > now => Covered(m)' /\ CoveredOnDisk(m)'
  BY <1>1, <1>5, <1>10, CoverFacts
<1>13. replies'[m] <= 1
  BY <1>0, <1>10 DEF BotInv, ReplyInv
<1>14. pc'[t] \notin {"hold", "drop", "send"} /\ pc[t] # "send"
  BY <1>1, <1>7 DEF Moves, Active
<1>15. \A u \in Task \ {t} : /\ pc'[u] = pc[u] /\ msg'[u] = msg[u]
                             /\ due'[u] = due[u] /\ reply'[u] = reply[u]
  BY <1>7 DEF Moves
<1> QED  BY <1>1, <1>5, <1>9, <1>10, <1>11, <1>12, <1>13, <1>14, <1>15, MoveInv

LEMMA BeginStartedInv ==
    ASSUME BotInv, NEW t \in Task, NEW m \in Msg, BeginStarted(t, m),
           Lease > HandlerTimeout + WebexTimeout
    PROVE  BotInv' /\ (unsure[m] <= now \/ Full(mem.order))
<1> DEFINE s == Start(mem, m)
<1>0. /\ now \in Nat /\ mem \in Stores /\ replies \in [Msg -> Nat] /\ unsure \in [Msg -> Nat]
      /\ persistFailed \in BOOLEAN /\ mem.attempts[m] \in Nat
      /\ Lease \in Nat /\ HandlerTimeout \in Nat /\ WebexTimeout \in Nat
  BY TimeAssumption DEF BotInv, TypeOK, Stores
<1>1. /\ ~Active(t) /\ m \notin Known(mem) /\ Prune(mem).attempts[m] = 0
      /\ Count(replies, unsure, {}) /\ now' = now
  BY AsksFacts DEF BeginStarted, Known, Unknown
<1>2. /\ Prune(mem) \in Stores /\ Prune(mem).order = mem.order /\ Prune(mem).volatile = mem.volatile
      /\ \A k \in Msg : mem.attempts[k] > now => Prune(mem).attempts[k] = mem.attempts[k]
  BY <1>0, PruneFacts
<1>3. mem.attempts[m] <= now
  BY <1>0, <1>1, <1>2
<1>4. StoreOp(s, m) /\ StoreOp(Prune(mem), m)
  BY StoreOps
<1>5. s.order = mem.order /\ s.volatile = mem.volatile /\ s.attempts[m] = now + Lease
  BY <1>0, StartFacts
<1>6. \/ Persist(s) /\ persistFailed' = FALSE /\ Goto(t, "hold", m, now + HandlerTimeout, "none")
      \/ PersistFails(s, Prune(mem)) /\ Goto(t, "report", m, 0, "none") /\ persistFailed' = persistFailed
  BY DEF BeginStarted
<1> HIDE DEF s
<1>7. \A u \in Task : Active(u) => msg[u] # m
  BY <1>0, <1>3 DEF BotInv, ActiveInv
<1>8. replies[m] = 0
  <2>1. \A u \in Task : pc[u] = "send" => msg[u] # m
    BY <1>7 DEF Active
  <2> QED  BY <1>1, <2>1 DEF BotInv, ReplyInv
<1>9. unsure[m] <= now \/ Full(mem.order)
  <2>1. unsure[m] > now => Covered(m) /\ unsure[m] \in Nat
    BY <1>0 DEF BotInv, UnsureInv
  <2> QED  BY <1>0, <1>1, <1>3, <2>1 DEF Covered
<1>10. unsure[m] > now => Full(mem.order)
  BY <1>0, <1>9
<1>11. replies' \in [Msg -> Nat] /\ unsure' \in [Msg -> Nat]
  BY <1>0, <1>1, CountTypes
<1>12. StoreMove(m, {})
       => /\ unsure' = unsure
          /\ \A k \in Msg : replies'[k] \in {0, replies[k]}
          /\ \A k \in Msg : replies'[k] # 0 /\ k \in Known(mem) \cup {} => k \in Known(mem')
          /\ unsure'[m] > now => Covered(m)' /\ CoveredOnDisk(m)'
  BY <1>1, <1>10, CountFacts, CoverFacts
<1>13. pc[t] # "send"
  BY <1>1 DEF Active
<1>14. CASE Persist(s) /\ persistFailed' = FALSE /\ Goto(t, "hold", m, now + HandlerTimeout, "none")
  <2>1. Moves(t, "hold", IF "hold" = "free" THEN NoMsg ELSE m, now + HandlerTimeout, "none")
    BY <1>0, <1>14, GotoFacts DEF Place
  <2>2. Moves(t, "hold", m, now + HandlerTimeout, "none")
    BY <2>1
  <2>3. /\ StoreMove(m, {}) /\ disk'.attempts = mem'.attempts
        /\ Known(mem') \subseteq Known(s) /\ mem'.attempts[m] = now + Lease
    <3>1. m \notin s.volatile
      BY <1>1, <1>5 DEF Known
    <3> QED  BY <1>4, <1>5, <1>14, <3>1, PersistMove DEF Heard
  <2>4. m \notin Known(mem')
    BY <1>1, <1>5, <2>3 DEF Known, Ids
  <2>5. TypeOK'
    BY <1>1, <1>11, <1>14, <2>2, <2>3, StepTypes
  <2>6. /\ mem'.attempts[m] > now /\ now <= now + HandlerTimeout
        /\ mem'.attempts[m] > now + HandlerTimeout + WebexTimeout
        /\ disk'.attempts[m] >= mem'.attempts[m]
    BY <1>0, <2>3
  <2>7. Full(mem.order) => Full(mem'.order)
    BY <2>3 DEF StoreMove
  <2>8. /\ pc'[t] = "hold" /\ msg'[t] = m /\ due'[t] = now + HandlerTimeout
        /\ \A u \in Task \ {t} : /\ pc'[u] = pc[u] /\ msg'[u] = msg[u]
                                 /\ due'[u] = due[u] /\ reply'[u] = reply[u]
    BY <2>2 DEF Moves
  <2>9. replies'[m] = 0
    BY <1>8, <1>12, <2>3
  <2> QED  BY <1>1, <1>7, <1>9, <1>12, <1>13, <2>3, <2>4, <2>5, <2>6, <2>7, <2>8, <2>9, MoveInv
<1>15. CASE PersistFails(s, Prune(mem)) /\ Goto(t, "report", m, 0, "none") /\ persistFailed' = persistFailed
  <2>1. Moves(t, "report", IF "report" = "free" THEN NoMsg ELSE m, 0, "none")
    BY <1>15, GotoFacts DEF Place
  <2>2. StoreMove(m, {})
    BY <1>2, <1>4, <1>15, PersistFailsMove DEF Heard
  <2>3. TypeOK'
    BY <1>0, <1>1, <1>11, <1>15, <2>1, <2>2, StepTypes
  <2>4. /\ pc'[t] = "report"
        /\ \A u \in Task \ {t} : /\ pc'[u] = pc[u] /\ msg'[u] = msg[u]
                                 /\ due'[u] = due[u] /\ reply'[u] = reply[u]
    BY <2>1 DEF Moves
  <2>5. replies'[m] = 0
    BY <1>8, <1>12, <2>2
  <2> QED  BY <1>1, <1>7, <1>9, <1>12, <1>13, <2>2, <2>3, <2>4, <2>5, MoveInv
<1> QED  BY <1>6, <1>14, <1>15

\* Task t ends the attempt of its message x, or leaves it to its Drop.
Ends(t, x, told, c, u, l, n) ==
    /\ Active(t) /\ x = msg[t]
    /\ StoreMove(x, told) /\ now' = now /\ persistFailed' \in BOOLEAN
    /\ c \in [Msg -> Nat] /\ u \in [Msg -> Nat] /\ Count(c, u, told)
    /\ \A m \in Msg \ {x} : c[m] = replies[m] /\ u[m] = unsure[m]
    /\ l \in {"free", "report", "drop"} /\ \E d : Moves(t, l, n, d, "none")
    /\ c[x] <= 1
    /\ c[x] # 0 => x \in told \/ x \in Known(mem')
    /\ l = "drop" => n = x /\ x \notin Known(mem') /\ mem'.attempts[x] > now /\ u[x] <= now

LEMMA EndInv ==
    ASSUME BotInv, NEW t \in Task, NEW x, NEW told, NEW c, NEW u, NEW l, NEW n,
           Ends(t, x, told, c, u, l, n),
           u[x] > now => Covered(x)' /\ CoveredOnDisk(x)'
    PROVE  BotInv'
<1>0. /\ Active(t) /\ x = msg[t]
      /\ StoreMove(x, told) /\ now' = now /\ persistFailed' \in BOOLEAN
      /\ c \in [Msg -> Nat] /\ u \in [Msg -> Nat] /\ Count(c, u, told)
      /\ \A m \in Msg \ {x} : c[m] = replies[m] /\ u[m] = unsure[m]
      /\ l \in {"free", "report", "drop"}
      /\ c[x] <= 1
      /\ c[x] # 0 => x \in told \/ x \in Known(mem')
      /\ l = "drop" => n = x /\ x \notin Known(mem') /\ mem'.attempts[x] > now /\ u[x] <= now
  BY DEF Ends
<1>d. PICK d : Moves(t, l, n, d, "none")
  BY DEF Ends
<1>1. x \in Msg /\ \A v \in Task \ {t} : Active(v) => msg[v] # x
  BY <1>0, OwnerFacts
<1>2. /\ unsure' = u
      /\ \A m \in Msg : replies'[m] \in {0, c[m]}
      /\ \A m \in Msg : replies'[m] # 0 /\ m \in Known(mem) \cup told => m \in Known(mem')
  BY <1>0, CountFacts
<1>3. TypeOK'
  BY <1>0, <1>d, CountTypes, StepTypes
<1>4. replies'[x] <= 1 /\ (replies'[x] # 0 => x \in Known(mem'))
  BY <1>0, <1>1, <1>2
<1>5. /\ pc'[t] = l /\ msg'[t] = n
      /\ \A v \in Task \ {t} : /\ pc'[v] = pc[v] /\ msg'[v] = msg[v]
                               /\ due'[v] = due[v] /\ reply'[v] = reply[v]
  BY <1>d DEF Moves
<1>6. /\ l # "send" /\ l # "hold"
      /\ \A m \in Msg \ {x} : /\ replies'[m] \in {0, replies[m]}
                              /\ replies'[m] # 0 /\ m \in Known(mem) => m \in Known(mem')
                              /\ unsure'[m] = unsure[m]
  BY <1>0, <1>2
<1> QED  BY <1>0, <1>1, <1>2, <1>3, <1>4, <1>5, <1>6, MoveInv

\* The end of an attempt that has made no reply: s is to be written, and a
\* failed write leaves the store as old and the attempt to its Drop.
GivesUp(t, x, s, old, d, told, u) ==
    /\ NoReply(t) /\ now' = now /\ x = msg[t] /\ d \in Nat
    /\ StoreOp(s, x) /\ StoreOp(old, x)
    /\ old.order = mem.order /\ old.volatile = mem.volatile /\ old.attempts[x] > now
    /\ Heard(s, told)
    /\ u = [unsure EXCEPT ![x] = 0]
    /\ \/ Persist(s) /\ persistFailed' = FALSE /\ Leave(t) /\ Count(replies, u, told)
       \/ PersistFails(s, old) /\ FallBack(t, d) /\ Count(replies, u, {})

LEMMA NoReplyInv ==
    ASSUME BotInv, NEW t \in Task, NEW x, NEW s, NEW old, NEW d, NEW told, NEW u,
           GivesUp(t, x, s, old, d, told, u)
    PROVE  BotInv'
<1> USE DEF GivesUp
<1>0. /\ now \in Nat /\ replies \in [Msg -> Nat] /\ unsure \in [Msg -> Nat]
      /\ persistFailed \in BOOLEAN
  BY DEF BotInv, TypeOK
<1>1. Active(t) /\ ~(pc[t] = "send" /\ reply[t] = "accepted")
  BY DEF NoReply, Active
<1>2. x \in Msg /\ x \notin Known(mem) /\ replies[x] = 0
  BY <1>1, OwnerFacts
<1>3. u \in [Msg -> Nat] /\ u[x] = 0 /\ (\A m \in Msg \ {x} : u[m] = unsure[m]) /\ ~(u[x] > now)
      /\ u[x] <= now
  BY <1>0, <1>2
<1>4. CASE Persist(s) /\ persistFailed' = FALSE /\ Leave(t) /\ Count(replies, u, told)
  <2>1. StoreMove(x, told)
    BY <1>4, PersistMove
  <2>2. Moves(t, "free", NoMsg, 0, "none") /\ persistFailed' \in BOOLEAN /\ Count(replies, u, told)
    BY <1>4, LeaveFacts
  <2>3. Ends(t, x, told, replies, u, "free", NoMsg)
    BY <1>0, <1>1, <1>2, <1>3, <2>1, <2>2 DEF Ends
  <2> QED  BY <1>3, <2>3, EndInv
<1>5. CASE PersistFails(s, old) /\ FallBack(t, d) /\ Count(replies, u, {})
  <2>1. StoreMove(x, {}) /\ mem' = old
    BY <1>5, PersistFailsMove DEF Heard
  <2>2. Moves(t, "drop", x, due[t], "none") /\ persistFailed' \in BOOLEAN
    BY <1>0, <1>5, FallBackFacts
  <2>3. x \notin Known(mem')
    BY <1>2, <2>1 DEF Known, Ids
  <2>4. mem'.attempts[x] > now
    BY <2>1
  <2>5. Ends(t, x, {}, replies, u, "drop", x)
    BY <1>0, <1>1, <1>2, <1>3, <1>5, <2>1, <2>2, <2>3, <2>4 DEF Ends
  <2> QED  BY <1>3, <2>5, EndInv
<1> QED  BY <1>4, <1>5

LEMMA ReleaseInv ==
    ASSUME BotInv, NEW t \in Task, Release(t)
    PROVE  BotInv'
<1> DEFINE s == Lapse(mem, {msg[t]})
           u == [unsure EXCEPT ![msg[t]] = 0]
<1>1. NoReply(t) /\ Active(t) /\ Lease \in Nat /\ now' = now
  BY TimeAssumption DEF Release, NoReply, Active
<1>2. msg[t] \in Msg /\ mem.attempts[msg[t]] > now
  BY <1>1, OwnerFacts
<1>3. StoreOp(s, msg[t]) /\ StoreOp(mem, msg[t])
  BY <1>2, StoreOps
<1>4. \/ Persist(s) /\ persistFailed' = FALSE /\ Leave(t) /\ Count(replies, u, {})
      \/ PersistFails(s, mem) /\ FallBack(t, Lease) /\ Count(replies, u, {})
  BY DEF Release
<1> HIDE DEF s
<1>5. GivesUp(t, msg[t], s, mem, Lease, {}, u)
  BY <1>1, <1>2, <1>3, <1>4 DEF Heard, GivesUp
<1> QED  BY <1>5, NoReplyInv

LEMMA RememberGoneInv ==
    ASSUME BotInv, NEW t \in Task, RememberGone(t)
    PROVE  BotInv'
<1> DEFINE s == Complete(mem, msg[t])
           u == [unsure EXCEPT ![msg[t]] = 0]
<1>1. NoReply(t) /\ Active(t) /\ Lease \in Nat /\ now' = now
  BY TimeAssumption DEF RememberGone, NoReply, Active
<1>2. msg[t] \in Msg /\ mem.attempts[msg[t]] > now /\ mem \in Stores
  BY <1>1, OwnerFacts DEF BotInv, TypeOK
<1>3. StoreOp(s, msg[t]) /\ StoreOp(mem, msg[t]) /\ Heard(s, {msg[t]})
  BY <1>2, StoreOps, CompleteOp
<1>4. \/ Persist(s) /\ persistFailed' = FALSE /\ Leave(t) /\ Count(replies, u, {msg[t]})
      \/ PersistFails(s, mem) /\ FallBack(t, Lease) /\ Count(replies, u, {})
  <2>1. Count(replies, u, IF pc'[t] = "free" THEN {msg[t]} ELSE {})
    BY DEF RememberGone
  <2>2. Leave(t) => pc'[t] = "free"
    BY LeaveFacts DEF Moves
  <2>3. FallBack(t, Lease) => pc'[t] # "free"
    BY <1>1, FallBackFacts DEF Moves
  <2>4. CASE Persist(s) /\ persistFailed' = FALSE /\ Leave(t)
    BY <2>1, <2>2, <2>4
  <2>5. CASE PersistFails(s, mem) /\ FallBack(t, Lease)
    BY <2>1, <2>3, <2>5
  <2> QED  BY <2>4, <2>5 DEF RememberGone
<1> HIDE DEF s
<1>5. GivesUp(t, msg[t], s, mem, Lease, {msg[t]}, u)
  BY <1>1, <1>2, <1>3, <1>4 DEF GivesUp
<1> QED  BY <1>5, NoReplyInv

LEMMA DeferInv ==
    ASSUME BotInv, NEW t \in Task, NEW d \in RetryAfter, Defer(t, d)
    PROVE  BotInv'
<1> DEFINE s == Postpone(mem, msg[t], d)
           u == [unsure EXCEPT ![msg[t]] = 0]
<1>1. NoReply(t) /\ Active(t) /\ now' = now
  BY DEF Defer, NoReply, Active
<1>2. d \in Nat /\ d > 0 /\ now \in Nat /\ mem \in Stores
  BY TimeAssumption DEF BotInv, TypeOK
<1>3. msg[t] \in Msg
  BY <1>1, OwnerFacts
<1>4. StoreOp(s, msg[t])
  BY <1>2, <1>3, StoreOps
<1>5. s.order = mem.order /\ s.volatile = mem.volatile /\ s.attempts[msg[t]] > now
  <2>1. s.order = mem.order /\ s.volatile = mem.volatile /\ s.attempts[msg[t]] = now + d
    BY <1>2, <1>3, PostponeFacts
  <2> QED  BY <1>2, <2>1
<1>6. \/ Persist(s) /\ persistFailed' = FALSE /\ Leave(t) /\ Count(replies, u, {})
      \/ PersistFails(s, s) /\ FallBack(t, d) /\ Count(replies, u, {})
  BY DEF Defer
<1> HIDE DEF s
<1>7. GivesUp(t, msg[t], s, s, d, {}, u)
  BY <1>1, <1>2, <1>4, <1>5, <1>6 DEF Heard, GivesUp
<1> QED  BY <1>7, NoReplyInv

LEMMA ComplainFacts ==
    ASSUME BotInv, NEW t \in Task, Complain(t), msg[t] \in Msg
    PROVE  Moves(t, "report", msg[t], due[t], "none")
<1>1. due[t] \in Nat
  BY DEF BotInv, TypeOK
<1>2. Moves(t, "report", IF "report" = "free" THEN NoMsg ELSE msg[t], due[t], "none")
  BY <1>1, GotoFacts DEF Complain, Place
<1> QED  BY <1>2

LEMMA RememberReplyInv ==
    ASSUME BotInv, NEW t \in Task, RememberReply(t)
    PROVE  BotInv'
<1>0. /\ now \in Nat /\ mem \in Stores /\ replies \in [Msg -> Nat] /\ unsure \in [Msg -> Nat]
      /\ persistFailed \in BOOLEAN
  BY DEF BotInv, TypeOK
<1>1. pc[t] = "send" /\ Active(t) /\ now' = now
  BY DEF RememberReply, Active
<1>2. PICK x \in Msg : x = msg[t]
  BY <1>1, OwnerFacts
<1>3. x \notin Known(mem) /\ (reply[t] # "accepted" => replies[x] = 0)
  BY <1>1, <1>2, OwnerFacts
<1> DEFINE s == Complete(mem, x)
           old == MarkVolatile(mem, x)
<1>4. /\ StoreOp(s, x) /\ Heard(s, {x})
      /\ StoreOp(old, x) /\ x \in Known(old) /\ old.order = mem.order
      /\ mem.volatile \subseteq old.volatile
  BY <1>0, StoreOps, CompleteOp, MarkVolatileOp
<1>5. PICK k \in IF reply[t] = "sent" THEN {0, 1} ELSE {0} :
         \/ /\ Persist(s) /\ persistFailed' = FALSE /\ Leave(t)
            /\ Count([replies EXCEPT ![x] = @ + k], [unsure EXCEPT ![x] = 0], {x})
         \/ /\ PersistFails(s, old) /\ Complain(t)
            /\ Count([replies EXCEPT ![x] = @ + k], unsure, {})
            /\ UNCHANGED persistFailed
  BY <1>2 DEF RememberReply
<1> HIDE DEF s, old
<1> DEFINE c == [replies EXCEPT ![x] = @ + k]
           u == [unsure EXCEPT ![x] = 0]
<1>6. /\ c \in [Msg -> Nat] /\ c[x] <= 1 /\ \A m \in Msg \ {x} : c[m] = replies[m]
  <2>1. k \in {0, 1} /\ (k = 0 \/ reply[t] = "sent") /\ k \in Nat
    BY <1>5
  <2>2. replies[x] + k <= 1 /\ replies[x] \in Nat
    BY <1>0, <1>3, <2>1 DEF BotInv, ReplyInv
  <2> QED  BY <1>0, <2>1, <2>2
<1>7. u \in [Msg -> Nat] /\ ~(u[x] > now) /\ \A m \in Msg \ {x} : u[m] = unsure[m]
  BY <1>0
<1>8. CASE /\ Persist(s) /\ persistFailed' = FALSE /\ Leave(t) /\ Count(c, u, {x})
  <2> HIDE DEF c, u
  <2>1. StoreMove(x, {x})
    BY <1>4, <1>8, PersistMove
  <2>2. Moves(t, "free", NoMsg, 0, "none") /\ persistFailed' \in BOOLEAN /\ Count(c, u, {x})
    BY <1>8, LeaveFacts
  <2>3. Ends(t, x, {x}, c, u, "free", NoMsg)
    BY <1>1, <1>2, <1>6, <1>7, <2>1, <2>2 DEF Ends
  <2> QED  BY <1>7, <2>3, EndInv
<1>9. CASE PersistFails(s, old) /\ Complain(t) /\ Count(c, unsure, {}) /\ UNCHANGED persistFailed
  <2> HIDE DEF c, u
  <2>1. StoreMove(x, {x}) /\ StoreMove(x, {}) /\ mem' = old
    BY <1>4, <1>9, PersistFailsMove DEF Heard
  <2>2. Moves(t, "report", x, due[t], "none")
    BY <1>2, <1>9, ComplainFacts
  <2>3. persistFailed' \in BOOLEAN /\ Count(c, unsure, {}) /\ x \in Known(mem')
    BY <1>0, <1>4, <1>9, <2>1
  <2>4. Ends(t, x, {}, c, unsure, "report", x)
    BY <1>0, <1>1, <1>2, <1>6, <2>1, <2>2, <2>3 DEF Ends
  <2>5. unsure' = unsure
    BY <2>3 DEF Count
  <2>6. unsure[x] > now => Covered(x)' /\ CoveredOnDisk(x)'
    BY <2>1, <2>5, CoverFacts
  <2> QED  BY <2>4, <2>6, EndInv
<1> QED  BY <1>5, <1>8, <1>9

LEMMA DropInv ==
    ASSUME BotInv, NEW t \in Task, Drop(t)
    PROVE  BotInv'
<1>0. /\ now \in Nat /\ mem \in Stores /\ replies \in [Msg -> Nat] /\ unsure \in [Msg -> Nat]
      /\ again[t] \in Nat /\ Lease \in Nat
  BY TimeAssumption DEF BotInv, TypeOK
<1>1. pc[t] \in {"drop", "hold"} /\ Active(t) /\ now' = now /\ Count(replies, unsure, {})
  BY DEF Drop, Active
<1>2. PICK x \in Msg : x = msg[t]
  BY <1>1, OwnerFacts
<1>3. x \notin Known(mem) /\ replies[x] = 0
  BY <1>1, <1>2, OwnerFacts
<1>4. PICK d \in Nat : d = IF pc[t] = "hold" THEN Lease ELSE again[t]
  BY <1>0
<1> DEFINE s == Postpone(mem, x, d)
<1>5. /\ StoreOp(s, x) /\ s.order = mem.order /\ s.volatile = mem.volatile
  BY <1>0, StoreOps, PostponeFacts
<1>6. \/ Persist(s) /\ persistFailed' = FALSE
      \/ PersistFails(s, s) /\ persistFailed' = TRUE
  BY <1>2, <1>4 DEF Drop
<1> HIDE DEF s
<1>7. StoreMove(x, {})
  <2>1. CASE Persist(s)
    BY <1>5, <2>1, PersistMove DEF Heard
  <2>2. CASE PersistFails(s, s)
    BY <1>5, <2>2, PersistFailsMove DEF Heard
  <2> QED  BY <1>6, <2>1, <2>2
<1>8. persistFailed' \in BOOLEAN
  BY <1>6
<1>9. unsure' = unsure /\ (unsure[x] > now => Full(mem.order))
  <2>1. unsure[x] <= now \/ Full(mem.order)
    BY <1>1, <1>2 DEF BotInv, UnsureInv
  <2> QED  BY <1>0, <1>1, <2>1 DEF Count
<1>10. unsure[x] > now => Covered(x)' /\ CoveredOnDisk(x)'
  BY <1>7, <1>9, CoverFacts
<1>11. CASE pc[t] = "hold"
  <2>1. Moves(t, "free", NoMsg, 0, "none")
    BY <1>11, LeaveFacts DEF Drop
  <2>2. Ends(t, x, {}, replies, unsure, "free", NoMsg)
    BY <1>0, <1>1, <1>2, <1>3, <1>7, <1>8, <2>1 DEF Ends
  <2> QED  BY <1>10, <2>2, EndInv
<1>12. CASE pc[t] # "hold"
  <2>1. Moves(t, "report", x, due[t], "none")
    BY <1>2, <1>12, ComplainFacts DEF Drop
  <2>2. Ends(t, x, {}, replies, unsure, "report", x)
    BY <1>0, <1>1, <1>2, <1>3, <1>7, <1>8, <2>1 DEF Ends
  <2> QED  BY <1>10, <2>2, EndInv
<1> QED  BY <1>11, <1>12

\* A handler without an attempt leaves.
LEMMA LeaveInv ==
    ASSUME BotInv, NEW t \in Task, ~Active(t), Leave(t), persistFailed' \in BOOLEAN,
           UNCHANGED <<mem, disk, now, replies, unsure>>
    PROVE  BotInv'
<1>1. Moves(t, "free", NoMsg, 0, "none")
  BY LeaveFacts
<1>2. Ids(mem') = Ids(mem) /\ Known(mem') = Known(mem) /\ Ids(disk') = Ids(disk)
  BY DEF Ids, Known
<1>3. TypeOK' /\ StoreInv' /\ MemoryIsDurable'
  BY <1>1, <1>2 DEF BotInv, TypeOK, StoreInv, MemoryIsDurable, Moves, Place
<1>4. \A u \in Task : u = t \/ (pc'[u] = pc[u] /\ msg'[u] = msg[u]
                                /\ due'[u] = due[u] /\ reply'[u] = reply[u])
  BY <1>1 DEF Moves
<1>5. pc'[t] = "free" /\ pc[t] \notin {"hold", "send", "drop"}
  BY <1>1 DEF Moves, Active
<1>6. ActiveInv' /\ OneAttempt'
  BY <1>2, <1>4, <1>5 DEF BotInv, ActiveInv, OneAttempt, Active
<1>7. ReplyInv'
  BY <1>2, <1>4, <1>5 DEF BotInv, ReplyInv
<1>8. UnsureInv'
  BY <1>2, <1>4, <1>5 DEF BotInv, UnsureInv, Covered, CoveredOnDisk
<1> QED  BY <1>3, <1>6, <1>7, <1>8 DEF BotInv

LEMMA GiveUpInv ==
    ASSUME BotInv, NEW t \in Task, GiveUp(t)
    PROVE  BotInv'
<1>1. persistFailed' \in BOOLEAN
  BY DEF BotInv, TypeOK, GiveUp
<1> QED  BY <1>1, LeaveInv DEF GiveUp, Active

LEMMA ReportInv ==
    ASSUME BotInv, NEW t \in Task, Report(t)
    PROVE  BotInv'
<1>1. persistFailed' \in BOOLEAN
  BY DEF Report
<1> QED  BY <1>1, LeaveInv DEF Report, Active

LEMMA PostInv ==
    ASSUME BotInv, NEW t \in Task, Post(t)
    PROVE  BotInv'
<1>0. /\ now \in Nat /\ mem \in Stores /\ replies \in [Msg -> Nat] /\ unsure \in [Msg -> Nat]
      /\ WebexTimeout \in Nat /\ due[t] \in Nat
  BY TimeAssumption DEF BotInv, TypeOK
<1>1. /\ pc[t] = "hold" /\ Active(t)
      /\ UNCHANGED <<mem, disk, persistFailed, now, replies>>
  BY DEF Post, Active
<1>2. PICK x \in Msg : x = msg[t]
  BY <1>1, OwnerFacts
<1>3. unsure' = [unsure EXCEPT ![x] = mem.attempts[x]] /\ mem.attempts[x] \in Nat
  BY <1>0, <1>2 DEF Post, Stores
<1>4. Moves(t, "send", x, now + WebexTimeout, "sent")
  <2>1. Moves(t, "send", IF "send" = "free" THEN NoMsg ELSE msg[t], now + WebexTimeout, "sent")
    BY <1>0, <1>2, GotoFacts DEF Post, Place
  <2> QED  BY <1>2, <2>1
<1>5. Ids(mem') = Ids(mem) /\ Known(mem') = Known(mem) /\ Ids(disk') = Ids(disk)
  BY <1>1 DEF Ids, Known
<1>6. TypeOK' /\ StoreInv' /\ MemoryIsDurable'
  <2>1. unsure' \in [Msg -> Nat]
    BY <1>0, <1>3
  <2> QED  BY <1>1, <1>4, <1>5, <2>1 DEF BotInv, TypeOK, StoreInv, MemoryIsDurable, Moves, Place
<1>7. \A u \in Task \ {t} : /\ pc'[u] = pc[u] /\ msg'[u] = msg[u]
                            /\ due'[u] = due[u] /\ reply'[u] = reply[u]
  BY <1>4 DEF Moves
<1>8. pc'[t] = "send" /\ msg'[t] = msg[t] /\ due'[t] = now + WebexTimeout /\ reply'[t] = "sent"
  BY <1>2, <1>4 DEF Moves
<1>9. ActiveInv'
  <2>1. /\ x \notin Known(mem) /\ mem.attempts[x] > now /\ now <= due[t]
        /\ mem.attempts[x] > due[t] + WebexTimeout
    BY <1>1, <1>2 DEF BotInv, ActiveInv
  <2>2. now <= now + WebexTimeout /\ mem.attempts[x] > now + WebexTimeout
    BY <1>0, <1>3, <2>1
  <2> QED  BY <1>1, <1>2, <1>5, <1>7, <1>8, <2>1, <2>2 DEF BotInv, ActiveInv, Active
<1>10. OneAttempt'
  BY <1>1, <1>7, <1>8 DEF BotInv, OneAttempt, Active
<1>11. ReplyInv'
  BY <1>1, <1>5, <1>7, <1>8 DEF BotInv, ReplyInv
<1>12. \A u \in Task \ {t} : Active(u) => msg[u] # x
  BY <1>1, <1>2, OwnerFacts
<1>13. UnsureInv'
  <2>1. ASSUME NEW m \in Msg, unsure'[m] > now PROVE Covered(m)' /\ CoveredOnDisk(m)'
    <3>1. CASE m = x
      <4>1. unsure'[x] = mem.attempts[x] /\ mem' = mem
        BY <1>0, <1>1, <1>3
      <4>2. \/ Full(disk.order) \/ x \in Ids(disk)
            \/ disk.attempts[x] >= mem.attempts[x]
        BY <1>1, <1>2 DEF BotInv, UnsureInv
      <4> QED  BY <1>1, <1>3, <1>5, <3>1, <4>1, <4>2 DEF Covered, CoveredOnDisk
    <3>2. CASE m # x
      <4>1. unsure'[m] = unsure[m]
        BY <1>0, <1>3, <3>2
      <4>2. Covered(m) /\ CoveredOnDisk(m)
        BY <2>1, <4>1 DEF BotInv, UnsureInv
      <4> QED  BY <1>1, <1>5, <4>1, <4>2 DEF Covered, CoveredOnDisk
    <3> QED  BY <3>1, <3>2
  <2>2. ASSUME NEW u \in Task, pc'[u] \in {"hold", "drop"}
        PROVE  unsure'[msg'[u]] <= now \/ Full(mem'.order)
    <3>1. u # t
      BY <1>8, <2>2
    <3>2. msg[u] # x /\ msg[u] \in Msg
      BY <1>7, <1>12, <2>2, <3>1, OwnerFacts DEF Active
    <3>3. unsure'[msg[u]] = unsure[msg[u]]
      BY <1>0, <1>3, <3>2
    <3> QED  BY <1>1, <1>7, <2>2, <3>1, <3>3 DEF BotInv, UnsureInv
  <2>3. ASSUME NEW u \in Task, pc'[u] = "hold"
        PROVE  \/ Full(disk'.order) \/ msg'[u] \in Ids(disk')
               \/ disk'.attempts[msg'[u]] >= mem'.attempts[msg'[u]]
    BY <1>1, <1>5, <1>7, <1>8, <2>3 DEF BotInv, UnsureInv
  <2> QED  BY <1>1, <2>1, <2>2, <2>3 DEF UnsureInv
<1> QED  BY <1>6, <1>9, <1>10, <1>11, <1>13 DEF BotInv

LEMMA AcceptInv ==
    ASSUME BotInv, NEW t \in Task, Accept(t)
    PROVE  BotInv'
<1>0. replies \in [Msg -> Nat] /\ reply \in [Task -> {"none", "sent", "accepted"}]
  BY DEF BotInv, TypeOK
<1>1. /\ pc[t] = "send" /\ reply[t] = "sent" /\ Active(t)
      /\ UNCHANGED <<mem, disk, persistFailed, now, pc, msg, due, again, unsure>>
  BY DEF Accept, Active
<1>2. PICK x \in Msg : x = msg[t]
  BY <1>1, OwnerFacts
<1>3. replies[x] = 0
  BY <1>1, <1>2, OwnerFacts
<1>4. /\ replies' = [replies EXCEPT ![x] = @ + 1]
      /\ reply' = [reply EXCEPT ![t] = "accepted"]
  BY <1>2 DEF Accept
<1>5. /\ replies' \in [Msg -> Nat] /\ replies'[x] = 1
      /\ \A m \in Msg \ {x} : replies'[m] = replies[m]
      /\ reply' \in [Task -> {"none", "sent", "accepted"}] /\ reply'[t] = "accepted"
      /\ \A u \in Task \ {t} : reply'[u] = reply[u]
  BY <1>0, <1>3, <1>4
<1>6. Ids(mem') = Ids(mem) /\ Known(mem') = Known(mem) /\ Ids(disk') = Ids(disk)
  BY <1>1 DEF Ids, Known
<1>7. TypeOK' /\ StoreInv' /\ MemoryIsDurable'
  BY <1>1, <1>5, <1>6 DEF BotInv, TypeOK, StoreInv, MemoryIsDurable
<1>8. ActiveInv' /\ OneAttempt'
  BY <1>1, <1>6 DEF BotInv, ActiveInv, OneAttempt, Active
<1>9. ReplyInv'
  <2> SUFFICES ASSUME NEW m \in Msg
               PROVE  /\ replies'[m] <= 1
                      /\ replies'[m] # 0 => \/ m \in Known(mem')
                                            \/ \E u \in Task : /\ pc'[u] = "send" /\ reply'[u] = "accepted"
                                                               /\ msg'[u] = m
    BY DEF ReplyInv
  <2>1. CASE m = x
    BY <1>1, <1>2, <1>5, <2>1
  <2>2. CASE m # x
    BY <1>1, <1>5, <1>6, <2>2 DEF BotInv, ReplyInv
  <2> QED  BY <2>1, <2>2
<1>10. UnsureInv'
  BY <1>1, <1>6 DEF BotInv, UnsureInv, Covered, CoveredOnDisk
<1> QED  BY <1>7, <1>8, <1>9, <1>10 DEF BotInv

LEMMA TickInv ==
    ASSUME BotInv, Tick
    PROVE  BotInv'
<1>0. now \in Nat /\ mem \in Stores /\ due \in [Task -> Nat] /\ unsure \in [Msg -> Nat]
      /\ msg \in [Task -> Msg \cup {NoMsg}]
  BY DEF BotInv, TypeOK
<1>1. /\ now' = now + 1
      /\ UNCHANGED <<mem, disk, persistFailed, pc, msg, due, again, reply, replies, unsure>>
      /\ \A t \in Task : pc[t] # "drop" /\ (Active(t) => now < due[t])
  BY DEF Tick
<1>2. Ids(mem') = Ids(mem) /\ Known(mem') = Known(mem) /\ Ids(disk') = Ids(disk)
  BY <1>1 DEF Ids, Known
<1>3. TypeOK' /\ StoreInv' /\ MemoryIsDurable'
  <2>1. now' \in Nat
    BY <1>0, <1>1
  <2> QED  BY <1>1, <1>2, <2>1 DEF BotInv, TypeOK, StoreInv, MemoryIsDurable
<1>4. ActiveInv'
  <2> SUFFICES ASSUME NEW t \in Task, Active(t)
               PROVE  mem.attempts[msg[t]] > now + 1 /\ now + 1 <= due[t]
    BY <1>1, <1>2 DEF BotInv, ActiveInv, Active
  <2>1. pc[t] \in {"hold", "send"} /\ now < due[t] /\ due[t] \in Nat
    BY <1>0, <1>1 DEF Active
  <2>2. mem.attempts[msg[t]] > due[t] /\ mem.attempts[msg[t]] \in Nat
    BY <1>0, <2>1 DEF BotInv, ActiveInv, Stores
  <2> QED  BY <1>0, <2>1, <2>2
<1>5. OneAttempt' /\ ReplyInv'
  BY <1>1, <1>2 DEF BotInv, OneAttempt, ReplyInv, Active
<1>6. UnsureInv'
  <2>1. ASSUME NEW m \in Msg, unsure[m] > now + 1 PROVE Covered(m)' /\ CoveredOnDisk(m)'
    <3>1. unsure[m] > now
      BY <1>0, <2>1
    <3> QED  BY <1>1, <1>2, <3>1 DEF BotInv, UnsureInv, Covered, CoveredOnDisk
  <2>2. ASSUME NEW t \in Task, pc[t] \in {"hold", "drop"}
        PROVE  unsure[msg[t]] <= now + 1 \/ Full(mem.order)
    <3>1. msg[t] \in Msg
      BY <2>2, OwnerFacts DEF Active
    <3>2. unsure[msg[t]] <= now \/ Full(mem.order)
      BY <2>2 DEF BotInv, UnsureInv
    <3> QED  BY <1>0, <3>1, <3>2
  <2>3. \A t \in Task : pc[t] = "hold" => \/ Full(disk.order) \/ msg[t] \in Ids(disk)
                                          \/ disk.attempts[msg[t]] >= mem.attempts[msg[t]]
    BY DEF BotInv, UnsureInv
  <2> QED  BY <1>1, <1>2, <2>1, <2>2, <2>3 DEF UnsureInv
<1> QED  BY <1>3, <1>4, <1>5, <1>6 DEF BotInv

LEMMA RestartInv ==
    ASSUME BotInv, Restart
    PROVE  BotInv'
<1>0. /\ now \in Nat /\ mem \in Stores /\ unsure \in [Msg -> Nat] /\ replies \in [Msg -> Nat]
      /\ disk.order \in Seq(Msg) /\ disk.attempts \in [Msg -> Nat]
      /\ Len(disk.order) <= MaxIds /\ Len(disk.order) \in Nat /\ MaxIds \in Nat
  BY MaxIdsAssumption DEF BotInv, TypeOK, StoreInv
<1>1. /\ mem' = Loaded(disk) /\ disk' = Saved(Loaded(disk)) /\ persistFailed' = FALSE
      /\ UNCHANGED <<now, unsure>>
      /\ pc' = [t \in Task |-> "free"] /\ msg' = [t \in Task |-> NoMsg]
      /\ due' = [t \in Task |-> 0] /\ again' = [t \in Task |-> 0]
      /\ reply' = [t \in Task |-> "none"]
      /\ replies' = [m \in Msg |-> IF m \in Lost \cup Evicted({}) THEN 0 ELSE replies[m]]
  BY DEF Restart
<1>2. Recent(disk.order) = disk.order
  BY <1>0 DEF Recent
<1> DEFINE a == [m \in Msg |-> IF disk.attempts[m] > now THEN disk.attempts[m] ELSE 0]
<1>3. a \in [Msg -> Nat] /\ \A m \in Msg : disk.attempts[m] > now => a[m] = disk.attempts[m]
  <2>1. \A m \in Msg : disk.attempts[m] \in Nat /\ 0 \in Nat
    BY <1>0
  <2> QED  BY <2>1
<1>4. /\ mem' = [order |-> disk.order, attempts |-> a, inflight |-> {}, volatile |-> {}]
      /\ disk' = [order |-> disk.order, attempts |-> a]
  BY <1>1, <1>2 DEF Loaded, Saved
<1> HIDE DEF a
<1>5. /\ mem'.order = disk.order /\ mem'.attempts = a /\ mem'.volatile = {}
      /\ disk'.order = disk.order /\ disk'.attempts = a
      /\ mem' \in Stores /\ disk' \in File
  BY <1>0, <1>3, <1>4 DEF Stores, File
<1>6. Ids(mem') = Ids(disk) /\ Known(mem') = Ids(disk) /\ Ids(disk') = Ids(disk)
  BY <1>5 DEF Ids, Known
<1>7. replies' \in [Msg -> Nat]
  <2>1. \A m \in Msg : replies[m] \in Nat /\ 0 \in Nat
    BY <1>0
  <2> QED  BY <1>1, <2>1
<1>8. TypeOK'
  <2>1. pc' \in [Task -> Place] /\ msg' \in [Task -> Msg \cup {NoMsg}]
        /\ due' \in [Task -> Nat] /\ again' \in [Task -> Nat]
        /\ reply' \in [Task -> {"none", "sent", "accepted"}]
    BY <1>1 DEF Place
  <2>2. persistFailed' \in BOOLEAN /\ now' \in Nat /\ unsure' \in [Msg -> Nat]
    BY <1>0, <1>1
  <2> QED  BY <1>5, <1>7, <2>1, <2>2 DEF TypeOK, File, Place
<1>9. StoreInv' /\ MemoryIsDurable'
  BY <1>0, <1>5, <1>6, FS_EmptySet DEF StoreInv, MemoryIsDurable
<1>10. ActiveInv' /\ OneAttempt'
  BY <1>1 DEF ActiveInv, OneAttempt, Active
<1>11. ReplyInv'
  <2> SUFFICES ASSUME NEW m \in Msg
               PROVE  replies'[m] <= 1 /\ (replies'[m] # 0 => m \in Known(mem'))
    BY DEF ReplyInv
  <2>1. replies[m] <= 1 /\ replies'[m] = IF m \in Lost \cup Evicted({}) THEN 0 ELSE replies[m]
    BY <1>1 DEF BotInv, ReplyInv
  <2>2. ASSUME replies'[m] # 0 PROVE m \in Known(mem')
    <3>1. m \notin Lost /\ m \notin Evicted({}) /\ replies[m] # 0
      BY <2>1, <2>2
    <3>2. m \in Ids(mem)
      BY <3>1 DEF BotInv, ReplyInv, Lost, Known
    <3>3. Full(disk.order) => m \in Known(mem')
      BY <1>5, <1>6, <3>1, <3>2 DEF Evicted, Full, Known
    <3>4. ~Full(disk.order) => Len(disk.order) < MaxIds
      BY <1>0 DEF Full
    <3> QED  BY <1>6, <3>2, <3>3, <3>4 DEF BotInv, MemoryIsDurable
  <2> QED  BY <2>1, <2>2
<1>12. UnsureInv'
  <2>1. ASSUME NEW m \in Msg, unsure[m] > now PROVE Covered(m)' /\ CoveredOnDisk(m)'
    <3>1. CoveredOnDisk(m) /\ unsure[m] \in Nat /\ disk.attempts[m] \in Nat
      BY <1>0, <2>1 DEF BotInv, UnsureInv
    <3>2. disk.attempts[m] >= unsure[m] => a[m] >= unsure[m]
      BY <1>0, <1>3, <2>1, <3>1
    <3> QED  BY <1>1, <1>5, <1>6, <3>1, <3>2 DEF Covered, CoveredOnDisk
  <2>2. \A t \in Task : pc'[t] = "free"
    BY <1>1
  <2> QED  BY <1>1, <2>1, <2>2 DEF UnsureInv
<1> QED  BY <1>8, <1>9, <1>10, <1>11, <1>12 DEF BotInv
-----------------------------------------------------------------------------
(***************************************************************************)
(* The specification.                                                      *)
(***************************************************************************)
LEMMA InitInv == Init => BotInv
<1> SUFFICES ASSUME Init PROVE BotInv
  OBVIOUS
<1>0. NoMsg \notin Msg /\ MaxIds \in Nat /\ MaxIds > 0
  BY MsgAssumption, MaxIdsAssumption
<1>1. /\ mem = [order |-> <<>>, attempts |-> [m \in Msg |-> 0], inflight |-> {}, volatile |-> {}]
      /\ disk = [order |-> <<>>, attempts |-> [m \in Msg |-> 0]]
  BY DEF Init, EmptyStore, Saved
<1>2. mem \in Stores /\ disk \in File
  BY <1>1 DEF Stores, File
<1>3. mem.order = <<>> /\ mem.volatile = {} /\ disk.order = <<>>
  BY <1>1
<1>4. TypeOK
  BY <1>2 DEF Init, TypeOK, File
<1>5. StoreInv /\ MemoryIsDurable
  <2>1. Len(mem.order) = 0 /\ Len(disk.order) = 0 /\ Ids(mem) = Ids(disk)
    BY <1>3 DEF Ids
  <2> QED  BY <1>0, <1>3, <2>1, FS_EmptySet DEF StoreInv, MemoryIsDurable
<1>6. ActiveInv /\ OneAttempt /\ ReplyInv
  BY DEF Init, ActiveInv, OneAttempt, ReplyInv, Active
<1>7. UnsureInv
  BY DEF Init, UnsureInv
<1> QED  BY <1>4, <1>5, <1>6, <1>7 DEF BotInv

LEMMA StutterInv ==
    ASSUME BotInv, UNCHANGED vars
    PROVE  BotInv'
<1>1. UNCHANGED <<mem, disk, persistFailed, now, pc, msg, due, again, reply, replies, unsure>>
  BY DEF vars
<1>2. Ids(mem') = Ids(mem) /\ Known(mem') = Known(mem) /\ Ids(disk') = Ids(disk)
  BY <1>1 DEF Ids, Known
<1>3. TypeOK' /\ StoreInv' /\ MemoryIsDurable'
  BY <1>1, <1>2 DEF BotInv, TypeOK, StoreInv, MemoryIsDurable
<1>4. ActiveInv' /\ OneAttempt' /\ ReplyInv'
  BY <1>1, <1>2 DEF BotInv, ActiveInv, OneAttempt, ReplyInv, Active
<1>5. UnsureInv'
  BY <1>1, <1>2 DEF BotInv, UnsureInv, Covered, CoveredOnDisk
<1> QED  BY <1>3, <1>4, <1>5 DEF BotInv

LEMMA NextInv ==
    ASSUME Lease > HandlerTimeout + WebexTimeout, BotInv, [Next]_vars
    PROVE  BotInv'
<1>1. ASSUME NEW t \in Task, Begin(t) PROVE BotInv'
  <2>1. PICK m \in Msg : BeginProcessed(t, m) \/ BeginVolatile(t, m) \/ BeginInProgress(t, m)
                           \/ BeginLeased(t, m) \/ BeginStarted(t, m)
    BY <1>1 DEF Begin
  <2> QED  BY <2>1, BeginProcessedInv, BeginVolatileInv, BeginInProgressInv, BeginLeasedInv,
              BeginStartedInv
<1>2. ASSUME NEW t \in Task, Finish(t) PROVE BotInv'
  BY <1>2, ReleaseInv, RememberGoneInv, DeferInv, RememberReplyInv, DropInv, ReportInv DEF Finish
<1>3. ASSUME NEW t \in Task, GiveUp(t) \/ Post(t) \/ Accept(t) PROVE BotInv'
  BY <1>3, GiveUpInv, PostInv, AcceptInv
<1>4. CASE Restart \/ Tick \/ UNCHANGED vars
  BY <1>4, RestartInv, TickInv, StutterInv
<1> QED  BY <1>1, <1>2, <1>3, <1>4 DEF Next

\* If the attempt lease outlives the handler timeout and the Webex timeout
\* together, two handlers or workers never have an attempt for one message.
THEOREM NoTwoAttempts ==
    ASSUME Lease > HandlerTimeout + WebexTimeout
    PROVE  Spec => []OneAttempt
<1>1. BotInv /\ [Next]_vars => BotInv'
  BY NextInv
<1>2. BotInv => OneAttempt
  BY DEF BotInv
<1> QED  BY InitInv, <1>1, <1>2, PTL DEF Spec

\* Then no message is answered twice, whatever writes of the state file fail,
\* whatever answers are lost, and however often the bot is restarted, except
\* for the replies a restart or a full list makes it forget.
THEOREM AnsweredOnce ==
    ASSUME Lease > HandlerTimeout + WebexTimeout
    PROVE  Spec => []AtMostOneReply
<1>1. BotInv /\ [Next]_vars => BotInv'
  BY NextInv
<1>2. BotInv => AtMostOneReply
  BY DEF BotInv, ReplyInv, AtMostOneReply
<1> QED  BY InitInv, <1>1, <1>2, PTL DEF Spec

\* Then the variables of the bot keep their types: an active task always has
\* the message of its attempt, which is what it sends and remembers.
THEOREM BotTypeCorrect ==
    ASSUME Lease > HandlerTimeout + WebexTimeout
    PROVE  Spec => []TypeOK
<1>1. BotInv /\ [Next]_vars => BotInv'
  BY NextInv
<1>2. BotInv => TypeOK
  BY DEF BotInv
<1> QED  BY InitInv, <1>1, <1>2, PTL DEF Spec

\* Then a message for which the bot answers "processed" is in the state file
\* unless a full list dropped it.
THEOREM ProcessedIsDurable ==
    ASSUME Lease > HandlerTimeout + WebexTimeout
    PROVE  Spec => []MemoryIsDurable
<1>1. BotInv /\ [Next]_vars => BotInv'
  BY NextInv
<1>2. BotInv => MemoryIsDurable
  BY DEF BotInv
<1> QED  BY InitInv, <1>1, <1>2, PTL DEF Spec
-----------------------------------------------------------------------------
\* Only BeginStarted lets a task hold an attempt it did not hold.
LEMMA OnlyBeginHolds ==
    ASSUME BotInv, [Next]_vars, NEW u \in Task, pc[u] # "hold", pc'[u] = "hold"
    PROVE  \E m \in Msg : BeginStarted(u, m) /\ msg'[u] = m
<1>0. pc \in [Task -> Place] /\ msg \in [Task -> Msg \cup {NoMsg}]
  BY DEF BotInv, TypeOK, Place
<1>1. ASSUME NEW t \in Task, NEW l \in Place, NEW m, NEW d, NEW r, Goto(t, l, m, d, r)
      PROVE  t = u /\ l = "hold" /\ msg'[u] = m
  BY <1>0, <1>1 DEF Goto
<1>2. ASSUME NEW t \in Task, NEW d PROVE ~Leave(t) /\ ~Complain(t) /\ ~FallBack(t, d)
  <2>1. ~FallBack(t, d)
    BY <1>0 DEF FallBack
  <2>2. ~Leave(t)
    BY <1>1 DEF Leave, Place
  <2>3. ~Complain(t)
    BY <1>1 DEF Complain, Place
  <2> QED  BY <2>1, <2>2, <2>3
<1>3. ASSUME NEW t \in Task, Begin(t) PROVE \E m \in Msg : BeginStarted(u, m) /\ msg'[u] = m
  <2>1. PICK m \in Msg : BeginProcessed(t, m) \/ BeginVolatile(t, m) \/ BeginInProgress(t, m)
                           \/ BeginLeased(t, m) \/ BeginStarted(t, m)
    BY <1>3 DEF Begin
  <2>2. ~Goto(t, "report", m, 0, "none") /\ ~Goto(t, "wait", m, 0, "none")
    BY <1>1 DEF Place
  <2>3. BeginStarted(t, m)
    BY <1>2, <2>1, <2>2 DEF BeginProcessed, BeginVolatile, BeginInProgress, BeginLeased
  <2>4. Goto(t, "hold", m, now + HandlerTimeout, "none")
    BY <2>2, <2>3 DEF BeginStarted
  <2>5. t = u /\ msg'[u] = m
    BY <1>1, <2>4 DEF Place
  <2> QED  BY <2>3, <2>5
<1>4. ASSUME NEW t \in Task PROVE ~Finish(t)
  <2>1. ~Release(t) /\ ~RememberGone(t) /\ ~RememberReply(t) /\ ~Report(t)
    BY <1>2 DEF Release, RememberGone, RememberReply, Report
  <2>2. ~Drop(t)
    BY <1>2 DEF Drop
  <2>3. \A d \in RetryAfter : ~Defer(t, d)
    BY <1>2 DEF Defer
  <2> QED  BY <2>1, <2>2, <2>3 DEF Finish
<1>5. ASSUME NEW t \in Task PROVE ~GiveUp(t) /\ ~Post(t) /\ ~Accept(t)
  <2>1. ~Goto(t, "send", msg[t], now + WebexTimeout, "sent")
    BY <1>1 DEF Place
  <2> QED  BY <1>2, <2>1 DEF GiveUp, Post, Accept
<1>6. ~Restart /\ ~Tick /\ ~(UNCHANGED vars)
  BY DEF Restart, Tick, vars
<1> QED  BY <1>3, <1>4, <1>5, <1>6 DEF Next

\* Then a reply whose outcome is not known is not repeated before the lease it
\* was sent under has ended, across restarts and failed writes.
THEOREM NotRepeatedEarly ==
    ASSUME Lease > HandlerTimeout + WebexTimeout
    PROVE  Spec => NoEarlyRetry
<1>1. BotInv /\ [Next]_vars => BotInv'
  BY NextInv
<1>2. BotInv /\ [Next]_vars =>
        [\A t \in Task : pc[t] # "hold" /\ pc'[t] = "hold" =>
           unsure[msg'[t]] <= now \/ Len(mem.order) = MaxIds]_vars
  <2> SUFFICES ASSUME BotInv, [Next]_vars, NEW t \in Task, pc[t] # "hold", pc'[t] = "hold"
               PROVE  unsure[msg'[t]] <= now \/ Len(mem.order) = MaxIds
    OBVIOUS
  <2>1. PICK m \in Msg : BeginStarted(t, m) /\ msg'[t] = m
    BY OnlyBeginHolds
  <2> QED  BY <2>1, BeginStartedInv DEF Full
<1> QED  BY InitInv, <1>1, <1>2, PTL DEF Spec, NoEarlyRetry
=============================================================================
