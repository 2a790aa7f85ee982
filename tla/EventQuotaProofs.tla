-------------------------- MODULE EventQuotaProofs --------------------------
(***************************************************************************)
(* Proofs about EventQuota, for any max_events and any number of           *)
(* connections and abandoned reply workers.                                *)
(***************************************************************************)
EXTENDS EventQuota, FiniteSetTheorems, TLAPS

Owners == {c \in Conn : Owns(c)}
Counted == {c \in Conn : counted[c]}

Place == {"idle", "reading", "open", "slot", "worker", "orphan", "replied", "answering"}

QuotaTypeOK ==
    /\ slots \in Nat /\ completed \in Nat /\ accepted \in Nat /\ joinable \in Nat
    /\ pc \in [Conn -> Place]
    /\ counted \in [Conn -> BOOLEAN]

\* Once max_events_reached has seen one of the quotas reached, it stays so.
LoopInv == loop \in {"slots", "compare", "drain", "exited"} => completed >= MaxEvents

IInv == QuotaTypeOK /\ QuotaExact /\ LoopInv
-----------------------------------------------------------------------------
\* The number of owners and of counted responses are numbers.
LEMMA CardinalitiesAreNumbers ==
    /\ IsFiniteSet(Owners) /\ Cardinality(Owners) \in Nat
    /\ IsFiniteSet(Counted) /\ Cardinality(Counted) \in Nat
<1>1. Owners \in SUBSET Conn /\ Counted \in SUBSET Conn
  BY DEF Owners, Counted
<1>2. IsFiniteSet(Owners) /\ IsFiniteSet(Counted)
  BY <1>1, FS_Subset, ConnAssumption
<1> QED  BY <1>2, FS_CardinalityType

\* When c takes a slot there is one more owner, when it gives it up one less.
LEMMA OwnersStep ==
    ASSUME NEW c \in Conn, NEW l, Goto(c, l), pc \in [Conn -> Place]
    PROVE  Cardinality(Owners') =
             IF Owns(c) THEN IF l \in {"slot", "worker", "orphan"} THEN Cardinality(Owners)
                             ELSE Cardinality(Owners) - 1
             ELSE IF l \in {"slot", "worker", "orphan"} THEN Cardinality(Owners) + 1
             ELSE Cardinality(Owners)
<1>1. IsFiniteSet(Owners)
  BY CardinalitiesAreNumbers
<1>2. Owners' = IF l \in {"slot", "worker", "orphan"} THEN Owners \cup {c} ELSE Owners \ {c}
  BY DEF Owners, Owns, Goto
<1>3. c \in Owners <=> Owns(c)
  BY DEF Owners
<1>4. /\ Cardinality(Owners \cup {c}) = IF c \in Owners THEN Cardinality(Owners) ELSE Cardinality(Owners) + 1
      /\ Cardinality(Owners \ {c}) = IF c \in Owners THEN Cardinality(Owners) - 1 ELSE Cardinality(Owners)
  BY <1>1, FS_AddElement, FS_RemoveElement
<1> QED  BY <1>2, <1>3, <1>4

\* A response stops being one that counts.
LEMMA UncountedStep ==
    ASSUME NEW c \in Conn, counted \in [Conn -> BOOLEAN], counted' = [counted EXCEPT ![c] = FALSE]
    PROVE  /\ Cardinality(Counted') = IF counted[c] THEN Cardinality(Counted) - 1 ELSE Cardinality(Counted)
           /\ Cardinality(Counted') \in Int
           /\ Cardinality(Counted') <= Cardinality(Counted)
<1>1. IsFiniteSet(Counted) /\ Cardinality(Counted) \in Nat
  BY CardinalitiesAreNumbers
<1>2. Counted' = Counted \ {c}
  BY DEF Counted
<1>3. c \in Counted <=> counted[c]
  BY DEF Counted
<1>4. Cardinality(Counted \ {c}) = IF c \in Counted THEN Cardinality(Counted) - 1 ELSE Cardinality(Counted)
  BY <1>1, FS_RemoveElement
<1> QED  BY <1>1, <1>2, <1>3, <1>4

\* At most one more response counts.
LEMMA CountedStep ==
    ASSUME NEW c \in Conn, counted \in [Conn -> BOOLEAN], counted' = [counted EXCEPT ![c] = TRUE]
    PROVE  /\ Cardinality(Counted') \in Int
           /\ Cardinality(Counted') <= Cardinality(Counted) + 1
<1>1. IsFiniteSet(Counted) /\ Cardinality(Counted) \in Nat
  BY CardinalitiesAreNumbers
<1>2. Counted' = Counted \cup {c}
  BY DEF Counted
<1>3. Cardinality(Counted \cup {c}) = IF c \in Counted THEN Cardinality(Counted) ELSE Cardinality(Counted) + 1
  BY <1>1, FS_AddElement
<1> QED  BY <1>1, <1>2, <1>3
-----------------------------------------------------------------------------
\* Only a supported event counts, and no failure does.
LEMMA WhatCounts ==
    /\ \A a : CountsTowardMaxEvents(a) \in BOOLEAN
    /\ \A reason \in {"unsupported_event_version", "unsupported_event",
                      "invalid_message_payload", "missing_message_id"} :
         CountsTowardMaxEvents(Ignored(reason)) = FALSE
    /\ \A a : a.kind = "failure" => CountsTowardMaxEvents(a) = FALSE
BY DEF CountsTowardMaxEvents, Ignored

\* An event does not commit, drop or count anything but its own slot.
LEMMA ServeInv ==
    ASSUME IInv, NEW c \in Conn, Serve(c)
    PROVE  QuotaTypeOK' /\ QuotaExact' /\ completed' >= completed /\ loop' = loop
<1> USE MaxEventsAssumption DEF Place
<1>0. /\ QuotaTypeOK
      /\ slots = completed + Cardinality(Owners) /\ slots <= MaxEvents
      /\ accepted + Cardinality(Counted) <= completed
      /\ Cardinality(Owners) \in Nat /\ Cardinality(Counted) \in Nat
      /\ pc \in [Conn -> Place] /\ counted \in [Conn -> BOOLEAN]
  <2>1. pc \in [Conn -> Place] /\ counted \in [Conn -> BOOLEAN]
    BY DEF IInv, QuotaTypeOK
  <2> QED  BY <2>1, CardinalitiesAreNumbers DEF IInv, QuotaExact, Owners, Counted
<1>1. SUFFICES /\ QuotaTypeOK'
               /\ slots' = completed' + Cardinality(Owners') /\ slots' <= MaxEvents
               /\ accepted' + Cardinality(Counted') <= completed'
               /\ completed' >= completed /\ loop' = loop
  BY DEF QuotaExact, Owners, Counted
<1>2. CASE Admit(c)
  <2>1. Cardinality(Owners') = Cardinality(Owners)
    BY <1>0, <1>2, OwnersStep DEF Admit, Owns
  <2>2. Counted' = Counted
    BY <1>2 DEF Admit, Counted
  <2> QED  BY <1>0, <1>2, <2>1, <2>2 DEF Admit, QuotaTypeOK, Goto
<1>3. CASE Reject(c)
  <2>1. Cardinality(Owners') = Cardinality(Owners)
    BY <1>0, <1>3, OwnersStep DEF Reject, Answer, Owns
  <2>2. Cardinality(Counted') <= Cardinality(Counted) /\ Cardinality(Counted') \in Int
    BY <1>0, <1>3, UncountedStep DEF Reject, Answer
  <2> QED  BY <1>0, <1>3, <2>1, <2>2 DEF Reject, Answer, QuotaTypeOK, Goto
<1>4. CASE Unsupported(c)
  <2>0. Answer(c, FALSE)
    BY <1>4, WhatCounts DEF Unsupported
  <2>1. Cardinality(Owners') = Cardinality(Owners)
    BY <1>0, <1>4, <2>0, OwnersStep DEF Unsupported, Answer, Owns
  <2>2. Cardinality(Counted') <= Cardinality(Counted) /\ Cardinality(Counted') \in Int
    BY <1>0, <2>0, UncountedStep DEF Answer
  <2>3. QuotaTypeOK'
    BY <1>0, <1>4, <2>0 DEF Unsupported, Answer, QuotaTypeOK, Goto
  <2>4. UNCHANGED <<slots, completed, accepted, loop>>
    BY <1>4 DEF Unsupported
  <2> QED  BY <1>0, <2>1, <2>2, <2>3, <2>4 DEF QuotaTypeOK
<1>5. CASE Reserve(c)
  <2>1. CASE slots < MaxEvents
    <3>1. Cardinality(Owners') = Cardinality(Owners) + 1
      BY <1>0, <1>5, <2>1, OwnersStep DEF Reserve, Owns
    <3>2. Counted' = Counted
      BY <1>5, <2>1 DEF Reserve, Counted
    <3> QED  BY <1>0, <1>5, <2>1, <3>1, <3>2 DEF Reserve, QuotaTypeOK, Goto
  <2>2. CASE ~(slots < MaxEvents)
    <3>1. Cardinality(Owners') = Cardinality(Owners)
      BY <1>0, <1>5, <2>2, OwnersStep DEF Reserve, Answer, Owns
    <3>2. Cardinality(Counted') <= Cardinality(Counted) /\ Cardinality(Counted') \in Int
      BY <1>0, <1>5, <2>2, UncountedStep DEF Reserve, Answer
    <3>3. QuotaTypeOK'
      BY <1>0, <1>5, <2>2 DEF Reserve, Answer, QuotaTypeOK, Goto
    <3>4. UNCHANGED <<slots, completed, accepted, loop>>
      BY <1>5, <2>2 DEF Reserve
    <3> QED  BY <1>0, <3>1, <3>2, <3>3, <3>4 DEF QuotaTypeOK
  <2> QED  BY <2>1, <2>2
<1>6. CASE Spawn(c)
  <2>1. Cardinality(Owners') = Cardinality(Owners)
    BY <1>0, <1>6, OwnersStep DEF Spawn, Owns
  <2>2. Counted' = Counted
    BY <1>6 DEF Spawn, Counted
  <2> QED  BY <1>0, <1>6, <2>1, <2>2 DEF Spawn, QuotaTypeOK, Goto
<1>7. ASSUME Owns(c), NEW a, End(c, a)
      PROVE  /\ Cardinality(Owners') = Cardinality(Owners) - 1
             /\ Cardinality(Counted') \in Int
             /\ Cardinality(Counted') <= Cardinality(Counted) + 1
             /\ a.kind = "failure" => Cardinality(Counted') <= Cardinality(Counted)
             /\ pc' \in [Conn -> Place]
             /\ counted' \in [Conn -> BOOLEAN]
  <2>1. CASE pc[c] = "orphan"
    <3>1. Goto(c, "idle") /\ counted' = counted
      BY <1>7, <2>1 DEF End
    <3>2. Cardinality(Owners') = Cardinality(Owners) - 1
      BY <1>0, <1>7, <3>1, OwnersStep
    <3>3. Counted' = Counted
      BY <3>1 DEF Counted
    <3> QED  BY <1>0, <3>1, <3>2, <3>3 DEF Goto, QuotaTypeOK
  <2>2. CASE pc[c] # "orphan"
    <3>1. PICK l \in {"replied", "answering"} : Goto(c, l)
      BY <1>7, <2>2 DEF End
    <3>2. counted' = [counted EXCEPT ![c] = CountsTowardMaxEvents(a)]
      BY <1>7, <2>2 DEF End
    <3>3. Cardinality(Owners') = Cardinality(Owners) - 1
      BY <1>0, <1>7, <3>1, OwnersStep
    <3>4. PICK b \in BOOLEAN : /\ counted' = [counted EXCEPT ![c] = b]
                               /\ a.kind = "failure" => b = FALSE
      BY <3>2, WhatCounts
    <3>5. /\ Cardinality(Counted') \in Int
          /\ Cardinality(Counted') <= Cardinality(Counted) + 1
          /\ a.kind = "failure" => Cardinality(Counted') <= Cardinality(Counted)
      <4>1. CASE b = TRUE
        BY <1>0, <3>4, <4>1, CountedStep
      <4>2. CASE b = FALSE
        <5>1. counted' = [counted EXCEPT ![c] = FALSE]
          BY <3>4, <4>2
        <5>2. Cardinality(Counted') \in Int /\ Cardinality(Counted') <= Cardinality(Counted)
          BY <1>0, <5>1, UncountedStep
        <5> QED  BY <1>0, <5>2
      <4> QED  BY <4>1, <4>2
    <3> QED  BY <1>0, <3>1, <3>3, <3>4, <3>5 DEF Goto, QuotaTypeOK
  <2> QED  BY <2>1, <2>2
<1>8. CASE Commit(c)
  <2>1. PICK a : End(c, a)
    BY <1>8 DEF Commit
  <2>2. Owns(c)
    BY <1>8 DEF Commit
  <2> QED  BY <1>0, <1>7, <1>8, <2>1, <2>2 DEF Commit, QuotaTypeOK
<1>9. CASE DropSlot(c)
  <2>1. PICK a : a.kind = "failure" /\ End(c, a)
    BY <1>9 DEF DropSlot
  <2>2. Owns(c)
    BY <1>9 DEF DropSlot
  <2>3. Cardinality(Owners) >= 1
    BY <1>0, <2>2, CardinalitiesAreNumbers, FS_EmptySet DEF Owners
  <2> QED  BY <1>0, <1>7, <1>9, <2>1, <2>2, <2>3 DEF DropSlot, QuotaTypeOK
<1>10. CASE Abandon(c)
  <2>1. Cardinality(Owners') = Cardinality(Owners)
    BY <1>0, <1>10, OwnersStep DEF Abandon, Owns
  <2>2. Cardinality(Counted') <= Cardinality(Counted) /\ Cardinality(Counted') \in Int
    BY <1>0, <1>10, UncountedStep DEF Abandon
  <2> QED  BY <1>0, <1>10, <2>1, <2>2 DEF Abandon, QuotaTypeOK, Goto
<1>11. CASE Respond(c)
  <2>1. Cardinality(Owners') = Cardinality(Owners)
    BY <1>0, <1>11, OwnersStep DEF Respond, Owns
  <2>2. Cardinality(Counted') = IF counted[c] THEN Cardinality(Counted) - 1 ELSE Cardinality(Counted)
    BY <1>0, <1>11, UncountedStep DEF Respond
  <2> QED  BY <1>0, <1>11, <2>1, <2>2 DEF Respond, QuotaTypeOK, Goto
<1> QED  BY <1>2, <1>3, <1>4, <1>5, <1>6, <1>8, <1>9, <1>10, <1>11 DEF Serve

\* The loop changes none of the counters, and it believes a quota reached
\* only when it is: accepted_events never exceeds completed_event_slots.
LEMMA LoopStep ==
    ASSUME IInv, Loop
    PROVE  IInv'
<1> USE MaxEventsAssumption DEF Place
<1>0. /\ QuotaTypeOK /\ LoopInv
      /\ accepted + Cardinality(Counted) <= completed
      /\ Cardinality(Counted) \in Nat
  BY CardinalitiesAreNumbers DEF IInv, QuotaExact, Counted
<1>1. UNCHANGED <<slots, completed, accepted, counted>>
  BY DEF Loop, Checking, Check, CheckAccepted, LoadSlots, Compare, Accept, AcceptFails, JoinNext,
         MaxEventsNotified, ShutdownNotified, Exit
<1>2. QuotaTypeOK' /\ Owners' = Owners
  <2>1. CASE Accept
    BY <1>0, <1>1, <2>1 DEF Accept, Goto, QuotaTypeOK, Owners, Owns
  <2>2. CASE ~Accept
    BY <1>0, <1>1, <2>2 DEF Loop, Checking, Check, CheckAccepted, LoadSlots, Compare, AcceptFails, JoinNext,
         MaxEventsNotified, ShutdownNotified, Exit, QuotaTypeOK, Owners, Owns
  <2> QED  BY <2>1, <2>2
<1>3. QuotaExact'
  BY <1>1, <1>2 DEF IInv, QuotaExact, Owners
<1>4. LoopInv'
  BY <1>0, <1>1 DEF Loop, Checking, Check, CheckAccepted, LoadSlots, Compare, Accept, AcceptFails, JoinNext,
         MaxEventsNotified, ShutdownNotified, Exit, LoopInv, QuotaTypeOK
<1> QED  BY <1>2, <1>3, <1>4 DEF IInv

LEMMA InitInv ==
    Init => IInv
<1> SUFFICES ASSUME Init PROVE IInv
  OBVIOUS
<1>1. Owners = {} /\ Counted = {}
  BY DEF Init, Owners, Owns, Counted
<1> QED  BY <1>1, FS_EmptySet, MaxEventsAssumption
         DEF Init, IInv, QuotaTypeOK, Place, QuotaExact, LoopInv, Owners, Counted

LEMMA NextInv ==
    IInv /\ [Next]_vars => IInv'
<1> SUFFICES ASSUME IInv, [Next]_vars PROVE IInv'
  OBVIOUS
<1>1. CASE Loop
  BY <1>1, LoopStep
<1>2. CASE \E c \in Conn : Serve(c)
  <2>1. QuotaTypeOK' /\ QuotaExact' /\ completed' >= completed /\ loop' = loop
    BY <1>2, ServeInv
  <2> QED  BY <2>1, MaxEventsAssumption DEF IInv, LoopInv, QuotaTypeOK
<1>3. CASE UNCHANGED vars
  BY <1>3 DEF vars, IInv, QuotaTypeOK, QuotaExact, LoopInv, Owns
<1> QED  BY <1>1, <1>2, <1>3 DEF Next

LEMMA Invariance ==
    Spec => []IInv
BY InitInv, NextInv, PTL DEF Spec
-----------------------------------------------------------------------------
\* event_slots, completed_event_slots and accepted_events never get out of
\* step, however the handlers, the workers and their timeouts interleave.
THEOREM CountersInStep ==
    Spec => []QuotaExact
<1>1. IInv => QuotaExact
  BY DEF IInv
<1> QED  BY <1>1, Invariance, PTL

\* When run_http_loop stops, max_events events are done and no reply worker,
\* abandoned or not, is cut off.  Every slot is completed, so nobody owns one.
THEOREM StopsWithEveryReplyDone ==
    Spec => []NoReplyCutOff
<1>1. IInv => NoReplyCutOff
  <2> SUFFICES ASSUME IInv, loop \in {"drain", "exited"}
               PROVE  completed = MaxEvents /\ \A c \in Conn : ~Owns(c)
    BY DEF NoReplyCutOff
  <2>1. /\ slots = completed + Cardinality(Owners) /\ slots <= MaxEvents
        /\ completed >= MaxEvents /\ completed \in Nat
    BY DEF IInv, QuotaExact, LoopInv, QuotaTypeOK, Owners
  <2>2. completed = MaxEvents /\ Cardinality(Owners) = 0
    BY <2>1, CardinalitiesAreNumbers, MaxEventsAssumption
  <2>3. Owners = {}
    BY <2>2, CardinalitiesAreNumbers, FS_EmptySet
  <2> QED  BY <2>2, <2>3 DEF Owners
<1> QED  BY <1>1, Invariance, PTL
=============================================================================
