---------------------------- MODULE SidecarProofs ----------------------------
(***************************************************************************)
(* Proofs about Sidecar, for any finite set of events, any limits and any  *)
(* number of retries.                                                      *)
(***************************************************************************)
EXTENDS Sidecar, FiniteSetTheorems, WellFoundedInduction, TLAPS

Place == {"unheard", "waiting", "woken", "sending", "sleeping", "done", "refused",
          "failed", "lost"}

\* Every variable of the forward queue keeps its shape.
QueueTypeOK ==
    /\ js \in {"running", "stopping", "exited"}
    /\ pc \in [Event -> Place]
    /\ reserved \in Nat /\ inFlight \in Nat
    /\ waiters \in Seq(Event)

\* SlotsExact and NoLostWakeup need each other: the waiter that a release wakes
\* is neither the event that releases nor one that is sending.
QueueInv == QueueTypeOK /\ SlotsExact /\ NoLostWakeup

Unfinished == {e \in Event : Active(e)}
-----------------------------------------------------------------------------
(***************************************************************************)
(* The queue of waiters.                                                   *)
(***************************************************************************)
LEMMA AppendFacts ==
    ASSUME NEW q \in Seq(Event), IsInjective(q), NEW e \in Event, e \notin ToSet(q)
    PROVE  /\ Append(q, e) \in Seq(Event) /\ Append(q, e) # <<>>
           /\ ToSet(Append(q, e)) = ToSet(q) \cup {e}
           /\ IsInjective(Append(q, e))
<1> DEFINE r == Append(q, e)
<1>1. /\ r \in Seq(Event) /\ Len(r) = Len(q) + 1 /\ Len(q) \in Nat
      /\ DOMAIN r = 1 .. (Len(q) + 1) /\ DOMAIN q = 1 .. Len(q)
      /\ \A i \in 1 .. Len(q) : r[i] = q[i]
      /\ r[Len(q) + 1] = e
  OBVIOUS
<1>2. 1 .. (Len(q) + 1) = (1 .. Len(q)) \cup {Len(q) + 1}
  BY <1>1
<1> HIDE DEF r
<1>3. r # <<>>
  BY <1>1
<1>4. ToSet(r) = ToSet(q) \cup {e}
  BY <1>1, <1>2 DEF ToSet
<1>5. \A i \in 1 .. Len(q) : q[i] # e
  BY <1>1 DEF ToSet
<1>6. IsInjective(r)
  BY <1>1, <1>2, <1>5 DEF IsInjective
<1> QED  BY <1>1, <1>3, <1>4, <1>6 DEF r

LEMMA TailFacts ==
    ASSUME NEW q \in Seq(Event), IsInjective(q), q # <<>>
    PROVE  /\ Head(q) \in ToSet(q)
           /\ Tail(q) \in Seq(Event)
           /\ ToSet(Tail(q)) = ToSet(q) \ {Head(q)}
           /\ IsInjective(Tail(q))
<1> DEFINE r == Tail(q)
<1>1. /\ Len(q) \in Nat /\ Len(q) > 0 /\ Head(q) = q[1]
      /\ r \in Seq(Event) /\ Len(r) = Len(q) - 1
      /\ DOMAIN r = 1 .. (Len(q) - 1) /\ DOMAIN q = 1 .. Len(q)
      /\ \A i \in 1 .. (Len(q) - 1) : r[i] = q[i + 1]
  OBVIOUS
<1> HIDE DEF r
<1>2. 1 \in 1 .. Len(q) /\ \A i \in 1 .. (Len(q) - 1) : i + 1 \in 1 .. Len(q) /\ i + 1 # 1
  BY <1>1
<1>3. Head(q) \in ToSet(q)
  BY <1>1, <1>2 DEF ToSet
<1>4. ASSUME NEW x \in ToSet(r) PROVE x \in ToSet(q) \ {Head(q)}
  <2>1. PICK i \in 1 .. (Len(q) - 1) : x = q[i + 1]
    BY <1>1, <1>4 DEF ToSet
  <2>2. x # q[1]
    BY <1>1, <1>2, <2>1 DEF IsInjective
  <2> QED  BY <1>1, <1>2, <2>1, <2>2 DEF ToSet
<1>5. ASSUME NEW x \in ToSet(q) \ {Head(q)} PROVE x \in ToSet(r)
  <2>1. PICK i \in 1 .. Len(q) : x = q[i]
    BY <1>1, <1>5 DEF ToSet
  <2>2. i # 1
    BY <1>1, <1>5, <2>1
  <2>3. i - 1 \in 1 .. (Len(q) - 1) /\ (i - 1) + 1 = i
    BY <1>1, <2>1, <2>2
  <2>4. r[i - 1] = x
    BY <1>1, <2>1, <2>3
  <2> QED  BY <1>1, <2>3, <2>4 DEF ToSet
<1>6. IsInjective(r)
  <2> SUFFICES ASSUME NEW i \in 1 .. (Len(q) - 1), NEW j \in 1 .. (Len(q) - 1), r[i] = r[j]
               PROVE  i = j
    BY <1>1 DEF IsInjective
  <2>1. q[i + 1] = q[j + 1]
    BY <1>1
  <2>2. i + 1 = j + 1
    BY <1>1, <1>2, <2>1 DEF IsInjective
  <2> QED  BY <2>2
<1> QED  BY <1>1, <1>3, <1>4, <1>5, <1>6 DEF r

LEMMA SetFacts ==
    ASSUME NEW S \in SUBSET Event, NEW e
    PROVE  /\ IsFiniteSet(S) /\ Cardinality(S) \in Nat
           /\ e \notin S => Cardinality(S \cup {e}) = Cardinality(S) + 1
           /\ e \in S => Cardinality(S \ {e}) = Cardinality(S) - 1 /\ Cardinality(S) > 0
           /\ e \notin S => S \ {e} = S
<1>1. IsFiniteSet(S)
  BY EventAssumption, FS_Subset
<1>2. Cardinality(S) \in Nat
  BY <1>1, FS_CardinalityType
<1>3. e \in S => Cardinality(S) # 0
  BY <1>1, FS_EmptySet
<1>4. Cardinality(S \cup {e}) = IF e \in S THEN Cardinality(S) ELSE Cardinality(S) + 1
  BY <1>1, FS_AddElement
<1>5. Cardinality(S \ {e}) = IF e \in S THEN Cardinality(S) - 1 ELSE Cardinality(S)
  BY <1>1, FS_RemoveElement
<1>6. e \notin S => S \ {e} = S
  OBVIOUS
<1> QED  BY <1>1, <1>2, <1>3, <1>4, <1>5, <1>6
-----------------------------------------------------------------------------
(***************************************************************************)
(* Taking and giving back a slot.                                          *)
(***************************************************************************)
\* What acquireForwardSlot and releaseForwardSlot do to the queue
Moved(S) ==
    /\ pc' \in [Event -> Place] /\ inFlight' \in Nat /\ waiters' \in Seq(Event)
    /\ inFlight' = Cardinality(Where("sending")') /\ inFlight' <= MaxInFlight
    /\ ToSet(waiters') = Where("waiting")' /\ IsInjective(waiters')
    /\ waiters' # <<>> => inFlight' + Cardinality(Where("woken")') >= MaxInFlight
    /\ Unfinished' = S

LEMMA AcquireFacts ==
    ASSUME QueueInv, js # "exited", NEW e \in Event, NEW k,
           pc[e] \in {"unheard", "woken", "sleeping"}, AcquireForwardSlot(e, k)
    PROVE  Moved(Unfinished \cup {e})
<1>0. /\ pc \in [Event -> Place] /\ inFlight \in Nat /\ waiters \in Seq(Event)
      /\ inFlight = Cardinality(Where("sending")) /\ inFlight <= MaxInFlight
      /\ ToSet(waiters) = Where("waiting") /\ IsInjective(waiters)
      /\ waiters # <<>> => inFlight + Cardinality(Where("woken")) >= MaxInFlight
      /\ MaxInFlight \in Nat
  BY LimitAssumption DEF QueueInv, QueueTypeOK, SlotsExact, NoLostWakeup
<1>1. /\ Where("sending") \in SUBSET Event /\ Where("woken") \in SUBSET Event
      /\ e \notin Where("sending") /\ e \notin Where("waiting")
  BY DEF Where
<1> DEFINE n == Cardinality(Where("woken"))
           m == Cardinality(Where("woken") \ {e})
<1>2. n \in Nat /\ m \in Nat /\ (m = n \/ m = n - 1)
  <2>1. n \in Nat /\ (e \in Where("woken") => m = n - 1 /\ n > 0) /\ (e \notin Where("woken") => m = n)
    BY <1>1, SetFacts
  <2> HIDE DEF n, m
  <2> QED  BY <2>1
<1>3. ASSUME NEW l \in Place, pc' = [pc EXCEPT ![e] = l]
      PROVE  /\ pc' \in [Event -> Place] /\ pc'[e] = l
             /\ \A x \in Event \ {e} : pc'[x] = pc[x]
  BY <1>0, <1>3
<1>4. CASE inFlight < MaxInFlight
  <2>1. inFlight' = inFlight + 1 /\ pc' = [pc EXCEPT ![e] = "sending"] /\ waiters' = waiters
    BY <1>4 DEF AcquireForwardSlot, Goto
  <2>2. /\ pc' \in [Event -> Place] /\ pc'[e] = "sending"
        /\ \A x \in Event \ {e} : pc'[x] = pc[x]
    BY <1>3, <2>1 DEF Place
  <2>3. /\ Where("sending")' = Where("sending") \cup {e}
        /\ Where("waiting")' = Where("waiting")
        /\ Where("woken")' = Where("woken") \ {e}
    BY <2>2 DEF Where
  <2>4. Unfinished' = Unfinished \cup {e}
    BY <2>2 DEF Unfinished, Active
  <2>5. inFlight' = Cardinality(Where("sending")') /\ inFlight' <= MaxInFlight /\ inFlight' \in Nat
    BY <1>0, <1>1, <1>4, <2>1, <2>3, SetFacts
  <2>6. waiters' # <<>> => inFlight' + Cardinality(Where("woken")') >= MaxInFlight
    <3>1. Cardinality(Where("woken")') = m
      BY <2>3
    <3>2. waiters # <<>> => inFlight + n >= MaxInFlight
      BY <1>0
    <3> HIDE DEF n, m
    <3> QED  BY <1>0, <1>2, <2>1, <3>1, <3>2
  <2> QED  BY <1>0, <2>1, <2>2, <2>3, <2>4, <2>5, <2>6 DEF Moved
<1>5. CASE inFlight >= MaxInFlight
  <2>1. inFlight' = inFlight /\ pc' = [pc EXCEPT ![e] = "waiting"] /\ waiters' = Append(waiters, e)
    BY <1>0, <1>5 DEF AcquireForwardSlot, Goto
  <2>2. /\ pc' \in [Event -> Place] /\ pc'[e] = "waiting"
        /\ \A x \in Event \ {e} : pc'[x] = pc[x]
    BY <1>3, <2>1 DEF Place
  <2>3. /\ Where("sending")' = Where("sending")
        /\ Where("waiting")' = Where("waiting") \cup {e}
        /\ Where("woken")' = Where("woken") \ {e}
    BY <1>1, <2>2 DEF Where
  <2>4. Unfinished' = Unfinished \cup {e}
    BY <2>2 DEF Unfinished, Active
  <2>5. waiters' \in Seq(Event) /\ ToSet(waiters') = Where("waiting")' /\ IsInjective(waiters')
    BY <1>0, <1>1, <2>1, <2>3, AppendFacts
  <2>6. inFlight' + Cardinality(Where("woken")') >= MaxInFlight
    <3>1. Cardinality(Where("woken")') = m
      BY <2>3
    <3> HIDE DEF n, m
    <3> QED  BY <1>0, <1>2, <1>5, <2>1, <3>1
  <2> QED  BY <1>0, <2>1, <2>2, <2>3, <2>4, <2>5, <2>6 DEF Moved
<1> QED  BY <1>0, <1>4, <1>5

LEMMA ReleaseFacts ==
    ASSUME QueueInv, js # "exited", NEW e \in Event, pc[e] = "sending",
           NEW l \in {"done", "failed", "sleeping"}, ReleaseForwardSlot(e, l)
    PROVE  Moved(IF l = "sleeping" THEN Unfinished ELSE Unfinished \ {e})
<1>0. /\ pc \in [Event -> Place] /\ inFlight \in Nat /\ waiters \in Seq(Event)
      /\ inFlight = Cardinality(Where("sending")) /\ inFlight <= MaxInFlight
      /\ ToSet(waiters) = Where("waiting") /\ IsInjective(waiters)
      /\ waiters # <<>> => inFlight + Cardinality(Where("woken")) >= MaxInFlight
      /\ MaxInFlight \in Nat
  BY LimitAssumption DEF QueueInv, QueueTypeOK, SlotsExact, NoLostWakeup
<1>1. /\ Where("sending") \in SUBSET Event /\ Where("woken") \in SUBSET Event
      /\ e \in Where("sending") /\ l \in Place
  BY DEF Where, Place
<1>2. inFlight' = inFlight - 1
  BY DEF ReleaseForwardSlot
<1>3. /\ Cardinality(Where("woken")) \in Nat
      /\ inFlight - 1 = Cardinality(Where("sending") \ {e}) /\ inFlight - 1 \in Nat
      /\ inFlight - 1 <= MaxInFlight
  <2>1. /\ Cardinality(Where("woken")) \in Nat
        /\ Cardinality(Where("sending") \ {e}) = Cardinality(Where("sending")) - 1
        /\ Cardinality(Where("sending")) > 0
    BY <1>1, SetFacts
  <2> QED  BY <1>0, <2>1
<1>4. CASE waiters = <<>>
  <2>1. pc' = [x \in Event |-> IF x = e THEN l ELSE pc[x]] /\ waiters' = waiters
    BY <1>4 DEF ReleaseForwardSlot
  <2>2. pc' \in [Event -> Place] /\ pc'[e] = l /\ \A x \in Event \ {e} : pc'[x] = pc[x]
    BY <1>0, <1>1, <2>1
  <2>3. /\ Where("sending")' = Where("sending") \ {e}
        /\ Where("waiting")' = Where("waiting")
    BY <2>2 DEF Where
  <2>4. Unfinished' = IF l = "sleeping" THEN Unfinished ELSE Unfinished \ {e}
    BY <2>2 DEF Unfinished, Active
  <2> QED  BY <1>0, <1>2, <1>3, <1>4, <2>1, <2>2, <2>3, <2>4 DEF Moved
<1>5. CASE waiters # <<>>
  <2> DEFINE h == Head(waiters)
  <2>1. /\ h \in Where("waiting") /\ Tail(waiters) \in Seq(Event)
        /\ ToSet(Tail(waiters)) = Where("waiting") \ {h} /\ IsInjective(Tail(waiters))
    BY <1>0, <1>5, TailFacts
  <2>2. /\ pc' = [x \in Event |-> IF x = e THEN l ELSE IF x = h THEN "woken" ELSE pc[x]]
        /\ waiters' = Tail(waiters)
    BY <1>5 DEF ReleaseForwardSlot
  <2> HIDE DEF h
  <2>3. h \in Event /\ h # e /\ pc[h] = "waiting"
    BY <2>1 DEF Where
  <2>4. /\ pc' \in [Event -> Place] /\ pc'[e] = l /\ pc'[h] = "woken"
        /\ \A x \in Event \ {e, h} : pc'[x] = pc[x]
    BY <1>0, <1>1, <2>2, <2>3 DEF Place
  <2>5. /\ Where("sending")' = Where("sending") \ {e}
        /\ Where("waiting")' = Where("waiting") \ {h}
        /\ Where("woken")' = Where("woken") \cup {h} /\ h \notin Where("woken")
    BY <2>3, <2>4 DEF Where
  <2>6. Unfinished' = IF l = "sleeping" THEN Unfinished ELSE Unfinished \ {e}
    BY <2>3, <2>4 DEF Unfinished, Active
  <2>7. inFlight' + Cardinality(Where("woken")') >= MaxInFlight
    <3>1. Cardinality(Where("woken")') = Cardinality(Where("woken")) + 1
      BY <1>1, <2>5, SetFacts
    <3> QED  BY <1>0, <1>2, <1>3, <1>5, <3>1
  <2> QED  BY <1>0, <1>2, <1>3, <2>1, <2>2, <2>4, <2>5, <2>6, <2>7 DEF Moved
<1> QED  BY <1>4, <1>5
-----------------------------------------------------------------------------
(***************************************************************************)
(* The queue through every step.                                           *)
(***************************************************************************)
LEMMA QueueStep ==
    ASSUME NEW S, Moved(S), js' \in {"running", "stopping"},
           reserved' \in Nat, reserved' = Cardinality(S), reserved' <= MaxInFlight + MaxQueued
    PROVE  QueueInv'
<1>1. {e \in Event : Active(e)}' = S
  BY DEF Moved, Unfinished
<1>2. QueueTypeOK'
  BY DEF Moved, QueueTypeOK
<1>3. SlotsExact'
  BY <1>1 DEF Moved, SlotsExact
<1>4. NoLostWakeup'
  BY DEF Moved, NoLostWakeup
<1> QED  BY <1>2, <1>3, <1>4 DEF QueueInv

LEMMA BudgetFacts ==
    ASSUME QueueInv, js # "exited"
    PROVE  /\ reserved \in Nat /\ reserved = Cardinality(Unfinished)
           /\ reserved <= MaxInFlight + MaxQueued
           /\ Unfinished \in SUBSET Event
           /\ js \in {"running", "stopping"}
           /\ MaxInFlight \in Nat /\ MaxQueued \in Nat
BY LimitAssumption DEF QueueInv, QueueTypeOK, SlotsExact, Unfinished

LEMMA HearQueue ==
    ASSUME QueueInv, NEW e \in Event, Hear(e)
    PROVE  QueueInv'
<1>1. /\ js = "running" /\ pc[e] = "unheard" /\ js' = js
      /\ reserved < MaxInFlight + MaxQueued /\ reserved' = reserved + 1
      /\ AcquireForwardSlot(e, 0)
  BY DEF Hear
<1>2. Moved(Unfinished \cup {e})
  BY <1>1, AcquireFacts
<1>3. /\ reserved \in Nat /\ reserved = Cardinality(Unfinished) /\ Unfinished \in SUBSET Event
      /\ MaxInFlight \in Nat /\ MaxQueued \in Nat
  BY <1>1, BudgetFacts
<1>4. e \notin Unfinished
  BY <1>1 DEF Unfinished, Active
<1>5. reserved' = Cardinality(Unfinished \cup {e})
  BY <1>1, <1>3, <1>4, SetFacts
<1>6. reserved' \in Nat /\ reserved' <= MaxInFlight + MaxQueued
  BY <1>1, <1>3
<1> QED  BY <1>1, <1>2, <1>5, <1>6, QueueStep

\* A step that keeps the budget, and with it the set of unfinished forwards
LEMMA SameBudget ==
    ASSUME QueueInv, js # "exited", js' = js, reserved' = reserved, Moved(Unfinished)
    PROVE  QueueInv'
BY BudgetFacts, QueueStep

LEMMA AcquireQueue ==
    ASSUME QueueInv, NEW e \in Event, Wake(e) \/ Retry(e)
    PROVE  QueueInv'
<1>1. /\ js # "exited" /\ js' = js /\ reserved' = reserved
      /\ pc[e] \in {"woken", "sleeping"}
      /\ \E k : AcquireForwardSlot(e, k)
  BY DEF Wake, Retry
<1>2. Moved(Unfinished \cup {e})
  BY <1>1, AcquireFacts
<1>3. Unfinished \cup {e} = Unfinished
  BY <1>1 DEF Unfinished, Active
<1> QED  BY <1>1, <1>2, <1>3, SameBudget

LEMMA EndQueue ==
    ASSUME QueueInv, js # "exited", js' \in {"running", "stopping"}, NEW e \in Event, pc[e] = "sending",
           NEW l \in {"done", "failed"}, ReleaseForwardSlot(e, l), reserved' = reserved - 1
    PROVE  QueueInv'
<1>1. Moved(Unfinished \ {e})
  <2>1. Moved(IF l = "sleeping" THEN Unfinished ELSE Unfinished \ {e})
    BY ReleaseFacts
  <2>2. l # "sleeping"
    OBVIOUS
  <2> QED  BY <2>1, <2>2
<1>2. /\ reserved \in Nat /\ reserved = Cardinality(Unfinished) /\ Unfinished \in SUBSET Event
      /\ reserved <= MaxInFlight + MaxQueued /\ MaxInFlight \in Nat /\ MaxQueued \in Nat
  BY BudgetFacts
<1>3. e \in Unfinished
  BY DEF Unfinished, Active
<1>4. Cardinality(Unfinished \ {e}) = Cardinality(Unfinished) - 1 /\ Cardinality(Unfinished) > 0
  BY <1>2, <1>3, SetFacts
<1>5. reserved' = Cardinality(Unfinished \ {e}) /\ reserved' \in Nat
      /\ reserved' <= MaxInFlight + MaxQueued
  BY <1>2, <1>4
<1> QED  BY <1>1, <1>5, QueueStep

LEMMA BacksOffQueue ==
    ASSUME QueueInv, js # "exited", NEW e \in Event, pc[e] = "sending", BacksOff(e)
    PROVE  QueueInv'
<1>1. ReleaseForwardSlot(e, "sleeping") /\ js' = js /\ reserved' = reserved
  BY DEF BacksOff
<1>2. Moved(IF "sleeping" = "sleeping" THEN Unfinished ELSE Unfinished \ {e})
  BY <1>1, ReleaseFacts
<1>3. Moved(Unfinished)
  BY <1>2
<1> QED  BY <1>1, <1>3, SameBudget

LEMMA ForwardQueue ==
    ASSUME QueueInv, NEW e \in Event, ForwardDone(e) \/ ForwardRefused(e) \/ ForwardBroken(e)
    PROVE  QueueInv'
<1>1. js # "exited" /\ pc[e] = "sending" /\ js \in {"running", "stopping"}
  BY DEF ForwardDone, ForwardRefused, ForwardBroken, QueueInv, QueueTypeOK
<1>2. CASE ForwardDone(e)
  BY <1>1, <1>2, EndQueue DEF ForwardDone
<1>3. CASE BacksOff(e)
  BY <1>1, <1>3, BacksOffQueue
<1>4. CASE GivesUp(e)
  BY <1>1, <1>4, EndQueue DEF GivesUp, Shutdown
<1> QED  BY <1>2, <1>3, <1>4 DEF ForwardRefused, ForwardBroken

LEMMA HearTooMuchQueue ==
    ASSUME QueueInv, NEW e \in Event, HearTooMuch(e)
    PROVE  QueueInv'
<1>1. /\ js = "running" /\ js' = "stopping" /\ pc[e] = "unheard" /\ pc' = [pc EXCEPT ![e] = "refused"]
      /\ UNCHANGED <<reserved, inFlight, waiters>>
  BY DEF HearTooMuch, Shutdown, Goto
<1>2. pc \in [Event -> Place]
  BY DEF QueueInv, QueueTypeOK
<1>3. /\ pc' \in [Event -> Place] /\ pc'[e] = "refused"
      /\ \A x \in Event \ {e} : pc'[x] = pc[x]
  BY <1>1, <1>2 DEF Place
<1>4. /\ Where("sending")' = Where("sending") /\ Where("waiting")' = Where("waiting")
      /\ Where("woken")' = Where("woken")
  BY <1>1, <1>3 DEF Where
<1>5. Unfinished' = Unfinished
  BY <1>1, <1>3 DEF Unfinished, Active
<1>6. Moved(Unfinished)
  BY <1>1, <1>3, <1>4, <1>5 DEF Moved, QueueInv, QueueTypeOK, SlotsExact, NoLostWakeup
<1> QED  BY <1>1, <1>6, BudgetFacts, QueueStep

\* The sidecar's forwards stay where they are.
LEMMA IdleQueue ==
    ASSUME QueueInv, UNCHANGED <<pc, reserved, inFlight, waiters>>,
           js' \in {"running", "stopping", "exited"}, js = "exited" => js' = "exited"
    PROVE  QueueInv'
<1>1. /\ Where("sending")' = Where("sending") /\ Where("waiting")' = Where("waiting")
      /\ Where("woken")' = Where("woken") /\ {e \in Event : Active(e)}' = {e \in Event : Active(e)}
  BY DEF Where, Active
<1>2. QueueTypeOK'
  BY DEF QueueInv, QueueTypeOK
<1>3. SlotsExact'
  BY <1>1 DEF QueueInv, SlotsExact
<1>4. NoLostWakeup'
  BY <1>1 DEF QueueInv, NoLostWakeup
<1> QED  BY <1>2, <1>3, <1>4 DEF QueueInv

LEMMA ExitQueue ==
    ASSUME QueueInv, ExitSidecar
    PROVE  QueueInv'
<1>1. /\ js' = "exited" /\ reserved' = 0 /\ inFlight' = 0 /\ waiters' = <<>>
      /\ pc' = [e \in Event |-> IF Active(e) THEN "lost" ELSE pc[e]]
  BY DEF ExitSidecar
<1>2. pc' \in [Event -> Place]
  BY <1>1 DEF QueueInv, QueueTypeOK, Place
<1>3. QueueTypeOK'
  BY <1>1, <1>2 DEF QueueTypeOK
<1> QED  BY <1>1, <1>3 DEF QueueInv, SlotsExact, NoLostWakeup

LEMMA InitQueue == Init => QueueInv
<1> SUFFICES ASSUME Init PROVE QueueInv
  OBVIOUS
<1>1. /\ pc = [e \in Event |-> "unheard"] /\ js = "running" /\ reserved = 0 /\ inFlight = 0
      /\ waiters = <<>>
  BY DEF Init
<1>2. Where("sending") = {} /\ Where("waiting") = {} /\ {e \in Event : Active(e)} = {}
  BY <1>1 DEF Where, Active
<1>3. QueueTypeOK
  BY <1>1 DEF QueueTypeOK, Place
<1>4. SlotsExact
  <2>1. Cardinality(Where("sending")) = 0 /\ Cardinality({e \in Event : Active(e)}) = 0
    BY <1>2, FS_EmptySet
  <2>2. 0 <= MaxInFlight /\ 0 <= MaxInFlight + MaxQueued
    BY LimitAssumption
  <2> QED  BY <1>1, <2>1, <2>2 DEF SlotsExact
<1>5. NoLostWakeup
  BY <1>1, <1>2 DEF NoLostWakeup, ToSet, IsInjective
<1> QED  BY <1>3, <1>4, <1>5 DEF QueueInv

\* The receiver does not touch the sidecar.
LEMMA ReceivingFrame ==
    ASSUME NEW c \in Conn, Receiving(c)
    PROVE  UNCHANGED <<cfg, sidecar>>
<1>1. CASE AcceptSidecarConnection(c) \/ ExampleAccept(c)
  BY <1>1, Zenon DEF AcceptSidecarConnection, ExampleAccept
<1>2. CASE HandleSidecarConnection(c) \/ ExampleServe(c)
  BY <1>2, Zenon DEF HandleSidecarConnection, ExampleServe
<1>3. CASE BotServe(c)
  BY <1>3, Zenon DEF BotServe
<1>4. CASE WriteFails(c) \/ WriteResponse(c) \/ HandOver(c) \/ ExampleAnswer(c)
  BY <1>4, Zenon DEF WriteFails, WriteResponse, HandOver, ExampleAnswer
<1> QED  BY <1>1, <1>2, <1>3, <1>4 DEF Receiving

LEMMA NextQueue ==
    ASSUME QueueInv, [Next]_vars
    PROVE  QueueInv'
<1>0. js \in {"running", "stopping", "exited"}
  BY DEF QueueInv, QueueTypeOK
<1>1. ASSUME NEW e \in Event, Hear(e) \/ HearTooMuch(e) \/ Forwarding(e) PROVE QueueInv'
  BY <1>1, HearQueue, HearTooMuchQueue, AcquireQueue, ForwardQueue DEF Forwarding
<1>2. CASE Signal
  BY <1>2, IdleQueue DEF Signal, Shutdown
<1>3. CASE ExitSidecar
  BY <1>3, ExitQueue
<1>4. CASE UNCHANGED sidecar
  BY <1>0, <1>4, IdleQueue DEF sidecar
<1>5. PrintEvent \/ AcceptFails \/ RecvNone \/ Over \/ UNCHANGED vars => UNCHANGED sidecar
  BY DEF PrintEvent, AcceptFails, RecvNone, Over, vars, sidecar
<1>6. ASSUME NEW c \in Conn, Receiving(c) PROVE UNCHANGED sidecar
  BY <1>6, ReceivingFrame
<1> QED  BY <1>1, <1>2, <1>3, <1>4, <1>5, <1>6 DEF Next

\* The slots and the budget of the forward queue never leak and never exceed
\* their limits.
THEOREM NoSlotLeaks == Spec => []SlotsExact
<1>1. QueueInv /\ [Next]_vars => QueueInv'
  BY NextQueue
<1>2. QueueInv => SlotsExact
  BY DEF QueueInv
<1> QED  BY InitQueue, <1>1, <1>2, PTL DEF Spec

\* No wake-up is lost: while somebody waits, every slot is taken or has a
\* woken waiter on its way to it.
THEOREM WaitersAreWoken == Spec => []NoLostWakeup
<1>1. QueueInv /\ [Next]_vars => QueueInv'
  BY NextQueue
<1>2. QueueInv => NoLostWakeup
  BY DEF QueueInv
<1> QED  BY InitQueue, <1>1, <1>2, PTL DEF Spec
-----------------------------------------------------------------------------
(***************************************************************************)
(* Replies of the bot.                                                     *)
(***************************************************************************)
\* What an event says of its message is true, as far as it says anything.
Truthful == \A g \in Configs : /\ g.said.room \in {g.truth.room, "none"}
                               /\ g.said.person \in {g.truth.person, "none"}

Decides(x, y, r) == Decide(x, y, r, FALSE) = SendReply

\* The decision to reply is one about the message as Webex has it.
LEMMA DecideFacts ==
    ASSUME NEW x \in Message, NEW y \in Message, NEW r,
           x.room \in {y.room, "none"}, x.person \in {y.person, "none"},
           Decides(x, y, r)
    PROVE  y.room = "allowed" /\ y.person # "self"
<1>0. /\ x.room \in {"allowed", "denied", "none"} /\ x.person \in {"self", "other", "none"}
      /\ y.room \in {"allowed", "denied", "none"} /\ y.person \in {"self", "other", "none"}
  BY DEF Message
<1>1. ASSUME NEW why PROVE Ignored(why) # SendReply
  BY DEF Ignored, SendReply
<1>2. ASSUME NEW why, NEW n PROVE Failure(why, n) # SendReply
  BY DEF Failure, SendReply
<1>3. HydrationFailure(r) # SendReply
  BY <1>1, <1>2 DEF HydrationFailure, ApiFailure, OtherFailure
<1>4. x.room # "denied" /\ Judge(Hydrated(x, y), FALSE) = SendReply
  BY <1>1, <1>3 DEF Decides, Decide
<1> DEFINE z == Hydrated(x, y)
<1>5. z.room \notin {"none", "denied"} /\ z.person # "self"
  BY <1>1, <1>4 DEF Judge
<1>6. CASE NeedsHydration(x)
  <2>1. z = [room   |-> IF x.room = "none" THEN y.room ELSE x.room,
             person |-> IF x.person = "none" THEN y.person ELSE x.person]
    BY <1>6 DEF Hydrated, Merge
  <2> HIDE DEF z
  <2>2. z.room = y.room /\ z.person = y.person
    BY <2>1
  <2> QED  BY <1>0, <1>5, <2>2
<1>7. CASE ~NeedsHydration(x)
  <2>1. z = x /\ x.room # "none" /\ x.person # "none"
    BY <1>7 DEF Hydrated, NeedsHydration
  <2> QED  BY <1>0, <1>5, <2>1
<1> QED  BY <1>6, <1>7

\* What reading a request may end in
LEMMA ResultFacts ==
    ASSUME NEW s \in Server, NEW req
    PROVE  Results(s, req) \subseteq {"request", "error", "timeout"}
<1>1. ASSUME NEW n PROVE ReadStep(s, req, n) \in {"more", "request", "error"}
  <2>1. /\ BotParse(req) \in {"request", "error"} /\ CliParse(req) \in {"request", "error"}
        /\ ExampleParse(req) \in {"request", "error"}
    BY DEF BotParse, CliParse, ExampleParse
  <2>2. HeaderStep(n) \in {"more", "error"}
    BY DEF HeaderStep
  <2>3. ASSUME NEW l, NEW p \in {"request", "error"}
        PROVE  BodyStep(req, n, l, p) \in {"more", "request", "error"}
    BY DEF BodyStep
  <2>4. BotRead(req, n) \in {"more", "request", "error"}
    BY <2>1, <2>2, <2>3 DEF BotRead
  <2>5. CliRead(req, n) \in {"more", "request", "error"}
    BY <2>1, <2>2, <2>3 DEF CliRead
  <2>6. ExampleRead(req, n) \in {"more", "request", "error"}
    BY <2>1, <2>2, <2>3 DEF ExampleRead
  <2> QED  BY <2>4, <2>5, <2>6 DEF ReadStep, Server
<1> QED  BY <1>1 DEF Results

\* What the bot may do with an event
LEMMA BotServeFacts ==
    ASSUME NEW c \in Conn, BotServe(c)
    PROVE  \/ "error" \in ReadResults(c) /\ Answering(c, BadRequest) /\ UNCHANGED replied
           \/ Answering(c, RequestTimeout) /\ UNCHANGED replied
           \/ LET a == HandleSidecarRequest(Forwarded, cfg.path, cfg.health, cfg.secured)
              IN  ~a.event /\ Answering(c, a) /\ UNCHANGED replied
           \/ Answering(c, Busy) /\ UNCHANGED replied
           \/ \E r1, r2 \in ApiResult : BotDeals(c, r1, r2)
<1> DEFINE a == HandleSidecarRequest(Forwarded, cfg.path, cfg.health, cfg.secured)
<1>1. cfg.server \in Server
  BY DEF BotServe, Server
<1>2. PICK r \in ReadResults(c) :
        CASE r = "error"   -> Answering(c, BadRequest) /\ UNCHANGED <<printed, replied>>
          [] r = "timeout" -> Answering(c, RequestTimeout) /\ UNCHANGED <<printed, replied>>
          [] r = "request" ->
               \/ /\ Forwarded.path = cfg.path /\ Answering(c, Busy)
                  /\ UNCHANGED <<printed, replied>>
               \/ ~a.event /\ Answering(c, a) /\ UNCHANGED <<printed, replied>>
               \/ a.event /\ \E r1, r2 \in ApiResult : BotDeals(c, r1, r2)
  BY Zenon DEF BotServe
<1> HIDE DEF a
<1>3. r \in {"request", "error", "timeout"}
  BY <1>1, ResultFacts DEF ReadResults
<1>4. CASE r = "error"
  <2>1. Answering(c, BadRequest) /\ UNCHANGED <<printed, replied>>
    BY <1>2, <1>4
  <2> QED  BY <1>4, <2>1
<1>5. CASE r = "timeout"
  <2>1. Answering(c, RequestTimeout) /\ UNCHANGED <<printed, replied>>
    BY <1>2, <1>5
  <2> QED  BY <2>1
<1>6. CASE r = "request"
  <2>1. \/ Answering(c, Busy) /\ UNCHANGED <<printed, replied>>
        \/ ~a.event /\ Answering(c, a) /\ UNCHANGED <<printed, replied>>
        \/ \E r1, r2 \in ApiResult : BotDeals(c, r1, r2)
    BY <1>2, <1>6
  <2>2. CASE ~a.event /\ Answering(c, a) /\ UNCHANGED <<printed, replied>>
    BY <2>2 DEF a
  <2> QED  BY <2>1, <2>2
<1> QED  BY <1>3, <1>4, <1>5, <1>6

ForeignInv == cfg \in Configs /\ NoForeignReply

LEMMA NextForeign ==
    ASSUME Truthful, ForeignInv, [Next]_vars
    PROVE  ForeignInv'
<1>1. CASE UNCHANGED <<cfg, replied>>
  BY <1>1 DEF ForeignInv, NoForeignReply
<1>2. ASSUME NEW c \in Conn, Receiving(c) PROVE ForeignInv'
  <2>1. cfg' = cfg
    BY <1>2, ReceivingFrame
  <2>2. ASSUME BotServe(c), replied' # replied
        PROVE  cfg.truth.room = "allowed" /\ cfg.truth.person # "self"
    <3>1. PICK r1 \in ApiResult, r2 \in ApiResult : BotDeals(c, r1, r2)
      BY <2>2, BotServeFacts
    <3>2. Decide(cfg.said, cfg.truth, r1, FALSE) = SendReply
      BY <2>2, <3>1 DEF BotDeals
    <3>3. PICK x \in Message : x = cfg.said
      BY ConfigAssumption DEF ForeignInv, Config
    <3>4. PICK y \in Message : y = cfg.truth
      BY ConfigAssumption DEF ForeignInv, Config
    <3>5. x.room \in {y.room, "none"} /\ x.person \in {y.person, "none"}
      BY <3>3, <3>4 DEF ForeignInv, Truthful
    <3>6. Decides(x, y, r1)
      BY <3>2, <3>3, <3>4 DEF Decides
    <3>7. y.room = "allowed" /\ y.person # "self"
      BY <3>5, <3>6, DecideFacts
    <3> QED  BY <3>4, <3>7
  <2>3. CASE BotServe(c)
    BY <2>1, <2>2, <2>3 DEF ForeignInv, NoForeignReply
  <2>4. CASE ~BotServe(c)
    <3>1. UNCHANGED replied
      BY <1>2, <2>4, Zenon DEF Receiving, AcceptSidecarConnection, ExampleAccept, HandleSidecarConnection,
                               ExampleServe, WriteFails, WriteResponse, HandOver, ExampleAnswer
    <3> QED  BY <1>1, <2>1, <3>1
  <2> QED  BY <2>3, <2>4
<1>3. ASSUME NEW e \in Event, Hear(e) \/ HearTooMuch(e) \/ Forwarding(e) PROVE UNCHANGED <<cfg, replied>>
  BY <1>3 DEF Hear, HearTooMuch, Forwarding, Wake, ForwardDone, ForwardRefused, ForwardBroken, Retry, receiver
<1>4. Signal \/ ExitSidecar \/ PrintEvent \/ AcceptFails \/ RecvNone \/ Over \/ UNCHANGED vars
        => UNCHANGED <<cfg, replied>>
  BY DEF Signal, ExitSidecar, PrintEvent, AcceptFails, RecvNone, Over, vars, receiver
<1> QED  BY <1>1, <1>2, <1>3, <1>4 DEF Next

\* If events do not lie about their messages, the bot never replies to itself,
\* nor outside of the rooms it is allowed.
THEOREM RepliesWhereAllowed ==
    ASSUME Truthful
    PROVE  Spec => []NoForeignReply
<1>1. Init => ForeignInv
  BY DEF Init, ForeignInv, NoForeignReply
<1>2. ForeignInv /\ [Next]_vars => ForeignInv'
  BY NextForeign
<1>3. ForeignInv => NoForeignReply
  BY DEF ForeignInv
<1> QED  BY <1>1, <1>2, <1>3, PTL DEF Spec
-----------------------------------------------------------------------------
(***************************************************************************)
(* Answers.  A connection whose client has gone may get any answer; the    *)
(* request that a client still waits for gets one that is good for it.     *)
(***************************************************************************)
Stage == {"none", "backlog", "reading", "answering", "handing", "over"}
Answers == [status : Nat, event : BOOLEAN, final : BOOLEAN]
Link == [stage : Stage, answer : Answers, written : BOOLEAN]

ConnTypeOK ==
    /\ cfg \in Configs /\ Starts(cfg)
    /\ attempt \in [Event -> 0 .. MaxRetries]
    /\ conn \in [Conn -> Link]

RetryInv ==
    \A e \in Event : /\ attempt[e] <= cfg.retries
                     /\ pc[e] = "sleeping" => attempt[e] < cfg.retries
                     /\ pc[e] = "unheard" => attempt[e] = 0

\* A request that has not been sent yet has no connection.
Unsent(e, k) == \/ k > attempt[e] \/ pc[e] = "unheard"
                \/ k = attempt[e] /\ pc[e] \in {"waiting", "woken"}

FreshInv ==
    js # "exited" => \A e \in Event, k \in 0 .. MaxRetries : Unsent(e, k) => conn[<<e, k>>] = NoConn

Good(a) == a.status = 200 \/ Retryable(a.status) \/ a.final

Calm(v) == \/ v.stage \in {"none", "backlog", "reading"} /\ v.written = FALSE
           \/ Good(v.answer)

AnswerInv == Matching => \A c \in Conn : ClientWaits(c) => Calm(conn[c])

ConnInv == ConnTypeOK /\ RetryInv /\ FreshInv /\ AnswerInv

LEMMA NoConnFacts ==
    /\ NoConn \in Link /\ Calm(NoConn) /\ NoConn.written = FALSE /\ NoConn.stage = "none"
    /\ Closed \in Link /\ Closed.stage = "over"
<1>1. NoConn = [stage |-> "none", answer |-> [status |-> 0, event |-> FALSE, final |-> FALSE],
                written |-> FALSE]
  BY DEF NoConn, Answer
<1>2. Closed = [stage |-> "over", answer |-> [status |-> 0, event |-> FALSE, final |-> FALSE],
                written |-> FALSE]
  BY DEF Closed, Answer
<1>3. NoConn \in Link /\ Closed \in Link
  BY <1>1, <1>2 DEF Link, Stage, Answers
<1> QED  BY <1>1, <1>2, <1>3 DEF Calm

\* The receiver changes one connection, one that the sidecar has opened.
LEMMA ReceiverStep ==
    ASSUME ConnInv, NEW c \in Conn, UNCHANGED <<cfg, sidecar>>, NEW v \in Link,
           conn' = [conn EXCEPT ![c] = v], conn[c].stage # "none",
           Matching /\ ClientWaits(c) => Calm(v)
    PROVE  ConnInv'
<1>0. /\ conn \in [Conn -> Link] /\ UNCHANGED <<cfg, js, pc, attempt>>
  BY DEF ConnInv, ConnTypeOK, sidecar
<1>1. /\ conn' \in [Conn -> Link] /\ conn'[c] = v
      /\ \A d \in Conn \ {c} : conn'[d] = conn[d]
  BY <1>0
<1>2. ConnTypeOK' /\ RetryInv'
  <2>1. Starts(cfg)'
    BY <1>0 DEF ConnInv, ConnTypeOK, Starts, BotStarts, CliStarts, ExampleStarts
  <2> QED  BY <1>0, <1>1, <2>1 DEF ConnInv, ConnTypeOK, RetryInv
<1>3. FreshInv'
  <2> SUFFICES ASSUME js # "exited", NEW e \in Event, NEW k \in 0 .. MaxRetries, Unsent(e, k)
               PROVE  conn'[<<e, k>>] = NoConn
    BY <1>0 DEF FreshInv, Unsent
  <2>1. <<e, k>> \in Conn /\ conn[<<e, k>>] = NoConn
    BY DEF Conn, ConnInv, FreshInv
  <2> QED  BY <1>1, <2>1, NoConnFacts
<1>4. AnswerInv'
  <2>1. Matching' = Matching /\ \A d \in Conn : ClientWaits(d)' = ClientWaits(d)
    BY <1>0 DEF Matching, ClientWaits
  <2> QED  BY <1>1, <2>1 DEF ConnInv, AnswerInv
<1> QED  BY <1>2, <1>3, <1>4 DEF ConnInv

LEMMA LinkFacts ==
    ASSUME ConnInv, NEW c \in Conn
    PROVE  /\ conn \in [Conn -> Link] /\ conn[c] \in Link
           /\ conn[c].stage \in Stage /\ conn[c].answer \in Answers /\ conn[c].written \in BOOLEAN
           /\ Matching /\ ClientWaits(c) => Calm(conn[c])
BY DEF ConnInv, ConnTypeOK, AnswerInv, Link

\* An answer is decided on.
LEMMA AnsweringStep ==
    ASSUME ConnInv, NEW c \in Conn, UNCHANGED <<cfg, sidecar>>, NEW a \in Answers, Answering(c, a),
           conn[c].stage # "none", Matching /\ ClientWaits(c) => Good(a)
    PROVE  ConnInv'
<1>0. conn \in [Conn -> Link] /\ conn[c] \in Link /\ conn[c].written \in BOOLEAN
  BY LinkFacts
<1> DEFINE v == [stage |-> "answering", answer |-> a, written |-> conn[c].written]
           f == [conn EXCEPT ![c].stage = "answering"]
<1>1. conn' = [f EXCEPT ![c] = [f[c] EXCEPT !.answer = a]]
  BY DEF Answering
<1>2. f[c] = [stage |-> "answering", answer |-> conn[c].answer, written |-> conn[c].written]
  BY <1>0 DEF Link
<1>3. [f[c] EXCEPT !.answer = a] = v
  BY <1>2
<1>4. f \in [Conn -> Link] /\ \A d \in Conn \ {c} : f[d] = conn[d]
  BY <1>0 DEF Link, Stage
<1> HIDE DEF f
<1>5. v \in Link /\ v.answer = a
  BY <1>0 DEF Link, Stage
<1> HIDE DEF v
<1>6. conn' = [conn EXCEPT ![c] = v]
  BY <1>0, <1>1, <1>3, <1>4
<1>7. Matching /\ ClientWaits(c) => Calm(v)
  BY <1>5 DEF Calm
<1> QED  BY <1>5, <1>6, <1>7, ReceiverStep

LEMMA AnsweredFacts ==
    ASSUME NEW c \in Conn, NEW a \in Answers
    PROVE  /\ Answered(c, a) \in Link
           /\ ClientWaits(c) /\ Good(a) => Calm(Answered(c, a))
<1>1. CASE ClientWaits(c)
  <2>1. Answered(c, a) = [stage |-> "over", answer |-> a, written |-> TRUE]
    BY <1>1 DEF Answered
  <2> QED  BY <2>1 DEF Link, Stage, Calm
<1>2. CASE ~ClientWaits(c)
  BY <1>2, NoConnFacts DEF Answered
<1> QED  BY <1>1, <1>2

LEMMA StatusFacts ==
    /\ \A n \in Nat : Answer(n) \in Answers
    /\ Taken \in Answers /\ Good(Taken) /\ Taken.event = TRUE
    /\ BadRequest \in Answers
    /\ RequestTimeout \in Answers /\ Good(RequestTimeout)
    /\ Busy \in Answers /\ Good(Busy)
<1>1. ASSUME NEW n \in Nat PROVE Answer(n) \in Answers /\ Answer(n).status = n
  BY DEF Answer, Answers
<1>2. Taken = [status |-> 200, event |-> TRUE, final |-> FALSE]
  <2>1. PICK b : b = TRUE
    BY Zenon
  <2>2. PICK n : n = FALSE
    BY Zenon
  <2>3. [[status |-> 200, event |-> n, final |-> n] EXCEPT !.event = b]
          = [status |-> 200, event |-> b, final |-> n]
    OBVIOUS
  <2> QED  BY <2>1, <2>2, <2>3, Zenon DEF Taken, Answer
<1>3. Taken \in Answers /\ Good(Taken) /\ Taken.event = TRUE
  BY <1>2 DEF Answers, Good
<1>4. BadRequest \in Answers /\ RequestTimeout \in Answers /\ Busy \in Answers
  BY <1>1 DEF BadRequest, RequestTimeout, Busy
<1>5. RequestTimeout.status = 408 /\ Busy.status = 503
  BY <1>1 DEF RequestTimeout, Busy
<1>6. Good(RequestTimeout) /\ Good(Busy)
  BY <1>5 DEF Good, Retryable
<1> QED  BY <1>1, <1>3, <1>4, <1>6

LEMMA AcceptConn ==
    ASSUME ConnInv, NEW c \in Conn, AcceptSidecarConnection(c) \/ ExampleAccept(c)
    PROVE  ConnInv'
<1>0. /\ conn \in [Conn -> Link] /\ conn[c] \in Link /\ conn[c].written \in BOOLEAN
      /\ conn[c].answer \in Answers
      /\ Matching /\ ClientWaits(c) => Calm(conn[c])
  BY LinkFacts
<1>1. UNCHANGED <<cfg, sidecar>> /\ conn[c].stage = "backlog"
  BY Zenon DEF AcceptSidecarConnection, ExampleAccept, At
<1>2. CASE conn' = [conn EXCEPT ![c].stage = "reading"]
  <2> DEFINE v == [conn[c] EXCEPT !.stage = "reading"]
  <2>1. /\ v \in Link /\ v.stage = "reading" /\ v.answer = conn[c].answer
        /\ v.written = conn[c].written
    BY <1>0 DEF Link, Stage
  <2>2. conn' = [conn EXCEPT ![c] = v]
    BY <1>2
  <2> HIDE DEF v
  <2>3. Matching /\ ClientWaits(c) => Calm(v)
    BY <1>0, <2>1 DEF Calm
  <2> QED  BY <1>1, <2>1, <2>2, <2>3, ReceiverStep
<1>3. CASE conn' = [conn EXCEPT ![c] = Answered(c, Busy)]
  <2>1. Answered(c, Busy) \in Link /\ (ClientWaits(c) => Calm(Answered(c, Busy)))
    BY AnsweredFacts, StatusFacts
  <2> QED  BY <1>1, <1>3, <2>1, ReceiverStep
<1> QED  BY <1>2, <1>3 DEF AcceptSidecarConnection, ExampleAccept

LEMMA WriteConn ==
    ASSUME ConnInv, NEW c \in Conn, WriteFails(c) \/ WriteResponse(c) \/ HandOver(c)
    PROVE  ConnInv'
<1>0. /\ conn \in [Conn -> Link] /\ conn[c] \in Link /\ conn[c].written \in BOOLEAN
      /\ conn[c].answer \in Answers
      /\ Matching /\ ClientWaits(c) => Calm(conn[c])
  BY LinkFacts
<1>1. UNCHANGED <<cfg, sidecar>> /\ conn[c].stage \in {"answering", "handing"}
  BY Zenon DEF WriteFails, WriteResponse, HandOver, At
<1>2. Matching /\ ClientWaits(c) => Good(conn[c].answer)
  BY <1>0, <1>1 DEF Calm
<1>3. CASE conn' = [conn EXCEPT ![c] = Closed] /\ ~ClientWaits(c)
  BY <1>1, <1>3, NoConnFacts, ReceiverStep
<1>4. CASE conn' = [conn EXCEPT ![c] = Answered(c, conn[c].answer)]
  <2>1. /\ Answered(c, conn[c].answer) \in Link
        /\ Matching /\ ClientWaits(c) => Calm(Answered(c, conn[c].answer))
    BY <1>0, <1>2, AnsweredFacts
  <2> QED  BY <1>1, <1>4, <2>1, ReceiverStep
<1>5. CASE conn' = [conn EXCEPT ![c] = [conn[c] EXCEPT !.stage = "handing", !.written = TRUE]]
  <2> DEFINE v == [stage |-> "handing", answer |-> conn[c].answer, written |-> TRUE]
  <2>1. [conn[c] EXCEPT !.stage = "handing", !.written = TRUE] = v
    <3>1. PICK b : b = TRUE
      BY Zenon
    <3> DEFINE w == [conn[c] EXCEPT !.stage = "handing"]
    <3>2. w = [stage |-> "handing", answer |-> conn[c].answer, written |-> conn[c].written]
      BY <1>0 DEF Link
    <3>3. [conn[c] EXCEPT !.stage = "handing", !.written = b] = [w EXCEPT !.written = b]
      BY Zenon
    <3> HIDE DEF w
    <3>4. [w EXCEPT !.written = b] = [stage |-> "handing", answer |-> conn[c].answer, written |-> b]
      BY <3>2
    <3> QED  BY <3>1, <3>3, <3>4, Zenon
  <2>2. v \in Link /\ v.answer = conn[c].answer
    BY <1>0 DEF Link, Stage
  <2> HIDE DEF v
  <2>3. Matching /\ ClientWaits(c) => Calm(v)
    BY <1>2, <2>2 DEF Calm
  <2>4. conn' = [conn EXCEPT ![c] = v]
    BY <1>5, <2>1
  <2> QED  BY <1>1, <2>2, <2>3, <2>4, ReceiverStep
<1>6. CASE WriteFails(c)
  BY <1>3, <1>6 DEF WriteFails
<1>7. CASE HandOver(c)
  BY <1>4, <1>7 DEF HandOver
<1>8. CASE WriteResponse(c)
  <2>1. CASE conn[c].answer.event
    BY <1>5, <1>8, <2>1, Zenon DEF WriteResponse
  <2>2. CASE ~conn[c].answer.event
    BY <1>4, <1>8, <2>2, Zenon DEF WriteResponse
  <2> QED  BY <2>1, <2>2
<1> QED  BY <1>6, <1>7, <1>8
-----------------------------------------------------------------------------
\* The limit on the header block leaves room for the empty line that ends it,
\* and what Webex answers has a status.
Sane == /\ Terminator <= MaxHeader + 1
        /\ ApiResult \subseteq [kind : {"ok", "api", "broken", "unsent"}, status : Nat]

\* The sidecar's own requests are read in full, however TCP splits them.
LEMMA ReadFacts ==
    ASSUME Sane, NEW s \in Server
    PROVE  Results(s, Forwarded) \subseteq {"request"}
<1> DEFINE r == Forwarded
<1>0. /\ MaxHeader \in Nat /\ MaxBody \in Nat /\ Terminator \in Nat /\ Terminator # 0
      /\ BadLength \notin Nat /\ NoLength \notin Nat /\ Terminator <= MaxHeader + 1
  BY SizeAssumption, LengthAssumption DEF Sane
<1>1. /\ r.line = "ok" /\ r.head = 0 /\ r.length = MaxBody /\ r.sent = Terminator + MaxBody
  BY DEF Forwarded
<1> HIDE DEF r
<1>2. /\ BotContentLength(r) = MaxBody /\ CliContentLength(r) = MaxBody
      /\ ExampleContentLength(r) = MaxBody
  BY <1>0, <1>1 DEF BotContentLength, CliContentLength, ExampleContentLength
<1>3. BotParse(r) = "request" /\ CliParse(r) = "request" /\ ExampleParse(r) = "request"
  BY <1>1 DEF BotParse, CliParse, ExampleParse
<1>4. ASSUME NEW n \in 1 .. r.sent
      PROVE  /\ ReadStep(s, r, n) \in {"more", "request"}
             /\ n = r.sent => ReadStep(s, r, n) = "request"
  <2>1. /\ BodyStep(r, n, MaxBody, "request") \in {"more", "request"}
        /\ n = r.sent => BodyStep(r, n, MaxBody, "request") = "request"
    BY <1>0, <1>1 DEF BodyStep
  <2>2. ~HeaderComplete(r, n) => HeaderStep(n) = "more" /\ n # r.sent
    BY <1>0, <1>1 DEF HeaderComplete, HeaderStep
  <2>3. ~(r.head > MaxHeader)
    BY <1>0, <1>1
  <2>4. BotRead(r, n) \in {"more", "request"} /\ (n = r.sent => BotRead(r, n) = "request")
    BY <1>2, <1>3, <2>1, <2>2, <2>3 DEF BotRead
  <2>5. CliRead(r, n) \in {"more", "request"} /\ (n = r.sent => CliRead(r, n) = "request")
    BY <1>2, <1>3, <2>1, <2>2 DEF CliRead
  <2>6. ExampleRead(r, n) \in {"more", "request"} /\ (n = r.sent => ExampleRead(r, n) = "request")
    BY <1>2, <1>3, <2>1, <2>2 DEF ExampleRead
  <2>7. CASE s = "bot"
    BY <2>4, <2>7 DEF ReadStep
  <2>8. CASE s = "cli"
    BY <2>5, <2>8 DEF ReadStep
  <2>9. CASE s = "example"
    BY <2>6, <2>9 DEF ReadStep
  <2> QED  BY <2>7, <2>8, <2>9 DEF Server
<1>5. Reached(s, r) \subseteq 1 .. r.sent
  BY DEF Reached
<1>6. r.sent \in 1 .. r.sent /\ r.sent # 0
  BY <1>0, <1>1
<1>7. ReadStep(s, r, r.sent) # "more"
  BY <1>4, <1>6
<1>8. Results(s, r) = {ReadStep(s, r, n) : n \in Reached(s, r)} \ {"more"}
  BY <1>6, <1>7 DEF Results
<1> QED  BY <1>4, <1>5, <1>8 DEF r

\* With matching configurations a complete request carries an event.
LEMMA TakenFacts ==
    ASSUME ConnInv
    PROVE  /\ cfg.server \in Server
           /\ HandleSidecarRequest(Forwarded, cfg.path, cfg.health, cfg.secured) \in Answers
           /\ ExampleHandleRequest(Forwarded, cfg.path, cfg.secured) \in Answers
           /\ Matching => ExampleHandleRequest(Forwarded, cfg.path, cfg.secured) = Taken
           /\ Matching /\ cfg.server \in {"cli", "bot"} =>
                HandleSidecarRequest(Forwarded, cfg.path, cfg.health, cfg.secured) = Taken
<1>0. cfg \in Config /\ Starts(cfg)
  BY ConfigAssumption DEF ConnInv, ConnTypeOK
<1>1. cfg.server \in Server
  BY <1>0 DEF Config, Server
<1> DEFINE r == Forwarded
<1>2. r.method = "POST" /\ r.path = cfg.target /\ r.auth = cfg.auth /\ r.body = "event"
  BY DEF Forwarded
<1> HIDE DEF r
<1> DEFINE ev == EventAnswer(r, cfg.path, cfg.secured)
<1>3. ev \in Answers
  BY StatusFacts DEF EventAnswer
<1>4. Matching => ev = Taken
  <2>1. Matching => r.path = cfg.path /\ ~(cfg.secured /\ r.auth # "token")
    BY <1>2, Zenon DEF Matching
  <2> QED  BY <1>2, <2>1 DEF EventAnswer
<1>5. cfg.server \in {"cli", "bot"} => cfg.path # cfg.health
  BY <1>0 DEF Starts, BotStarts, CliStarts, BotPathsValid, CliPathsValid
<1>6. HandleSidecarRequest(r, cfg.path, cfg.health, cfg.secured) \in Answers
  <2>1. Answer(IF r.method = "GET" THEN 200 ELSE 405) \in Answers
    BY StatusFacts
  <2> QED  BY <1>3, <2>1 DEF HandleSidecarRequest
<1>7. Matching /\ cfg.server \in {"cli", "bot"} =>
        HandleSidecarRequest(r, cfg.path, cfg.health, cfg.secured) = ev
  BY <1>2, <1>5 DEF HandleSidecarRequest, Matching
<1>8. ExampleHandleRequest(r, cfg.path, cfg.secured) = ev
  BY DEF ExampleHandleRequest
<1> QED  BY <1>1, <1>3, <1>4, <1>6, <1>7, <1>8 DEF r

\* A decision whose answer the sidecar takes, retries, or rightly gives up on
Honest(d) == d.status \in Nat /\ (d.status = 200 \/ Retryable(d.status) \/ d.reason = "webex")

LEMMA HonestFacts ==
    ASSUME Sane, NEW r \in ApiResult
    PROVE  /\ \A why : Honest(Ignored(why))
           /\ Honest(HydrationFailure(r)) /\ Honest(ReplyOutcome(r))
           /\ \A x, y : Honest(Decide(x, y, r, FALSE)) \/ Decide(x, y, r, FALSE) = SendReply
<1>0. r.status \in Nat
  BY DEF Sane
<1>1. ASSUME NEW why PROVE Honest(Ignored(why))
  BY DEF Honest, Ignored
<1>2. Honest(Replied)
  BY DEF Honest, Replied
<1>3. Honest(OtherFailure)
  BY DEF Honest, OtherFailure, Failure, Retryable
<1>4. Honest(ApiFailure(r.status))
  <2>1. CASE RetryableApiFailure(r.status)
    <3> DEFINE n == RetryableResponse(r.status)
    <3>1. n \in Nat /\ Retryable(n)
      BY <1>0, <2>1 DEF RetryableApiFailure, RetryableResponse, Retryable
    <3> HIDE DEF n
    <3>2. ApiFailure(r.status) = [kind |-> "failure", reason |-> "retry", status |-> n]
      BY <2>1 DEF ApiFailure, Failure, n
    <3> QED  BY <3>1, <3>2 DEF Honest
  <2>2. CASE ~RetryableApiFailure(r.status)
    <3> DEFINE n == WebexResponse(r.status)
    <3>1. n \in Nat
      BY <1>0 DEF WebexResponse
    <3> HIDE DEF n
    <3>2. ApiFailure(r.status) = [kind |-> "failure", reason |-> "webex", status |-> n]
      BY <2>2 DEF ApiFailure, Failure, n
    <3> QED  BY <3>1, <3>2 DEF Honest
  <2> QED  BY <2>1, <2>2
<1>5. Honest(HydrationFailure(r))
  BY <1>1, <1>3, <1>4 DEF HydrationFailure
<1>6. Honest(ReplyOutcome(r))
  BY <1>1, <1>2, <1>3, <1>4 DEF ReplyOutcome
<1>7. ASSUME NEW x, NEW y PROVE Honest(Decide(x, y, r, FALSE)) \/ Decide(x, y, r, FALSE) = SendReply
  <2>1. ASSUME NEW z PROVE Honest(Judge(z, FALSE)) \/ Judge(z, FALSE) = SendReply
    BY <1>1 DEF Judge
  <2> QED  BY <1>1, <1>5, <2>1 DEF Decide
<1> QED  BY <1>1, <1>5, <1>6, <1>7

LEMMA BotDealsConn ==
    ASSUME ConnInv, Sane, NEW c \in Conn, conn[c].stage # "none", UNCHANGED <<cfg, sidecar>>,
           NEW r1 \in ApiResult, NEW r2 \in ApiResult, BotDeals(c, r1, r2)
    PROVE  ConnInv'
<1> DEFINE first == Decide(cfg.said, cfg.truth, r1, FALSE)
           d == IF c[1] \in printed THEN Ignored("duplicate_message")
                ELSE IF first = SendReply THEN ReplyOutcome(r2) ELSE first
           a == [Answer(d.status) EXCEPT !.final = (d.reason = "webex")]
<1>1. Answering(c, a)
  BY Zenon DEF BotDeals
<1>2. Honest(d)
  <2>1. Honest(first) \/ first = SendReply
    BY HonestFacts
  <2>2. Honest(ReplyOutcome(r2)) /\ Honest(Ignored("duplicate_message"))
    BY HonestFacts
  <2> HIDE DEF first
  <2> QED  BY <2>1, <2>2
<1> HIDE DEF first, d
<1>3. a \in Answers /\ Good(a)
  <2>1. PICK f \in BOOLEAN : f = (d.reason = "webex")
    BY Zenon
  <2>2. PICK n \in Nat : n = d.status
    BY <1>2 DEF Honest
  <2>3. PICK b \in BOOLEAN : b = FALSE
    BY Zenon
  <2>4. a = [[status |-> n, event |-> b, final |-> b] EXCEPT !.final = f]
    BY <2>1, <2>2, <2>3, Zenon DEF Answer
  <2>5. [[status |-> n, event |-> b, final |-> b] EXCEPT !.final = f]
          = [status |-> n, event |-> b, final |-> f]
    OBVIOUS
  <2>6. a = [status |-> n, event |-> b, final |-> f]
    BY <2>4, <2>5, Zenon
  <2> HIDE DEF a
  <2>7. a \in Answers
    BY <2>6 DEF Answers
  <2>8. a.status = n
    BY <2>6
  <2>9. CASE n = 200 \/ Retryable(n)
    BY <2>7, <2>8, <2>9 DEF Good
  <2>10. CASE d.reason = "webex"
    <3>1. f = TRUE
      BY <2>1, <2>10, Zenon
    <3>2. a = [status |-> n, event |-> b, final |-> TRUE]
      BY <2>6, <3>1, Zenon
    <3>3. a.final = TRUE
      BY <3>2
    <3> QED  BY <2>7, <3>3, Zenon DEF Good
  <2> QED  BY <1>2, <2>2, <2>7, <2>9, <2>10 DEF Honest
<1> HIDE DEF a
<1> QED  BY <1>1, <1>3, AnsweringStep

\* No error is read from a client that still waits.
LEMMA ErrorFacts ==
    ASSUME ConnInv, Sane, NEW c \in Conn
    PROVE  /\ ReadResults(c) \subseteq {"request", "error", "timeout"}
           /\ "error" \in ReadResults(c) => ~ClientWaits(c)
<1>1. Results(cfg.server, Forwarded) \subseteq {"request"}
  BY TakenFacts, ReadFacts
<1> QED  BY <1>1 DEF ReadResults

LEMMA BotServeConn ==
    ASSUME ConnInv, Sane, NEW c \in Conn, BotServe(c)
    PROVE  ConnInv'
<1>1. UNCHANGED <<cfg, sidecar>> /\ conn[c].stage = "reading" /\ cfg.server = "bot"
  BY Zenon DEF BotServe, At
<1> DEFINE a == HandleSidecarRequest(Forwarded, cfg.path, cfg.health, cfg.secured)
<1>2. a \in Answers /\ (Matching => a = Taken)
  BY <1>1, TakenFacts
<1> HIDE DEF a
<1>3. CASE "error" \in ReadResults(c) /\ Answering(c, BadRequest)
  BY <1>1, <1>3, ErrorFacts, StatusFacts, AnsweringStep
<1>4. CASE Answering(c, RequestTimeout)
  BY <1>1, <1>4, StatusFacts, AnsweringStep
<1>5. CASE Answering(c, Busy)
  BY <1>1, <1>5, StatusFacts, AnsweringStep
<1>6. CASE Answering(c, a)
  BY <1>1, <1>2, <1>6, StatusFacts, AnsweringStep
<1>7. ASSUME NEW r1 \in ApiResult, NEW r2 \in ApiResult, BotDeals(c, r1, r2) PROVE ConnInv'
  BY <1>1, <1>7, BotDealsConn
<1> QED  BY <1>3, <1>4, <1>5, <1>6, <1>7, BotServeFacts DEF a

LEMMA ServeConn ==
    ASSUME ConnInv, Sane, NEW c \in Conn, HandleSidecarConnection(c) \/ ExampleServe(c)
    PROVE  ConnInv'
<1>1. UNCHANGED <<cfg, sidecar>> /\ conn[c].stage = "reading"
  BY Zenon DEF HandleSidecarConnection, ExampleServe, At
<1>2. ASSUME NEW t \in Answers, Matching => t = Taken, NEW r \in ReadResults(c),
             Answering(c, CASE r = "request" -> t [] r = "error" -> BadRequest
                            [] r = "timeout" -> RequestTimeout)
      PROVE  ConnInv'
  <2>1. r \in {"request", "error", "timeout"} /\ ("error" \in ReadResults(c) => ~ClientWaits(c))
    BY ErrorFacts
  <2>2. CASE r = "request"
    <3>1. Answering(c, t)
      BY <1>2, <2>2
    <3> QED  BY <1>1, <1>2, <3>1, StatusFacts, AnsweringStep
  <2>3. CASE r = "error"
    <3>1. Answering(c, BadRequest) /\ ~ClientWaits(c)
      BY <1>2, <2>1, <2>3
    <3> QED  BY <1>1, <3>1, StatusFacts, AnsweringStep
  <2>4. CASE r = "timeout"
    <3>1. Answering(c, RequestTimeout)
      BY <1>2, <2>4
    <3> QED  BY <1>1, <3>1, StatusFacts, AnsweringStep
  <2> QED  BY <2>1, <2>2, <2>3, <2>4
<1>3. CASE HandleSidecarConnection(c)
  <2> DEFINE t == HandleSidecarRequest(Forwarded, cfg.path, cfg.health, cfg.secured)
  <2>1. cfg.server = "cli"
    BY <1>3, Zenon DEF HandleSidecarConnection
  <2>2. t \in Answers /\ (Matching => t = Taken)
    BY <2>1, TakenFacts
  <2>3. PICK r \in ReadResults(c) :
          Answering(c, CASE r = "request" -> t [] r = "error" -> BadRequest
                         [] r = "timeout" -> RequestTimeout)
    BY <1>3, Zenon DEF HandleSidecarConnection
  <2> HIDE DEF t
  <2> QED  BY <1>2, <2>2, <2>3
<1>4. CASE ExampleServe(c)
  <2> DEFINE t == ExampleHandleRequest(Forwarded, cfg.path, cfg.secured)
  <2>1. t \in Answers /\ (Matching => t = Taken)
    BY TakenFacts
  <2>2. PICK r \in ReadResults(c) :
          Answering(c, CASE r = "request" -> t [] r = "error" -> BadRequest
                         [] r = "timeout" -> RequestTimeout)
    BY <1>4, Zenon DEF ExampleServe
  <2> HIDE DEF t
  <2> QED  BY <1>2, <2>1, <2>2
<1> QED  BY <1>3, <1>4

-----------------------------------------------------------------------------
\* The receiver changes connections, and perhaps drops some.
LEMMA ShedConn ==
    ASSUME ConnInv, UNCHANGED <<cfg, sidecar>>, NEW f \in [Conn -> Link], conn' \in [Conn -> Link],
           \A c \in Conn : conn'[c] = f[c] \/ conn'[c] = NoConn,
           \A c \in Conn : conn[c] = NoConn => f[c] = NoConn,
           Matching => \A c \in Conn : ClientWaits(c) => Calm(f[c])
    PROVE  ConnInv'
<1>0. UNCHANGED <<cfg, js, pc, attempt>>
  BY DEF sidecar
<1>1. /\ conn' \in [Conn -> Link]
      /\ \A c \in Conn : conn'[c] = f[c] \/ conn'[c] = NoConn
  OBVIOUS
<1>2. ConnTypeOK' /\ RetryInv'
  <2>1. Starts(cfg)'
    BY <1>0 DEF ConnInv, ConnTypeOK, Starts, BotStarts, CliStarts, ExampleStarts
  <2> QED  BY <1>0, <1>1, <2>1 DEF ConnInv, ConnTypeOK, RetryInv
<1>3. FreshInv'
  <2> SUFFICES ASSUME js # "exited", NEW e \in Event, NEW k \in 0 .. MaxRetries, Unsent(e, k)
               PROVE  conn'[<<e, k>>] = NoConn
    BY <1>0 DEF FreshInv, Unsent
  <2>1. <<e, k>> \in Conn /\ conn[<<e, k>>] = NoConn
    BY DEF Conn, ConnInv, FreshInv
  <2> QED  BY <1>1, <2>1
<1>4. AnswerInv'
  <2>1. Matching' = Matching /\ \A d \in Conn : ClientWaits(d)' = ClientWaits(d)
    BY <1>0 DEF Matching, ClientWaits
  <2>2. ASSUME Matching, NEW d \in Conn, ClientWaits(d) PROVE Calm(conn'[d])
    <3>1. Calm(f[d])
      BY <2>2
    <3> QED  BY <1>1, <3>1, NoConnFacts
  <2>3. ASSUME NEW d \in Conn PROVE Calm(conn[d])' <=> Calm(conn'[d])
    BY DEF Calm, Good, Retryable
  <2> QED  BY <2>1, <2>2, <2>3 DEF AnswerInv
<1> QED  BY <1>2, <1>3, <1>4 DEF ConnInv

\* Events are counted, and the receiver ends after the last: what it had not
\* answered is cut off.
LEMMA CountConn ==
    ASSUME ConnInv, UNCHANGED <<cfg, sidecar>>, NEW f \in [Conn -> Link], NEW q, Count(q, f),
           \A c \in Conn : conn[c] = NoConn => f[c] = NoConn,
           Matching => \A c \in Conn : ClientWaits(c) => Calm(f[c])
    PROVE  ConnInv'
<1>1. \A c \in Conn : f[c] \in Link
  OBVIOUS
<1>2. /\ conn' \in [Conn -> Link]
      /\ \A c \in Conn : conn'[c] = f[c] \/ conn'[c] = NoConn
  <2>1. CASE Quota
    <3>1. conn' = [c \in Conn |-> IF f[c].written THEN f[c] ELSE NoConn]
      BY <2>1 DEF Count
    <3>2. ASSUME NEW c \in Conn PROVE conn'[c] \in Link /\ (conn'[c] = f[c] \/ conn'[c] = NoConn)
      <4>1. conn'[c] = f[c] \/ conn'[c] = NoConn
        BY <3>1
      <4> QED  BY <1>1, <4>1, NoConnFacts
    <3> QED  BY <3>1, <3>2
  <2>2. CASE ~Quota
    BY <2>2 DEF Count
  <2> QED  BY <2>1, <2>2
<1> QED  BY <1>2, ShedConn

\* An error of accept() drops connections.
LEMMA AcceptFailsConn ==
    ASSUME ConnInv, AcceptFails
    PROVE  ConnInv'
<1>1. UNCHANGED <<cfg, sidecar>>
  BY DEF AcceptFails
<1>2. /\ conn \in [Conn -> Link]
      /\ Matching => \A c \in Conn : ClientWaits(c) => Calm(conn[c])
  BY DEF ConnInv, ConnTypeOK, AnswerInv
<1>3. /\ conn' \in [Conn -> Link]
      /\ \A c \in Conn : conn'[c] = conn[c] \/ conn'[c] = NoConn
  BY <1>2, NoConnFacts DEF AcceptFails
<1> QED  BY <1>1, <1>2, <1>3, ShedConn

LEMMA PrintConn ==
    ASSUME ConnInv, PrintEvent
    PROVE  ConnInv'
<1>1. UNCHANGED <<cfg, sidecar>> /\ Count(Tail(channel), conn)
  BY Zenon DEF PrintEvent
<1>2. conn \in [Conn -> Link] /\ (Matching => \A c \in Conn : ClientWaits(c) => Calm(conn[c]))
  BY DEF ConnInv, ConnTypeOK, AnswerInv
<1> QED  BY <1>1, <1>2, CountConn

LEMMA ExampleConn ==
    ASSUME ConnInv, NEW c \in Conn, ExampleAnswer(c)
    PROVE  ConnInv'
<1>0. /\ conn \in [Conn -> Link] /\ conn[c] \in Link /\ conn[c].answer \in Answers
      /\ Matching /\ ClientWaits(c) => Calm(conn[c])
  BY LinkFacts
<1> DEFINE v == Answered(c, conn[c].answer)
           f == [conn EXCEPT ![c] = v]
<1>1. /\ UNCHANGED <<cfg, sidecar>> /\ conn[c].stage = "answering"
      /\ Count(channel, f) \/ conn' = f
  BY Zenon DEF ExampleAnswer, At
<1>2. v \in Link /\ (Matching /\ ClientWaits(c) => Calm(v))
  <2>1. Matching /\ ClientWaits(c) => Good(conn[c].answer)
    BY <1>0, <1>1 DEF Calm
  <2> QED  BY <1>0, <2>1, AnsweredFacts
<1> HIDE DEF v
<1>3. CASE conn' = f
  BY <1>1, <1>2, <1>3, ReceiverStep
<1>4. CASE Count(channel, f)
  <2>1. f \in [Conn -> Link] /\ f[c] = v /\ \A d \in Conn \ {c} : f[d] = conn[d]
    BY <1>0, <1>2
  <2> HIDE DEF f
  <2>2. \A d \in Conn : conn[d] = NoConn => f[d] = NoConn
    BY <1>1, <2>1, NoConnFacts
  <2>3. Matching => \A d \in Conn : ClientWaits(d) => Calm(f[d])
    BY <1>2, <2>1, LinkFacts
  <2> QED  BY <1>1, <1>4, <2>1, <2>2, <2>3, CountConn
<1> QED  BY <1>1, <1>3, <1>4
-----------------------------------------------------------------------------
LEMMA AttemptFacts ==
    ASSUME ConnInv, NEW e \in Event
    PROVE  /\ attempt[e] \in Nat /\ attempt[e] <= cfg.retries /\ cfg.retries \in Nat
           /\ cfg.retries <= MaxRetries /\ MaxRetries \in Nat
           /\ pc[e] = "sleeping" => attempt[e] < cfg.retries
           /\ pc[e] = "unheard" => attempt[e] = 0
<1>1. cfg.retries \in 0 .. MaxRetries /\ MaxRetries \in Nat
  BY ConfigAssumption, LimitAssumption DEF ConnInv, ConnTypeOK, Config
<1>2. attempt[e] \in 0 .. MaxRetries
  BY DEF ConnInv, ConnTypeOK
<1> QED  BY <1>1, <1>2 DEF ConnInv, RetryInv

\* Attempt k of e gets its slot, or waits for it.
Tries(e, k) ==
    /\ js # "exited" /\ js' = js /\ cfg' = cfg
    /\ pc[e] \in {"unheard", "woken", "sleeping"}
    /\ k \in 0 .. cfg.retries /\ attempt[e] <= k /\ Unsent(e, k)
    /\ attempt' = [attempt EXCEPT ![e] = k]
    /\ AcquireForwardSlot(e, k)

LEMMA TriesConn ==
    ASSUME QueueInv, ConnInv, NEW e \in Event, NEW k, Tries(e, k)
    PROVE  ConnInv'
<1>0. /\ conn \in [Conn -> Link] /\ attempt \in [Event -> 0 .. MaxRetries]
      /\ pc \in [Event -> Place] /\ MaxRetries \in Nat
      /\ cfg.retries \in Nat /\ cfg.retries <= MaxRetries
      /\ js # "exited" /\ js' = js /\ cfg' = cfg
  BY AttemptFacts DEF ConnInv, ConnTypeOK, QueueInv, QueueTypeOK, Tries
<1> DEFINE c == <<e, k>>
<1>1. /\ k \in Nat /\ k \in 0 .. MaxRetries /\ k <= cfg.retries /\ attempt[e] <= k
      /\ c \in Conn /\ conn[c] = NoConn
  <2>1. k \in Nat /\ k \in 0 .. MaxRetries /\ k <= cfg.retries /\ attempt[e] <= k
    BY <1>0 DEF Tries
  <2> QED  BY <1>0, <2>1 DEF Tries, Conn, ConnInv, FreshInv
<1>2. attempt' \in [Event -> 0 .. MaxRetries] /\ attempt'[e] = k
      /\ \A x \in Event \ {e} : attempt'[x] = attempt[x]
  BY <1>0, <1>1 DEF Tries
<1>3. /\ pc' \in [Event -> Place] /\ pc'[e] \in {"sending", "waiting"}
      /\ \A x \in Event \ {e} : pc'[x] = pc[x]
  <2>1. pc' = [pc EXCEPT ![e] = "sending"] \/ pc' = [pc EXCEPT ![e] = "waiting"]
    BY DEF Tries, AcquireForwardSlot, Goto
  <2> QED  BY <1>0, <2>1 DEF Place
<1> DEFINE v == [stage |-> "backlog", answer |-> NoConn.answer, written |-> NoConn.written]
<1>4. v \in Link /\ Calm(v)
  BY NoConnFacts DEF Link, Stage, Calm
<1>5. conn' = conn \/ (conn' = [conn EXCEPT ![c] = v] /\ pc'[e] = "sending")
  <2>1. CASE conn' = [conn EXCEPT ![c].stage = "backlog"] /\ pc' = [pc EXCEPT ![e] = "sending"]
    <3>1. conn' = [conn EXCEPT ![c] = [NoConn EXCEPT !.stage = "backlog"]]
      BY <1>0, <1>1, <2>1
    <3>2. [NoConn EXCEPT !.stage = "backlog"] = v
      BY NoConnFacts DEF Link
    <3> QED  BY <1>0, <2>1, <3>1, <3>2
  <2>2. conn' = conn \/ (conn' = [conn EXCEPT ![c].stage = "backlog"] /\ pc' = [pc EXCEPT ![e] = "sending"])
    BY DEF Tries, AcquireForwardSlot, Send, Goto
  <2> QED  BY <2>1, <2>2
<1> HIDE DEF v
<1>6. /\ conn' \in [Conn -> Link] /\ Calm(conn'[c])
      /\ \A d \in Conn \ {c} : conn'[d] = conn[d]
      /\ pc'[e] = "waiting" => conn'[c] = NoConn
  BY <1>0, <1>1, <1>4, <1>5, NoConnFacts
<1>7. ConnTypeOK' /\ RetryInv'
  <2>1. Starts(cfg)'
    BY <1>0 DEF ConnInv, ConnTypeOK, Starts, BotStarts, CliStarts, ExampleStarts
  <2>2. RetryInv'
    BY <1>0, <1>1, <1>2, <1>3 DEF ConnInv, RetryInv
  <2> QED  BY <1>0, <1>2, <1>6, <2>1, <2>2 DEF ConnInv, ConnTypeOK
<1>8. FreshInv'
  <2> SUFFICES ASSUME NEW x \in Event, NEW m \in 0 .. MaxRetries, Unsent(x, m)'
               PROVE  conn'[<<x, m>>] = NoConn
    BY <1>0 DEF FreshInv
  <2>0. <<x, m>> \in Conn
    BY DEF Conn
  <2>1. CASE x # e
    <3>1. Unsent(x, m)
      BY <1>2, <1>3, <2>1 DEF Unsent
    <3> QED  BY <1>0, <1>6, <2>0, <2>1, <3>1 DEF ConnInv, FreshInv
  <2>2. CASE x = e /\ m > k
    <3>1. Unsent(x, m)
      BY <1>0, <1>1, <2>2 DEF Unsent
    <3> QED  BY <1>0, <1>1, <1>6, <2>0, <2>2, <3>1 DEF ConnInv, FreshInv
  <2>3. CASE x = e /\ ~(m > k)
    <3>1. m = k /\ pc'[e] = "waiting"
      BY <1>2, <1>3, <2>3 DEF Unsent
    <3> QED  BY <1>6, <2>3, <3>1
  <2> QED  BY <2>1, <2>2, <2>3
<1>9. AnswerInv'
  <2> SUFFICES ASSUME Matching', NEW d \in Conn, ClientWaits(d)'
               PROVE  Calm(conn'[d])
    BY DEF AnswerInv, Calm, Good, Retryable
  <2>1. PICK x \in Event, m \in 0 .. MaxRetries : d = <<x, m>>
    BY DEF Conn
  <2>2. CASE x # e
    <3>1. ClientWaits(d) /\ d # c /\ Matching
      BY <1>0, <1>2, <1>3, <2>1, <2>2 DEF ClientWaits, Matching
    <3> QED  BY <1>6, <3>1, LinkFacts
  <2>3. CASE x = e
    <3>1. d = c
      BY <1>2, <2>1, <2>3 DEF ClientWaits
    <3> QED  BY <1>6, <3>1
  <2> QED  BY <2>2, <2>3
<1> QED  BY <1>7, <1>8, <1>9 DEF ConnInv

LEMMA AcquireConn ==
    ASSUME QueueInv, ConnInv, NEW e \in Event, Hear(e) \/ Wake(e) \/ Retry(e)
    PROVE  ConnInv'
<1>0. /\ attempt[e] \in Nat /\ attempt[e] <= cfg.retries /\ cfg.retries \in Nat
      /\ pc[e] = "sleeping" => attempt[e] < cfg.retries
      /\ pc[e] = "unheard" => attempt[e] = 0
      /\ attempt \in [Event -> 0 .. MaxRetries]
  BY AttemptFacts DEF ConnInv, ConnTypeOK
<1>1. attempt = [attempt EXCEPT ![e] = attempt[e]]
  BY <1>0
<1>2. CASE Hear(e)
  <2>1. Tries(e, 0)
    BY <1>0, <1>1, <1>2 DEF Hear, Tries, Unsent
  <2> QED  BY <2>1, TriesConn
<1>3. CASE Wake(e)
  <2>1. Tries(e, attempt[e])
    BY <1>0, <1>1, <1>3 DEF Wake, Tries, Unsent
  <2> QED  BY <2>1, TriesConn
<1>4. CASE Retry(e)
  <2>1. Tries(e, attempt[e] + 1)
    BY <1>0, <1>4 DEF Retry, Tries, Unsent
  <2> QED  BY <2>1, TriesConn
<1> QED  BY <1>2, <1>3, <1>4

\* The sidecar is done with the current attempt of e.
Leaves(e, l) ==
    /\ js # "exited" /\ cfg' = cfg /\ attempt' = attempt /\ pc[e] = "sending"
    /\ l \in {"done", "failed", "sleeping"} /\ (l = "sleeping" => attempt[e] < cfg.retries)
    /\ ReleaseForwardSlot(e, l) /\ Close(Current(e))

LEMMA LeavesConn ==
    ASSUME QueueInv, ConnInv, NEW e \in Event, NEW l, Leaves(e, l)
    PROVE  ConnInv'
<1>0. /\ conn \in [Conn -> Link] /\ attempt \in [Event -> 0 .. MaxRetries]
      /\ pc \in [Event -> Place] /\ MaxRetries \in Nat
      /\ js # "exited" /\ cfg' = cfg /\ attempt' = attempt /\ pc[e] = "sending"
      /\ attempt[e] \in Nat
      /\ l \in {"done", "failed", "sleeping"} /\ (l = "sleeping" => attempt[e] < cfg.retries)
  BY AttemptFacts DEF ConnInv, ConnTypeOK, QueueInv, QueueTypeOK, Leaves
<1> DEFINE c == Current(e)
<1>1. c \in Conn /\ c = <<e, attempt[e]>>
  BY <1>0 DEF Current, Conn
<1>2. conn' \in [Conn -> Link] /\ \A d \in Conn \ {c} : conn'[d] = conn[d]
  BY <1>0, <1>1, NoConnFacts DEF Leaves, Close
<1>3. /\ pc'[e] = l
      /\ \A x \in Event \ {e} : pc'[x] = pc[x] \/ (pc[x] = "waiting" /\ pc'[x] = "woken")
  <2>1. waiters # <<>> => pc[Head(waiters)] = "waiting"
    BY <1>0, TailFacts DEF QueueInv, QueueTypeOK, NoLostWakeup, Where
  <2> QED  BY <2>1 DEF Leaves, ReleaseForwardSlot
<1> HIDE DEF c
<1>4. ConnTypeOK' /\ RetryInv'
  <2>1. Starts(cfg)'
    BY <1>0 DEF ConnInv, ConnTypeOK, Starts, BotStarts, CliStarts, ExampleStarts
  <2>2. RetryInv'
    <3> SUFFICES ASSUME NEW x \in Event
                 PROVE  /\ attempt[x] <= cfg.retries
                        /\ pc'[x] = "sleeping" => attempt[x] < cfg.retries
                        /\ pc'[x] = "unheard" => attempt[x] = 0
      BY <1>0 DEF RetryInv
    <3>1. CASE x = e
      BY <1>0, <1>3, <3>1, AttemptFacts
    <3>2. CASE x # e
      BY <1>3, <3>2, AttemptFacts
    <3> QED  BY <3>1, <3>2
  <2> QED  BY <1>0, <1>2, <2>1, <2>2 DEF ConnInv, ConnTypeOK
<1>5. FreshInv'
  <2> SUFFICES ASSUME NEW x \in Event, NEW m \in 0 .. MaxRetries, Unsent(x, m)'
               PROVE  conn'[<<x, m>>] = NoConn
    BY DEF FreshInv
  <2>0. <<x, m>> \in Conn
    BY DEF Conn
  <2>1. Unsent(x, m)
    BY <1>0, <1>3 DEF Unsent
  <2>2. <<x, m>> # c
    BY <1>0, <1>1, <2>1 DEF Unsent
  <2> QED  BY <1>0, <1>2, <2>0, <2>1, <2>2 DEF ConnInv, FreshInv
<1>6. AnswerInv'
  <2> SUFFICES ASSUME Matching', NEW d \in Conn, ClientWaits(d)'
               PROVE  Calm(conn'[d])
    BY DEF AnswerInv, Calm, Good, Retryable
  <2>1. PICK x \in Event, m \in 0 .. MaxRetries : d = <<x, m>>
    BY DEF Conn
  <2>2. x # e /\ pc'[x] = "sending"
    BY <1>0, <1>3, <2>1 DEF ClientWaits
  <2>3. ClientWaits(d) /\ d # c /\ Matching
    BY <1>0, <1>1, <1>3, <2>1, <2>2 DEF ClientWaits, Matching
  <2> QED  BY <1>2, <2>3, LinkFacts
<1> QED  BY <1>4, <1>5, <1>6 DEF ConnInv

LEMMA ForwardConn ==
    ASSUME QueueInv, ConnInv, NEW e \in Event, ForwardDone(e) \/ ForwardRefused(e) \/ ForwardBroken(e)
    PROVE  ConnInv'
<1>1. js # "exited" /\ cfg' = cfg /\ pc[e] = "sending" /\ Close(Current(e))
  BY Zenon DEF ForwardDone, ForwardRefused, ForwardBroken
<1>2. CASE ForwardDone(e)
  <2>1. ReleaseForwardSlot(e, "done") /\ attempt' = attempt
    BY <1>2, Zenon DEF ForwardDone
  <2>2. Leaves(e, "done")
    BY <1>1, <2>1 DEF Leaves
  <2> QED  BY <2>2, LeavesConn
<1>3. CASE BacksOff(e)
  <2>1. Leaves(e, "sleeping")
    BY <1>1, <1>3 DEF Leaves, BacksOff
  <2> QED  BY <2>1, LeavesConn
<1>4. CASE GivesUp(e)
  <2>1. Leaves(e, "failed")
    BY <1>1, <1>4 DEF Leaves, GivesUp
  <2> QED  BY <2>1, LeavesConn
<1> QED  BY <1>2, <1>3, <1>4, Zenon DEF ForwardRefused, ForwardBroken

LEMMA IdleConn ==
    ASSUME ConnInv, UNCHANGED <<cfg, attempt, conn>>, js' = "exited" \/ js # "exited",
           \A x \in Event : pc'[x] = pc[x] \/ pc'[x] = "refused"
    PROVE  ConnInv'
<1>1. Starts(cfg)'
  BY DEF ConnInv, ConnTypeOK, Starts, BotStarts, CliStarts, ExampleStarts
<1>2. ConnTypeOK' /\ RetryInv'
  BY <1>1 DEF ConnInv, ConnTypeOK, RetryInv
<1>3. FreshInv'
  <2>1. ASSUME NEW x \in Event, NEW m \in 0 .. MaxRetries, Unsent(x, m)' PROVE Unsent(x, m)
    BY <2>1 DEF Unsent
  <2> QED  BY <2>1 DEF ConnInv, FreshInv
<1>4. AnswerInv'
  <2>1. ASSUME NEW d \in Conn, ClientWaits(d)' PROVE ClientWaits(d)
    <3>1. d[1] \in Event
      BY DEF Conn
    <3> QED  BY <2>1, <3>1 DEF ClientWaits
  <2>2. Matching' = Matching /\ \A d \in Conn : Calm(conn[d])' = Calm(conn[d])
    BY DEF Matching, Calm, Good, Retryable
  <2> QED  BY <2>1, <2>2 DEF ConnInv, AnswerInv
<1> QED  BY <1>2, <1>3, <1>4 DEF ConnInv

LEMMA ExitConn ==
    ASSUME ConnInv, ExitSidecar
    PROVE  ConnInv'
<1>1. /\ js' = "exited" /\ cfg' = cfg /\ conn' = conn /\ attempt' = [e \in Event |-> 0]
      /\ pc' = [e \in Event |-> IF Active(e) THEN "lost" ELSE pc[e]]
  BY DEF ExitSidecar, receiver
<1>2. \A e \in Event : pc'[e] # "sending" /\ pc'[e] # "sleeping" /\ attempt'[e] = 0
  BY <1>1 DEF Active
<1>3. Starts(cfg)'
  BY <1>1 DEF ConnInv, ConnTypeOK, Starts, BotStarts, CliStarts, ExampleStarts
<1>4. ConnTypeOK'
  BY <1>1, <1>3, LimitAssumption DEF ConnInv, ConnTypeOK
<1>5. RetryInv'
  BY <1>1, <1>2, AttemptFacts DEF RetryInv
<1>6. FreshInv' /\ AnswerInv'
  BY <1>1, <1>2 DEF FreshInv, AnswerInv, ClientWaits, Conn
<1> QED  BY <1>4, <1>5, <1>6 DEF ConnInv

LEMMA NextConn ==
    ASSUME Sane, QueueInv, ConnInv, [Next]_vars
    PROVE  ConnInv'
<1>1. ASSUME NEW e \in Event, Hear(e) \/ Forwarding(e) PROVE ConnInv'
  BY <1>1, AcquireConn, ForwardConn DEF Forwarding
<1>2. ASSUME NEW e \in Event, HearTooMuch(e) PROVE ConnInv'
  <2>1. /\ js = "running" /\ UNCHANGED <<cfg, attempt, conn>> /\ pc' = [pc EXCEPT ![e] = "refused"]
        /\ pc \in [Event -> Place]
    BY <1>2 DEF HearTooMuch, Goto, receiver, QueueInv, QueueTypeOK
  <2>2. \A x \in Event : pc'[x] = pc[x] \/ pc'[x] = "refused"
    BY <2>1
  <2> QED  BY <2>1, <2>2, IdleConn
<1>3. CASE Signal
  BY <1>3, IdleConn DEF Signal, receiver
<1>4. CASE ExitSidecar
  BY <1>4, ExitConn
<1>5. CASE PrintEvent
  BY <1>5, PrintConn
<1>6. CASE RecvNone \/ Over \/ UNCHANGED vars
  BY <1>6, IdleConn DEF RecvNone, Over, vars, sidecar
<1>7. ASSUME NEW c \in Conn, Receiving(c) PROVE ConnInv'
  BY <1>7, AcceptConn, ServeConn, BotServeConn, WriteConn, ExampleConn DEF Receiving
<1>8. CASE AcceptFails
  BY <1>8, AcceptFailsConn
<1> QED  BY <1>1, <1>2, <1>3, <1>4, <1>5, <1>6, <1>7, <1>8 DEF Next

LEMMA InitConn == Init => ConnInv
<1> SUFFICES ASSUME Init PROVE ConnInv
  OBVIOUS
<1>1. /\ cfg \in Configs /\ Starts(cfg) /\ pc = [e \in Event |-> "unheard"]
      /\ attempt = [e \in Event |-> 0] /\ conn = [c \in Conn |-> NoConn]
      /\ cfg.retries \in 0 .. MaxRetries /\ MaxRetries \in Nat
  BY ConfigAssumption, LimitAssumption DEF Init, Config
<1>2. ConnTypeOK /\ RetryInv
  BY <1>1, NoConnFacts DEF ConnTypeOK, RetryInv
<1>3. FreshInv
  BY <1>1 DEF FreshInv, Conn
<1>4. AnswerInv
  BY <1>1, NoConnFacts DEF AnswerInv
<1> QED  BY <1>2, <1>3, <1>4 DEF ConnInv

\* A forward between matching configurations is turned away only with a status
\* that the sidecar retries, or because Webex refuses the reply for good.
THEOREM NeverRejectedForNothing ==
    ASSUME Sane
    PROVE  Spec => []NoFalseRejection
<1>1. Init => QueueInv /\ ConnInv
  BY InitQueue, InitConn
<1>2. QueueInv /\ ConnInv /\ [Next]_vars => (QueueInv /\ ConnInv)'
  BY NextQueue, NextConn
<1>3. QueueInv /\ ConnInv => NoFalseRejection
  <2> SUFFICES ASSUME ConnInv, Matching, NEW e \in Event, pc[e] = "sending",
                      conn[Current(e)].written
               PROVE  Good(conn[Current(e)].answer)
    BY DEF NoFalseRejection, Good
  <2>1. Current(e) \in Conn /\ ClientWaits(Current(e))
    BY AttemptFacts DEF Current, Conn, ClientWaits
  <2>2. Calm(conn[Current(e)])
    BY <2>1, LinkFacts
  <2> QED  BY <2>2 DEF Calm
<1> QED  BY <1>1, <1>2, <1>3, PTL DEF Spec
-----------------------------------------------------------------------------
(***************************************************************************)
(* Requests split by TCP, for any request, limits and buffer.              *)
(***************************************************************************)
\* A set of natural numbers has a smallest one.
LEMMA Smallest ==
    ASSUME NEW S \in SUBSET Nat, S # {}
    PROVE  \E n \in S : \A m \in S : n <= m
<1> DEFINE R == OpToRel(<, Nat)
<1>1. IsWellFoundedOn(R, Nat)
  BY NatLessThanWellFounded
<1>2. \A x \in Nat, y \in Nat : y < x => <<y, x>> \in R
  BY DEF OpToRel
<1> HIDE DEF R
<1>3. PICK n \in S : \A m \in S : ~(<<m, n>> \in R)
  BY <1>1, WFMin
<1>4. \A m \in S : ~(m < n)
  BY <1>2, <1>3
<1> QED  BY <1>3, <1>4

\* The positions that some sequence of reads reaches: the smallest set that
\* has 0 and goes on, by up to a buffer, from 0 and from where more is to be
\* read.
GoesFrom(s, req, m) == m > 0 => ReadStep(s, req, m) = "more"

ClosedUnderReads(s, req, A) ==
    /\ 0 \in A
    /\ \A m \in A, k \in 1 .. Buffer :
         m + k <= req.sent /\ GoesFrom(s, req, m) => m + k \in A

Positions(s, req) ==
    {n \in 0 .. req.sent : \A A \in SUBSET (0 .. req.sent) : ClosedUnderReads(s, req, A) => n \in A}

\* A position is 0 or one read beyond another.
LEMMA PositionsFix ==
    ASSUME NEW s, NEW req, req.sent \in Nat, NEW n \in 0 .. req.sent
    PROVE  n \in Positions(s, req) <=>
             n = 0 \/ \E k \in 1 .. Buffer :
                        k <= n /\ n - k \in Positions(s, req) /\ GoesFrom(s, req, n - k)
<1> DEFINE P == Positions(s, req)
           Q == {i \in 0 .. req.sent :
                   i = 0 \/ \E k \in 1 .. Buffer : k <= i /\ i - k \in P /\ GoesFrom(s, req, i - k)}
<1>0. Buffer \in Nat
  BY SizeAssumption
<1>1. P \subseteq 0 .. req.sent /\ 0 \in P
  BY DEF Positions, ClosedUnderReads
<1>2. ASSUME NEW m \in P, NEW k \in 1 .. Buffer, m + k <= req.sent, GoesFrom(s, req, m)
      PROVE  m + k \in P
  <2>1. m \in Nat /\ k \in Nat /\ m + k \in 0 .. req.sent
    BY <1>0, <1>1, <1>2
  <2>2. ASSUME NEW A \in SUBSET (0 .. req.sent), ClosedUnderReads(s, req, A) PROVE m + k \in A
    <3>1. m \in A
      BY <2>2 DEF Positions
    <3> QED  BY <1>2, <2>2, <3>1 DEF ClosedUnderReads
  <2> QED  BY <2>1, <2>2 DEF Positions
<1>3. \A A \in SUBSET (0 .. req.sent) : ClosedUnderReads(s, req, A) => P \subseteq A
  BY DEF Positions
<1> HIDE DEF P
<1>4. Q \subseteq P
  <2> SUFFICES ASSUME NEW i \in Q PROVE i \in P
    OBVIOUS
  <2>1. CASE i = 0
    BY <1>1, <2>1
  <2>2. ASSUME NEW k \in 1 .. Buffer, k <= i, i - k \in P, GoesFrom(s, req, i - k) PROVE i \in P
    <3>1. i \in 0 .. req.sent /\ k \in Nat /\ (i - k) + k = i
      BY <1>0
    <3>2. (i - k) + k <= req.sent
      BY <3>1
    <3>3. (i - k) + k \in P
      BY <1>2, <2>2, <3>2
    <3> QED  BY <3>1, <3>3
  <2> QED  BY <2>1, <2>2
<1>5. P \subseteq Q
  <2>1. ASSUME NEW m \in Q, NEW k \in 1 .. Buffer, m + k <= req.sent, GoesFrom(s, req, m)
        PROVE  m + k \in Q
    <3>1. m \in Nat /\ k \in Nat /\ m + k \in 0 .. req.sent /\ (m + k) - k = m /\ k <= m + k
      BY <1>0, <2>1
    <3>2. m \in P
      BY <1>4
    <3> QED  BY <2>1, <3>1, <3>2
  <2>2. 0 \in Q
    OBVIOUS
  <2>3. Q \in SUBSET (0 .. req.sent)
    OBVIOUS
  <2> HIDE DEF Q
  <2>4. ClosedUnderReads(s, req, Q)
    BY <2>1, <2>2 DEF ClosedUnderReads
  <2> QED  BY <1>3, <2>3, <2>4
<1>6. n \in P <=> n \in Q
  BY <1>4, <1>5
<1> QED  BY <1>6 DEF P

\* Reached is these positions without 0: they obey its recursion, and no
\* other set does.
LEMMA ReachedIs ==
    ASSUME NEW s, NEW req, req.sent \in Nat
    PROVE  Reached(s, req) = Positions(s, req) \ {0}
<1> DEFINE P == Positions(s, req)
           D == 0 .. req.sent
           Loop(f) == [n \in D |->
                         n = 0 \/ \E k \in 1 .. Buffer :
                                    /\ k <= n /\ f[n - k]
                                    /\ n - k > 0 => ReadStep(s, req, n - k) = "more"]
           g == [n \in D |-> n \in P]
<1>0. Buffer \in Nat
  BY SizeAssumption
<1>1. P \subseteq D
  BY DEF Positions
<1>2. \A n \in D : n \in P <=> n = 0 \/ \E k \in 1 .. Buffer :
                     k <= n /\ n - k \in P /\ (n - k > 0 => ReadStep(s, req, n - k) = "more")
  BY PositionsFix DEF GoesFrom
<1> HIDE DEF P
<1>3. \A n \in D, k \in 1 .. Buffer : k <= n => n - k \in D /\ n - k < n
  BY <1>0
<1>4. g = Loop(g)
  <2>1. \A n \in D, k \in 1 .. Buffer : k <= n => g[n - k] = (n - k \in P)
    BY <1>3
  <2>2. \A n \in D : g[n] = (n = 0 \/ \E k \in 1 .. Buffer :
                                    /\ k <= n /\ g[n - k]
                                    /\ n - k > 0 => ReadStep(s, req, n - k) = "more")
    <3> SUFFICES ASSUME NEW n \in D
                 PROVE  g[n] = (n = 0 \/ \E k \in 1 .. Buffer :
                                    /\ k <= n /\ g[n - k]
                                    /\ n - k > 0 => ReadStep(s, req, n - k) = "more")
      OBVIOUS
    <3> DEFINE X == n = 0 \/ \E k \in 1 .. Buffer :
                      k <= n /\ n - k \in P /\ (n - k > 0 => ReadStep(s, req, n - k) = "more")
               Y == n = 0 \/ \E k \in 1 .. Buffer :
                      /\ k <= n /\ g[n - k]
                      /\ n - k > 0 => ReadStep(s, req, n - k) = "more"
    <3>1. g[n] = (n \in P)
      OBVIOUS
    <3>2. n \in P <=> X
      BY <1>2
    <3>3. X <=> Y
      <4> HIDE DEF g
      <4> QED  BY <2>1, Zenon
    <3>4. X \in BOOLEAN /\ Y \in BOOLEAN /\ (n \in P) \in BOOLEAN
      OBVIOUS
    <3> HIDE DEF X, Y, g
    <3>5. g[n] = Y
      BY <3>1, <3>2, <3>3, <3>4
    <3> QED  BY <3>5 DEF Y
  <2>3. g = [n \in D |-> g[n]]
    OBVIOUS
  <2> HIDE DEF g
  <2> QED  BY <2>2, <2>3
<1> DEFINE at == CHOOSE f : f = Loop(f)
<1>5. at = Loop(at)
  <2> HIDE DEF Loop, g
  <2> QED  BY <1>4
<1>6. Reached(s, req) = {n \in 1 .. req.sent : at[n]}
  BY DEF Reached
<1> HIDE DEF at
<1>7. \A n \in D : at[n] <=> n = 0 \/ \E k \in 1 .. Buffer :
                     k <= n /\ at[n - k] /\ (n - k > 0 => ReadStep(s, req, n - k) = "more")
  BY <1>5
<1>8. \A n \in D : at[n] <=> n \in P
  <2> DEFINE Wrong == {n \in D : ~(at[n] <=> n \in P)}
  <2> SUFFICES ASSUME Wrong # {} PROVE FALSE
    OBVIOUS
  <2>1. Wrong \in SUBSET Nat
    OBVIOUS
  <2>2. PICK n \in Wrong : \A m \in Wrong : n <= m
    <3> HIDE DEF Wrong
    <3> QED  BY <2>1, Smallest
  <2>3. n \in D
    OBVIOUS
  <2>4. \A k \in 1 .. Buffer : k <= n => (at[n - k] <=> n - k \in P)
    <3> SUFFICES ASSUME NEW k \in 1 .. Buffer, k <= n PROVE at[n - k] <=> n - k \in P
      OBVIOUS
    <3>1. n - k \in D /\ n - k < n
      BY <1>3, <2>3
    <3>2. ~(n <= n - k)
      BY <2>3, <3>1
    <3> QED  BY <2>2, <3>1, <3>2
  <2>5. at[n] <=> n \in P
    BY <1>2, <1>7, <2>3, <2>4
  <2> QED  BY <2>5
<1>9. P \ {0} = {n \in 1 .. req.sent : n \in P} /\ 1 .. req.sent \subseteq D
  <2>1. \A n : n \in D /\ n # 0 <=> n \in 1 .. req.sent
    OBVIOUS
  <2> HIDE DEF D
  <2> QED  BY <1>1, <2>1
<1>10. {n \in 1 .. req.sent : at[n]} = {n \in 1 .. req.sent : n \in P}
  <2> HIDE DEF D
  <2> QED  BY <1>8, <1>9
<1>11. Reached(s, req) = P \ {0}
  BY <1>6, <1>9, <1>10, Zenon
<1> QED  BY <1>11 DEF P

\* What the model's recursion says of the loop: a read ends at n if it began
\* at 0 or where an earlier read left the request unfinished.
LEMMA ReachedStep ==
    ASSUME NEW s, NEW req, req.sent \in Nat, NEW n \in 1 .. req.sent
    PROVE  n \in Reached(s, req) <=>
             \E k \in 1 .. Buffer :
                /\ k <= n
                /\ n = k \/ (n - k \in Reached(s, req) /\ ReadStep(s, req, n - k) = "more")
<1> DEFINE P == Positions(s, req)
<1>0. Buffer \in Nat
  BY SizeAssumption
<1>1. Reached(s, req) = P \ {0}
  BY ReachedIs
<1>2. 0 \in P
  BY PositionsFix
<1>3. n \in P <=> n = 0 \/ \E k \in 1 .. Buffer : k <= n /\ n - k \in P /\ GoesFrom(s, req, n - k)
  BY PositionsFix
<1> HIDE DEF P
<1>4. ASSUME NEW k \in 1 .. Buffer, k <= n
      PROVE  (n - k \in P /\ GoesFrom(s, req, n - k)) <=>
               (n = k \/ (n - k \in P \ {0} /\ ReadStep(s, req, n - k) = "more"))
  <2>1. n - k \in Nat /\ (n = k <=> n - k = 0)
    BY <1>0, <1>4
  <2> QED  BY <1>2, <2>1 DEF GoesFrom
<1> QED  BY <1>1, <1>3, <1>4

\* A loop that ends when the whole request is there ends somewhere.
LEMMA SomeEnd ==
    ASSUME NEW s, NEW req, req.sent \in Nat \ {0}, ReadStep(s, req, req.sent) # "more"
    PROVE  \E n \in Reached(s, req) : ReadStep(s, req, n) # "more"
<1> DEFINE E == {n \in 1 .. req.sent : ReadStep(s, req, n) # "more"}
<1>0. Buffer \in Nat \ {0}
  BY SizeAssumption
<1>1. E \in SUBSET Nat /\ E # {}
  OBVIOUS
<1>2. PICK e \in E : \A m \in E : e <= m
  <2> HIDE DEF E
  <2> QED  BY <1>1, Smallest
<1>3. e \in 1 .. req.sent /\ ReadStep(s, req, e) # "more"
  OBVIOUS
<1>4. \A n \in 1 .. req.sent : n < e => ReadStep(s, req, n) = "more"
  BY <1>2, <1>3
<1> HIDE DEF E
<1> DEFINE W == {n \in 1 .. e : n \notin Reached(s, req)}
<1>5. W = {}
  <2> SUFFICES ASSUME W # {} PROVE FALSE
    OBVIOUS
  <2>1. W \in SUBSET Nat
    OBVIOUS
  <2>2. PICK n \in W : \A m \in W : n <= m
    <3> HIDE DEF W
    <3> QED  BY <2>1, Smallest
  <2>3. n \in 1 .. req.sent /\ n \in 1 .. e /\ n \notin Reached(s, req)
    BY <1>3
  <2>4. 1 \in 1 .. Buffer /\ 1 <= n
    BY <1>0, <2>3
  <2>5. CASE n = 1
    BY <2>3, <2>4, <2>5, ReachedStep
  <2>6. CASE n # 1
    <3>1. n - 1 \in 1 .. e /\ n - 1 \in 1 .. req.sent /\ n - 1 < e /\ ~(n <= n - 1)
      BY <1>3, <2>3, <2>6
    <3>2. n - 1 \in Reached(s, req)
      BY <2>2, <3>1
    <3>3. ReadStep(s, req, n - 1) = "more"
      BY <1>4, <3>1
    <3> QED  BY <2>3, <2>4, <3>2, <3>3, ReachedStep
  <2> QED  BY <2>5, <2>6
<1>6. e \in Reached(s, req)
  BY <1>3, <1>5
<1> QED  BY <1>3, <1>6

\* Requests that a client sends in full
WholeRequest ==
    {[line |-> l, head |-> h, length |-> n,
      sent |-> h + Terminator + (IF n \in Nat THEN n ELSE 0)] :
        l \in {"ok", "bad"}, h \in Nat, n \in {NoLength, BadLength} \cup Nat}

\* The Content-Length each server makes out
LengthFor(s, req) ==
    IF req.length = NoLength THEN (IF s = "example" THEN BadLength ELSE 0) ELSE req.length

\* What reading a request comes to if its header block is found to be complete
Verdict(s, req) ==
    IF s = "bot" /\ req.head > MaxHeader THEN "error"
    ELSE IF LengthFor(s, req) = BadLength THEN "error"
    ELSE IF LengthFor(s, req) > MaxBody THEN "error"
    ELSE IF req.line = "ok" THEN "request" ELSE "error"

\* The parts of a request that is sent in full
LEMMA WholeFacts ==
    ASSUME NEW req \in WholeRequest
    PROVE  /\ req.head \in Nat
           /\ req.length \in {NoLength, BadLength} \cup Nat
           /\ req.sent \in Nat \ {0}
           /\ req.sent >= req.head + Terminator
           /\ req.length \in Nat => req.sent = req.head + Terminator + req.length
<1>1. Terminator \in Nat \ {0}
  BY SizeAssumption
<1>2. PICK l \in {"ok", "bad"}, h \in Nat, n \in {NoLength, BadLength} \cup Nat :
        req = [line |-> l, head |-> h, length |-> n,
               sent |-> h + Terminator + (IF n \in Nat THEN n ELSE 0)]
  BY DEF WholeRequest
<1>3. /\ req.head = h /\ req.length = n
      /\ req.sent = h + Terminator + (IF n \in Nat THEN n ELSE 0)
  BY <1>2
<1> QED  BY <1>1, <1>3

\* A step of the three read loops, once the header block is complete
LEMMA StepComplete ==
    ASSUME NEW s \in Server, NEW req \in WholeRequest, NEW n \in Nat, HeaderComplete(req, n)
    PROVE  /\ ReadStep(s, req, n) \in {"more", Verdict(s, req)}
           /\ n >= req.sent => ReadStep(s, req, n) = Verdict(s, req)
<1> DEFINE L == LengthFor(s, req)
           R == IF req.line = "ok" THEN "request" ELSE "error"
           B == BodyStep(req, n, L, R)
<1>0. /\ MaxHeader \in Nat /\ MaxBody \in Nat /\ Terminator \in Nat
      /\ NoLength \notin Nat /\ BadLength \notin Nat
  BY SizeAssumption, LengthAssumption
<1>1. ReadStep(s, req, n) = IF s = "bot" /\ req.head > MaxHeader THEN "error" ELSE B
  <2>1. CASE s = "bot"
    <3>1. BotContentLength(req) = L /\ BotParse(req) = R
      BY <2>1 DEF BotContentLength, BotParse, LengthFor
    <3> HIDE DEF L, R
    <3> QED  BY <2>1, <3>1 DEF ReadStep, BotRead
  <2>2. CASE s = "cli"
    <3>1. CliContentLength(req) = L /\ CliParse(req) = R
      BY <2>2 DEF CliContentLength, CliParse, LengthFor
    <3> HIDE DEF L, R
    <3> QED  BY <2>2, <3>1 DEF ReadStep, CliRead
  <2>3. CASE s = "example"
    <3>1. ExampleContentLength(req) = L /\ ExampleParse(req) = R
      BY <2>3 DEF ExampleContentLength, ExampleParse, LengthFor
    <3> HIDE DEF L, R
    <3> QED  BY <2>3, <3>1 DEF ReadStep, ExampleRead
  <2> QED  BY <2>1, <2>2, <2>3 DEF Server
<1>2. L = BadLength \/ L \in Nat
  BY <1>0, WholeFacts DEF LengthFor
<1>3. L \in Nat /\ n >= req.sent => n >= req.head + Terminator + L
  <2>0. /\ req.head \in Nat /\ req.sent \in Nat /\ n >= req.head + Terminator
        /\ req.length \in Nat => req.sent = req.head + Terminator + req.length
    BY WholeFacts DEF HeaderComplete
  <2>1. L \in Nat => L = 0 \/ (L = req.length /\ req.length \in Nat)
    BY <1>0 DEF LengthFor
  <2> HIDE DEF L
  <2>2. CASE L = 0
    BY <1>0, <2>0, <2>2
  <2>3. CASE L = req.length /\ req.length \in Nat
    BY <1>0, <2>0, <2>3
  <2> QED  BY <2>1, <2>2, <2>3
<1>4. Verdict(s, req) = IF s = "bot" /\ req.head > MaxHeader THEN "error"
                        ELSE IF L = BadLength THEN "error"
                        ELSE IF L > MaxBody THEN "error" ELSE R
  BY DEF Verdict
<1> HIDE DEF L, R
<1> QED  BY <1>0, <1>1, <1>2, <1>3, <1>4 DEF BodyStep

\* A step of the three read loops, while the header block is incomplete
LEMMA StepIncomplete ==
    ASSUME NEW s \in Server, NEW req, NEW n, ~HeaderComplete(req, n)
    PROVE  ReadStep(s, req, n) = IF n > MaxHeader THEN "error" ELSE "more"
<1>1. CASE s = "bot"
  BY <1>1 DEF ReadStep, BotRead, HeaderStep
<1>2. CASE s = "cli"
  BY <1>2 DEF ReadStep, CliRead, HeaderStep
<1>3. CASE s = "example"
  BY <1>3 DEF ReadStep, ExampleRead, HeaderStep
<1> QED  BY <1>1, <1>2, <1>3 DEF Server

\* A request sent in full is decided on: its results are those of the
\* positions at which the loop ends, and there is one.
LEMMA ResultsOf ==
    ASSUME NEW s \in Server, NEW req \in WholeRequest
    PROVE  /\ Results(s, req) = {ReadStep(s, req, n) : n \in Reached(s, req)} \ {"more"}
           /\ Results(s, req) # {}
           /\ Reached(s, req) \subseteq 1 .. req.sent
<1>1. req.sent \in Nat \ {0} /\ HeaderComplete(req, req.sent)
  BY WholeFacts DEF HeaderComplete
<1>2. ReadStep(s, req, req.sent) = Verdict(s, req)
  BY <1>1, StepComplete
<1>3. Verdict(s, req) # "more"
  BY DEF Verdict
<1>4. Results(s, req) = {ReadStep(s, req, n) : n \in Reached(s, req)} \ {"more"}
  BY <1>1, <1>2, <1>3 DEF Results
<1>5. \E n \in Reached(s, req) : ReadStep(s, req, n) # "more"
  BY <1>1, <1>2, <1>3, SomeEnd
<1>6. Reached(s, req) \subseteq 1 .. req.sent
  BY DEF Reached
<1> QED  BY <1>4, <1>5, <1>6

\* If every step goes on or ends in v, then v is the result.
LEMMA OneResult ==
    ASSUME NEW s \in Server, NEW req \in WholeRequest, NEW v,
           \A n \in Reached(s, req) : ReadStep(s, req, n) \in {"more", v}
    PROVE  Results(s, req) = {v}
BY ResultsOf

\* A header block well within the limit is always found to be complete.
LEMMA ShortHeader ==
    ASSUME NEW s \in Server, NEW req \in WholeRequest, req.head + Terminator <= MaxHeader + 1
    PROVE  Results(s, req) = {Verdict(s, req)}
<1>0. MaxHeader \in Nat /\ Terminator \in Nat /\ req.head \in Nat /\ req.sent \in Nat
  BY SizeAssumption, WholeFacts
<1>1. ASSUME NEW n \in Reached(s, req) PROVE ReadStep(s, req, n) \in {"more", Verdict(s, req)}
  <2>1. n \in Nat
    BY <1>0, ResultsOf
  <2>2. CASE HeaderComplete(req, n)
    BY <2>1, <2>2, StepComplete
  <2>3. CASE ~HeaderComplete(req, n)
    <3>1. ~(n > MaxHeader)
      BY <1>0, <2>1, <2>3 DEF HeaderComplete
    <3> QED  BY <2>3, <3>1, StepIncomplete
  <2> QED  BY <2>2, <2>3
<1> QED  BY <1>1, OneResult

\* What has the verdict "error" is never accepted, complete or not.
LEMMA BadRequests ==
    ASSUME NEW s \in Server, NEW req \in WholeRequest, Verdict(s, req) = "error"
    PROVE  Results(s, req) = {"error"}
<1>0. req.sent \in Nat
  BY WholeFacts
<1>1. ASSUME NEW n \in Reached(s, req) PROVE ReadStep(s, req, n) \in {"more", "error"}
  <2>1. n \in Nat
    BY <1>0, ResultsOf
  <2> QED  BY <2>1, StepComplete, StepIncomplete
<1> QED  BY <1>1, OneResult

\* No sequence of reads gets to the end of a header block that is longer than
\* the limit by a buffer: the read before the last would have had to go on
\* from beyond the limit.
LEMMA LongHeader ==
    ASSUME NEW s \in Server, NEW req \in WholeRequest,
           req.head + Terminator > MaxHeader + Buffer
    PROVE  Results(s, req) = {"error"}
<1> DEFINE C == {n \in Reached(s, req) : HeaderComplete(req, n)}
<1>0. /\ MaxHeader \in Nat /\ Terminator \in Nat /\ Buffer \in Nat /\ req.head \in Nat
      /\ req.sent \in Nat
  BY SizeAssumption, WholeFacts
<1>1. C = {}
  <2> SUFFICES ASSUME C # {} PROVE FALSE
    OBVIOUS
  <2>1. C \in SUBSET Nat
    BY <1>0, ResultsOf
  <2>2. PICK n \in C : \A m \in C : n <= m
    <3> HIDE DEF C
    <3> QED  BY <2>1, Smallest
  <2>3. n \in Reached(s, req) /\ n \in 1 .. req.sent /\ n >= req.head + Terminator
    BY ResultsOf DEF HeaderComplete
  <2>4. PICK k \in 1 .. Buffer :
          /\ k <= n
          /\ n = k \/ (n - k \in Reached(s, req) /\ ReadStep(s, req, n - k) = "more")
    BY <1>0, <2>3, ReachedStep
  <2>5. n # k
    BY <1>0, <2>3, <2>4
  <2>6. n - k \in Nat /\ ~(n <= n - k)
    BY <1>0, <2>3, <2>4
  <2>7. ~HeaderComplete(req, n - k)
    BY <2>2, <2>4, <2>5, <2>6
  <2>8. ~(n - k > MaxHeader)
    BY <2>4, <2>5, <2>7, StepIncomplete
  <2> QED  BY <1>0, <2>3, <2>4, <2>6, <2>8
<1>2. \A n \in Reached(s, req) : ReadStep(s, req, n) \in {"more", "error"}
  BY <1>1, StepIncomplete
<1> QED  BY <1>2, OneResult

\* For every request sent in full, the answer depends on how TCP splits it only
\* if its header block is about as long as the limit, and nothing beyond the
\* limits is accepted.
THEOREM AnyRequestSplit ==
    ASSUME NEW s \in Server, NEW req \in WholeRequest
    PROVE  /\ req.head \notin SplitWindow(s) => Cardinality(Results(s, req)) = 1
           /\ "request" \in Results(s, req) =>
                /\ req.length \in {NoLength} \cup 0 .. MaxBody
                /\ req.head <= (IF s = "bot" THEN MaxHeader ELSE MaxHeader + Buffer - Terminator)
<1> DEFINE top == IF s = "bot" THEN MaxHeader ELSE MaxHeader + Buffer - Terminator
<1>0. /\ MaxHeader \in Nat /\ MaxBody \in Nat /\ Terminator \in Nat /\ Buffer \in Nat
      /\ NoLength \notin Nat /\ BadLength \notin Nat
      /\ req.head \in Nat /\ req.length \in {NoLength, BadLength} \cup Nat
  BY SizeAssumption, LengthAssumption, WholeFacts
<1>1. top \in Int
  BY <1>0
<1>2. req.head > top => Results(s, req) = {"error"}
  <2>1. CASE s = "bot"
    BY <2>1, BadRequests DEF Verdict
  <2>2. CASE s # "bot"
    BY <1>0, <2>2, LongHeader
  <2> QED  BY <2>1, <2>2
<1>3. req.head \notin SplitWindow(s) => Cardinality(Results(s, req)) = 1
  <2>1. req.head \notin SplitWindow(s) =>
          req.head > top \/ req.head + Terminator <= MaxHeader + 1
    BY <1>0, <1>1 DEF SplitWindow
  <2>2. \A v : Cardinality({v}) = 1
    BY FS_Singleton
  <2> QED  BY <1>2, <2>1, <2>2, ShortHeader
<1>4. ASSUME "request" \in Results(s, req)
      PROVE  req.length \in {NoLength} \cup 0 .. MaxBody /\ req.head <= top
  <2>1. Verdict(s, req) # "error" /\ ~(req.head > top)
    BY <1>2, <1>4, BadRequests
  <2>2. LengthFor(s, req) # BadLength /\ ~(LengthFor(s, req) > MaxBody)
    BY <2>1 DEF Verdict
  <2>3. req.length \in {NoLength} \cup 0 .. MaxBody
    BY <1>0, <2>2 DEF LengthFor
  <2> QED  BY <1>0, <1>1, <2>1, <2>3
<1> QED  BY <1>3, <1>4

\* No step changes the configuration.
LEMMA ConfigStays == cfg \in Configs /\ [Next]_vars => (cfg \in Configs)'
<1> SUFFICES ASSUME [Next]_vars PROVE cfg' = cfg
  OBVIOUS
<1>1. ASSUME NEW c \in Conn, Receiving(c) PROVE cfg' = cfg
  BY <1>1, ReceivingFrame
<1>2. ASSUME NEW e \in Event, Hear(e) \/ HearTooMuch(e) \/ Forwarding(e) PROVE cfg' = cfg
  BY <1>2 DEF Hear, HearTooMuch, Forwarding, Wake, ForwardDone, ForwardRefused, ForwardBroken,
              Retry, receiver
<1>3. Signal \/ ExitSidecar \/ PrintEvent \/ AcceptFails \/ RecvNone \/ Over \/ UNCHANGED vars
        => cfg' = cfg
  BY DEF Signal, ExitSidecar, PrintEvent, AcceptFails, RecvNone, Over, vars, receiver
<1> QED  BY <1>1, <1>2, <1>3 DEF Next

\* How TCP splits a request matters only for header blocks about as long as
\* the limit, and no receiver accepts more than its limits.
THEOREM SplitsDoNotMatter == Spec => []SplittingIrrelevant
<1>1. SampleRequests \subseteq WholeRequest
  <2> SUFFICES ASSUME NEW l \in {"ok", "bad"}, NEW h \in 0 .. MaxHeader + 2 * Buffer,
                      NEW n \in {NoLength, BadLength} \cup 0 .. MaxBody + 1
               PROVE  h \in Nat /\ n \in {NoLength, BadLength} \cup Nat
    BY DEF SampleRequests, WholeRequest
  <2> QED  BY SizeAssumption
<1>2. ASSUME NEW s \in Server PROVE SplittingOf[s]
  BY <1>1, AnyRequestSplit, Zenon DEF SplittingOf
<1>3. cfg \in Configs => SplittingIrrelevant
  <2>1. cfg \in Configs => cfg.server \in Server
    BY ConfigAssumption DEF Config, Server
  <2> QED  BY <1>2, <2>1 DEF SplittingIrrelevant
<1>4. Init => cfg \in Configs
  BY DEF Init
<1> QED  BY <1>3, <1>4, ConfigStays, PTL DEF Spec
=============================================================================
