-------------------------- MODULE JsonlStateProofs --------------------------
(***************************************************************************)
(* Proofs about JsonlState, for any number of handles, messages, rooms,    *)
(* lease durations and bounds.                                             *)
(*                                                                         *)
(* The first part proves what one more record does to the state a file     *)
(* stands for.  The second part proves an inductive invariant, IInv, from  *)
(* which the safety properties follow.                                     *)
(***************************************************************************)
EXTENDS JsonlState, WellFoundedInduction, TLAPS

-----------------------------------------------------------------------------
(***************************************************************************)
(* Appending a record to a file.                                           *)
(***************************************************************************)

\* The records of a file after an append are the old ones and the new one.
LEMMA AppendFacts ==
    ASSUME NEW l \in Seq(StateEvent), NEW r \in StateEvent
    PROVE  /\ Append(l, r) \in Seq(StateEvent)
           /\ DOMAIN l = 1 .. Len(l)
           /\ Len(l) \in Nat
           /\ Len(Append(l, r)) = Len(l) + 1
           /\ DOMAIN Append(l, r) = 1 .. (Len(l) + 1)
           /\ \A i \in 1 .. Len(l) : Append(l, r)[i] = l[i]
           /\ Append(l, r)[Len(l) + 1] = r
           /\ \A i \in 1 .. Len(l) : l[i] \in StateEvent
BY DEF StateEvent

\* apply_record inserts into processed_message_ids for processed records only.
LEMMA ProcessedAppend ==
    ASSUME NEW l \in Seq(StateEvent), NEW r \in StateEvent
    PROVE  ProcessedIn(Append(l, r)) =
             {m \in Msg : m \in ProcessedIn(l) \/ (r.kind = "processed" /\ r.msg = m)}
<1> DEFINE k == Append(l, r)
<1>1. /\ DOMAIN l = 1 .. Len(l) /\ Len(l) \in Nat
      /\ DOMAIN k = 1 .. (Len(l) + 1)
      /\ \A i \in 1 .. Len(l) : k[i] = l[i]
      /\ k[Len(l) + 1] = r
  BY AppendFacts
<1>2. \A m \in Msg : r = [kind |-> "processed", msg |-> m]
                       <=> r.kind = "processed" /\ r.msg = m
  BY DEF StateEvent, ProcessedMessage, AttemptLeased, AttemptReleased, RoomCheckpoint
<1> HIDE DEF k
<1>3. \A m \in Msg : (\E i \in DOMAIN k : k[i] = [kind |-> "processed", msg |-> m])
        <=> \/ \E i \in DOMAIN l : l[i] = [kind |-> "processed", msg |-> m]
            \/ r = [kind |-> "processed", msg |-> m]
  BY <1>1
<1> QED  BY <1>2, <1>3 DEF ProcessedIn, k

\* A record that is appended leaves an earlier lease standing unless it
\* supersedes it, releases it, or processes its message.
LEMMA StandsAppend ==
    ASSUME NEW l \in Seq(StateEvent), NEW r \in StateEvent, NEW i \in DOMAIN l
    PROVE  Stands(Append(l, r), i) <=>
             /\ Stands(l, i)
             /\ ~Ends(r, l[i])
             /\ ~(r.kind = "processed" /\ r.msg = l[i].msg)
<1> DEFINE k == Append(l, r)
<1>1. /\ DOMAIN l = 1 .. Len(l) /\ Len(l) \in Nat
      /\ DOMAIN k = 1 .. (Len(l) + 1)
      /\ \A j \in 1 .. Len(l) : k[j] = l[j]
      /\ k[Len(l) + 1] = r
      /\ l[i] \in StateEvent
  BY AppendFacts
<1>2. ProcessedIn(k) =
        {m \in Msg : m \in ProcessedIn(l) \/ (r.kind = "processed" /\ r.msg = m)}
  BY ProcessedAppend
<1> HIDE DEF k
<1>3. l[i].kind = "leased" => l[i].msg \in Msg
  BY <1>1 DEF StateEvent, ProcessedMessage, AttemptLeased, AttemptReleased, RoomCheckpoint
<1>4. (\A j \in DOMAIN k : j > i => ~Ends(k[j], k[i]))
        <=> (\A j \in DOMAIN l : j > i => ~Ends(l[j], l[i])) /\ ~Ends(r, l[i])
  BY <1>1
<1> QED  BY <1>1, <1>2, <1>3, <1>4 DEF Stands, k

\* The lease that a leased record creates stands unless its message is
\* processed; other records stand for no lease.
LEMMA StandsLast ==
    ASSUME NEW l \in Seq(StateEvent), NEW r \in StateEvent
    PROVE  Stands(Append(l, r), Len(l) + 1) <=>
             r.kind = "leased" /\ r.msg \notin ProcessedIn(l)
<1> DEFINE k == Append(l, r)
<1>1. /\ Len(l) \in Nat
      /\ DOMAIN k = 1 .. (Len(l) + 1)
      /\ k[Len(l) + 1] = r
  BY AppendFacts
<1>2. ProcessedIn(k) =
        {m \in Msg : m \in ProcessedIn(l) \/ (r.kind = "processed" /\ r.msg = m)}
  BY ProcessedAppend
<1> HIDE DEF k
<1>3. r.kind = "leased" => r.msg \in Msg
  BY DEF StateEvent, ProcessedMessage, AttemptLeased, AttemptReleased, RoomCheckpoint
<1>4. \A j \in DOMAIN k : ~(j > Len(l) + 1)
  BY <1>1
<1> QED  BY <1>1, <1>2, <1>3, <1>4 DEF Stands, k

\* What an append does to the standing leases, as a set.
LEMMA StandingAppend ==
    ASSUME NEW l \in Seq(StateEvent), NEW r \in StateEvent
    PROVE  Standing(Append(l, r)) =
             {x \in Standing(l) : ~Ends(r, x) /\ ~(r.kind = "processed" /\ r.msg = x.msg)}
               \cup (IF r.kind = "leased" /\ r.msg \notin ProcessedIn(l) THEN {r} ELSE {})
<1> DEFINE k == Append(l, r)
<1>1. /\ DOMAIN l = 1 .. Len(l) /\ Len(l) \in Nat
      /\ DOMAIN k = 1 .. (Len(l) + 1)
      /\ \A j \in 1 .. Len(l) : k[j] = l[j]
      /\ k[Len(l) + 1] = r
  BY AppendFacts
<1>2. \A i \in DOMAIN l : Stands(k, i) <=>
             /\ Stands(l, i)
             /\ ~Ends(r, l[i])
             /\ ~(r.kind = "processed" /\ r.msg = l[i].msg)
  BY StandsAppend
<1>3. Stands(k, Len(l) + 1) <=> r.kind = "leased" /\ r.msg \notin ProcessedIn(l)
  BY StandsLast
<1> HIDE DEF k
<1>4. DOMAIN k = DOMAIN l \cup {Len(l) + 1}
  BY <1>1
<1> QED  BY <1>1, <1>2, <1>3, <1>4 DEF Standing, k

\* The insert of a room checkpoint replaces the one the room had.
LEMMA PointsAppend ==
    ASSUME NEW l \in Seq(StateEvent), NEW r \in StateEvent
    PROVE  PointsIn(Append(l, r)) =
             IF r.kind = "checkpoint"
             THEN {x \in PointsIn(l) : x.room # r.room} \cup {r} ELSE PointsIn(l)
<1> DEFINE k == Append(l, r)
<1>1. /\ DOMAIN l = 1 .. Len(l) /\ Len(l) \in Nat
      /\ DOMAIN k = 1 .. (Len(l) + 1)
      /\ \A j \in 1 .. Len(l) : k[j] = l[j]
      /\ k[Len(l) + 1] = r
  BY AppendFacts
<1> HIDE DEF k
<1>2. \A i \in DOMAIN l : Latest(k, i) <=>
           Latest(l, i) /\ ~(r.kind = "checkpoint" /\ r.room = l[i].room)
  BY <1>1 DEF Latest
<1>3. Latest(k, Len(l) + 1) <=> r.kind = "checkpoint"
  BY <1>1 DEF Latest
<1>4. DOMAIN k = DOMAIN l \cup {Len(l) + 1}
  BY <1>1
<1> QED  BY <1>1, <1>2, <1>3, <1>4 DEF PointsIn, k

\* An empty or missing file stands for StateSnapshot::default().
THEOREM ReplayEmpty == ASSUME NEW t \in Nat PROVE Snapshot(<<>>, t) = EmptySnapshot
BY DEF Snapshot, EmptySnapshot, ProcessedIn, LeasesIn, Standing, PointsIn

\* apply_record takes the snapshot of a file to the snapshot of that file
\* with one more record: the incremental update of
\* append_after_current_snapshot_unlocked is a reload.  With ReplayEmpty,
\* Snapshot is what parse_snapshot_bytes computes line by line.
THEOREM ReplayStep ==
    ASSUME NEW l \in Seq(StateEvent), NEW r \in StateEvent, NEW t \in Nat
    PROVE  ApplyRecord(Snapshot(l, t), r, t) = Snapshot(Append(l, r), t)
<1> DEFINE S == Standing(l)
           P == ProcessedIn(l)
           Q == PointsIn(l)
<1>1. \A x \in S : x \in AttemptLeased
  <2>1. \A i \in DOMAIN l : l[i] \in StateEvent
    OBVIOUS
  <2> QED  BY <2>1 DEF Standing, Stands, StateEvent, ProcessedMessage, AttemptLeased,
                       AttemptReleased, RoomCheckpoint
<1>2. \A x \in S : x.msg \notin P
  BY DEF Standing, Stands
<1>3. P \subseteq Msg
  BY DEF ProcessedIn
<1>4. ProcessedIn(Append(l, r)) =
        {m \in Msg : m \in P \/ (r.kind = "processed" /\ r.msg = m)}
  BY ProcessedAppend
<1>5. Standing(Append(l, r)) =
        {x \in S : ~Ends(r, x) /\ ~(r.kind = "processed" /\ r.msg = x.msg)}
          \cup (IF r.kind = "leased" /\ r.msg \notin P THEN {r} ELSE {})
  BY StandingAppend
<1>6. PointsIn(Append(l, r)) =
        IF r.kind = "checkpoint" THEN {x \in Q : x.room # r.room} \cup {r} ELSE Q
  BY PointsAppend
<1> HIDE DEF S, P, Q
<1>7. Snapshot(l, t) = [processed |-> P, leases |-> {x \in S : x.exp > t}, points |-> Q]
  BY DEF Snapshot, LeasesIn, S, P, Q
<1>8. CASE r \in ProcessedMessage
  <2>1. r.kind = "processed" /\ r.msg \in Msg  BY <1>8 DEF ProcessedMessage
  <2>2. ProcessedIn(Append(l, r)) = P \cup {r.msg}  BY <2>1, <1>3, <1>4
  <2>3. Standing(Append(l, r)) = {x \in S : x.msg # r.msg}
    BY <2>1, <1>5 DEF Ends
  <2>4. PointsIn(Append(l, r)) = Q  BY <2>1, <1>6
  <2> QED  BY <1>7, <2>1, <2>2, <2>3, <2>4 DEF ApplyRecord, MatchedLeases, Snapshot, LeasesIn
<1>9. CASE r \in AttemptLeased
  <2>1. r.kind = "leased" /\ r.msg \in Msg /\ r.exp \in Nat BY <1>9 DEF AttemptLeased
  <2>2. ProcessedIn(Append(l, r)) = P  BY <2>1, <1>3, <1>4
  <2>3. Standing(Append(l, r)) = {x \in S : x.msg # r.msg}
                                   \cup (IF r.msg \notin P THEN {r} ELSE {})
    BY <2>1, <1>5 DEF Ends
  <2>4. PointsIn(Append(l, r)) = Q  BY <2>1, <1>6
  <2> QED  BY <1>7, <2>1, <2>2, <2>3, <2>4 DEF ApplyRecord, MatchedLeases, Snapshot, LeasesIn
<1>10. CASE r \in AttemptReleased
  <2>1. r.kind = "released"  BY <1>10 DEF AttemptReleased
  <2>2. ProcessedIn(Append(l, r)) = P  BY <2>1, <1>3, <1>4
  <2>3. Standing(Append(l, r)) = {x \in S : ~(x.msg = r.msg /\ x.attempt = r.attempt)}
    BY <2>1, <1>5 DEF Ends
  <2>4. PointsIn(Append(l, r)) = Q  BY <2>1, <1>6
  <2> QED  BY <1>7, <2>1, <2>2, <2>3, <2>4 DEF ApplyRecord, MatchedLeases, Snapshot, LeasesIn
<1>11. CASE r \in RoomCheckpoint
  <2>1. r.kind = "checkpoint"  BY <1>11 DEF RoomCheckpoint
  <2>2. ProcessedIn(Append(l, r)) = P  BY <2>1, <1>3, <1>4
  <2>3. Standing(Append(l, r)) = S
    BY <2>1, <1>5 DEF Ends
  <2>4. PointsIn(Append(l, r)) = {x \in Q : x.room # r.room} \cup {r}  BY <2>1, <1>6
  <2> QED  BY <1>7, <2>1, <2>2, <2>3, <2>4 DEF ApplyRecord, MatchedLeases, Snapshot, LeasesIn
<1> QED  BY <1>8, <1>9, <1>10, <1>11 DEF StateEvent

\* Induction over the natural numbers, for a set instead of a predicate: a
\* set that is not all of Nat would miss a smallest number.
LEMMA SetInduction ==
    ASSUME NEW S \in SUBSET Nat, 0 \in S, \A n \in S : n + 1 \in S
    PROVE  S = Nat
<1> DEFINE T == Nat \ S
           R == OpToRel(<, Nat)
<1> SUFFICES ASSUME T # {} PROVE FALSE
  OBVIOUS
<1>1. IsWellFoundedOn(R, Nat)
  BY NatLessThanWellFounded
<1>2. \A x \in Nat, y \in Nat : y < x => <<y, x>> \in R
  BY DEF OpToRel
<1> HIDE DEF R
<1>3. T \subseteq Nat
  OBVIOUS
<1> HIDE DEF T
<1>4. PICK x \in T : \A y \in T : ~(<<y, x>> \in R)
  BY <1>1, <1>3, WFMin
<1>5. x \in Nat /\ x # 0 /\ x \notin S
  BY DEF T
<1>6. x - 1 \in Nat /\ x - 1 < x /\ (x - 1) + 1 = x
  BY <1>5
<1>7. x - 1 \notin T
  BY <1>2, <1>4, <1>5, <1>6
<1>8. x - 1 \in S
  BY <1>6, <1>7 DEF T
<1> QED  BY <1>5, <1>6, <1>8

\* The first n records of a file are the first n - 1 and the n-th.
LEMMA PrefixFacts ==
    ASSUME NEW l \in Seq(StateEvent)
    PROVE  /\ Len(l) \in Nat
           /\ SubSeq(l, 1, 0) = <<>>
           /\ SubSeq(l, 1, Len(l)) = l
           /\ \A n \in 1 .. Len(l) :
                /\ l[n] \in StateEvent
                /\ SubSeq(l, 1, n - 1) \in Seq(StateEvent)
                /\ SubSeq(l, 1, n) = Append(SubSeq(l, 1, n - 1), l[n])
OBVIOUS

\* After n lines the loop of parse_snapshot_bytes has the snapshot of the
\* first n lines: these snapshots obey the recursion of the loop, and
\* nothing else does.
LEMMA ReadsPrefixes ==
    ASSUME NEW l \in Seq(StateEvent), NEW t \in Nat
    PROVE  ReadLines(l, t) = [n \in 0 .. Len(l) |-> Snapshot(SubSeq(l, 1, n), t)]
<1> DEFINE g == [n \in 0 .. Len(l) |-> Snapshot(SubSeq(l, 1, n), t)]
           Loop(f) == [n \in 0 .. Len(l) |->
                         IF n = 0 THEN EmptySnapshot ELSE ApplyRecord(f[n - 1], l[n], t)]
<1>1. Len(l) \in Nat  BY PrefixFacts
<1>2. g[0] = EmptySnapshot
  <2>1. g[0] = Snapshot(SubSeq(l, 1, 0), t)  BY <1>1
  <2> QED  BY <2>1, PrefixFacts, ReplayEmpty
<1>3. ASSUME NEW n \in 1 .. Len(l) PROVE g[n] = ApplyRecord(g[n - 1], l[n], t)
  <2>1. g[n] = Snapshot(SubSeq(l, 1, n), t) /\ g[n - 1] = Snapshot(SubSeq(l, 1, n - 1), t)
    BY <1>1
  <2>2. ApplyRecord(Snapshot(SubSeq(l, 1, n - 1), t), l[n], t)
          = Snapshot(Append(SubSeq(l, 1, n - 1), l[n]), t)
    BY PrefixFacts, ReplayStep
  <2> QED  BY <2>1, <2>2, PrefixFacts
<1>4. DOMAIN g = 0 .. Len(l) /\ g = [n \in 0 .. Len(l) |-> g[n]]
  OBVIOUS
<1> HIDE DEF g
<1>5. g = Loop(g)
  <2>1. \A n \in 0 .. Len(l) :
            g[n] = IF n = 0 THEN EmptySnapshot ELSE ApplyRecord(g[n - 1], l[n], t)
    BY <1>1, <1>2, <1>3
  <2> QED  BY <1>4, <2>1
<1>6. ASSUME NEW f, f = Loop(f) PROVE f = g
  <2> DEFINE S == {n \in Nat : n \in 0 .. Len(l) => f[n] = g[n]}
  <2>1. f = [n \in 0 .. Len(l) |-> f[n]]
        /\ \A n \in 0 .. Len(l) :
             f[n] = IF n = 0 THEN EmptySnapshot ELSE ApplyRecord(f[n - 1], l[n], t)
    BY <1>6
  <2>2. 0 \in S  BY <1>1, <1>2, <2>1
  <2>3. ASSUME NEW n \in S PROVE n + 1 \in S
    <3> SUFFICES ASSUME n + 1 \in 0 .. Len(l) PROVE f[n + 1] = g[n + 1]
      OBVIOUS
    <3>1. n \in Nat /\ n + 1 \in 1 .. Len(l) /\ n \in 0 .. Len(l) /\ (n + 1) - 1 = n
      BY <1>1
    <3>2. f[n] = g[n]  BY <3>1
    <3>3. f[n + 1] = ApplyRecord(f[n], l[n + 1], t)  BY <2>1, <3>1
    <3>4. g[n + 1] = ApplyRecord(g[n], l[n + 1], t)  BY <1>3, <3>1
    <3> QED  BY <3>2, <3>3, <3>4
  <2>4. S \in SUBSET Nat  OBVIOUS
  <2> HIDE DEF S
  <2>5. S = Nat  BY <2>2, <2>3, <2>4, SetInduction
  <2>6. \A n \in 0 .. Len(l) : f[n] = g[n]  BY <1>1, <2>5 DEF S
  <2> QED  BY <1>4, <2>1, <2>6
<1>7. ReadLines(l, t) = CHOOSE f : f = Loop(f)
  BY DEF ReadLines
<1> HIDE DEF Loop
<1>8. (CHOOSE f : f = Loop(f)) = g
  BY <1>5, <1>6
<1> QED  BY <1>7, <1>8 DEF g

\* For every file and clock, the closed form of the snapshot is what
\* parse_snapshot_bytes computes line by line.
THEOREM ReplayIsSnapshot ==
    ASSUME NEW l \in Seq(StateEvent), NEW t \in Nat
    PROVE  Snapshot(l, t) = ParseSnapshotBytes(l, t)
<1>1. ReadLines(l, t)[Len(l)] = Snapshot(l, t)
  <2>1. Len(l) \in 0 .. Len(l)  BY PrefixFacts
  <2> QED  BY <2>1, PrefixFacts, ReadsPrefixes
<1> DEFINE s == Snapshot(l, t)
           kept == {x \in s.leases : x.exp > t}
<1>2. kept = s.leases
  BY DEF Snapshot, LeasesIn
<1>3. [s EXCEPT !.leases = s.leases] = s
  BY DEF Snapshot
<1>4. ParseSnapshotBytes(l, t) = [s EXCEPT !.leases = kept]
  BY <1>1 DEF ParseSnapshotBytes
<1> HIDE DEF s, kept
<1> QED  BY <1>2, <1>3, <1>4 DEF s

\* A message has at most one standing lease.
LEMMA StandingUnique ==
    ASSUME NEW l \in Seq(StateEvent), NEW x \in Standing(l), NEW y \in Standing(l),
           x.msg = y.msg
    PROVE  x = y
<1>1. PICK i \in DOMAIN l : Stands(l, i) /\ x = l[i]  BY DEF Standing
<1>2. PICK j \in DOMAIN l : Stands(l, j) /\ y = l[j]  BY DEF Standing
<1>3. i \in Nat /\ j \in Nat  OBVIOUS
<1>4. ~(i < j) /\ ~(j < i)  BY <1>1, <1>2, <1>3 DEF Stands, Ends
<1> QED  BY <1>1, <1>2, <1>3, <1>4

\* The standing leases are leased records of the file, of messages that
\* are not processed.
LEMMA StandingFacts ==
    ASSUME NEW l \in Seq(StateEvent), NEW x \in Standing(l)
    PROVE  /\ x \in AttemptLeased
           /\ x.msg \notin ProcessedIn(l)
           /\ \E i \in DOMAIN l : x = l[i]
<1>1. PICK i \in DOMAIN l : Stands(l, i) /\ x = l[i]  BY DEF Standing
<1>2. l[i] \in StateEvent  OBVIOUS
<1> QED  BY <1>1, <1>2 DEF Stands, StateEvent, ProcessedMessage, AttemptLeased,
                           AttemptReleased, RoomCheckpoint
-----------------------------------------------------------------------------
(***************************************************************************)
(* The inductive invariant.                                                *)
(***************************************************************************)
\* Only the handle that has the lock is between its decision and its return.
LockInv == \A h \in Handle : pc[h] = "writing" => lock = h

\* The tail has been repaired before anyone writes.
TailInv == tail # "corrupt" /\ (lock # NoHandle => tail # "torn")

\* A call's clock was read in the past.
ClockInv == \A h \in Handle : at[h] <= now

\* Whoever ends or extends an attempt has been seen to try.
CallInv == \A h \in Handle : call[h].kind \in {"release", "defer", "mark"}
                                => call[h].tok.attempt \in finished

Leased(i) == log[i].kind = "leased"

\* Attempt ids in the file have been drawn, and grow along the leases of a message.
AttemptInv ==
    /\ \A i \in DOMAIN log : Leased(i) => log[i].attempt < nextAttempt
    /\ \A i, j \in DOMAIN log :
         i < j /\ Leased(i) /\ Leased(j) /\ log[i].msg = log[j].msg
            => log[i].attempt <= log[j].attempt

\* A live token is the standing lease of its message.
LiveInv == \A t \in held : Live(t) => t \in Standing(log)

\* What begin_attempt has found, and nobody has changed since: the message
\* is not processed, and its last lease had ended by the clock of the call.
BeginDecided(h) ==
    /\ call[h].kind = "begin"
    /\ Len(recs[h]) = 1
    /\ recs[h][1] \in AttemptLeased
    /\ recs[h][1].msg \notin ProcessedIn(log)
    /\ \A x \in Standing(log) : x.msg = recs[h][1].msg => x.exp <= at[h]
    /\ \A i \in DOMAIN log : Leased(i) => log[i].attempt < recs[h][1].attempt
    /\ recs[h][1].attempt < nextAttempt

\* What ensure_attempt_owner has found, and nobody has changed since.
OwnerDecided(h) ==
    /\ call[h].kind \in {"release", "defer", "mark"}
    /\ Len(recs[h]) = 1
    /\ recs[h][1].msg = call[h].tok.msg
    /\ \/ recs[h][1] \in ProcessedMessage /\ call[h].kind = "mark"
       \/ /\ recs[h][1] \in AttemptLeased \cup AttemptReleased
          /\ call[h].kind # "mark"
          /\ recs[h][1].attempt = call[h].tok.attempt
    /\ \E x \in Standing(log) : x.msg = call[h].tok.msg
                                 /\ x.attempt = call[h].tok.attempt

SaveDecided(h) ==
    /\ call[h].kind = "save"
    /\ recs[h] \in Seq(RoomCheckpoint) \ {<<>>}

\* A handle that is about to append has decided on the current file.
WriteInv ==
    \A h \in Handle : pc[h] = "writing" =>
        /\ snap[h] = Snapshot(log, at[h])
        /\ BeginDecided(h) \/ OwnerDecided(h) \/ SaveDecided(h)

IInv == /\ ShapeOK /\ LockInv /\ TailInv /\ ClockInv /\ CallInv /\ AttemptInv
        /\ LiveInv /\ WriteInv /\ ProcessedIsFinal /\ SnapshotNeverAhead
        /\ (~PowerLoss => AckedIsDurable)

\* The fields that each kind of call carries.
LEMMA CallFacts ==
    ASSUME NEW c \in Calls
    PROVE  /\ c.kind \in {"load", "begin", "release", "mark", "defer", "save"}
           /\ c.kind = "begin" => c.msg \in Msg /\ c.lease \in Nat
           /\ c.kind \in {"release", "mark", "defer"} => c.tok \in AttemptLeased
           /\ c.kind = "defer" => c.lease \in Nat
           /\ c.kind = "save" => c.points \in Seq(RoomCheckpoint) \ {<<>>}
BY DurationAssumption DEF Calls

\* A reload yields a well-formed snapshot.
LEMMA SnapshotType ==
    ASSUME NEW l \in Seq(StateEvent), NEW t \in Nat
    PROVE  Snapshot(l, t) \in Snapshots
<1>1. ProcessedIn(l) \subseteq Msg  BY DEF ProcessedIn
<1>2. LeasesIn(l, t) \subseteq AttemptLeased  BY StandingFacts DEF LeasesIn
<1>3. PointsIn(l) \subseteq RoomCheckpoint
  <2>1. \A i \in DOMAIN l : l[i] \in StateEvent  OBVIOUS
  <2> QED  BY <2>1 DEF PointsIn, Latest, StateEvent, ProcessedMessage, AttemptLeased,
                       AttemptReleased, RoomCheckpoint
<1> QED  BY <1>1, <1>2, <1>3 DEF Snapshot, Snapshots

\* What holds of the file once the handle that has the lock has added the
\* record it decided on, whether or not its caller learns of it.
LEMMA GrowthSafe ==
    ASSUME IInv, NEW h \in Handle, pc[h] = "writing"
    PROVE  LET k == Append(log, Head(recs[h])) IN
           /\ Head(recs[h]) \in StateEvent
           /\ k \in Seq(StateEvent)
           /\ \A i \in DOMAIN k : k[i].kind = "leased" => k[i].attempt < nextAttempt
           /\ \A i, j \in DOMAIN k :
                i < j /\ k[i].kind = "leased" /\ k[j].kind = "leased" /\ k[i].msg = k[j].msg
                  => k[i].attempt <= k[j].attempt
           /\ \A i, j \in DOMAIN k :
                i < j /\ k[i].kind = "processed" /\ k[j].kind # "checkpoint"
                  => k[j].msg # k[i].msg
           /\ \A t \in held : Live(t) => t \in Standing(k)
           /\ ProcessedIn(log) \subseteq ProcessedIn(k)
           /\ call[h].kind = "begin" => Head(recs[h]) \in Standing(k)
           /\ call[h].kind = "mark" => call[h].tok.msg \in ProcessedIn(k)
<1> DEFINE r == Head(recs[h])
           k == Append(log, r)
<1>1. /\ log \in Seq(StateEvent) /\ recs[h] \in Seq(StateEvent) /\ call[h] \in Calls
      /\ nextAttempt \in Nat /\ at[h] \in Nat /\ now \in Nat /\ at[h] <= now
      /\ held \subseteq AttemptLeased
  BY DEF IInv, ShapeOK, ClockInv
<1>2. BeginDecided(h) \/ OwnerDecided(h) \/ SaveDecided(h)
  BY DEF IInv, WriteInv
<1>3. recs[h] # <<>> /\ r = recs[h][1] /\ r \in StateEvent
  BY <1>1, <1>2 DEF BeginDecided, OwnerDecided, SaveDecided
<1>4. /\ k \in Seq(StateEvent)
      /\ DOMAIN log = 1 .. Len(log) /\ Len(log) \in Nat
      /\ DOMAIN k = 1 .. (Len(log) + 1)
      /\ \A i \in 1 .. Len(log) : k[i] = log[i] /\ log[i] \in StateEvent
      /\ k[Len(log) + 1] = r
  BY <1>1, <1>3, AppendFacts
<1>5. ProcessedIn(k) =
        {m \in Msg : m \in ProcessedIn(log) \/ (r.kind = "processed" /\ r.msg = m)}
  BY <1>1, <1>3, ProcessedAppend
<1>6. Standing(k) =
        {x \in Standing(log) : ~Ends(r, x) /\ ~(r.kind = "processed" /\ r.msg = x.msg)}
          \cup (IF r.kind = "leased" /\ r.msg \notin ProcessedIn(log) THEN {r} ELSE {})
  BY <1>1, <1>3, StandingAppend
<1>7. \A i \in DOMAIN log : /\ Leased(i) => log[i].attempt < nextAttempt
                            /\ Leased(i) => log[i].attempt \in Nat
  BY <1>1 DEF IInv, AttemptInv, Leased, StateEvent, ProcessedMessage, AttemptLeased,
              AttemptReleased, RoomCheckpoint
<1>8. ProcessedIn(log) \subseteq ProcessedIn(k)
  BY <1>5 DEF ProcessedIn
<1>9. \A i \in DOMAIN log : log[i].kind = "processed" => log[i].msg \in ProcessedIn(log)
  BY <1>1 DEF ProcessedIn, StateEvent, ProcessedMessage, AttemptLeased, AttemptReleased,
              RoomCheckpoint
<1> HIDE DEF r, k
<1>10. CASE BeginDecided(h)
  <2>1. /\ r.kind = "leased" /\ r.msg \in Msg /\ r.attempt \in Nat /\ r.exp \in Nat
        /\ r.msg \notin ProcessedIn(log)
        /\ \A x \in Standing(log) : x.msg = r.msg => x.exp <= at[h]
        /\ \A i \in DOMAIN log : Leased(i) => log[i].attempt < r.attempt
        /\ r.attempt < nextAttempt
        /\ call[h].kind = "begin"
    BY <1>3, <1>10 DEF BeginDecided, AttemptLeased
  <2>2. \A i \in DOMAIN k : k[i].kind = "leased" => k[i].attempt < nextAttempt
    BY <1>4, <1>7, <2>1 DEF Leased
  <2>3. \A i, j \in DOMAIN k :
                i < j /\ k[i].kind = "leased" /\ k[j].kind = "leased" /\ k[i].msg = k[j].msg
                  => k[i].attempt <= k[j].attempt
    BY <1>4, <1>7, <2>1 DEF Leased, IInv, AttemptInv
  <2>4. \A i, j \in DOMAIN k :
                i < j /\ k[i].kind = "processed" /\ k[j].kind # "checkpoint"
                  => k[j].msg # k[i].msg
    BY <1>4, <1>9, <2>1 DEF IInv, ProcessedIsFinal
  <2>5. \A t \in held : Live(t) => t \in Standing(k)
    <3> SUFFICES ASSUME NEW t \in held, Live(t) PROVE t \in Standing(k)
      OBVIOUS
    <3>1. t \in Standing(log) /\ t.exp \in Nat /\ t.exp > now
      BY <1>1 DEF IInv, LiveInv, Live, AttemptLeased
    <3>2. t.msg # r.msg  BY <3>1, <2>1, <1>1
    <3> QED  BY <3>1, <3>2, <2>1, <1>6 DEF Ends
  <2>6. r \in Standing(k)  BY <2>1, <1>6
  <2> QED  BY <1>3, <1>4, <1>8, <2>1, <2>2, <2>3, <2>4, <2>5, <2>6 DEF r, k
<1>11. CASE OwnerDecided(h)
  <2> DEFINE tok == call[h].tok
  <2>1. /\ r.msg = tok.msg
        /\ \/ r \in ProcessedMessage /\ call[h].kind = "mark"
           \/ /\ r \in AttemptLeased \cup AttemptReleased /\ call[h].kind # "mark"
              /\ r.attempt = tok.attempt
        /\ tok \in AttemptLeased /\ tok.attempt \in finished
        /\ call[h].kind # "begin"
    BY <1>1, <1>3, <1>11, CallFacts DEF OwnerDecided, IInv, CallInv
  <2>2. PICK x \in Standing(log) : x.msg = tok.msg /\ x.attempt = tok.attempt
    BY <1>11 DEF OwnerDecided
  <2>3. x \in AttemptLeased /\ x.msg \notin ProcessedIn(log)
    BY <1>1, <2>2, StandingFacts
  <2>4. PICK n \in DOMAIN log : Stands(log, n) /\ x = log[n]
    BY <2>2 DEF Standing
  <2>5. \A i \in DOMAIN log : Leased(i) /\ log[i].msg = tok.msg
                               => log[i].attempt <= tok.attempt
    <3> SUFFICES ASSUME NEW i \in DOMAIN log, Leased(i), log[i].msg = tok.msg
                 PROVE  log[i].attempt <= tok.attempt
      OBVIOUS
    <3>1. ~(i > n)  BY <2>2, <2>4 DEF Stands, Ends, Leased
    <3>2. i < n \/ i = n  BY <1>4, <3>1
    <3>3. Leased(n)  BY <2>4 DEF Stands, Leased
    <3>4. log[n].attempt = tok.attempt /\ log[n].msg = tok.msg  BY <2>2, <2>4
    <3>5. CASE i = n  BY <3>4, <3>5, <1>7, <3>3
    <3>6. CASE i < n  BY <3>3, <3>4, <3>6 DEF IInv, AttemptInv
    <3> QED  BY <3>2, <3>5, <3>6
  <2>6. tok.attempt \in Nat /\ tok.attempt < nextAttempt
    BY <2>2, <2>3, <2>4, <1>7 DEF Stands, Leased, AttemptLeased
  <2>7. r.kind = "leased" => r.attempt = tok.attempt
    BY <2>1 DEF ProcessedMessage, AttemptLeased, AttemptReleased
  <2>8. \A i \in DOMAIN k : k[i].kind = "leased" => k[i].attempt < nextAttempt
    BY <1>4, <1>7, <2>6, <2>7 DEF Leased
  <2>9. \A i, j \in DOMAIN k :
                i < j /\ k[i].kind = "leased" /\ k[j].kind = "leased" /\ k[i].msg = k[j].msg
                  => k[i].attempt <= k[j].attempt
    BY <1>4, <1>7, <2>1, <2>5, <2>7 DEF Leased, IInv, AttemptInv
  <2>10. \A i, j \in DOMAIN k :
                i < j /\ k[i].kind = "processed" /\ k[j].kind # "checkpoint"
                  => k[j].msg # k[i].msg
    BY <1>4, <1>9, <2>1, <2>2, <2>3 DEF IInv, ProcessedIsFinal
  <2>11. \A t \in held : Live(t) => t \in Standing(k)
    <3> SUFFICES ASSUME NEW t \in held, Live(t) PROVE t \in Standing(k)
      OBVIOUS
    <3>1. t \in Standing(log) /\ t.attempt \notin finished
      BY DEF IInv, LiveInv, Live
    <3>2. t.msg # tok.msg
      BY <1>1, <2>1, <2>2, <3>1, StandingUnique
    <3> QED  BY <3>1, <3>2, <2>1, <1>6 DEF Ends
  <2>12. call[h].kind = "mark" => tok.msg \in ProcessedIn(k)
    BY <2>1, <1>5 DEF ProcessedMessage, AttemptLeased
  <2> QED  BY <1>3, <1>4, <1>8, <2>1, <2>8, <2>9, <2>10, <2>11, <2>12 DEF r, k
<1>12. CASE SaveDecided(h)
  <2>1. r.kind = "checkpoint" /\ call[h].kind = "save"
    <3>1. recs[h] \in Seq(RoomCheckpoint) /\ recs[h] # <<>> /\ call[h].kind = "save"
      BY <1>12 DEF SaveDecided
    <3>2. r \in RoomCheckpoint  BY <1>3, <3>1
    <3> QED  BY <3>1, <3>2 DEF RoomCheckpoint
  <2>2. \A i \in DOMAIN k : k[i].kind = "leased" => k[i].attempt < nextAttempt
    BY <1>4, <1>7, <2>1 DEF Leased
  <2>3. \A i, j \in DOMAIN k :
                i < j /\ k[i].kind = "leased" /\ k[j].kind = "leased" /\ k[i].msg = k[j].msg
                  => k[i].attempt <= k[j].attempt
    BY <1>4, <1>7, <2>1 DEF Leased, IInv, AttemptInv
  <2>4. \A i, j \in DOMAIN k :
                i < j /\ k[i].kind = "processed" /\ k[j].kind # "checkpoint"
                  => k[j].msg # k[i].msg
    BY <1>4, <1>9, <2>1 DEF IInv, ProcessedIsFinal
  <2>5. \A t \in held : Live(t) => t \in Standing(k)
    BY <1>6, <2>1 DEF IInv, LiveInv, Ends
  <2> QED  BY <1>3, <1>4, <1>8, <2>1, <2>2, <2>3, <2>4, <2>5 DEF r, k
<1> QED  BY <1>2, <1>10, <1>11, <1>12

\* Init is the state before any handle has loaded the file: it satisfies IInv.
LEMMA InitIInv == Init => IInv
<1> SUFFICES ASSUME Init PROVE IInv
  OBVIOUS
<1> USE DEF Init
<1>1. ShapeOK
  <2>1. EmptySnapshot \in Snapshots  BY DEF EmptySnapshot, Snapshots
  <2>2. LoadCall \in Calls  BY DEF LoadCall, Calls
  <2> QED  BY <2>1, <2>2 DEF ShapeOK
<1>2. LockInv /\ TailInv /\ ClockInv /\ WriteInv /\ LiveInv
  BY DEF LockInv, TailInv, ClockInv, WriteInv, LiveInv
<1>3. CallInv  BY DEF CallInv, LoadCall
<1>4. AttemptInv /\ ProcessedIsFinal  BY DEF AttemptInv, ProcessedIsFinal
<1>5. SnapshotNeverAhead /\ AckedIsDurable
  BY DEF SnapshotNeverAhead, AckedIsDurable, EmptySnapshot
<1> QED  BY <1>1, <1>2, <1>3, <1>4, <1>5 DEF IInv

\* The caller's side only queues a call.
LEMMA InvokeStep ==
    ASSUME IInv, NEW h \in Handle, NEW c \in Calls, Invoke(h, c)
    PROVE  IInv'
<1> USE DEF Invoke
<1>1. ShapeOK'
  <2>1. finished' \in SUBSET Nat
    BY CallFacts DEF IInv, ShapeOK, AttemptLeased
  <2> QED  BY <2>1 DEF IInv, ShapeOK
<1>2. LockInv' /\ TailInv'
  BY DEF IInv, ShapeOK, LockInv, TailInv
<1>3. ClockInv'  BY DEF IInv, ShapeOK, ClockInv
<1>4. CallInv'  BY DEF IInv, ShapeOK, CallInv
<1>5. AttemptInv' /\ ProcessedIsFinal' /\ SnapshotNeverAhead' /\ (~PowerLoss => AckedIsDurable)'
  BY DEF IInv, AttemptInv, Leased, ProcessedIsFinal, SnapshotNeverAhead, AckedIsDurable
<1>6. LiveInv'  BY DEF IInv, LiveInv, Live
<1>7. WriteInv'
  BY DEF IInv, ShapeOK, WriteInv, BeginDecided, OwnerDecided, SaveDecided, Leased
<1> QED  BY <1>1, <1>2, <1>3, <1>4, <1>5, <1>6, <1>7 DEF IInv

\* Time only ends leases: a token that is live after a tick was live before it.
LEMMA TickStep == ASSUME IInv, Tick PROVE IInv'
<1> USE DEF Tick, file, client
<1>1. ShapeOK'  BY DEF IInv, ShapeOK
<1>2. LockInv' /\ TailInv' /\ CallInv'
  BY DEF IInv, LockInv, TailInv, CallInv
<1>3. ClockInv'  BY DEF IInv, ShapeOK, ClockInv
<1>4. AttemptInv' /\ ProcessedIsFinal' /\ SnapshotNeverAhead' /\ (~PowerLoss => AckedIsDurable)'
  BY DEF IInv, AttemptInv, Leased, ProcessedIsFinal, SnapshotNeverAhead, AckedIsDurable
<1>5. LiveInv'
  BY DEF IInv, ShapeOK, LiveInv, Live, AttemptLeased
<1>6. WriteInv'
  BY DEF IInv, WriteInv, BeginDecided, OwnerDecided, SaveDecided, Leased
<1> QED  BY <1>1, <1>2, <1>3, <1>4, <1>5, <1>6 DEF IInv

\* The process stops: no handle, call or token survives, and the file is
\* what it was, or what the running append made of it.
LEMMA CrashStep == ASSUME IInv, Crash PROVE IInv'
<1> DEFINE Shrunk == \E n \in 0 .. Len(log) : log' = SubSeq(log, 1, n)
           Grown == \E h \in Handle : pc[h] = "writing" /\ log' = Append(log, Head(recs[h]))
<1>1. synced \in Nat /\ Len(log) \in Nat /\ log \in Seq(StateEvent) /\ nextAttempt \in Nat
  BY DEF IInv, ShapeOK
<1>2. log' = log \/ Grown \/ (PowerLoss /\ Shrunk)
  <2>1. CASE InterruptedAppend  BY <2>1 DEF InterruptedAppend, Grow
  <2>2. CASE LostWrites
    <3>1. CASE \E n \in synced .. Len(log) : log' = SubSeq(log, 1, n)
      BY <1>1, <2>2, <3>1 DEF LostWrites
    <3>2. CASE log' = <<>>
      <4>1. SubSeq(log, 1, 0) = <<>>  BY <1>1
      <4> QED  BY <1>1, <2>2, <3>2, <4>1 DEF LostWrites
    <3> QED  BY <2>2, <3>1, <3>2 DEF LostWrites
  <2> QED  BY <2>1, <2>2 DEF Crash
<1>3. /\ log' \in Seq(StateEvent)
      /\ AttemptInv' /\ ProcessedIsFinal' /\ (~PowerLoss => AckedIsDurable)'
  <2>1. CASE log' = log
    BY <2>1 DEF Crash, IInv, ShapeOK, AttemptInv, Leased, ProcessedIsFinal, AckedIsDurable
  <2>2. CASE Grown
    <3>1. PICK h \in Handle : pc[h] = "writing" /\ log' = Append(log, Head(recs[h]))
      BY <2>2
    <3>2. AckedIsDurable => AckedIsDurable'
      BY <3>1, GrowthSafe DEF Crash, AckedIsDurable
    <3>3. log' \in Seq(StateEvent) /\ AttemptInv' /\ ProcessedIsFinal'
      BY <3>1, GrowthSafe DEF Crash, AttemptInv, Leased, ProcessedIsFinal
    <3> QED  BY <3>2, <3>3 DEF IInv
  <2>3. CASE PowerLoss /\ Shrunk
    <3>1. PICK n \in 0 .. Len(log) : log' = SubSeq(log, 1, n)  BY <2>3
    <3>2. /\ log' \in Seq(StateEvent) /\ DOMAIN log' \subseteq DOMAIN log
          /\ \A i \in DOMAIN log' : log'[i] = log[i]
      BY <1>1, <3>1
    <3>3. AttemptInv' /\ ProcessedIsFinal'
      BY <3>2 DEF Crash, IInv, AttemptInv, Leased, ProcessedIsFinal
    <3> QED  BY <2>3, <3>2, <3>3
  <2> QED  BY <1>2, <2>1, <2>2, <2>3
<1>4. /\ tail' \in {"clean", "open", "torn"} /\ dir' \in {"absent", "unsynced", "synced"}
  <2>1. CASE InterruptedAppend
    <3>1. \A h \in Handle : pc[h] = "writing" => tail # "torn"
      BY HandleAssumption DEF IInv, LockInv, TailInv
    <3> QED  BY <2>1, <3>1 DEF InterruptedAppend, Grow, AppendTo, Touched, IInv, ShapeOK, TailInv
  <2>2. CASE LostWrites  BY <2>2 DEF LostWrites, IInv, ShapeOK
  <2> QED  BY <2>1, <2>2 DEF Crash
<1>5. ShapeOK'
  <2>1. EmptySnapshot \in Snapshots  BY DEF EmptySnapshot, Snapshots
  <2>2. LoadCall \in Calls  BY DEF LoadCall, Calls
  <2>3. synced' \in Nat  BY <1>1, <1>3 DEF Crash
  <2> QED  BY <1>3, <1>4, <2>1, <2>2, <2>3 DEF Crash, IInv, ShapeOK
<1>6. LockInv' /\ TailInv' /\ WriteInv' /\ LiveInv'
  BY <1>4 DEF Crash, LockInv, TailInv, WriteInv, LiveInv
<1>7. ClockInv' /\ CallInv' /\ SnapshotNeverAhead'
  BY DEF Crash, IInv, ShapeOK, ClockInv, CallInv, LoadCall, SnapshotNeverAhead, EmptySnapshot
<1> QED  BY <1>3, <1>5, <1>6, <1>7 DEF IInv

\* A call that only reads: it returns with a fresh snapshot.
LEMMA ReturnStep ==
    ASSUME IInv, NEW h \in Handle, Refresh(h), Return(h),
           held' = held, finished' = finished,
           acked' \subseteq Msg, acked' \subseteq acked \cup ProcessedIn(log)
    PROVE  IInv'
<1> USE DEF Refresh, Repair, Return, Done
<1>1. log \in Seq(StateEvent) /\ at[h] \in Nat /\ log' = log /\ Len(log) \in Nat
  BY DEF IInv, ShapeOK
<1>2. Snapshot(log, at[h]) \in Snapshots /\ LoadCall \in Calls
  BY <1>1, SnapshotType DEF LoadCall, Calls
<1>3. ShapeOK'  BY <1>1, <1>2 DEF IInv, ShapeOK
<1>4. LockInv' /\ TailInv' /\ WriteInv'
  BY HandleAssumption DEF IInv, ShapeOK, LockInv, TailInv, WriteInv
<1>5. ClockInv' /\ CallInv'
  BY DEF IInv, ShapeOK, ClockInv, CallInv, LoadCall
<1>6. AttemptInv' /\ ProcessedIsFinal' /\ (~PowerLoss => AckedIsDurable)'
  BY <1>1 DEF IInv, AttemptInv, Leased, ProcessedIsFinal, AckedIsDurable
<1>7. SnapshotNeverAhead'
  BY <1>1 DEF IInv, ShapeOK, SnapshotNeverAhead, Snapshot
<1>8. LiveInv'  BY <1>1 DEF IInv, LiveInv, Live
<1> QED  BY <1>3, <1>4, <1>5, <1>6, <1>7, <1>8 DEF IInv

\* A call that could not read the file.
LEMMA RefreshFailsStep ==
    ASSUME IInv, NEW h \in Handle, RefreshFails(h)
    PROVE  IInv'
<1> USE DEF RefreshFails, Done, file, client
<1>1. ShapeOK'
  <2>1. LoadCall \in Calls  BY DEF LoadCall, Calls
  <2> QED  BY <2>1 DEF IInv, ShapeOK
<1>2. LockInv' /\ TailInv' /\ WriteInv'
  BY HandleAssumption DEF IInv, ShapeOK, LockInv, TailInv, WriteInv
<1>3. ClockInv' /\ CallInv'
  BY DEF IInv, ShapeOK, ClockInv, CallInv, LoadCall
<1>4. AttemptInv' /\ ProcessedIsFinal' /\ SnapshotNeverAhead' /\ (~PowerLoss => AckedIsDurable)'
  BY DEF IInv, AttemptInv, Leased, ProcessedIsFinal, SnapshotNeverAhead, AckedIsDurable
<1>5. LiveInv'  BY DEF IInv, LiveInv, Live
<1> QED  BY <1>1, <1>2, <1>3, <1>4, <1>5 DEF IInv

\* A call that has decided to write keeps the lock, and its decision was
\* made on the file as it now is.
LEMMA DecideStep ==
    ASSUME IInv, NEW h \in Handle, Refresh(h), NEW rs \in Seq(StateEvent), Append1(h, rs),
           UNCHANGED client, nextAttempt' \in Nat, nextAttempt <= nextAttempt',
           (BeginDecided(h) \/ OwnerDecided(h) \/ SaveDecided(h))'
    PROVE  IInv'
<1> USE DEF Refresh, Repair, Append1, client
<1>1. log \in Seq(StateEvent) /\ at[h] \in Nat /\ log' = log /\ Len(log) \in Nat
  BY DEF IInv, ShapeOK
<1>2. Snapshot(log, at[h]) \in Snapshots  BY <1>1, SnapshotType
<1>3. ShapeOK'  BY <1>1, <1>2 DEF IInv, ShapeOK
<1>4. \A g \in Handle : pc[g] # "writing"
  BY HandleAssumption DEF IInv, LockInv
<1>5. LockInv' /\ TailInv'
  BY <1>4 DEF IInv, ShapeOK, LockInv, TailInv
<1>6. WriteInv'
  BY <1>4 DEF IInv, ShapeOK, WriteInv
<1>7. ClockInv' /\ CallInv'
  BY DEF IInv, ShapeOK, ClockInv, CallInv
<1>8. AttemptInv'
  <2>1. \A i \in DOMAIN log : Leased(i) => log[i].attempt \in Nat
    BY <1>1 DEF Leased, StateEvent, ProcessedMessage, AttemptLeased, AttemptReleased,
                RoomCheckpoint
  <2> QED  BY <1>1, <2>1 DEF IInv, ShapeOK, AttemptInv, Leased
<1>9. ProcessedIsFinal' /\ (~PowerLoss => AckedIsDurable)'
  BY <1>1 DEF IInv, ProcessedIsFinal, AckedIsDurable
<1>10. SnapshotNeverAhead'
  BY <1>1 DEF IInv, ShapeOK, SnapshotNeverAhead, Snapshot
<1>11. LiveInv'  BY <1>1 DEF IInv, LiveInv, Live
<1> QED  BY <1>3, <1>5, <1>6, <1>7, <1>8, <1>9, <1>10, <1>11 DEF IInv

\* The decisions of the operations satisfy the premise of DecideStep.
LEMMA DecidingStep ==
    ASSUME IInv, NEW h \in Handle, Deciding(h)
    PROVE  IInv'
<1>1. /\ log \in Seq(StateEvent) /\ at[h] \in Nat /\ call[h] \in Calls
      /\ nextAttempt \in Nat /\ recs \in [Handle -> Seq(StateEvent)]
      /\ snap \in [Handle -> Snapshots] /\ acked \subseteq Msg
  BY DEF IInv, ShapeOK
<1>2. CASE RefreshFails(h)  BY <1>2, RefreshFailsStep
<1>3. CASE Load(h)  BY <1>1, <1>3, ReturnStep DEF Load, client
<1>4. CASE BeginRefused(h)
  <2>1. snap'[h].processed = ProcessedIn(log)
    BY <1>1, <1>4 DEF BeginRefused, Refresh, Snapshot
  <2>2. ProcessedIn(log) \subseteq Msg  BY DEF ProcessedIn
  <2> QED  BY <1>1, <1>4, <2>1, <2>2, ReturnStep DEF BeginRefused
<1>5. CASE NotOwner(h)  BY <1>1, <1>5, ReturnStep DEF NotOwner, client
<1>6. CASE MarkAgain(h)
  <2>1. snap'[h] = Snapshot(log, at[h])  BY <1>1, <1>6 DEF MarkAgain, Refresh
  <2>2. call[h].tok.msg \in ProcessedIn(log)
    BY <1>6, <2>1 DEF MarkAgain, Snapshot
  <2>3. ProcessedIn(log) \subseteq Msg  BY DEF ProcessedIn
  <2> QED  BY <1>1, <1>6, <2>2, <2>3, ReturnStep DEF MarkAgain
<1> DEFINE s == Snapshot(log, at[h])
<1>7. ASSUME Refresh(h)
      PROVE  /\ snap'[h] = s /\ log' = log /\ s.processed = ProcessedIn(log)
             /\ s.leases = {x \in Standing(log) : x.exp > at[h]}
  BY <1>1, <1>7 DEF Refresh, Repair, Snapshot, LeasesIn
<1> HIDE DEF s
<1>8. CASE BeginAttempt(h)
  <2> DEFINE r == [kind |-> "leased", msg |-> call[h].msg, attempt |-> nextAttempt,
                   exp |-> LeaseExpiresAt(at[h], call[h].lease)]
  <2>1. /\ call[h].kind = "begin" /\ call[h].msg \in Msg /\ call[h].lease \in Nat
        /\ Refresh(h) /\ Append1(h, <<r>>) /\ UNCHANGED client
        /\ nextAttempt' = nextAttempt + 1
    BY <1>1, <1>8, CallFacts DEF BeginAttempt
  <2>2. r \in AttemptLeased
    BY <1>1, <2>1 DEF AttemptLeased, LeaseExpiresAt
  <2>3. <<r>> \in Seq(StateEvent)  BY <2>2 DEF StateEvent
  <2>4. /\ call[h].msg \notin ProcessedIn(log)
        /\ \A x \in Standing(log) : x.msg = call[h].msg => ~(x.exp > at[h])
    BY <1>7, <1>8, <2>1 DEF BeginAttempt, LeasesOf
  <2>5. \A x \in Standing(log) : x.msg = call[h].msg => x.exp <= at[h]
    <3>1. \A x \in Standing(log) : x.exp \in Nat
      BY <1>1, StandingFacts DEF AttemptLeased
    <3> QED  BY <1>1, <2>4, <3>1
  <2>6. /\ recs'[h] = <<r>> /\ call'[h] = call[h] /\ at'[h] = at[h] /\ log' = log
    BY <1>1, <1>7, <2>1 DEF Append1
  <2>7. r.msg = call[h].msg /\ r.attempt = nextAttempt
    OBVIOUS
  <2> HIDE DEF r
  <2>8. Len(<<r>>) = 1 /\ <<r>>[1] = r  OBVIOUS
  <2>9. BeginDecided(h)'
    BY <1>1, <2>1, <2>2, <2>4, <2>5, <2>6, <2>7, <2>8
       DEF BeginDecided, IInv, AttemptInv, Leased
  <2>10. nextAttempt' \in Nat /\ nextAttempt <= nextAttempt'
    BY <1>1, <2>1
  <2> QED  BY <2>1, <2>3, <2>9, <2>10, DecideStep
<1>9. ASSUME call[h].kind \in {"release", "defer", "mark"}, Refresh(h),
             Owner(snap'[h], call[h].tok), UNCHANGED <<nextAttempt, client>>,
             NEW r \in StateEvent, Append1(h, <<r>>), r.msg = call[h].tok.msg,
             \/ r \in ProcessedMessage /\ call[h].kind = "mark"
             \/ /\ r \in AttemptLeased \cup AttemptReleased /\ call[h].kind # "mark"
                /\ r.attempt = call[h].tok.attempt
      PROVE  IInv'
  <2>1. \E x \in Standing(log) : x.msg = call[h].tok.msg /\ x.attempt = call[h].tok.attempt
    BY <1>7, <1>9 DEF Owner
  <2>2. recs'[h] = <<r>> /\ call' = call /\ log' = log
    BY <1>1, <1>7, <1>9 DEF Append1
  <2>3. Len(<<r>>) = 1 /\ <<r>>[1] = r /\ <<r>> \in Seq(StateEvent)
    OBVIOUS
  <2>4. OwnerDecided(h)'
    BY <1>9, <2>1, <2>2, <2>3 DEF OwnerDecided
  <2>5. nextAttempt' = nextAttempt /\ nextAttempt' \in Nat /\ nextAttempt <= nextAttempt'
        /\ UNCHANGED client
    BY <1>1, <1>9
  <2> QED  BY <1>9, <2>3, <2>4, <2>5, DecideStep
<1>10. CASE ReleaseAttempt(h)
  <2> DEFINE r == [kind |-> "released", msg |-> call[h].tok.msg,
                   attempt |-> call[h].tok.attempt]
  <2>1. call[h].tok \in AttemptLeased
    BY <1>1, <1>10, CallFacts DEF ReleaseAttempt
  <2>2. r \in AttemptReleased  BY <2>1 DEF AttemptReleased, AttemptLeased
  <2>3. r.attempt = call[h].tok.attempt /\ r.msg = call[h].tok.msg  OBVIOUS
  <2>4. /\ call[h].kind = "release" /\ Refresh(h) /\ Owner(snap'[h], call[h].tok)
        /\ UNCHANGED <<nextAttempt, client>> /\ Append1(h, <<r>>)
    BY <1>10 DEF ReleaseAttempt
  <2> HIDE DEF r
  <2> QED  BY <1>9, <2>2, <2>3, <2>4 DEF StateEvent
<1>11. CASE DeferAttempt(h)
  <2> DEFINE r == [kind |-> "leased", msg |-> call[h].tok.msg,
                   attempt |-> call[h].tok.attempt,
                   exp |-> LeaseExpiresAt(at[h], call[h].lease)]
  <2>1. call[h].tok \in AttemptLeased /\ call[h].lease \in Nat
    BY <1>1, <1>11, CallFacts DEF DeferAttempt
  <2>2. r \in AttemptLeased  BY <1>1, <2>1 DEF AttemptLeased, LeaseExpiresAt
  <2>3. r.attempt = call[h].tok.attempt /\ r.msg = call[h].tok.msg  OBVIOUS
  <2>4. /\ call[h].kind = "defer" /\ Refresh(h) /\ Owner(snap'[h], call[h].tok)
        /\ UNCHANGED <<nextAttempt, client>> /\ Append1(h, <<r>>)
    BY <1>11 DEF DeferAttempt
  <2> HIDE DEF r
  <2> QED  BY <1>9, <2>2, <2>3, <2>4 DEF StateEvent
<1>12. CASE MarkProcessed(h)
  <2> DEFINE r == [kind |-> "processed", msg |-> call[h].tok.msg]
  <2>1. call[h].tok \in AttemptLeased
    BY <1>1, <1>12, CallFacts DEF MarkProcessed
  <2>2. r \in ProcessedMessage  BY <2>1 DEF AttemptLeased, ProcessedMessage
  <2>3. r.msg = call[h].tok.msg  OBVIOUS
  <2>4. /\ call[h].kind = "mark" /\ Refresh(h) /\ Owner(snap'[h], call[h].tok)
        /\ UNCHANGED <<nextAttempt, client>> /\ Append1(h, <<r>>)
    BY <1>12 DEF MarkProcessed
  <2> HIDE DEF r
  <2> QED  BY <1>9, <2>2, <2>3, <2>4 DEF StateEvent
<1>13. CASE SaveRoomCheckpoints(h)
  <2>1. call[h].kind = "save" /\ call[h].points \in Seq(RoomCheckpoint) \ {<<>>}
    BY <1>1, <1>13, CallFacts DEF SaveRoomCheckpoints
  <2>2. call[h].points \in Seq(StateEvent)  BY <2>1 DEF StateEvent
  <2>3. SaveDecided(h)'
    BY <1>1, <1>13, <2>1 DEF SaveRoomCheckpoints, Append1, SaveDecided
  <2> QED  BY <1>1, <1>13, <2>2, <2>3, DecideStep DEF SaveRoomCheckpoints
<1> QED  BY <1>2, <1>3, <1>4, <1>5, <1>6, <1>8, <1>10, <1>11, <1>12, <1>13 DEF Deciding

\* An append that fails drops the lock; the file is as before or has grown.
LEMMA FailingStep ==
    ASSUME IInv, NEW h \in Handle, Failing(h)
    PROVE  IInv'
<1> USE DEF Failing
<1>1. Fail(h)
  BY DEF AppendNothing, AppendTorn, AppendOpen, AppendUnsynced, AppendDirUnsynced
<1>2. pc[h] = "writing" /\ tail \in {"clean", "open"}
  BY <1>1, HandleAssumption DEF Fail, IInv, ShapeOK, LockInv, TailInv
<1>3. log' = log \/ log' = Append(log, Head(recs[h]))
  BY DEF AppendNothing, AppendTorn, AppendOpen, AppendUnsynced, AppendDirUnsynced, Grow, file
<1>4. tail' \in {"clean", "open", "torn"}
  BY <1>2 DEF AppendNothing, AppendTorn, AppendOpen, AppendUnsynced, AppendDirUnsynced,
              Grow, AppendTo, file
<1>5. dir' \in {"absent", "unsynced", "synced"} /\ synced' \in Nat
  BY DEF AppendNothing, AppendTorn, AppendOpen, AppendUnsynced, AppendDirUnsynced,
         Touched, file, IInv, ShapeOK
<1> USE DEF Fail, Done, client
<1>6. log' \in Seq(StateEvent)
  BY <1>2, <1>3, GrowthSafe DEF IInv, ShapeOK
<1>7. ShapeOK'
  <2>1. LoadCall \in Calls  BY DEF LoadCall, Calls
  <2> QED  BY <1>1, <1>4, <1>5, <1>6, <2>1 DEF IInv, ShapeOK
<1>8. LockInv' /\ TailInv' /\ WriteInv'
  BY <1>1, <1>2, <1>4, HandleAssumption DEF IInv, ShapeOK, LockInv, TailInv, WriteInv
<1>9. ClockInv' /\ CallInv'
  BY <1>1 DEF IInv, ShapeOK, ClockInv, CallInv, LoadCall
<1>10. AttemptInv' /\ ProcessedIsFinal'
  BY <1>1, <1>2, <1>3, GrowthSafe DEF IInv, AttemptInv, Leased, ProcessedIsFinal
<1>11. ProcessedIn(log) \subseteq ProcessedIn(log')
  BY <1>2, <1>3, GrowthSafe
<1>12. SnapshotNeverAhead' /\ (~PowerLoss => AckedIsDurable)'
  BY <1>1, <1>11 DEF IInv, SnapshotNeverAhead, AckedIsDurable
<1>13. LiveInv'
  BY <1>1, <1>2, <1>3, GrowthSafe DEF IInv, LiveInv, Live
<1> QED  BY <1>7, <1>8, <1>9, <1>10, <1>12, <1>13 DEF IInv

\* An append that succeeds leaves the handle with what a reload would give.
LEMMA AppendedSnapshot ==
    ASSUME IInv, NEW h \in Handle, Appended(h)
    PROVE  snap'[h] = Snapshot(log', at[h]) /\ snap'[h] \in Snapshots
<1>1. /\ log \in Seq(StateEvent) /\ at[h] \in Nat /\ snap \in [Handle -> Snapshots]
      /\ pc[h] = "writing" /\ Head(recs[h]) \in StateEvent
      /\ log' = Append(log, Head(recs[h]))
  BY GrowthSafe DEF IInv, ShapeOK, Appended, Grow
<1>2. snap[h] = Snapshot(log, at[h])  BY <1>1 DEF IInv, WriteInv
<1>3. snap'[h] = ApplyRecord(Snapshot(log, at[h]), Head(recs[h]), at[h])
  BY <1>1, <1>2 DEF Appended
<1>4. snap'[h] = Snapshot(log', at[h])  BY <1>1, <1>3, ReplayStep
<1>5. log' \in Seq(StateEvent)  BY <1>1, AppendFacts
<1> QED  BY <1>1, <1>4, <1>5, SnapshotType

\* A batch that goes on to its next checkpoint keeps the invariant.
LEMMA AppendMoreStep ==
    ASSUME IInv, NEW h \in Handle, AppendMore(h)
    PROVE  IInv'
<1> USE DEF AppendMore, Appended, Grow
<1>1. /\ pc[h] = "writing" /\ tail \in {"clean", "open"} /\ lock = h
      /\ log' = Append(log, Head(recs[h])) /\ tail' = "clean"
  BY HandleAssumption DEF IInv, ShapeOK, LockInv, TailInv, AppendTo
<1>2. log' \in Seq(StateEvent) /\ Len(log) \in Nat
  BY <1>1, GrowthSafe DEF IInv, ShapeOK
<1>3. /\ recs \in [Handle -> Seq(StateEvent)] /\ Tail(recs[h]) \in Seq(StateEvent)
      /\ snap \in [Handle -> Snapshots] /\ at \in [Handle -> Nat]
      /\ Len(recs[h]) > 1 /\ recs[h] \in Seq(StateEvent)
  BY DEF IInv, ShapeOK
<1>4. snap'[h] = Snapshot(log', at[h]) /\ snap'[h] \in Snapshots
  BY AppendedSnapshot
<1>5. ShapeOK'
  BY <1>1, <1>2, <1>3, <1>4 DEF IInv, ShapeOK
<1>6. LockInv' /\ TailInv'
  BY <1>1 DEF IInv, LockInv, TailInv
<1>7. ClockInv' /\ CallInv'
  BY DEF IInv, ShapeOK, ClockInv, CallInv
<1>8. AttemptInv' /\ ProcessedIsFinal' /\ LiveInv'
  BY <1>1, GrowthSafe DEF IInv, AttemptInv, Leased, ProcessedIsFinal, LiveInv, Live
<1>9. ProcessedIn(log) \subseteq ProcessedIn(log')
  BY <1>1, GrowthSafe
<1>10. SnapshotNeverAhead' /\ (~PowerLoss => AckedIsDurable)'
  <2>1. \A g \in Handle : g # h => snap'[g] = snap[g]  BY <1>3
  <2> QED  BY <1>4, <1>9, <2>1 DEF IInv, SnapshotNeverAhead, AckedIsDurable, Snapshot
<1>11. WriteInv'
  <2>1. SaveDecided(h)  BY <1>1, <1>3 DEF IInv, WriteInv, BeginDecided, OwnerDecided
  <2>2. recs[h] \in Seq(RoomCheckpoint) /\ call[h].kind = "save"  BY <2>1 DEF SaveDecided
  <2>3. Tail(recs[h]) \in Seq(RoomCheckpoint) /\ Tail(recs[h]) # <<>>
    <3> DEFINE q == recs[h]
    <3>1. q \in Seq(RoomCheckpoint) /\ Len(q) > 1  BY <1>3, <2>2
    <3> HIDE DEF q
    <3>2. Tail(q) \in Seq(RoomCheckpoint) /\ Len(Tail(q)) = Len(q) - 1 /\ Len(q) \in Nat
      BY <3>1
    <3>3. Tail(q) # <<>>  BY <3>1, <3>2
    <3> QED  BY <3>2, <3>3 DEF q
  <2>4. SaveDecided(h)'  BY <1>3, <2>2, <2>3 DEF SaveDecided
  <2>5. \A g \in Handle : pc'[g] = "writing" => g = h
    BY <1>1 DEF IInv, LockInv
  <2> QED  BY <1>4, <2>4, <2>5 DEF WriteInv
<1> QED  BY <1>5, <1>6, <1>7, <1>8, <1>10, <1>11 DEF IInv

\* An append that ends its call makes the new token, or the processed mark, stand.
LEMMA AppendLastStep ==
    ASSUME IInv, NEW h \in Handle, AppendLast(h)
    PROVE  IInv'
<1> USE DEF AppendLast, Appended, Grow, Done
<1>1. /\ pc[h] = "writing" /\ tail \in {"clean", "open"} /\ lock = h
      /\ log' = Append(log, Head(recs[h])) /\ tail' = "clean"
  BY HandleAssumption DEF IInv, ShapeOK, LockInv, TailInv, AppendTo
<1>2. log' \in Seq(StateEvent) /\ Len(log) \in Nat
  BY <1>1, GrowthSafe DEF IInv, ShapeOK
<1>3. /\ snap \in [Handle -> Snapshots] /\ at \in [Handle -> Nat] /\ call[h] \in Calls
      /\ held \subseteq AttemptLeased /\ acked \subseteq Msg
  BY DEF IInv, ShapeOK
<1>4. snap'[h] = Snapshot(log', at[h]) /\ snap'[h] \in Snapshots
  BY AppendedSnapshot
<1>5. call[h].kind = "begin" => Head(recs[h]) \in AttemptLeased /\ Head(recs[h]) \in Standing(log')
  BY <1>1, <1>2, GrowthSafe, StandingFacts
<1>6. call[h].kind = "mark" => call[h].tok.msg \in ProcessedIn(log') /\ call[h].tok.msg \in Msg
  <2>1. ProcessedIn(log') \subseteq Msg  BY DEF ProcessedIn
  <2> QED  BY <1>1, <2>1, GrowthSafe
<1>7. ShapeOK'
  <2>1. LoadCall \in Calls  BY DEF LoadCall, Calls
  <2>2. held' \in SUBSET AttemptLeased /\ acked' \in SUBSET Msg
    BY <1>3, <1>5, <1>6
  <2> QED  BY <1>1, <1>2, <1>3, <1>4, <2>1, <2>2 DEF IInv, ShapeOK
<1>8. LockInv' /\ TailInv' /\ WriteInv'
  BY <1>1, HandleAssumption DEF IInv, ShapeOK, LockInv, TailInv, WriteInv
<1>9. ClockInv' /\ CallInv'
  BY DEF IInv, ShapeOK, ClockInv, CallInv, LoadCall
<1>10. AttemptInv' /\ ProcessedIsFinal'
  BY <1>1, GrowthSafe DEF IInv, AttemptInv, Leased, ProcessedIsFinal
<1>11. \A t \in held : Live(t) => t \in Standing(log')
  BY <1>1, GrowthSafe
<1>12. LiveInv'  BY <1>5, <1>11 DEF LiveInv, Live
<1>13. ProcessedIn(log) \subseteq ProcessedIn(log')
  BY <1>1, GrowthSafe
<1>14. SnapshotNeverAhead'
  <2>1. \A g \in Handle : g # h => snap'[g] = snap[g]  BY <1>3
  <2> QED  BY <1>4, <1>13, <2>1 DEF IInv, SnapshotNeverAhead, Snapshot
<1>15. (~PowerLoss => AckedIsDurable)'
  BY <1>6, <1>13 DEF IInv, AckedIsDurable
<1> QED  BY <1>7, <1>8, <1>9, <1>10, <1>12, <1>14, <1>15 DEF IInv

\* Every step of the store keeps the inductive invariant.
LEMMA NextStep == ASSUME IInv, [Next]_vars PROVE IInv'
<1>1. CASE UNCHANGED vars
  <2> USE <1>1 DEF vars
  <2>1. ShapeOK' /\ LockInv' /\ TailInv' /\ ClockInv' /\ CallInv'
    BY DEF IInv, ShapeOK, LockInv, TailInv, ClockInv, CallInv
  <2>2. AttemptInv' /\ LiveInv' /\ ProcessedIsFinal'
    BY DEF IInv, AttemptInv, Leased, LiveInv, Live, ProcessedIsFinal
  <2>3. SnapshotNeverAhead' /\ (~PowerLoss => AckedIsDurable)'
    BY DEF IInv, SnapshotNeverAhead, AckedIsDurable
  <2>4. WriteInv'
    BY DEF IInv, WriteInv, BeginDecided, OwnerDecided, SaveDecided, Leased
  <2> QED  BY <2>1, <2>2, <2>3, <2>4 DEF IInv
<1>2. ASSUME NEW h \in Handle, Calling(h)  PROVE IInv'
  <2>1. held \subseteq AttemptLeased  BY DEF IInv, ShapeOK
  <2>2. \E c \in Calls : Invoke(h, c)
    <3>1. CASE CallLoad(h)  BY <3>1 DEF CallLoad, LoadCall, Calls
    <3>2. CASE CallBegin(h)  BY <3>2 DEF CallBegin, Calls
    <3>3. CASE CallRelease(h)  BY <3>3, <2>1 DEF CallRelease, Calls
    <3>4. CASE CallDefer(h)  BY <3>4, <2>1 DEF CallDefer, Calls
    <3>5. CASE CallMark(h)  BY <3>5, <2>1 DEF CallMark, Calls
    <3>6. CASE CallSave(h)
      <4>1. PICK p \in RoomCheckpoint, q \in RoomCheckpoint :
              \E ps \in {<<p>>, <<p, q>>} : Invoke(h, [kind |-> "save", points |-> ps])
        BY <3>6 DEF CallSave
      <4>2. {<<p>>, <<p, q>>} \subseteq Seq(RoomCheckpoint) \ {<<>>}  OBVIOUS
      <4> QED  BY <4>1, <4>2 DEF Calls
    <3> QED  BY <1>2, <3>1, <3>2, <3>3, <3>4, <3>5, <3>6 DEF Calling
  <2> QED  BY <2>2, InvokeStep
<1>3. ASSUME NEW h \in Handle, Deciding(h)  PROVE IInv'
  BY <1>3, DecidingStep
<1>4. ASSUME NEW h \in Handle, Writing(h)  PROVE IInv'
  BY <1>4, FailingStep, AppendMoreStep, AppendLastStep DEF Writing
<1> QED  BY <1>1, <1>2, <1>3, <1>4, CrashStep, TickStep DEF Next

\* The inductive invariant holds in every reachable state.
LEMMA Inductive == Spec => []IInv
BY InitIInv, NextStep, PTL DEF Spec
-----------------------------------------------------------------------------
(***************************************************************************)
(* What follows for every number of handles, messages, rooms and leases,   *)
(* every clock and every length of the file.                               *)
(***************************************************************************)
\* Every variable of the store keeps its type.
THEOREM TypeCorrect == Spec => []TypeOK
<1> DEFINE L == lock \in Handle \cup {NoHandle}
<1>1. Init => L  BY DEF Init
<1>2. L /\ [Next]_vars => L'
  <2> SUFFICES ASSUME L, [Next]_vars PROVE L'
    OBVIOUS
  <2>1. ASSUME NEW h \in Handle, Calling(h) PROVE L'
    BY <2>1 DEF Calling, CallLoad, CallBegin, CallRelease, CallDefer, CallMark, CallSave, Invoke
  <2>2. ASSUME NEW h \in Handle, Deciding(h) PROVE L'
    BY <2>2 DEF Deciding, RefreshFails, Load, BeginRefused, BeginAttempt, NotOwner, ReleaseAttempt,
                DeferAttempt, MarkAgain, MarkProcessed, SaveRoomCheckpoints, Return, Done, Append1
  <2>3. ASSUME NEW h \in Handle, Writing(h) PROVE L'
    BY <2>3 DEF Writing, Failing, AppendNothing, AppendTorn, AppendOpen, AppendUnsynced,
                AppendDirUnsynced, Fail, AppendMore, AppendLast, Done
  <2> QED  BY <2>1, <2>2, <2>3 DEF Next, Crash, Tick, vars
<1>3. IInv /\ L => TypeOK  BY DEF IInv, TypeOK
<1> QED  BY Inductive, <1>1, <1>2, <1>3, PTL DEF Spec

\* No interleaving of failed appends, crashes and repairs makes a file that
\* parse_snapshot_bytes rejects, power losses included.
THEOREM NoCorruption == Spec => []NeverCorrupt
<1>1. IInv => NeverCorrupt  BY DEF IInv, TailInv, NeverCorrupt
<1> QED  BY Inductive, <1>1, PTL

\* A live token is the one lease in force for its message, so that two
\* live tokens are for different messages.
LEMMA OneOwner == IInv => MutualExclusion /\ LiveTokenInForce
<1>1. IInv => MutualExclusion
  BY StandingUnique DEF IInv, ShapeOK, LiveInv, MutualExclusion
<1>2. IInv => LiveTokenInForce
  BY DEF IInv, LiveInv, LiveTokenInForce, LeasesIn, Live
<1> QED  BY <1>1, <1>2

\* begin_attempt gives out one live token for a message, and it is in force.
THEOREM AtMostOneOwner == Spec => [](MutualExclusion /\ LiveTokenInForce)
BY Inductive, OneOwner, PTL

\* ensure_attempt_owner keeps a superseded owner from writing.
LEMMA Fenced == IInv => StaleOwnerNeverWrites
<1> SUFFICES ASSUME IInv, NEW h \in Handle, pc[h] = "writing",
                    call[h].kind \in {"release", "defer", "mark"},
                    Superseded(call[h].tok)
             PROVE  FALSE
  BY DEF StaleOwnerNeverWrites
<1> DEFINE t == call[h].tok
<1>1. OwnerDecided(h)  BY DEF IInv, WriteInv, BeginDecided, SaveDecided
<1>2. PICK i \in DOMAIN log : log[i].kind = "leased" /\ log[i].msg = t.msg
                                /\ log[i].attempt > t.attempt
  BY DEF Superseded
<1>3. PICK j \in DOMAIN log : Stands(log, j) /\ log[j].msg = t.msg
                                /\ log[j].attempt = t.attempt
  BY <1>1 DEF OwnerDecided, Standing
<1>4. i \in Nat /\ j \in Nat /\ t.attempt \in Nat /\ log[i].attempt \in Nat
  <2>1. log \in Seq(StateEvent) /\ t \in AttemptLeased
    BY CallFacts DEF IInv, ShapeOK
  <2>2. log[i] \in StateEvent  BY <2>1
  <2> QED  BY <1>2, <2>1, <2>2 DEF StateEvent, ProcessedMessage, AttemptLeased,
                                   AttemptReleased, RoomCheckpoint
<1>5. ~(i > j)  BY <1>2, <1>3 DEF Stands, Ends
<1>6. ~(i < j)
  BY <1>2, <1>3, <1>4 DEF IInv, AttemptInv, Leased, Stands
<1> QED  BY <1>2, <1>3, <1>4, <1>5, <1>6

\* ensure_attempt_owner keeps a superseded owner from writing.
THEOREM Fencing == Spec => []StaleOwnerNeverWrites
BY Inductive, Fenced, PTL

\* After a message is processed, the file says nothing more about it.
THEOREM ProcessedOnce == Spec => []ProcessedIsFinal
<1>1. IInv => ProcessedIsFinal  BY DEF IInv
<1> QED  BY Inductive, <1>1, PTL

\* The memory of a handle never runs ahead of the file.
THEOREM NeverAhead == Spec => []SnapshotNeverAhead
<1>1. IInv => SnapshotNeverAhead  BY DEF IInv
<1> QED  BY Inductive, <1>1, PTL

\* Unless unsynced data can be lost, Ok from mark_processed is durable.
THEOREM AckDurable == ~PowerLoss => (Spec => []AckedIsDurable)
<1>1. ASSUME ~PowerLoss PROVE IInv => AckedIsDurable  BY <1>1 DEF IInv
<1> SUFFICES ASSUME ~PowerLoss PROVE Spec => []AckedIsDurable
  OBVIOUS
<1>2. IInv => AckedIsDurable  BY <1>1
<1> QED  BY Inductive, <1>2, PTL

\* Every operation decides on what a replay of the file would give.
THEOREM DecidesOnReplay == Spec => []SnapshotIsReplay
<1>1. IInv => SnapshotIsReplay
  <2> SUFFICES ASSUME IInv, NEW t \in 0 .. MaxTime + 1
               PROVE  Snapshot(log, t) = ParseSnapshotBytes(log, t)
    BY DEF SnapshotIsReplay
  <2>1. log \in Seq(StateEvent)  BY DEF IInv, ShapeOK
  <2>2. t \in Nat  BY BoundAssumption
  <2> QED  BY <2>1, <2>2, ReplayIsSnapshot
<1> QED  BY Inductive, <1>1, PTL

\* The snapshot updated in place is the snapshot a reload would give.
THEOREM IncrementalReplay == Spec => IncrementalIsReplay
<1> DEFINE A == \A h \in Handle : Appended(h) => snap'[h] = Snapshot(log', at[h])
<1>1. IInv => [A]_vars  BY AppendedSnapshot
<1>2. IInv /\ [Next]_vars => [A]_vars  BY <1>1
<1> QED  BY Inductive, <1>2, PTL DEF Spec, IncrementalIsReplay
-----------------------------------------------------------------------------
(***************************************************************************)
(* The store implements the registry of attempts.                          *)
(***************************************************************************)
\* A leased record puts its attempt id on file; no other record does.
LEMMA AttemptsAppend ==
    ASSUME NEW l \in Seq(StateEvent), NEW r \in StateEvent
    PROVE  AttemptsIn(Append(l, r)) =
             AttemptsIn(l) \cup (IF r.kind = "leased" THEN {r.attempt} ELSE {})
<1> DEFINE k == Append(l, r)
<1>1. /\ DOMAIN l = 1 .. Len(l) /\ Len(l) \in Nat
      /\ DOMAIN k = 1 .. (Len(l) + 1)
      /\ \A i \in 1 .. Len(l) : k[i] = l[i]
      /\ k[Len(l) + 1] = r
  BY AppendFacts
<1> HIDE DEF k
<1>2. \A i : i \in DOMAIN k <=> i \in DOMAIN l \/ i = Len(l) + 1
  BY <1>1
<1>3. \A a : a \in AttemptsIn(k) <=> \E i \in DOMAIN k : k[i].kind = "leased" /\ a = k[i].attempt
  BY DEF AttemptsIn
<1>4. \A a : a \in AttemptsIn(l) <=> \E i \in DOMAIN l : l[i].kind = "leased" /\ a = l[i].attempt
  BY DEF AttemptsIn
<1>5. \A a : a \in AttemptsIn(k) <=> a \in AttemptsIn(l) \/ (r.kind = "leased" /\ a = r.attempt)
  BY <1>1, <1>2, <1>3, <1>4
<1> QED  BY <1>5 DEF k

\* The record that the owner of the lock adds is one step of the registry,
\* whether or not its caller learns that it is in the file.
LEMMA GrowthRefines ==
    ASSUME IInv, NEW h \in Handle, pc[h] = "writing",
           log' = Append(log, Head(recs[h])), now' = now
    PROVE  [Registry!RegNext]_(Registry!regVars)
<1> DEFINE r == Head(recs[h])
<1>1. r \in StateEvent /\ log \in Seq(StateEvent) /\ recs[h] \in Seq(StateEvent)
  BY GrowthSafe DEF IInv, ShapeOK
<1>2. ProcessedIn(log') = {m \in Msg : m \in ProcessedIn(log) \/ (r.kind = "processed" /\ r.msg = m)}
  BY <1>1, ProcessedAppend
<1>3. Standing(log') =
        {x \in Standing(log) : ~Ends(r, x) /\ ~(r.kind = "processed" /\ r.msg = x.msg)}
          \cup (IF r.kind = "leased" /\ r.msg \notin ProcessedIn(log) THEN {r} ELSE {})
  BY <1>1, StandingAppend
<1>4. AttemptsIn(log') = AttemptsIn(log) \cup (IF r.kind = "leased" THEN {r.attempt} ELSE {})
  BY <1>1, AttemptsAppend
<1>5. Len(recs[h]) = 1 => r = recs[h][1]
  BY <1>1
<1>6. BeginDecided(h) \/ OwnerDecided(h) \/ SaveDecided(h)
  BY DEF IInv, WriteInv
<1>7. at[h] \in Nat /\ now \in Nat /\ at[h] <= now /\ ProcessedIn(log) \subseteq Msg
  BY DEF IInv, ShapeOK, ClockInv, ProcessedIn
<1> HIDE DEF r
<1>8. CASE SaveDecided(h)
  <2>1. r.kind = "checkpoint"
    <3>1. recs[h] \in Seq(RoomCheckpoint) /\ recs[h] # <<>>  BY <1>8 DEF SaveDecided
    <3>2. r \in RoomCheckpoint  BY <3>1 DEF r
    <3> QED  BY <3>2 DEF RoomCheckpoint
  <2>2. ProcessedIn(log') = ProcessedIn(log) /\ AttemptsIn(log') = AttemptsIn(log)
    BY <1>2, <1>4, <1>7, <2>1
  <2>3. Standing(log') = Standing(log)
    BY <1>3, <2>1 DEF Ends
  <2> QED  BY <2>2, <2>3 DEF Registry!regVars
<1>9. CASE BeginDecided(h)
  <2>1. /\ r \in AttemptLeased /\ r.msg \notin ProcessedIn(log)
        /\ \A x \in Standing(log) : x.msg = r.msg => x.exp <= at[h]
        /\ \A i \in DOMAIN log : Leased(i) => log[i].attempt < r.attempt
    BY <1>5, <1>9 DEF BeginDecided
  <2>2. r.kind = "leased" /\ r \in Registry!Lease /\ r.attempt \in Nat
    BY <2>1 DEF AttemptLeased, Registry!Lease
  <2>3. \A x \in Standing(log) : x.msg = r.msg => x.exp <= now
    <3>1. \A x \in Standing(log) : x.exp \in Nat
      BY <1>1, StandingFacts DEF AttemptLeased
    <3> QED  BY <1>7, <2>1, <3>1
  <2>4. r.attempt \notin AttemptsIn(log)
    BY <2>1, <2>2 DEF AttemptsIn, Leased
  <2>5. Standing(log') = {x \in Standing(log) : x.msg # r.msg} \cup {r}
    BY <1>3, <2>1, <2>2 DEF Ends
  <2>6. ProcessedIn(log') = ProcessedIn(log) /\ AttemptsIn(log') = AttemptsIn(log) \cup {r.attempt}
    BY <1>2, <1>4, <1>7, <2>2
  <2>7. r \in Standing(log')  BY <2>5
  <2>8. Registry!Start
    BY <2>1, <2>2, <2>3, <2>4, <2>5, <2>6, <2>7 DEF Registry!Start
  <2> QED  BY <2>8 DEF Registry!RegNext
<1>10. CASE OwnerDecided(h)
  <2>1. PICK x \in Standing(log) : x.msg = call[h].tok.msg /\ x.attempt = call[h].tok.attempt
    BY <1>10 DEF OwnerDecided
  <2>2. /\ r.msg = x.msg
        /\ \/ r \in ProcessedMessage
           \/ r \in AttemptLeased \cup AttemptReleased /\ r.attempt = x.attempt
    BY <1>5, <1>10, <2>1 DEF OwnerDecided
  <2>3. x \in AttemptLeased /\ x.msg \notin ProcessedIn(log)
    BY <1>1, StandingFacts
  <2>4. \A y \in Standing(log) : y.msg = x.msg <=> y = x
    BY <1>1, StandingUnique
  <2>5. CASE r \in ProcessedMessage
    <3>1. r.kind = "processed" /\ x.msg \in Msg
      BY <2>3, <2>5 DEF ProcessedMessage, AttemptLeased
    <3>2. ProcessedIn(log') = ProcessedIn(log) \cup {x.msg} /\ AttemptsIn(log') = AttemptsIn(log)
      BY <1>2, <1>4, <1>7, <2>2, <3>1
    <3>3. Standing(log') = Standing(log) \ {x}
      BY <1>3, <2>2, <2>4, <3>1 DEF Ends
    <3>4. Registry!Process  BY <3>2, <3>3 DEF Registry!Process
    <3> QED  BY <3>4 DEF Registry!RegNext
  <2>6. CASE r \in AttemptReleased /\ r.attempt = x.attempt
    <3>1. r.kind = "released"  BY <2>6 DEF AttemptReleased
    <3>2. ProcessedIn(log') = ProcessedIn(log) /\ AttemptsIn(log') = AttemptsIn(log)
      BY <1>2, <1>4, <1>7, <3>1
    <3>3. Standing(log') = Standing(log) \ {x}
      BY <1>3, <2>2, <2>4, <2>6, <3>1 DEF Ends
    <3>4. Registry!Release  BY <3>2, <3>3 DEF Registry!Release
    <3> QED  BY <3>4 DEF Registry!RegNext
  <2>7. CASE r \in AttemptLeased /\ r.attempt = x.attempt
    <3>1. r.kind = "leased" /\ r \in Registry!Lease
      BY <2>7 DEF AttemptLeased, Registry!Lease
    <3>2. x.attempt \in AttemptsIn(log)
      <4>1. PICK i \in DOMAIN log : x = log[i]  BY <1>1, StandingFacts
      <4> QED  BY <2>3, <4>1 DEF AttemptsIn, AttemptLeased
    <3>3. ProcessedIn(log') = ProcessedIn(log) /\ AttemptsIn(log') = AttemptsIn(log)
      BY <1>2, <1>4, <1>7, <2>7, <3>1, <3>2
    <3>4. Standing(log') = (Standing(log) \ {x}) \cup {r}
      BY <1>3, <2>2, <2>3, <2>4, <3>1 DEF Ends
    <3>5. r \in Standing(log')  BY <3>4
    <3>6. Registry!Extend
      BY <2>2, <2>7, <3>1, <3>3, <3>4, <3>5 DEF Registry!Extend
    <3> QED  BY <3>6 DEF Registry!RegNext
  <2> QED  BY <2>2, <2>5, <2>6, <2>7
<1> QED  BY <1>6, <1>8, <1>9, <1>10

\* Unless unsynced data can be lost, each step of the store is a step of the
\* registry or leaves it alone: begin_attempt starts, defer_attempt extends,
\* release_attempt releases and mark_processed processes one attempt.
THEOREM Refinement == ~PowerLoss => (Spec => ImplementsRegistry)
<1> SUFFICES ASSUME ~PowerLoss PROVE Spec => ImplementsRegistry
  OBVIOUS
<1>1. Init => Registry!RegInit
  BY DEF Init, Registry!RegInit, ProcessedIn, Standing, AttemptsIn
<1>2. ASSUME IInv, [Next]_vars PROVE [Registry!RegNext]_(Registry!regVars)
  <2>1. ASSUME log' = log, now' = now PROVE UNCHANGED Registry!regVars
    BY <2>1 DEF Registry!regVars
  <2>2. CASE UNCHANGED vars  BY <2>1, <2>2 DEF vars
  <2>3. ASSUME NEW h \in Handle, Calling(h) \/ Deciding(h)
        PROVE  log' = log /\ now' = now
    BY <2>3 DEF Calling, CallLoad, CallBegin, CallRelease, CallDefer, CallMark, CallSave,
                Invoke, Deciding, RefreshFails, Load, BeginRefused, BeginAttempt, NotOwner,
                ReleaseAttempt, DeferAttempt, MarkAgain, MarkProcessed, SaveRoomCheckpoints,
                Refresh, Repair, file
  <2>4. ASSUME NEW h \in Handle, Writing(h)
        PROVE  /\ pc[h] = "writing" /\ now' = now
               /\ log' = log \/ log' = Append(log, Head(recs[h]))
    BY <2>4 DEF Writing, Failing, AppendNothing, AppendTorn, AppendOpen, AppendUnsynced,
                AppendDirUnsynced, Fail, Grow, AppendMore, AppendLast, Appended, file
  <2>5. ASSUME Crash
        PROVE  /\ now' = now
               /\ \/ log' = log
                  \/ \E h \in Handle : pc[h] = "writing" /\ log' = Append(log, Head(recs[h]))
    BY <2>5 DEF Crash, InterruptedAppend, LostWrites, Grow
  <2>6. CASE Tick
    <3>1. now' = now + 1 /\ now \in Nat /\ log' = log
      BY <1>2, <2>6 DEF Tick, file, IInv, ShapeOK
    <3>2. Registry!Advance  BY <3>1 DEF Registry!Advance
    <3> QED  BY <3>2 DEF Registry!RegNext
  <2> QED  BY <1>2, <2>1, <2>2, <2>3, <2>4, <2>5, <2>6, GrowthRefines DEF Next
<1> QED  BY <1>1, <1>2, Inductive, PTL DEF Spec, ImplementsRegistry, Registry!RegSpec
=============================================================================
