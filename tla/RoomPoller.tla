----------------------------- MODULE RoomPoller -----------------------------
(***************************************************************************)
(* MessagePoller of src/src/realtime.rs: the poller of one room, as a      *)
(* value and the operations on it.  MultiRoomPoller composes several.      *)
(*                                                                         *)
(* A message is its number in the order of creation, from 1.  Webex lists  *)
(* a room newest first, in pages; the URL of the next page is the number   *)
(* of the last message of the page before it, and 0 stands for no URL.     *)
(***************************************************************************)
EXTENDS NewestFirst

CONSTANTS
    PageSize,   \* page_size
    MaxPages,   \* max_pages_per_poll
    MaxSeen,    \* max_seen_ids
    MaxPending, \* max_pending_messages
    EmitExisting \* emit_existing_on_first_poll

ASSUME PageAssumption == PageSize \in Nat \ {0} /\ MaxPages \in Nat \ {0}
ASSUME LimitAssumption == MaxSeen \in Nat \ {0} /\ MaxPending \in Nat \ {0}
ASSUME EmitAssumption == EmitExisting \in BOOLEAN

\* seen, pending_fresh and pending_seen_ids are newest first.
NewPoller == [seen |-> <<>>, fresh |-> <<>>, ids |-> <<>>, next |-> 0, initialized |-> FALSE]

HasPendingBacklog(p) == p.next # 0 \/ p.fresh # <<>> \/ p.ids # <<>>

\* Mutant: the newest ids are dropped.
RememberOldest(seen, ids) ==
    LET q == Only(ids, Elems(ids) \ Elems(seen)) \o seen
    IN  SubSeq(q, IF Len(q) > MaxSeen THEN Len(q) - MaxSeen + 1 ELSE 1, Len(q))

\* SeenMessageIds::remember_newest_first
RememberNewestFirst(seen, ids) ==
    LET q == Only(ids, Elems(ids) \ Elems(seen)) \o seen
    IN  SubSeq(q, 1, IF Len(q) > MaxSeen THEN MaxSeen ELSE Len(q))

\* Mutant: the poller starts from an empty boundary, whatever it is seeded with.
SeededEmpty(ids) == [NewPoller EXCEPT !.initialized = TRUE]

\* with_seen_message_ids, or with_empty_seen_boundary
Seeded(ids) == [NewPoller EXCEPT !.seen = RememberNewestFirst(<<>>, ids), !.initialized = TRUE]
-----------------------------------------------------------------------------
(***************************************************************************)
(* poll_once_transaction_before on the listing q of the room, which starts *)
(* at the cutoff or at the poller's backlog_next.                          *)
(***************************************************************************)
Reads(q, n) == IF n * PageSize < Len(q) THEN n * PageSize ELSE Len(q)

\* Are there known messages on the first n pages?
SawKnown(p, q, n) == \E i \in 1 .. Reads(q, n) : q[i] \in Elems(p.seen)

\* The loop ends with page n: an initialized poller has met its boundary, or
\* Webex has no next page.
Ends(p, q, n) == (p.initialized /\ SawKnown(p, q, n)) \/ Len(q) <= n * PageSize

\* collect_page_messages for n pages: the ids not seen before, up to the
\* boundary, in the order of the pages, which is newest first.
CollectedIds(p, q, n) ==
    LET boundary(i) == p.initialized /\ \E j \in 1 .. i : q[j] \in Elems(p.seen)
        new == {i \in 1 .. Reads(q, n) : ~boundary(i) /\ q[i] \notin Elems(p.seen) \cup Elems(p.ids)}
    IN  p.ids \o Descending({q[i] : i \in new})

CollectedFresh(p, q, n) ==
    p.fresh \o (IF p.initialized \/ EmitExisting
                THEN SubSeq(CollectedIds(p, q, n), Len(p.ids) + 1, Len(CollectedIds(p, q, n)))
                ELSE <<>>)

\* MessagePollUpdate; initialized is always true in it.
Committed(fresh, ids) ==
    [messages |-> Backwards(fresh), seenIds |-> ids, fresh |-> <<>>, ids |-> <<>>,
     next |-> 0, commitSeen |-> TRUE]

Pending(fresh, ids, next) ==
    [messages |-> <<>>, seenIds |-> <<>>, fresh |-> fresh, ids |-> ids,
     next |-> next, commitSeen |-> FALSE]

\* What poll_once_transaction returns: an update, with an error or not, or
\* an error alone.
Good(u) == [failed |-> FALSE, updates |-> {u}]
Failed(us) == [failed |-> TRUE, updates |-> us]

\* Mutant: the ids of a half-read backlog are committed.
PagesCommit(p, q, n) ==
    IF ~Ends(p, q, n) /\ (p.initialized \/ EmitExisting)
    THEN [Pending(CollectedFresh(p, q, n), <<>>, q[n * PageSize])
            EXCEPT !.commitSeen = TRUE, !.seenIds = CollectedIds(p, q, n)]
    ELSE Committed(CollectedFresh(p, q, n), CollectedIds(p, q, n))

\* Mutant: a backlog goes on with the page that was just read.
PagesStay(p, q, n) ==
    IF ~Ends(p, q, n) /\ (p.initialized \/ EmitExisting)
    THEN Pending(CollectedFresh(p, q, n), CollectedIds(p, q, n), q[(n - 1) * PageSize + 1] + 1)
    ELSE Committed(CollectedFresh(p, q, n), CollectedIds(p, q, n))

\* The update after page n when page n + 1 is not read.
PagesUpdate(p, q, n) ==
    LET fresh == CollectedFresh(p, q, n)
        ids   == CollectedIds(p, q, n)
    IN  IF ~Ends(p, q, n) /\ (p.initialized \/ EmitExisting)
        THEN Pending(fresh, ids, q[n * PageSize])
        ELSE Committed(fresh, ids)

\* ensure_pending_within_limit fails once n pages are read.
OverLimit(p, q, n) ==
    Len(CollectedFresh(p, q, n)) > MaxPending \/ Len(CollectedIds(p, q, n)) > MaxPending

\* Does the loop go on after page n?
GoesOn(p, q, n) == n < MaxPages /\ ~Ends(p, q, n) /\ ~OverLimit(p, q, n)

\* A held batch is handed out without a request to Webex.
HeldBatch(p) == p.next = 0 /\ p.fresh # <<>>

\* The poll when Webex answers every request
Answered(p, q) ==
    IF HeldBatch(p) THEN Good(Committed(p.fresh, p.ids))
    ELSE LET n == CHOOSE k \in 1 .. MaxPages :
                    ~GoesOn(p, q, k) /\ \A j \in 1 .. k - 1 : GoesOn(p, q, j)
         IN  IF OverLimit(p, q, n) THEN Failed({}) ELSE Good(PagesUpdate(p, q, n))

\* The polls in which a request fails or the room's timeout strikes.  What
\* pages already read are kept, if the next one fails, unless this is a
\* baseline (preserve_pending_on_page_error).
Interrupted(p, q) ==
    IF HeldBatch(p) THEN {}
    ELSE {Failed({})} \cup
         {Failed(IF p.initialized \/ EmitExisting THEN {PagesUpdate(p, q, n)} ELSE {}) :
             n \in {k \in 1 .. MaxPages : \A j \in 1 .. k : GoesOn(p, q, j)}}

\* apply_update
ApplyUpdate(p, u) ==
    [seen  |-> IF u.commitSeen THEN RememberNewestFirst(p.seen, u.seenIds) ELSE p.seen,
     fresh |-> u.fresh, ids |-> u.ids, next |-> u.next, initialized |-> TRUE]
=============================================================================
