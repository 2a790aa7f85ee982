-------------------------- MODULE MultiRoomPoller --------------------------
(***************************************************************************)
(* MultiRoomMessagePoller of src/src/realtime.rs, its spawn_batches loop   *)
(* with the channel to the consumer, and the consumer that README.md       *)
(* describes: handle the events of a batch, then save its room             *)
(* checkpoints, and after an error rebuild the poller from the saved ones. *)
(* The poller runs ahead of its consumer by as many batches as the channel *)
(* holds; a caller of poll_once is a consumer that lets it run ahead by    *)
(* none.                                                                   *)
(*                                                                         *)
(* poll_once reads each room in its own request, between which messages    *)
(* are posted and deleted, and applies all updates in one step at the end; *)
(* a poll that is cancelled before that leaves no trace.  Webex, which is  *)
(* not part of the repository, appears as the messages posted, the ones    *)
(* deleted, and the rooms that discovery finds.                            *)
(***************************************************************************)
EXTENDS RoomPoller

CONSTANTS
    Room,        \* room ids, numbers for their order
    MaxInactive, \* max_inactive_rooms
    MaxBatches,  \* capacity of the channel, the batch being sent included
    MaxMsgs,     \* bound on the messages posted
    MaxDeletes,  \* bound on the messages deleted
    MaxFaults    \* bound on the faults: failed and cancelled polls, rooms
                 \* that leave, rebuilt and reseeded pollers

ASSUME RoomAssumption == Room \subseteq Nat /\ IsFiniteSet(Room)
ASSUME BoundAssumption ==
    /\ MaxInactive \in Nat \ {0} /\ MaxBatches \in Nat \ {0}
    /\ MaxMsgs \in Nat /\ MaxDeletes \in Nat /\ MaxFaults \in Nat

VARIABLES
    posted,   \* posted[m]: the room of message m
    deleted,  \* messages deleted from Webex
    members,  \* rooms that discovery finds
    faults,   \* faults so far
    known,    \* known[r]: the poller or its consumer has a boundary for r
    base,     \* base[r]: the newest message the first baseline of r skipped
    rooms,    \* the rooms polled
    inactive, \* inactive_room_order
    poller,   \* poller[r]: the MessagePoller of an active or inactive room
    points,   \* checkpoints: boundaries of rooms without a poller
    ready,    \* rooms_initialized
    phase,    \* "idle" or "polling"
    cutoff,   \* batch_cutoff: only messages below are listed
    todo,     \* rooms of the batch still to be polled
    results,  \* results[r]: what the poll of r returned
    channel,  \* the MultiRoomPolls on their way to the consumer
    batch,    \* checkpoints of the batch whose events have been handled
    durable,  \* durable[r]: the saved checkpoint
    handled,  \* messages the consumer has handled
    emitted   \* what this poller has emitted, in order

webex == <<posted, deleted, members>>
state == <<rooms, inactive, poller, points, ready>>
current == <<cutoff, todo, results>>
consumer == <<channel, batch, durable, handled, emitted>>
vars == <<posted, deleted, members, faults, known, base, rooms, inactive, poller, points, ready,
          phase, cutoff, todo, results, channel, batch, durable, handled, emitted>>

Msgs == DOMAIN posted

\* A RoomCheckpoint; known_empty is the one without ids.
NoPoint == [given |-> FALSE, ids |-> <<>>]
Point(ids) == [given |-> TRUE, ids |-> ids]

NoPoints == [r \in Room |-> NoPoint]
NoResult == Failed({})

Init ==
    /\ posted = <<>> /\ deleted = {} /\ members = Room /\ faults = 0
    /\ known = [r \in Room |-> FALSE]
    /\ base = [r \in Room |-> 0]
    /\ rooms = {} /\ inactive = <<>> /\ ready = FALSE
    /\ poller = [r \in Room |-> NewPoller]
    /\ points = NoPoints
    /\ phase = "idle" /\ cutoff = 0 /\ todo = {}
    /\ results = [r \in Room |-> NoResult]
    /\ channel = <<>> /\ batch = NoPoints
    /\ durable = NoPoints
    /\ handled = {} /\ emitted = <<>>
-----------------------------------------------------------------------------
(***************************************************************************)
(* Webex.                                                                  *)
(***************************************************************************)
Post(r) ==
    /\ Len(posted) < MaxMsgs
    /\ posted' = Append(posted, r)
    /\ UNCHANGED <<deleted, members, faults, known, base, state, phase, current, consumer>>

Delete(m) ==
    /\ m \notin deleted /\ Cardinality(deleted) < MaxDeletes
    /\ deleted' = deleted \cup {m}
    /\ UNCHANGED <<posted, members, faults, known, base, state, phase, current, consumer>>

Fault == faults < MaxFaults /\ faults' = faults + 1

\* Discovery no longer finds some rooms.
Leave ==
    /\ Fault
    /\ \E left \in SUBSET members \ {{}} : members' = members \ left
    /\ UNCHANGED <<posted, deleted, known, base, state, phase, current, consumer>>

Join(r) ==
    /\ r \notin members
    /\ members' = members \cup {r}
    /\ UNCHANGED <<posted, deleted, faults, known, base, state, phase, current, consumer>>

\* The messages of room r below c, newest first
Listing(r, c) ==
    Descending({m \in Msgs : posted[m] = r /\ m \notin deleted /\ m < c})
-----------------------------------------------------------------------------
(***************************************************************************)
(* refresh_rooms, once discovery has found the rooms of found.             *)
(***************************************************************************)
Inactive == Elems(inactive)

\* inactive_room_order before it is pruned: rooms that were not found follow
\* in the order of the BTreeMap.
InactiveOrder(found) ==
    Only(inactive, Room \ found) \o Ascending(rooms \ found)

\* prune_inactive_rooms: the oldest without a backlog, as many as are too many
Pruned(order) ==
    LET idle == {i \in DOMAIN order : ~HasPendingBacklog(poller[order[i]])}
    IN  {order[i] : i \in {j \in idle : Cardinality({k \in idle : k <= j}) + MaxInactive <= Len(order)}}

\* Rooms found for the first time, or again after they were pruned
New(found) == found \ (rooms \cup Inactive)

\* current_checkpoint of a room whose poller is given up
CurrentCheckpoint(r) == IF poller[r].initialized THEN Point(poller[r].seen) ELSE points[r]

Refresh(found) ==
    \E order \in {InactiveOrder(found)} : \E pruned \in {Pruned(order)} :
        /\ rooms' = found
        /\ inactive' = Only(order, Room \ pruned)
        /\ poller' = [r \in Room |->
                        IF r \in pruned THEN NewPoller
                        ELSE IF r \in New(found) /\ points[r].given THEN Seeded(points[r].ids)
                        ELSE poller[r]]
        /\ points' = [r \in Room |->
                        IF r \in pruned THEN CurrentCheckpoint(r)
                        ELSE IF r \in New(found) THEN NoPoint
                        ELSE points[r]]
        /\ ready' = TRUE

\* discover_joined_rooms reads all pages, and takes each room once.
Discovered == members

\* A discovery that fails, on a page, at max_rooms or at its timeout, leaves
\* the rooms as they are, like one that is not due.
NotRefreshed == UNCHANGED state

\* The poller has not been given to spawn_batches, or nothing it sent is
\* still to be handled or saved.
AtRest == phase = "idle" /\ channel = <<>> /\ batch = NoPoints

\* refresh_rooms, called by itself
RefreshRooms ==
    /\ AtRest
    /\ Refresh(Discovered)
    /\ UNCHANGED <<webex, faults, known, base, phase, current, consumer>>

\* with_room_checkpoints with what is saved, on a poller that has been used:
\* the rooms it has a poller for go back to their checkpoint, without their
\* backlog (replace_checkpoint), and the other checkpoints replace the ones
\* it had kept.  The caller passes everything it saved, as the README of the
\* library prescribes; one that leaves out a pruned room gives that room's
\* boundary up, and is not modelled.
Reseed ==
    /\ AtRest /\ Fault
    /\ poller' = [r \in Room |-> IF r \in rooms \cup Inactive /\ durable[r].given
                                 THEN Seeded(durable[r].ids) ELSE poller[r]]
    /\ points' = [r \in Room |-> IF r \in rooms \cup Inactive THEN NoPoint ELSE durable[r]]
    /\ UNCHANGED <<webex, known, base, rooms, inactive, ready, phase, current, consumer>>

\* poll_once up to its first request.  Before a refresh has succeeded for
\* the first time the poll ends with an error and changes nothing.
StartBatch(polled) ==
    /\ phase = "idle"
    /\ phase' = "polling" /\ todo' = polled /\ cutoff' = Len(posted) + 1
    /\ UNCHANGED <<webex, faults, known, base, results, consumer>>

StartRefreshed == Refresh(Discovered) /\ StartBatch(Discovered)

Start == ready /\ StartBatch(rooms) /\ NotRefreshed
-----------------------------------------------------------------------------
(***************************************************************************)
(* poll_rooms_concurrently: any order of completion.                       *)
(*                                                                         *)
(* All pages that one poll of a room lists are one step, although the code *)
(* awaits between them.  What happens in between does not show: a message  *)
(* posted meanwhile is newer than the cutoff, and every page after the     *)
(* first starts below the page before it; a message deleted meanwhile is   *)
(* one deleted after the poll if its page was already listed, and before   *)
(* it if not.                                                              *)
(***************************************************************************)
ListingFor(r) == Listing(r, IF poller[r].next = 0 THEN cutoff ELSE poller[r].next)

Polled(r, result) ==
    /\ phase = "polling" /\ r \in todo
    /\ results' = [results EXCEPT ![r] = result]
    /\ todo' = todo \ {r}
    /\ UNCHANGED <<webex, known, base, state, phase, cutoff, consumer>>

PollRoom(r) ==
    \E q \in {ListingFor(r)} : Polled(r, Answered(poller[r], q)) /\ UNCHANGED faults

PollRoomFails(r) ==
    \E q \in {ListingFor(r)} : \E result \in Interrupted(poller[r], q) : Polled(r, result) /\ Fault

Updated(r) == results[r].updates # {}
Update(r) == CHOOSE u \in results[r].updates : TRUE

\* has_pending_backlog of the batch
BatchHasBacklog ==
    \E r \in rooms : \/ Updated(r) /\ ~Update(r).commitSeen
                     \/ ~Updated(r) /\ HasPendingBacklog(poller[r])

\* What poll_once applies for room r: a batch that is held back becomes
\* pending again.
Applied(r) ==
    LET u == Update(r)
    IN  IF BatchHasBacklog /\ u.commitSeen /\ u.messages # <<>>
        THEN Pending(Backwards(u.messages), u.seenIds, 0)
        ELSE u

\* Mutant: a room's checkpoint is handed out although its messages are held.
CheckpointEarly(r) ==
    IF Updated(r) /\ Update(r).commitSeen
    THEN Point(ApplyUpdate(poller[r], Update(r)).seen) ELSE NoPoint

\* checkpoint_after_update
CheckpointAfterUpdate(r) ==
    IF Updated(r) /\ Applied(r).commitSeen
    THEN Point(ApplyUpdate(poller[r], Applied(r)).seen) ELSE NoPoint

\* The events of the batch, sorted by compare_indexed_room_messages
Events ==
    IF BatchHasBacklog THEN <<>>
    ELSE Ascending(UNION {Elems(Update(r).messages) : r \in {x \in rooms : Updated(x)}})

\* The first poll of a room whose boundary nobody has
IsBaseline(r) == Updated(r) /\ ~known[r]

\* The send of spawn_batches waits while the channel is full.
Send(events, checkpoints) ==
    /\ Len(channel) < MaxBatches
    /\ channel' = Append(channel, [events |-> events, points |-> checkpoints])

Finish ==
    /\ phase = "polling" /\ todo = {}
    /\ phase' = "idle"
    /\ Send(Events, [r \in Room |-> IF r \in rooms THEN CheckpointAfterUpdate(r) ELSE NoPoint])
    /\ poller' = [r \in Room |-> IF r \in rooms /\ Updated(r)
                                 THEN ApplyUpdate(poller[r], Applied(r)) ELSE poller[r]]
    /\ known' = [r \in Room |-> known[r] \/ (r \in rooms /\ Updated(r))]
    /\ base' = [r \in Room |-> IF r \in rooms /\ IsBaseline(r) /\ ~EmitExisting
                               THEN cutoff - 1 ELSE base[r]]
    /\ emitted' = emitted \o Events
    /\ results' = [r \in Room |-> NoResult]
    /\ cutoff' = 0
    /\ UNCHANGED <<webex, faults, rooms, inactive, points, ready, todo, batch, durable, handled>>

\* The caller drops the future of poll_once.
Cancel ==
    /\ phase = "polling" /\ Fault
    /\ phase' = "idle" /\ todo' = {} /\ cutoff' = 0
    /\ results' = [r \in Room |-> NoResult]
    /\ UNCHANGED <<webex, known, base, state, consumer>>
-----------------------------------------------------------------------------
(***************************************************************************)
(* The consumer of the batches.                                            *)
(***************************************************************************)
HandleEvents ==
    /\ channel # <<>> /\ batch = NoPoints
    /\ handled' = handled \cup Elems(Head(channel).events)
    /\ batch' = Head(channel).points
    /\ channel' = Tail(channel)
    /\ UNCHANGED <<webex, faults, known, base, state, phase, current, durable, emitted>>

\* The checkpoints of the batch for the rooms of saved are in the store.
Saved(saved) == [r \in Room |-> IF r \in saved /\ batch[r].given THEN batch[r] ELSE durable[r]]

\* save_room_checkpoints
SaveCheckpoints ==
    /\ batch # NoPoints
    /\ durable' = Saved(Room)
    /\ batch' = NoPoints
    /\ UNCHANGED <<webex, faults, known, base, state, phase, current, channel, handled, emitted>>

\* The receiver is dropped: the task of spawn_batches ends, be it waiting for
\* its tick, in poll_once or in send, and with it the poller and the channel.
Discard ==
    /\ rooms' = {} /\ inactive' = <<>> /\ ready' = FALSE
    /\ poller' = [r \in Room |-> NewPoller]
    /\ phase' = "idle" /\ cutoff' = 0 /\ todo' = {}
    /\ results' = [r \in Room |-> NoResult]
    /\ channel' = <<>>

\* The process stops, or the consumer discards the poller and what it handed
\* out, perhaps after some of the checkpoints were saved, which are ordered
\* by room: a new poller is seeded with the saved ones.
Rebuild ==
    /\ Fault
    /\ durable' \in {Saved({r \in Room : r <= k}) : k \in Room \cup {0}}
    /\ Discard
    /\ points' = durable'
    /\ known' = [r \in Room |-> durable'[r].given]
    /\ batch' = NoPoints /\ emitted' = <<>>
    /\ UNCHANGED <<webex, base, handled>>
-----------------------------------------------------------------------------
Next ==
    \/ \E r \in Room : Post(r) \/ Join(r) \/ PollRoom(r) \/ PollRoomFails(r)
    \/ \E m \in Msgs : Delete(m)
    \/ Leave
    \/ RefreshRooms \/ Reseed \/ StartRefreshed \/ Start \/ Finish \/ Cancel
    \/ HandleEvents \/ SaveCheckpoints \/ Rebuild

Spec == Init /\ [][Next]_vars

\* The loop of spawn and its consumer go on, the refresh interval elapses
\* again and again, and a room that has left comes back.
FairSpec ==
    /\ Spec
    /\ WF_vars((\E r \in Room : PollRoom(r)) \/ Finish \/ Start)
    /\ WF_vars(HandleEvents \/ SaveCheckpoints)
    /\ SF_vars(StartRefreshed)
    /\ WF_vars(\E r \in Room : Join(r))
-----------------------------------------------------------------------------
(***************************************************************************)
(* Properties.                                                             *)
(***************************************************************************)
\* Messages of room r that its first baseline did not skip
Claimed(r) == {m \in Msgs : posted[m] = r /\ m > base[r] /\ m \notin deleted}

\* Messages of room r at or below the newest of ids
Below(r, ids) == {m \in Claimed(r) : \E x \in Elems(ids) : m <= x}

\* A saved checkpoint never covers a message that the consumer has not
\* handled, so that a restart loses nothing: whatever rooms failed, were held
\* back, left and came back, and wherever the consumer stopped.
CheckpointLosesNothing ==
    \A r \in Room : durable[r].given => Below(r, durable[r].ids) \subseteq handled

\* The same for the boundaries in memory: what a poller would stop at, or an
\* evicted room is seeded with, has been emitted.
BoundaryLosesNothing ==
    \A r \in Room :
        Below(r, poller[r].seen) \cup Below(r, points[r].ids) \subseteq handled \cup Elems(emitted)

\* A room's messages are emitted in the order of their creation, each once,
\* although they were read newest first, in several polls, and held back, as
\* long as fewer messages are deleted than a boundary keeps.
RoomOrder ==
    \A i, j \in DOMAIN emitted :
        i < j /\ posted[emitted[i]] = posted[emitted[j]] => emitted[i] < emitted[j]

\* A room's history from before its first baseline is not replayed, as long
\* as fewer messages are deleted than a boundary keeps: MaxSeen, or what the
\* pages of the baseline held.
NoHistory == \A i \in DOMAIN emitted : emitted[i] > base[posted[emitted[i]]]

\* Messages are emitted in the order of their creation, over all rooms, if
\* nothing fails.
GlobalOrder ==
    faults = 0 => \A i, j \in DOMAIN emitted : i < j => emitted[i] < emitted[j]

\* Message m is past the boundary of its room and has not been handled.
Owed(m) == /\ m \in Msgs
           /\ known[posted[m]] /\ m \in Claimed(posted[m]) /\ m \notin handled

\* Every message past its room's boundary is handled in the end, after any
\* number of failed polls, room departures and restarts, unless it is deleted
\* or the boundary itself is lost before it was ever saved.
EventuallyHandled == \A m \in 1 .. MaxMsgs : Owed(m) ~> ~Owed(m)
=============================================================================
