----------------------------- MODULE EventQuota -----------------------------
(***************************************************************************)
(* The account bot with WEBEX_ACCOUNT_BOT_MAX_EVENTS = MaxEvents > 0, of   *)
(* src/examples/account_bot.rs: run_http_loop serves connections until     *)
(* MaxEvents events have been handled, and then stops.                     *)
(*                                                                         *)
(* An event reserves an EventSlot, which is either committed or dropped.   *)
(* A reply worker takes the slot over and may outlive its handler, which   *)
(* the handler timeout drops.  The counters are loaded one after the       *)
(* other, while other tasks change them.  What the event does to the       *)
(* message store is left out: AccountBot is about that.                    *)
(***************************************************************************)
EXTENDS BotDecisions, FiniteSets

CONSTANTS
    Conn,      \* places for a connection's handler and its reply worker
    MaxEvents, \* max_events
    MaxJoin    \* bound: no connection is accepted while so many ended
               \* handlers wait for join_next

ASSUME ConnAssumption == IsFiniteSet(Conn)
ASSUME MaxEventsAssumption == MaxEvents \in Nat \ {0} /\ MaxJoin \in Nat \ {0}

VARIABLES
    slots,     \* event_slots
    completed, \* completed_event_slots
    accepted,  \* accepted_events
    loop,      \* run_http_loop: "check", "accepted", "slots" and "compare" (the
               \* loads of max_events_reached), "select", "drain", "exited" or,
               \* after an error, "failed"
    seen,      \* the value of event_slots that max_events_reached has loaded
    notified,  \* the permit of max_events_notify
    shutdown,  \* the permit of the shutdown Notify
    joinable,  \* handlers that have ended and that join_next has not returned
    pc,        \* pc[c]: what is going on at c
    counted    \* counted[c]: event_counted of the response c is about to write

vars == <<slots, completed, accepted, loop, seen, notified, shutdown, joinable, pc,
          counted>>

Init ==
    /\ slots = 0 /\ completed = 0 /\ accepted = 0
    /\ loop = "check" /\ seen = 0 /\ notified = FALSE /\ shutdown = FALSE /\ joinable = 0
    /\ pc = [c \in Conn |-> "idle"]
    /\ counted = [c \in Conn |-> FALSE]
-----------------------------------------------------------------------------
\* max_event_quota_reached
QuotaReached == completed >= MaxEvents \/ accepted >= MaxEvents

\* max_event_admission_closed
AdmissionClosed == slots >= MaxEvents \/ QuotaReached

Goto(c, l) == pc' = [pc EXCEPT ![c] = l]

\* Handlers that join_next still has to return before the loop may end
Handlers == {c \in Conn : pc[c] \in {"reading", "open", "slot", "worker", "replied",
                                     "answering"}}

(***************************************************************************)
(* run_http_loop.  Each arm of its select! goes back to the check, which   *)
(* is max_events_reached: up to four relaxed loads.                        *)
(***************************************************************************)
\* Mutant: a reserved slot counts as a completed one.
CheckReserved ==
    /\ loop = "check"
    /\ loop' = IF slots >= MaxEvents THEN "drain" ELSE "accepted"
    /\ UNCHANGED <<slots, completed, accepted, seen, notified, shutdown, joinable, pc, counted>>

\* completed_event_slots >= max_events
Check ==
    /\ loop = "check"
    /\ loop' = IF completed >= MaxEvents THEN "slots" ELSE "accepted"
    /\ UNCHANGED <<slots, completed, accepted, seen, notified, shutdown, joinable, pc, counted>>

\* accepted_events >= max_events
CheckAccepted ==
    /\ loop = "accepted"
    /\ loop' = IF accepted >= MaxEvents THEN "slots" ELSE "select"
    /\ UNCHANGED <<slots, completed, accepted, seen, notified, shutdown, joinable, pc, counted>>

LoadSlots ==
    /\ loop = "slots"
    /\ seen' = slots
    /\ loop' = "compare"
    /\ UNCHANGED <<slots, completed, accepted, notified, shutdown, joinable, pc, counted>>

\* event_slots == completed_event_slots
Compare ==
    /\ loop = "compare"
    /\ loop' = IF seen = completed THEN "drain" ELSE "select"
    /\ seen' = 0
    /\ UNCHANGED <<slots, completed, accepted, notified, shutdown, joinable, pc, counted>>

\* A connection is accepted; with no place left it is turned away.
Accept ==
    /\ loop = "select" /\ joinable < MaxJoin
    /\ \/ \E c \in Conn : pc[c] = "idle" /\ Goto(c, "reading")
       \/ (\A c \in Conn : pc[c] # "idle") /\ UNCHANGED pc
    /\ loop' = "check"
    /\ UNCHANGED <<slots, completed, accepted, seen, notified, shutdown, joinable, counted>>

\* accept() returns an error, which ends run_http_loop and the process, with
\* all its handlers and workers.
AcceptFails ==
    /\ loop = "select"
    /\ loop' = "failed"
    /\ UNCHANGED <<slots, completed, accepted, seen, notified, shutdown, joinable, pc, counted>>

JoinNext ==
    /\ loop \in {"select", "drain"} /\ joinable > 0
    /\ joinable' = joinable - 1
    /\ loop' = IF loop = "select" THEN "check" ELSE loop
    /\ UNCHANGED <<slots, completed, accepted, seen, notified, shutdown, pc, counted>>

MaxEventsNotified ==
    /\ loop = "select" /\ notified
    /\ notified' = FALSE /\ loop' = "check"
    /\ UNCHANGED <<slots, completed, accepted, seen, shutdown, joinable, pc, counted>>

ShutdownNotified ==
    /\ loop = "select" /\ shutdown
    /\ shutdown' = FALSE /\ loop' = "check"
    /\ UNCHANGED <<slots, completed, accepted, seen, notified, joinable, pc, counted>>

\* No handler is left: run_http_loop returns, and the process ends.
Exit ==
    /\ loop = "drain" /\ joinable = 0 /\ Handlers = {}
    /\ loop' = "exited"
    /\ UNCHANGED <<slots, completed, accepted, seen, notified, shutdown, joinable, pc, counted>>
-----------------------------------------------------------------------------
(***************************************************************************)
(* handle_connection and handle_event_with_permit.                         *)
(***************************************************************************)
\* handle_request turns the event away, or lets it in.
Admit(c) ==
    /\ pc[c] = "reading"
    /\ Goto(c, IF AdmissionClosed THEN "answering" ELSE "open")
    /\ UNCHANGED <<slots, completed, accepted, loop, seen, notified, shutdown, joinable, counted>>

\* The response is ready; counted says whether it counts.
Answer(c, counts) == Goto(c, "answering") /\ counted' = [counted EXCEPT ![c] = counts]

\* The request is no event, or is malformed, or times out.
Reject(c) ==
    /\ pc[c] \in {"reading", "open"}
    /\ Answer(c, FALSE)
    /\ UNCHANGED <<slots, completed, accepted, loop, seen, notified, shutdown, joinable>>

\* handle_event_with_permit ignores the event before it needs a slot.
Unsupported(c) ==
    /\ pc[c] = "open"
    /\ \E reason \in {"unsupported_event_version", "unsupported_event",
                       "invalid_message_payload", "missing_message_id"} :
         Answer(c, CountsTowardMaxEvents(Ignored(reason)))
    /\ UNCHANGED <<slots, completed, accepted, loop, seen, notified, shutdown, joinable>>

\* try_acquire_event_slot: between admission and here others may have
\* reserved the last slot.
Reserve(c) ==
    /\ pc[c] = "open"
    /\ IF slots < MaxEvents
       THEN slots' = slots + 1 /\ Goto(c, "slot") /\ UNCHANGED counted
       ELSE Answer(c, FALSE) /\ UNCHANGED slots
    /\ UNCHANGED <<completed, accepted, loop, seen, notified, shutdown, joinable>>

\* The messages an event may bring, and the results of a request to Webex
Messages == [room : {"allowed", "denied", "none"}, person : {"self", "other", "none"}]
Results == {[kind |-> "ok", status |-> 200], [kind |-> "broken", status |-> 0],
            [kind |-> "unsent", status |-> 0]}
             \cup [kind : {"api"}, status : {400, 401, 404, 503}]

\* How handle_event_with_permit can go on with a slot.  A message that is
\* processed already gets one too (duplicate_message_action).
Decisions == {Decide(x, y, r, mock) : x \in Messages, y \in Messages, r \in Results,
                                      mock \in BOOLEAN}
               \cup {Ignored("duplicate_message")}

Outcomes == {ReplyOutcome(r) : r \in Results}

\* send_reply spawns its worker, which owns the slot from now on.
Spawn(c) ==
    /\ pc[c] = "slot"
    /\ SendReply \in Decisions
    /\ Goto(c, "worker")
    /\ UNCHANGED <<slots, completed, accepted, loop, seen, notified, shutdown, joinable,
                   counted>>

Owns(c) == pc[c] \in {"slot", "worker", "orphan"}

\* What the owner of a slot may end with
Endings(c) == IF pc[c] = "slot" THEN Decisions ELSE Outcomes

\* The owner of the slot ends with action a.  A worker whose handler is gone
\* leaves nothing behind; otherwise its result is on its way to the handler.
End(c, a) ==
    IF pc[c] = "orphan" THEN Goto(c, "idle") /\ UNCHANGED counted
    ELSE /\ Goto(c, IF pc[c] = "worker" THEN "replied" ELSE "answering")
         /\ counted' = [counted EXCEPT ![c] = CountsTowardMaxEvents(a)]

\* Mutant: the loop is not woken up.
CommitSilently(c) ==
    /\ Owns(c)
    /\ \E a \in Endings(c) : a.kind \in {"ignored", "replied", "mock_replied"} /\ End(c, a)
    /\ completed' = completed + 1
    /\ UNCHANGED <<slots, accepted, loop, seen, notified, shutdown, joinable>>

\* EventSlot::commit, at every return of an action
Commit(c) ==
    /\ Owns(c)
    /\ \E a \in Endings(c) : a.kind \in {"ignored", "replied", "mock_replied"} /\ End(c, a)
    /\ completed' = completed + 1
    /\ notified' = TRUE
    /\ UNCHANGED <<slots, accepted, loop, seen, shutdown, joinable>>

\* Drop for EventSlot: Webex refused, or the state could not be saved, and
\* the event may be sent again.
DropSlot(c) ==
    /\ Owns(c)
    /\ \E a \in Endings(c) \cup {OtherFailure} : a.kind = "failure" /\ End(c, a)
    /\ slots' = slots - 1
    /\ notified' = TRUE
    /\ UNCHANGED <<completed, accepted, loop, seen, shutdown, joinable>>

\* The handler timeout drops a handler that waits for its worker, perhaps
\* after the worker has ended but before its result arrives.
Abandon(c) ==
    /\ pc[c] \in {"worker", "replied"}
    /\ Goto(c, IF pc[c] = "worker" THEN "orphan" ELSE "idle")
    /\ counted' = [counted EXCEPT ![c] = FALSE]
    /\ joinable' = joinable + 1
    /\ UNCHANGED <<slots, completed, accepted, loop, seen, notified, shutdown>>

\* write_final_response
Respond(c) ==
    /\ pc[c] \in {"replied", "answering"}
    /\ accepted' = IF counted[c] THEN accepted + 1 ELSE accepted
    /\ shutdown' = (shutdown \/ (counted[c] /\ accepted' >= MaxEvents))
    /\ Goto(c, "idle")
    /\ counted' = [counted EXCEPT ![c] = FALSE]
    /\ joinable' = joinable + 1
    /\ UNCHANGED <<slots, completed, loop, seen, notified>>

Serve(c) == Admit(c) \/ Reject(c) \/ Unsupported(c) \/ Reserve(c) \/ Spawn(c)
              \/ Commit(c) \/ DropSlot(c) \/ Abandon(c) \/ Respond(c)

Checking == Check \/ CheckAccepted \/ LoadSlots \/ Compare

Loop == Checking \/ Accept \/ AcceptFails \/ JoinNext \/ MaxEventsNotified \/ ShutdownNotified \/ Exit

Ended == loop \in {"exited", "failed"}

Next == (~Ended /\ (Loop \/ \E c \in Conn : Serve(c))) \/ (Ended /\ UNCHANGED vars)

Spec == Init /\ [][Next]_vars

\* The loop goes on when something wakes it, without new connections; every
\* handler and worker ends, by its timeout at the latest.
Woken == Checking \/ JoinNext \/ MaxEventsNotified \/ ShutdownNotified \/ Exit

FairSpec == Spec /\ WF_vars(Woken) /\ \A c \in Conn : WF_vars(Serve(c))
-----------------------------------------------------------------------------
(***************************************************************************)
(* Properties.                                                             *)
(***************************************************************************)
\* The three counters, changed by different tasks without a lock, never get
\* out of step: the uncommitted slots are the ones somebody owns, and no
\* event is counted that was not completed.
QuotaExact ==
    /\ slots = completed + Cardinality({c \in Conn : Owns(c)})
    /\ slots <= MaxEvents
    /\ accepted + Cardinality({c \in Conn : counted[c]}) <= completed

\* Unless accept() fails, the loop stops only when exactly MaxEvents events
\* are done, and never under a reply worker, abandoned ones included.
NoReplyCutOff ==
    loop \in {"drain", "exited"} =>
        completed = MaxEvents /\ \A c \in Conn : ~Owns(c)

\* Once MaxEvents events are done the process ends, even if the last one
\* was finished by a worker nobody waits for; that or an error of accept() in
\* the meantime is its end.
StopsAfterQuota == completed = MaxEvents ~> Ended
=============================================================================
