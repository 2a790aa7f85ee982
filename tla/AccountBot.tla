----------------------------- MODULE AccountBot -----------------------------
(***************************************************************************)
(* The account bot of src/examples/account_bot.rs: concurrent handlers of  *)
(* forwarded events that share one ProcessedMessageStore, answer each      *)
(* message with a REST reply, and keep a state file.                       *)
(*                                                                         *)
(* The store is a Mutex: each of its operations, with the rewrite of the   *)
(* state file it ends in, is one step.  Between those steps handlers wait  *)
(* for Webex and may be dropped by the handler timeout; a reply in flight  *)
(* is then finished by its spawned worker, which keeps the event permit.   *)
(* Time is counted in the seconds of unix_timestamp_secs.                  *)
(*                                                                         *)
(* max_events is 0 here (no limit); EventQuota is about the other case.    *)
(***************************************************************************)
EXTENDS Naturals, Sequences, FiniteSets

CONSTANTS
    Msg,            \* message ids
    NoMsg,          \* the message of a permit that nobody holds
    Task,           \* the permits of the event semaphore
    Lease,          \* attempt_lease
    HandlerTimeout, \* handler_timeout: from the start of an attempt to its reply
    WebexTimeout,   \* webex_request_timeout: of the create_message call
    RetryAfter,     \* leases after a retryable API failure
    MaxIds,         \* max_processed_ids
    MaxTime         \* bound on the clock

ASSUME MsgAssumption == NoMsg \notin Msg
ASSUME TimeAssumption ==
    /\ Lease \in Nat \ {0} /\ HandlerTimeout \in Nat /\ WebexTimeout \in Nat
    /\ RetryAfter \subseteq Nat \ {0}
    /\ MaxTime \in Nat
ASSUME MaxIdsAssumption == MaxIds \in Nat \ {0}

VARIABLES
    mem,           \* the ProcessedMessageStore
    disk,          \* what a restart would load from the state file
    persistFailed, \* state_persist_failed
    now,           \* the clock
    pc,            \* pc[t]: where the handler or worker that holds permit t is
    msg,           \* msg[t]: its message
    due,           \* due[t]: when its current call to Webex is timed out
    again,         \* again[t]: the lease its Drop will take
    reply,         \* reply[t]: "none", "sent" or "accepted" by Webex
    replies,       \* replies[m]: accepted replies the bot is accountable for
    unsure         \* unsure[m]: expiry of the lease under which a reply was
                   \* sent whose outcome no state on disk tells, or 0

vars == <<mem, disk, persistFailed, now, pc, msg, due, again, reply, replies, unsure>>
-----------------------------------------------------------------------------
(***************************************************************************)
(* ProcessedMessageStore.  ids is the set of the elements of order.  An    *)
(* attempt's expiry is 0 when there is none.                               *)
(***************************************************************************)
EmptyStore == [order |-> <<>>, attempts |-> [m \in Msg |-> 0], inflight |-> {}, volatile |-> {}]

Ids(s) == {s.order[i] : i \in DOMAIN s.order}

\* Mutant: a full list keeps its oldest ids.
RecentOldest(q) == IF Len(q) > MaxIds THEN SubSeq(q, 1, MaxIds) ELSE q

\* VecDeque order, cut down to max_ids from the front
Recent(q) == IF Len(q) > MaxIds THEN SubSeq(q, Len(q) - MaxIds + 1, Len(q)) ELSE q

Remember(q, m) == IF \E i \in DOMAIN q : q[i] = m THEN q ELSE Recent(Append(q, m))

\* Mutant: a lease is pruned one second early.
PruneEarly(s) ==
    LET expired == {m \in Msg : s.attempts[m] # 0 /\ s.attempts[m] <= now + 1}
    IN  [s EXCEPT !.attempts = [m \in Msg |-> IF m \in expired THEN 0 ELSE @[m]],
                  !.inflight = @ \ expired]

\* prune_expired_attempts also takes an expired message out of inflight.
Prune(s) ==
    LET expired == {m \in Msg : s.attempts[m] # 0 /\ s.attempts[m] <= now}
    IN  [s EXCEPT !.attempts = [m \in Msg |-> IF m \in expired THEN 0 ELSE @[m]],
                  !.inflight = @ \ expired]

Lapse(s, ms) == [s EXCEPT !.attempts = [m \in Msg |-> IF m \in ms THEN 0 ELSE @[m]],
                          !.inflight = @ \ ms]

\* The orders in which absorb_volatile_ids may meet a set of ids: a BTreeSet
\* has one, but it depends on nothing else in the model.
Arrangements(S) == {q \in [1 .. Cardinality(S) -> S] :
                      \A i, j \in DOMAIN q : i # j => q[i] # q[j]}

Absorb(s) == {[Lapse(s, s.volatile) EXCEPT !.order = Recent(@ \o q), !.volatile = {}] :
                 q \in Arrangements(s.volatile \ Ids(s))}

\* complete_at up to its persist
Complete(s, m) ==
    [Lapse(Prune(s), {m}) EXCEPT !.order = Remember(@, m), !.volatile = @ \ {m}]

\* Mutant: a reply that could not be recorded is forgotten.
MarkNothing(s, m) == Lapse(Prune(s), {m})

MarkVolatile(s, m) == [Lapse(Prune(s), {m}) EXCEPT !.volatile = @ \cup {m}]

Expiry(d) == now + d

\* begin_attempt_at up to its persist
Start(s, m) == [Prune(s) EXCEPT !.inflight = @ \cup {m}, !.attempts[m] = Expiry(Lease)]

\* defer_attempt_at up to its persist
Postpone(s, m, d) == [Prune(s) EXCEPT !.inflight = @ \ {m}, !.attempts[m] = Expiry(d)]

\* Mutant: the attempts are not written.
SavedIds(s) == [order |-> s.order]

\* The lines of the state file: the temporary file is renamed into place.
Saved(s) == [order |-> s.order, attempts |-> s.attempts]

\* Mutant: a restart does not take attempts over.
LoadedIds(d) == [EmptyStore EXCEPT !.order = Recent(d.order)]

\* ProcessedMessageStore::load: expired attempts are not taken over.
Loaded(d) ==
    [order    |-> Recent(d.order),
     attempts |-> [m \in Msg |-> IF d.attempts[m] > now THEN d.attempts[m] ELSE 0],
     inflight |-> {}, volatile |-> {}]

\* persist succeeds in writing s.
Persist(s) == \E a \in Absorb(s) : mem' = a /\ disk' = Saved(a)

\* Mutant: the store is not rolled back.
PersistFailsAhead(s, old) == \E a \in Absorb(s) : mem' = a /\ UNCHANGED disk

\* persist fails to write s, before the rename or in the sync after it, and
\* the caller's rollback leaves the store as old.
PersistFails(s, old) ==
    /\ mem' = old
    /\ \/ UNCHANGED disk
       \/ \E a \in Absorb(s) : disk' = Saved(a)
-----------------------------------------------------------------------------
Init ==
    /\ mem = EmptyStore /\ disk = Saved(EmptyStore)
    /\ persistFailed = FALSE
    /\ now = 0
    /\ pc = [t \in Task |-> "free"]
    /\ msg = [t \in Task |-> NoMsg]
    /\ due = [t \in Task |-> 0]
    /\ again = [t \in Task |-> 0]
    /\ reply = [t \in Task |-> "none"]
    /\ replies = [m \in Msg |-> 0]
    /\ unsure = [m \in Msg |-> 0]

\* Task t goes on at label l with message m.
Goto(t, l, m, d, r) ==
    /\ pc' = [pc EXCEPT ![t] = l]
    /\ msg' = [msg EXCEPT ![t] = IF l = "free" THEN NoMsg ELSE m]
    /\ due' = [due EXCEPT ![t] = d]
    /\ reply' = [reply EXCEPT ![t] = r]
    /\ again' = [again EXCEPT ![t] = 0]

\* The handler or worker of t is over; its permit is free.
Leave(t) == Goto(t, "free", NoMsg, 0, "none")

\* Messages that the store knew, or was just told, and has now dropped from
\* a full list.  What it was just told it may drop only for other messages
\* that it knew in memory alone and now adds to the list as well.
Evicted(told) ==
    {m \in (Ids(mem) \cup mem.volatile \cup told) \ (Ids(mem') \cup mem'.volatile) :
       Len(mem'.order) = MaxIds /\ (m \in told => mem.volatile \ told # {})}

\* Accounting: replies are counted from c on, anew for an evicted message.
Count(c, u, told) ==
    /\ replies' = [m \in Msg |-> IF m \in Evicted(told) THEN 0 ELSE c[m]]
    /\ unsure' = u

\* The error has to be noted in state_persist_failed, after the lock is free.
Complain(t) == Goto(t, "report", msg[t], due[t], "none")
-----------------------------------------------------------------------------
(***************************************************************************)
(* handle_event_with_permit: InFlightMessage::begin for a message that     *)
(* arrives, or again for a message whose attempt the handler waits for.    *)
(***************************************************************************)
Asks(t, m) == \/ pc[t] = "free" /\ m \in Msg
              \/ pc[t] = "wait" /\ m = msg[t]

\* BeginAttempt::Processed: duplicate_message_action
BeginProcessed(t, m) ==
    /\ Asks(t, m)
    /\ m \in Ids(mem)
    /\ mem' = Prune(mem)
    /\ Leave(t)
    /\ Count(replies, unsure, {})
    /\ UNCHANGED <<disk, persistFailed, now>>

\* BeginAttempt::ProcessedAfterPersist, or the error of complete_at
BeginVolatile(t, m) ==
    /\ Asks(t, m)
    /\ m \notin Ids(mem) /\ m \in mem.volatile
    /\ \/ /\ Persist(Complete(Prune(mem), m))
          /\ persistFailed' = FALSE
          /\ Leave(t)
       \/ /\ PersistFails(Complete(Prune(mem), m), Prune(mem))
          /\ Goto(t, "report", m, 0, "none")
          /\ UNCHANGED persistFailed
    /\ Count(replies, unsure, {m})
    /\ UNCHANGED now

Unknown(m) == m \notin Ids(mem) /\ m \notin mem.volatile

\* BeginAttempt::InProgress: wait_for_in_flight_attempt polls
BeginInProgress(t, m) ==
    /\ Asks(t, m)
    /\ Unknown(m) /\ m \in Prune(mem).inflight
    /\ mem' = Prune(mem)
    /\ Goto(t, "wait", m, 0, "none")
    /\ UNCHANGED <<disk, persistFailed, now, replies, unsure>>

\* BeginAttempt::AttemptLeased: HTTP 503 with Retry-After
BeginLeased(t, m) ==
    /\ Asks(t, m)
    /\ Unknown(m) /\ m \notin Prune(mem).inflight /\ Prune(mem).attempts[m] # 0
    /\ mem' = Prune(mem)
    /\ Leave(t)
    /\ UNCHANGED <<disk, persistFailed, now, replies, unsure>>

\* BeginAttempt::Started, or the error of persist
BeginStarted(t, m) ==
    /\ Asks(t, m)
    /\ Unknown(m) /\ m \notin Prune(mem).inflight /\ Prune(mem).attempts[m] = 0
    /\ \/ /\ Persist(Start(mem, m))
          /\ persistFailed' = FALSE
          /\ Goto(t, "hold", m, now + HandlerTimeout, "none")
       \/ /\ PersistFails(Start(mem, m), Prune(mem))
          /\ Goto(t, "report", m, 0, "none")
          /\ UNCHANGED persistFailed
    /\ Count(replies, unsure, {})
    /\ UNCHANGED now

\* Mutant: the wait has no deadline.
GiveUpNever(t) == pc[t] = "wait" /\ FALSE

\* in_flight_wait or the handler timeout ends the wait.
GiveUp(t) ==
    /\ pc[t] = "wait"
    /\ Leave(t)
    /\ UNCHANGED <<mem, disk, persistFailed, now, replies, unsure>>
-----------------------------------------------------------------------------
(***************************************************************************)
(* The end of an attempt.  Hydration and create_message end in the same    *)
(* store operations, and neither has made a reply then: reply is not       *)
(* "accepted" when Webex has answered with an error status.                *)
(***************************************************************************)
NoReply(t) == pc[t] = "hold" \/ (pc[t] = "send" /\ reply[t] = "sent")

\* A store operation failed: InFlightMessage is still active and its Drop,
\* which has the lease d, comes next.
FallBack(t, d) ==
    /\ pc' = [pc EXCEPT ![t] = "drop"]
    /\ again' = [again EXCEPT ![t] = d]
    /\ reply' = [reply EXCEPT ![t] = "none"]
    /\ UNCHANGED <<msg, due, persistFailed>>

\* release_or_retry_after: filtered messages, failed hydration, and errors
\* that say that nothing was posted
Release(t) ==
    /\ NoReply(t)
    /\ \/ Persist(Lapse(mem, {msg[t]})) /\ persistFailed' = FALSE /\ Leave(t)
       \/ PersistFails(Lapse(mem, {msg[t]}), mem) /\ FallBack(t, Lease)
    /\ Count(replies, [unsure EXCEPT ![msg[t]] = 0], {})
    /\ UNCHANGED now

\* remember_or_retry_after: the message is gone from Webex (404)
RememberGone(t) ==
    /\ NoReply(t)
    /\ \/ Persist(Complete(mem, msg[t])) /\ persistFailed' = FALSE /\ Leave(t)
       \/ PersistFails(Complete(mem, msg[t]), mem) /\ FallBack(t, Lease)
    /\ Count(replies, [unsure EXCEPT ![msg[t]] = 0],
             IF pc'[t] = "free" THEN {msg[t]} ELSE {})
    /\ UNCHANGED now

\* finish_after_known_api_failure with a retryable status.  defer_attempt_at
\* does not roll back.
Defer(t, d) ==
    /\ NoReply(t)
    /\ \/ Persist(Postpone(mem, msg[t], d)) /\ persistFailed' = FALSE /\ Leave(t)
       \/ PersistFails(Postpone(mem, msg[t], d), Postpone(mem, msg[t], d)) /\ FallBack(t, d)
    /\ Count(replies, [unsure EXCEPT ![msg[t]] = 0], {})
    /\ UNCHANGED now

\* The spawned worker posts the reply.
Post(t) ==
    /\ pc[t] = "hold"
    /\ Goto(t, "send", msg[t], now + WebexTimeout, "sent")
    /\ unsure' = [unsure EXCEPT ![msg[t]] = mem.attempts[msg[t]]]
    /\ UNCHANGED <<mem, disk, persistFailed, now, replies>>

\* Webex accepts the reply; the answer is on its way.
Accept(t) ==
    /\ pc[t] = "send" /\ reply[t] = "sent"
    /\ reply' = [reply EXCEPT ![t] = "accepted"]
    /\ replies' = [replies EXCEPT ![msg[t]] = @ + 1]
    /\ UNCHANGED <<mem, disk, persistFailed, now, pc, msg, due, again, unsure>>

\* remember_after_reply: Webex has accepted the reply, or the answer was lost
\* and it may have, or may still.
RememberReply(t) ==
    /\ pc[t] = "send"
    /\ LET m == msg[t]
           late == IF reply[t] = "sent" THEN {0, 1} ELSE {0}
       IN  \E k \in late :
           \/ /\ Persist(Complete(mem, m)) /\ persistFailed' = FALSE /\ Leave(t)
              /\ Count([replies EXCEPT ![m] = @ + k], [unsure EXCEPT ![m] = 0], {m})
           \/ /\ PersistFails(Complete(mem, m), MarkVolatile(mem, m)) /\ Complain(t)
              /\ Count([replies EXCEPT ![m] = @ + k], unsure, {})
              /\ UNCHANGED persistFailed
    /\ UNCHANGED now

\* Drop for InFlightMessage, with reply_started unset: defer_attempt, and
\* the flag is set under the lock.  In "hold" the handler timeout drops it.
Drop(t) ==
    /\ pc[t] \in {"drop", "hold"}
    /\ LET d == IF pc[t] = "hold" THEN Lease ELSE again[t]
           s == Postpone(mem, msg[t], d)
       IN  \/ Persist(s) /\ persistFailed' = FALSE
           \/ PersistFails(s, s) /\ persistFailed' = TRUE
    /\ IF pc[t] = "hold" THEN Leave(t) ELSE Complain(t)
    /\ Count(replies, unsure, {})
    /\ UNCHANGED now

\* state_persist_failed.store(true) in the error path of the caller
Report(t) ==
    /\ pc[t] = "report"
    /\ persistFailed' = TRUE
    /\ Leave(t)
    /\ UNCHANGED <<mem, disk, now, replies, unsure>>
-----------------------------------------------------------------------------
(***************************************************************************)
(* The process stops and is started again: load, then verify_persistable.  *)
(* A reply it was sending, and a reply remembered in memory only, are lost *)
(* to its accounts, as the documentation says.                             *)
(***************************************************************************)
Lost == mem.volatile \cup {msg[t] : t \in {u \in Task : pc[u] = "send"}}

Restart ==
    /\ mem' = Loaded(disk) /\ disk' = Saved(Loaded(disk))
    /\ persistFailed' = FALSE
    /\ pc' = [t \in Task |-> "free"]
    /\ msg' = [t \in Task |-> NoMsg]
    /\ due' = [t \in Task |-> 0]
    /\ again' = [t \in Task |-> 0]
    /\ reply' = [t \in Task |-> "none"]
    /\ replies' = [m \in Msg |-> IF m \in Lost \cup Evicted({}) THEN 0 ELSE replies[m]]
    /\ UNCHANGED <<now, unsure>>

\* Time passes, but timers fire: nobody is left waiting beyond its timeout,
\* and the Drop that follows a failed operation follows at once.
Active(t) == pc[t] \in {"hold", "send", "drop"}

Tick ==
    /\ now < MaxTime
    /\ \A t \in Task : pc[t] # "drop" /\ (Active(t) => now < due[t])
    /\ now' = now + 1
    /\ UNCHANGED <<mem, disk, persistFailed, pc, msg, due, again, reply, replies, unsure>>

Begin(t) == \E m \in Msg : BeginProcessed(t, m) \/ BeginVolatile(t, m)
                \/ BeginInProgress(t, m) \/ BeginLeased(t, m) \/ BeginStarted(t, m)

Finish(t) == Release(t) \/ RememberGone(t) \/ (\E d \in RetryAfter : Defer(t, d))
                \/ RememberReply(t) \/ Drop(t) \/ Report(t)

Next == \/ \E t \in Task : Begin(t) \/ GiveUp(t) \/ Post(t) \/ Accept(t) \/ Finish(t)
        \/ Restart
        \/ Tick

Spec == Init /\ [][Next]_vars

\* Timeouts bound every wait: a wait is given up, and an attempt finished.
FairSpec == Spec /\ \A t \in Task : WF_vars(GiveUp(t)) /\ WF_vars(Finish(t))
-----------------------------------------------------------------------------
(***************************************************************************)
(* Properties.                                                             *)
(***************************************************************************)
Stores == [order : Seq(Msg), attempts : [Msg -> Nat], inflight : SUBSET Msg,
           volatile : SUBSET Msg]

\* Every variable keeps the shape of the Rust value it stands for.
TypeOK ==
    /\ mem \in Stores
    /\ disk \in [order : Seq(Msg), attempts : [Msg -> Nat]]
    /\ persistFailed \in BOOLEAN
    /\ now \in Nat
    /\ pc \in [Task -> {"free", "wait", "hold", "send", "drop", "report"}]
    /\ msg \in [Task -> Msg \cup {NoMsg}]
    /\ due \in [Task -> Nat]
    /\ again \in [Task -> Nat]
    /\ reply \in [Task -> {"none", "sent", "accepted"}]
    /\ replies \in [Msg -> Nat]
    /\ unsure \in [Msg -> Nat]

\* Two handlers or workers never have an attempt for the same message, as
\* long as the lease outlives the timeouts: the store has no owner tokens,
\* so a second owner's release would end the first one's attempt.
OneAttempt ==
    \A t, u \in Task : Active(t) /\ Active(u) /\ msg[t] = msg[u] => t = u

\* No message is answered twice, whatever writes of the state file fail and
\* whatever answers are lost, as long as the list has not had to drop it for
\* later ones.
AtMostOneReply == \A m \in Msg : replies[m] <= 1

\* A reply whose outcome is not known is not repeated before the lease it
\* was sent under has ended, even if the bot is restarted at once; only a
\* full list may have dropped the message.
NoEarlyRetry ==
    [][\A t \in Task : pc[t] # "hold" /\ pc'[t] = "hold" =>
         unsure[msg'[t]] <= now \/ Len(mem.order) = MaxIds]_vars

\* A message for which the bot answers "processed" is in the state file,
\* unless a full list had to drop it.
MemoryIsDurable == Len(disk.order) < MaxIds => Ids(mem) \subseteq Ids(disk)

\* Every handler and worker ends and gives its permit back.
PermitReturned == \A t \in Task : pc[t] # "free" ~> pc[t] = "free"
=============================================================================
