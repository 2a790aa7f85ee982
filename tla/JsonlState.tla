----------------------------- MODULE JsonlState -----------------------------
(***************************************************************************)
(* The append-only JSONL state store of src/src/state.rs.                  *)
(*                                                                         *)
(* Several JsonlStateStore handles of one process share one file.  Every   *)
(* operation captures the wall clock first (Utc::now() is evaluated by the *)
(* caller of the *_at method), then waits for the process-wide             *)
(* StatePathLock, repairs a torn tail, reloads the snapshot, decides, and  *)
(* appends at most a few records before it drops the lock.  The clock an   *)
(* operation uses may therefore be older than the clock at which it runs.  *)
(*                                                                         *)
(* The file is a sequence of whole records plus the state of its last      *)
(* line.  An append may fail at any of its write and sync calls, and the   *)
(* process may stop at any of them.                                        *)
(***************************************************************************)
EXTENDS Naturals, Sequences, FiniteSets

CONSTANTS
    Handle,      \* JsonlStateStore values of the process
    NoHandle,    \* the lock's value when no handle owns it
    Msg,         \* message ids
    Room,        \* room ids
    Cursor,      \* contents of a room checkpoint, opaque to the store
    Duration,    \* lease durations the callers pass (0 included)
    PowerLoss,   \* may a crash lose what was never synced?
    MaxTime,     \* bound on the wall clock
    MaxAttempts, \* bound on NEXT_ATTEMPT_ID
    MaxLog       \* bound on the length of the file

ASSUME HandleAssumption == NoHandle \notin Handle
ASSUME DurationAssumption == Duration \subseteq Nat
ASSUME PowerLossAssumption == PowerLoss \in BOOLEAN
ASSUME BoundAssumption == MaxTime \in Nat /\ MaxAttempts \in Nat /\ MaxLog \in Nat

VARIABLES
    log,         \* the records of the file, in file order
    tail,        \* "clean", "open" (no final newline), "torn" or "corrupt"
    dir,         \* directory entry: "absent", "unsynced" or "synced"
    synced,      \* how many leading records have been synced
    now,         \* the wall clock
    nextAttempt, \* NEXT_ATTEMPT_ID
    lock,        \* the handle that owns the StatePathLock
    snap,        \* snap[h]: the StateSnapshot kept by h
    pc,          \* pc[h]: "closed", "idle", "waiting" or "writing"
    call,        \* call[h]: the call h is executing (LoadCall between calls)
    at,          \* at[h]: the clock value captured by that call (0 between calls)
    recs,        \* recs[h]: the records that call still has to append
    held,        \* every AttemptLease token given out by this process
    finished,    \* attempts whose holder has tried to end or extend them
    acked        \* messages of which a caller was told that they are processed:
                 \* Ok of mark_processed, or AttemptStart::Processed

file == <<log, tail, dir, synced>>
client == <<held, finished, acked>>
vars == <<log, tail, dir, synced, now, nextAttempt, lock, snap, pc, call, at,
          recs, held, finished, acked>>
-----------------------------------------------------------------------------
(***************************************************************************)
(* StateEvent.  A leased record is also the AttemptLease token that        *)
(* begin_attempt returns: it carries the same three fields.                *)
(***************************************************************************)
ProcessedMessage == [kind : {"processed"}, msg : Msg]
AttemptLeased == [kind : {"leased"}, msg : Msg, attempt : Nat, exp : Nat]
AttemptReleased == [kind : {"released"}, msg : Msg, attempt : Nat]
RoomCheckpoint == [kind : {"checkpoint"}, room : Room, cursor : Cursor]
StateEvent == ProcessedMessage \cup AttemptLeased \cup AttemptReleased
                \cup RoomCheckpoint

(***************************************************************************)
(* The calls of the public interface.                                      *)
(***************************************************************************)
Calls == [kind : {"load"}]
    \cup [kind : {"begin"}, msg : Msg, lease : Duration]
    \cup [kind : {"release", "mark"}, tok : AttemptLeased]
    \cup [kind : {"defer"}, tok : AttemptLeased, lease : Duration]
    \cup [kind : {"save"}, points : Seq(RoomCheckpoint) \ {<<>>}]

LoadCall == [kind |-> "load"]

\* lease_expires_at: a zero lease becomes one second.
LeaseExpiresAt(t, d) == t + (IF d = 0 THEN 1 ELSE d)
-----------------------------------------------------------------------------
(***************************************************************************)
(* StateSnapshot: the state a file stands for at clock t.                  *)
(*                                                                         *)
(* ApplyRecord is apply_record, which the code folds over the lines of the *)
(* file (parse_snapshot_bytes) and also applies to the record it has just  *)
(* decided to append.  Snapshot says in closed form what the fold yields,  *)
(* so that no proof needs an induction; SnapshotIsReplay compares the two. *)
(***************************************************************************)
EmptySnapshot == [processed |-> {}, leases |-> {}, points |-> {}]

\* Mutant: a processed message keeps its lease.
MatchedKeepsLease(s, r, t) ==
    LET others == {x \in s.leases : x.msg # r.msg}
    IN  IF r.kind = "leased" /\ r.msg \notin s.processed /\ r.exp > t
          THEN others \cup {r}
        ELSE IF r.kind = "leased" THEN others
        ELSE {x \in s.leases : r.kind # "released" \/ x.msg # r.msg \/ x.attempt # r.attempt}

\* attempt_leases after the match, before prune_expired_attempts
MatchedLeases(s, r, t) ==
    LET others == {x \in s.leases : x.msg # r.msg}
    IN  IF r.kind = "leased" /\ r.msg \notin s.processed /\ r.exp > t
          THEN others \cup {r}
        ELSE IF r.kind \in {"processed", "leased"} THEN others
        ELSE IF r.kind = "released"
          THEN {x \in s.leases : ~(x.msg = r.msg /\ x.attempt = r.attempt)}
        ELSE s.leases

ApplyRecord(s, r, t) ==
    [processed |-> IF r.kind = "processed" THEN s.processed \cup {r.msg} ELSE s.processed,
     leases    |-> {x \in MatchedLeases(s, r, t) : x.exp > t},
     points    |-> IF r.kind = "checkpoint"
                   THEN {x \in s.points : x.room # r.room} \cup {r} ELSE s.points]

ProcessedIn(l) == {m \in Msg : \E i \in DOMAIN l : l[i] = [kind |-> "processed", msg |-> m]}

\* Does record r, found after lease x, put an end to x?
Ends(r, x) ==
    \/ r.kind = "leased" /\ r.msg = x.msg
    \/ r.kind = "released" /\ r.msg = x.msg /\ r.attempt = x.attempt

\* Is the i-th record of l the lease that stands for its message?
Stands(l, i) ==
    /\ l[i].kind = "leased"
    /\ l[i].msg \notin ProcessedIn(l)
    /\ \A j \in DOMAIN l : j > i => ~Ends(l[j], l[i])

Standing(l) == {l[i] : i \in {j \in DOMAIN l : Stands(l, j)}}

\* Mutant: a lease is taken to have expired one unit early.
LeasesInEarly(l, t) == {x \in Standing(l) : x.exp > t + 1}

LeasesIn(l, t) == {x \in Standing(l) : x.exp > t}

Latest(l, i) ==
    /\ l[i].kind = "checkpoint"
    /\ \A j \in DOMAIN l :
         j > i => ~(l[j].kind = "checkpoint" /\ l[j].room = l[i].room)

PointsIn(l) == {l[i] : i \in {j \in DOMAIN l : Latest(l, j)}}

Snapshot(l, t) ==
    [processed |-> ProcessedIn(l), leases |-> LeasesIn(l, t), points |-> PointsIn(l)]

\* The snapshots of parse_snapshot_bytes after each of the lines of the file
ReadLines(l, t) ==
    LET read[n \in 0 .. Len(l)] ==
            IF n = 0 THEN EmptySnapshot ELSE ApplyRecord(read[n - 1], l[n], t)
    IN  read

\* parse_snapshot_bytes: apply_record for each line in file order, then
\* prune_expired_attempts.
ParseSnapshotBytes(l, t) ==
    [ReadLines(l, t)[Len(l)] EXCEPT !.leases = {x \in @ : x.exp > t}]
-----------------------------------------------------------------------------
Init ==
    /\ log = <<>> /\ tail = "clean" /\ dir = "absent" /\ synced = 0
    /\ now = 0 /\ nextAttempt = 1 /\ lock = NoHandle
    /\ snap = [h \in Handle |-> EmptySnapshot]
    /\ pc = [h \in Handle |-> "closed"]
    /\ call = [h \in Handle |-> LoadCall]
    /\ at = [h \in Handle |-> 0]
    /\ recs = [h \in Handle |-> <<>>]
    /\ held = {} /\ finished = {} /\ acked = {}

(***************************************************************************)
(* The caller's side: capture the clock, then queue for the lock.  Tokens  *)
(* are passed by reference, so a caller may present any token it was ever  *)
(* given, expired, released or superseded ones included.                   *)
(***************************************************************************)
Invoke(h, c) ==
    /\ pc[h] = (IF c.kind = "load" THEN "closed" ELSE "idle")
    /\ pc' = [pc EXCEPT ![h] = "waiting"]
    /\ call' = [call EXCEPT ![h] = c]
    /\ at' = [at EXCEPT ![h] = now]
    /\ finished' = IF c.kind \in {"release", "defer", "mark"}
                   THEN finished \cup {c.tok.attempt} ELSE finished
    /\ UNCHANGED <<log, tail, dir, synced, now, nextAttempt, lock, snap, recs,
                   held, acked>>

CallLoad(h) == Invoke(h, LoadCall)
CallBegin(h) == \E m \in Msg, d \in Duration :
    Invoke(h, [kind |-> "begin", msg |-> m, lease |-> d])
CallRelease(h) == \E t \in held : Invoke(h, [kind |-> "release", tok |-> t])
CallDefer(h) == \E t \in held, d \in Duration :
    Invoke(h, [kind |-> "defer", tok |-> t, lease |-> d])
CallMark(h) == \E t \in held : Invoke(h, [kind |-> "mark", tok |-> t])
\* save_room_checkpoint, and save_room_checkpoints with a batch of two
CallSave(h) == \E p, q \in RoomCheckpoint :
    \E ps \in {<<p>>, <<p, q>>} : Invoke(h, [kind |-> "save", points |-> ps])

(***************************************************************************)
(* Under the lock: repair_incomplete_tail, StateSnapshot::load_at, then    *)
(* the decision.  Nobody else writes while the lock is held, so the part   *)
(* before the first write is one step.                                     *)
(***************************************************************************)
\* Mutant: a torn last line is left in the file.
RepairNothing == tail # "corrupt" /\ UNCHANGED <<log, tail, dir, synced>>

\* repair_incomplete_tail: cut off a torn last line, and sync the file.
Repair ==
    /\ tail # "corrupt"
    /\ tail' = IF tail = "torn" THEN "clean" ELSE tail
    /\ synced' = IF tail = "torn" THEN Len(log) ELSE synced
    /\ UNCHANGED <<log, dir>>

\* Mutant: the operation decides on the snapshot the handle already had.
RefreshStale(h) ==
    /\ pc[h] = "waiting" /\ lock = NoHandle /\ Repair
    /\ UNCHANGED <<snap, now>>

\* refresh_at_unlocked, with the lock free.
Refresh(h) ==
    /\ pc[h] = "waiting"
    /\ lock = NoHandle
    /\ Repair
    /\ snap' = [snap EXCEPT ![h] = Snapshot(log, at[h])]
    /\ UNCHANGED now

\* The call is over.
Done(h, to) ==
    /\ pc' = [pc EXCEPT ![h] = to]
    /\ call' = [call EXCEPT ![h] = LoadCall]
    /\ at' = [at EXCEPT ![h] = 0]
    /\ recs' = [recs EXCEPT ![h] = <<>>]
    /\ lock' = NoHandle

\* The call returns without having written anything.
Return(h) == Done(h, "idle") /\ UNCHANGED nextAttempt

\* The call keeps the lock and goes on to append rs.
Append1(h, rs) ==
    /\ pc' = [pc EXCEPT ![h] = "writing"]
    /\ lock' = h
    /\ recs' = [recs EXCEPT ![h] = rs]
    /\ UNCHANGED <<call, at>>

\* An error before anything was decided: the file cannot be read, or a torn
\* tail was cut off but the sync, or the reload, failed.
RefreshFails(h) ==
    /\ pc[h] = "waiting" /\ lock = NoHandle
    /\ Done(h, IF call[h].kind = "load" THEN "closed" ELSE "idle")
    /\ \/ UNCHANGED <<tail, synced>>
       \/ tail = "torn" /\ tail' = "clean" /\ synced' \in {synced, Len(log)}
    /\ UNCHANGED <<log, dir, now, nextAttempt, snap, client>>

Load(h) ==
    /\ call[h].kind = "load"
    /\ Refresh(h) /\ Return(h)
    /\ UNCHANGED client

LeasesOf(s, m) == {x \in s.leases : x.msg = m}

\* AttemptStart::Processed and AttemptStart::Leased
BeginRefused(h) ==
    /\ call[h].kind = "begin"
    /\ Refresh(h)
    /\ \/ call[h].msg \in snap'[h].processed
       \/ LeasesOf(snap'[h], call[h].msg) # {}
    /\ Return(h)
    /\ acked' = acked \cup ({call[h].msg} \cap snap'[h].processed)
    /\ UNCHANGED <<held, finished>>

\* Mutant: begin_attempt does not look at the processed messages.
BeginProcessed(h) ==
    /\ call[h].kind = "begin" /\ Refresh(h) /\ LeasesOf(snap'[h], call[h].msg) = {}
    /\ nextAttempt <= MaxAttempts /\ nextAttempt' = nextAttempt + 1
    /\ Append1(h, <<[kind |-> "leased", msg |-> call[h].msg, attempt |-> nextAttempt,
                     exp |-> LeaseExpiresAt(at[h], call[h].lease)]>>)
    /\ UNCHANGED client

BeginAttempt(h) ==
    /\ call[h].kind = "begin"
    /\ Refresh(h)
    /\ call[h].msg \notin snap'[h].processed
    /\ LeasesOf(snap'[h], call[h].msg) = {}
    /\ nextAttempt <= MaxAttempts
    /\ nextAttempt' = nextAttempt + 1
    /\ Append1(h, <<[kind |-> "leased", msg |-> call[h].msg, attempt |-> nextAttempt,
                     exp |-> LeaseExpiresAt(at[h], call[h].lease)]>>)
    /\ UNCHANGED client

\* Mutant: any lease of the message will do.
OwnerByMessage(s, t) == LeasesOf(s, t.msg) # {}

\* ensure_attempt_owner, on the snapshot s that was just loaded
Owner(s, t) == \E x \in s.leases : x.msg = t.msg /\ x.attempt = t.attempt

NotOwner(h) ==
    /\ call[h].kind \in {"release", "defer", "mark"}
    /\ Refresh(h)
    /\ ~Owner(snap'[h], call[h].tok)
    /\ call[h].kind = "mark" => call[h].tok.msg \notin snap'[h].processed
    /\ Return(h)
    /\ UNCHANGED client

\* Mutant: the released record does not say which attempt.
ReleaseAnonymous(h) ==
    /\ call[h].kind = "release" /\ Refresh(h) /\ Owner(snap'[h], call[h].tok)
    /\ Append1(h, <<[kind |-> "released", msg |-> call[h].tok.msg]>>)
    /\ UNCHANGED <<nextAttempt, client>>

ReleaseAttempt(h) ==
    /\ call[h].kind = "release"
    /\ Refresh(h)
    /\ Owner(snap'[h], call[h].tok)
    /\ Append1(h, <<[kind |-> "released", msg |-> call[h].tok.msg,
                     attempt |-> call[h].tok.attempt]>>)
    /\ UNCHANGED <<nextAttempt, client>>

DeferAttempt(h) ==
    /\ call[h].kind = "defer"
    /\ Refresh(h)
    /\ Owner(snap'[h], call[h].tok)
    /\ Append1(h, <<[kind |-> "leased", msg |-> call[h].tok.msg,
                     attempt |-> call[h].tok.attempt,
                     exp |-> LeaseExpiresAt(at[h], call[h].lease)]>>)
    /\ UNCHANGED <<nextAttempt, client>>

\* mark_processed finds the message processed already and returns Ok.
MarkAgain(h) ==
    /\ call[h].kind = "mark"
    /\ Refresh(h)
    /\ call[h].tok.msg \in snap'[h].processed
    /\ Return(h)
    /\ acked' = acked \cup {call[h].tok.msg}
    /\ UNCHANGED <<held, finished>>

MarkProcessed(h) ==
    /\ call[h].kind = "mark"
    /\ Refresh(h)
    /\ call[h].tok.msg \notin snap'[h].processed
    /\ Owner(snap'[h], call[h].tok)
    /\ Append1(h, <<[kind |-> "processed", msg |-> call[h].tok.msg]>>)
    /\ UNCHANGED <<nextAttempt, client>>

SaveRoomCheckpoints(h) ==
    /\ call[h].kind = "save"
    /\ Refresh(h)
    /\ Append1(h, call[h].points)
    /\ UNCHANGED <<nextAttempt, client>>
-----------------------------------------------------------------------------
(***************************************************************************)
(* append_state_record: open or create, terminate an open line, write the  *)
(* record, write its newline, sync the file, and sync the parent directory *)
(* if this append created the file.  Each call may fail; what is already   *)
(* in the file stays there, and the caller gets Err.                       *)
(***************************************************************************)
\* The file once one more record is in it.  A record that follows a torn
\* line shares that line with it and makes it unreadable.
AppendTo(t) == IF t = "torn" THEN "corrupt" ELSE "clean"

Grow(h, t) ==
    /\ Len(log) < MaxLog
    /\ log' = Append(log, Head(recs[h]))
    /\ tail' = t

\* The directory entry of a file that an append opens but does not sync.
Touched == IF dir = "absent" THEN "unsynced" ELSE dir

\* Mutant: the error is swallowed and the caller told Ok.
FailUnnoticed(h) ==
    /\ pc[h] = "writing" /\ Done(h, "idle")
    /\ acked' = IF call[h].kind = "mark" THEN acked \cup {call[h].tok.msg} ELSE acked
    /\ UNCHANGED <<now, nextAttempt, snap, held, finished>>

\* Mutant: the snapshot was changed before the append and is not restored.
FailAhead(h) ==
    /\ pc[h] = "writing" /\ Done(h, "idle")
    /\ snap' = [snap EXCEPT ![h] = ApplyRecord(@, Head(recs[h]), at[h])]
    /\ UNCHANGED <<now, nextAttempt, client>>

\* Mutant: the lock guard is leaked on the error path.
FailLocked(h) ==
    /\ pc[h] = "writing"
    /\ pc' = [pc EXCEPT ![h] = "idle"]
    /\ UNCHANGED <<now, nextAttempt, lock, snap, call, at, recs, client>>

\* The operation returns Err; the handle keeps the snapshot it loaded.
Fail(h) ==
    /\ pc[h] = "writing"
    /\ Done(h, "idle")
    /\ UNCHANGED <<now, nextAttempt, snap, client>>

\* Nothing, or only the newline that ends an open line, was written.
AppendNothing(h) == Fail(h) /\ \/ UNCHANGED file
                               \/ /\ tail' = AppendTo(tail) /\ dir' = Touched
                                  /\ UNCHANGED <<log, synced>>
\* Part of the record was written.
AppendTorn(h) == Fail(h) /\ tail' = "torn" /\ dir' = Touched
                         /\ UNCHANGED <<log, synced>>
\* The record was written, its newline was not.
AppendOpen(h) == Fail(h) /\ Grow(h, IF tail = "torn" THEN "corrupt" ELSE "open")
                         /\ dir' = Touched /\ UNCHANGED synced
\* The line was written but sync_all failed.
AppendUnsynced(h) == Fail(h) /\ Grow(h, AppendTo(tail))
                             /\ dir' = Touched /\ UNCHANGED synced
\* The new file was synced, its parent directory was not.
AppendDirUnsynced(h) ==
    /\ dir = "absent"
    /\ Fail(h) /\ Grow(h, AppendTo(tail)) /\ dir' = "unsynced" /\ synced' = Len(log) + 1

\* append_after_current_snapshot_unlocked succeeds for the next record.
Appended(h) ==
    /\ pc[h] = "writing"
    /\ Grow(h, AppendTo(tail))
    /\ dir' = IF dir = "absent" THEN "synced" ELSE dir
    /\ synced' = Len(log) + 1
    /\ snap' = [snap EXCEPT ![h] = ApplyRecord(@, Head(recs[h]), at[h])]
    /\ UNCHANGED <<now, nextAttempt, finished>>

\* save_room_checkpoints goes on to its next record under the same lock.
AppendMore(h) ==
    /\ Len(recs[h]) > 1
    /\ Appended(h)
    /\ recs' = [recs EXCEPT ![h] = Tail(@)]
    /\ UNCHANGED <<pc, lock, call, at, held, acked>>

\* The last record is in: the call returns Ok.
AppendLast(h) ==
    /\ Len(recs[h]) = 1
    /\ Appended(h)
    /\ Done(h, "idle")
    /\ held' = IF call[h].kind = "begin" THEN held \cup {Head(recs[h])} ELSE held
    /\ acked' = IF call[h].kind = "mark" THEN acked \cup {call[h].tok.msg} ELSE acked
-----------------------------------------------------------------------------
(***************************************************************************)
(* The process stops, in the middle of an append if one is running.  What  *)
(* was written stays in the file, unless the machine lost power: then what *)
(* was not synced may be missing, and so may a file whose directory entry  *)
(* was never synced.                                                       *)
(***************************************************************************)
InterruptedAppend ==
    \/ UNCHANGED <<log, tail, dir>>
    \/ \E h \in Handle :
         /\ pc[h] = "writing"
         /\ dir' = Touched
         /\ \/ tail' = AppendTo(tail) /\ UNCHANGED log
            \/ tail' = "torn" /\ UNCHANGED log
            \/ Grow(h, IF tail = "torn" THEN "corrupt" ELSE "open")
            \/ Grow(h, AppendTo(tail))

LostWrites ==
    /\ PowerLoss
    /\ \/ \E n \in synced .. Len(log) : log' = SubSeq(log, 1, n)
          /\ tail' \in {"clean", "torn"} /\ UNCHANGED dir
       \/ dir = "unsynced" /\ dir' = "absent" /\ log' = <<>> /\ tail' = "clean"

Crash ==
    /\ InterruptedAppend \/ LostWrites
    /\ synced' = IF synced <= Len(log') THEN synced ELSE Len(log')
    /\ lock' = NoHandle
    /\ snap' = [h \in Handle |-> EmptySnapshot]
    /\ pc' = [h \in Handle |-> "closed"]
    /\ call' = [h \in Handle |-> LoadCall]
    /\ at' = [h \in Handle |-> 0]
    /\ recs' = [h \in Handle |-> <<>>]
    /\ held' = {} /\ finished' = {}
    /\ UNCHANGED <<now, nextAttempt, acked>>

Tick ==
    /\ now < MaxTime
    /\ now' = now + 1
    /\ UNCHANGED <<file, nextAttempt, lock, snap, pc, call, at, recs, client>>

Calling(h) == CallLoad(h) \/ CallBegin(h) \/ CallRelease(h) \/ CallDefer(h)
                \/ CallMark(h) \/ CallSave(h)

Deciding(h) == RefreshFails(h) \/ Load(h) \/ BeginRefused(h) \/ BeginAttempt(h)
                 \/ NotOwner(h) \/ ReleaseAttempt(h) \/ DeferAttempt(h)
                 \/ MarkAgain(h) \/ MarkProcessed(h) \/ SaveRoomCheckpoints(h)

Failing(h) == AppendNothing(h) \/ AppendTorn(h) \/ AppendOpen(h)
                \/ AppendUnsynced(h) \/ AppendDirUnsynced(h)

Writing(h) == Failing(h) \/ AppendMore(h) \/ AppendLast(h)

Next == \/ \E h \in Handle : Calling(h) \/ Deciding(h) \/ Writing(h)
        \/ Crash
        \/ Tick

Spec == Init /\ [][Next]_vars

\* An append that holds the lock is running code: it ends, or the process does.
FairSpec == Spec /\ \A h \in Handle : WF_vars(Writing(h))
-----------------------------------------------------------------------------
(***************************************************************************)
(* Properties.                                                             *)
(***************************************************************************)
Snapshots == [processed : SUBSET Msg, leases : SUBSET AttemptLeased,
              points : SUBSET RoomCheckpoint]

\* The shape of the variables, whoever else may own the StatePathLock
ShapeOK ==
    /\ log \in Seq(StateEvent)
    /\ tail \in {"clean", "open", "torn", "corrupt"}
    /\ dir \in {"absent", "unsynced", "synced"}
    /\ synced \in Nat
    /\ now \in Nat
    /\ nextAttempt \in Nat
    /\ snap \in [Handle -> Snapshots]
    /\ pc \in [Handle -> {"closed", "idle", "waiting", "writing"}]
    /\ call \in [Handle -> Calls]
    /\ at \in [Handle -> Nat]
    /\ recs \in [Handle -> Seq(StateEvent)]
    /\ held \in SUBSET AttemptLeased
    /\ finished \in SUBSET Nat
    /\ acked \in SUBSET Msg

\* Every variable keeps the shape of the Rust value it stands for.
TypeOK == ShapeOK /\ lock \in Handle \cup {NoHandle}

\* The file never holds a line that parse_snapshot_bytes rejects, whatever
\* append was interrupted and whoever appends next: every later load works.
NeverCorrupt == tail # "corrupt"

\* The holder of token t has not called release, defer or mark_processed,
\* and the expiry it was given has not passed.
Live(t) == t.exp > now /\ t.attempt \notin finished

\* begin_attempt never gives out a second token for a message while the
\* first is live, although each call decides with a clock read before it
\* had the lock.
MutualExclusion ==
    \A s, t \in held : Live(s) /\ Live(t) /\ s.msg = t.msg => s = t

\* ensure_attempt_owner accepts a live token: its holder is never refused.
LiveTokenInForce == \A t \in held : Live(t) => t \in LeasesIn(log, now)

\* Has a later attempt been started for the message of token t?
Superseded(t) ==
    \E i \in DOMAIN log : /\ log[i].kind = "leased"
                          /\ log[i].msg = t.msg
                          /\ log[i].attempt > t.attempt

\* ensure_attempt_owner fences off old owners: no release, defer or
\* mark_processed writes with a token that a later attempt has superseded,
\* even when its clock was read before that attempt began.
StaleOwnerNeverWrites ==
    \A h \in Handle :
        pc[h] = "writing" /\ call[h].kind \in {"release", "defer", "mark"}
            => ~Superseded(call[h].tok)

\* Once the file says that a message is processed, no operation of any
\* handle leases, releases or processes it again.
ProcessedIsFinal ==
    \A i, j \in DOMAIN log :
        i < j /\ log[i].kind = "processed" /\ log[j].kind # "checkpoint"
            => log[j].msg # log[i].msg

\* A message for which mark_processed has returned Ok, or begin_attempt
\* AttemptStart::Processed, is processed in the file, and stays so through
\* failed appends, crashes and repairs.
AckedIsDurable == acked \subseteq ProcessedIn(log)

\* The snapshot a handle keeps is updated after the append, never before:
\* a stale handle may miss a processed message, it never invents one.
SnapshotNeverAhead == \A h \in Handle : snap[h].processed \subseteq ProcessedIn(log)

\* The closed form of the snapshot, which decides every operation, is what
\* folding apply_record over the file yields, at any clock.
SnapshotIsReplay ==
    \A t \in 0 .. MaxTime + 1 : Snapshot(log, t) = ParseSnapshotBytes(log, t)

\* Applying the appended record to the loaded snapshot gives what a reload
\* of the file at the same clock would give.
IncrementalIsReplay ==
    [][\A h \in Handle : Appended(h) => snap'[h] = Snapshot(log', at[h])]_vars

AttemptsIn(l) == {l[i].attempt : i \in {j \in DOMAIN l : l[j].kind = "leased"}}

Registry == INSTANCE AttemptRegistry
              WITH processed <- ProcessedIn(log), leases <- Standing(log),
                   used <- AttemptsIn(log)

\* Read through the replay of its file, the store is an AttemptRegistry: a
\* step that changes the file, a failed or interrupted append included,
\* starts, extends, releases or processes exactly one attempt, and starts
\* one only when the previous lease has ended by the real clock.
ImplementsRegistry == Registry!RegSpec

\* The StatePathLock is always released again.
LockReleased == \A h \in Handle : lock = h ~> lock # h
=============================================================================
