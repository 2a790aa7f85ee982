# Verification of Webex-headless-messenger

TLA+ models of the stateful parts of the repository, TLC runs that check them on
small instances, and TLAPS proofs about all of them. Source paths are relative to the
directory above this one: `src/` is the repository.

## 1. Inventory

| Component | State | Operations | Talks to |
|---|---|---|---|
| JSONL state store, `src/src/state.rs` | file of records; per handle a `StateSnapshot` (processed ids, attempt leases, room checkpoints); the process-wide set of locked paths | `load`, `begin_attempt`, `release_attempt`, `defer_attempt`, `mark_processed`, `save_room_checkpoint(s)` | bots call it; it supplies the checkpoints of the multi-room poller |
| SQLite state cache, `state.rs`, feature `sqlite` | tables that index a snapshot; the cache file and the directories above it | `open` with its checks, three kinds of rebuild in one transaction, lookups | reads the JSONL file, takes its path lock |
| Account bot, attempts and replies, `src/examples/account_bot.rs` | `ProcessedMessageStore` (processed ids, leases, in-flight and volatile ids), its state file, event permits, `state_persist_failed` | `begin`, `release`, `remember`, `remember_after_reply`, `defer`, `Drop` of `InFlightMessage`; reply worker | sidecar events in, Webex REST out, state file |
| Account bot, accept loop and quota | `event_slots`, `completed_event_slots`, `accepted_events`, join set, notifications | accept, admit, reserve, commit, drop of `EventSlot`, join, stop | the handlers above |
| Room poller, `src/src/realtime.rs` | seen ids, pending messages and ids, cursor | `poll_once_transaction_before`, `apply_update` | Webex `list_messages` pages |
| Multi-room poller | active and inactive room pollers, checkpoints, the channel of `spawn` | `refresh_rooms`, `poll_once`, `with_room_checkpoints`, `spawn_batches` | room pollers, room discovery, a consumer that handles and saves |
| Account bot, decisions and answers | none | which messages are answered, which status a failure becomes | the sidecar's retries depend on the status |
| HTTP servers of the bot, of `sidecar receive` and of the example receiver | connections and their permits, the channel to the printing loop, accepted events | read a request in pieces, check, answer, hand over, print, stop after `max_events` | the sidecar |
| JavaScript sidecar, `src/examples/sidecar-js/index.mjs` | forward slots and their waiters, outstanding budget, current listener and token | forward with retries, token reload, listener replacement, shutdown | Webex SDK in, receiver HTTP out, token file |
| OAuth tokens, `src/src/auth.rs` | stored token set, refresh lock | refresh, device-code polling | token endpoint, token store |
| Command line, authentication, `src/src/bin/webex-headless.rs` | token, access-token and client-secret files | `auth device`, `auth refresh`, the check of the three paths | token endpoint; the bot and the sidecar read the files |
| Command line, other commands | none | one request each | Webex |
| REST client and pagination | none | requests | Webex |
| Types, errors, links, webhooks, sidecar events; example programs; deployment | none | conversions | - |

What is hard in each, and what makes it correct:

* **State store.** Every operation reads the clock *before* it waits for the path
  lock. Appends consist of several writes and syncs, each of which can fail or be
  cut short by a crash, and the record may be in the file although the caller saw
  an error. Correct means: one owner per message, stale owners fenced off, a file
  that can always be loaded, processed for good, the memory never ahead of the file.
* **Account bot.** Handlers are dropped by a timeout while the reply they started
  goes on in a worker; leases have no owner token; the state file can fail before
  or after its rename. Correct means: one attempt and at most one reply per message,
  nothing answered early after a restart, all permits returned.
* **Event quota.** Three counters change in different tasks without a lock, and the
  last event may be completed by a worker nobody waits for. Correct means: exactly
  `max_events` events, no running reply cut off, and the loop does end.
* **Pollers.** Messages are read newest first, over several polls with failing pages,
  and must come out oldest first; a boundary that moves too early loses messages, one
  that is lost replays history. Correct means: no checkpoint past an unhandled message,
  order within a room, delivery in the end although rooms hold each other back.
* **State cache.** It is rebuilt beside a store that goes on writing, from the file or from
  a snapshot taken earlier, and it is opened below directories other users may write to.
  Correct means: it always answers as some prefix of the file would, never a mixture, and
  only from a file nobody else can replace.
* **Sidecar and receivers.** A freed slot races with newcomers; a request the sidecar has
  given up on lives on in the receiver; the receiver answers 200 before it hands the event
  on; the sidecar exits on a status it does not retry. Correct means: bounded outstanding
  events, no lost wake-up, every forward ends, no false rejection, what is acknowledged is
  printed, and the bot answers only others in its rooms.
* **Tokens.** The server rotates the refresh token before the client has saved it; tasks of
  a client and commands refresh the same login; three files may be one through links; the
  sidecar replaces its listener while the token changes, starts fail and shutdown runs.
  Correct means: the login is kept, files do not overwrite each other, tasks refresh once,
  exactly one listener is on and ends up with the token of the file.

`PROJECT.json` lists the components again with their status, and the hazards, each at
its line, with the properties that cover it.

## 2. Modules and their correspondence to the code

| Module | Models | Kind |
|---|---|---|
| `AttemptRegistry` | what the store promises: leases and results without file, lock or failure | abstract specification |
| `JsonlState` | the JSONL store | specification, refines `AttemptRegistry` |
| `JsonlStateProofs`, `SqliteCacheProofs`, `AccountBotProofs`, `EventQuotaProofs`, `SidecarProofs`, `TokenReloadProofs`, `NewestFirstProofs`, `MultiRoomPollerProofs` | | proofs about the module of the same name; `SqliteCacheProofs` builds on `JsonlStateProofs`, `MultiRoomPollerProofs` on `NewestFirstProofs` and covers `RoomPoller` too, `TokenReloadProofs` covers `Tokens` too |
| `MCJsonlState` | | symmetry and a bound for TLC |
| `SqliteCache`, `MCSqliteCache` | the SQLite cache beside the store | specification, extends `JsonlState`; cache paths for TLC |
| `AccountBot`, `MCAccountBot` | message store, handlers, reply workers, restarts | specification; symmetry for TLC |
| `BotDecisions` | what the bot does with a message, and the answer to a failure | operators |
| `EventQuota` | accept loop and counters | specification, uses `BotDecisions` |
| `HttpRequests` | reading, checking and answering a request in the three servers, and their start | operators |
| `Sidecar`, `MCSidecar` | the sidecar's forward queue and the receivers; composes `HttpRequests` and `BotDecisions` | specification; configurations for TLC |
| `AuthPaths` | path resolution and the check of the authentication files | operators |
| `Tokens` | refreshing clients, `auth device`, `auth refresh`, their files | specification over `AuthPaths` |
| `TokenReload`, `MCTokenReload` | the sidecar's listener over `Tokens` | specification; a file system and configurations for TLC |
| `NewestFirst` | sorted and filtered sequences of messages, described by their result | operators |
| `RoomPoller` | `MessagePoller`: a poll as a function of the poller and the listing | operators |
| `MultiRoomPoller` | `MultiRoomMessagePoller`, its channel, Webex and the consumer; composes room pollers | specification |

**JsonlState.** `log`, `tail`, `dir`, `synced` are the file: its whole records, the
state of its last line, its directory entry and how much of it has been synced.
`Call*` is the caller's side (the clock is captured here, in `at`); `Refresh` is what
every operation does once it has the lock; `Load`, `BeginRefused`, `BeginAttempt`,
`NotOwner`, `ReleaseAttempt`, `DeferAttempt`, `MarkAgain`, `MarkProcessed` and
`SaveRoomCheckpoints` are the decisions. `AppendNothing`, `AppendTorn`, `AppendOpen`,
`AppendUnsynced`, `AppendDirUnsynced` are the failures of the successive calls in
`append_state_record`; `AppendMore` and `AppendLast` its success. `Crash` stops the
process, in the middle of an append if one is running, and with `PowerLoss` also drops
unsynced data. The snapshot is given in closed form (`Snapshot`), because the fold of
the code (`ParseSnapshotBytes`) would need induction in every proof; `SnapshotIsReplay`
says that the two agree.
`held`, `finished` and `acked` record what callers have been told.

**AccountBot.** A `Task` is a permit of the event semaphore. Each operation on the
store is one step, since it runs under the store's mutex with its rewrite of the file
(`Persist` and the ways it fails, `PersistFails`). The `Begin*` actions are the answers
of `InFlightMessage::begin`; `Release`, `RememberGone`, `Defer`, `Post`, `Accept`,
`RememberReply`, `Drop` and `Report` the rest of an event's life; `GiveUp` ends the
wait for an attempt in progress; `Restart` loads the file. `replies` counts the answers
the bot is accountable for: the documentation gives up on answers that a restart or the
bounded list of ids made it forget, and so does the model.

**SqliteCache** extends the store's specification with `Cache`, another taker of the path
lock. `OpenCache` and `OpenFails` are `open` for any entry of `Disk` (the directories above
the cache and the file, each with owner, kind and permissions); `Accepted` collects the
checks. `CallRebuild`, `LoadLocked` and `RebuildFromSnapshot` are `rebuild_from_jsonl`,
`rebuild_from_store` and a rebuild from a snapshot that may be old; `Commit`, `Rollback` and
`CacheCrash` end the transaction.

**EventQuota.** `pc[c]` follows one connection: "reading", "open" (admitted), "slot"
(reserved), "worker" (a reply worker owns the slot), "orphan" (its handler timed out),
"replied" (committed, but its handler does not know yet), "answering" (its answer is
decided, and `counted` says whether it counts). `loop` is where `run_http_loop` is. `Check`,
`CheckAccepted`, `LoadSlots` and `Compare` are the loads of `max_events_reached`, one step
each, since other tasks change the counters in between; `Accept`, `AcceptFails` (which ends
the loop with an error), `JoinNext`, `MaxEventsNotified`, `ShutdownNotified` and `Exit` the
loop's other steps. What
an event may end in (`Decisions`, `Outcomes`) comes from `BotDecisions`.

**Sidecar.** `pc[e]` is where `forward()` of event `e` is; a callback up to its next await
is one step. A connection is an event and an attempt, so that a request that timed out in
the sidecar and its retry are both alive in the receiver. `Hear`, `HearTooMuch`, `Wake`,
`ForwardDone`, `ForwardRefused`, `ForwardBroken`, `Retry`, `Signal` and `ExitSidecar` are
the sidecar; `AcceptSidecarConnection`, `HandleSidecarConnection`, `WriteResponse`,
`WriteFails`, `HandOver` and `PrintEvent` are `sidecar receive`; `AcceptFails` ends the
example and the bot at once, and `sidecar receive` (`RecvNone`) when its handlers are through
and their events printed; `ExampleAccept`, `ExampleServe`, `ExampleAnswer` are the example
receiver; `BotServe` the bot, which turns a request away when it is busy before it looks at
its token, and whose Webex requests may fail in every way of `ApiResult`. `HttpRequests!Reached` computes, for a
request, every number of bytes at which `read_request` may take a decision.

**Tokens and TokenReload.** Tokens are numbers in the order of issue, `valid` is what Webex
accepts. A process is a task of one client (sharing `refresh_lock`), `auth refresh` or
`auth device`; each step between two awaits is an action (`Load`, `Lock`, `Granted`,
`SaveTokens`, ...), and saves fail or processes are killed at each (`KillClient`,
`KillCommand`). Sending a request and its answer are different steps: `Answered` collects the
answers of Webex, `Step` what a process does by itself, and a process that waits for an
answer is `Waiting`. `auth device` looks at its deadline before it polls (`Poll`,
`DeviceExpired`), not while it sleeps or waits. Paths are sequences of components in a small file system with links,
missing directories and names that differ in case; `Entry` and `Target` say what the
operating system makes of a path (`Walk` takes it one component at a time), `Distinct` what the
program's check makes of it (`ResolveWalk` is its loop).
`TokenReload` adds `MainStarts`, `Reload`, `ReloadStarted`, `ReloadDone`, their failures and
`Shutdown` of the sidecar's listener.

**RoomPoller / MultiRoomPoller.** A message is the number of its creation. `Answered`
is a poll whose requests all succeed, `Interrupted` the set of results of one that fails
at some page; both return an update that `ApplyUpdate` commits later. `RefreshRooms` is a
refresh by itself, `StartRefreshed` and `Start` begin `poll_once`, `PollRoom` and
`PollRoomFails` complete its concurrent room polls in any order, `Finish` applies the batch
and sends it, `Cancel` drops the future. The channel of `spawn_batches` lets the poller run
ahead of its consumer. `HandleEvents` and `SaveCheckpoints` are the consumer that
`src/README.md` prescribes, `Rebuild` its recovery, `Reseed` is `with_room_checkpoints` on a
poller that has been used, with everything that was saved. All pages of one poll of a room are
one step, although the code awaits between them: a message posted meanwhile is beyond the
cutoff, and one deleted meanwhile is one deleted before the poll or after it. Webex is external: `Post`, `Delete`, `Leave`, `Join` and
`Listing`; the next page of a listing is assumed to be the messages older than the last
item of the page before.

Definitions whose comment starts with "Mutant:" are deliberate mistakes, used to
confirm that each property can be violated. They are not part of a specification.

## 3. Runs

Run with `tlc -config <cfg> <module>`.

| Run | Properties | Result |
|---|---|---|
| `jsonl_leases` (MCJsonlState) | `TypeOK`, `NeverCorrupt`, `MutualExclusion`, `SnapshotIsReplay`, `StaleOwnerNeverWrites`, `ProcessedIsFinal`, `AckedIsDurable`, `SnapshotNeverAhead`, `ImplementsRegistry` | hold |
| `jsonl_power_loss` (MCJsonlState) | `AckedIsDurable` | **violated** |
| `state_cache` (MCSqliteCache) | `CacheIsPrefix`, `CacheGuarded`, `LocksReleased` | hold |
| `bot_replies` (MCAccountBot) | `TypeOK`, `OneAttempt`, `AtMostOneReply`, `MemoryIsDurable`, `NoEarlyRetry` | hold |
| `bot_permits` (MCAccountBot) | `AtMostOneReply`, `PermitReturned` | hold |
| `bot_default_timeouts` (MCAccountBot) | `AtMostOneReply` | **violated** |
| `event_quota` (EventQuota) | `QuotaExact`, `NoReplyCutOff`, `StopsAfterQuota` | hold |
| `room_catchup` (MultiRoomPoller) | `CheckpointLosesNothing`, `BoundaryLosesNothing`, `RoomOrder`, `NoHistory` | hold |
| `room_delivery` (MultiRoomPoller) | `EventuallyHandled` | holds |
| `room_global_order` (MultiRoomPoller) | `GlobalOrder` | **violated** |
| `sidecar_pipeline` (MCSidecar) | `SlotsExact`, `NoLostWakeup`, `NoFalseRejection`, `NoForeignReply`, `SplittingIrrelevant`, `AckedIsPrinted`, `ForwardEnds` | hold |
| `token_reload` (MCTokenReload) | `FilesKept`, `LoginKept`, `RefreshedOnce`, `OneListener`, `ListensWithFile`, `CommandsEnd` | hold |

Each property is stated in words above its definition.

### Bounds, and why they are enough

* `jsonl_leases`: two handles, one message, two attempts, three records, clock up to 2.
  A stale owner needs exactly that: a lease, its expiry, a second lease, and a late call
  with the first token and a clock read before the second. Messages do not interact (the
  proofs cover any number). The file is replayed at every clock from 0 to one past
  `MaxTime`. The constraint `RoomsApart` follows batches of checkpoints only until the clock
  moves or an attempt begins; `state_cache` has checkpoints and attempts together.
* `state_cache`: one handle and the cache on one file of up to three records with a message,
  a room and a cursor; power loss; eight places for the cache, of which two are acceptable
  and each other breaks one check.
* `bot_replies`: two permits, two messages, a list of two ids, a clock of six with a lease
  of three: two leases end within it, and both messages fit in the list, so that nothing
  excuses a second reply.
* `bot_permits`: two messages for a list of one id, so that the older is dropped, with
  volatile ids absorbed into the full list: a message is excused from `AtMostOneReply` when
  it is dropped from the full list, and the message just remembered only if others were
  absorbed after it. All waits fit in the clock of three.
* `event_quota`: three connections for two slots, at most two join results waiting.
* `room_catchup`: two rooms, three messages, pages of one and two pages per poll, so that a
  room with three messages takes several polls; two ids remembered and one message deleted;
  one fault of any kind (a failed or cancelled poll, a departure, a restart, a reseeding).
  `MaxPending` is two: a room with three new messages exceeds it. One inactive room is kept,
  so two rooms that leave force a pruning. The channel holds one batch: while the consumer
  saves the checkpoints of one, a second waits in the channel and a third is polled.
* `room_delivery`: three messages with one page per poll, under fairness, emitting existing
  messages so that the first batch has a backlog; there `MaxPending` is three and never
  exceeded.
* `sidecar_pipeline`: one slot, a queue of one, and either three events without retries (so
  that the queue overflows and a newcomer can take a waiter's slot) or two events with one
  retry, against one connection and a channel of one; for the bot one event, every message
  it can be about and every part of it that the event may leave out. `SplittingIrrelevant`
  uses limits of a few bytes, with a buffer smaller than the header limit as in the code.
* `token_reload`: two processes and four tokens: two refreshes that overlap, and one after
  them. The paths go through a link to a directory, a link to the secret, `..`, a missing
  directory, an upper-case name and a name that is not ASCII. A device login has two
  polls before its deadline.

### Fairness

* `JsonlState` and `SqliteCache`: weak fairness of the steps of an operation that holds the
  lock, which is straight-line code with blocking file calls. Nothing is assumed of waiting
  for the lock.
* `AccountBot`: weak fairness of giving up a wait and of finishing an attempt, as every
  await of the code is under a timeout.
* `EventQuota`: weak fairness of the loop's steps other than accepting connections, and
  of every admitted connection, which its timeouts end. Nobody has to connect, and accepting
  may fail, which ends the loop as well.
* `MultiRoomPoller`: weak fairness of the poll loop, and of its consumer; strong fairness of a
  poll that refreshes the rooms, since the refresh interval elapses again and again; weak
  fairness of rooms coming back; faults are finite. Failures that never end would hold
  every room back, and the code does not claim otherwise.
* `Sidecar`: weak fairness of each forward, whose awaits are a promise that gets resolved, a
  request under `forwardTimeoutMs` or a timer; of each connection's handler, which is under
  timeouts; of the printing loop; and of the exit of a shutdown. Nothing is assumed about
  events or signals.
* `TokenReload`: weak fairness of each process's own steps (`Step`) and of the clock. Nothing
  is assumed of the answers of Webex (`Answered`): `OAuthClient` sends its requests without a
  timeout, and a task holds `refresh_lock` while it waits for one. So `CommandsEnd` says that
  a command ends or waits for ever for an answer to its own request, and that the lock is
  given back again and again unless its holder so waits; and it shows that nothing else
  keeps a command or the lock. Weak fairness also of the reload interval and of the outcome of a start or stop; strong fairness of a start that succeeds:
  with a listener that can never be started the sidecar keeps the old token, by design.

### Findings

1. `jsonl_power_loss`. `append_state_record` writes a record and then fails to sync it; the
   caller gets an error. The next `begin_attempt` reads the record and answers `Processed`,
   documented as "already durably processed", without syncing. A power loss then loses it.
   Without power loss `AckedIsDurable` holds, and is proved.
2. `bot_default_timeouts`. The lease is not longer than the handler timeout and the Webex
   request timeout together (the defaults have 30 s for both the lease and the request). It
   expires under a reply in flight, and a retried event is answered again. `bot_replies`
   shows that a lease longer than the two timeouts avoids it.
3. `room_global_order`. Without any failure, a room that had nothing to hold is read with a
   newer cutoff than the room whose backlog still drains, and its message comes out first.
   Within a room the order holds (`RoomOrder`).

## 4. Proofs

Every theorem holds for all values of the constants that satisfy the named `ASSUME`s of
the modules (numbers are natural, sets of processes, events and connections finite where
they are counted, null values outside of the sets they complete, the shape of the file system
under "The token files" below), and for the hypotheses given here. They state every safety property
that the passing runs check; `IncrementalIsReplay`, which is about one successful append, has a
theorem and no run.

| Module | Theorem | States |
|---|---|---|
| `JsonlStateProofs` | `TypeCorrect` | `TypeOK` |
| | `NoCorruption` | `NeverCorrupt`, power loss included |
| | `AtMostOneOwner` | `MutualExclusion` and `LiveTokenInForce` |
| | `Fencing` | `StaleOwnerNeverWrites` |
| | `ProcessedOnce` | `ProcessedIsFinal` |
| | `NeverAhead` | `SnapshotNeverAhead` |
| | `AckDurable` | `AckedIsDurable`, without power loss |
| | `ReplayStep` | one more record in the file is one more `apply_record` |
| | `ReplayIsSnapshot` | a replay of any file gives the closed form, at any clock |
| | `DecidesOnReplay` | `SnapshotIsReplay` |
| | `IncrementalReplay` | `IncrementalIsReplay` |
| | `Refinement` | `ImplementsRegistry`, without power loss |
| `SqliteCacheProofs` | `CacheLagsOnly` | `CacheIsPrefix` |
| | `CacheStaysGuarded` | `CacheGuarded` |
| | `StoreUndisturbed` | the store's safety properties, with rebuilds beside it |
| `AccountBotProofs` | `NoTwoAttempts` | `OneAttempt` (*) |
| | `AnsweredOnce` | `AtMostOneReply` (*) |
| | `NotRepeatedEarly` | `NoEarlyRetry` (*) |
| | `ProcessedIsDurable` | `MemoryIsDurable` (*) |
| | `BotTypeCorrect` | `TypeOK` (*) |
| `EventQuotaProofs` | `CountersInStep` | `QuotaExact` |
| | `StopsWithEveryReplyDone` | `NoReplyCutOff` |
| `SidecarProofs` | `NoSlotLeaks` | `SlotsExact` |
| | `WaitersAreWoken` | `NoLostWakeup` |
| | `RepliesWhereAllowed` | `NoForeignReply`, if `Truthful` |
| | `NeverRejectedForNothing` | `NoFalseRejection`, if `Sane` |
| | `AnyRequestSplit` | what `SplittingIrrelevant` says, of every request sent in full |
| | `SplitsDoNotMatter` | `SplittingIrrelevant` |
| `TokenReloadProofs` | `NeverDeaf` | `OneListener` |
| | `OneRefresh` | `RefreshedOnce` |
| | `LoginSurvives` | `Steady => LoginKept` |
| | `DistinctSound` | `Distinct` paths name different files, whatever the file system |
| | `FilesSurvive` | `FilesKept` |
| `MultiRoomPollerProofs` | `SavedLosesNothing` | `CheckpointLosesNothing` |
| | `MemoryLosesNothing` | `BoundaryLosesNothing` |
| | `OrderPerRoom` | `RoomOrder`, while `Few(r)` of every room |
| | `HistoryStays` | `NoHistory`, while `Few(r)` of every room |

(*) if `Lease > HandlerTimeout + WebexTimeout`.

**The store.** The first lemmas say what one more record does to the state a file stands
for; `ReplayStep` collects them. `ReadsPrefixes` turns this into the equality with the fold: the
snapshots of the prefixes of a file solve the recursion of the loop, and by induction
(`SetInduction`, from the well-foundedness of the natural numbers) nothing else does. The inductive invariant `IInv` is the conjunction of
`ShapeOK` (the types), `ProcessedIsFinal`, `SnapshotNeverAhead`, `AckedIsDurable` (without
power loss) and

* `LockInv`: exactly the handle that holds the lock is writing, so nothing it decided on
  changes under it;
* `TailInv`: the last line is whole while somebody writes, and never corrupt;
* `ClockInv`: captured clocks are not ahead of the clock;
* `CallInv`: the token of a call is finished, so a token under way is no longer live;
* `AttemptInv`: attempt ids in the file grow with their position and are below the counter;
* `LiveInv`: a live token is a standing lease of the file;
* `WriteInv`: a writing handle has the snapshot of the present file at its own clock, and
  the record it is to append was decided from it.

`LiveInv` carries mutual exclusion, since standing leases are unique per message; it is
`ClockInv` that makes a decision with an old clock safe: a lease that is expired by an old
clock is expired by every later one. `WriteInv` is needed because decision and append are
different steps. `GrowthSafe` handles all appends at once, the failed and interrupted ones
included, and each group of actions has its own lemma; `NextStep` puts them together.
`Refinement` maps `processed`, `leases` and `used` to what the file stands for and uses
`GrowthRefines`, by which a growing file is a step of `AttemptRegistry`, and every other
step a stutter.

**The cache.** `CacheInv` adds to the store's `IInv`, which leaves open who else may own the
path lock, that the cache replaces its tables only with the lock (`ConnInv`) and that the
tables, what a rebuild has loaded and *every handle's snapshot* are those of some prefix of
the file (`PrefixInv`): a rebuild may take any handle's snapshot, however old. A file that
grows keeps its prefixes; a power loss that shortens it is what `lost` marks.
`CacheStaysGuarded` needs only what `Accepted` establishes; `DiskAssumption` gives the shape
of a path.

**The bot.** The lease has no owner token, so exclusion rests on time. `ActiveInv` relates
the lease of an active task to its deadline: while it holds the attempt, the lease ends
more than a Webex timeout after the handler's deadline, and while it sends, after the
deadline of the request. `ReplyInv` says that a reply the bot answers for is known to it or
its task is about to remember it, `UnsureInv` that a reply of unknown outcome is covered by a
lease or by the list of ids, in memory *and* in the file, since a restart goes back to the
file. For a full list, `RememberLast` and `AbsorbNothing` show that the message an operation is
told of stays in it unless volatile ids are absorbed after it (`Heard`, `StoreMove`). `BotInv` is these with the types, `MemoryIsDurable` and `OneAttempt`. The condition (*)
is the one the finding `bot_default_timeouts` shows to be necessary.

**The quota.** `IInv` adds to `QuotaExact` only `LoopInv`: once a load of `max_events_reached`
has seen the quota reached it stays reached, because `completed` never decreases. So the
loads may be separate. The rest is counting: a slot changes hands one at a time
(`OwnersStep`).

**The sidecar.** `SlotsExact` and `NoLostWakeup` prove each other (`QueueInv`): a release wakes
the head of the queue, which must be an event that still waits. For
`NoFalseRejection`, `ConnInv` says that a request not yet sent has no connection left over
from an earlier attempt (`FreshInv`), that every answer a sidecar still waits for is good
already when it is chosen, before it is written (`AnswerInv`), and that attempts stay within
the retries (`RetryInv`); `ReadFacts` shows that the sidecar's own requests
are read in full at every split. `Truthful`: an event says nothing false of the room and
author of its message (it comes from Webex through the sidecar), though it may leave them out.
`Sane`: the header limit leaves room for the empty line that ends the header (16 KiB and 4
bytes in the code), and an answer of Webex has a status. Both hold in the configurations of
`MCSidecar`.
For the splitting of requests, `Positions` describes what the recursion of `Reached` computes
as a least set (`ReachedIs`), so that a smallest counterexample can be taken: the first
position at which a loop does not go on is reached (`SomeEnd`), and no position beyond a header
block that is too long by a buffer is (`LongHeader`).

**Tokens.** `LockInv` says that a task between request and save owns `refresh_lock`. For the
login, `FreshInv` says that nobody but its holder has a refresh token that is yet to be saved,
`GotInv` that it is good, `DiskInv` that the file is good unless somebody is about to save.
`Steady` is needed: with a server that rotates only sometimes, a task and an `auth refresh`
beside it can both refresh; the command, whose answer left the token unrotated, may then save the
old refresh token over the one the task has saved in between. Commands do not share
`refresh_lock`, so the code can promise no more. `ListenerInv` says which listener is on in
each phase of a reload.

**The token files.** `DistinctSound` is about the check alone. `InStep` relates the loop of
`canonical_existing_ancestor_path` to the operating system: what is resolved followed by what is
not is where the path has led so far, and nothing of the unresolved part is a directory, so that
no link can hide in it (`NothingBelow`). By induction over the components (`WalkInStep`), the
check compares the file a path leads to if there is one, and the entry it names otherwise
(`AncestorIs`); these differ only at a link. `FilesInv` then says of the processes: the secret is
at the end of its path; a command beyond the check has paths that are `Apart`, which holds for
good since entries do not move; a task beyond its first load has read tokens where it is going
to write, so that this cannot be the secret (`ReadClear`), although tasks check no paths; and what
a command has saved stays, because whoever else writes there writes the same kind of content. The proof
needs of the file system (`TreeAssumption`, `PathAssumption`) that directories and links are in
directories, that links do not lead to links, and that paths go through no link that does not
lead to a directory, where nothing could be created.

**The pollers.** `NewestFirstProofs` shows that the sorted and filtered sequences exist and
what they keep. A boundary is safe for a room if every message of the room below its newest
id is handled or emitted; the proofs follow boundaries wherever they are: in a poller, in
`points`, in a poll's result, in a batch on its way through the channel, with the consumer, and
saved. `SafeInv` is the conjunction of

* `TypeInv`, and `SentInv`: what is in the channel was emitted by this poller;
* `BaseInv`, `PointInv`, `MemberInv`: baselines and boundaries are of messages posted before the
  cutoff, and a room has a poller or a checkpoint that waits for one;
* `PollerInv`: what a poller holds pending is a backlog without gaps above its boundary
  (`Backlog`, `Gapless`), so that committing the whole of it passes over nothing;
* `ResultInv`: the same of the results of a poll that are not applied yet, while messages are
  posted and deleted beside it;
* `LatestInv`: the boundary in memory is the checkpoint handed out last, wherever in channel,
  batch or store that is;
* `FlowInv`: a checkpoint covers only messages that are handled or were sent no later than
  itself, which is why saving checkpoints in the order of the channel loses nothing although
  the poller runs ahead.

The central step: a message older than a collected one is either above the boundary, then it
is in the same listing and collected too, or below it, then it was handled or emitted before.
`OrderInv` adds, for rooms with `Few(r)`, that a boundary holds the newest of the old messages,
all of them or as many as it keeps (`AnchorInv`), so that one of them is still listed above
everything older, that everything pending or collected is newer than what was emitted (`NewInv`), and
that what was emitted is in order (`EmittedInv`). `Few(r)`: fewer messages of the room were deleted
than a boundary keeps, `MaxSeen` ids, or only as many as one poll reads if that is less and
existing messages are skipped. It is needed, not an artefact of the proof: with as many
deletions as ids, the pages hold no known id, the poller takes old messages for new ones, and
TLC finds `RoomOrder` violated with `MaxDeletes = MaxSeen = 2`.

### Only model-checked

* Liveness and everything under fairness (`LocksReleased`, `PermitReturned`,
  `StopsAfterQuota`, `EventuallyHandled`, `AckedIsPrinted`, `ForwardEnds`, `ListensWithFile`,
  `CommandsEnd`).

## 5. Not modelled

* A wall clock that is set back: leases would come into force again, and two live tokens
  be possible. Several lock keys for one file (hard links). Empty ids and overflowing
  leases, which are rejected before any state changes.
* Attempt ids are made of time, process and a sequence number; the model has a counter.
* Panicking reply workers and poisoned locks. A failed operation of the bot and the `Drop`
  that follows it happen within the same second; timers fire on time.
* `max_events` in `AccountBot` (it is 0 there); `EventQuota` has the limit and leaves out the
  store. The bot in `Sidecar` remembers what it has dealt with, without leases and state
  file, which `AccountBot` has.
* Pollers: messages with equal timestamps, a room that joins or leaves between two pages of
  discovery, `with_config` on a running poller, `spawn_messages` (it hands out no
  checkpoints) and the spawned single-room poller. A backlog beyond `max_pending_messages`
  fails for good, which the code means as a signal to the operator.
* `with_room_checkpoints` with only some of the saved checkpoints: it forgets the boundaries
  of pruned rooms that are not among them.
* A bot that does not know its own person id: it takes every author for another.
* HTTP header fields and JSON are reduced to what the checks ask of them. The bot's action
  log and its health document report state and change none.
* SQLite's own transactions and recovery, the file system between two of the cache's checks
  (other users' writes are covered by the checks of the directories), file permissions of
  the token files.
* The Webex SDK inside the sidecar: a listener is on or off. Node's health server.
* Links that lead to links, and a file system whose links or directories change between the
  check of the paths and the saves.
* Webex as a token service: a refresh token is accepted until it is replaced; revocation is
  not modelled.
* The remaining commands of the command line, the REST client and its pagination, types,
  errors, room links, webhooks and sidecar events keep no state: each call is one request or
  one conversion. The smoke test and the deployment files are scripts.

## 6. Plan

Done, in the order of importance: the state store with its abstract specification; the
bot's attempts and replies; its quota with separate loads; the pollers, their checkpoints
and their channel; the sidecar with the three receivers; tokens, their files and the
listener; the SQLite cache; the safety proofs.

Next:

1. `Sidecar` composed with `AccountBot` in full: an event that is retried until the lease
   ends is answered or reported.
2. `with_config` on a running poller.
