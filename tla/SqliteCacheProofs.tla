-------------------------- MODULE SqliteCacheProofs --------------------------
(***************************************************************************)
(* Proofs about SqliteCache, for any number of handles and messages, any   *)
(* length of the file and any paths.                                       *)
(***************************************************************************)
EXTENDS SqliteCache, JsonlStateProofs

\* t holds the processed ids and the checkpoints of a prefix of the file l.
Seen(t, l) ==
    \E n \in 0 .. Len(l) : /\ t.processed = ProcessedIn(SubSeq(l, 1, n))
                           /\ t.points = PointsIn(SubSeq(l, 1, n))

ConnInv == /\ conn \in {"closed", "open", "waiting", "replacing"}
           /\ conn = "replacing" => lock = Cache

\* A rebuild may take the snapshot of any handle, so these are prefixes too.
PrefixInv ==
    /\ lost \/ Seen(tables, log)
    /\ Seen(loaded, log)
    /\ \A h \in Handle : Seen(snap[h], log)

\* The store keeps its invariant although the cache takes part in the lock.
CacheInv == IInv /\ ConnInv /\ PrefixInv
-----------------------------------------------------------------------------
LEMMA SeenWhole ==
    ASSUME NEW l \in Seq(StateEvent), NEW t
    PROVE  Seen(Snapshot(l, t), l) /\ Seen(TablesOf(Snapshot(l, t)), l)
<1>1. Len(l) \in Nat /\ SubSeq(l, 1, Len(l)) = l
  OBVIOUS
<1>2. /\ Snapshot(l, t).processed = ProcessedIn(l) /\ Snapshot(l, t).points = PointsIn(l)
      /\ TablesOf(Snapshot(l, t)).processed = ProcessedIn(l)
      /\ TablesOf(Snapshot(l, t)).points = PointsIn(l)
  BY DEF Snapshot, TablesOf
<1>3. Len(l) \in 0 .. Len(l)
  BY <1>1
<1> QED  BY <1>1, <1>2, <1>3 DEF Seen

LEMMA SeenTables ==
    ASSUME NEW s, NEW l, Seen(s, l)
    PROVE  Seen(TablesOf(s), l)
BY DEF Seen, TablesOf

LEMMA SeenEmpty ==
    ASSUME NEW l \in Seq(StateEvent)
    PROVE  Seen(EmptySnapshot, l) /\ Seen(EmptyTables, l)
<1>1. Len(l) \in Nat /\ SubSeq(l, 1, 0) = <<>>
  OBVIOUS
<1>2. ProcessedIn(<<>>) = {} /\ PointsIn(<<>>) = {}
  BY DEF ProcessedIn, PointsIn
<1>3. /\ EmptySnapshot.processed = {} /\ EmptySnapshot.points = {}
      /\ EmptyTables.processed = {} /\ EmptyTables.points = {}
  BY DEF EmptySnapshot, EmptyTables, TablesOf
<1>4. 0 \in 0 .. Len(l)
  BY <1>1
<1> QED  BY <1>1, <1>2, <1>3, <1>4 DEF Seen

LEMMA SeenGrows ==
    ASSUME NEW l \in Seq(StateEvent), NEW r \in StateEvent, NEW t, Seen(t, l)
    PROVE  Seen(t, Append(l, r))
<1>1. PICK n \in 0 .. Len(l) : /\ t.processed = ProcessedIn(SubSeq(l, 1, n))
                               /\ t.points = PointsIn(SubSeq(l, 1, n))
  BY DEF Seen
<1>2. SubSeq(Append(l, r), 1, n) = SubSeq(l, 1, n)
  OBVIOUS
<1>3. n \in 0 .. Len(Append(l, r))
  OBVIOUS
<1> QED  BY <1>1, <1>2, <1>3 DEF Seen
-----------------------------------------------------------------------------
\* What a step of the store does to its file and to its handles' snapshots
LEMMA StoreFacts ==
    ASSUME IInv, NEW h \in Handle, Calling(h) \/ Deciding(h) \/ Writing(h)
    PROVE  /\ log' = log \/ \E r \in StateEvent : log' = Append(log, r)
           /\ \A g \in Handle : snap'[g] = snap[g] \/ \E t \in Nat : snap'[g] = Snapshot(log', t)
<1>0. /\ snap \in [Handle -> Snapshots] /\ at \in [Handle -> Nat] /\ log \in Seq(StateEvent)
  BY DEF IInv, ShapeOK
<1>1. CASE Calling(h)
  BY <1>1 DEF Calling, CallLoad, CallBegin, CallRelease, CallDefer, CallMark, CallSave, Invoke
<1>2. CASE Deciding(h)
  <2>1. CASE RefreshFails(h)
    BY <2>1 DEF RefreshFails
  <2>2. CASE Refresh(h)
    <3>1. log' = log /\ snap' = [snap EXCEPT ![h] = Snapshot(log, at[h])]
      BY <2>2 DEF Refresh, Repair
    <3> QED  BY <1>0, <3>1
  <2> QED  BY <1>2, <2>1, <2>2 DEF Deciding, Load, BeginRefused, BeginAttempt, NotOwner, ReleaseAttempt,
                DeferAttempt, MarkAgain, MarkProcessed, SaveRoomCheckpoints
<1>3. CASE Failing(h)
  <2>1. snap' = snap /\ pc[h] = "writing"
    BY <1>3 DEF Failing, AppendNothing, AppendTorn, AppendOpen, AppendUnsynced, AppendDirUnsynced, Fail
  <2>2. log' = log \/ log' = Append(log, Head(recs[h]))
    BY <1>3 DEF Failing, AppendNothing, AppendTorn, AppendOpen, AppendUnsynced, AppendDirUnsynced, Grow,
                file
  <2> QED  BY <2>1, <2>2, GrowthSafe
<1>4. CASE AppendMore(h) \/ AppendLast(h)
  <2>1. Appended(h)
    BY <1>4 DEF AppendMore, AppendLast
  <2>2. pc[h] = "writing" /\ log' = Append(log, Head(recs[h]))
    BY <2>1 DEF Appended, Grow
  <2>3. \A g \in Handle \ {h} : snap'[g] = snap[g]
    BY <1>0, <2>1 DEF Appended
  <2>4. snap'[h] = Snapshot(log', at[h])
    BY <2>1, AppendedSnapshot
  <2> QED  BY <1>0, <2>2, <2>3, <2>4, GrowthSafe
<1> QED  BY <1>1, <1>2, <1>3, <1>4 DEF Writing

LEMMA StoreStepCache ==
    ASSUME CacheInv, StoreStep
    PROVE  CacheInv'
<1>0. log \in Seq(StateEvent) /\ UNCHANGED <<conn, tables, loaded, disk, lost>>
  BY DEF CacheInv, IInv, ShapeOK, StoreStep, cacheVars
<1>1. IInv'
  BY NextStep DEF CacheInv, StoreStep, Next
<1>2. log' \in Seq(StateEvent)
  BY <1>1 DEF IInv, ShapeOK
<1>3. CASE Tick
  BY <1>0, <1>1, <1>3 DEF Tick, file, CacheInv, ConnInv, PrefixInv
<1>4. ASSUME NEW h \in Handle, Calling(h) \/ Deciding(h) \/ Writing(h)
      PROVE  CacheInv'
  <2>1. /\ log' = log \/ \E r \in StateEvent : log' = Append(log, r)
        /\ \A g \in Handle : snap'[g] = snap[g] \/ \E t \in Nat : snap'[g] = Snapshot(log', t)
    BY <1>4, StoreFacts DEF CacheInv
  <2>2. ASSUME NEW t, Seen(t, log) PROVE Seen(t, log')
    BY <1>0, <2>1, <2>2, SeenGrows
  <2>3. ASSUME NEW g \in Handle PROVE Seen(snap'[g], log')
    <3>1. CASE snap'[g] = snap[g]
      BY <2>2, <3>1 DEF CacheInv, PrefixInv
    <3>2. CASE \E t \in Nat : snap'[g] = Snapshot(log', t)
      BY <1>2, <3>2, SeenWhole
    <3> QED  BY <2>1, <3>1, <3>2
  <2>4. PrefixInv'
    BY <1>0, <2>2, <2>3 DEF CacheInv, PrefixInv
  <2>5. conn = "replacing" => lock' = lock
    <3>1. conn = "replacing" => \A g \in Handle : pc[g] # "writing" /\ lock # NoHandle
      BY CacheAssumption DEF CacheInv, ConnInv, IInv, LockInv
    <3>2. CASE Calling(h)
      BY <3>2 DEF Calling, CallLoad, CallBegin, CallRelease, CallDefer, CallMark, CallSave, Invoke
    <3>3. Deciding(h) => lock = NoHandle
      BY DEF Deciding, RefreshFails, Load, BeginRefused, BeginAttempt, NotOwner, ReleaseAttempt,
             DeferAttempt, MarkAgain, MarkProcessed, SaveRoomCheckpoints, Refresh
    <3>4. Writing(h) => pc[h] = "writing"
      BY DEF Writing, Failing, AppendNothing, AppendTorn, AppendOpen, AppendUnsynced,
             AppendDirUnsynced, Fail, AppendMore, AppendLast, Appended
    <3> QED  BY <1>4, <3>1, <3>2, <3>3, <3>4
  <2>6. ConnInv'
    BY <1>0, <2>5 DEF CacheInv, ConnInv
  <2> QED  BY <1>1, <2>4, <2>6 DEF CacheInv
<1> QED  BY <1>3, <1>4 DEF StoreStep

LEMMA CrashCache ==
    ASSUME CacheInv, CacheCrash
    PROVE  CacheInv'
<1>0. log \in Seq(StateEvent) /\ Len(log) \in Nat
  BY DEF CacheInv, IInv, ShapeOK
<1>1. IInv'
  BY NextStep DEF CacheInv, CacheCrash, Next
<1>2. log' \in Seq(StateEvent) /\ Len(log') \in Nat
  BY <1>1 DEF IInv, ShapeOK
<1>3. /\ conn' = "closed" /\ loaded' = EmptyTables /\ tables' = tables
      /\ lost' = (lost \/ Len(log') < Len(log))
      /\ \A h \in Handle : snap'[h] = EmptySnapshot
  BY DEF CacheCrash, Crash
<1>4. ASSUME ~lost' PROVE Seen(tables, log')
  <2>1. ~lost /\ Len(log') >= Len(log)
    <3>1. ~lost /\ ~(Len(log') < Len(log))
      BY <1>3, <1>4, Zenon
    <3> QED  BY <1>0, <1>2, <3>1
  <2>2. Seen(tables, log)
    BY <2>1 DEF CacheInv, PrefixInv
  <2>3. log' = log \/ \E r \in StateEvent : log' = Append(log, r)
    <3>1. CASE InterruptedAppend
      <4>1. CASE log' = log
        BY <4>1
      <4>2. CASE log' # log
        <5>1. PICK h \in Handle : pc[h] = "writing" /\ log' = Append(log, Head(recs[h]))
          BY <3>1, <4>2 DEF InterruptedAppend, Grow
        <5>2. Head(recs[h]) \in StateEvent
          BY <5>1, GrowthSafe DEF CacheInv
        <5> QED  BY <5>1, <5>2
      <4> QED  BY <4>1, <4>2
    <3>2. CASE LostWrites
      <4>1. CASE \E n \in synced .. Len(log) : log' = SubSeq(log, 1, n)
        <5>1. synced \in Nat
          BY DEF CacheInv, IInv, ShapeOK
        <5>2. PICK n \in synced .. Len(log) : log' = SubSeq(log, 1, n)
          BY <4>1
        <5>3. n \in Nat /\ n <= Len(log)
          BY <1>0, <5>1
        <5>4. Len(SubSeq(log, 1, n)) = n
          BY <1>0, <5>3
        <5>5. n = Len(log)
          BY <1>0, <2>1, <5>2, <5>3, <5>4
        <5> QED  BY <1>0, <5>2, <5>5
      <4>2. CASE log' = <<>>
        <5>1. Len(log) = 0
          BY <1>0, <2>1, <4>2
        <5> QED  BY <1>0, <4>2, <5>1
      <4> QED  BY <3>2, <4>1, <4>2 DEF LostWrites
    <3> QED  BY <3>1, <3>2 DEF CacheCrash, Crash
  <2> QED  BY <1>0, <2>2, <2>3, SeenGrows
<1>5. PrefixInv'
  BY <1>2, <1>3, <1>4, SeenEmpty DEF PrefixInv
<1> QED  BY <1>1, <1>3, <1>5 DEF CacheInv, ConnInv

\* The cache takes or gives back the lock, or repairs the file, while no
\* handle writes.
LEMMA LockStep ==
    ASSUME IInv, \A h \in Handle : pc[h] # "writing",
           UNCHANGED <<log, dir, now, nextAttempt, snap, pc, call, at, recs, client>>,
           synced' \in {synced, Len(log)}, tail' \in {tail, "clean"},
           lock' # NoHandle => tail' # "torn"
    PROVE  IInv'
<1>1. ShapeOK'
  BY DEF IInv, ShapeOK, client
<1>2. LockInv' /\ TailInv' /\ WriteInv'
  BY DEF IInv, LockInv, TailInv, WriteInv
<1>3. ClockInv' /\ CallInv'
  BY DEF IInv, ClockInv, CallInv, client
<1>4. AttemptInv' /\ ProcessedIsFinal' /\ SnapshotNeverAhead' /\ (~PowerLoss => AckedIsDurable)'
  BY DEF IInv, AttemptInv, Leased, ProcessedIsFinal, SnapshotNeverAhead, AckedIsDurable, client
<1>5. LiveInv'
  BY DEF IInv, LiveInv, Live, client
<1> QED  BY <1>1, <1>2, <1>3, <1>4, <1>5 DEF IInv

LEMMA LoadCache ==
    ASSUME CacheInv, LoadLocked \/ LoadLockedFails
    PROVE  CacheInv'
<1>0. /\ lock = NoHandle /\ conn = "waiting"
      /\ UNCHANGED <<log, dir, now, nextAttempt, snap, pc, call, at, recs, client, tables, lost>>
      /\ log \in Seq(StateEvent)
  BY DEF CacheInv, IInv, ShapeOK, LoadLocked, LoadLockedFails, LockFree, Repair
<1>1. \A h \in Handle : pc[h] # "writing"
  BY <1>0, HandleAssumption DEF CacheInv, IInv, LockInv
<1>2. /\ synced' \in {synced, Len(log)} /\ tail' \in {tail, "clean"}
      /\ lock' # NoHandle => tail' # "torn"
  BY <1>0 DEF LoadLocked, LoadLockedFails, Repair
<1>3. IInv'
  BY <1>0, <1>1, <1>2, LockStep DEF CacheInv
<1>4. Seen(loaded', log)
  <2>1. CASE LoadLocked
    BY <1>0, <2>1, SeenWhole DEF LoadLocked
  <2>2. CASE LoadLockedFails
    BY <2>2 DEF LoadLockedFails, CacheInv, PrefixInv
  <2> QED  BY <2>1, <2>2
<1>5. PrefixInv'
  BY <1>0, <1>4 DEF CacheInv, PrefixInv
<1>6. ConnInv'
  BY DEF LoadLocked, LoadLockedFails, ConnInv
<1> QED  BY <1>3, <1>5, <1>6 DEF CacheInv

LEMMA EndCache ==
    ASSUME CacheInv, Commit \/ Rollback
    PROVE  CacheInv'
<1>0. /\ lock = Cache /\ lock' = NoHandle /\ conn' = "open" /\ loaded' = EmptyTables
      /\ UNCHANGED <<log, tail, dir, synced, now, nextAttempt, snap, pc, call, at, recs, client>>
      /\ log \in Seq(StateEvent)
  BY DEF CacheInv, IInv, ShapeOK, ConnInv, Commit, Rollback, EndRebuild, file
<1>1. \A h \in Handle : pc[h] # "writing"
  BY <1>0, CacheAssumption DEF CacheInv, IInv, LockInv
<1>2. IInv'
  BY <1>0, <1>1, LockStep DEF CacheInv
<1>3. tables' = loaded \/ (tables' = tables /\ lost' = lost)
  BY DEF Commit, Rollback
<1>4. PrefixInv'
  BY <1>0, <1>3, SeenEmpty DEF CacheInv, PrefixInv
<1>5. ConnInv'
  BY <1>0 DEF ConnInv
<1> QED  BY <1>2, <1>4, <1>5 DEF CacheInv

\* Steps that leave the store alone
LEMMA AsideCache ==
    ASSUME CacheInv, OpenCache \/ OpenFails \/ CallRebuild \/ RebuildFromSnapshot \/ UNCHANGED allVars
    PROVE  CacheInv'
<1>0. UNCHANGED <<vars, loaded>> /\ log \in Seq(StateEvent)
  BY DEF CacheInv, IInv, ShapeOK, OpenCache, OpenFails, CallRebuild, RebuildFromSnapshot, allVars, cacheVars
<1>1. IInv'
  BY <1>0, NextStep DEF CacheInv
<1>2. UNCHANGED <<log, snap, lock>>
  BY <1>0 DEF vars
<1>3. ConnInv'
  BY <1>2 DEF CacheInv, ConnInv, OpenCache, OpenFails, CallRebuild, RebuildFromSnapshot, allVars, cacheVars
<1>4. lost' \/ Seen(tables', log)
  <2>1. CASE RebuildFromSnapshot
    <3>1. CASE \E h \in Handle : tables' = TablesOf(snap[h])
      BY <3>1, SeenTables DEF CacheInv, PrefixInv
    <3>2. CASE tables' = TablesOf(Snapshot(log, now))
      BY <1>0, <3>2, SeenWhole
    <3> QED  BY <2>1, <3>1, <3>2 DEF RebuildFromSnapshot
  <2>2. CASE tables' = EmptyTables
    BY <1>0, <2>2, SeenEmpty
  <2>3. CASE UNCHANGED <<tables, lost>>
    BY <2>3 DEF CacheInv, PrefixInv
  <2>4. RebuildFromSnapshot \/ tables' = EmptyTables \/ UNCHANGED <<tables, lost>>
    BY DEF OpenCache, OpenFails, CallRebuild, allVars, cacheVars, Initialized
  <2> QED  BY <2>1, <2>2, <2>3, <2>4
<1>5. PrefixInv'
  BY <1>0, <1>2, <1>4 DEF CacheInv, PrefixInv
<1> QED  BY <1>1, <1>3, <1>5 DEF CacheInv

LEMMA InitCache == CacheInit => CacheInv
<1> SUFFICES ASSUME CacheInit PROVE CacheInv
  OBVIOUS
<1>1. IInv /\ log \in Seq(StateEvent)
  BY InitIInv DEF CacheInit, IInv, ShapeOK
<1>2. /\ conn = "closed" /\ tables = EmptyTables /\ loaded = EmptyTables
      /\ \A h \in Handle : snap[h] = EmptySnapshot
  BY DEF CacheInit, Init
<1>3. PrefixInv
  BY <1>1, <1>2, SeenEmpty DEF PrefixInv
<1> QED  BY <1>1, <1>2, <1>3 DEF CacheInv, ConnInv

LEMMA InductiveCache == CacheSpec => []CacheInv
<1>1. CacheInv /\ [CacheNext]_allVars => CacheInv'
  BY StoreStepCache, CrashCache, LoadCache, EndCache, AsideCache DEF CacheNext
<1> QED  BY InitCache, <1>1, PTL DEF CacheSpec

\* The lookups of the cache always answer as the JSONL file did at one time,
\* whatever rebuilds failed, were cut short or used an old snapshot.
THEOREM CacheLagsOnly == CacheSpec => []CacheIsPrefix
<1>1. CacheInv => CacheIsPrefix
  <2> SUFFICES ASSUME CacheInv, ~lost PROVE CacheIsPrefix
    BY DEF CacheIsPrefix
  <2>1. PICK n \in 0 .. Len(log) : /\ tables.processed = ProcessedIn(SubSeq(log, 1, n))
                                   /\ tables.points = PointsIn(SubSeq(log, 1, n))
    BY DEF CacheInv, PrefixInv, Seen
  <2>2. /\ Snapshot(SubSeq(log, 1, n), now).processed = tables.processed
        /\ Snapshot(SubSeq(log, 1, n), now).points = tables.points
    BY <2>1 DEF Snapshot
  <2> QED  BY <2>2 DEF CacheIsPrefix, ContainsProcessedMessage, CachedCheckpoint
<1> QED  BY InductiveCache, <1>1, PTL

\* Rebuilds, which repair the file and hold the lock over a transaction, do
\* not disturb the store: its attempts stay exclusive and fenced, its file
\* readable, its processed messages final.
THEOREM StoreUndisturbed ==
    CacheSpec => [](/\ MutualExclusion /\ LiveTokenInForce /\ StaleOwnerNeverWrites
                    /\ NeverCorrupt /\ ProcessedIsFinal /\ SnapshotNeverAhead)
<1>1. IInv => NeverCorrupt /\ ProcessedIsFinal /\ SnapshotNeverAhead
  BY DEF IInv, TailInv, NeverCorrupt
<1>2. CacheInv => IInv
  BY DEF CacheInv
<1> QED  BY InductiveCache, OneOwner, Fenced, <1>1, <1>2, PTL

\* What open accepts and prepares is guarded.
LEMMA PreparedFacts ==
    ASSUME NEW d \in Disk, Accepted(d)
    PROVE  LET p == Prepared(d) IN
           /\ p.file.type = "file" /\ p.file.owner = "self" /\ p.file.private
           /\ \A i \in DOMAIN p.dirs : /\ p.dirs[i].type = "dir" /\ p.dirs[i].owner # "other"
                                       /\ p.dirs[i].writable => p.dirs[i].sticky
<1> DEFINE p == Prepared(d)
           f == IF d.file = NoEntry THEN NewFile ELSE [d.file EXCEPT !.private = TRUE]
           q == CreatedParents(d.dirs)
<1>0. /\ d \in [uri : BOOLEAN, dirs : Seq(PathDir \cup {NoEntry}), file : PathFile \cup {NoEntry}]
      /\ d.file \in PathFile \cup {NoEntry} /\ d.dirs \in Seq(PathDir \cup {NoEntry})
  BY DiskAssumption
<1>1. p.file = f /\ p.dirs = q
  <2>1. PICK b : b = q
    OBVIOUS
  <2>2. PICK g : g = f
    OBVIOUS
  <2> HIDE DEF f, q
  <2>3. p = [d EXCEPT !.dirs = b, !.file = g]
    BY <2>1, <2>2, Zenon DEF Prepared, f, q
  <2> HIDE DEF p
  <2>4. p.file = g /\ p.dirs = b
    BY <1>0, <2>3
  <2> QED  BY <2>1, <2>2, <2>4
<1> HIDE DEF p
<1>2. f.type = "file" /\ f.owner = "self" /\ f.private
  <2>1. CASE d.file = NoEntry
    BY <2>1 DEF NewFile
  <2>2. CASE d.file # NoEntry
    <3>1. d.file \in PathFile /\ d.file.type = "file" /\ d.file.owner = "self"
      BY <1>0, <2>2, Zenon DEF Accepted, RegularFile, MayMakePrivate
    <3>2. f = [d.file EXCEPT !.private = TRUE]
      BY <2>2
    <3>3. PICK b : b = TRUE
      BY Zenon
    <3>4. PICK g : g = [d.file EXCEPT !.private = b]
      OBVIOUS
    <3>5. g.type = "file" /\ g.owner = "self" /\ g.private = b
      BY <3>1, <3>4 DEF PathFile
    <3>6. f = g
      BY <3>2, <3>3, <3>4, Zenon
    <3> HIDE DEF f
    <3> QED  BY <3>3, <3>5, <3>6, Zenon
  <2> QED  BY <2>1, <2>2
<1>3. ASSUME NEW i \in DOMAIN q
      PROVE  q[i].type = "dir" /\ q[i].owner # "other" /\ (q[i].writable => q[i].sticky)
  <2>1. i \in DOMAIN d.dirs /\ q[i] = IF d.dirs[i] = NoEntry THEN NewDir ELSE d.dirs[i]
    BY <1>3 DEF CreatedParents
  <2> HIDE DEF q
  <2>2. CASE d.dirs[i] = NoEntry
    <3>1. q[i] = NewDir
      BY <2>1, <2>2
    <3> QED  BY <3>1 DEF NewDir
  <2>3. CASE d.dirs[i] # NoEntry
    <3>1. q[i] = d.dirs[i]
      BY <2>1, <2>3
    <3>2. ValidParentDir(d.dirs[i])
      BY <2>1, <2>3, Zenon DEF Accepted, ValidExistingParents
    <3>3. d.dirs[i].owner \in {"root", "self"}
      BY <3>2, Zenon DEF ValidParentDir, TrustedOwner
    <3>4. d.dirs[i].owner # "other"
      BY <3>3
    <3> QED  BY <3>1, <3>2, <3>4, Zenon DEF ValidParentDir
  <2> QED  BY <2>2, <2>3
<1> HIDE DEF f, q
<1> QED  BY <1>1, <1>2, <1>3, Zenon DEF p

\* While a cache is open its file is private, and nobody else can replace a
\* directory on the way to it.
THEOREM CacheStaysGuarded == CacheSpec => []CacheGuarded
<1>1. CacheInit => CacheGuarded
  BY DEF CacheInit, CacheGuarded
<1>2. CacheGuarded /\ [CacheNext]_allVars => CacheGuarded'
  <2> SUFFICES ASSUME CacheGuarded, [CacheNext]_allVars PROVE CacheGuarded'
    OBVIOUS
  <2>1. CASE OpenCache
    <3>1. PICK d \in Disk : Accepted(d) /\ disk' = Prepared(d)
      BY <2>1 DEF OpenCache
    <3> QED  BY <3>1, PreparedFacts, Zenon DEF CacheGuarded
  <2>2. CASE CacheCrash
    BY <2>2 DEF CacheCrash, CacheGuarded
  <2>3. CASE disk' = disk /\ (conn' # "closed" => conn # "closed")
    BY <2>3, Zenon DEF CacheGuarded
  <2>4. OpenCache \/ CacheCrash \/ (disk' = disk /\ (conn' # "closed" => conn # "closed"))
    BY DEF CacheNext, StoreStep, OpenFails, CallRebuild, LoadLocked, LoadLockedFails,
           RebuildFromSnapshot, Commit, Rollback, EndRebuild, allVars, cacheVars
  <2> QED  BY <2>1, <2>2, <2>3, <2>4
<1> QED  BY <1>1, <1>2, PTL DEF CacheSpec
=============================================================================
