----------------------------- MODULE SqliteCache -----------------------------
(***************************************************************************)
(* SqliteStateCache of src/src/state.rs beside the JSONL store it indexes. *)
(*                                                                         *)
(* The cache holds the processed ids and the room checkpoints of a         *)
(* snapshot, no leases, so the clock of a rebuild makes no difference to   *)
(* it.  rebuild_from_jsonl and rebuild_from_store read the file under the  *)
(* StatePathLock and keep the lock until their transaction ends;           *)
(* rebuild_from_snapshot takes any snapshot the caller still has, the old  *)
(* one of a handle or one loaded without the lock, while others write.     *)
(* Either way the tables change in one transaction.                        *)
(***************************************************************************)
EXTENDS JsonlState

CONSTANTS
    Cache,   \* the SqliteStateCache, as an owner of the StatePathLock
    Disk,    \* the paths open may be given, with what is on disk there
    NoEntry  \* nothing at a path

ASSUME CacheAssumption == Cache \notin Handle \cup {NoHandle}

\* A path is a record: uri (does it begin with "file:"), dirs (the directories
\* from the root down to the parent) and file, NoEntry where nothing exists.
EntryType == {"dir", "file", "symlink"}
FileOwner == {"root", "self", "other"}
PathDir == [type : EntryType, owner : FileOwner, writable : BOOLEAN, sticky : BOOLEAN]
PathFile == [type : EntryType, owner : FileOwner, private : BOOLEAN]

ASSUME DiskAssumption ==
    /\ NoEntry \notin PathDir \cup PathFile
    /\ Disk \subseteq [uri : BOOLEAN, dirs : Seq(PathDir \cup {NoEntry}), file : PathFile \cup {NoEntry}]

VARIABLES
    conn,    \* "closed", "open", "waiting" for the lock, or
             \* "replacing" the tables under it
    tables,  \* the committed tables of the cache file
    loaded,  \* the snapshot that the running transaction writes
    disk,    \* what open left at the path of the cache
    lost     \* has a power loss cut the JSONL file since the last rebuild?

cacheVars == <<conn, tables, loaded, disk, lost>>
allVars == <<vars, cacheVars>>
-----------------------------------------------------------------------------
(***************************************************************************)
(* Opening.                                                                *)
(***************************************************************************)
TrustedOwner(e) == e.owner \in {"root", "self"}

ValidParentDir(e) ==
    /\ e.type = "dir"
    /\ TrustedOwner(e)
    /\ e.writable => e.sticky

\* Mutant: only the parent itself is looked at, not the chain above it.
ValidLastParent(dirs) == dirs[Len(dirs)] # NoEntry => ValidParentDir(dirs[Len(dirs)])

\* validate_existing_sqlite_cache_parent_dirs
ValidExistingParents(dirs) ==
    \A i \in DOMAIN dirs : dirs[i] # NoEntry => ValidParentDir(dirs[i])

NewDir == [type |-> "dir", owner |-> "self", writable |-> FALSE, sticky |-> FALSE]
NewFile == [type |-> "file", owner |-> "self", private |-> TRUE]

\* create_sqlite_cache_parent_dir
CreatedParents(dirs) == [i \in DOMAIN dirs |-> IF dirs[i] = NoEntry THEN NewDir ELSE dirs[i]]

RegularFile(e) == e.type = "file" /\ TrustedOwner(e)

\* The mode of a file can be set by its owner only, and a private file be
\* opened by its owner only.
MayMakePrivate(e) == e.owner = "self"

\* Does prepare_sqlite_cache_file accept the path?
Accepted(d) ==
    /\ ~d.uri
    /\ ValidExistingParents(d.dirs)
    /\ d.file # NoEntry => RegularFile(d.file) /\ MayMakePrivate(d.file)

\* What is on disk once it has.
Prepared(d) ==
    [d EXCEPT !.dirs = CreatedParents(@),
              !.file = IF @ = NoEntry THEN NewFile ELSE [@ EXCEPT !.private = TRUE]]
-----------------------------------------------------------------------------
TablesOf(s) == [processed |-> s.processed, points |-> s.points]
EmptyTables == TablesOf(EmptySnapshot)

CacheInit ==
    /\ Init
    /\ conn = "closed" /\ tables = EmptyTables /\ loaded = EmptyTables
    /\ disk = NoEntry /\ lost = FALSE

\* CREATE TABLE IF NOT EXISTS: an existing file keeps its tables.
Initialized(d) == IF d.file = NoEntry THEN EmptyTables ELSE tables

\* open.  With no file there it is also open_in_memory.
OpenCache ==
    /\ conn = "closed"
    /\ \E d \in Disk :
         /\ Accepted(d)
         /\ disk' = Prepared(d)
         /\ tables' = Initialized(d)
    /\ conn' = "open"
    /\ UNCHANGED <<vars, loaded, lost>>

\* The path is refused, or SQLite fails after the file was created.
OpenFails ==
    /\ conn = "closed"
    /\ \E d \in Disk :
         \/ ~Accepted(d) /\ UNCHANGED tables
         \/ Accepted(d) /\ tables' = Initialized(d)
    /\ UNCHANGED <<vars, conn, loaded, disk, lost>>

\* rebuild_from_jsonl, rebuild_from_store
CallRebuild ==
    /\ conn = "open"
    /\ conn' = "waiting"
    /\ UNCHANGED <<vars, tables, loaded, disk, lost>>

\* No two operations of the process hold the lock, whatever their paths:
\* state_lock_keys puts StateLockKey::Process among the keys of every path.
LockFree == lock = NoHandle

\* rebuild_from_locked_jsonl up to the transaction
LoadLocked ==
    /\ conn = "waiting"
    /\ LockFree
    /\ Repair
    /\ lock' = Cache
    /\ loaded' = TablesOf(Snapshot(log, now))
    /\ conn' = "replacing"
    /\ UNCHANGED <<now, nextAttempt, snap, pc, call, at, recs, client,
                   tables, disk, lost>>

\* The file cannot be read, or a torn tail was cut off and the rest failed.
LoadLockedFails ==
    /\ conn = "waiting"
    /\ LockFree
    /\ \/ UNCHANGED <<tail, synced>>
       \/ tail = "torn" /\ tail' = "clean" /\ synced' \in {synced, Len(log)}
    /\ conn' = "open"
    /\ UNCHANGED <<log, dir, now, nextAttempt, lock, snap, pc, call, at, recs,
                   client, tables, loaded, disk, lost>>

\* rebuild_from_snapshot with the snapshot of an idle handle, or with one
\* that StateSnapshot::load has read without the lock.  It reads nothing that
\* the store writes, so its transaction is one step.
RebuildFromSnapshot ==
    /\ conn = "open"
    /\ \/ \E h \in Handle : pc[h] = "idle" /\ tables' = TablesOf(snap[h])
       \/ tail # "corrupt" /\ tables' = TablesOf(Snapshot(log, now))
    /\ lost' = FALSE
    /\ UNCHANGED <<vars, conn, loaded, disk>>

\* The guard of rebuild_from_locked_jsonl is dropped with its frame.
EndRebuild ==
    /\ conn = "replacing"
    /\ conn' = "open"
    /\ lock' = NoHandle
    /\ loaded' = EmptyTables
    /\ UNCHANGED <<file, now, nextAttempt, snap, pc, call, at, recs, client, disk>>

\* DELETE the rows of all tables, INSERT those of the snapshot, commit.
Commit ==
    /\ EndRebuild
    /\ tables' = loaded
    /\ lost' = FALSE

\* Mutant: the statements run without a transaction.
HalfReplaced == EndRebuild /\ tables' = [loaded EXCEPT !.points = {}] /\ UNCHANGED lost

\* Mutant: the guard is forgotten when the transaction fails.
RollbackLocked == conn = "replacing" /\ conn' = "open" /\ loaded' = EmptyTables
                  /\ UNCHANGED <<vars, tables, disk, lost>>

\* A statement or the commit fails: the transaction is rolled back.
Rollback ==
    /\ EndRebuild
    /\ UNCHANGED <<tables, lost>>

\* The process stops; SQLite rolls an unfinished transaction back.
CacheCrash ==
    /\ Crash
    /\ conn' = "closed"
    /\ loaded' = EmptyTables
    /\ disk' = NoEntry
    /\ lost' = (lost \/ Len(log') < Len(log))
    /\ UNCHANGED tables

StoreStep ==
    /\ \/ \E h \in Handle : Calling(h) \/ Deciding(h) \/ Writing(h)
       \/ Tick
    /\ UNCHANGED cacheVars

CacheNext == StoreStep \/ CacheCrash \/ OpenCache \/ OpenFails \/ CallRebuild
               \/ LoadLocked \/ LoadLockedFails \/ RebuildFromSnapshot \/ Commit \/ Rollback

\* What holds the lock is running code, as in FairSpec.
CacheSpec ==
    /\ CacheInit /\ [][CacheNext]_allVars
    /\ \A h \in Handle : WF_allVars(Writing(h) /\ UNCHANGED cacheVars)
    /\ WF_allVars(Commit \/ Rollback)
-----------------------------------------------------------------------------
\* The lookups.
ContainsProcessedMessage(m) == m \in tables.processed
CachedCheckpoint(r) == {x \in tables.points : x.room = r}

\* Whatever rebuilds failed, were cut short or used an old snapshot, the
\* lookups of the cache answer as the JSONL file did at one time: the
\* processed ids and the checkpoints of one and the same prefix of it.  (A
\* power loss may take records from the file that the cache has seen.)
CacheIsPrefix ==
    lost \/ \E n \in 0 .. Len(log) :
              LET s == Snapshot(SubSeq(log, 1, n), now)
              IN  /\ \A m \in Msg : ContainsProcessedMessage(m) <=> m \in s.processed
                  /\ \A r \in Room : CachedCheckpoint(r) = {x \in s.points : x.room = r}

\* While a cache is open its file is a regular file that only the user can
\* read, and nobody else can replace a directory on the way to it.
CacheGuarded ==
    conn # "closed" =>
        /\ disk.file.type = "file" /\ disk.file.owner = "self" /\ disk.file.private
        /\ \A i \in DOMAIN disk.dirs : disk.dirs[i].type = "dir"
                                        /\ disk.dirs[i].owner # "other"
                                        /\ (disk.dirs[i].writable => disk.dirs[i].sticky)

\* Store operations and rebuilds, failing ones included, give the
\* StatePathLock back.
LocksReleased == \A o \in Handle \cup {Cache} : lock = o ~> lock # o
=============================================================================
