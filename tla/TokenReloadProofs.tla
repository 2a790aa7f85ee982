------------------------- MODULE TokenReloadProofs -------------------------
(***************************************************************************)
(* Proofs about Tokens and TokenReload, for any number of tasks and        *)
(* commands, any paths and any number of tokens.                           *)
(***************************************************************************)
EXTENDS TokenReload, FiniteSetTheorems, SequenceTheorems, WellFoundedInduction, TLAPS

\* What a file or an answer holds when n tokens have been issued
Content(n) == [kind : {"tokens", "access", "secret", "none"}, access : 0 .. n, refresh : 0 .. n]

Pc == {"idle", "locking", "reading", "starting", "polling", "asking", "requesting", "unheard", "got",
       "access", "done", "failed"}

TokenTypeOK ==
    /\ cfg \in Configs
    /\ issued \in Nat /\ valid \subseteq 0 .. issued
    /\ \A l \in DOMAIN disk : disk[l] \in Content(issued)
    /\ proc \in [Proc -> [pc : Pc, seen : Content(issued), got : Content(issued)]]
    /\ lost \in BOOLEAN

\* A task that refreshes holds refresh_lock.  Nobody reads a token file
\* without a path.
LockInv ==
    /\ \A p \in Tasks :
         /\ proc[p].pc \in {"idle", "locking", "requesting", "unheard", "got"}
         /\ proc[p].pc # "idle" => cfg.token # NoPath
         /\ proc[p].pc \in {"requesting", "unheard", "got"} => lock = p
    /\ \A p \in Proc :
         /\ proc[p].pc = "locking" => p \in Tasks
         /\ proc[p].pc = "reading" /\ Kind(p) = "refresh" => cfg.token # NoPath

\* Nobody but p has a refresh token that p still has to save, if Webex
\* replaces it at each use.
FreshInv ==
    cfg.rotation = {TRUE} =>
        \A p \in Proc : proc[p].pc = "got" =>
            /\ \A q \in Proc : proc[q].pc = "requesting" => proc[q].seen.refresh # proc[p].got.refresh
            /\ \A q \in Proc \ {p} : proc[q].pc = "got" => proc[q].got.refresh # proc[p].got.refresh
            /\ cfg.token # NoPath /\ Read(cfg.token).kind = "tokens" => Read(cfg.token).refresh # proc[p].got.refresh

\* Webex always replaces a refresh token, or never; or only the tasks of one
\* client refresh.
Steady == cfg.rotation \in {{TRUE}, {FALSE}} \/ Tasks = Proc

\* What is yet to be saved is good, and so is the file unless somebody is
\* about to save it.
GotInv == Steady => \A p \in Proc : proc[p].pc = "got" => proc[p].got.refresh \in valid

DiskInv ==
    Steady /\ ~lost /\ cfg.token # NoPath /\ Read(cfg.token).kind = "tokens" =>
        Read(cfg.token).refresh \in valid \/ \E p \in Proc : proc[p].pc = "got"

\* Without commands nobody writes the file while a task refreshes it.
SeenInv ==
    Tasks = Proc => \A p \in Proc : proc[p].pc = "requesting" =>
                        proc[p].seen = Read(cfg.token) /\ proc[p].seen.kind = "tokens"

TokenInv == TokenTypeOK /\ LockInv /\ FreshInv /\ GotInv /\ DiskInv /\ SeenInv

\* The listeners: while a reload waits for the new one the active one is on,
\* and while it stops the old one the new one is.
ListenerInv ==
    /\ js \in {"down", "starting", "exited"} => on = {}
    /\ js = "running" => on = {IF reload = "stopping" THEN next ELSE active}
    /\ js \in {"down", "starting"} => reload = "idle"
    /\ js = "running" /\ reload = "starting" => next # active
-----------------------------------------------------------------------------
(***************************************************************************)
(* The listeners of the sidecar.                                           *)
(***************************************************************************)
LEMMA ListenerStep ==
    ListenerInv /\ [Next]_vars => ListenerInv'
<1> SUFFICES ASSUME ListenerInv, [Next]_vars PROVE ListenerInv'
  OBVIOUS
<1> USE DEF ListenerInv
<1>1. CASE Writes \/ Over \/ UNCHANGED vars
  BY <1>1 DEF Writes, Over, jsVars, vars
<1>2. CASE MainStarts
  BY <1>2 DEF MainStarts
<1>3. CASE MainListens \/ MainFails
  BY <1>3 DEF MainListens, MainFails
<1>4. CASE Reload
  BY <1>4 DEF Reload
<1>5. CASE ReloadStarted
  BY <1>5 DEF ReloadStarted
<1>6. CASE ReloadFails \/ ReloadDone \/ ReloadStopFails
  BY <1>6 DEF ReloadFails, ReloadDone, ReloadStopFails
<1>7. CASE Shutdown \/ ListenerStopped \/ ExitSidecar
  BY <1>7 DEF Shutdown, ListenerStopped, ExitSidecar
<1> QED  BY <1>1, <1>2, <1>3, <1>4, <1>5, <1>6, <1>7 DEF Next, Listener, Settles

\* A running sidecar always has a listener on, and exactly the active one
\* between two reloads; a stopped one has none.  The proof leans on the
\* order of reloadTokenIfChanged: the old handlers go off in the step in
\* which the new ones go on.
THEOREM NeverDeaf ==
    Spec => []OneListener
<1>1. Init => ListenerInv
  BY DEF Init, ListenerInv
<1>2. ListenerInv => OneListener
  BY DEF ListenerInv, OneListener
<1> QED  BY <1>1, <1>2, ListenerStep, PTL DEF Spec
-----------------------------------------------------------------------------
(***************************************************************************)
(* The token files.                                                        *)
(***************************************************************************)
\* A rename changes what is read at a path to the new content, or not at all.
LEMMA ReadPut ==
    ASSUME NEW p, NEW q, NEW x, disk' = Put(q, x)
    PROVE  Read(q)' = x /\ Read(p)' \in {Read(p), x}
BY DEF Read, Place, Put

LEMMA ReadSame ==
    ASSUME NEW p, disk' = disk
    PROVE  Read(p)' = Read(p)
BY DEF Read, Place

\* What is read is some content.
LEMMA ReadType ==
    ASSUME TokenTypeOK, NEW p
    PROVE  Read(p) \in Content(issued)
BY DEF TokenTypeOK, Read, Nothing, Content

LEMMA NumbersGrow ==
    ASSUME NEW n \in Nat, NEW S \in SUBSET (0 .. n)
    PROVE  S \cup {n + 1} \subseteq 0 .. (n + 1)
OBVIOUS

LEMMA ContentGrows ==
    ASSUME NEW n \in Nat
    PROVE  Content(n) \subseteq Content(n + 1)
BY DEF Content

ProcState == [pc : Pc, seen : Content(issued), got : Content(issued)]

\* Process p gets no further: it neither asks Webex nor has an answer any
\* more.  If it had one, that is known to be lost, or the file is good.
Quiet(p) ==
    /\ UNCHANGED <<cfg, disk, valid, issued>>
    /\ proc' \in [Proc -> ProcState]
    /\ \A q \in Proc \ {p} : proc'[q] = proc[q]
    /\ proc'[p].pc \notin {"requesting", "unheard", "got"}
    /\ p \in Tasks => /\ proc'[p].pc \in {"idle", "locking"}
                      /\ proc'[p].pc = "locking" => cfg.token # NoPath
    /\ proc'[p].pc = "locking" => p \in Tasks
    /\ proc'[p].pc = "reading" /\ Kind(p) = "refresh" => cfg.token # NoPath
    /\ lock' = lock \/ (lock = p /\ lock' = NoProc)
    /\ lost' \in BOOLEAN /\ (lost => lost')
    /\ proc[p].pc = "got" => \/ lost' = TRUE
                             \/ cfg.token # NoPath => Read(cfg.token).refresh \in valid
                             \/ proc[p].got.refresh \notin valid

LEMMA QuietInv ==
    ASSUME TokenInv, NEW p \in Proc, Quiet(p)
    PROVE  TokenInv'
<1>1. /\ UNCHANGED <<cfg, disk, valid, issued>>
      /\ Read(cfg.token)' = Read(cfg.token)
      /\ Tasks' = Tasks
      /\ Steady' = Steady
      /\ Tasks \subseteq Proc
      /\ \A q : Kind(q)' = Kind(q)
  BY DEF Quiet, Read, Place, Tasks, Kind, Steady
<1>2. TokenTypeOK'
  BY <1>1 DEF TokenInv, TokenTypeOK, Quiet, ProcState
<1>3. LockInv'
  BY <1>1 DEF TokenInv, LockInv, Quiet
<1>4. FreshInv'
  BY <1>1 DEF TokenInv, FreshInv, Quiet
<1>5. GotInv'
  BY <1>1 DEF TokenInv, GotInv, Quiet
<1>6. DiskInv'
  BY <1>1 DEF TokenInv, DiskInv, GotInv, Quiet
<1>7. SeenInv'
  BY <1>1 DEF TokenInv, SeenInv, Quiet
<1> QED  BY <1>2, <1>3, <1>4, <1>5, <1>6, <1>7 DEF TokenInv

\* Where a process goes by Goto and by Finish.
LEMMA GotoFacts ==
    ASSUME TokenTypeOK, NEW p \in Proc, NEW l \in Pc, Goto(p, l)
    PROVE  /\ proc' \in [Proc -> ProcState]
           /\ \A q \in Proc \ {p} : proc'[q] = proc[q]
           /\ proc'[p].pc = l
BY DEF TokenTypeOK, Goto, ProcState

LEMMA FinishFacts ==
    ASSUME TokenTypeOK, NEW p \in Proc, NEW l \in {"done", "failed"}, Finish(p, l)
    PROVE  /\ proc' \in [Proc -> ProcState]
           /\ \A q \in Proc \ {p} : proc'[q] = proc[q]
           /\ proc'[p].pc \in {"idle", "done", "failed"}
           /\ p \in Tasks => proc'[p].pc = "idle"
           /\ lock' = lock \/ (lock = p /\ lock' = NoProc)
BY DEF TokenTypeOK, Finish, ProcState, Pc, Nothing, Content, Tasks

\* The steps at which a process waits, gives up or is refused are quiet.
LEMMA QuietSteps ==
    ASSUME TokenInv, NEW p \in Proc, NEW r,
           \/ Load(p) \/ Validate(p) \/ StartDevice(p) \/ DeviceStarted(p) \/ DeviceExpired(p) \/ Poll(p)
           \/ PollPending(p, r) \/ PollFails(p, r) \/ Refused(p) \/ KillCommand(p)
    PROVE  Quiet(p)
<1>0. TokenTypeOK /\ LockInv /\ lost \in BOOLEAN
  BY DEF TokenInv, TokenTypeOK
<1>1. CASE Load(p)
  <2>1. Read(cfg.token) \in Content(issued)
    BY <1>0, ReadType
  <2>2. cfg.token # NoPath
    BY <1>1 DEF Load, Refreshes, AuthSource, OrElse
  <2> QED  BY <1>0, <1>1, <2>1, <2>2
           DEF Load, files, webex, Quiet, TokenTypeOK, ProcState, Pc, Tasks
<1>2. CASE \/ Validate(p) \/ StartDevice(p) \/ DeviceStarted(p) \/ DeviceExpired(p) \/ Poll(p)
           \/ PollPending(p, r) \/ PollFails(p, r)
  <2>1. PICK l \in {"reading", "starting", "polling", "asking", "failed"} : Goto(p, l)
    BY <1>2 DEF Validate, StartDevice, DeviceStarted, DeviceExpired, Poll, PollPending, PollFails
  <2>2. p \notin Tasks
    BY <1>0, <1>2 DEF Validate, StartDevice, DeviceStarted, DeviceExpired, Poll, PollPending, PollFails, LockInv, Tasks
  <2>3. UNCHANGED <<cfg, disk, valid, issued, lock, lost>> /\ proc[p].pc # "got"
    BY <1>2 DEF Validate, StartDevice, DeviceStarted, DeviceExpired, Poll, PollPending, PollFails, files, webex
  <2>4. l \in Pc
    BY DEF Pc
  <2>5. l = "reading" /\ Kind(p) = "refresh" => cfg.token # NoPath
    <3>1. CASE Validate(p)
      <4> SUFFICES ASSUME l = "reading", Kind(p) = "refresh", cfg.token = NoPath PROVE FALSE
        OBVIOUS
      <4>1. Goto(p, "failed")
        BY <3>1 DEF Validate
      <4> QED  BY <1>0, <2>1, <4>1 DEF Goto, TokenTypeOK
    <3>2. CASE \/ StartDevice(p) \/ DeviceStarted(p) \/ DeviceExpired(p) \/ Poll(p)
               \/ PollPending(p, r) \/ PollFails(p, r)
      <4>1. PICK k \in {"starting", "polling", "asking", "failed"} : Goto(p, k)
        BY <3>2 DEF StartDevice, DeviceStarted, DeviceExpired, Poll, PollPending, PollFails
      <4>2. l = k
        BY <1>0, <2>1, <4>1 DEF Goto, TokenTypeOK
      <4> QED  BY <4>2
    <3> QED  BY <1>2, <3>1, <3>2
  <2> QED  BY <1>0, <2>1, <2>2, <2>3, <2>4, <2>5, GotoFacts DEF Quiet
<1>3. CASE Refused(p)
  BY <1>0, <1>3, FinishFacts DEF Refused, files, webex, Quiet
<1>4. CASE KillCommand(p)
  BY <1>0, <1>4, FinishFacts DEF KillCommand, Dropped, webex, Quiet
<1> QED  BY <1>1, <1>2, <1>3, <1>4

\* A task under the lock, or `auth refresh`, asks for a new token with the one
\* it has just read.
LEMMA RequestInv ==
    ASSUME TokenInv, NEW p \in Proc,
           UNCHANGED <<cfg, disk, valid, issued, lost>>,
           proc' = [proc EXCEPT ![p].pc = "requesting", ![p].seen = Read(cfg.token)],
           proc[p].pc # "got",
           Read(cfg.token).kind = "tokens", cfg.token # NoPath,
           IF p \in Tasks THEN lock = NoProc /\ lock' = p ELSE lock' = lock
    PROVE  TokenInv'
<1>1. /\ Read(cfg.token)' = Read(cfg.token)
      /\ Tasks' = Tasks
      /\ Steady' = Steady
      /\ Tasks \subseteq Proc
      /\ \A q : Kind(q)' = Kind(q)
  BY DEF Read, Place, Tasks, Kind, Steady
<1>2. /\ \A q \in Proc \ {p} : proc'[q] = proc[q]
      /\ proc'[p].pc = "requesting" /\ proc'[p].seen = Read(cfg.token)
      /\ proc' \in [Proc -> ProcState]
  <2>1. Read(cfg.token) \in Content(issued)
    BY ReadType DEF TokenInv
  <2> QED  BY <2>1 DEF TokenInv, TokenTypeOK, ProcState, Pc
<1>3. TokenTypeOK'
  BY <1>1, <1>2 DEF TokenInv, TokenTypeOK, ProcState
<1>4. LockInv'
  BY <1>1, <1>2, ProcAssumption DEF TokenInv, LockInv
<1>5. FreshInv'
  BY <1>1, <1>2 DEF TokenInv, FreshInv
<1>6. GotInv' /\ DiskInv' /\ SeenInv'
  BY <1>1, <1>2 DEF TokenInv, GotInv, DiskInv, SeenInv
<1> QED  BY <1>3, <1>4, <1>5, <1>6 DEF TokenInv

LEMMA LockStep ==
    ASSUME TokenInv, NEW p \in Proc, Lock(p) \/ ReadTokens(p)
    PROVE  TokenInv'
<1>0. TokenTypeOK /\ LockInv /\ lost \in BOOLEAN
  BY DEF TokenInv, TokenTypeOK
<1>1. CASE Lock(p)
  <2>0. UNCHANGED <<cfg, disk, valid, issued, lost>> /\ proc[p].pc = "locking" /\ lock = NoProc
    BY <1>1 DEF Lock, files, webex
  <2>1. CASE Finish(p, "failed")
    BY <1>0, <2>0, <2>1, FinishFacts, QuietInv DEF Quiet
  <2>2. CASE ~Finish(p, "failed")
    <3>1. /\ lock' = p /\ Read(cfg.token).kind = "tokens"
          /\ proc' = [proc EXCEPT ![p].pc = "requesting", ![p].seen = Read(cfg.token)]
      BY <1>1, <2>2 DEF Lock
    <3>2. p \in Tasks /\ cfg.token # NoPath
      BY <1>0, <2>0 DEF LockInv
    <3> QED  BY <2>0, <3>1, <3>2, RequestInv
  <2> QED  BY <2>1, <2>2
<1>2. CASE ReadTokens(p)
  <2>0. UNCHANGED <<cfg, disk, valid, issued, lost, lock>> /\ proc[p].pc = "reading" /\ p \notin Tasks
    BY <1>2 DEF ReadTokens, files, webex, Tasks
  <2>1. CASE Goto(p, "failed")
    <3>1. "failed" \in Pc
      BY DEF Pc
    <3> QED  BY <1>0, <2>0, <2>1, <3>1, GotoFacts, QuietInv DEF Quiet
  <2>2. CASE ~Goto(p, "failed")
    <3>1. /\ Read(cfg.token).kind = "tokens" /\ Kind(p) = "refresh"
          /\ proc' = [proc EXCEPT ![p].pc = "requesting", ![p].seen = Read(cfg.token)]
      BY <1>2, <2>2 DEF ReadTokens
    <3>2. cfg.token # NoPath
      BY <1>0, <2>0, <3>1 DEF LockInv
    <3> QED  BY <2>0, <3>1, <3>2, RequestInv
  <2> QED  BY <2>1, <2>2
<1> QED  BY <1>1, <1>2

\* An answer of Webex: p has a fresh token set x.  Nothing but the refresh
\* token that p has used may have been replaced.
LEMMA AnswerInv ==
    ASSUME TokenInv, NEW p \in Proc, NEW x \in Content(issued + 1),
           UNCHANGED <<cfg, disk, lost, lock>>,
           issued' = issued + 1,
           valid' \subseteq valid \cup {issued + 1},
           \A y \in valid \ valid' : /\ proc[p].pc = "requesting" /\ y = proc[p].seen.refresh
                                     /\ cfg.rotation # {FALSE},
           proc[p].pc \in {"asking", "requesting"},
           proc' = [proc EXCEPT ![p].pc = "got", ![p].got = x],
           x.refresh \in valid',
           cfg.rotation = {TRUE} => x.refresh = issued + 1
    PROVE  TokenInv'
<1>0. issued \in Nat /\ valid \subseteq 0 .. issued
  BY DEF TokenInv, TokenTypeOK
<1>1. /\ Read(cfg.token)' = Read(cfg.token)
      /\ Read(cfg.token) \in Content(issued)
      /\ Tasks' = Tasks
      /\ Steady' = Steady
      /\ Tasks \subseteq Proc
      /\ \A q : Kind(q)' = Kind(q)
      /\ Content(issued) \subseteq Content(issued + 1)
  BY <1>0, ReadSame, ReadType, ContentGrows DEF TokenInv, Tasks, Kind, Steady
<1>2. /\ \A q \in Proc \ {p} : proc'[q] = proc[q]
      /\ proc'[p].pc = "got" /\ proc'[p].got = x /\ proc'[p].seen = proc[p].seen
      /\ proc' \in [Proc -> [pc : Pc, seen : Content(issued + 1), got : Content(issued + 1)]]
      /\ \A q \in Proc : proc[q].seen.refresh \in 0 .. issued /\ proc[q].got.refresh \in 0 .. issued
  <2>1. proc \in [Proc -> [pc : Pc, seen : Content(issued), got : Content(issued)]]
    BY DEF TokenInv, TokenTypeOK
  <2>2. \A q \in Proc : proc[q].seen.refresh \in 0 .. issued /\ proc[q].got.refresh \in 0 .. issued
    BY <2>1 DEF Content
  <2>3. proc \in [Proc -> [pc : Pc, seen : Content(issued + 1), got : Content(issued + 1)]]
    BY <1>1, <2>1
  <2> QED  BY <2>1, <2>2, <2>3 DEF Pc
<1>3. TokenTypeOK'
  <2>1. valid' \subseteq 0 .. issued'
    BY <1>0
  <2>2. \A l \in DOMAIN disk' : disk'[l] \in Content(issued')
    BY <1>1 DEF TokenInv, TokenTypeOK
  <2> QED  BY <1>0, <1>2, <2>1, <2>2 DEF TokenInv, TokenTypeOK
<1>4. LockInv'
  BY <1>1, <1>2 DEF TokenInv, LockInv
<1>5. FreshInv'
  <2> SUFFICES ASSUME cfg.rotation = {TRUE}, NEW q \in Proc, proc'[q].pc = "got"
               PROVE  /\ \A s \in Proc : proc'[s].pc = "requesting" => proc'[s].seen.refresh # proc'[q].got.refresh
                      /\ \A s \in Proc \ {q} : proc'[s].pc = "got" => proc'[s].got.refresh # proc'[q].got.refresh
                      /\ cfg.token # NoPath /\ Read(cfg.token).kind = "tokens" =>
                           Read(cfg.token).refresh # proc'[q].got.refresh
    BY <1>1 DEF FreshInv
  <2>1. x.refresh = issued + 1
    OBVIOUS
  <2>2. Read(cfg.token).refresh \in 0 .. issued
    BY <1>1 DEF Content
  <2>3. \A y \in 0 .. issued : y # issued + 1
    BY <1>0
  <2>4. CASE q = p
    BY <1>2, <2>1, <2>2, <2>3, <2>4
  <2>5. CASE q # p
    <3>1. proc'[q] = proc[q]
      BY <1>2, <2>5
    <3>2. proc'[q].got.refresh # issued + 1
      BY <1>2, <2>3, <3>1
    <3> QED  BY <1>2, <2>1, <2>5, <3>1, <3>2 DEF TokenInv, FreshInv
  <2> QED  BY <2>4, <2>5
<1>6. GotInv'
  <2> SUFFICES ASSUME Steady, NEW q \in Proc, q # p, proc[q].pc = "got",
                      proc[q].got.refresh \notin valid'
               PROVE  FALSE
    BY <1>1, <1>2 DEF GotInv
  <2>1. proc[q].got.refresh \in valid
    BY DEF TokenInv, GotInv
  <2>2. /\ proc[p].pc = "requesting" /\ proc[q].got.refresh = proc[p].seen.refresh
        /\ cfg.rotation # {FALSE}
    BY <2>1
  <2>3. CASE cfg.rotation = {TRUE}
    BY <2>2, <2>3 DEF TokenInv, FreshInv
  <2>4. CASE Tasks = Proc
    BY <2>2, <2>4 DEF TokenInv, LockInv
  <2> QED  BY <2>2, <2>3, <2>4 DEF Steady
<1>7. DiskInv'
  BY <1>2 DEF DiskInv
<1>8. SeenInv'
  BY <1>1, <1>2 DEF TokenInv, SeenInv
<1> QED  BY <1>3, <1>4, <1>5, <1>6, <1>7, <1>8 DEF TokenInv

\* The answers: an authorized device, and a granted refresh.
LEMMA AnswerSteps ==
    ASSUME TokenInv, NEW p \in Proc, NEW r, NEW rotated \in BOOLEAN,
           PollAuthorized(p, r) \/ Granted(p, rotated)
    PROVE  TokenInv'
<1>0. issued \in Nat /\ valid \subseteq 0 .. issued
  BY DEF TokenInv, TokenTypeOK
<1>1. CASE PollAuthorized(p, r)
  <2> DEFINE x == TokenSet(issued + 1, issued + 1)
  <2>1. x \in Content(issued + 1) /\ x.refresh = issued + 1
    BY <1>0 DEF Content, TokenSet
  <2> HIDE DEF x
  <2>2. /\ UNCHANGED <<cfg, disk, lost, lock>> /\ issued' = issued + 1
        /\ valid' = valid \cup {issued + 1}
        /\ proc[p].pc = "asking"
        /\ proc' = [proc EXCEPT ![p].pc = "got", ![p].got = x]
    BY <1>1 DEF PollAuthorized, files, x
  <2> QED  BY <2>1, <2>2, AnswerInv
<1>2. CASE Granted(p, rotated)
  <2> DEFINE x == KeepRefresh(Answer(rotated), proc[p].seen)
  <2>0. proc[p].seen.refresh \in valid /\ rotated \in cfg.rotation /\ proc[p].pc = "requesting"
    BY <1>2 DEF Granted, Grant
  <2>9. proc[p].seen.refresh \in valid
    BY <2>0
  <2>1. /\ x \in Content(issued + 1)
        /\ x.refresh = IF rotated THEN issued + 1 ELSE proc[p].seen.refresh
    <3>1. proc[p].seen.refresh \in 0 .. (issued + 1)
      BY <1>0, <2>9, NumbersGrow
    <3>2. CASE rotated
      BY <1>0, <3>1, <3>2 DEF KeepRefresh, Answer, TokenSet, Content
    <3>3. CASE ~rotated
      BY <1>0, <3>1, <3>3 DEF KeepRefresh, Answer, TokenSet, Content
    <3> QED  BY <3>2, <3>3
  <2> HIDE DEF x
  <2>2. /\ UNCHANGED <<cfg, disk, lost, lock>> /\ issued' = issued + 1
        /\ valid' = IF rotated THEN (valid \ {proc[p].seen.refresh}) \cup {issued + 1} ELSE valid
        /\ proc' = [proc EXCEPT ![p].pc = "got", ![p].got = x]
    BY <1>2 DEF Granted, Grant, files, x
  <2>3. x.refresh \in valid' /\ valid' \subseteq valid \cup {issued + 1}
    BY <2>0, <2>1, <2>2
  <2>4. cfg.rotation = {TRUE} => x.refresh = issued + 1
    BY <2>0, <2>1
  <2>5. \A y \in valid \ valid' : y = proc[p].seen.refresh /\ cfg.rotation # {FALSE}
    <3>1. CASE rotated = TRUE
      <4>1. TRUE \in cfg.rotation
        BY <2>0, <3>1
      <4>2. cfg.rotation # {FALSE}
        BY <4>1, Zenon
      <4>3. valid' = (valid \ {proc[p].seen.refresh}) \cup {issued + 1}
        BY <2>2, <3>1
      <4> QED  BY <4>2, <4>3
    <3>2. CASE rotated = FALSE
      BY <2>2, <3>2
    <3> QED  BY <3>1, <3>2
  <2> QED  BY <2>0, <2>1, <2>2, <2>3, <2>4, <2>5, AnswerInv
<1> QED  BY <1>1, <1>2

\* Webex grants a refresh, and nobody hears of it: a replaced token is lost,
\* another one still good.
LEMMA UnheardStep ==
    ASSUME TokenInv, NEW p \in Proc, NEW rotated \in BOOLEAN, GrantedUnheard(p, rotated)
    PROVE  TokenInv'
<1>0. /\ TokenTypeOK /\ issued \in Nat /\ valid \subseteq 0 .. issued /\ lost \in BOOLEAN
      /\ issued' = issued + 1 /\ UNCHANGED <<cfg, disk>>
      /\ proc[p].pc = "requesting" /\ rotated \in cfg.rotation
      /\ valid' = IF rotated THEN (valid \ {proc[p].seen.refresh}) \cup {issued + 1} ELSE valid
      /\ lost' = (lost \/ rotated)
  BY DEF TokenInv, TokenTypeOK, GrantedUnheard, Grant
<1>1. /\ Read(cfg.token)' = Read(cfg.token)
      /\ Tasks' = Tasks
      /\ Steady' = Steady
      /\ Tasks \subseteq Proc
      /\ \A q : Kind(q)' = Kind(q)
      /\ Content(issued) \subseteq Content(issued + 1)
  BY <1>0, ReadSame, ContentGrows DEF Tasks, Kind, Steady
<1>2. /\ proc' \in [Proc -> ProcState]
      /\ \A q \in Proc \ {p} : proc'[q] = proc[q]
      /\ proc'[p].pc = "unheard" /\ lock' = lock
  BY <1>0, GotoFacts DEF GrantedUnheard, Pc
<1>3. TokenTypeOK'
  <2>1. valid' \subseteq 0 .. issued'
    <3>1. valid' \subseteq valid \cup {issued + 1} /\ issued' = issued + 1
      BY <1>0
    <3>2. valid \cup {issued + 1} \subseteq 0 .. (issued + 1)
      BY <1>0, NumbersGrow
    <3> QED  BY <3>1, <3>2
  <2>2. proc' \in [Proc -> [pc : Pc, seen : Content(issued'), got : Content(issued')]]
    BY <1>0, <1>1, <1>2 DEF ProcState
  <2>3. \A l \in DOMAIN disk' : disk'[l] \in Content(issued')
    BY <1>0, <1>1 DEF TokenTypeOK
  <2>4. lost' \in BOOLEAN
    BY <1>0
  <2> QED  BY <1>0, <2>1, <2>2, <2>3, <2>4 DEF TokenTypeOK
<1>4. LockInv'
  BY <1>0, <1>1, <1>2 DEF TokenInv, LockInv
<1>5. FreshInv'
  BY <1>0, <1>1, <1>2 DEF TokenInv, FreshInv
<1>6. GotInv'
  <2> SUFFICES ASSUME Steady, NEW q \in Proc, q # p, proc[q].pc = "got",
                      proc[q].got.refresh \notin valid'
               PROVE  FALSE
    BY <1>1, <1>2 DEF GotInv
  <2>1. proc[q].got.refresh \in valid
    BY DEF TokenInv, GotInv
  <2>2. rotated = TRUE /\ proc[q].got.refresh = proc[p].seen.refresh
    BY <1>0, <2>1
  <2>3. CASE cfg.rotation = {TRUE}
    BY <1>0, <2>2, <2>3 DEF TokenInv, FreshInv
  <2>4. CASE Tasks = Proc
    BY <1>0, <2>2, <2>4 DEF TokenInv, LockInv
  <2>5. cfg.rotation # {FALSE}
    <3>1. TRUE \in cfg.rotation
      BY <1>0, <2>2
    <3> QED  BY <3>1, Zenon
  <2> QED  BY <2>3, <2>4, <2>5 DEF Steady
<1>7. DiskInv'
  <2>1. CASE rotated = TRUE
    BY <1>0, <2>1 DEF DiskInv
  <2>2. CASE rotated = FALSE
    <3>1. valid' = valid /\ lost' = lost
      BY <1>0, <2>2
    <3> QED  BY <1>0, <1>1, <1>2, <3>1 DEF TokenInv, DiskInv
  <2> QED  BY <2>1, <2>2
<1>8. SeenInv'
  BY <1>0, <1>1, <1>2 DEF TokenInv, SeenInv
<1> QED  BY <1>3, <1>4, <1>5, <1>6, <1>7, <1>8 DEF TokenInv

\* The token file is replaced by what p has received.
LEMMA SaveInv ==
    ASSUME TokenInv, NEW p \in Proc, proc[p].pc = "got",
           UNCHANGED <<cfg, valid, issued, lost>>,
           cfg.token # NoPath, disk' = Put(cfg.token, proc[p].got),
           proc' \in [Proc -> ProcState],
           \A q \in Proc \ {p} : proc'[q] = proc[q],
           proc'[p].pc \in {"idle", "done", "failed", "access"},
           p \in Tasks => proc'[p].pc = "idle",
           lock' = lock \/ (lock = p /\ lock' = NoProc)
    PROVE  TokenInv'
<1>1. /\ Read(cfg.token)' = proc[p].got
      /\ Tasks' = Tasks
      /\ Steady' = Steady
      /\ Tasks \subseteq Proc
      /\ \A q : Kind(q)' = Kind(q)
  BY ReadPut DEF Tasks, Kind, Steady
<1>2. TokenTypeOK'
  <2>1. \A l \in DOMAIN disk' : disk'[l] \in Content(issued')
    BY DEF TokenInv, TokenTypeOK, Put
  <2> QED  BY <2>1 DEF TokenInv, TokenTypeOK, ProcState
<1>3. LockInv'
  BY <1>1 DEF TokenInv, LockInv
<1>4. FreshInv'
  BY <1>1 DEF TokenInv, FreshInv
<1>5. GotInv'
  BY <1>1 DEF TokenInv, GotInv
<1>6. DiskInv'
  BY <1>1 DEF TokenInv, GotInv, DiskInv
<1>7. SeenInv'
  BY <1>1 DEF TokenInv, SeenInv, LockInv
<1> QED  BY <1>2, <1>3, <1>4, <1>5, <1>6, <1>7 DEF TokenInv

LEMMA SaveSteps ==
    ASSUME TokenInv, NEW p \in Proc, SaveTokens(p) \/ SaveTokensFails(p)
    PROVE  TokenInv'
<1>0. /\ TokenTypeOK /\ LockInv /\ lost \in BOOLEAN
      /\ UNCHANGED <<cfg, valid, issued>> /\ proc[p].pc = "got"
  BY DEF TokenInv, TokenTypeOK, SaveTokens, SaveTokensFails, webex
<1>1. CASE SaveTokens(p)
  <2>1. /\ proc' \in [Proc -> ProcState]
        /\ \A q \in Proc \ {p} : proc'[q] = proc[q]
        /\ proc'[p].pc \in {"idle", "done", "failed", "access"}
        /\ p \in Tasks => proc'[p].pc = "idle"
        /\ lock' = lock \/ (lock = p /\ lock' = NoProc)
    <3>1. CASE NextSave(p) = "done"
      BY <1>0, <1>1, <3>1, FinishFacts DEF SaveTokens
    <3>2. CASE NextSave(p) # "done"
      <4>1. Goto(p, "access") /\ lock' = lock
        BY <1>1, <3>2 DEF SaveTokens
      <4>2. p \notin Tasks
        BY <3>2 DEF NextSave, Tasks
      <4>3. "access" \in Pc
        BY DEF Pc
      <4> QED  BY <1>0, <4>1, <4>2, <4>3, GotoFacts
    <3> QED  BY <3>1, <3>2
  <2>2. CASE cfg.token = NoPath
    <3>1. disk' = disk /\ lost' = lost
      BY <1>1, <2>2 DEF SaveTokens
    <3> QED  BY <1>0, <2>1, <2>2, <3>1, QuietInv DEF Quiet
  <2>3. CASE cfg.token # NoPath
    <3>1. disk' = Put(cfg.token, proc[p].got) /\ lost' = lost
      BY <1>1, <2>3 DEF SaveTokens
    <3> QED  BY <1>0, <2>1, <2>3, <3>1, SaveInv
  <2> QED  BY <2>2, <2>3
<1>2. CASE SaveTokensFails(p)
  <2>1. /\ proc' \in [Proc -> ProcState]
        /\ \A q \in Proc \ {p} : proc'[q] = proc[q]
        /\ proc'[p].pc \in {"idle", "done", "failed"}
        /\ p \in Tasks => proc'[p].pc = "idle"
        /\ lock' = lock \/ (lock = p /\ lock' = NoProc)
    BY <1>0, <1>2, FinishFacts DEF SaveTokensFails
  <2>2. CASE disk' = disk /\ lost' = (lost \/ Dropped(p))
    <3>1. lost' = TRUE \/ (lost' = lost /\ ~Dropped(p))
      BY <1>0, <2>2 DEF Dropped
    <3>2. lost' \in BOOLEAN /\ (lost => lost')
      BY <1>0, <2>2 DEF Dropped
    <3> QED  BY <1>0, <2>1, <2>2, <3>1, <3>2, QuietInv DEF Quiet, Dropped
  <2>3. CASE disk' = Put(cfg.token, proc[p].got) /\ lost' = lost
    <3>1. cfg.token # NoPath
      BY <1>2 DEF SaveTokensFails
    <3> QED  BY <1>0, <2>1, <2>3, <3>1, SaveInv
  <2> QED  BY <1>2, <2>2, <2>3 DEF SaveTokensFails
<1> QED  BY <1>1, <1>2

\* The access-token file may be the token file, if the paths were not checked;
\* then the token file holds no token set any more.
LEMMA AccessSteps ==
    ASSUME TokenInv, NEW p \in Proc, SaveAccess(p) \/ SaveAccessFails(p)
    PROVE  TokenInv'
<1> DEFINE x == AccessToken(proc[p].got.access)
<1>0. /\ TokenTypeOK /\ LockInv /\ lost \in BOOLEAN
      /\ UNCHANGED <<cfg, valid, issued, lost>> /\ proc[p].pc = "access"
      /\ p \notin Tasks
  BY DEF TokenInv, TokenTypeOK, SaveAccess, SaveAccessFails, webex, LockInv
<1>1. PICK l \in {"done", "failed"} : Finish(p, l)
  BY DEF SaveAccess, SaveAccessFails
<1>2. /\ proc' \in [Proc -> ProcState]
      /\ \A q \in Proc \ {p} : proc'[q] = proc[q]
      /\ proc'[p].pc \in {"idle", "done", "failed"}
      /\ lock' = lock \/ (lock = p /\ lock' = NoProc)
  BY <1>0, <1>1, FinishFacts
<1>3. CASE disk' = disk
  BY <1>0, <1>2, <1>3, QuietInv DEF Quiet
<1>4. CASE disk' = Put(cfg.access, x)
  <2>0. x \in Content(issued) /\ x.kind = "access"
    BY <1>0 DEF AccessToken, TokenTypeOK, Content
  <2> HIDE DEF x
  <2>1. /\ Read(cfg.token)' = Read(cfg.token) \/ Read(cfg.token)'.kind = "access"
        /\ Tasks' = Tasks /\ Tasks # Proc
        /\ Steady' = Steady
        /\ Tasks \subseteq Proc
        /\ \A q : Kind(q)' = Kind(q)
    <3>1. Read(cfg.token)' \in {Read(cfg.token), x}
      BY <1>0, <1>4, ReadPut
    <3> QED  BY <1>0, <2>0, <3>1 DEF Tasks, Kind, Steady
  <2>2. TokenTypeOK'
    <3>1. \A k \in DOMAIN disk' : disk'[k] \in Content(issued')
      BY <1>0, <1>4, <2>0 DEF TokenTypeOK, Put
    <3> QED  BY <1>0, <1>2, <3>1 DEF TokenTypeOK, ProcState
  <2>3. LockInv'
    BY <1>0, <1>2, <2>1 DEF LockInv
  <2>4. FreshInv'
    BY <1>0, <1>2, <2>1 DEF TokenInv, FreshInv
  <2>5. GotInv' /\ DiskInv' /\ SeenInv'
    BY <1>0, <1>2, <2>1 DEF TokenInv, GotInv, DiskInv, SeenInv
  <2> QED  BY <2>2, <2>3, <2>4, <2>5 DEF TokenInv
<1> QED  BY <1>3, <1>4 DEF SaveAccess, SaveAccessFails

LEMMA KillStep ==
    ASSUME TokenInv, KillClient
    PROVE  TokenInv'
<1>0. /\ TokenTypeOK /\ lost \in BOOLEAN
      /\ UNCHANGED <<cfg, disk, valid, issued>>
      /\ lost' = (lost \/ \E p \in Tasks : Dropped(p))
      /\ lock' = NoProc
  BY DEF TokenInv, TokenTypeOK, KillClient, webex
<1>1. /\ Read(cfg.token)' = Read(cfg.token)
      /\ Tasks' = Tasks
      /\ Steady' = Steady
      /\ Tasks \subseteq Proc
      /\ \A q : Kind(q)' = Kind(q)
  BY <1>0, ReadSame DEF Tasks, Kind, Steady
<1>2. /\ proc' \in [Proc -> ProcState]
      /\ \A q \in Proc \ Tasks : proc'[q] = proc[q]
      /\ \A q \in Tasks : proc'[q].pc = "idle"
  BY <1>0, <1>1 DEF KillClient, TokenTypeOK, ProcState, Pc, Nothing, Content
<1>3. TokenTypeOK'
  BY <1>0, <1>2 DEF TokenTypeOK, ProcState
<1>4. LockInv'
  BY <1>0, <1>1, <1>2 DEF TokenInv, LockInv
<1>5. FreshInv'
  BY <1>0, <1>1, <1>2 DEF TokenInv, FreshInv
<1>6. GotInv' /\ SeenInv'
  BY <1>0, <1>1, <1>2 DEF TokenInv, GotInv, SeenInv
<1>7. DiskInv'
  <2> SUFFICES ASSUME Steady, ~lost', cfg.token # NoPath, Read(cfg.token).kind = "tokens",
                      Read(cfg.token).refresh \notin valid
               PROVE  \E q \in Proc : proc'[q].pc = "got"
    BY <1>0, <1>1 DEF DiskInv
  <2>1. PICK q \in Proc : proc[q].pc = "got"
    BY <1>0 DEF TokenInv, DiskInv
  <2>2. proc[q].got.refresh \in valid
    BY <2>1 DEF TokenInv, GotInv
  <2>3. q \notin Tasks
    BY <1>0, <2>1, <2>2 DEF Dropped
  <2> QED  BY <1>2, <2>1, <2>3
<1> QED  BY <1>3, <1>4, <1>5, <1>6, <1>7 DEF TokenInv

\* Nothing that matters here changes.
LEMMA UnchangedInv ==
    ASSUME TokenInv, UNCHANGED <<cfg, disk, valid, issued, proc, lock, lost>>
    PROVE  TokenInv'
<1>1. /\ Read(cfg.token)' = Read(cfg.token)
      /\ Tasks' = Tasks
      /\ Steady' = Steady
      /\ \A q : Kind(q)' = Kind(q)
  BY ReadSame DEF Tasks, Kind, Steady
<1> QED  BY <1>1 DEF TokenInv, TokenTypeOK, LockInv, FreshInv, GotInv, DiskInv, SeenInv

LEMMA TokenInitInv ==
    TokenInit => TokenInv
<1> SUFFICES ASSUME TokenInit PROVE TokenInv
  OBVIOUS
<1>1. /\ cfg \in Configs /\ valid = {1} /\ issued = 1 /\ lost = FALSE
      /\ proc = [p \in Proc |-> [pc |-> "idle", seen |-> Nothing, got |-> Nothing]]
  BY DEF TokenInit
<1>2. \A l \in DOMAIN disk : disk[l] \in {Secret, TokenSet(1, 1)}
  <2> DEFINE s == IF SecretPath = NoPath THEN {} ELSE {Target[SecretPath]}
             t == IF cfg.stored THEN {Target[cfg.token]} ELSE {}
  <2>1. disk = [l \in s \cup t |-> IF l \in s THEN Secret ELSE TokenSet(1, 1)]
    BY DEF TokenInit
  <2> HIDE DEF s, t
  <2> QED  BY <2>1
<1>3. Secret \in Content(1) /\ TokenSet(1, 1) \in Content(1) /\ Nothing \in Content(1)
  <2>1. 0 \in 0 .. 1 /\ 1 \in 0 .. 1
    OBVIOUS
  <2>2. Secret \in Content(1)
    BY <2>1 DEF Secret, Content
  <2>3. TokenSet(1, 1) \in Content(1)
    BY <2>1 DEF TokenSet, Content
  <2>4. Nothing \in Content(1)
    BY <2>1 DEF Nothing, Content
  <2> QED  BY <2>2, <2>3, <2>4
<1>4. TokenTypeOK
  <2>1. \A l \in DOMAIN disk : disk[l] \in Content(issued)
    BY <1>1, <1>2, <1>3
  <2>2. proc \in [Proc -> [pc : Pc, seen : Content(issued), got : Content(issued)]]
    BY <1>1, <1>3 DEF Pc
  <2>3. issued \in Nat /\ valid \subseteq 0 .. issued
    <3>1. issued = 1 /\ valid = {1}
      BY <1>1
    <3> QED  BY <3>1
  <2>4. lost \in BOOLEAN
    BY <1>1
  <2> QED  BY <1>1, <2>1, <2>2, <2>3, <2>4 DEF TokenTypeOK
<1>5. Read(cfg.token) \in {Secret, TokenSet(1, 1), Nothing}
  BY <1>2 DEF Read
<1>6. DiskInv
  BY <1>1, <1>5 DEF DiskInv, Secret, TokenSet, Nothing
<1>7. \A p \in Proc : proc[p].pc = "idle"
  BY <1>1
<1>8. LockInv /\ FreshInv /\ GotInv /\ SeenInv
  BY <1>7 DEF LockInv, FreshInv, GotInv, SeenInv, Tasks
<1> QED  BY <1>4, <1>6, <1>8 DEF TokenInv

LEMMA TokenStep ==
    TokenInv /\ [Next]_vars => TokenInv'
<1> SUFFICES ASSUME TokenInv, [Next]_vars PROVE TokenInv'
  OBVIOUS
<1>1. CASE TokenNext
  <2>1. CASE \E p \in Proc : Load(p) \/ KillCommand(p)
    BY <2>1, QuietSteps, QuietInv
  <2>2. ASSUME NEW p \in Proc, Step(p) PROVE TokenInv'
    <3>1. CASE Validate(p) \/ StartDevice(p) \/ DeviceExpired(p) \/ Poll(p)
      BY <3>1, QuietSteps, QuietInv
    <3>2. CASE Lock(p) \/ ReadTokens(p)
      BY <3>2, LockStep
    <3>3. CASE SaveTokens(p) \/ SaveTokensFails(p)
      BY <3>3, SaveSteps
    <3>4. CASE SaveAccess(p) \/ SaveAccessFails(p)
      BY <3>4, AccessSteps
    <3> QED  BY <2>2, <3>1, <3>2, <3>3, <3>4 DEF Step
  <2>3. ASSUME NEW p \in Proc, Answered(p) PROVE TokenInv'
    <3>1. CASE \/ DeviceStarted(p) \/ Refused(p)
               \/ \E r \in DeviceResponse : PollPending(p, r) \/ PollFails(p, r)
      BY <3>1, QuietSteps, QuietInv
    <3>2. CASE \E r \in DeviceResponse : PollAuthorized(p, r)
      <4>1. TRUE \in BOOLEAN
        OBVIOUS
      <4> QED  BY <3>2, <4>1, AnswerSteps
    <3>3. CASE \E rotated \in BOOLEAN : Granted(p, rotated)
      BY <3>3, AnswerSteps
    <3>4. CASE \E rotated \in BOOLEAN : GrantedUnheard(p, rotated)
      BY <3>4, UnheardStep
    <3> QED  BY <2>3, <3>1, <3>2, <3>3, <3>4 DEF Answered
  <2>4. CASE KillClient
    BY <2>4, KillStep
  <2>5. CASE Age \/ Tick
    BY <2>5, UnchangedInv DEF Age, Tick, files, webex
  <2> QED  BY <1>1, <2>1, <2>2, <2>3, <2>4, <2>5 DEF TokenNext
<1>2. CASE Listener \/ Over \/ UNCHANGED vars
  <2>1. UNCHANGED <<cfg, disk, valid, issued, proc, lock, lost>>
    BY <1>2 DEF Listener, Settles, MainStarts, MainListens, MainFails, Reload, ReloadStarted,
                ReloadFails, ReloadDone, ReloadStopFails, Shutdown, ListenerStopped, ExitSidecar,
                Over, tokenVars, vars
  <2> QED  BY <2>1, UnchangedInv
<1> QED  BY <1>1, <1>2 DEF Next, Writes

LEMMA TokenInvariance ==
    Spec => []TokenInv
<1>1. Init => TokenInv
  BY TokenInitInv DEF Init
<1> QED  BY <1>1, TokenStep, PTL DEF Spec
-----------------------------------------------------------------------------
\* The tasks of a client refresh a token once, whatever the number of tasks
\* and commands, and whether or not Webex replaces refresh tokens: the lock
\* admits one, and the token it loads again under the lock is good.
THEOREM OneRefresh ==
    Spec => []RefreshedOnce
<1>1. TokenInv => RefreshedOnce
  <2> SUFFICES ASSUME TokenInv PROVE RefreshedOnce
    OBVIOUS
  <2> DEFINE refreshing == {p \in Tasks : proc[p].pc \in {"requesting", "unheard", "got"}}
  <2>1. Cardinality(refreshing) <= 1
    <3>1. \A p, q \in refreshing : p = q
      BY DEF TokenInv, LockInv
    <3> HIDE DEF refreshing
    <3>2. refreshing = {} \/ \E p : refreshing = {p}
      BY <3>1
    <3>3. Cardinality(refreshing) \in {0, 1}
      BY <3>2, FS_EmptySet, FS_Singleton
    <3> QED  BY <3>3
  <2>2. ASSUME ~lost, Tasks = Proc, NEW p \in refreshing, proc[p].pc = "requesting"
        PROVE  proc[p].seen.refresh \in valid
    <3>1. p \in Proc /\ cfg.token # NoPath /\ Steady
      BY <2>2 DEF TokenInv, LockInv, Steady
    <3>2. proc[p].seen = Read(cfg.token) /\ proc[p].seen.kind = "tokens"
      BY <2>2, <3>1 DEF TokenInv, SeenInv
    <3>3. \A q \in Proc : proc[q].pc # "got"
      BY <2>2 DEF TokenInv, LockInv
    <3> QED  BY <2>2, <3>1, <3>2, <3>3 DEF TokenInv, DiskInv
  <2> QED  BY <2>1, <2>2 DEF RefreshedOnce
<1> QED  BY <1>1, TokenInvariance, PTL

\* The login survives any number of tasks and commands that refresh it at
\* once, provided that Webex treats refresh tokens in one way, always or
\* never replacing them; a client alone needs no such proviso.
THEOREM LoginSurvives ==
    Spec => [](Steady => LoginKept)
<1>1. TokenInv => (Steady => LoginKept)
  BY DEF TokenInv, LoginKept, DiskInv, GotInv
<1> QED  BY <1>1, TokenInvariance, PTL
-----------------------------------------------------------------------------
(***************************************************************************)
(* Paths: what the check finds out about the entries of the file system.   *)
(***************************************************************************)
\* Induction over the natural numbers, for a set instead of a predicate: a
\* set that is not all of Nat would miss a smallest number.
LEMMA SetInduction ==
    ASSUME NEW S \in SUBSET Nat, 0 \in S, \A n \in S : n + 1 \in S
    PROVE  S = Nat
<1> DEFINE T == Nat \ S
           R == OpToRel(<, Nat)
<1> SUFFICES ASSUME T # {} PROVE FALSE
  OBVIOUS
<1>1. IsWellFoundedOn(R, Nat)
  BY NatLessThanWellFounded
<1>2. \A x \in Nat, y \in Nat : y < x => <<y, x>> \in R
  BY DEF OpToRel
<1> HIDE DEF R
<1>3. T \subseteq Nat
  OBVIOUS
<1> HIDE DEF T
<1>4. PICK x \in T : \A y \in T : ~(<<y, x>> \in R)
  BY <1>1, <1>3, WFMin
<1>5. x \in Nat /\ x # 0 /\ x \notin S
  BY DEF T
<1>6. x - 1 \in Nat /\ x - 1 < x /\ (x - 1) + 1 = x
  BY <1>5
<1>7. x - 1 \notin T
  BY <1>2, <1>4, <1>5, <1>6
<1>8. x - 1 \in S
  BY <1>6, <1>7 DEF T
<1> QED  BY <1>5, <1>6, <1>8

\* A walk of k steps from b, each given by a function, exists.
LEMMA WalkExists ==
    ASSUME NEW X, NEW b \in X, NEW k \in Nat, NEW step \in [1 .. k -> [X -> X]]
    PROVE  \E f \in [0 .. k -> X] : f[0] = b /\ \A i \in 1 .. k : f[i] = step[i][f[i - 1]]
<1> DEFINE Is(f, n) == /\ f[0] = b
                       /\ \A i \in 1 .. n : f[i] = step[i][f[i - 1]]
           S == {n \in Nat : n <= k => \E f \in [0 .. n -> X] : Is(f, n)}
<1>1. 0 \in S
  <2> DEFINE f == [i \in 0 .. 0 |-> b]
  <2>1. f \in [0 .. 0 -> X] /\ Is(f, 0)
    OBVIOUS
  <2> QED  BY <2>1
<1>2. ASSUME NEW n \in S PROVE n + 1 \in S
  <2> SUFFICES ASSUME n + 1 <= k PROVE \E f \in [0 .. (n + 1) -> X] : Is(f, n + 1)
    OBVIOUS
  <2>1. PICK g \in [0 .. n -> X] : Is(g, n)
    OBVIOUS
  <2>2. g[n] \in X /\ n + 1 \in 1 .. k
    OBVIOUS
  <2>3. step[n + 1][g[n]] \in X
    BY <2>2
  <2> DEFINE f == [i \in 0 .. (n + 1) |-> IF i = n + 1 THEN step[n + 1][g[n]] ELSE g[i]]
  <2>4. f \in [0 .. (n + 1) -> X]
    BY <2>3
  <2>5. \A i \in 0 .. n : f[i] = g[i]
    OBVIOUS
  <2>6. f[n + 1] = step[n + 1][g[n]]
    OBVIOUS
  <2> HIDE DEF f
  <2>7. ASSUME NEW i \in 1 .. (n + 1) PROVE f[i] = step[i][f[i - 1]]
    <3>1. CASE i = n + 1
      <4>1. f[i - 1] = g[n]
        BY <2>5, <3>1
      <4> QED  BY <2>6, <3>1, <4>1
    <3>2. CASE i # n + 1
      <4>1. i \in 1 .. n /\ i \in 0 .. n /\ i - 1 \in 0 .. n
        BY <3>2
      <4> QED  BY <2>1, <2>5, <4>1
    <3> QED  BY <3>1, <3>2
  <2>8. f[0] = b
    BY <2>1, <2>5
  <2> QED  BY <2>4, <2>7, <2>8
<1>3. S \in SUBSET Nat
  OBVIOUS
<1>4. S = Nat
  <2> HIDE DEF S
  <2> QED  BY <1>1, <1>2, <1>3, SetInduction
<1>5. k \in S
  BY <1>4
<1> QED  BY <1>5

\* Locations and what they are folded to
LEMMA FoldedFacts ==
    ASSUME NEW l \in Location
    PROVE  /\ Folded(l) \in Location /\ Len(Folded(l)) = Len(l)
           /\ Folded(Folded(l)) = Folded(l)
<1>1. /\ Fold \in [Name -> Name] /\ \A n \in Name : Fold[Fold[n]] = Fold[n]
  BY NameAssumption
<1>2. Len(l) \in Nat /\ \A i \in 1 .. Len(l) : l[i] \in Name
  BY DEF Location
<1>3. /\ Folded(l) \in Location /\ Len(Folded(l)) = Len(l)
      /\ \A i \in 1 .. Len(l) : Folded(l)[i] = Fold[l[i]]
  BY <1>1, <1>2 DEF Folded, Location
<1>4. Folded(Folded(l)) = [i \in 1 .. Len(l) |-> Fold[Folded(l)[i]]]
  BY <1>3 DEF Folded
<1>5. \A i \in 1 .. Len(l) : Fold[Folded(l)[i]] = Fold[l[i]]
  BY <1>1, <1>2, <1>3
<1>6. Folded(l) = [i \in 1 .. Len(l) |-> Fold[l[i]]]
  BY DEF Folded
<1> QED  BY <1>3, <1>4, <1>5, <1>6

\* Front of a location, of one that is appended to, and folded
LEMMA FrontFacts ==
    ASSUME NEW l \in Location
    PROVE  /\ l # <<>> => Front(l) \in Location /\ Folded(Front(l)) = Front(Folded(l))
           /\ l # <<>> => Len(Front(l)) = Len(l) - 1 /\ \A i \in 1 .. Len(l) - 1 : Front(l)[i] = l[i]
           /\ \A n \in Name : /\ Append(l, n) \in Location /\ Append(l, n) # <<>>
                              /\ Front(Append(l, n)) = l
<1>1. Len(l) \in Nat /\ \A i \in 1 .. Len(l) : l[i] \in Name
  BY DEF Location
<1>2. ASSUME l # <<>>
      PROVE  /\ Front(l) \in Location /\ Len(Front(l)) = Len(l) - 1
             /\ \A i \in 1 .. Len(l) - 1 : Front(l)[i] = l[i]
  <2>1. Len(l) - 1 \in Nat /\ \A i \in 1 .. (Len(l) - 1) : l[i] \in Name
    BY <1>1, <1>2, EmptySeq DEF Location
  <2> DEFINE n == Len(l) - 1
             f == Front(l)
  <2>2. f = SubSeq(l, 1, n)
    BY DEF Front
  <2> HIDE DEF n, f
  <2>3. n \in Nat /\ \A i \in 1 .. n : l[i] \in Name
    BY <2>1 DEF n
  <2>4. /\ f \in Seq(Name) /\ Len(f) = IF 1 <= n THEN n - 1 + 1 ELSE 0
        /\ \A i \in 1 .. n - 1 + 1 : f[i] = l[1 + i - 1]
    BY <2>2, <2>3, SubSeqProperties
  <2>5. f \in Seq(Name) /\ Len(f) = n /\ \A i \in 1 .. n : f[i] = l[i]
    BY <2>3, <2>4
  <2> QED  BY <2>5 DEF f, n, Location
<1>3. ASSUME l # <<>> PROVE Folded(Front(l)) = Front(Folded(l))
  <2>1. /\ Folded(l) \in Location /\ Len(Folded(l)) = Len(l)
        /\ \A i \in 1 .. Len(l) : Folded(l)[i] = Fold[l[i]]
    BY <1>1, FoldedFacts DEF Folded
  <2>2. Len(l) >= 1
    BY <1>1, <1>3 DEF Location
  <2>3. Front(Folded(l)) = [i \in 1 .. Len(l) - 1 |-> Fold[l[i]]]
    <3>1. Front(Folded(l)) = SubSeq(Folded(l), 1, Len(l) - 1)
      BY <2>1 DEF Front
    <3>2. SubSeq(Folded(l), 1, Len(l) - 1) = [i \in 1 .. Len(l) - 1 |-> Folded(l)[i]]
      BY <1>1, <2>1, <2>2 DEF Location
    <3> QED  BY <1>1, <2>1, <2>2, <3>1, <3>2
  <2>4. Folded(Front(l)) = [i \in 1 .. Len(l) - 1 |-> Fold[l[i]]]
    BY <1>2, <1>3 DEF Folded
  <2> QED  BY <2>3, <2>4
<1>4. ASSUME NEW n \in Name
      PROVE  Append(l, n) \in Location /\ Append(l, n) # <<>> /\ Front(Append(l, n)) = l
  <2>1. /\ Append(l, n) \in Seq(Name) /\ Append(l, n) # <<>>
        /\ Len(Append(l, n)) = Len(l) + 1
        /\ \A i \in 1 .. Len(l) : Append(l, n)[i] = l[i]
    BY AppendProperties DEF Location
  <2>2. Front(Append(l, n)) = SubSeq(Append(l, n), 1, Len(l))
    BY <1>1, <2>1 DEF Front
  <2>3. /\ SubSeq(Append(l, n), 1, Len(l)) \in Seq(Name)
        /\ Len(SubSeq(Append(l, n), 1, Len(l))) = Len(l)
        /\ \A i \in 1 .. Len(l) : SubSeq(Append(l, n), 1, Len(l))[i] = l[i]
    <3>1. \A i \in 1 .. Len(l) : Append(l, n)[i] \in Name
      BY <1>1, <2>1
    <3>2. /\ SubSeq(Append(l, n), 1, Len(l)) \in Seq(Name)
          /\ Len(SubSeq(Append(l, n), 1, Len(l))) = IF 1 <= Len(l) THEN Len(l) - 1 + 1 ELSE 0
          /\ \A i \in 1 .. Len(l) - 1 + 1 : SubSeq(Append(l, n), 1, Len(l))[i] = Append(l, n)[1 + i - 1]
      BY <1>1, <3>1, SubSeqProperties
    <3> QED  BY <1>1, <2>1, <3>2
  <2>4. SubSeq(Append(l, n), 1, Len(l)) = l
    BY <2>3, SeqEqual DEF Location
  <2> QED  BY <2>1, <2>2, <2>4 DEF Location
<1> QED  BY <1>2, <1>3, <1>4

\* Every step of the operating system leads from a location to a location.
LEMMA EnterType ==
    ASSUME NEW l \in Location, NEW n \in Name \cup {".."}
    PROVE  Enter(l, n) \in Location
<1>1. CASE n = ".."
  BY <1>1, FrontFacts DEF Enter
<1>2. CASE n # ".."
  <2>1. Append(l, n) \in Location
    BY <1>2, FrontFacts
  <2> QED  BY <1>2, <2>1, TreeAssumption DEF Enter, Follow
<1> QED  BY <1>1, <1>2

LEMMA BaseType == \A p : Base(p) \in Location
BY TreeAssumption DEF Base, Location

\* The walk along a path
LEMMA WalkFacts ==
    ASSUME NEW p \in Path
    PROVE  /\ Len(p.comps) \in Nat \ {0}
           /\ \A i \in 1 .. Len(p.comps) : p.comps[i] \in Name \cup {".."}
           /\ Last(p.comps) = p.comps[Len(p.comps)] /\ p.comps[Len(p.comps)] \in Name
           /\ Walk[p][0] = Base(p)
           /\ \A i \in 1 .. Len(p.comps) : Walk[p][i] = Enter(Walk[p][i - 1], p.comps[i])
           /\ \A i \in 0 .. Len(p.comps) : Walk[p][i] \in Location
<1> DEFINE k == Len(p.comps)
           c == p.comps
           Loop(f) == [i \in 0 .. k |-> IF i = 0 THEN Base(p) ELSE Enter(f[i - 1], c[i])]
<1>1. c \in Seq(Name \cup {".."}) /\ c # <<>> /\ Last(c) \in Name
  BY PathAssumption
<1>2. /\ k \in Nat \ {0} /\ \A i \in 1 .. k : c[i] \in Name \cup {".."}
      /\ Last(c) = c[k]
  BY <1>1 DEF Last
<1>3. Walk[p] = CHOOSE f : f = Loop(f)
  BY DEF Walk
<1> DEFINE step == [i \in 1 .. k |-> [l \in Location |-> Enter(l, c[i])]]
<1>4. step \in [1 .. k -> [Location -> Location]]
  <2>1. \A i \in 1 .. k, l \in Location : Enter(l, c[i]) \in Location
    BY <1>2, EnterType
  <2> QED  BY <2>1
<1>5. \A l \in Location, i \in 1 .. k : step[i][l] = Enter(l, c[i])
  OBVIOUS
<1> HIDE DEF step, k, c
<1>6. PICK f \in [0 .. k -> Location] :
         f[0] = Base(p) /\ \A i \in 1 .. k : f[i] = step[i][f[i - 1]]
  <2>1. Base(p) \in Location /\ k \in Nat
    BY <1>2, BaseType DEF k
  <2> QED  BY <1>4, <2>1, WalkExists
<1>7. f = Loop(f)
  <2>1. \A i \in 0 .. k : i # 0 => i \in 1 .. k /\ i - 1 \in 0 .. k
    BY <1>2
  <2>2. \A i \in 0 .. k : f[i] = IF i = 0 THEN Base(p) ELSE Enter(f[i - 1], c[i])
    BY <1>5, <1>6, <2>1
  <2>3. f = [i \in 0 .. k |-> f[i]]
    OBVIOUS
  <2> QED  BY <2>2, <2>3
<1> HIDE DEF Loop
<1>8. Walk[p] = Loop(Walk[p])
  BY <1>3, <1>7
<1>9. /\ Walk[p][0] = Base(p)
      /\ \A i \in 1 .. k : Walk[p][i] = Enter(Walk[p][i - 1], c[i])
  <2>1. \A i \in 0 .. k : Walk[p][i] = IF i = 0 THEN Base(p) ELSE Enter(Walk[p][i - 1], c[i])
    <3> DEFINE w == Walk[p]
    <3>1. w = Loop(w)
      BY <1>8
    <3> HIDE DEF w
    <3>2. \A i \in 0 .. k : w[i] = IF i = 0 THEN Base(p) ELSE Enter(w[i - 1], c[i])
      BY <3>1 DEF Loop
    <3> QED  BY <3>2 DEF w
  <2>2. 0 \in 0 .. k /\ \A i \in 1 .. k : i \in 0 .. k /\ i # 0
    BY <1>2
  <2> QED  BY <2>1, <2>2
<1>10. \A i \in 0 .. k : Walk[p][i] \in Location
  <2> DEFINE S == {i \in Nat : i \in 0 .. k => Walk[p][i] \in Location}
  <2>1. 0 \in S
    BY <1>9, BaseType
  <2>2. ASSUME NEW i \in S PROVE i + 1 \in S
    <3> SUFFICES ASSUME i + 1 \in 0 .. k PROVE Walk[p][i + 1] \in Location
      OBVIOUS
    <3>1. i \in 0 .. k /\ i + 1 \in 1 .. k /\ (i + 1) - 1 = i
      BY <1>2
    <3>2. Walk[p][i] \in Location /\ c[i + 1] \in Name \cup {".."}
      BY <1>2, <3>1
    <3> QED  BY <1>9, <3>1, <3>2, EnterType
  <2>3. S \in SUBSET Nat
    OBVIOUS
  <2> HIDE DEF S
  <2>4. S = Nat
    BY <2>1, <2>2, <2>3, SetInduction
  <2> QED  BY <1>2, <2>4 DEF S
<1> QED  BY <1>1, <1>2, <1>9, <1>10 DEF k, c

\* Names that are pushed to and popped from the end of a location
LEMMA ConcatAppend ==
    \A l \in Location, u \in Location, n \in Name : l \o Append(u, n) = Append(l \o u, n)
<1> SUFFICES ASSUME NEW l \in Location, NEW u \in Location, NEW n \in Name
             PROVE  l \o Append(u, n) = Append(l \o u, n)
  OBVIOUS
<1> USE DEF Location
<1>1. Append(u, n) = u \o <<n>> /\ <<n>> \in Seq(Name) /\ l \o u \in Seq(Name)
  BY AppendIsConcat, ConcatProperties
<1>2. Append(l \o u, n) = (l \o u) \o <<n>>
  BY <1>1, AppendIsConcat
<1> QED  BY <1>1, <1>2, ConcatAssociative

LEMMA ConcatFacts ==
    ASSUME NEW l \in Location, NEW u \in Location
    PROVE  /\ l \o u \in Location /\ l \o <<>> = l
           /\ u # <<>> => Front(l \o u) = l \o Front(u)
           /\ u # <<>> => l \o u # <<>>
<1> USE DEF Location
<1>1. l \o u \in Location /\ l \o <<>> = l
  BY ConcatProperties, ConcatEmptySeq
<1>3. ASSUME u # <<>> PROVE Front(l \o u) = l \o Front(u) /\ l \o u # <<>>
  <2>1. PICK v \in Location, m \in Name : u = Append(v, m)
    BY <1>3, SequenceEmptyOrAppend
  <2>2. l \o v \in Location /\ l \o u = Append(l \o v, m) /\ Front(u) = v
    BY <2>1, ConcatAppend, ConcatProperties, FrontFacts
  <2> QED  BY <2>2, FrontFacts
<1> QED  BY <1>1, <1>3

\* Every location is empty, or a location and a name.
LEMMA EmptyOrAppend ==
    ASSUME NEW l \in Location, l # <<>>
    PROVE  \E n \in Name : Front(l) \in Location /\ l = Append(Front(l), n)
<1>1. PICK v \in Location, m \in Name : l = Append(v, m)
  BY SequenceEmptyOrAppend DEF Location
<1> QED  BY <1>1, FrontFacts

\* The prefixes of a location that is pushed to
LEMMA PrefixFacts ==
    ASSUME NEW l \in Location, NEW n \in Name
    PROVE  /\ Len(Append(l, n)) = Len(l) + 1 /\ Len(l) \in Nat
           /\ \A j \in 1 .. Len(l) : SubSeq(Append(l, n), 1, j) = SubSeq(l, 1, j)
           /\ SubSeq(Append(l, n), 1, Len(l) + 1) = Append(l, n)
<1> USE DEF Location
<1>1. /\ Append(l, n) = l \o <<n>> /\ <<n>> \in Seq(Name) /\ Append(l, n) \in Seq(Name)
      /\ Len(Append(l, n)) = Len(l) + 1 /\ Len(l) \in Nat
  BY AppendIsConcat, AppendProperties
<1>2. ASSUME NEW j \in 1 .. Len(l) PROVE SubSeq(Append(l, n), 1, j) = SubSeq(l, 1, j)
  <2>1. 1 \in 1 .. Len(l)
    BY <1>1
  <2> QED  BY <1>1, <2>1, SubSeqOfConcat1
<1>3. SubSeq(Append(l, n), 1, Len(l) + 1) = Append(l, n)
  BY <1>1, SubSeqFull
<1> QED  BY <1>1, <1>2, <1>3

\* In what is not a directory there are no directories and no links.
LEMMA NothingBelow ==
    ASSUME NEW l \in Location, NEW n \in Name, Folded(l) \notin FoldedDirs
    PROVE  Folded(Append(l, n)) \notin FoldedDirs \cup DOMAIN Links
<1> DEFINE x == Folded(Append(l, n))
<1>1. x \in Location /\ Folded(x) = x /\ x # <<>>
  <2>1. Append(l, n) \in Location /\ Append(l, n) # <<>>
    BY FrontFacts
  <2>2. Len(Append(l, n)) # 0
    BY <2>1, EmptySeq DEF Location
  <2>3. x \in Location /\ Folded(x) = x /\ Len(x) # 0
    BY <2>1, <2>2, FoldedFacts
  <2> QED  BY <2>3, EmptySeq
<1>2. Front(x) = Folded(l) /\ Folded(Front(x)) = Folded(l)
  BY FrontFacts, FoldedFacts
<1> HIDE DEF x
<1>3. x \notin DOMAIN Links
  BY <1>1, <1>2, TreeAssumption
<1>4. ASSUME NEW d \in Dirs PROVE x # Folded(d)
  <2> SUFFICES ASSUME x = Folded(d) PROVE FALSE
    OBVIOUS
  <2>1. d \in Location /\ d # <<>>
    <3>1. d \in Location
      BY TreeAssumption
    <3>2. Len(x) = Len(d) /\ Len(x) # 0
      BY <1>1, <3>1, EmptySeq, FoldedFacts DEF Location
    <3> QED  BY <3>1, <3>2, EmptySeq
  <2>2. Folded(Front(d)) = Front(x)
    BY <2>1, FrontFacts
  <2>3. Folded(Front(d)) \in FoldedDirs
    BY <2>1, TreeAssumption
  <2> QED  BY <1>2, <2>2, <2>3
<1> QED  BY <1>3, <1>4 DEF FoldedDirs, x

\* The states of canonical_existing_ancestor_path
Resolving == [r : Location, u : Location]

LEMMA PushFacts ==
    ASSUME NEW l \in Location
    PROVE  /\ PushLexical(l, "..") = Enter(l, "..")
           /\ \A n \in Name : PushLexical(l, n) = Append(l, n) /\ n # ".."
           /\ \A n \in Name : Enter(l, n) = Follow(Append(l, n))
BY NameAssumption DEF PushLexical, Enter

\* One more component, case by case
LEMMA ResolveFacts ==
    ASSUME NEW S, NEW s \in Resolving
    PROVE  /\ s.u # <<>> => Resolve("..", S)[s] = [r |-> s.r, u |-> Front(s.u)]
           /\ s.u = <<>> => Resolve("..", S)[s] = [r |-> Enter(s.r, ".."), u |-> <<>>]
           /\ \A n \in Name :
                Resolve(n, S)[s] = IF s.u # <<>> THEN [r |-> s.r, u |-> Append(s.u, n)]
                                   ELSE IF Exists(Enter(s.r, n), S) THEN [r |-> Enter(s.r, n), u |-> <<>>]
                                   ELSE [r |-> s.r, u |-> <<n>>]
<1>1. s = [r |-> s.r, u |-> s.u] /\ s.r \in Location /\ s.u \in Location
  BY DEF Resolving
<1>2. \A n \in Name \cup {".."} : Resolve(n, S)[s] =
        IF s.u # <<>> THEN [s EXCEPT !.u = PushLexical(s.u, n)]
        ELSE IF n = ".." THEN [s EXCEPT !.r = PushLexical(s.r, n)]
        ELSE IF Canonicalizes(Append(s.r, n), S)
             THEN [s EXCEPT !.r = Follow(Append(s.r, n))]
             ELSE [s EXCEPT !.u = <<n>>]
  BY DEF Resolve, Resolving
<1>3. \A x : [s EXCEPT !.u = x] = [r |-> s.r, u |-> x] /\ [s EXCEPT !.r = x] = [r |-> x, u |-> s.u]
  BY <1>1
<1>4. s.u # <<>> => Enter(s.u, "..") = Front(s.u)
  BY DEF Enter
<1>5. \A n \in Name : n # ".." /\ PushLexical(s.u, n) = Append(s.u, n) /\ Enter(s.r, n) = Follow(Append(s.r, n))
  BY <1>1, PushFacts
<1>6. PushLexical(s.u, "..") = Enter(s.u, "..") /\ PushLexical(s.r, "..") = Enter(s.r, "..")
  BY <1>1, PushFacts
<1>7. s.u # <<>> => Resolve("..", S)[s] = [r |-> s.r, u |-> Front(s.u)]
  BY <1>2, <1>3, <1>4, <1>6
<1>8. s.u = <<>> => Resolve("..", S)[s] = [r |-> Enter(s.r, ".."), u |-> <<>>]
  BY <1>2, <1>3, <1>6
<1>9. ASSUME NEW n \in Name
      PROVE  Resolve(n, S)[s] = IF s.u # <<>> THEN [r |-> s.r, u |-> Append(s.u, n)]
                                ELSE IF Exists(Enter(s.r, n), S) THEN [r |-> Enter(s.r, n), u |-> <<>>]
                                ELSE [r |-> s.r, u |-> <<n>>]
  <2>1. CASE s.u # <<>>
    BY <1>2, <1>3, <1>5, <2>1
  <2>2. CASE s.u = <<>>
    <3>1. Resolve(n, S)[s] = IF Exists(Enter(s.r, n), S) THEN [s EXCEPT !.r = Enter(s.r, n)]
                             ELSE [s EXCEPT !.u = <<n>>]
      BY <1>2, <1>5, <2>2 DEF Canonicalizes
    <3> QED  BY <1>3, <2>2, <3>1
  <2> QED  BY <2>1, <2>2
<1> QED  BY <1>7, <1>8, <1>9

LEMMA ResolveType ==
    ASSUME NEW S, NEW s \in Resolving, NEW n \in Name \cup {".."}
    PROVE  Resolve(n, S)[s] \in Resolving
<1>1. s.r \in Location /\ s.u \in Location /\ <<>> \in Location
  BY DEF Resolving, Location
<1>2. CASE n = ".."
  <2>1. Enter(s.r, "..") \in Location
    BY <1>1, EnterType
  <2>2. s.u # <<>> => Front(s.u) \in Location
    BY <1>1, FrontFacts
  <2>3. Resolve(n, S)[s] = IF s.u # <<>> THEN [r |-> s.r, u |-> Front(s.u)]
                           ELSE [r |-> Enter(s.r, ".."), u |-> <<>>]
    BY <1>2, ResolveFacts
  <2> QED  BY <1>1, <2>1, <2>2, <2>3 DEF Resolving
<1>3. CASE n \in Name
  <2>1. Enter(s.r, n) \in Location /\ Append(s.u, n) \in Location /\ <<n>> \in Location
    BY <1>1, <1>3, EnterType, FrontFacts DEF Location
  <2>2. Resolve(n, S)[s] = IF s.u # <<>> THEN [r |-> s.r, u |-> Append(s.u, n)]
                           ELSE IF Exists(Enter(s.r, n), S) THEN [r |-> Enter(s.r, n), u |-> <<>>]
                           ELSE [r |-> s.r, u |-> <<n>>]
    BY <1>3, ResolveFacts
  <2> QED  BY <1>1, <2>1, <2>2 DEF Resolving
<1> QED  BY <1>2, <1>3

LEMMA ResolveWalkFacts ==
    ASSUME NEW S, NEW p \in Path
    PROVE  /\ ResolveWalk(p, S)[0] = [r |-> Base(p), u |-> <<>>]
           /\ \A i \in 1 .. Len(p.comps) :
                ResolveWalk(p, S)[i] = Resolve(p.comps[i], S)[ResolveWalk(p, S)[i - 1]]
           /\ \A i \in 0 .. Len(p.comps) : ResolveWalk(p, S)[i] \in Resolving
<1> DEFINE k == Len(p.comps)
           c == p.comps
           b == [r |-> Base(p), u |-> <<>>]
           Loop(f) == [i \in 0 .. k |-> IF i = 0 THEN b ELSE Resolve(c[i], S)[f[i - 1]]]
           step == [i \in 1 .. k |-> [s \in Resolving |-> Resolve(c[i], S)[s]]]
           w == ResolveWalk(p, S)
<1>1. k \in Nat /\ \A i \in 1 .. k : c[i] \in Name \cup {".."}
  BY WalkFacts
<1>2. w = CHOOSE f : f = Loop(f)
  BY DEF ResolveWalk
<1>3. b \in Resolving
  BY BaseType DEF Resolving, Location
<1> HIDE DEF k, c, b, w
<1>4. step \in [1 .. k -> [Resolving -> Resolving]]
  <2>1. \A i \in 1 .. k, s \in Resolving : Resolve(c[i], S)[s] \in Resolving
    BY <1>1, ResolveType
  <2> QED  BY <2>1
<1>5. \A s \in Resolving, i \in 1 .. k : step[i][s] = Resolve(c[i], S)[s]
  OBVIOUS
<1> HIDE DEF step
<1>6. PICK f \in [0 .. k -> Resolving] : f[0] = b /\ \A i \in 1 .. k : f[i] = step[i][f[i - 1]]
  BY <1>1, <1>3, <1>4, WalkExists
<1>7. f = Loop(f)
  <2>1. \A i \in 0 .. k : i # 0 => i \in 1 .. k /\ i - 1 \in 0 .. k
    BY <1>1
  <2>2. \A i \in 0 .. k : f[i] = IF i = 0 THEN b ELSE Resolve(c[i], S)[f[i - 1]]
    BY <1>5, <1>6, <2>1
  <2>3. f = [i \in 0 .. k |-> f[i]]
    OBVIOUS
  <2> QED  BY <2>2, <2>3
<1> HIDE DEF Loop
<1>8. w = Loop(w)
  BY <1>2, <1>7
<1>9. \A i \in 0 .. k : w[i] = IF i = 0 THEN b ELSE Resolve(c[i], S)[w[i - 1]]
  BY <1>8 DEF Loop
<1>10. w[0] = b /\ \A i \in 1 .. k : w[i] = Resolve(c[i], S)[w[i - 1]]
  <2>1. 0 \in 0 .. k /\ \A i \in 1 .. k : i \in 0 .. k /\ i # 0
    BY <1>1
  <2> QED  BY <1>9, <2>1
<1>11. \A i \in 0 .. k : w[i] \in Resolving
  <2> DEFINE T == {i \in Nat : i \in 0 .. k => w[i] \in Resolving}
  <2>1. 0 \in T
    BY <1>3, <1>10
  <2>2. ASSUME NEW i \in T PROVE i + 1 \in T
    <3> SUFFICES ASSUME i + 1 \in 0 .. k PROVE w[i + 1] \in Resolving
      OBVIOUS
    <3>1. i \in 0 .. k /\ i + 1 \in 1 .. k /\ (i + 1) - 1 = i
      BY <1>1
    <3>2. w[i] \in Resolving /\ c[i + 1] \in Name \cup {".."}
      BY <1>1, <3>1
    <3> QED  BY <1>10, <3>1, <3>2, ResolveType
  <2>3. T \in SUBSET Nat
    OBVIOUS
  <2> HIDE DEF T
  <2>4. T = Nat
    BY <2>1, <2>2, <2>3, SetInduction
  <2> QED  BY <1>1, <2>4 DEF T
<1> QED  BY <1>10, <1>11 DEF k, c, b, w

\* The loop of canonical_existing_ancestor_path keeps step with the operating
\* system: what it has resolved and what it has not are, one after the other,
\* where the path has led so far; and what it has not resolved is not there.
InStep(w, s) ==
    /\ w = s.r \o s.u
    /\ \A j \in (Len(s.r) + 1) .. Len(w) : Folded(SubSeq(w, 1, j)) \notin FoldedDirs

LEMMA Lengths ==
    /\ \A a \in Nat, b \in Nat \ {0} : a + b \in (a + 1) .. (a + b) /\ a + b # 0
    /\ \A a \in Nat, x \in Nat : \A j \in (a + 1) .. x : j \in 1 .. x /\ j \in (a + 1) .. (x + 1)
OBVIOUS

LEMMA UnresolvedFacts ==
    ASSUME NEW s \in Resolving, s.u # <<>>, NEW w \in Location, InStep(w, s)
    PROVE  w # <<>> /\ Folded(w) \notin FoldedDirs /\ Len(s.r) + 1 <= Len(w)
<1>1. s.r \in Location /\ s.u \in Location /\ Len(s.r) \in Nat /\ Len(w) \in Nat
  BY DEF Resolving, Location
<1>2. Len(s.u) \in Nat \ {0}
  BY <1>1, EmptySeq DEF Location
<1>3. Len(w) = Len(s.r) + Len(s.u)
  BY <1>1, ConcatProperties DEF InStep, Location
<1>4. Len(w) \in (Len(s.r) + 1) .. Len(w) /\ Len(w) # 0
  BY <1>1, <1>2, <1>3, Lengths
<1>5. SubSeq(w, 1, Len(w)) = w
  BY SubSeqFull DEF Location
<1>6. Folded(w) \notin FoldedDirs
  BY <1>4, <1>5 DEF InStep
<1> QED  BY <1>1, <1>4, <1>6, EmptySeq

LEMMA AllResolved ==
    ASSUME NEW w \in Location
    PROVE  InStep(w, [r |-> w, u |-> <<>>])
<1> DEFINE s == [r |-> w, u |-> <<>>]
<1>1. Len(w) \in Nat /\ w \o <<>> = w
  BY ConcatEmptySeq DEF Location
<1>2. s.r = w /\ s.u = <<>>
  OBVIOUS
<1> HIDE DEF s
<1>3. \A j \in (Len(s.r) + 1) .. Len(w) : FALSE
  BY <1>1, <1>2
<1>4. InStep(w, s)
  BY <1>1, <1>2, <1>3 DEF InStep
<1> QED  BY <1>4 DEF s

LEMMA StepsTogether ==
    ASSUME NEW S, NEW s \in Resolving, NEW w \in Location, InStep(w, s), NEW n \in Name \cup {".."},
           n \in Name /\ Folded(Append(w, n)) \in DOMAIN Links => Links[Folded(Append(w, n))] \in Dirs
    PROVE  InStep(Enter(w, n), Resolve(n, S)[s])
<1> DEFINE t == Resolve(n, S)[s]
           x == Enter(w, n)
<1>1. /\ s.r \in Location /\ s.u \in Location /\ Len(s.r) \in Nat /\ Len(w) \in Nat
      /\ x \in Location
  <2>1. x \in Location
    BY EnterType
  <2>2. s.r \in Location /\ s.u \in Location
    BY DEF Resolving
  <2> QED  BY <2>1, <2>2, LenProperties DEF Location
<1>2. s.u = <<>> => w = s.r
  BY <1>1, ConcatEmptySeq DEF InStep, Location
<1>3. CASE n = ".." /\ s.u = <<>>
  <2>1. t = [r |-> x, u |-> <<>>]
    BY <1>2, <1>3, ResolveFacts
  <2> QED  BY <1>1, <2>1, AllResolved
<1>4. CASE n = ".." /\ s.u # <<>>
  <2>1. w # <<>> /\ Len(s.r) + 1 <= Len(w)
    BY <1>4, UnresolvedFacts
  <2>2. t = [r |-> s.r, u |-> Front(s.u)] /\ x = Front(w)
    BY <1>4, <2>1, ResolveFacts DEF Enter
  <2>3. PICK m \in Name : w = Append(x, m)
    BY <2>1, <2>2, EmptyOrAppend
  <2>4. x = t.r \o t.u /\ t.r = s.r
    <3>1. w = s.r \o s.u
      BY DEF InStep
    <3>2. t.r = s.r /\ t.u = Front(s.u)
      BY <2>2
    <3>3. Front(s.r \o s.u) = s.r \o Front(s.u)
      BY <1>1, <1>4, ConcatFacts
    <3> QED  BY <2>2, <3>1, <3>2, <3>3
  <2>5. Len(w) = Len(x) + 1 /\ Len(x) \in Nat /\ \A j \in 1 .. Len(x) : SubSeq(w, 1, j) = SubSeq(x, 1, j)
    BY <1>1, <2>3, PrefixFacts
  <2> HIDE DEF x, t
  <2>6. ASSUME NEW j \in (Len(t.r) + 1) .. Len(x) PROVE Folded(SubSeq(x, 1, j)) \notin FoldedDirs
    <3>1. j \in 1 .. Len(x) /\ j \in (Len(s.r) + 1) .. Len(w)
      BY <1>1, <2>4, <2>5, Lengths
    <3> QED  BY <2>5, <3>1 DEF InStep
  <2>7. InStep(x, t)
    BY <2>4, <2>6 DEF InStep
  <2> QED  BY <2>7 DEF x, t
<1>5. ASSUME n \in Name, x = Append(w, n), Folded(x) \notin FoldedDirs,
             t.r = s.r /\ x = t.r \o t.u
      PROVE  InStep(x, t)
  <2>1. /\ Len(x) = Len(w) + 1 /\ SubSeq(x, 1, Len(w) + 1) = x
        /\ \A j \in 1 .. Len(w) : SubSeq(x, 1, j) = SubSeq(w, 1, j)
    BY <1>5, PrefixFacts
  <2> HIDE DEF x, t
  <2>2. ASSUME NEW j \in (Len(t.r) + 1) .. Len(x) PROVE Folded(SubSeq(x, 1, j)) \notin FoldedDirs
    <3>1. CASE j = Len(w) + 1
      BY <1>5, <2>1, <3>1
    <3>2. CASE j # Len(w) + 1
      <4>1. j \in 1 .. Len(w) /\ j \in (Len(s.r) + 1) .. Len(w)
        BY <1>1, <1>5, <2>1, <3>2
      <4> QED  BY <2>1, <4>1 DEF InStep
    <3> QED  BY <3>1, <3>2
  <2> QED  BY <1>5, <2>2 DEF InStep
<1>6. CASE n \in Name /\ s.u # <<>>
  <2>1. Folded(Append(w, n)) \notin FoldedDirs \cup DOMAIN Links
    BY <1>6, UnresolvedFacts, NothingBelow
  <2>2. x = Append(w, n)
    BY <1>6, <2>1, PushFacts DEF Follow
  <2>3. t = [r |-> s.r, u |-> Append(s.u, n)]
    BY <1>6, ResolveFacts
  <2>4. x = t.r \o t.u /\ t.r = s.r
    <3>1. w = s.r \o s.u
      BY DEF InStep
    <3>2. t.r = s.r /\ t.u = Append(s.u, n)
      BY <2>3
    <3>3. s.r \o Append(s.u, n) = Append(s.r \o s.u, n)
      <4>1. s.r \in Location /\ s.u \in Location /\ n \in Name
        BY <1>1, <1>6
      <4> QED  BY <4>1, ConcatAppend, Zenon
    <3> QED  BY <2>2, <3>1, <3>2, <3>3
  <2> QED  BY <1>5, <1>6, <2>1, <2>2, <2>4
<1>7. CASE n \in Name /\ s.u = <<>>
  <2>1. t = IF Exists(x, S) THEN [r |-> x, u |-> <<>>] ELSE [r |-> w, u |-> <<n>>]
    <3>1. t = IF s.u # <<>> THEN [r |-> s.r, u |-> Append(s.u, n)]
              ELSE IF Exists(Enter(s.r, n), S) THEN [r |-> Enter(s.r, n), u |-> <<>>]
              ELSE [r |-> s.r, u |-> <<n>>]
      BY <1>7, ResolveFacts
    <3> QED  BY <1>2, <1>7, <3>1
  <2>2. CASE Exists(x, S)
    BY <1>1, <2>1, <2>2, AllResolved
  <2>3. CASE ~Exists(x, S)
    <3>1. Folded(x) \notin FoldedDirs
      BY <2>3 DEF Exists, FoldedDirs
    <3>2. x = Append(w, n)
      <4>1. x = Follow(Append(w, n))
        BY <1>7, PushFacts
      <4>2. ASSUME Folded(Append(w, n)) \in DOMAIN Links PROVE FALSE
        <5>1. x \in Dirs
          BY <1>7, <4>1, <4>2 DEF Follow
        <5> QED  BY <3>1, <5>1 DEF FoldedDirs
      <4> QED  BY <4>1, <4>2 DEF Follow
    <3>3. w \o <<n>> = Append(w, n)
      BY <1>7, AppendIsConcat DEF Location
    <3>4. t.r = s.r /\ x = t.r \o t.u
      BY <1>2, <1>7, <2>1, <2>3, <3>2, <3>3
    <3> QED  BY <1>5, <1>7, <3>1, <3>2, <3>4
  <2> QED  BY <2>2, <2>3
<1> QED  BY <1>3, <1>4, <1>6, <1>7

LEMMA WalkInStep ==
    ASSUME NEW S, NEW p \in Path
    PROVE  \A i \in 0 .. (Len(p.comps) - 1) : InStep(Walk[p][i], ResolveWalk(p, S)[i])
<1> DEFINE k == Len(p.comps)
           T == {i \in Nat : i \in 0 .. (k - 1) => InStep(Walk[p][i], ResolveWalk(p, S)[i])}
<1>1. k \in Nat \ {0}
  BY WalkFacts
<1>2. 0 \in T
  <2>1. InStep(Walk[p][0], ResolveWalk(p, S)[0])
    BY BaseType, WalkFacts, ResolveWalkFacts, AllResolved
  <2> QED  BY <2>1
<1>3. ASSUME NEW i \in T PROVE i + 1 \in T
  <2> SUFFICES ASSUME i + 1 \in 0 .. (k - 1) PROVE InStep(Walk[p][i + 1], ResolveWalk(p, S)[i + 1])
    OBVIOUS
  <2>1. i \in 0 .. (k - 1) /\ i \in 0 .. k /\ i + 1 \in 1 .. k /\ i + 1 \in 1 .. k - 1 /\ (i + 1) - 1 = i
    BY <1>1
  <2>2. InStep(Walk[p][i], ResolveWalk(p, S)[i])
    BY <2>1
  <2> DEFINE w == Walk[p][i]
             n == p.comps[i + 1]
             s == ResolveWalk(p, S)[i]
  <2>3. w \in Location /\ n \in Name \cup {".."} /\ Walk[p][i + 1] = Enter(w, n)
    BY <2>1, WalkFacts
  <2>4. s \in Resolving /\ ResolveWalk(p, S)[i + 1] = Resolve(n, S)[s]
    BY <2>1, ResolveWalkFacts
  <2>5. n \in Name /\ Folded(Append(w, n)) \in DOMAIN Links => Links[Folded(Append(w, n))] \in Dirs
    BY <2>1, PathAssumption
  <2> HIDE DEF w, n, s
  <2>6. InStep(w, s)
    BY <2>2 DEF w, s
  <2> QED  BY <2>3, <2>4, <2>5, <2>6, StepsTogether
<1>4. T \in SUBSET Nat
  OBVIOUS
<1> HIDE DEF T
<1>5. T = Nat
  BY <1>2, <1>3, <1>4, SetInduction
<1> QED  BY <1>1, <1>5 DEF T

\* What the check compares is the file that the path leads to if there is
\* one, and otherwise the entry that it names; these differ only at a link.
LEMMA AncestorIs ==
    ASSUME NEW S, NEW p \in Path
    PROVE  /\ Entry[p] \in Location /\ Folded(Entry[p]) = Entry[p]
           /\ Target[p] \in Location /\ Folded(Target[p]) = Target[p]
           /\ Target[p] = IF Entry[p] \in DOMAIN Links THEN Folded(Links[Entry[p]]) ELSE Entry[p]
           /\ Folded(CanonicalAncestor(p, S)) =
                IF Target[p] \in {Folded(x) : x \in Dirs \cup S} THEN Target[p] ELSE Entry[p]
<1> DEFINE k == Len(p.comps)
           n == p.comps[k]
           w == Walk[p][k - 1]
           s == ResolveWalk(p, S)[k - 1]
           x == Enter(w, n)
<1>1. k \in Nat \ {0} /\ k - 1 \in 0 .. (k - 1) /\ k - 1 \in 0 .. k /\ k \in 1 .. k
  BY WalkFacts
<1>2. w \in Location /\ n \in Name /\ Walk[p][k] = x /\ Last(p.comps) = n
  BY <1>1, WalkFacts
<1>3. s \in Resolving /\ CanonicalAncestor(p, S) = Resolve(n, S)[s].r \o Resolve(n, S)[s].u
  BY <1>1, ResolveWalkFacts DEF CanonicalAncestor
<1>4. InStep(w, s)
  BY <1>1, WalkInStep
<1>5. Entry[p] = Folded(Append(w, n)) /\ Target[p] = Folded(x)
  BY <1>2 DEF Entry, Target
<1> DEFINE t == Resolve(n, S)[s]
<1> HIDE DEF k, n, w, s, x, t
<1>6. CanonicalAncestor(p, S) = t.r \o t.u
  BY <1>3 DEF t
<1>7. x = Follow(Append(w, n)) /\ Append(w, n) \in Location
  BY <1>2, PushFacts, FrontFacts DEF x
<1>8. x \in Location
  BY <1>2, EnterType DEF x
<1>9. /\ Entry[p] \in Location /\ Folded(Entry[p]) = Entry[p]
      /\ Target[p] \in Location /\ Folded(Target[p]) = Target[p]
  BY <1>5, <1>7, <1>8, FoldedFacts
<1>10. Target[p] = IF Entry[p] \in DOMAIN Links THEN Folded(Links[Entry[p]]) ELSE Entry[p]
  BY <1>5, <1>7 DEF Follow
<1>11. s.r \in Location /\ s.u \in Location /\ w = s.r \o s.u
  BY <1>3, <1>4 DEF Resolving, InStep
<1>12. t = IF s.u # <<>> THEN [r |-> s.r, u |-> Append(s.u, n)]
           ELSE IF Exists(Enter(s.r, n), S) THEN [r |-> Enter(s.r, n), u |-> <<>>]
           ELSE [r |-> s.r, u |-> <<n>>]
  BY <1>2, <1>3, ResolveFacts DEF t
<1>13. CASE s.u # <<>>
  <2>1. Entry[p] \notin DOMAIN Links
    BY <1>2, <1>3, <1>4, <1>5, <1>13, UnresolvedFacts, NothingBelow
  <2>2. t.r = s.r /\ t.u = Append(s.u, n)
    BY <1>12, <1>13
  <2>3. s.r \o Append(s.u, n) = Append(s.r \o s.u, n)
    BY <1>2, <1>11, ConcatAppend, Zenon
  <2>4. CanonicalAncestor(p, S) = Append(w, n)
    BY <1>6, <1>11, <2>2, <2>3
  <2> QED  BY <1>5, <1>9, <1>10, <2>1, <2>4
<1>14. CASE s.u = <<>>
  <2>1. w = s.r
    BY <1>11, <1>14, ConcatEmptySeq DEF Location
  <2>2. t = IF Exists(x, S) THEN [r |-> x, u |-> <<>>] ELSE [r |-> w, u |-> <<n>>]
    BY <1>12, <1>14, <2>1 DEF x
  <2>3. x \o <<>> = x /\ w \o <<n>> = Append(w, n)
    BY <1>2, <1>8, ConcatEmptySeq, AppendIsConcat DEF Location
  <2>4. CanonicalAncestor(p, S) = IF Exists(x, S) THEN x ELSE Append(w, n)
    BY <1>6, <2>2, <2>3
  <2> QED  BY <1>5, <1>9, <1>10, <2>4 DEF Exists
<1> QED  BY <1>13, <1>14

\* ensure_distinct_auth_paths is sound: paths that pass it name different
\* entries, and a rename to one of them does not replace the file that the
\* other leads to, through whatever links, missing directories, "..", and
\* upper-case names they go.
THEOREM DistinctSound ==
    ASSUME NEW S, NEW p \in Path, NEW q \in Path, Distinct(p, q, S)
    PROVE  /\ Entry[p] # Entry[q]
           /\ Target[q] \in S => Entry[p] # Target[q]
           /\ Target[p] \in S => Entry[q] # Target[p]
<1> DEFINE F == {Folded(x) : x \in Dirs \cup S}
           a == Folded(CanonicalAncestor(p, S))
           b == Folded(CanonicalAncestor(q, S))
<1>1. a # b
  <2>1. ~IsPrefix(a, b)
    BY DEF Distinct, CanonicalOverlap, Overlap
  <2>2. a \in Location
    BY AncestorIs
  <2>3. IsPrefix(a, a)
    <3> HIDE DEF a
    <3>1. Len(a) \in Nat
      BY <2>2 DEF Location
    <3> QED  BY <3>1 DEF IsPrefix
  <2> QED  BY <2>1, <2>3
<1>2. /\ a = IF Target[p] \in F THEN Target[p] ELSE Entry[p]
      /\ b = IF Target[q] \in F THEN Target[q] ELSE Entry[q]
  BY AncestorIs
<1>3. /\ Target[p] = IF Entry[p] \in DOMAIN Links THEN Folded(Links[Entry[p]]) ELSE Entry[p]
      /\ Target[q] = IF Entry[q] \in DOMAIN Links THEN Folded(Links[Entry[q]]) ELSE Entry[q]
  BY AncestorIs
<1>4. Folded(Target[p]) = Target[p] /\ Folded(Target[q]) = Target[q]
  BY AncestorIs
<1>5. Target[p] \notin DOMAIN Links /\ Target[q] \notin DOMAIN Links
  BY <1>3, TreeAssumption
<1>6. (Target[p] \in S => Target[p] \in F) /\ (Target[q] \in S => Target[q] \in F)
  BY <1>4
<1> HIDE DEF F, a, b
<1> QED  BY <1>1, <1>2, <1>3, <1>5, <1>6
-----------------------------------------------------------------------------
(***************************************************************************)
(* The files that the commands must not destroy.                           *)
(***************************************************************************)
\* A rename to q leaves the client secret alone.
Clear(q) ==
    SecretPath # NoPath => Entry[q] \notin {Entry[SecretPath], Target[SecretPath]}

\* What ensure_distinct_auth_file_paths establishes
Apart ==
    /\ cfg.token # NoPath => Clear(cfg.token)
    /\ cfg.access # NoPath => Clear(cfg.access)
    /\ cfg.token # NoPath /\ cfg.access # NoPath => Entry[cfg.token] # Entry[cfg.access]

Holds(l, k) == l \in DOMAIN disk /\ disk[l].kind = k

SecretInv ==
    SecretPath # NoPath =>
        /\ Holds(Target[SecretPath], "secret")
        /\ Entry[SecretPath] \in DOMAIN disk => Holds(Entry[SecretPath], "secret")

\* A task renames over a file only where it has read tokens, a command only
\* where the check lets it; and what they have saved stays.
Safe(p) ==
    /\ p \in Tasks /\ proc[p].pc # "idle" => Clear(cfg.token)
    /\ p \notin Tasks /\ proc[p].pc \notin {"idle", "failed"} => Apart
    /\ proc[p].pc = "got" => proc[p].got.kind = "tokens"
    /\ proc[p].pc = "access" => cfg.access # NoPath
    /\ proc[p].pc \in {"access", "done"} /\ cfg.token # NoPath => Holds(Entry[cfg.token], "tokens")
    /\ proc[p].pc = "done" /\ cfg.access # NoPath => Holds(Entry[cfg.access], "access")

FilesInv == SecretInv /\ \A p \in Proc : Safe(p)

\* The path that is checked is the one that is read.
LEMMA SecretIs ==
    ASSUME cfg \in Configs
    PROVE  /\ SecretPath = EffectiveSecretPath(cfg.secret)
           /\ {SecretPath, cfg.token, cfg.access} \subseteq Path \cup {NoPath}
<1>1. {cfg.token, cfg.access, cfg.secret.file, cfg.secret.envFile} \subseteq Path \cup {NoPath}
  BY ConfigAssumption
<1> DEFINE o == cfg.secret
<1>2. o.file \in Path \cup {NoPath} /\ o.envFile \in Path \cup {NoPath}
  BY <1>1
<1> HIDE DEF o
<1>3. /\ ResolveClientSecret(o).path = EffectiveSecretPath(o)
      /\ EffectiveSecretPath(o) \in Path \cup {NoPath}
  BY <1>2 DEF ResolveClientSecret, EffectiveSecretPath
<1> QED  BY <1>1, <1>3 DEF SecretPath, o

\* What a path leads to follows from its entry, and is no link.
LEMMA TargetFacts ==
    ASSUME NEW p \in Path, NEW q \in Path
    PROVE  /\ Entry[p] = Entry[q] => Target[p] = Target[q]
           /\ Entry[p] # Target[p] => Entry[p] # Target[q]
<1>1. /\ Target[p] = IF Entry[p] \in DOMAIN Links THEN Folded(Links[Entry[p]]) ELSE Entry[p]
      /\ Target[q] = IF Entry[q] \in DOMAIN Links THEN Folded(Links[Entry[q]]) ELSE Entry[q]
  BY AncestorIs
<1>2. Target[q] \notin DOMAIN Links
  BY <1>1, TreeAssumption
<1> QED  BY <1>1, <1>2

\* A path at which tokens are read is clear of the secret.
LEMMA ReadClear ==
    ASSUME cfg \in Configs, SecretInv, NEW q \in Path, Read(q).kind = "tokens"
    PROVE  Clear(q)
<1> SUFFICES ASSUME SecretPath # NoPath, Entry[q] \in {Entry[SecretPath], Target[SecretPath]} PROVE FALSE
  BY DEF Clear
<1>1. SecretPath \in Path
  BY SecretIs
<1>2. Read(q).kind = "secret"
  <2>1. CASE Entry[q] = Entry[SecretPath]
    <3>1. Target[q] = Target[SecretPath]
      BY <1>1, <2>1, TargetFacts
    <3> QED  BY <2>1, <3>1 DEF SecretInv, Holds, Read, Place
  <2>2. CASE Entry[q] = Target[SecretPath]
    BY <2>2 DEF SecretInv, Holds, Read, Place
  <2> QED  BY <2>1, <2>2
<1> QED  BY <1>2

\* Paths that pass ensure_distinct_auth_file_paths are apart.
LEMMA CheckedApart ==
    ASSUME cfg \in Configs, SecretInv,
           DistinctAuthFiles(cfg.token, cfg.access, EffectiveSecretPath(cfg.secret), DOMAIN disk)
    PROVE  Apart
<1>1. /\ SecretPath = EffectiveSecretPath(cfg.secret)
      /\ {SecretPath, cfg.token, cfg.access} \subseteq Path \cup {NoPath}
  BY SecretIs
<1>2. ASSUME NEW q \in Path, SecretPath # NoPath, Distinct(q, SecretPath, DOMAIN disk)
      PROVE  Entry[q] \notin {Entry[SecretPath], Target[SecretPath]}
  <2>1. SecretPath \in Path /\ Target[SecretPath] \in DOMAIN disk
    BY <1>1, <1>2 DEF SecretInv, Holds
  <2> QED  BY <1>2, <2>1, DistinctSound
<1>3. cfg.token # NoPath => Clear(cfg.token)
  BY <1>1, <1>2 DEF DistinctAuthFiles, Clear
<1>4. cfg.access # NoPath => Clear(cfg.access)
  BY <1>1, <1>2 DEF DistinctAuthFiles, Clear
<1>5. cfg.token # NoPath /\ cfg.access # NoPath => Entry[cfg.token] # Entry[cfg.access]
  BY <1>1, DistinctSound DEF DistinctAuthFiles, DistinctTokenPaths
<1> QED  BY <1>3, <1>4, <1>5 DEF Apart

\* Without a rename nothing changes for those that do not move.
LEMMA SameFiles ==
    ASSUME FilesInv, UNCHANGED <<cfg, disk>>
    PROVE  /\ SecretInv' /\ Tasks' = Tasks /\ Apart' = Apart
           /\ \A q : Clear(q)' = Clear(q)
           /\ \A l, k : Holds(l, k)' = Holds(l, k)
           /\ \A q \in Proc : proc'[q] = proc[q] => Safe(q)'
<1>1. /\ SecretPath' = SecretPath /\ Tasks' = Tasks
      /\ \A q : Clear(q)' = Clear(q)
      /\ \A l, k : Holds(l, k)' = Holds(l, k)
  BY DEF SecretPath, Tasks, Kind, Clear, Holds
<1>2. Apart' = Apart
  BY <1>1 DEF Apart
<1>3. SecretInv'
  BY <1>1 DEF FilesInv, SecretInv
<1>4. ASSUME NEW q \in Proc, proc'[q] = proc[q] PROVE Safe(q)'
  <2>1. Safe(q)
    BY DEF FilesInv
  <2> QED  BY <1>1, <1>2, <1>4, <2>1 DEF Safe
<1> QED  BY <1>1, <1>2, <1>3, <1>4

\* A rename by one that may: the secret stays, and so does what others saved.
LEMMA RenameFiles ==
    ASSUME TokenInv, FilesInv, UNCHANGED cfg, NEW q \in Path, NEW x, disk' = Put(q, x), Clear(q),
           \/ q = cfg.token /\ x.kind = "tokens"
           \/ /\ q = cfg.access /\ x.kind = "access"
              /\ cfg.token # NoPath => Entry[cfg.token] # Entry[q]
    PROVE  /\ SecretInv' /\ Tasks' = Tasks /\ Apart' = Apart
           /\ \A p : Clear(p)' = Clear(p)
           /\ Entry[q] \in DOMAIN disk' /\ disk'[Entry[q]] = x
           /\ \A l, k : l # Entry[q] /\ Holds(l, k) => l \in DOMAIN disk' /\ disk'[l].kind = k
           /\ \A p \in Proc : proc'[p] = proc[p] => Safe(p)'
<1>1. /\ SecretPath' = SecretPath /\ Tasks' = Tasks
      /\ \A p : Clear(p)' = Clear(p)
  BY DEF SecretPath, Tasks, Kind, Clear
<1>2. Apart' = Apart
  BY <1>1 DEF Apart
<1>3. /\ DOMAIN disk' = DOMAIN disk \cup {Entry[q]}
      /\ \A l \in DOMAIN disk \cup {Entry[q]} : disk'[l] = IF l = Entry[q] THEN x ELSE disk[l]
  BY DEF Put
<1>4. Entry[q] \in DOMAIN disk' /\ disk'[Entry[q]] = x
  BY <1>3
<1>5. \A l, k : l # Entry[q] /\ Holds(l, k) => l \in DOMAIN disk' /\ disk'[l].kind = k
  BY <1>3 DEF Holds
<1>6. SecretInv'
  <2> SUFFICES ASSUME SecretPath # NoPath
               PROVE  /\ Holds(Target[SecretPath], "secret")'
                      /\ Entry[SecretPath] \in DOMAIN disk' => Holds(Entry[SecretPath], "secret")'
    BY <1>1 DEF SecretInv
  <2>1. Entry[SecretPath] # Entry[q] /\ Target[SecretPath] # Entry[q]
    BY DEF Clear
  <2>2. Holds(Target[SecretPath], "secret") /\ (Entry[SecretPath] \in DOMAIN disk => Holds(Entry[SecretPath], "secret"))
    BY DEF FilesInv, SecretInv
  <2>3. Holds(Target[SecretPath], "secret")'
    BY <1>1, <1>5, <2>1, <2>2 DEF Holds
  <2>4. Entry[SecretPath] \in DOMAIN disk' => Entry[SecretPath] \in DOMAIN disk
    BY <1>3, <2>1
  <2>5. Entry[SecretPath] \in DOMAIN disk => Holds(Entry[SecretPath], "secret")'
    BY <1>1, <1>5, <2>1, <2>2 DEF Holds
  <2> QED  BY <2>3, <2>4, <2>5
<1>7. ASSUME NEW p \in Proc, proc'[p] = proc[p] PROVE Safe(p)'
  <2>1. Safe(p)
    BY DEF FilesInv
  <2>2. ASSUME proc[p].pc \in {"access", "done"}, cfg.token # NoPath
        PROVE  Holds(Entry[cfg.token], "tokens")'
    <3>1. Holds(Entry[cfg.token], "tokens")
      BY <2>1, <2>2 DEF Safe
    <3> QED  BY <1>4, <1>5, <2>2, <3>1 DEF Holds
  <2>3. ASSUME proc[p].pc = "done", cfg.access # NoPath
        PROVE  Holds(Entry[cfg.access], "access")'
    <3>1. Holds(Entry[cfg.access], "access")
      BY <2>1, <2>3 DEF Safe
    <3>2. p \notin Tasks
      BY <2>3 DEF TokenInv, LockInv
    <3>3. cfg.token # NoPath => Entry[cfg.token] # Entry[cfg.access]
      BY <2>1, <2>3, <3>2 DEF Safe, Apart
    <3>4. q # NoPath
      BY PathAssumption
    <3> QED  BY <1>4, <1>5, <3>1, <3>3, <3>4 DEF Holds
  <2> QED  BY <1>1, <1>2, <1>7, <2>1, <2>2, <2>3 DEF Safe
<1> QED  BY <1>1, <1>2, <1>4, <1>5, <1>6, <1>7

\* Process p alone moves, and nothing is renamed.
LEMMA MoveFiles ==
    ASSUME TokenInv, FilesInv, UNCHANGED <<cfg, disk>>, NEW p \in Proc,
           \A q \in Proc \ {p} : proc'[q] = proc[q],
           \/ proc'[p].pc = "failed" /\ p \notin Tasks
           \/ proc'[p].pc = "idle" /\ p \in Tasks
           \/ /\ proc'[p].pc \in {"locking", "reading", "starting", "polling", "asking", "requesting", "unheard"}
              /\ IF p \in Tasks THEN Clear(cfg.token) ELSE Apart
           \/ /\ proc'[p].pc = "got" /\ proc'[p].got.kind = "tokens"
              /\ IF p \in Tasks THEN Clear(cfg.token) ELSE Apart
    PROVE  FilesInv'
<1>1. /\ SecretInv' /\ Tasks' = Tasks /\ Apart' = Apart
      /\ \A q : Clear(q)' = Clear(q)
      /\ \A q \in Proc \ {p} : Safe(q)'
  BY SameFiles
<1>2. cfg' = cfg
  OBVIOUS
<1>3. Safe(p)'
  BY <1>1, <1>2 DEF Safe
<1> QED  BY <1>1, <1>3 DEF FilesInv

\* Where a call or a command that ends goes
LEMMA FinishMoves ==
    ASSUME TokenTypeOK, NEW p \in Proc, NEW l, Finish(p, l)
    PROVE  /\ \A q \in Proc \ {p} : proc'[q] = proc[q]
           /\ IF p \in Tasks THEN proc'[p].pc = "idle" ELSE proc'[p].pc = l
BY DEF TokenTypeOK, Finish, Tasks

\* The steps before anything is saved
LEMMA EarlySteps ==
    ASSUME TokenInv, FilesInv, NEW p \in Proc, NEW r, NEW rotated,
           \/ Load(p) \/ Lock(p) \/ Validate(p) \/ ReadTokens(p)
           \/ StartDevice(p) \/ DeviceStarted(p) \/ DeviceExpired(p) \/ Poll(p)
           \/ PollPending(p, r) \/ PollAuthorized(p, r) \/ PollFails(p, r)
           \/ Granted(p, rotated) \/ GrantedUnheard(p, rotated) \/ Refused(p) \/ KillCommand(p)
    PROVE  FilesInv'
<1>0. TokenTypeOK /\ LockInv /\ SecretInv /\ Safe(p) /\ cfg \in Configs
  BY DEF TokenInv, FilesInv, TokenTypeOK
<1>1. UNCHANGED <<cfg, disk>>
  BY DEF Load, Lock, Validate, ReadTokens, StartDevice, DeviceStarted, DeviceExpired, Poll,
         PollPending, PollAuthorized, PollFails,
         Granted, GrantedUnheard, Refused, KillCommand, files
<1>2. CASE Load(p)
  <2>1. cfg.token # NoPath /\ Read(cfg.token).kind = "tokens"
    BY <1>2 DEF Load, Refreshes, AuthSource, OrElse
  <2>2. Clear(cfg.token)
    BY <1>0, <2>1, SecretIs, ReadClear
  <2>3. /\ p \in Tasks /\ proc'[p].pc = "locking"
        /\ \A q \in Proc \ {p} : proc'[q] = proc[q]
    BY <1>0, <1>2 DEF Load, Tasks, TokenTypeOK
  <2> QED  BY <1>1, <2>2, <2>3, MoveFiles
<1>3. CASE Lock(p)
  <2>1. p \in Tasks /\ Clear(cfg.token)
    BY <1>0, <1>3 DEF Lock, LockInv, Safe
  <2>2. /\ proc'[p].pc \in {"idle", "requesting"}
        /\ \A q \in Proc \ {p} : proc'[q] = proc[q]
    BY <1>0, <1>3, <2>1 DEF Lock, Finish, TokenTypeOK, Tasks
  <2> QED  BY <1>1, <2>1, <2>2, MoveFiles
<1>4. CASE Validate(p)
  <2>1. p \notin Tasks
    BY <1>4 DEF Validate, Tasks
  <2>2. \/ Goto(p, "failed")
        \/ Goto(p, "reading") /\ DistinctAuthFiles(cfg.token, cfg.access, EffectiveSecretPath(cfg.secret), DOMAIN disk)
    BY <1>4 DEF Validate
  <2>3. Goto(p, "failed") \/ (Goto(p, "reading") /\ Apart)
    BY <1>0, <2>2, CheckedApart
  <2>4. /\ proc'[p].pc = "failed" \/ (proc'[p].pc = "reading" /\ Apart)
        /\ \A q \in Proc \ {p} : proc'[q] = proc[q]
    BY <1>0, <2>3 DEF Goto, TokenTypeOK
  <2> QED  BY <1>1, <2>1, <2>4, MoveFiles
<1>5. CASE \/ ReadTokens(p) \/ StartDevice(p) \/ DeviceStarted(p) \/ DeviceExpired(p) \/ Poll(p)
           \/ PollPending(p, r) \/ PollFails(p, r)
  <2>1. p \notin Tasks /\ proc[p].pc \in {"reading", "starting", "polling", "asking"}
    BY <1>0, <1>5 DEF ReadTokens, StartDevice, DeviceStarted, DeviceExpired, Poll, PollPending, PollFails, LockInv, Tasks
  <2>2. Apart
    BY <1>0, <2>1 DEF Safe
  <2>3. /\ proc'[p].pc \in {"failed", "starting", "polling", "asking", "requesting"}
        /\ \A q \in Proc \ {p} : proc'[q] = proc[q]
    BY <1>0, <1>5 DEF ReadTokens, StartDevice, DeviceStarted, DeviceExpired, Poll, PollPending, PollFails,
                      Goto, TokenTypeOK
  <2> QED  BY <1>1, <2>1, <2>2, <2>3, MoveFiles
<1>6. CASE PollAuthorized(p, r) \/ Granted(p, rotated)
  <2>1. proc[p].pc \in {"asking", "requesting"}
    BY <1>6 DEF PollAuthorized, Granted, Grant
  <2>2. IF p \in Tasks THEN Clear(cfg.token) ELSE Apart
    BY <1>0, <2>1 DEF Safe
  <2>3. PICK x : x.kind = "tokens" /\ proc' = [proc EXCEPT ![p].pc = "got", ![p].got = x]
    <3>1. CASE PollAuthorized(p, r)
      BY <3>1 DEF PollAuthorized, TokenSet
    <3>2. CASE Granted(p, rotated)
      <4>1. KeepRefresh(Answer(rotated), proc[p].seen).kind = "tokens"
        BY DEF KeepRefresh, Answer, TokenSet
      <4> QED  BY <3>2, <4>1 DEF Granted
    <3> QED  BY <1>6, <3>1, <3>2
  <2>4. /\ proc'[p].pc = "got" /\ proc'[p].got.kind = "tokens"
        /\ \A q \in Proc \ {p} : proc'[q] = proc[q]
    BY <1>0, <2>3 DEF TokenTypeOK
  <2> QED  BY <1>1, <2>2, <2>4, MoveFiles
<1>7. CASE Refused(p) \/ KillCommand(p)
  <2>1. Finish(p, "failed")
    BY <1>7 DEF Refused, KillCommand
  <2> QED  BY <1>0, <1>1, <2>1, FinishMoves, MoveFiles
<1>8. CASE GrantedUnheard(p, rotated)
  <2>1. IF p \in Tasks THEN Clear(cfg.token) ELSE Apart
    BY <1>0, <1>8 DEF GrantedUnheard, Grant, Safe
  <2>2. proc'[p].pc = "unheard" /\ \A q \in Proc \ {p} : proc'[q] = proc[q]
    BY <1>0, <1>8 DEF GrantedUnheard, Goto, TokenTypeOK
  <2> QED  BY <1>1, <2>1, <2>2, MoveFiles
<1> QED  BY <1>2, <1>3, <1>4, <1>5, <1>6, <1>7, <1>8

\* save_token_file, with or without an error
LEMMA TokenSaves ==
    ASSUME TokenInv, FilesInv, NEW p \in Proc, SaveTokens(p) \/ SaveTokensFails(p)
    PROVE  FilesInv'
<1>0. TokenTypeOK /\ LockInv /\ Safe(p) /\ cfg \in Configs
  BY DEF TokenInv, FilesInv, TokenTypeOK
<1>1. /\ cfg' = cfg /\ proc[p].pc = "got" /\ proc[p].got.kind = "tokens"
      /\ IF p \in Tasks THEN cfg.token # NoPath /\ Clear(cfg.token) ELSE Apart
  BY <1>0 DEF SaveTokens, SaveTokensFails, Safe, LockInv
<1>2. cfg.token \in Path \cup {NoPath}
  BY <1>0, SecretIs
<1>3. /\ SecretInv' /\ Tasks' = Tasks /\ Apart' = Apart
      /\ \A q \in Proc \ {p} : proc'[q] = proc[q] => Safe(q)'
      /\ SaveTokens(p) /\ cfg.token # NoPath => Holds(Entry[cfg.token], "tokens")'
  <2>1. CASE disk' = disk /\ (SaveTokens(p) => cfg.token = NoPath)
    BY <1>1, <2>1, SameFiles
  <2>2. CASE disk' = Put(cfg.token, proc[p].got) /\ cfg.token # NoPath
    <3>1. cfg.token \in Path /\ Clear(cfg.token)
      BY <1>1, <1>2, <2>2 DEF Apart
    <3>2. /\ SecretInv' /\ Tasks' = Tasks /\ Apart' = Apart
          /\ Entry[cfg.token] \in DOMAIN disk' /\ disk'[Entry[cfg.token]] = proc[p].got
          /\ \A q \in Proc : proc'[q] = proc[q] => Safe(q)'
      BY <1>1, <2>2, <3>1, RenameFiles
    <3>3. Holds(Entry[cfg.token], "tokens")'
      BY <1>1, <3>2 DEF Holds
    <3> QED  BY <3>2, <3>3
  <2>3. \/ disk' = disk /\ (SaveTokens(p) => cfg.token = NoPath)
        \/ disk' = Put(cfg.token, proc[p].got) /\ cfg.token # NoPath
    BY DEF SaveTokens, SaveTokensFails, Put
  <2> QED  BY <2>1, <2>2, <2>3
<1>4. CASE \E l \in {"done", "failed"} : Finish(p, l) /\ (l = "done" => SaveTokens(p) /\ NextSave(p) = "done")
  <2>1. PICK l \in {"done", "failed"} : Finish(p, l) /\ (l = "done" => SaveTokens(p) /\ NextSave(p) = "done")
    BY <1>4
  <2>2. /\ \A q \in Proc \ {p} : proc'[q] = proc[q]
        /\ IF p \in Tasks THEN proc'[p].pc = "idle" ELSE proc'[p].pc = l
    BY <1>0, <2>1, FinishMoves
  <2>3. p \notin Tasks /\ l = "done" => cfg.access = NoPath
    BY <2>1 DEF NextSave, Tasks
  <2>4. Safe(p)'
    BY <1>1, <1>3, <2>1, <2>2, <2>3 DEF Safe
  <2> QED  BY <1>3, <2>2, <2>4 DEF FilesInv
<1>5. CASE SaveTokens(p) /\ NextSave(p) # "done"
  <2>1. Goto(p, "access") /\ cfg.access # NoPath /\ p \notin Tasks
    BY <1>5 DEF SaveTokens, NextSave, Tasks
  <2>2. proc'[p].pc = "access" /\ \A q \in Proc \ {p} : proc'[q] = proc[q]
    BY <1>0, <2>1 DEF Goto, TokenTypeOK
  <2>3. Safe(p)'
    BY <1>1, <1>3, <1>5, <2>1, <2>2 DEF Safe
  <2> QED  BY <1>3, <2>2, <2>3 DEF FilesInv
<1> QED  BY <1>4, <1>5 DEF SaveTokens, SaveTokensFails

\* save_access_token_file, with or without an error
LEMMA AccessSaves ==
    ASSUME TokenInv, FilesInv, NEW p \in Proc, SaveAccess(p) \/ SaveAccessFails(p)
    PROVE  FilesInv'
<1>0. TokenTypeOK /\ LockInv /\ Safe(p) /\ cfg \in Configs
  BY DEF TokenInv, FilesInv, TokenTypeOK
<1>1. cfg' = cfg /\ proc[p].pc = "access"
  BY DEF SaveAccess, SaveAccessFails
<1>2. p \notin Tasks /\ Apart /\ cfg.access # NoPath
  BY <1>0, <1>1 DEF Safe, LockInv
<1>3. cfg.access \in Path
  BY <1>0, <1>2, SecretIs
<1> DEFINE x == AccessToken(proc[p].got.access)
<1>4. x.kind = "access"
  BY DEF AccessToken
<1>5. disk' = disk \/ disk' = Put(cfg.access, x)
  BY DEF SaveAccess, SaveAccessFails
<1>6. SaveAccess(p) => disk' = Put(cfg.access, x)
  BY DEF SaveAccess
<1> HIDE DEF x
<1>7. /\ SecretInv' /\ Tasks' = Tasks /\ Apart' = Apart
      /\ \A q \in Proc \ {p} : proc'[q] = proc[q] => Safe(q)'
      /\ cfg.token # NoPath => Holds(Entry[cfg.token], "tokens")'
      /\ SaveAccess(p) => Holds(Entry[cfg.access], "access")'
  <2>1. CASE disk' = Put(cfg.access, x)
    <3>1. Clear(cfg.access) /\ (cfg.token # NoPath => Entry[cfg.token] # Entry[cfg.access])
      BY <1>2 DEF Apart
    <3>2. /\ SecretInv' /\ Tasks' = Tasks /\ Apart' = Apart
          /\ Entry[cfg.access] \in DOMAIN disk' /\ disk'[Entry[cfg.access]] = x
          /\ \A l, k : l # Entry[cfg.access] /\ Holds(l, k) => l \in DOMAIN disk' /\ disk'[l].kind = k
          /\ \A q \in Proc : proc'[q] = proc[q] => Safe(q)'
      BY <1>1, <1>3, <1>4, <2>1, <3>1, RenameFiles
    <3>3. cfg.token # NoPath => Holds(Entry[cfg.token], "tokens")
      BY <1>0, <1>1 DEF Safe
    <3>4. Holds(Entry[cfg.access], "access")'
      BY <1>1, <1>4, <3>2 DEF Holds
    <3> QED  BY <1>1, <3>1, <3>2, <3>3, <3>4 DEF Holds
  <2>2. CASE disk' = disk /\ ~SaveAccess(p)
    <3>1. cfg.token # NoPath => Holds(Entry[cfg.token], "tokens")
      BY <1>0, <1>1 DEF Safe
    <3> QED  BY <1>1, <2>2, <3>1, SameFiles
  <2> QED  BY <1>5, <1>6, <2>1, <2>2
<1>8. PICK l \in {"done", "failed"} : Finish(p, l) /\ (l = "done" => SaveAccess(p))
  BY DEF SaveAccess, SaveAccessFails
<1>9. proc'[p].pc = l /\ \A q \in Proc \ {p} : proc'[q] = proc[q]
  BY <1>0, <1>2, <1>8, FinishMoves
<1>10. Safe(p)'
  BY <1>1, <1>2, <1>7, <1>8, <1>9 DEF Safe
<1> QED  BY <1>7, <1>9, <1>10 DEF FilesInv

LEMMA FilesInitInv ==
    TokenInit => FilesInv
<1> SUFFICES ASSUME TokenInit PROVE FilesInv
  OBVIOUS
<1> DEFINE s == IF SecretPath = NoPath THEN {} ELSE {Target[SecretPath]}
           t == IF cfg.stored THEN {Target[cfg.token]} ELSE {}
<1>1. /\ cfg \in Configs
      /\ disk = [l \in s \cup t |-> IF l \in s THEN Secret ELSE TokenSet(1, 1)]
      /\ \A p \in Proc : proc[p].pc = "idle"
  BY DEF TokenInit
<1>2. SecretInv
  <2> SUFFICES ASSUME SecretPath # NoPath
               PROVE  /\ Holds(Target[SecretPath], "secret")
                      /\ Entry[SecretPath] \in DOMAIN disk => Holds(Entry[SecretPath], "secret")
    BY DEF SecretInv
  <2>1. SecretPath \in Path /\ (cfg.stored => cfg.token \in Path)
    <3>1. cfg.stored => cfg.token # NoPath
      BY <1>1, ConfigAssumption
    <3> QED  BY <1>1, <3>1, SecretIs
  <2>2. s = {Target[SecretPath]}
    OBVIOUS
  <2>3. ASSUME Entry[SecretPath] \in t PROVE Entry[SecretPath] \in s
    <3>1. cfg.token \in Path /\ Entry[SecretPath] = Target[cfg.token]
      BY <2>1, <2>3
    <3> QED  BY <2>1, <2>2, <3>1, TargetFacts
  <2> HIDE DEF s, t
  <2>4. \A l \in s : Holds(l, "secret")
    BY <1>1 DEF Holds, Secret
  <2>5. DOMAIN disk = s \cup t
    BY <1>1
  <2> QED  BY <2>2, <2>3, <2>4, <2>5
<1>3. \A p \in Proc : Safe(p)
  BY <1>1 DEF Safe
<1> QED  BY <1>2, <1>3 DEF FilesInv

LEMMA FilesStep ==
    TokenInv /\ FilesInv /\ [Next]_vars => FilesInv'
<1> SUFFICES ASSUME TokenInv, FilesInv, [Next]_vars PROVE FilesInv'
  OBVIOUS
<1>1. ASSUME UNCHANGED <<cfg, disk, proc>> PROVE FilesInv'
  BY <1>1, SameFiles DEF FilesInv
<1>2. CASE TokenNext
  <2>1. CASE \E p \in Proc : Load(p) \/ KillCommand(p)
    BY <2>1, EarlySteps
  <2>2. ASSUME NEW p \in Proc, Step(p) PROVE FilesInv'
    <3>1. CASE \/ Lock(p) \/ Validate(p) \/ ReadTokens(p)
               \/ StartDevice(p) \/ DeviceExpired(p) \/ Poll(p)
      BY <3>1, EarlySteps
    <3>2. CASE SaveTokens(p) \/ SaveTokensFails(p)
      BY <3>2, TokenSaves
    <3>3. CASE SaveAccess(p) \/ SaveAccessFails(p)
      BY <3>3, AccessSaves
    <3> QED  BY <2>2, <3>1, <3>2, <3>3 DEF Step
  <2>3. ASSUME NEW p \in Proc, Answered(p) PROVE FilesInv'
    BY <2>3, EarlySteps DEF Answered
  <2>4. CASE KillClient
    <3>1. /\ UNCHANGED <<cfg, disk>>
          /\ \A q \in Proc : proc'[q] = proc[q] \/ (q \in Tasks /\ proc'[q].pc = "idle")
      BY <2>4 DEF KillClient, webex
    <3>2. ASSUME NEW q \in Proc, q \in Tasks, proc'[q].pc = "idle" PROVE Safe(q)'
      BY <3>1, <3>2, SameFiles DEF Safe
    <3> QED  BY <3>1, <3>2, SameFiles DEF FilesInv
  <2>5. CASE Age \/ Tick
    BY <1>1, <2>5 DEF Age, Tick, files
  <2> QED  BY <1>2, <2>1, <2>2, <2>3, <2>4, <2>5 DEF TokenNext
<1>3. CASE Listener \/ Over \/ UNCHANGED vars
  <2>1. UNCHANGED <<cfg, disk, proc>>
    BY <1>3 DEF Listener, Settles, MainStarts, MainListens, MainFails, Reload, ReloadStarted,
                ReloadFails, ReloadDone, ReloadStopFails, Shutdown, ListenerStopped, ExitSidecar,
                Over, tokenVars, vars
  <2> QED  BY <1>1, <2>1
<1> QED  BY <1>2, <1>3 DEF Next, Writes

\* No command and no task destroys the client secret, and the token file and
\* the access-token file of a command that has ended hold what it saved, for
\* all directories, links, paths and spellings of names: the check of the
\* paths is sound when it is made, what it finds does not depend on files
\* that come and go afterwards, and a task only replaces a file in which it
\* has read tokens.
THEOREM FilesSurvive ==
    Spec => []FilesKept
<1>1. Init => FilesInv
  BY FilesInitInv DEF Init
<1>2. TokenInv /\ FilesInv => FilesKept
  <2> SUFFICES ASSUME TokenInv, FilesInv PROVE FilesKept
    OBVIOUS
  <2>1. SecretPath # NoPath => Read(SecretPath).kind = "secret"
    BY DEF FilesInv, SecretInv, Holds, Read, Place
  <2>2. \A q, k : Holds(Entry[q], k) => Read(q).kind = k
    BY DEF Holds, Read, Place
  <2> QED  BY <2>1, <2>2 DEF FilesInv, Safe, FilesKept
<1> QED  BY <1>1, <1>2, FilesStep, TokenInvariance, PTL DEF Spec
=============================================================================
