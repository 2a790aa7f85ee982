------------------------------- MODULE Tokens -------------------------------
(***************************************************************************)
(* OAuth tokens: RefreshingTokenProvider of src/src/auth.rs, and the       *)
(* commands `auth device` and `auth refresh` of the command line with      *)
(* their token files.                                                      *)
(*                                                                         *)
(* Tokens are numbers, in the order in which Webex issues them.  Several   *)
(* processes work on the files of one configuration: a client, whose tasks *)
(* share one RefreshingTokenProvider, and commands, which know nothing of  *)
(* its lock.  Webex may replace the refresh token at each use.             *)
(***************************************************************************)
EXTENDS AuthPaths

CONSTANTS
    Proc,      \* tasks of the client, and commands
    MaxIssued, \* bound on the tokens issued
    MaxWait,   \* bound on Retry-After and on the polling interval
    Configs,   \* configurations, see Init
    NoProc

ASSUME ProcAssumption == IsFiniteSet(Proc) /\ NoProc \notin Proc
ASSUME BoundAssumption == MaxIssued \in Nat /\ MaxWait \in Nat
ASSUME ConfigAssumption ==
    \A g \in Configs :
        /\ {g.token, g.access, g.secret.file, g.secret.envFile} \subseteq Path \cup {NoPath}
        /\ g.stored => g.token # NoPath

VARIABLES
    cfg,    \* the configuration
    disk,   \* disk[l]: the content of the regular file at location l
    valid,  \* the refresh tokens that Webex accepts
    issued, \* the number of tokens issued
    aged,   \* access tokens up to this one are about to expire
    lock,   \* the task that holds refresh_lock
    proc,   \* proc[p]: where p is, what it has read and what it has received
    device, \* the polling of `auth device`
    lost    \* a refresh token was lost to a failure between Webex and the file

files == <<disk, lost>>
webex == <<valid, issued, aged>>
tokenVars == <<cfg, disk, valid, issued, aged, lock, proc, device, lost>>

TokenSet(a, r) == [kind |-> "tokens", access |-> a, refresh |-> r]
AccessToken(a) == [kind |-> "access", access |-> a, refresh |-> 0]
Secret == [kind |-> "secret", access |-> 0, refresh |-> 0]
Nothing == [kind |-> "none", access |-> 0, refresh |-> 0]

\* The location that p names now, and what a reader finds there
Place(p) == IF Entry[p] \in DOMAIN disk THEN Entry[p] ELSE Target[p]
Read(p) == IF Place(p) \in DOMAIN disk THEN disk[Place(p)] ELSE Nothing

Put(p, x) == [l \in DOMAIN disk \cup {Entry[p]} |-> IF l = Entry[p] THEN x ELSE disk[l]]

SecretPath == ResolveClientSecret(cfg.secret).path

\* Before the first command the files are there that somebody has put there:
\* the secret, and a token set from an earlier login.
TokenInit ==
    /\ cfg \in Configs
    /\ disk = LET s == IF SecretPath = NoPath THEN {} ELSE {Target[SecretPath]}
                  t == IF cfg.stored THEN {Target[cfg.token]} ELSE {}
              IN  [l \in s \cup t |-> IF l \in s THEN Secret ELSE TokenSet(1, 1)]
    /\ valid = {1} /\ issued = 1 /\ aged = 0 /\ lost = FALSE
    /\ lock = NoProc
    /\ proc = [p \in Proc |-> [pc |-> "idle", seen |-> Nothing, got |-> Nothing]]
    /\ device = [interval |-> cfg.interval, wait |-> 0, left |-> cfg.expiresIn]
-----------------------------------------------------------------------------
Kind(p) == cfg.kind[p]
Goto(p, l) == proc' = [proc EXCEPT ![p].pc = l]

\* is_expiring_within
Expiring(x) == x.access <= aged

\* A task's call ends, with a token or an error: the guard is dropped.  A
\* command ends for good.
Finish(p, l) ==
    /\ proc' = [proc EXCEPT ![p] = [pc |-> IF Kind(p) = "task" THEN "idle" ELSE l,
                                    seen |-> Nothing, got |-> Nothing]]
    /\ lock' = IF lock = p THEN NoProc ELSE lock

(***************************************************************************)
(* RefreshingTokenProvider::access_token                                   *)
(***************************************************************************)
\* build_token_file_client: a client refreshes only with all it needs.
Refreshes == /\ AuthSource(FALSE, cfg.token, NoPath, FALSE) = "file"
             /\ cfg.clientId /\ ResolveClientSecret(cfg.secret).from # "none"

\* The first load finds a token that is about to expire: wait for the lock.
\* (Any other token is returned, and nothing changes.)
Load(p) ==
    /\ proc[p].pc = "idle" /\ Kind(p) = "task" /\ Refreshes
    /\ Read(cfg.token).kind = "tokens" /\ Expiring(Read(cfg.token))
    /\ proc' = [proc EXCEPT ![p].pc = "locking", ![p].seen = Read(cfg.token)]
    /\ UNCHANGED <<cfg, files, webex, lock, device>>

\* Mutant: the token is not loaded again under the lock.
LockStale(p) ==
    /\ proc[p].pc = "locking" /\ lock = NoProc
    /\ lock' = p /\ Goto(p, "requesting")
    /\ UNCHANGED <<cfg, files, webex, device>>

\* The lock is taken and the token loaded again: somebody else may have
\* refreshed it, or there may be none.
Lock(p) ==
    /\ proc[p].pc = "locking" /\ lock = NoProc
    /\ IF Read(cfg.token).kind = "tokens" /\ Expiring(Read(cfg.token)) /\ Read(cfg.token).refresh # 0
       THEN /\ lock' = p
            /\ proc' = [proc EXCEPT ![p].pc = "requesting", ![p].seen = Read(cfg.token)]
       ELSE Finish(p, "failed")
    /\ UNCHANGED <<cfg, files, webex, device>>

(***************************************************************************)
(* The commands                                                            *)
(***************************************************************************)
\* auth_refresh and auth_device up to ensure_distinct_auth_file_paths
Validate(p) ==
    /\ proc[p].pc = "idle" /\ Kind(p) \in {"refresh", "device"}
    /\ IF /\ cfg.clientId
          /\ cfg.token # NoPath \/ (Kind(p) = "device" /\ cfg.stdout)
          /\ DistinctAuthFiles(cfg.token, cfg.access, EffectiveSecretPath(cfg.secret), DOMAIN disk)
       THEN Goto(p, "reading") ELSE Goto(p, "failed")
    /\ UNCHANGED <<cfg, files, webex, lock, device>>

SecretFound == LET s == ResolveClientSecret(cfg.secret)
               IN  s.from = "value" \/ (s.from = "file" /\ Read(s.path).kind # "none")

\* auth_refresh reads the token file and the client secret.
ReadTokens(p) ==
    /\ proc[p].pc = "reading" /\ Kind(p) = "refresh"
    /\ IF Read(cfg.token).kind = "tokens" /\ Read(cfg.token).refresh # 0 /\ SecretFound
       THEN proc' = [proc EXCEPT ![p].pc = "requesting", ![p].seen = Read(cfg.token)]
       ELSE Goto(p, "failed")
    /\ UNCHANGED <<cfg, files, webex, lock, device>>

\* auth_device reads the client secret and sends start_device_authorization.
StartDevice(p) ==
    /\ proc[p].pc = "reading" /\ Kind(p) = "device"
    /\ IF SecretFound THEN Goto(p, "starting") ELSE Goto(p, "failed")
    /\ UNCHANGED <<cfg, files, webex, lock, device>>

\* It is answered, with a device code or an error.
DeviceStarted(p) ==
    /\ proc[p].pc = "starting"
    /\ Goto(p, "polling") \/ Goto(p, "failed")
    /\ UNCHANGED <<cfg, files, webex, lock, device>>

Later(x, y) == IF x >= y THEN x ELSE y

\* The loop of auth_device looks at the deadline, which is not done while it
\* sleeps or waits for an answer: the device code has expired.
DeviceExpired(p) ==
    /\ proc[p].pc = "polling" /\ device.wait = 0 /\ device.left = 0
    /\ Goto(p, "failed")
    /\ UNCHANGED <<cfg, files, webex, lock, device>>

\* Mutant: the deadline is not looked at.
PollForever(p) ==
    /\ proc[p].pc = "polling" /\ device.wait = 0
    /\ Goto(p, "asking")
    /\ UNCHANGED <<cfg, files, webex, lock, device>>

\* It has not: poll_device_token sends its request.
Poll(p) ==
    /\ proc[p].pc = "polling" /\ device.wait = 0 /\ device.left > 0
    /\ Goto(p, "asking")
    /\ UNCHANGED <<cfg, files, webex, lock, device>>

\* An answer of the device token endpoint: its status, the error code that
\* normalize_device_oauth_error_code finds in its body, and its Retry-After,
\* 0 if it has none.
DeviceResponse == [status : {200, 400, 428, 500}, error : {"authorization_pending", "slow_down", "other"},
                   retryAfter : 0 .. MaxWait]

\* poll_device_token, decode_device_token_bad_request
DeviceTokenStatus(r) ==
    IF r.status = 428 \/ (r.status = 400 /\ r.error = "authorization_pending") THEN "pending"
    ELSE IF r.status = 400 /\ r.error = "slow_down" THEN "slow_down"
    ELSE IF r.status = 200 THEN "authorized"
    ELSE "error"

\* Pending and SlowDown: sleep, and go round again.
PollPending(p, r) ==
    /\ proc[p].pc = "asking"
    /\ DeviceTokenStatus(r) \in {"pending", "slow_down"}
    /\ LET interval == IF DeviceTokenStatus(r) = "slow_down" THEN device.interval + 1 ELSE device.interval
       IN  /\ interval <= MaxWait
           /\ device' = [device EXCEPT !.interval = interval, !.wait = Later(r.retryAfter, interval)]
    /\ Goto(p, "polling")
    /\ UNCHANGED <<cfg, files, webex, lock>>

\* Authorized: a new grant
PollAuthorized(p, r) ==
    /\ proc[p].pc = "asking" /\ issued < MaxIssued
    /\ DeviceTokenStatus(r) = "authorized"
    /\ issued' = issued + 1 /\ valid' = valid \cup {issued + 1}
    /\ proc' = [proc EXCEPT ![p].pc = "got", ![p].got = TokenSet(issued + 1, issued + 1)]
    /\ UNCHANGED <<cfg, files, aged, lock, device>>

\* An error ends the command.
PollFails(p, r) ==
    /\ proc[p].pc = "asking"
    /\ DeviceTokenStatus(r) = "error"
    /\ Goto(p, "failed")
    /\ UNCHANGED <<cfg, files, webex, lock, device>>

(***************************************************************************)
(* OAuthClient::refresh_token, of tasks and of `auth refresh`              *)
(***************************************************************************)
\* Webex grants it: the old refresh token is replaced, or kept and left out
\* of the answer.
Grant(p, rotated) ==
    /\ proc[p].pc = "requesting" /\ proc[p].seen.refresh \in valid
    /\ issued < MaxIssued /\ rotated \in cfg.rotation
    /\ issued' = issued + 1
    /\ valid' = IF rotated THEN (valid \ {proc[p].seen.refresh}) \cup {issued + 1} ELSE valid

Answer(rotated) == TokenSet(issued + 1, IF rotated THEN issued + 1 ELSE 0)

\* Mutant: the answer is saved as it is.
KeepNothing(x, seen) == x

\* An answer without a refresh token keeps the one that was used.
KeepRefresh(x, seen) == IF x.refresh = 0 THEN [x EXCEPT !.refresh = seen.refresh] ELSE x

Granted(p, rotated) ==
    /\ Grant(p, rotated)
    /\ proc' = [proc EXCEPT ![p].pc = "got", ![p].got = KeepRefresh(Answer(rotated), proc[p].seen)]
    /\ UNCHANGED <<cfg, files, aged, lock, device>>

\* Webex grants it, but the answer is lost on its way.
GrantedUnheard(p, rotated) ==
    /\ Grant(p, rotated)
    /\ Goto(p, "unheard")
    /\ lost' = (lost \/ rotated)
    /\ UNCHANGED <<cfg, disk, aged, lock, device>>

\* Webex does not accept the token, is out of reach, or the connection breaks.
Refused(p) ==
    /\ proc[p].pc \in {"requesting", "unheard"}
    /\ Finish(p, "failed")
    /\ UNCHANGED <<cfg, files, webex, device>>

(***************************************************************************)
(* save_bytes_file: a temporary file is written, synced and renamed.       *)
(***************************************************************************)
\* What p still has to save goes down with it.
Dropped(p) == /\ proc[p].pc = "got" /\ proc[p].got.refresh \in valid
              /\ cfg.token = NoPath \/ Read(cfg.token).refresh \notin valid

\* Nothing is printed before the files are saved.
NextSave(p) == IF cfg.access = NoPath \/ Kind(p) = "task" THEN "done" ELSE "access"

\* save_token_file; a command without a token file goes on.
SaveTokens(p) ==
    /\ proc[p].pc = "got"
    /\ disk' = IF cfg.token = NoPath THEN disk ELSE Put(cfg.token, proc[p].got)
    /\ IF NextSave(p) = "done" THEN Finish(p, "done")
       ELSE Goto(p, "access") /\ UNCHANGED lock
    /\ UNCHANGED <<cfg, webex, device, lost>>

\* It fails before the rename, or after it at set_permissions.
SaveTokensFails(p) ==
    /\ proc[p].pc = "got" /\ cfg.token # NoPath
    /\ \/ disk' = disk /\ lost' = (lost \/ Dropped(p))
       \/ disk' = Put(cfg.token, proc[p].got) /\ UNCHANGED lost
    /\ Finish(p, "failed")
    /\ UNCHANGED <<cfg, webex, device>>

\* save_access_token_file
SaveAccess(p) ==
    /\ proc[p].pc = "access"
    /\ disk' = Put(cfg.access, AccessToken(proc[p].got.access))
    /\ Finish(p, "done")
    /\ UNCHANGED <<cfg, webex, device, lost>>

SaveAccessFails(p) ==
    /\ proc[p].pc = "access"
    /\ disk' \in {disk, Put(cfg.access, AccessToken(proc[p].got.access))}
    /\ Finish(p, "failed")
    /\ UNCHANGED <<cfg, webex, device, lost>>
-----------------------------------------------------------------------------
Tasks == {p \in Proc : Kind(p) = "task"}

\* The client, or a command, is killed.
KillClient ==
    /\ \E p \in Tasks : proc[p].pc # "idle"
    /\ lost' = (lost \/ \E p \in Tasks : Dropped(p))
    /\ proc' = [p \in Proc |-> IF p \in Tasks THEN [pc |-> "idle", seen |-> Nothing, got |-> Nothing]
                               ELSE proc[p]]
    /\ lock' = NoProc
    /\ UNCHANGED <<cfg, disk, webex, device>>

KillCommand(p) ==
    /\ Kind(p) \in {"refresh", "device"} /\ proc[p].pc \notin {"idle", "done", "failed"}
    /\ lost' = (lost \/ Dropped(p))
    /\ Finish(p, "failed")
    /\ UNCHANGED <<cfg, disk, webex, device>>

\* One more access token is about to expire.
Age ==
    /\ aged < issued /\ aged < MaxIssued - 1
    /\ aged' = aged + 1
    /\ UNCHANGED <<cfg, files, valid, issued, lock, proc, device>>

Less(n) == IF n = 0 THEN 0 ELSE n - 1

\* Time passes for `auth device`.
Tick ==
    /\ \E p \in Proc : proc[p].pc \in {"polling", "asking"}
    /\ device.wait > 0 \/ device.left > 0
    /\ device' = [device EXCEPT !.wait = Less(@), !.left = Less(@)]
    /\ UNCHANGED <<cfg, files, webex, lock, proc>>

\* What p does by itself
Step(p) ==
    \/ Lock(p) \/ Validate(p) \/ ReadTokens(p) \/ StartDevice(p) \/ DeviceExpired(p) \/ Poll(p)
    \/ SaveTokens(p) \/ SaveTokensFails(p) \/ SaveAccess(p) \/ SaveAccessFails(p)

\* What Webex does to p's request.  OAuthClient::new sets no timeout, so that
\* this may never happen: nothing but a kill then ends the request.
Answered(p) ==
    \/ DeviceStarted(p)
    \/ \E r \in DeviceResponse : PollPending(p, r) \/ PollAuthorized(p, r) \/ PollFails(p, r)
    \/ \E rotated \in BOOLEAN : Granted(p, rotated) \/ GrantedUnheard(p, rotated)
    \/ Refused(p)

\* p waits for an answer.
Waiting(p) == proc[p].pc \in {"starting", "asking", "requesting", "unheard"}

TokenNext ==
    \/ \E p \in Proc : Load(p) \/ Step(p) \/ Answered(p) \/ KillCommand(p)
    \/ KillClient \/ Age \/ Tick
-----------------------------------------------------------------------------
(***************************************************************************)
(* Properties.                                                             *)
(***************************************************************************)
\* No command destroys a file that it was not given for the purpose: the
\* client secret stays what it is, and the token file and the access-token
\* file do not overwrite each other, however the paths are written and
\* whichever links, missing directories and upper-case names they go through.
FilesKept ==
    /\ SecretPath # NoPath => Read(SecretPath).kind = "secret"
    /\ \A p \in Proc : proc[p].pc = "done" =>
         /\ cfg.token # NoPath => Read(cfg.token).kind = "tokens"
         /\ cfg.access # NoPath => Read(cfg.access).kind = "access"

\* The login survives: as long as nothing fails between an answer of Webex
\* and the rename of the token file, the file holds a refresh token that
\* Webex accepts, or somebody is about to save one, with several tasks and
\* commands refreshing it at once.  Beside commands this takes a Webex that
\* always replaces the refresh token or never does, as in the configurations
\* checked and in LoginSurvives (Steady): else a command that is slow to save
\* the token it was left with overwrites the one that has replaced it.
LoginKept ==
    ~lost /\ cfg.token # NoPath /\ Read(cfg.token).kind = "tokens" =>
        \/ Read(cfg.token).refresh \in valid
        \/ \E p \in Proc : proc[p].pc = "got" /\ proc[p].got.refresh \in valid

\* The tasks of a client refresh a token once: none of them sends a refresh
\* token that Webex has already replaced, and no two are at it together.
RefreshedOnce ==
    LET refreshing == {p \in Tasks : proc[p].pc \in {"requesting", "unheard", "got"}}
    IN  /\ Cardinality(refreshing) <= 1
        /\ ~lost /\ Tasks = Proc =>
             \A p \in refreshing : proc[p].pc = "requesting" => proc[p].seen.refresh \in valid
=============================================================================
