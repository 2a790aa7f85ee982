---------------------------- MODULE TokenReload ----------------------------
(***************************************************************************)
(* The readers of the token files that Tokens writes: the JavaScript       *)
(* sidecar of src/examples/sidecar-js/index.mjs, which replaces its        *)
(* listener when the token changes.  (The account bot reads the file at    *)
(* each request and keeps nothing.)                                        *)
(*                                                                         *)
(* A listener is named by its access token.  What JavaScript does up to    *)
(* its next await is one step; shutdown may run while a reload waits.      *)
(***************************************************************************)
EXTENDS Tokens

VARIABLES
    js,      \* the sidecar: "down", "starting", "running", "stopping", "exited"
    active,  \* activeListener, 0 if there is none
    reload,  \* reloadTokenIfChanged: "idle", "starting" or "stopping"
    next,    \* the listener that is being started, or has just been
    on       \* the listeners whose handlers are registered

jsVars == <<js, active, reload, next, on>>
vars == <<cfg, disk, valid, issued, aged, lock, proc, device, lost, js, active, reload, next, on>>

\* The path of WEBEX_ACCESS_TOKEN_FILE, or else WEBEX_TOKEN_FILE
ReaderPath == OrElse(cfg.access, cfg.token)

\* load_access_token_file, loadAccessToken: a token as it is, or the one of a
\* token set; 0 if that fails.
LoadAccessToken(p) ==
    IF p = NoPath \/ Read(p).kind \notin {"tokens", "access"} THEN 0 ELSE Read(p).access

Init ==
    /\ TokenInit
    /\ js = "down" /\ active = 0 /\ reload = "idle" /\ next = 0 /\ on = {}
-----------------------------------------------------------------------------
\* main: the sidecar is started once there is a token to read.
MainStarts ==
    /\ cfg.sidecar /\ js = "down" /\ LoadAccessToken(ReaderPath) # 0
    /\ js' = "starting" /\ next' = LoadAccessToken(ReaderPath)
    /\ UNCHANGED <<tokenVars, active, reload, on>>

MainListens ==
    /\ js = "starting"
    /\ js' = "running" /\ active' = next /\ on' = {next}
    /\ UNCHANGED <<tokenVars, reload, next>>

\* The first startListener fails: shutdown has no listener to stop.
MainFails ==
    /\ js = "starting" /\ js' = "exited"
    /\ UNCHANGED <<tokenVars, active, reload, next, on>>

\* Mutant: the old listener is stopped while the new one starts.
ReloadStopsFirst ==
    /\ js \in {"running", "stopping"} /\ reload = "idle"
    /\ LoadAccessToken(ReaderPath) \notin {0, active}
    /\ reload' = "starting" /\ next' = LoadAccessToken(ReaderPath)
    /\ on' = on \ {active}
    /\ UNCHANGED <<tokenVars, js, active>>

\* reloadTokenIfChanged, by the interval or by SIGHUP, which shutdown does not
\* turn off: a changed token is loaded, and a listener is being started.
Reload ==
    /\ js \in {"running", "stopping"} /\ reload = "idle"
    /\ LoadAccessToken(ReaderPath) \notin {0, active}
    /\ reload' = "starting" /\ next' = LoadAccessToken(ReaderPath)
    /\ UNCHANGED <<tokenVars, js, active, on>>

\* startListener has returned: the handlers of the new listener are on, those
\* of the previous one are taken off.
ReloadStarted ==
    /\ js \in {"running", "stopping"} /\ reload = "starting"
    /\ on' = (on \cup {next}) \ {active}
    /\ IF active = 0 THEN reload' = "idle" /\ active' = next
       ELSE reload' = "stopping" /\ UNCHANGED active
    /\ UNCHANGED <<tokenVars, js, next>>

\* Mutant: reloadInProgress is not reset.
ReloadFailsForGood ==
    /\ js \in {"running", "stopping"} /\ reload = "starting"
    /\ reload' = "failed"
    /\ UNCHANGED <<tokenVars, js, active, next, on>>

\* startListener fails: the old listener goes on.
ReloadFails ==
    /\ js \in {"running", "stopping"} /\ reload = "starting"
    /\ reload' = "idle"
    /\ UNCHANGED <<tokenVars, js, active, next, on>>

\* stopListener(previousListener, false) has returned.
ReloadDone ==
    /\ js \in {"running", "stopping"} /\ reload = "stopping"
    /\ active' = next /\ reload' = "idle"
    /\ UNCHANGED <<tokenVars, js, next, on>>

\* It throws: the new listener is made the active one, for shutdown(1) to stop
\* it, which returns at once if it runs already.
ReloadStopFails ==
    /\ js \in {"running", "stopping"} /\ reload = "stopping"
    /\ active' = next /\ reload' = "idle"
    /\ js' = "stopping"
    /\ on' = IF js = "running" THEN on \ {next} ELSE on
    /\ UNCHANGED <<tokenVars, next>>

\* shutdown, after a signal or a forward that failed: the handlers of the
\* active listener are taken off.
Shutdown ==
    /\ js = "running" /\ js' = "stopping"
    /\ on' = on \ {active}
    /\ UNCHANGED <<tokenVars, active, reload, next>>

\* stopListener of shutdown has returned, and the process exits once the
\* health server is closed.
ListenerStopped ==
    /\ js = "stopping" /\ active # 0
    /\ active' = 0
    /\ UNCHANGED <<tokenVars, js, reload, next, on>>

\* process.exit, after all that or because stopListener threw
ExitSidecar ==
    /\ js = "stopping"
    /\ js' = "exited" /\ active' = 0 /\ on' = {} /\ reload' = "idle"
    /\ UNCHANGED <<tokenVars, next>>
-----------------------------------------------------------------------------
Settles == MainListens \/ MainFails \/ ReloadStarted \/ ReloadFails \/ ReloadDone \/ ReloadStopFails
             \/ ExitSidecar

Listener == MainStarts \/ Reload \/ Shutdown \/ ListenerStopped \/ Settles

Writes == TokenNext /\ UNCHANGED jsVars

Over == /\ js \in {"down", "running", "exited"}
        /\ \A p \in Proc : proc[p].pc \in {"idle", "done", "failed"}
        /\ UNCHANGED vars

Next == Writes \/ Listener \/ Over

Spec == Init /\ [][Next]_vars

\* Every process goes on with what it does by itself, its reads and writes of
\* local files end, every timer fires and the clock of `auth device` goes on.
\* No request is promised an answer: Answered is not fair.  A listener that
\* is started again and again is started in the end.
FairSpec ==
    /\ Spec
    /\ \A p \in Proc : WF_vars(Step(p) /\ UNCHANGED jsVars)
    /\ WF_vars(Tick /\ UNCHANGED jsVars)
    /\ WF_vars(Reload) /\ WF_vars(Settles) /\ SF_vars(ReloadStarted)
-----------------------------------------------------------------------------
(***************************************************************************)
(* Properties.                                                             *)
(***************************************************************************)
\* A running sidecar is never deaf and never hears twice for long: some
\* listener is always on, and between reloads exactly the active one, through
\* listeners that fail to start or to stop and reloads that overlap with
\* shutdown.  The process takes all of them down.
OneListener ==
    /\ js = "running" => on # {} /\ (reload = "idle" => on = {active})
    /\ js = "exited" => on = {}

\* The sidecar ends up listening with the token that is in the file, although
\* starts fail and the file changes again during a reload.
ListensWithFile ==
    <>[](js = "running" => active = LoadAccessToken(ReaderPath))

\* A command ends, or it waits for ever for an answer of Webex to a request of
\* its own: another process that waits, be it with refresh_lock, does not stop
\* it, and `auth device`, as long as its polls are answered, ends however often
\* it is told to go on, at the first look at the deadline after it has passed.
\* A task keeps refresh_lock only while it waits for such an answer.
CommandsEnd ==
    /\ \A p \in Proc :
         <>[](Kind(p) \in {"refresh", "device"} => proc[p].pc \in {"done", "failed"} \/ Waiting(p))
    /\ []<>(lock = NoProc) \/ \E p \in Proc : <>[](lock = p /\ Waiting(p))
=============================================================================
