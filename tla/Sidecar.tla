------------------------------ MODULE Sidecar ------------------------------
(***************************************************************************)
(* The event pipeline: the JavaScript sidecar of                           *)
(* src/examples/sidecar-js/index.mjs forwards the events it hears over     *)
(* HTTP to a receiver: `sidecar receive` of the command line or the        *)
(* example receiver, which print them, or the account bot, which replies.  *)
(* The bot appears here with its decisions and answers; its attempts and   *)
(* leases are the subject of AccountBot.                                   *)
(*                                                                         *)
(* Every event is one call of forward(), which makes up to retries + 1     *)
(* requests.  A request that the sidecar has given up on lives on in the   *)
(* receiver, so a connection is an event and the number of its attempt.    *)
(* JavaScript runs one callback at a time: what a callback does up to its  *)
(* next await is one step.                                                 *)
(***************************************************************************)
EXTENDS HttpRequests, BotDecisions, Sequences, SequencesExt

CONSTANTS
    Event,       \* events that the SDK delivers
    MaxInFlight, \* WEBEX_SIDECAR_MAX_IN_FLIGHT
    MaxQueued,   \* WEBEX_SIDECAR_MAX_QUEUED_FORWARDS
    MaxRetries,  \* bound on WEBEX_SIDECAR_FORWARD_RETRIES
    MaxConn,     \* MAX_SIDECAR_CONNECTIONS
    Capacity,    \* the capacity of the receiver's channel
    ApiResult,   \* results of a request to Webex, see BotDecisions
    Configs      \* configurations, see Config

ASSUME EventAssumption == IsFiniteSet(Event)
ASSUME LimitAssumption ==
    /\ MaxInFlight \in Nat \ {0} /\ MaxQueued \in Nat /\ MaxRetries \in Nat
    /\ MaxConn \in Nat \ {0} /\ Capacity \in Nat \ {0}

Message == [room : {"allowed", "denied", "none"}, person : {"self", "other", "none"}]

\* Which receiver runs, where, with a token or not, and until how many
\* events; where the sidecar sends its events, with which token, how often it
\* retries; which events there are (a bound), what they say of their message,
\* and what Webex says of it.
Config == [server : {"cli", "example", "bot"}, path : {"/e", "/h"}, health : {"/e", "/h"},
           bind : SUBSET {"loopback", "other"}, secured : BOOLEAN, open : BOOLEAN,
           exposed : BOOLEAN, maxEvents : Nat, target : {"/e", "/h"}, auth : {"token", "none"},
           retries : 0 .. MaxRetries, events : SUBSET Event, said : Message, truth : Message]

ASSUME ConfigAssumption == Configs \subseteq Config

VARIABLES
    cfg,      \* the configuration
    js,       \* the sidecar: "running", "stopping" (shuttingDown) or "exited"
    pc,       \* pc[e]: where forward() of event e is
    attempt,  \* attempt[e]: its attempt, from 0
    reserved, \* reservedForwards
    inFlight, \* inFlightForwards
    waiters,  \* forwardWaiters
    rx,       \* the receiver: "running", "closing" (no longer listening) or "exited"
    conn,     \* conn[c]: a connection at the receiver
    channel,  \* accepted_sender .. accepted_receiver
    accepted, \* events counted by the receiver, up to max_events
    printed,  \* the events it has printed, or the bot has dealt with
    replied   \* the events to which the bot has sent a reply

sidecar == <<js, pc, attempt, reserved, inFlight, waiters>>
receiver == <<rx, conn, channel, accepted, printed, replied>>
vars == <<cfg, js, pc, attempt, reserved, inFlight, waiters, rx, conn, channel, accepted, printed, replied>>

Conn == Event \X (0 .. MaxRetries)

NoConn == [stage |-> "none", answer |-> Answer(0), written |-> FALSE]

\* The receiver starts, and so does the sidecar (validateForwardingAuth).
Starts(g) == /\ g.server = "bot" => BotStarts(g)
             /\ g.server = "cli" => CliStarts(g)
             /\ g.server = "example" => ExampleStarts(g)
             /\ g.auth = "token" \/ g.open

Init ==
    /\ cfg \in {g \in Configs : Starts(g)}
    /\ js = "running"
    /\ pc = [e \in Event |-> "unheard"] /\ attempt = [e \in Event |-> 0]
    /\ reserved = 0 /\ inFlight = 0 /\ waiters = <<>>
    /\ rx = "running" /\ conn = [c \in Conn |-> NoConn]
    /\ channel = <<>> /\ accepted = 0 /\ printed = {} /\ replied = {}
-----------------------------------------------------------------------------
(***************************************************************************)
(* The sidecar.  forward() is at "waiting" (for a slot), "woken" (its      *)
(* waiter has been resolved), "sending", "sleeping" (before a retry), or   *)
(* over: "done", "refused" (queue full), "failed" or "lost" (at the exit). *)
(***************************************************************************)
Goto(e, l) == pc' = [pc EXCEPT ![e] = l]

Current(e) == <<e, attempt[e]>>

\* fetch: the receiver's port gets a connection, unless it is down.
Send(c) ==
    conn' = IF rx = "running" THEN [conn EXCEPT ![c].stage = "backlog"] ELSE conn

\* Mutant: a newcomer takes a slot without looking at the limit.
AcquireAlways(e, k) ==
    /\ inFlight' = inFlight + 1 /\ Goto(e, "sending") /\ Send(<<e, k>>) /\ UNCHANGED waiters

\* acquireForwardSlot, and on with the request of attempt k: take a free
\* slot, or queue up.
AcquireForwardSlot(e, k) ==
    IF inFlight < MaxInFlight
    THEN inFlight' = inFlight + 1 /\ Goto(e, "sending") /\ Send(<<e, k>>) /\ UNCHANGED waiters
    ELSE waiters' = Append(waiters, e) /\ Goto(e, "waiting") /\ UNCHANGED <<inFlight, conn>>

\* The SDK delivers event e: forward() takes its budget and tries for a slot.
Hear(e) ==
    /\ js = "running" /\ pc[e] = "unheard" /\ e \in cfg.events
    /\ reserved < MaxInFlight + MaxQueued
    /\ reserved' = reserved + 1
    /\ AcquireForwardSlot(e, 0)
    /\ UNCHANGED <<cfg, js, attempt, rx, channel, accepted, printed, replied>>

\* shutdown(1): no more events are heard; what is in flight goes on until
\* the process exits.
Shutdown == js' = "stopping"

\* acquireForwardBudget throws ForwardQueueFullError.
HearTooMuch(e) ==
    /\ js = "running" /\ pc[e] = "unheard" /\ e \in cfg.events
    /\ reserved >= MaxInFlight + MaxQueued
    /\ Goto(e, "refused")
    /\ Shutdown
    /\ UNCHANGED <<cfg, attempt, reserved, inFlight, waiters, receiver>>

\* A resolved waiter runs again; somebody else may have taken the slot.
Wake(e) ==
    /\ js # "exited" /\ pc[e] = "woken"
    /\ AcquireForwardSlot(e, attempt[e])
    /\ UNCHANGED <<cfg, js, attempt, reserved, rx, channel, accepted, printed, replied>>

Retryable(status) == status \in {408, 429} \/ status >= 500

\* Mutant: a waiter is taken off the queue only when none was woken before.
ReleaseForgetful(e, l) ==
    /\ inFlight' = inFlight - 1
    /\ waiters' = waiters
    /\ Goto(e, l)

\* releaseForwardSlot, with forward() of e going on at l: the first waiter is
\* resolved.
ReleaseForwardSlot(e, l) ==
    /\ inFlight' = inFlight - 1
    /\ waiters' = IF waiters = <<>> THEN waiters ELSE Tail(waiters)
    /\ pc' = [x \in Event |-> IF x = e THEN l
                              ELSE IF waiters # <<>> /\ x = Head(waiters) THEN "woken"
                              ELSE pc[x]]

\* The sidecar closes its connection, which the receiver may be serving still.
Closed == [stage |-> "over", answer |-> Answer(0), written |-> FALSE]
Close(c) == conn' = IF conn[c].stage = "over" THEN [conn EXCEPT ![c] = Closed] ELSE conn

\* forwardOnce returns.
ForwardDone(e) ==
    /\ js # "exited" /\ pc[e] = "sending"
    /\ conn[Current(e)].written /\ conn[Current(e)].answer.status = 200
    /\ ReleaseForwardSlot(e, "done")
    /\ reserved' = reserved - 1
    /\ Close(Current(e))
    /\ UNCHANGED <<cfg, js, attempt, rx, channel, accepted, printed, replied>>

\* shouldRetryForward says no: forward() throws, and its caller shuts down.
GivesUp(e) ==
    /\ ReleaseForwardSlot(e, "failed")
    /\ reserved' = reserved - 1
    /\ Shutdown
    /\ UNCHANGED attempt

\* It says yes: the slot is given back, the budget is kept.
BacksOff(e) ==
    /\ attempt[e] < cfg.retries
    /\ ReleaseForwardSlot(e, "sleeping")
    /\ UNCHANGED <<js, reserved, attempt>>

\* forwardOnce throws ForwardHttpError.
ForwardRefused(e) ==
    LET a == conn[Current(e)]
    IN  /\ js # "exited" /\ pc[e] = "sending"
        /\ a.written /\ a.answer.status # 200
        /\ IF Retryable(a.answer.status) /\ attempt[e] < cfg.retries THEN BacksOff(e) ELSE GivesUp(e)
        /\ Close(Current(e))
        /\ UNCHANGED <<cfg, rx, channel, accepted, printed, replied>>

\* fetch throws: forwardTimeoutMs have passed, perhaps while the answer was
\* under way, or the connection broke.
ForwardBroken(e) ==
    /\ js # "exited" /\ pc[e] = "sending"
    /\ IF attempt[e] < cfg.retries THEN BacksOff(e) ELSE GivesUp(e)
    /\ Close(Current(e))
    /\ UNCHANGED <<cfg, rx, channel, accepted, printed, replied>>

\* Mutant: the attempts are not counted.
RetryUncounted(e) ==
    /\ js # "exited" /\ pc[e] = "sleeping"
    /\ AcquireForwardSlot(e, attempt[e])
    /\ UNCHANGED <<cfg, js, attempt, reserved, rx, channel, accepted, printed, replied>>

\* retryDelayMs have passed.
Retry(e) ==
    /\ js # "exited" /\ pc[e] = "sleeping"
    /\ attempt' = [attempt EXCEPT ![e] = @ + 1]
    /\ AcquireForwardSlot(e, attempt[e] + 1)
    /\ UNCHANGED <<cfg, js, reserved, rx, channel, accepted, printed, replied>>

\* SIGINT or SIGTERM
Signal ==
    /\ js = "running" /\ Shutdown
    /\ UNCHANGED <<cfg, pc, attempt, reserved, inFlight, waiters, receiver>>

Active(e) == pc[e] \in {"waiting", "woken", "sending", "sleeping"}

\* The listener and the health server are closed: process.exit.
ExitSidecar ==
    /\ js = "stopping" /\ js' = "exited"
    /\ pc' = [e \in Event |-> IF Active(e) THEN "lost" ELSE pc[e]]
    /\ attempt' = [e \in Event |-> 0] /\ reserved' = 0 /\ inFlight' = 0 /\ waiters' = <<>>
    /\ UNCHANGED <<cfg, receiver>>
-----------------------------------------------------------------------------
(***************************************************************************)
(* The receiver.  A connection waits in the backlog, is read, has its      *)
(* answer written, and hands its event to the channel.                     *)
(***************************************************************************)
\* Does a client still wait for the answer on c?
ClientWaits(c) == pc[c[1]] = "sending" /\ attempt[c[1]] = c[2]

\* The connection once answer a has been written to it
Answered(c, a) == IF ClientWaits(c) THEN [stage |-> "over", answer |-> a, written |-> TRUE]
                  ELSE Closed

At(c, l) == rx # "exited" /\ conn[c].stage = l
Served == {c \in Conn : conn[c].stage \in {"reading", "answering", "handing"}}

\* accept_sidecar_connections, and run_http_loop of the bot: with no permit
\* left the accept loop itself answers 503.
AcceptSidecarConnection(c) ==
    /\ At(c, "backlog") /\ cfg.server \in {"cli", "bot"}
    /\ conn' = IF Cardinality(Served) < MaxConn THEN [conn EXCEPT ![c].stage = "reading"]
               ELSE [conn EXCEPT ![c] = Answered(c, Busy)]
    /\ UNCHANGED <<cfg, sidecar, rx, channel, accepted, printed, replied>>

\* accept() returns an error.  The bot and the example end, with all that they
\* hold; accept_sidecar_connections returns and closes its listener, while its
\* handlers, each with a sender of its own, go on.
AcceptFails ==
    /\ rx = "running"
    /\ rx' = IF cfg.server = "cli" THEN "closing" ELSE "exited"
    /\ conn' = [c \in Conn |-> IF conn[c].written \/ (cfg.server = "cli" /\ c \in Served) THEN conn[c]
                              ELSE NoConn]
    /\ UNCHANGED <<cfg, sidecar, channel, accepted, printed, replied>>

\* The example serves one connection after the other.
ExampleAccept(c) ==
    /\ At(c, "backlog") /\ cfg.server = "example" /\ Served = {}
    /\ conn' = [conn EXCEPT ![c].stage = "reading"]
    /\ UNCHANGED <<cfg, sidecar, rx, channel, accepted, printed, replied>>

\* The sidecar's request: forwardOnce sends a complete, well-formed one.
Forwarded == [line |-> "ok", method |-> "POST", path |-> cfg.target, auth |-> cfg.auth, body |-> "event",
              head |-> 0, length |-> MaxBody, sent |-> Terminator + MaxBody]

\* What read_request may return: a client that has gone may have closed the
\* connection in the middle, and any client may be too slow.
ReadResults(c) ==
    Results(cfg.server, Forwarded) \cup {"timeout"} \cup (IF ClientWaits(c) THEN {} ELSE {"error"})

Answering(c, a) == conn' = [conn EXCEPT ![c].stage = "answering", ![c].answer = a]

\* handle_sidecar_connection: read_request and handle_sidecar_request
HandleSidecarConnection(c) ==
    /\ At(c, "reading") /\ cfg.server = "cli"
    /\ \E r \in ReadResults(c) :
         Answering(c, CASE r = "request" ->
                             HandleSidecarRequest(Forwarded, cfg.path, cfg.health, cfg.secured)
                        [] r = "error"   -> BadRequest
                        [] r = "timeout" -> RequestTimeout)
    /\ UNCHANGED <<cfg, sidecar, rx, channel, accepted, printed, replied>>

\* The example prints an event before it answers.
ExampleServe(c) ==
    /\ At(c, "reading") /\ cfg.server = "example"
    /\ \E r \in ReadResults(c) :
         LET a == CASE r = "request" -> ExampleHandleRequest(Forwarded, cfg.path, cfg.secured)
                       [] r = "error"   -> BadRequest
                       [] r = "timeout" -> RequestTimeout
            IN  Answering(c, a) /\ printed' = IF a.event THEN printed \cup {c[1]} ELSE printed
    /\ UNCHANGED <<cfg, sidecar, rx, channel, accepted, replied>>

\* The bot deals with an event: once, and later deliveries are duplicates.  A
\* failure leaves it to be dealt with later.
BotDeals(c, r1, r2) ==
    LET first == Decide(cfg.said, cfg.truth, r1, FALSE)
        d == IF c[1] \in printed THEN Ignored("duplicate_message")
             ELSE IF first = SendReply THEN ReplyOutcome(r2) ELSE first
    IN  /\ Answering(c, [Answer(d.status) EXCEPT !.final = (d.reason = "webex")])
        /\ printed' = IF d.kind = "failure" THEN printed ELSE printed \cup {c[1]}
        /\ replied' = IF c[1] \notin printed /\ first = SendReply /\ r2.kind \in {"ok", "broken"}
                      THEN replied \cup {c[1]} ELSE replied

\* handle_connection and handle_request of the bot: an event that goes to the
\* event path is turned away because of the limit on concurrent events, before
\* its token is looked at, or later because of the limit on their number or by
\* the handler timeout; or it is dealt with.
BotServe(c) ==
    /\ At(c, "reading") /\ cfg.server = "bot"
    /\ \E r \in ReadResults(c) :
         LET a == HandleSidecarRequest(Forwarded, cfg.path, cfg.health, cfg.secured)
         IN  CASE r = "error"   -> Answering(c, BadRequest) /\ UNCHANGED <<printed, replied>>
               [] r = "timeout" -> Answering(c, RequestTimeout) /\ UNCHANGED <<printed, replied>>
               [] r = "request" ->
                    \/ /\ Forwarded.path = cfg.path /\ Answering(c, Busy)
                       /\ UNCHANGED <<printed, replied>>
                    \/ ~a.event /\ Answering(c, a) /\ UNCHANGED <<printed, replied>>
                    \/ a.event /\ \E r1, r2 \in ApiResult : BotDeals(c, r1, r2)
    /\ UNCHANGED <<cfg, sidecar, rx, channel, accepted>>

\* write_response fails, which it does only when the client has gone: the
\* event is not handed on, the permit is dropped.
WriteFails(c) ==
    /\ At(c, "answering") /\ ~ClientWaits(c)
    /\ conn' = [conn EXCEPT ![c] = Closed]
    /\ UNCHANGED <<cfg, sidecar, rx, channel, accepted, printed, replied>>

\* Mutant: the event is dropped once it has been acknowledged.
AnswerAndForget(c) ==
    /\ At(c, "answering") /\ cfg.server = "cli"
    /\ conn' = [conn EXCEPT ![c] = Answered(c, conn[c].answer)]
    /\ UNCHANGED <<cfg, sidecar, rx, channel, accepted, printed, replied>>

\* The answer is written, before `sidecar receive` hands the event on.
WriteResponse(c) ==
    /\ At(c, "answering") /\ cfg.server \in {"cli", "bot"}
    /\ conn' = [conn EXCEPT ![c] = IF conn[c].answer.event
                                   THEN [conn[c] EXCEPT !.stage = "handing", !.written = TRUE]
                                   ELSE Answered(c, conn[c].answer)]
    /\ UNCHANGED <<cfg, sidecar, rx, channel, accepted, printed, replied>>

\* accepted_sender.send, which waits while the channel is full
HandOver(c) ==
    /\ At(c, "handing") /\ Len(channel) < Capacity
    /\ channel' = Append(channel, c[1])
    /\ conn' = [conn EXCEPT ![c] = Answered(c, conn[c].answer)]
    /\ UNCHANGED <<cfg, sidecar, rx, accepted, printed, replied>>

Quota == cfg.maxEvents > 0 /\ accepted + 1 >= cfg.maxEvents

\* An event is counted; after max_events the process ends, with what its
\* channel and its handlers still held.
Count(q, f) ==
    /\ accepted' = IF accepted < cfg.maxEvents THEN accepted + 1 ELSE accepted
    /\ rx' = IF Quota THEN "exited" ELSE rx
    /\ channel' = IF Quota THEN <<>> ELSE q
    /\ conn' = IF Quota THEN [c \in Conn |-> IF f[c].written THEN f[c] ELSE NoConn] ELSE f

\* sidecar_receive prints the next event, and stops after max_events.
PrintEvent ==
    /\ rx # "exited" /\ channel # <<>>
    /\ printed' = printed \cup {Head(channel)}
    /\ Count(Tail(channel), conn)
    /\ UNCHANGED <<cfg, sidecar, replied>>

\* The last sender is gone and the channel empty: recv returns None.
RecvNone ==
    /\ rx = "closing" /\ channel = <<>> /\ Served = {}
    /\ rx' = "exited"
    /\ UNCHANGED <<cfg, sidecar, conn, channel, accepted, printed, replied>>

\* The example writes its answer and counts it, an answer with 200 being one
\* to an event.
ExampleAnswer(c) ==
    /\ At(c, "answering") /\ cfg.server = "example"
    /\ LET answered == [conn EXCEPT ![c] = Answered(c, conn[c].answer)]
       IN  IF ExampleCounts(conn[c].answer) THEN Count(channel, answered)
           ELSE conn' = answered /\ UNCHANGED <<rx, channel, accepted>>
    /\ UNCHANGED <<cfg, sidecar, printed, replied>>
-----------------------------------------------------------------------------
Forwarding(e) == Wake(e) \/ ForwardDone(e) \/ ForwardRefused(e) \/ ForwardBroken(e) \/ Retry(e)

Receiving(c) == AcceptSidecarConnection(c) \/ ExampleAccept(c) \/ HandleSidecarConnection(c)
                  \/ ExampleServe(c) \/ BotServe(c) \/ WriteFails(c) \/ WriteResponse(c) \/ HandOver(c)
                  \/ ExampleAnswer(c)

\* Nothing is left to do: the sidecar has exited.
Over == js = "exited" /\ UNCHANGED vars

Next ==
    \/ \E e \in Event : Hear(e) \/ HearTooMuch(e) \/ Forwarding(e)
    \/ Signal \/ ExitSidecar \/ PrintEvent \/ AcceptFails \/ RecvNone \/ Over
    \/ \E c \in Conn : Receiving(c)

Spec == Init /\ [][Next]_vars

\* A request is answered or timed out, a timer fires, a resolved promise is
\* run, a handler and the printing loop go on; shutdown gets to its exit.
FairSpec ==
    /\ Spec
    /\ \A e \in Event : WF_vars(Forwarding(e))
    /\ \A c \in Conn : WF_vars(Receiving(c))
    /\ WF_vars(PrintEvent) /\ WF_vars(ExitSidecar)
-----------------------------------------------------------------------------
(***************************************************************************)
(* Properties.                                                             *)
(***************************************************************************)
Where(l) == {e \in Event : pc[e] = l}

\* The counters of the forward queue never leak and never exceed their
\* limits, through timeouts, retries and failures: the slots are the requests
\* under way, the budget is the unfinished forwards.
SlotsExact ==
    js # "exited" =>
        /\ inFlight = Cardinality(Where("sending")) /\ inFlight <= MaxInFlight
        /\ reserved = Cardinality({e \in Event : Active(e)})
        /\ reserved <= MaxInFlight + MaxQueued

\* No wake-up is lost, although a newcomer may take the slot a waiter was
\* woken for: whoever waits is in the queue, once, and while the queue is not
\* empty every slot is taken or has a waiter on its way to it.
NoLostWakeup ==
    js # "exited" =>
        /\ ToSet(waiters) = Where("waiting") /\ IsInjective(waiters)
        /\ waiters # <<>> => inFlight + Cardinality(Where("woken")) >= MaxInFlight

\* The sidecar and the receiver agree on their configuration.
Matching == cfg.target = cfg.path /\ (cfg.secured => cfg.auth = "token")

\* A forward between matching configurations is only ever turned away with a
\* status that the sidecar retries: busy and slow receivers, full queues,
\* requests given up before, and failures that the bot means to have retried
\* (401 from Webex included) do not shut the sidecar down at once.  Only what
\* Webex refuses for good does.
NoFalseRejection ==
    Matching => \A e \in Event :
        LET a == conn[Current(e)]
        IN  pc[e] = "sending" /\ a.written =>
                \/ a.answer.status = 200 \/ Retryable(a.answer.status)
                \/ a.answer.final

\* The bot never replies to the messages it knows to be its own, nor outside
\* of the rooms it is allowed, whichever fields of the message the event
\* leaves out, whatever fails, and however often the event is sent.
NoForeignReply ==
    replied # {} => cfg.truth.room = "allowed" /\ cfg.truth.person # "self"

\* Every event that the sidecar counts as forwarded is printed in the end,
\* unless the receiver stops after a number of events: the answer 200, which
\* is given before the event is handed to the printing loop, is kept, even if
\* the accept loop has failed in the meantime.
AckedIsPrinted ==
    <>[](cfg.maxEvents = 0 => Where("done") \subseteq printed)

\* Every event that was heard is forwarded in the end, or the sidecar exits:
\* no forward waits for ever, for a slot, an answer or a retry.
ForwardEnds == <>[](\A e \in Event : ~Active(e))

\* The lengths of header block for which the receiver's answer depends on how
\* TCP splits the request.
SplitWindow(s) ==
    MaxHeader + 2 - Terminator .. (IF s = "bot" THEN MaxHeader ELSE MaxHeader + Buffer - Terminator)

SampleRequests ==
    {[line |-> l, head |-> h, length |-> n,
      sent |-> h + Terminator + (IF n \in Nat THEN n ELSE 0)] :
        l \in {"ok", "bad"}, h \in 0 .. MaxHeader + 2 * Buffer, n \in {NoLength, BadLength} \cup 0 .. MaxBody + 1}

SplittingOf == [s \in Server |->
    \A req \in SampleRequests :
        /\ req.head \notin SplitWindow(s) => Cardinality(Results(s, req)) = 1
        /\ "request" \in Results(s, req) =>
             /\ req.length \in {NoLength} \cup 0 .. MaxBody
             /\ req.head <= (IF s = "bot" THEN MaxHeader ELSE MaxHeader + Buffer - Terminator)]

\* How a request is split by TCP decides whether it is accepted only for
\* header blocks about as long as the limit, a window that the bot's second
\* check makes shorter than the read buffer; and no server accepts a body
\* beyond its limit or a header block beyond the limit and one buffer.
SplittingIrrelevant == SplittingOf[cfg.server]
=============================================================================
