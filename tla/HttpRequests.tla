---------------------------- MODULE HttpRequests ----------------------------
(***************************************************************************)
(* The three small HTTP servers of the repository, as operators: how each  *)
(* reads a request from its socket and which answer it gives.  They are    *)
(* the account bot (src/examples/account_bot.rs), `sidecar receive` of the *)
(* command line (src/src/bin/webex-headless.rs) and the example receiver   *)
(* (src/examples/sidecar_receiver.rs).                                     *)
(*                                                                         *)
(* A request is what the client sends: the length of its header block, the *)
(* Content-Length it states (NoLength if none, BadLength if not a number), *)
(* the number of bytes sent in all, whether its first line names a method  *)
(* and a path, and what the header block and the body say.                 *)
(***************************************************************************)
EXTENDS Naturals, FiniteSets

CONSTANTS
    MaxHeader,  \* MAX_HEADER_BYTES
    MaxBody,    \* MAX_BODY_BYTES
    Buffer,     \* the size of the read buffer
    Terminator, \* the length of the empty line that ends the header block
    NoLength,   \* no Content-Length header
    BadLength   \* a Content-Length header that is not a number

ASSUME SizeAssumption ==
    /\ MaxHeader \in Nat /\ MaxBody \in Nat
    /\ Buffer \in Nat \ {0} /\ Terminator \in Nat \ {0}
ASSUME LengthAssumption == NoLength \notin Nat /\ BadLength \notin Nat

Server == {"bot", "cli", "example"}

\* The header block is complete in the first got bytes: find_bytes.
HeaderComplete(req, got) == got >= req.head + Terminator

\* parse_content_length of the bot: no header means 0, a bad one is an error.
BotContentLength(req) == IF req.length = NoLength THEN 0 ELSE req.length

CliContentLength(req) == IF req.length = NoLength THEN 0 ELSE req.length

\* The example receiver does not tell a bad Content-Length from none, and
\* does without neither.
ExampleContentLength(req) == IF req.length = NoLength THEN BadLength ELSE req.length

\* parse_request of each server
BotParse(req) == IF req.line = "ok" THEN "request" ELSE "error"
CliParse(req) == IF req.line = "ok" THEN "request" ELSE "error"
ExampleParse(req) == IF req.line = "ok" THEN "request" ELSE "error"

\* What read_request does with a complete header block, if the body has the
\* given length and parsing would yield the given result: "more" goes on
\* reading.
BodyStep(req, got, length, parsed) ==
    IF length = BadLength THEN "error"
    ELSE IF length > MaxBody THEN "error"
    ELSE IF got >= req.head + Terminator + length THEN parsed
    ELSE "more"

\* What it does while the header block is incomplete.
HeaderStep(got) == IF got > MaxHeader THEN "error" ELSE "more"

\* Mutant: the length of a complete header block is not checked.
BotReadUnchecked(req, got) ==
    IF HeaderComplete(req, got) THEN BodyStep(req, got, BotContentLength(req), BotParse(req))
    ELSE HeaderStep(got)

\* read_request of the bot once got bytes have been read
BotRead(req, got) ==
    IF ~HeaderComplete(req, got) THEN HeaderStep(got)
    ELSE IF req.head > MaxHeader THEN "error"
    ELSE BodyStep(req, got, BotContentLength(req), BotParse(req))

\* read_request of `sidecar receive`
CliRead(req, got) ==
    IF HeaderComplete(req, got) THEN BodyStep(req, got, CliContentLength(req), CliParse(req))
    ELSE HeaderStep(got)

\* read_request of the example receiver
ExampleRead(req, got) ==
    IF HeaderComplete(req, got) THEN BodyStep(req, got, ExampleContentLength(req), ExampleParse(req))
    ELSE HeaderStep(got)

ReadStep(s, req, got) ==
    CASE s = "bot" -> BotRead(req, got)
      [] s = "cli" -> CliRead(req, got)
      [] s = "example" -> ExampleRead(req, got)

\* How many bytes may have been read when the loop decides, if TCP may split
\* the request anywhere and a read returns at most Buffer bytes.
Reached(s, req) ==
    LET at[n \in 0 .. req.sent] ==
          n = 0 \/ \E k \in 1 .. Buffer :
                     /\ k <= n /\ at[n - k]
                     /\ n - k > 0 => ReadStep(s, req, n - k) = "more"
    IN  {n \in 1 .. req.sent : at[n]}

\* The results of reading a request that arrives as a whole.  A client that
\* stops early closes its side ("error"), or is timed out.
Results(s, req) ==
    LET ends == {ReadStep(s, req, n) : n \in Reached(s, req)} \ {"more"}
    IN  IF req.sent = 0 \/ ReadStep(s, req, req.sent) = "more"
        THEN ends \cup {"error", "timeout"} ELSE ends
-----------------------------------------------------------------------------
(***************************************************************************)
(* Answers.  An answer is a status, whether the request's event is taken,  *)
(* and whether Webex has refused what the event asks for (final).  auth is *)
(* what the Authorization header holds: the receiver's token or something  *)
(* else.  With no token expected it is not looked at.                      *)
(***************************************************************************)
Answer(status) == [status |-> status, event |-> FALSE, final |-> FALSE]
Taken == [Answer(200) EXCEPT !.event = TRUE]

BadRequest == Answer(400)
RequestTimeout == Answer(408)
Busy == Answer(503)

\* The checks every receiver makes on a request for its event path.
EventAnswer(req, eventPath, secured) ==
    IF req.method # "POST" THEN Answer(405)
    ELSE IF req.path # eventPath THEN Answer(404)
    ELSE IF secured /\ req.auth # "token" THEN Answer(401)
    ELSE IF req.body # "event" THEN BadRequest
    ELSE Taken

\* handle_sidecar_request of the command line
HandleSidecarRequest(req, eventPath, healthPath, secured) ==
    IF req.path = healthPath
    THEN Answer(IF req.method = "GET" THEN 200 ELSE 405)
    ELSE EventAnswer(req, eventPath, secured)

\* handle_request of the example receiver
ExampleHandleRequest(req, eventPath, secured) == EventAnswer(req, eventPath, secured)

\* The example receiver counts what it answers with 200; nothing else does.
ExampleCounts(answer) == answer.status = 200

\* validate_account_bot_paths
BotPathsValid(eventPath, healthPath) == eventPath # healthPath

\* parse_sidecar makes the same check.
CliPathsValid(eventPath, healthPath) == eventPath # healthPath

(***************************************************************************)
(* A server starts only on loopback addresses and with a token, unless it  *)
(* is told otherwise (exposed, open).                                      *)
(***************************************************************************)
\* validate_loopback_bind of each server, for the addresses of g.bind
BotBindAllowed(g) == g.bind # {} /\ (g.exposed \/ g.bind \subseteq {"loopback"})
CliBindAllowed(g) == g.bind # {} /\ (g.exposed \/ g.bind \subseteq {"loopback"})
ExampleBindAllowed(g) == g.bind # {} /\ (g.exposed \/ g.bind \subseteq {"loopback"})

\* Config::from_env and main of the bot
BotStarts(g) == /\ g.secured \/ g.open
                /\ BotPathsValid(g.path, g.health)
                /\ BotBindAllowed(g)

\* sidecar_receive
CliStarts(g) == /\ CliPathsValid(g.path, g.health)
                /\ CliBindAllowed(g)
                /\ g.secured \/ g.open

\* main of the example receiver
ExampleStarts(g) == ExampleBindAllowed(g) /\ (g.secured \/ g.open)
=============================================================================
