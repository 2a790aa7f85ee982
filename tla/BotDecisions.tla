---------------------------- MODULE BotDecisions ----------------------------
(***************************************************************************)
(* What the account bot of src/examples/account_bot.rs decides to do with  *)
(* a message, and which answer a failure becomes.                          *)
(*                                                                         *)
(* A message is [room, person]: the room is "allowed", "denied" by         *)
(* WEBEX_ACCOUNT_BOT_ROOM_IDS, or "none" if the field is missing; the      *)
(* author is "self" if it is the self_person_id of the bot, else "other",  *)
(* or "none".  (A bot that does not know its own id takes every author for *)
(* another one.)  A result of a request to Webex is [kind, status]: "ok",  *)
(* an "api" error with its status, "broken" (the request may have arrived) *)
(* or "unsent".                                                            *)
(***************************************************************************)
EXTENDS Naturals

\* A decision is an action that ends the event, a failure, or to reply.
Ignored(reason) == [kind |-> "ignored", reason |-> reason, status |-> 200]
Replied == [kind |-> "replied", reason |-> "", status |-> 200]
MockReplied == [kind |-> "mock_replied", reason |-> "", status |-> 200]
SendReply == [kind |-> "reply", reason |-> "", status |-> 0]
Failure(reason, status) == [kind |-> "failure", reason |-> reason, status |-> status]

\* Mutant: an unsupported event counts.
CountsAll(action) == action.kind \in {"replied", "mock_replied", "ignored"}

\* counts_toward_max_events
CountsTowardMaxEvents(action) ==
    \/ action.kind \in {"replied", "mock_replied"}
    \/ /\ action.kind = "ignored"
       /\ action.reason \in {"duplicate_message", "message_not_found", "missing_room_id",
                             "room_not_allowed", "self_message", "reply_unknown"}
-----------------------------------------------------------------------------
\* retryable_api_failure_lease: the statuses after which the attempt is
\* deferred, to be made again.
RetryableApiFailure(status) == status \in {401, 408, 429} \/ status >= 500

\* Mutant: a refused token is passed on to the sidecar.
PassOn(status) == IF status \in 400 .. 599 THEN status ELSE 503

\* error_response to a RetryableApi error
RetryableResponse(status) ==
    IF status \notin 400 .. 599 \/ status = 401 THEN 503 ELSE status

\* error_response to another API error
WebexResponse(status) == IF status \in 400 .. 599 THEN status ELSE 503

\* BotError::retryable_api, answered by error_response
ApiFailure(status) ==
    IF RetryableApiFailure(status) THEN Failure("retry", RetryableResponse(status))
    ELSE Failure("webex", WebexResponse(status))

\* Every other error, BotError::RetryAfter among them
OtherFailure == Failure("retry", 503)
-----------------------------------------------------------------------------
NeedsHydration(x) == x.room = "none" \/ x.person = "none"

\* BotMessage::merge: what the event said is kept.
Merge(x, y) == [room   |-> IF x.room = "none" THEN y.room ELSE x.room,
                person |-> IF x.person = "none" THEN y.person ELSE x.person]

\* Mutant: a message is judged by what the event said of it.
JudgeEvent(x, y) == x

\* What is known of message x once Webex has been asked, if need be.
Hydrated(x, y) == IF NeedsHydration(x) THEN Merge(x, y) ELSE x

\* The rest of handle_event_with_permit, once the message is known
Judge(x, mock) ==
    IF x.room = "none" THEN Ignored("missing_room_id")
    ELSE IF x.room = "denied" THEN Ignored("room_not_allowed")
    ELSE IF x.person = "self" THEN Ignored("self_message")
    ELSE IF mock THEN MockReplied
    ELSE SendReply

\* get_message failed with result r.
HydrationFailure(r) ==
    IF r.status = 404 THEN Ignored("message_not_found")
    ELSE IF r.kind = "api" THEN ApiFailure(r.status)
    ELSE OtherFailure

\* handle_event_with_permit from the first look at the room to the reply.  y
\* is the message as Webex has it, r the result of asking.
Decide(x, y, r, mock) ==
    IF x.room = "denied" THEN Ignored("room_not_allowed")
    ELSE IF mock THEN Judge(x, TRUE)
    ELSE IF NeedsHydration(x) /\ r.kind # "ok" THEN HydrationFailure(r)
    ELSE Judge(Hydrated(x, y), FALSE)

\* create_message_error_could_have_been_accepted
CouldHaveBeenAccepted(r) == r.kind = "broken"

\* send_reply_worker, for the result r of create_message
ReplyOutcome(r) ==
    IF r.kind = "ok" THEN Replied
    ELSE IF r.status = 404 THEN Ignored("message_not_found")
    ELSE IF r.kind = "api" THEN ApiFailure(r.status)
    ELSE IF CouldHaveBeenAccepted(r) THEN Ignored("reply_unknown")
    ELSE OtherFailure
=============================================================================
