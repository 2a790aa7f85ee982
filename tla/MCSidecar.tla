----------------------------- MODULE MCSidecar -----------------------------
(***************************************************************************)
(* Sidecar for TLC: each kind of receiver, with and without a last event,  *)
(* a sidecar without the receiver's token, one that sends its events to    *)
(* the health path, and a receiver whose two paths are the same, which     *)
(* must not start.                                                         *)
(***************************************************************************)
EXTENDS Sidecar

\* Two events with retries
Setup(s, n) == [server |-> s, path |-> "/e", health |-> "/h", bind |-> {"loopback"}, secured |-> TRUE,
                open |-> FALSE, exposed |-> FALSE,
                maxEvents |-> n, target |-> "/e", auth |-> "token",
                retries |-> 1, events |-> {e \in Event : e # CHOOSE f \in Event : TRUE},
                said |-> [room |-> "allowed", person |-> "other"],
                truth |-> [room |-> "allowed", person |-> "other"]]

\* The bot with one event, about any message, of which the event says any part
BotSetups ==
    {[Setup("bot", 0) EXCEPT !.events = {CHOOSE e \in Event : TRUE}, !.said = x, !.truth = y] :
        x \in Message,
        y \in {m \in Message : m.room # "none" /\ m.person # "none"}}

MCApiResult == [kind : {"ok", "broken", "unsent"}, status : {0}]
          \cup [kind : {"api"}, status : {400, 401, 404, 429, 500, 600}]

MCConfigs == {[Setup("cli", 0) EXCEPT !.retries = 0, !.events = Event],
              Setup("cli", 0), Setup("cli", 1), Setup("example", 1),
              [Setup("cli", 0) EXCEPT !.auth = "none", !.open = TRUE],
              [Setup("cli", 0) EXCEPT !.target = "/h"],
              [Setup("cli", 0) EXCEPT !.health = "/e"]}
          \cup {g \in BotSetups : /\ g.said.room \in {g.truth.room, "none"}
                                 /\ g.said.person \in {g.truth.person, "none"}}
=============================================================================
