--------------------------- MODULE MCTokenReload ---------------------------
(***************************************************************************)
(* TokenReload for TLC: a client with two tasks; a client and `auth        *)
(* refresh` with a sidecar; two commands with a sidecar; and logins with   *)
(* paths that meet through links, "..", missing directories and upper      *)
(* case.                                                                   *)
(***************************************************************************)
EXTENDS TokenReload

CONSTANTS p1, p2

MCCwd == <<"d">>
MCDirs == {<<>>, <<"d">>, <<"e">>}
MCLinks == (<<"d", "l">> :> <<"e">>) @@ (<<"e", "k">> :> <<"d", "s">>)
Names == {"d", "e", "s", "S", "t", "a", "l", "k", "x", "u"}
MCFold == [n \in Names |-> IF n = "S" THEN "s" ELSE n]

Rel(c) == [abs |-> FALSE, comps |-> c]
Abs(c) == [abs |-> TRUE, comps |-> c]

\* t and a in the working directory d, t in e by two ways, and five names of
\* the secret s
MCPath == {Rel(<<"t">>), Rel(<<"a">>), Rel(<<"l", "t">>), Abs(<<"e", "t">>), Rel(<<"x", "t">>),
          Rel(<<"s">>), Rel(<<"S">>), Rel(<<"x", "..", "s">>), Rel(<<"l", "..", "d", "s">>),
          Rel(<<"l", "k">>), Rel(<<"u">>)}

SecretPaths == {Rel(<<"s">>), Rel(<<"x", "..", "s">>), Rel(<<"l", "k">>), Rel(<<"l", "t">>), Rel(<<"u">>)}

ByFile(p) == [value |-> FALSE, file |-> p, envValue |-> FALSE, envFile |-> NoPath]
ByEnv(p) == [ByFile(NoPath) EXCEPT !.envFile = p]

Setup(k1, k2) ==
    [kind |-> (p1 :> k1) @@ (p2 :> k2), token |-> Rel(<<"t">>), access |-> Rel(<<"a">>),
     secret |-> ByFile(Rel(<<"s">>)), clientId |-> TRUE, stdout |-> FALSE, stored |-> TRUE,
     rotation |-> {TRUE}, sidecar |-> FALSE, interval |-> 1, expiresIn |-> 2]

PathSetups ==
    {[Setup("device", "none") EXCEPT !.token = t, !.access = a, !.secret = s, !.stored = FALSE,
                                     !.interval = 0, !.expiresIn = 1] :
        t \in MCPath,
        a \in {Rel(<<"a">>), Abs(<<"e", "t">>), Rel(<<"S">>), Rel(<<"l", "k">>), NoPath},
        s \in {ByFile(p) : p \in SecretPaths} \cup {ByEnv(Rel(<<"s">>))}}

MCConfigs ==
    PathSetups \cup
    {[Setup("task", "task") EXCEPT !.rotation = BOOLEAN, !.access = NoPath],
     [Setup("task", "refresh") EXCEPT !.sidecar = TRUE],
     [Setup("refresh", "refresh") EXCEPT !.sidecar = TRUE, !.rotation = {FALSE}],
     [Setup("device", "task") EXCEPT !.sidecar = TRUE, !.access = NoPath],
     [Setup("device", "none") EXCEPT !.token = NoPath, !.stdout = TRUE, !.stored = FALSE],
     [Setup("refresh", "none") EXCEPT !.stored = FALSE]}
=============================================================================
