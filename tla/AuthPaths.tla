----------------------------- MODULE AuthPaths -----------------------------
(***************************************************************************)
(* The paths of the authentication commands of                             *)
(* src/src/bin/webex-headless.rs: where the client secret comes from, and  *)
(* the check that the token file, the access-token file and the client-    *)
(* secret file do not get in each other's way.                             *)
(*                                                                         *)
(* A path is [abs, comps]: absolute or relative to Cwd, and its            *)
(* components, ".." among them.  A location is an absolute sequence of     *)
(* names.  The file system has directories, regular files and symbolic     *)
(* links to locations, and takes names that Fold to the same for equal,    *)
(* which is the harder case for the check.                                 *)
(***************************************************************************)
EXTENDS Naturals, FiniteSets, Sequences, SequencesExt

CONSTANTS
    Cwd,      \* the location of the working directory
    Dirs,     \* the locations of directories
    Links,    \* Links[l]: what the symbolic link at location l points to
    Fold,     \* Fold[n]: name n in lower case
    Path,     \* paths
    NonAscii, \* names with a character that is not ASCII
    NoPath    \* no path is given

Name == DOMAIN Fold
Location == Seq(Name)

Folded(l) == [i \in 1 .. Len(l) |-> Fold[l[i]]]
FoldedDirs == {Folded(d) : d \in Dirs}

ASSUME NameAssumption ==
    /\ ".." \notin Name
    /\ Fold \in [Name -> Name] /\ \A n \in Name : Fold[Fold[n]] = Fold[n]

\* Directories and links are in directories, and links do not lead to links.
ASSUME TreeAssumption ==
    /\ {<<>>, Cwd} \subseteq Dirs /\ Dirs \subseteq Location
    /\ DOMAIN Links \subseteq Location \ Dirs
    /\ \A l \in (Dirs \cup DOMAIN Links) \ {<<>>} : Folded(Front(l)) \in FoldedDirs
    /\ \A l \in DOMAIN Links : Links[l] \in Location /\ Folded(Links[l]) \notin DOMAIN Links
-----------------------------------------------------------------------------
(***************************************************************************)
(* What the operating system does with a path.                             *)
(***************************************************************************)
Base(p) == IF p.abs THEN <<>> ELSE Cwd

Follow(l) == IF Folded(l) \in DOMAIN Links THEN Links[Folded(l)] ELSE l

\* One component further; a missing directory is one that gets created.
Enter(l, n) == IF n = ".." THEN (IF l = <<>> THEN l ELSE Front(l)) ELSE Follow(Append(l, n))

\* The locations after each of the components of a path
Walk == [p \in Path |->
    LET at[i \in 0 .. Len(p.comps)] == IF i = 0 THEN Base(p) ELSE Enter(at[i - 1], p.comps[i])
    IN  at]

\* A path ends in a name, and goes through no link that does not lead to a
\* directory: nothing can be opened or created there.
ASSUME PathAssumption ==
    /\ NoPath \notin Path
    /\ \A p \in Path :
         /\ p.comps \in Seq(Name \cup {".."}) \ {<<>>} /\ Last(p.comps) \in Name
         /\ \A i \in 1 .. Len(p.comps) - 1 :
              LET l == Folded(Append(Walk[p][i - 1], p.comps[i]))
              IN  p.comps[i] \in Name /\ l \in DOMAIN Links => Links[l] \in Dirs

\* The entry that a rename to p replaces: a link at its end is not followed.
Entry == [p \in Path |-> Folded(Append(Walk[p][Len(p.comps) - 1], Last(p.comps)))]

\* The file that reading p reads
Target == [p \in Path |-> Folded(Walk[p][Len(p.comps)])]
-----------------------------------------------------------------------------
(***************************************************************************)
(* The check.                                                              *)
(***************************************************************************)
\* push_lexical_component
PushLexical(l, n) == IF n = ".." THEN (IF l = <<>> THEN l ELSE Front(l)) ELSE Append(l, n)

\* lexical_absolute_path
LexicalAbsolute == [p \in Path |-> FoldLeft(PushLexical, Base(p), p.comps)]

Exists(l, files) == Folded(l) \in {Folded(x) : x \in Dirs \cup files}
\* std::fs::canonicalize succeeds, with the location that l leads to.
Canonicalizes(l, files) == Exists(Follow(l), files)

\* canonical_existing_ancestor_path after one more component n: s.r is what
\* has been resolved, s.u what cannot be.
Resolve(n, files) ==
    [s \in [r : Location, u : Location] |->
        IF s.u # <<>> THEN [s EXCEPT !.u = PushLexical(s.u, n)]
        ELSE IF n = ".." THEN [s EXCEPT !.r = PushLexical(s.r, n)]
        ELSE IF Canonicalizes(Append(s.r, n), files)
             THEN [s EXCEPT !.r = Follow(Append(s.r, n))]
             ELSE [s EXCEPT !.u = <<n>>]]

\* Its loop over the components of p
ResolveWalk(p, files) ==
    LET at[i \in 0 .. Len(p.comps)] ==
            IF i = 0 THEN [r |-> Base(p), u |-> <<>>] ELSE Resolve(p.comps[i], files)[at[i - 1]]
    IN  at

\* canonical_existing_ancestor_path: what is left in s.u are names, and the
\* last loop pushes them.
CanonicalAncestor(p, files) ==
    LET s == ResolveWalk(p, files)[Len(p.comps)] IN s.r \o s.u

\* paths_overlap_for_token_output
Overlap(l, m) == IsPrefix(Folded(l), Folded(m)) \/ IsPrefix(Folded(m), Folded(l))

\* canonical_parent_paths_overlap
CanonicalOverlap(p, q, files) == Overlap(CanonicalAncestor(p, files), CanonicalAncestor(q, files))

\* Mutant: links are not looked at.
DistinctLexically(p, q, files) == ~Overlap(LexicalAbsolute[p], LexicalAbsolute[q])

\* ensure_distinct_auth_paths
Distinct(p, q, files) ==
    /\ ToSet(LexicalAbsolute[p]) \cap NonAscii = {}
    /\ ToSet(LexicalAbsolute[q]) \cap NonAscii = {}
    /\ ~Overlap(LexicalAbsolute[p], LexicalAbsolute[q])
    /\ ~CanonicalOverlap(p, q, files)

\* ensure_distinct_token_paths
DistinctTokenPaths(token, access, files) == access # NoPath => Distinct(token, access, files)

\* ensure_distinct_auth_file_paths
DistinctAuthFiles(token, access, secret, files) ==
    /\ token # NoPath => DistinctTokenPaths(token, access, files)
    /\ secret # NoPath => /\ token # NoPath => Distinct(token, secret, files)
                          /\ access # NoPath => Distinct(access, secret, files)
-----------------------------------------------------------------------------
(***************************************************************************)
(* The client secret: given as a value or a file, on the command line or   *)
(* in the environment.                                                     *)
(***************************************************************************)
\* env_or_value, env_or_path: the command line goes before the environment.
OrElse(x, y) == IF x # NoPath THEN x ELSE y

\* resolve_client_secret
ResolveClientSecret(o) ==
    IF o.value THEN [from |-> "value", path |-> NoPath]
    ELSE IF o.file # NoPath THEN [from |-> "file", path |-> o.file]
    ELSE IF o.envValue THEN [from |-> "value", path |-> NoPath]
    ELSE IF o.envFile # NoPath THEN [from |-> "file", path |-> o.envFile]
    ELSE [from |-> "none", path |-> NoPath]

\* effective_client_secret_file_path: the file that is checked
EffectiveSecretPath(o) ==
    IF o.value THEN NoPath
    ELSE IF o.file # NoPath THEN o.file
    ELSE IF o.envValue THEN NoPath
    ELSE o.envFile

\* auth_source_from_parts: which of the four places a command takes its
\* token from
AuthSource(explicitToken, explicitFile, envFile, envToken) ==
    IF explicitToken /\ explicitFile # NoPath THEN "error"
    ELSE IF explicitToken THEN "token"
    ELSE IF OrElse(explicitFile, envFile) # NoPath THEN "file"
    ELSE IF envToken THEN "token"
    ELSE "error"
=============================================================================
