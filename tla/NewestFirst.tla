---------------------------- MODULE NewestFirst ----------------------------
(***************************************************************************)
(* Sequences of message numbers as Webex lists them and as the pollers     *)
(* keep them.  Sorting and selecting are described by their result, where  *)
(* the usual definitions are recursive, so that the proofs can use them.   *)
(***************************************************************************)
EXTENDS Naturals, Sequences, FiniteSets

Elems(q) == {q[i] : i \in DOMAIN q}

Backwards(q) == [i \in DOMAIN q |-> q[Len(q) + 1 - i]]

\* The numbers of S, smallest first and largest first
Ascending(S) ==
    CHOOSE q \in [1 .. Cardinality(S) -> S] : \A i, j \in DOMAIN q : i < j => q[i] < q[j]

Descending(S) ==
    CHOOSE q \in [1 .. Cardinality(S) -> S] : \A i, j \in DOMAIN q : i < j => q[i] > q[j]

\* The elements of q that are in S, in their order
Only(q, S) ==
    LET kept == Ascending({i \in DOMAIN q : q[i] \in S})
    IN  [j \in DOMAIN kept |-> q[kept[j]]]
=============================================================================
