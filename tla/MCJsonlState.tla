---------------------------- MODULE MCJsonlState ----------------------------
(***************************************************************************)
(* JsonlState for TLC: its symmetry and a bound.                           *)
(***************************************************************************)
EXTENDS JsonlState, TLC

Symmetry == Permutations(Handle)

\* Bound: checkpoints, on which attempts do not depend, are followed only until
\* the clock moves or an attempt begins.
RoomsApart ==
    (\E i \in DOMAIN log : log[i] \in RoomCheckpoint)
        \/ (\E h \in Handle : call[h].kind = "save")
    => now = 0 /\ nextAttempt = 1
=============================================================================
