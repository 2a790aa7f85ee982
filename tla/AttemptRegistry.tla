-------------------------- MODULE AttemptRegistry --------------------------
(***************************************************************************)
(* What the state store promises its callers: a registry of messages, each *)
(* leased to at most one attempt at a time until it is processed for good. *)
(* There is no file, no lock, no handle and no failure here; JsonlState is *)
(* shown to implement this specification.                                  *)
(***************************************************************************)
EXTENDS Naturals

CONSTANT Msg

VARIABLES
    processed,  \* messages processed for good
    leases,     \* the outstanding leases, expired ones included
    used,       \* attempt ids that have ever held a lease
    now         \* the wall clock

regVars == <<processed, leases, used, now>>

Lease == [kind : {"leased"}, msg : Msg, attempt : Nat, exp : Nat]

RegInit == processed = {} /\ leases = {} /\ used = {} /\ now = 0

\* A new attempt takes over a message that nobody holds: it has not been
\* processed, and the previous lease was given up or has expired.
Start == \E r \in leases' :
    /\ r \in Lease
    /\ r.msg \notin processed
    /\ \A x \in leases : x.msg = r.msg => x.exp <= now
    /\ r.attempt \notin used
    /\ leases' = {x \in leases : x.msg # r.msg} \cup {r}
    /\ used' = used \cup {r.attempt}
    /\ UNCHANGED <<processed, now>>

\* The owner moves the end of its lease.
Extend == \E x \in leases, y \in leases' :
    /\ y \in Lease /\ y.msg = x.msg /\ y.attempt = x.attempt
    /\ leases' = (leases \ {x}) \cup {y}
    /\ UNCHANGED <<processed, used, now>>

\* The owner gives its lease up.
Release == \E x \in leases :
    /\ leases' = leases \ {x}
    /\ UNCHANGED <<processed, used, now>>

\* The owner records that its message is processed.
Process == \E x \in leases :
    /\ processed' = processed \cup {x.msg}
    /\ leases' = leases \ {x}
    /\ UNCHANGED <<used, now>>

Advance == now' > now /\ now' \in Nat /\ UNCHANGED <<processed, leases, used>>

RegNext == Start \/ Extend \/ Release \/ Process \/ Advance

RegSpec == RegInit /\ [][RegNext]_regVars
=============================================================================
