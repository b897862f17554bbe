------------------------------- MODULE Lease -------------------------------
(***************************************************************************)
(* What a serialising server promises about leases, with no request, clock *)
(* or table in it (docs/PROTOCOL.md 5.3 and 5.4): a subject has at most    *)
(* one holder, passes from one holder to another only by being free in     *)
(* between, and keeps the age it was taken with for as long as it is held. *)
(* Relay implements it with the lease table and its clock.                 *)
(***************************************************************************)
EXTENDS Naturals

CONSTANTS Subjects, Holders, Nobody

VARIABLES holder, since

leaseVars == <<holder, since>>

Init == holder = [s \in Subjects |-> Nobody] /\ since = [s \in Subjects |-> 0]

Keep(s) == holder'[s] = holder[s] /\ since'[s] = since[s]

Take(s) == holder[s] = Nobody /\ holder'[s] \in Holders /\ since'[s] \in Nat

\* Released, lapsed, or its holder removed.
Leave(s) == holder'[s] = Nobody /\ since'[s] = 0

Next == \A s \in Subjects : Keep(s) \/ Take(s) \/ Leave(s)

Spec == Init /\ [][Next]_leaseVars
=============================================================================
