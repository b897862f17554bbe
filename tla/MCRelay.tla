------------------------------- MODULE MCRelay -------------------------------
(* Instances of Relay for TLC: members, names and subjects are interchangeable. *)
EXTENDS Relay, TLC

Symmetry == Permutations(MemberIds) \cup Permutations(Names) \cup Permutations(Subjects)

\* Bound of the run: tokens and secrets are reissued and handlers overlap, or
\* leases are held, or messages posted; not two of these at a time.
OneConcern ==
  \/ nextSeq = 1 /\ Held(claims) = {}
  \/ minted = 0 /\ Cardinality(inflight) <= 1 /\ (nextSeq = 1 \/ Held(claims) = {})
=============================================================================
