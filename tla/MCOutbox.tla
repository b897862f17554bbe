------------------------------- MODULE MCOutbox -------------------------------
(* Instances of Outbox for TLC: items and commands are interchangeable. *)
EXTENDS Outbox

Symmetry == Permutations(Items) \cup Permutations(Procs) \cup Permutations(Sessions)

Posted == {i \in Items : told[i] # "no"}

\* Bounds: a hook holds the state it read only while the first item is under
\* way.  Once two writers have run at once one answer is lost at most, and nothing
\* expires or is refused loudly, and the commands are of one session.  Nothing is
\* promised once commands of two bindings have run at once, and nothing explored.
Sharing ==
  /\ ~crossed
  /\ \A h \in Hooks : hook[h] # Free => Cardinality(Posted) <= 1
  /\ shared => stale = {} /\ refused = {} /\ Cardinality(unheard) <= 1
  /\ \A p, q \in Procs : proc[p] # Idle /\ proc[q] # Idle => proc[p].session = proc[q].session
===============================================================================
