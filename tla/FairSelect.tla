----------------------------- MODULE FairSelect -----------------------------
(***************************************************************************)
(* What the fair selection of a sync answers, stated without its loop      *)
(* (relay/src/lib/fairness.js; lib/transport.js has it again for ntfy).    *)
(* Candidates are records with a seq, a sender and a type, one per seq.    *)
(***************************************************************************)
EXTENDS Naturals, FiniteSets

CONSTANTS
  Senders, Types,
  PriorityTypes   \* warn.* and note.blocker

IsPriorityType(type) == type \in PriorityTypes

SentBy(items, sender) == {x \in items : x.sender = sender}

\* The round of the round robin that x belongs to: its index in its group.
Round(items, x) == Cardinality({y \in SentBy(items, x.sender) : y.seq < x.seq})

\* A sender's turn in a round is that of its oldest pending item.
Oldest(items, sender) ==
  CHOOSE n \in {x.seq : x \in SentBy(items, sender)} : \A x \in SentBy(items, sender) : n <= x.seq

Precedes(items, x, y) ==
  \/ Round(items, x) < Round(items, y)
  \/ /\ Round(items, x) = Round(items, y)
     /\ Oldest(items, x.sender) < Oldest(items, y.sender)

\* roundRobin: the first `budget` items of the round robin.
RoundRobin(items, budget) ==
  {x \in items : Cardinality({y \in items : Precedes(items, y, x)}) < budget}

Lesser(a, b) == IF a <= b THEN a ELSE b

PriorityOf(candidates) == {c \in candidates : IsPriorityType(c.type)}

ReservedPass(candidates, cap, reserved) ==
  RoundRobin(PriorityOf(candidates), Lesser(reserved, cap))

\* selectFair: the reserved slots for warnings and blockers first, then a fair
\* pass over what they left.
SelectFair(candidates, cap, reserved) ==
  LET floor == ReservedPass(candidates, cap, reserved)
  IN floor \cup RoundRobin(candidates \ floor, cap - Cardinality(floor))
=============================================================================
