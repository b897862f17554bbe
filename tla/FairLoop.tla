------------------------------ MODULE FairLoop ------------------------------
(***************************************************************************)
(* selectFair as it runs: two round robins, one group visited at a time    *)
(* (relay/src/lib/fairness.js).  The reserved pass runs over the priority  *)
(* candidates, the fair pass over every candidate not yet taken.           *)
(***************************************************************************)
EXTENDS FairSelect, Sequences, SequencesExt

CONSTANTS
  MaxCandidates,   \* bound: candidates of an input; a pass has no more rounds than that
  MaxCap,          \* bound: caps tried
  MaxReserved      \* bound: reserved floors tried

ASSUME FairLoopAssumption ==
  MaxCandidates \in Nat /\ MaxCap \in Nat /\ MaxReserved \in Nat

VARIABLES
  candidates, cap, reserved,   \* the arguments of selectFair
  pass,        \* "reserved", "fair" or "done"
  out,         \* what the pass under way has pushed
  round, index, \* the round and the place in `order` of the group visited next
  progressed,  \* whether this round pushed anything
  chosen       \* what the finished passes chose

args == <<candidates, cap, reserved>>
loopVars == <<candidates, cap, reserved, pass, out, round, index, progressed, chosen>>

\* One candidate per seq; only the order of the seqs matters.
Inputs ==
  UNION {{{[seq |-> i, sender |-> f[i][1], type |-> f[i][2]] : i \in 1..n} :
            f \in [1..n -> Senders \X Types]} : n \in 0..MaxCandidates}

-----------------------------------------------------------------------------
\* What the pass under way reads: its items, without those taken before it.
Pool == (IF pass = "reserved" THEN PriorityOf(candidates) ELSE candidates) \ chosen

\* The items of S, which rank numbers apart, in the order of their ranks.
Sorted(S, rank) ==
  [k \in 1..Cardinality(S) |->
     CHOOSE x \in S : Cardinality({y \in S : rank[y] < rank[x]}) = k - 1]

Group(sender) ==
  LET sent == SentBy(Pool, sender) IN Sorted(sent, [x \in sent |-> x.seq])

\* The keys of `groups`.
GroupKeys == {x.sender : x \in Pool}

\* Deviation: senders in the order of their newest item.
Order_ByNewest ==
  Sorted(GroupKeys, [s \in GroupKeys |-> MaxCandidates - Last(Group(s)).seq])

Order == Sorted(GroupKeys, [s \in GroupKeys |-> Group(s)[1].seq])

Budget == IF pass = "reserved" THEN Lesser(reserved, cap) ELSE cap - Cardinality(chosen)

\* Deviation: a group emptied at its turn.
Visited_WholeGroup(group) ==
  IF round = 0
  THEN /\ out' = SubSeq(out \o group, 1, Lesser(Budget, Len(out) + Len(group)))
       /\ progressed' = TRUE
  ELSE UNCHANGED <<out, progressed>>

\* A group gives the item of this round, if it has one.
Visited(group) ==
  IF Len(group) > round
  THEN out' = Append(out, group[round + 1]) /\ progressed' = TRUE
  ELSE UNCHANGED <<out, progressed>>

Visit ==
  /\ pass # "done"
  /\ Len(out) < Budget /\ index <= Len(Order)
  /\ Visited(Group(Order[index]))
  /\ index' = index + 1
  /\ UNCHANGED <<pass, round, chosen>> /\ UNCHANGED args

NextRound ==
  /\ pass # "done"
  /\ Len(out) < Budget /\ index > Len(Order) /\ progressed
  /\ round < MaxCandidates
  /\ round' = round + 1 /\ index' = 1 /\ progressed' = FALSE
  /\ UNCHANGED <<pass, out, chosen>> /\ UNCHANGED args

\* The budget is spent, or a whole round pushed nothing.
EndPass ==
  /\ pass # "done"
  /\ Len(out) >= Budget \/ (index > Len(Order) /\ ~progressed)
  /\ chosen' = chosen \cup ToSet(out)
  /\ pass' = IF pass = "reserved" THEN "fair" ELSE "done"
  /\ out' = <<>> /\ round' = 0 /\ index' = 1 /\ progressed' = FALSE
  /\ UNCHANGED args

LoopStart ==
  /\ pass = "reserved"
  /\ out = <<>> /\ round = 0 /\ index = 1 /\ progressed = FALSE
  /\ chosen = {}

LoopInit ==
  /\ candidates \in Inputs
  /\ cap \in 0..MaxCap
  /\ reserved \in 0..MaxReserved
  /\ LoopStart

LoopNext == Visit \/ NextRound \/ EndPass

LoopSpec == LoopInit /\ [][LoopNext]_loopVars /\ WF_loopVars(LoopNext)

-----------------------------------------------------------------------------
Done == pass = "done"

(* The two passes choose what SelectFair says, whatever the candidates.    *)
ChoosesFairly == Done => chosen = SelectFair(candidates, cap, reserved)

(* A chatty peer does not bury another's messages: if a sender has routine *)
(* messages left over, no sender had more than one routine message more    *)
(* chosen than it had messages chosen in all.                              *)
NobodyBuried ==
  Done => \A s, t \in Senders :
    SentBy(candidates, s) \subseteq chosen
      \/ Cardinality(SentBy(chosen \ PriorityOf(candidates), t))
           <= Cardinality(SentBy(chosen, s)) + 1
=============================================================================
