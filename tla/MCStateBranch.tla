----------------------------- MODULE MCStateBranch -----------------------------
(* Instances of StateBranch for TLC: the clone of ann, and at most one peer's. *)
EXTENDS StateBranch
CONSTANTS ann, bob, a1, a2, b1, monitor, closing, opening, other
Homes == [p \in Processes \cup Writers |-> IF p \in {other, b1} THEN bob ELSE ann]
Roles == [p \in Processes |-> IF p = closing THEN "end" ELSE
                              IF p = opening THEN "start" ELSE "clock"]
================================================================================
