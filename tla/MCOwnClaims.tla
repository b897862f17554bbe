---------------------------- MODULE MCOwnClaims ----------------------------
EXTENDS OwnClaims

UnderWay(m) ==
  Cardinality(bodies[m]) + Cardinality(dropping[m])
    + Cardinality({hand \in {<<command[m], 1>>, <<renewing[m], 2>>, <<adopting[m], 3>>} : hand[1] # Idle})

\* Bounds on what is under way at one time (a claim not answered, a release not
\* heard, rows in hand, a presence not arrived): one thing of each of two members,
\* or three of one; and two once a claim has come back with an earlier age.
MaxUnderWay == 3

FewUnderWay ==
  \A m \in Members :
    /\ UnderWay(m) <= IF revived THEN 2 ELSE MaxUnderWay
    /\ UnderWay(m) > 1 => \A n \in Members \ {m} : UnderWay(n) = 0
=============================================================================
