------------------------------ MODULE MCDelivery ------------------------------
EXTENDS Delivery

CONSTANTS ann, bob, note, warn

\* Bound of the run `overlap`: the clock moves when two messages are there to
\* go stale; one more may follow them, fresh.
LateTick == clock = 0 \/ Cardinality({x \in stream : x.ts = 0}) >= 2
=============================================================================
