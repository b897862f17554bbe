------------------------------ MODULE RelaySync ------------------------------
(***************************************************************************)
(* What GET /ws/:id/sync answers about the stream (#sync of                *)
(* relay/src/do/workspace.js).  A sync writes nothing, so this is a module *)
(* of operators: the page a caller at `cursor` gets.                       *)
(***************************************************************************)
EXTENDS FairSelect

CONSTANTS
  FetchCap,        \* SYNC_FETCH_CAP
  ReservedSlots,   \* SYNC_RESERVED_SLOTS
  Window           \* SYNC_CANDIDATE_WINDOW

ASSUME SyncAssumption ==
  /\ FetchCap \in Nat \ {0} /\ ReservedSlots \in Nat /\ Window \in Nat \ {0}
  /\ ReservedSlots < FetchCap

\* `stream` is the rows younger than the retention floor: a sync does not see
\* those the next prune will delete (received_at > floor).

\* ORDER BY seq ASC LIMIT n
Lowest(items, n) == {x \in items : Cardinality({y \in items : y.seq < x.seq}) < n}

Pending(stream, cursor) == {x \in stream : x.seq > cursor}

\* Deviation: the bounded read in seq order alone.
Candidates_WindowOnly(stream, cursor) == Lowest(Pending(stream, cursor), Window)

\* The bounded read in seq order, and the second one for the reserved slots.
Candidates(stream, cursor) ==
  LET pending == Pending(stream, cursor)
  IN Lowest(pending, Window) \cup Lowest(PriorityOf(pending), 4 * ReservedSlots)

\* Deviation: the newest page, as a feed would show it.
Page_Newest(stream, cursor) ==
  LET pending == Pending(stream, cursor)
  IN {x \in pending : Cardinality({y \in pending : y.seq > x.seq}) < FetchCap}

\* The messages of the answer.
Page(stream, cursor) == SelectFair(Candidates(stream, cursor), FetchCap, ReservedSlots)

\* "more": what is pending beyond the page.
More(stream, cursor) == Cardinality(Pending(stream, cursor)) - Cardinality(Page(stream, cursor))
=============================================================================
