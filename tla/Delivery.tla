------------------------------- MODULE Delivery -------------------------------
(***************************************************************************)
(* How a posted message reaches one member's model over the relay: the     *)
(* asynchronous hooks fetch a page into the digest cache (hooks/sync.js,   *)
(* lib/transport-relay.js), the synchronous UserPromptSubmit hook renders  *)
(* from the cache and consumes what it rendered, and a later asynchronous  *)
(* hook pushes the consumed watermark to the relay.  Every hook is a       *)
(* process of its own; they share only the files of the state directory,   *)
(* each written whole (writeJsonFile).  A read-modify-write of one file is *)
(* a step here; what two of them do to each other is in Outbox.            *)
(***************************************************************************)
EXTENDS RelaySync, Integers

CONSTANTS
  InjectCap,       \* INJECT_CAP
  LeastShown,      \* trimming leaves at least so many of them in the block
  Skew,            \* TS_SKEW_MS, in ticks of the clock
  Overlapping,     \* hooks run while another one is under way
  Killable,        \* the hooks a watchdog (armSafety) or the host may kill
  MaxSeq, MaxClock \* bounds of the exploration

\* The asynchronous hooks that refresh: SessionStart, and PostToolUse on
\* every fifth tick.
Refreshers == {"SessionStart", "PostToolUse"}
None == -1

ASSUME DeliveryAssumption ==
  /\ InjectCap \in Nat \ {0} /\ LeastShown \in Nat \ {0} /\ Skew \in Nat
  /\ Overlapping \in BOOLEAN
  /\ MaxSeq \in Nat /\ MaxClock \in Nat

VARIABLES
  stream,      \* the messages on the relay
  clock,       \* the time in ticks: stamps and verifies
  cursor,      \* the member's cursor on the relay
  watermark,   \* state.json: the consumed watermark
  commitDue,   \* state.json: pending_cursor_commit
  seen,        \* seen.json: the dedupe memory
  digest,      \* digest.json
  marker,      \* the syncPending sentinel
  hook,        \* what each refresher is doing
  turn,        \* what UserPromptSubmit is doing
  rendered,    \* how often each was rendered: 0, 1, or 2 and more (history)
  fetched      \* the messages a digest has held (history)

relay == <<stream, clock>>
local == <<watermark, commitDue, seen, digest>>
history == <<rendered, fetched>>
vars == <<relay, cursor, local, marker, hook, turn, history>>

Seqs == 1..MaxSeq
Message == [seq : Seqs, sender : Senders, type : Types, ts : 0..MaxClock]
Idle == [at |-> "idle"]

TypeOK ==
  /\ stream \subseteq Message /\ clock \in 0..MaxClock
  /\ cursor \in 0..MaxSeq /\ watermark \in 0..MaxSeq
  /\ commitDue \in BOOLEAN /\ marker \in BOOLEAN
  /\ seen \subseteq Seqs /\ fetched \subseteq Seqs
  /\ digest \in [items : SUBSET Seqs, next : Seqs \cup {None}]
  /\ rendered \in [Seqs -> 0..2]
  /\ hook \in [Refreshers -> {Idle} \cup [at : {"asked"}, from : 0..MaxSeq, seen : SUBSET Seqs]
                             \cup [at : {"stored", "pushed"}]]
  /\ turn \in {Idle} \cup [at : {"shown"}, carried : SUBSET Seqs]
              \cup [at : {"carried"}, next : Seqs \cup {None}] \cup [at : {"advanced"}]

Init ==
  /\ stream = {} /\ clock = 0 /\ cursor = 0
  /\ watermark = 0 /\ commitDue = FALSE /\ seen = {}
  /\ digest = [items |-> {}, next |-> None]
  /\ marker = FALSE
  /\ hook = [p \in Refreshers |-> Idle] /\ turn = Idle
  /\ rendered = [n \in Seqs |-> 0] /\ fetched = {}

AllQuiet == turn = Idle /\ \A p \in Refreshers : hook[p] = Idle
MayStart == Overlapping \/ AllQuiet

(***************************************************************************)
(* Peers and time.                                                         *)
(***************************************************************************)
PeerPosts(sender, type) ==
  /\ Cardinality(stream) < MaxSeq
  /\ stream' = stream \cup {[seq |-> Cardinality(stream) + 1, sender |-> sender,
                             type |-> type, ts |-> clock]}
  /\ UNCHANGED <<clock, cursor, local, marker, hook, turn, history>>

Tick == clock < MaxClock /\ clock' = clock + 1
        /\ UNCHANGED <<stream, cursor, local, marker, hook, turn, history>>

(***************************************************************************)
(* A refresh: read the watermark and the dedupe memory, ask the relay,     *)
(* keep what envelope.accept accepts, overwrite the digest.                *)
(***************************************************************************)
Ask(p) ==
  /\ MayStart /\ hook[p] = Idle
  /\ p = "PostToolUse" => ~marker
  /\ hook' = [hook EXCEPT ![p] = [at |-> "asked", from |-> watermark, seen |-> seen]]
  /\ marker' = (p = "SessionStart" \/ marker)
  /\ UNCHANGED <<relay, cursor, local, turn, history>>

Fresh(x) == clock - x.ts <= Skew

\* envelope.accept: freshness, then dedupe.  The memory it adds to is not
\* flushed by a fetch.
Accepted(p) == {x \in Page(stream, hook[p].from) : Fresh(x) /\ x.seq \notin hook[p].seen}

Highest(numbers) == CHOOSE n \in numbers : \A k \in numbers : k <= n

\* Deviation: sync --json does not print next_cursor, and nothing stands in.
DeriveCursor_Unset(p) == None

\* deriveCursor: the highest seq among the messages that were accepted.
DeriveCursor(p) ==
  LET got == {x.seq : x \in Accepted(p)} IN IF got = {} THEN None ELSE Highest(got)

\* refresh, to the end of writeDigest: the cache is replaced, not merged.
Store(p) ==
  /\ hook[p].at = "asked"
  /\ digest' = [items |-> {x.seq : x \in Accepted(p)}, next |-> DeriveCursor(p)]
  /\ fetched' = fetched \cup {x.seq : x \in Accepted(p)}
  /\ hook' = [hook EXCEPT ![p] = [at |-> "stored"]]
  /\ marker' = (p # "SessionStart" /\ marker)
  /\ UNCHANGED <<relay, cursor, watermark, commitDue, seen, turn, rendered>>

\* The transport was unreachable: silent, and the digest stays as it was.
Unreachable(p) ==
  /\ hook[p].at = "asked"
  /\ hook' = [hook EXCEPT ![p] = [at |-> "stored"]]
  /\ marker' = (p # "SessionStart" /\ marker)
  /\ UNCHANGED <<relay, cursor, local, turn, history>>

(***************************************************************************)
(* The push of the consumed watermark (commitPendingCursor, cmdCursor).    *)
(***************************************************************************)
\* Deviation: what the digest holds is pushed, consumed or not.
Pushed_Digest == IF digest.next > watermark THEN digest.next ELSE watermark

\* cmdCursor --commit reads the consumed watermark itself.
Pushed == watermark

Later(a, b) == IF a >= b THEN a ELSE b

\* The flag is up: the watermark goes to the relay, which keeps the later one.
Push(p) ==
  /\ hook[p].at = "stored" /\ commitDue
  /\ cursor' = Later(Pushed, cursor)
  /\ hook' = [hook EXCEPT ![p] = [at |-> "pushed"]]
  /\ UNCHANGED <<relay, local, marker, turn, history>>

\* The relay answered: the flag goes down, whatever happened since the push.
Acknowledge(p) ==
  /\ hook[p].at = "pushed"
  /\ commitDue' = FALSE
  /\ hook' = [hook EXCEPT ![p] = Idle]
  /\ UNCHANGED <<relay, cursor, watermark, seen, digest, marker, turn, history>>

\* Deviation: the flag goes down although the push failed.
FlagUnpushed_Down == FALSE

FlagUnpushed == commitDue

\* Nothing to push, the push failed, or its answer was lost.
EndRefresh(p) ==
  /\ hook[p].at \in {"stored", "pushed"}
  /\ commitDue' = FlagUnpushed
  /\ hook' = [hook EXCEPT ![p] = Idle]
  /\ UNCHANGED <<relay, cursor, watermark, seen, digest, marker, turn, history>>

\* SessionStart after /clear or /compact: no refresh, only the push.
ContextStart ==
  /\ MayStart /\ hook["SessionStart"] = Idle
  /\ marker' = FALSE
  /\ hook' = [hook EXCEPT !["SessionStart"] = [at |-> "stored"]]
  /\ UNCHANGED <<relay, cursor, local, turn, history>>

(***************************************************************************)
(* UserPromptSubmit: render from the cache, then advance.                  *)
(***************************************************************************)
Priority(n) == \E x \in stream : x.seq = n /\ IsPriorityType(x.type)

\* buildView: priority items first, in seq order otherwise.
Above(n, k) ==
  \/ Priority(n) /\ ~Priority(k)
  \/ (Priority(n) <=> Priority(k)) /\ n < k

Top(items, count) == {n \in items : Cardinality({k \in items : Above(k, n)}) < count}

\* How many items the block may show: all of them up to INJECT_CAP, or fewer
\* when the block had to be trimmed to its budget.
ShownCounts(items) ==
  LET most == Lesser(InjectCap, Cardinality(items)) IN Lesser(LeastShown, most)..most

\* advance consumes exactly what the model was shown.
Consumed(items, count) == Top(items, count)

\* The block is printed, what it shows goes into the dedupe memory.  A block
\* that shows nothing (muted, trimmed away) consumes nothing and ends the turn,
\* and a child's turn consumes nothing either: those change no state.
Show(count) ==
  /\ MayStart /\ turn = Idle
  /\ count \in ShownCounts(digest.items) /\ count > 0
  /\ rendered' = [n \in Seqs |-> IF n \in Top(digest.items, count) THEN Lesser(2, rendered[n] + 1) ELSE rendered[n]]
  /\ seen' = seen \cup Consumed(digest.items, count)
  /\ turn' = [at |-> "shown", carried |-> digest.items \ Consumed(digest.items, count)]
  /\ UNCHANGED <<relay, cursor, watermark, commitDue, digest, marker, hook, fetched>>

\* Deviation: the digest keeps the items that were rendered too.
Carried_All == digest.items

Carried == turn.carried

\* The digest is read again and written with what is carried from the view.
Carry ==
  /\ turn.at = "shown"
  /\ digest' = [digest EXCEPT !.items = Carried]
  /\ turn' = [at |-> "carried", next |-> digest.next]
  /\ UNCHANGED <<relay, cursor, watermark, commitDue, seen, marker, hook, history>>

\* cursorIsAhead: the watermark moves forward only.
Ahead(next) == next > watermark

\* advanceWatermark with the cursor of the digest just read.
Advance ==
  /\ turn.at = "carried"
  /\ IF turn.next # None /\ Ahead(turn.next)
     THEN watermark' = turn.next /\ turn' = [at |-> "advanced"]
     ELSE UNCHANGED watermark /\ turn' = Idle
  /\ UNCHANGED <<relay, cursor, commitDue, seen, digest, marker, hook, history>>

\* The relay's cursor is left to the next asynchronous hook.
RaiseFlag ==
  /\ turn.at = "advanced"
  /\ commitDue' = TRUE
  /\ turn' = Idle
  /\ UNCHANGED <<relay, cursor, watermark, seen, digest, marker, hook, history>>

(***************************************************************************)
(* A watchdog or the host ends a hook between two of its steps.            *)
(***************************************************************************)
Kill(p) ==
  /\ p \in Killable
  /\ \/ p \in Refreshers /\ hook[p] # Idle /\ hook' = [hook EXCEPT ![p] = Idle] /\ UNCHANGED turn
     \/ p = "UserPromptSubmit" /\ turn # Idle /\ turn' = Idle /\ UNCHANGED hook
  /\ UNCHANGED <<relay, cursor, local, marker, history>>

\* The marker a killed SessionStart left behind goes stale (isFresh).
MarkerStale ==
  /\ marker /\ hook["SessionStart"] = Idle
  /\ marker' = FALSE
  /\ UNCHANGED <<relay, cursor, local, hook, turn, history>>

GoOn(p) == Unreachable(p) \/ Push(p) \/ Acknowledge(p) \/ EndRefresh(p) \/ Store(p)
Refresh(p) == Ask(p) \/ GoOn(p)
Submit == \E count \in 1..InjectCap : Show(count)
Consume == Carry \/ Advance \/ RaiseFlag
Prompt == Submit \/ Consume

Next ==
  \/ \E sender \in Senders, type \in Types : PeerPosts(sender, type)
  \/ Tick
  \/ \E p \in Refreshers : Refresh(p)
  \/ ContextStart
  \/ Prompt
  \/ \E p \in Killable : Kill(p)
  \/ MarkerStale

Spec == Init /\ [][Next]_vars

\* A hook that was started runs on; the session stays in use, so tools are
\* called and prompts submitted again and again; and the relay is not
\* unreachable every single time, which is strong fairness of Store: it is
\* enabled when the refresh has asked.
Fairness ==
  /\ \A p \in Refreshers : WF_vars(GoOn(p))
  /\ WF_vars(Consume) /\ SF_vars(Submit)
  /\ SF_vars(Ask("PostToolUse"))
  /\ []<>(hook["PostToolUse"].at = "asked") => []<><<Store("PostToolUse")>>_vars

FairSpec == Spec /\ Fairness

(***************************************************************************)
(* What holds however the hooks overlap and whenever they are killed.      *)
(***************************************************************************)
\* A slow refresh may store an older page after a newer one; the consumed
\* watermark never goes back for it (advanceWatermark).
WatermarkForward == [][watermark' >= watermark]_vars

\* The relay is never told that something was consumed before it was: the
\* cursor there stays behind the watermark here (PROTOCOL 6.3).
RelayFollows == cursor <= watermark

\* The watermark is 0 or a message that some refresh accepted into a digest:
\* what was answered but rejected never moves it (deriveCursor).
WatermarkWasFetched == watermark \in {0} \cup fetched

\* The oldest pending message is in every page, so a reader that advances
\* to it skips nothing (#sync; e2e/lib/relay-dev.js walks the stream so).
OldestIsAnswered ==
  \A from \in 0..MaxSeq :
    LET pending == Pending(stream, from)
    IN \A x \in pending : (\A y \in pending : x.seq <= y.seq) => x \in Page(stream, from)

\* The reserved slots are filled while warnings are pending, also with
\* warnings beyond the candidate window (the second read of #sync).
FloorIsFilled ==
  \A from \in 0..MaxSeq :
    Cardinality(PriorityOf(Page(stream, from)))
      >= Lesser(ReservedSlots, Cardinality(PriorityOf(Pending(stream, from))))

(***************************************************************************)
(* What holds only under the conditions the configurations name.           *)
(***************************************************************************)
InTurn == IF turn.at = "shown" THEN turn.carried ELSE {}

\* One sender and no warnings: the fair selection takes the pending messages in
\* order and skips none.
InOrder == \A x, y \in stream : x.sender = y.sender /\ ~IsPriorityType(x.type)

\* A message the watermark has passed was rendered, or is still carried.
NoneLost ==
  InOrder => \A n \in 1..watermark : rendered[n] > 0 \/ n \in digest.items \cup InTurn

\* What was rendered is consumed and does not appear again.
ShownOnce == \A n \in Seqs : rendered[n] <= 1

\* While the relay lags behind the watermark somebody knows: the flag is up,
\* or the turn that moved the watermark is about to raise it.
LagIsFlagged == cursor < watermark => commitDue \/ turn.at = "advanced"

\* Every message is rendered at last.
Delivered ==
  \A n \in Seqs : n <= Cardinality(stream) ~> rendered[n] > 0 \/ ~InOrder
=============================================================================
