-------------------------------- MODULE Outbox --------------------------------
(***************************************************************************)
(* The posting half of a client: `handshake` commands that stamp, drain    *)
(* the offline queue, publish, and queue what the transport did not take   *)
(* (bin/handshake.js send, lib/state.js OfflineQueue).  Every command is a *)
(* process.  Commands and hooks share state.json (the sender_seq counter   *)
(* and the transport binding), queue.json and the session's flags, and     *)
(* lock none of them: each is read whole and written back whole, every read*)
(* and every write a step of its own, and a drain writes back what it read *)
(* before it awaited the transport.                                        *)
(***************************************************************************)
EXTENDS Naturals, Sequences, FiniteSets, SequencesExt

CONSTANTS
  Procs,       \* commands that may run at a time
  Hooks,       \* other writers of state.json: hooks and the monitor
  Sessions,    \* the sessions the commands belong to
  Items,       \* what the user posts, each once
  QueueMax,    \* QUEUE_MAX
  MaxBinding   \* bound: changes of the transport binding

NoSession == "nobody"

ASSUME OutboxAssumption ==
  QueueMax \in Nat \ {0} /\ MaxBinding \in Nat /\ NoSession \notin Sessions

VARIABLES
  state,     \* state.json: the binding and sender_seq
  queue,     \* queue.json: its binding, its entries and dropped_total
  latch,     \* session.json: the session it is of and its posting_stopped
  proc,      \* what each command is doing
  hook,      \* the state.json each hook has read and not yet written back
  log,       \* the rows the transport has stored, oldest first
  stale,     \* the items past their expiry
  told,      \* what the command said of each item
  line,      \* the items in the order they were queued (history)
  dropped,   \* items dropped by the cap or by a new binding (history)
  lapsed,    \* items dropped as expired or as refused by the filter (history)
  unheard,   \* items stored by the transport whose answer was lost (history)
  unkept,    \* items whose enqueue failed (history)
  refused,   \* the session refused loudly, unless another has saved its flags since (history)
  crossed,   \* whether commands of two bindings have run at once (history)
  shared     \* whether two writers of the files have run at once (history)

files == <<state, queue, latch>>
kept == <<line, dropped, lapsed, unheard, unkept>>
marks == <<kept, refused>>
fate == <<marks, crossed, shared>>
vars == <<files, proc, hook, log, stale, told, fate>>

None == MaxBinding + 1
Bindings == 0..MaxBinding
Idle == [at |-> "idle"]
Free == [busy |-> FALSE]
StateDoc == [binding : Bindings, counter : Nat]
Entry == [item : Items, home : Bindings]
Flags == [session : Sessions \cup {NoSession}, stopped : BOOLEAN]
QueueDoc == [binding : Bindings, entries : Seq(Entry), dropped : Nat]
Stages == {"build", "stamp", "look", "reconcile", "wipe", "sweep", "rewrite", "open",
           "drain", "resign", "restamp", "send", "sending", "publish", "publishing",
           "push", "write"}

TypeOK ==
  /\ state \in StateDoc /\ queue \in QueueDoc /\ Len(queue.entries) <= QueueMax
  /\ latch \in Flags /\ refused \in SUBSET Sessions /\ {crossed, shared} \subseteq BOOLEAN
  /\ \A p \in Procs : proc[p] = Idle \/
       /\ proc[p].at \in Stages /\ proc[p].next \in Stages /\ proc[p].session \in Sessions
       /\ proc[p].item \in Items /\ proc[p].binding \in Bindings
       /\ proc[p].seq \in Nat /\ proc[p].again \in Nat /\ proc[p].read \in StateDoc
       /\ proc[p].doc \in QueueDoc /\ proc[p].latch \in BOOLEAN /\ proc[p].reached \in BOOLEAN
  /\ \A h \in Hooks : hook[h] = Free \/ (hook[h].busy /\ hook[h].read \in StateDoc)
  /\ \A i \in DOMAIN log : log[i] \in [item : Items, seq : Nat, binding : Bindings,
                                       home : Bindings \cup {None}]
  /\ told \in [Items -> {"no", "going", "sent", "queued", "blocked"}]
  /\ line \in Seq(Items)
  /\ {stale, dropped, lapsed, unheard, unkept} \subseteq SUBSET Items

\* A counter that does not exist starts from the Unix time; its first value is 0 here.
Init ==
  /\ state = [binding |-> 0, counter |-> 0]
  /\ queue = [binding |-> 0, entries |-> <<>>, dropped |-> 0]
  /\ latch = [session |-> NoSession, stopped |-> FALSE] /\ refused = {}
  /\ crossed = FALSE /\ shared = FALSE
  /\ proc = [p \in Procs |-> Idle] /\ hook = [h \in Hooks |-> Free]
  /\ log = <<>> /\ line = <<>>
  /\ stale = {} /\ dropped = {} /\ lapsed = {} /\ unheard = {} /\ unkept = {}
  /\ told = [i \in Items |-> "no"]

-----------------------------------------------------------------------------
ItemsOf(entries) == {e.item : e \in ToSet(entries)}
Expired(doc) == ItemsOf(doc.entries) \cap stale

\* The j-th smallest number of K.
Nth(K, j) == CHOOSE k \in K : Cardinality({i \in K : i <= k}) = j

Swept(doc) ==
  LET fresh == {k \in DOMAIN doc.entries : doc.entries[k].item \notin stale}
  IN  [doc EXCEPT !.entries = [j \in 1..Cardinality(fresh) |-> @[Nth(fresh, j)]]]

\* Deviation: the queue outlives its binding.
Reconciled_Kept(doc, binding) == [doc EXCEPT !.binding = binding]

\* A queue written under another binding is discarded, and counted.
Reconciled(doc, binding) ==
  IF doc.binding = binding THEN doc
  ELSE [binding |-> binding, entries |-> <<>>, dropped |-> doc.dropped + Len(doc.entries)]

\* Deviation: no cap.
Capped_Off(doc) == doc

\* The oldest entries over the cap go, and are counted.
Capped(doc) ==
  LET over == IF Len(doc.entries) > QueueMax THEN Len(doc.entries) - QueueMax ELSE 0
  IN  [doc EXCEPT !.entries = SubSeq(@, over + 1, Len(@)), !.dropped = @ + over]

\* The transport stores a row unless it holds one of the same sender_seq.
Stored(row) ==
  IF \E i \in DOMAIN log : log[i].seq = row.seq /\ log[i].binding = row.binding
  THEN log ELSE Append(log, row)

-----------------------------------------------------------------------------
\* Deviation: a command that does not read the flags of its session.
Loaded_Blank(session) == FALSE

\* The flags of another session read as none.
Loaded(session) == latch.session = session /\ latch.stopped

\* A command saves the flags of its session as it knows them, over whatever is there.
Save(p, stopped) ==
  /\ latch' = [session |-> proc[p].session, stopped |-> stopped]
  /\ refused' = IF stopped THEN {proc[p].session} ELSE refused \cap {proc[p].session}

\* Some writer of the files is under way.
Busy == (\E p \in Procs : proc[p] # Idle) \/ (\E h \in Hooks : hook[h] # Free)

\* openWorkspace: the command reads the binding and its session's flags.
Start(p) == \E i \in Items, s \in Sessions :
  /\ proc[p] = Idle /\ told[i] = "no"
  /\ proc' = [proc EXCEPT ![p] =
       [at |-> "build", next |-> "publish", session |-> s, item |-> i, binding |-> state.binding,
        latch |-> Loaded(s), seq |-> 0, again |-> 0, read |-> state, doc |-> queue,
        reached |-> FALSE]]
  /\ told' = [told EXCEPT ![i] = "going"]
  /\ shared' = (shared \/ Busy)
  /\ crossed' = (crossed \/ \E q \in Procs : proc[q] # Idle /\ proc[q].binding # state.binding)
  /\ UNCHANGED <<files, hook, log, stale, marks>>

Step(p, from, to) == proc[p].at = from /\ proc' = [proc EXCEPT ![p].at = to]

\* nextSenderSeq, for the command's own envelope and for one of the queue:
\* state.json is read, and then written back whole with the next number.
ReadCounter(p) ==
  /\ \E way \in {<<"build", "stamp">>, <<"resign", "restamp">>} :
       /\ proc[p].at = way[1]
       /\ proc' = [proc EXCEPT ![p].at = way[2], ![p].read = state]
  /\ UNCHANGED <<files, hook, log, stale, told, fate>>

\* Deviation: the counter is used and not persisted.
Counted_Lost(doc) == doc

Counted(doc) == [doc EXCEPT !.counter = @ + 1]

WriteCounter(p) ==
  /\ \/ /\ proc[p].at = "stamp"
        /\ proc' = [proc EXCEPT ![p].at = "look", ![p].seq = proc[p].read.counter + 1]
     \/ /\ proc[p].at = "restamp"
        /\ proc' = [proc EXCEPT ![p].at = "send", ![p].again = proc[p].read.counter + 1]
  /\ state' = Counted(proc[p].read)
  /\ UNCHANGED <<queue, latch, hook, log, stale, told, fate>>

\* A command whose session has been refused posts nothing; one refused during
\* its own drain learns it from the adapter, and saves its flags once more.
Blocked(p) ==
  /\ proc[p].at \in {"look", "publish"} /\ proc[p].latch
  /\ IF proc[p].at = "publish" THEN Save(p, TRUE) ELSE UNCHANGED <<latch, refused>>
  /\ told' = [told EXCEPT ![proc[p].item] = "blocked"]
  /\ proc' = [proc EXCEPT ![p] = Idle]
  /\ UNCHANGED <<state, queue, hook, log, stale, kept, crossed, shared>>

\* drainQueue asks for the size: an empty queue is only reconciled.
Look(p) ==
  /\ proc[p].at = "look" /\ ~proc[p].latch
  /\ proc' = [proc EXCEPT ![p].at = "reconcile",
                          ![p].next = IF queue.entries = <<>> THEN "publish" ELSE "sweep"]
  /\ UNCHANGED <<files, hook, log, stale, told, fate>>

\* reconcileBinding, before a drain and before an enqueue.
ReconcileRead(p) ==
  /\ proc[p].at = "reconcile"
  /\ proc' = IF queue.binding = proc[p].binding
             THEN [proc EXCEPT ![p].at = proc[p].next]
             ELSE [proc EXCEPT ![p].at = "wipe", ![p].doc = queue]
  /\ UNCHANGED <<files, hook, log, stale, told, fate>>

ReconcileWrite(p) ==
  /\ proc[p].at = "wipe"
  /\ queue' = Reconciled(proc[p].doc, proc[p].binding)
  /\ dropped' = dropped \cup ItemsOf(proc[p].doc.entries)
  /\ proc' = [proc EXCEPT ![p].at = proc[p].next]
  /\ UNCHANGED <<state, latch, hook, log, stale, told, line, lapsed, unheard, unkept,
                 refused, crossed, shared>>

\* sweep writes only if something has expired.
SweepRead(p) ==
  /\ proc[p].at = "sweep"
  /\ lapsed' = lapsed \cup Expired(queue)
  /\ proc' = [proc EXCEPT ![p].at = IF Expired(queue) = {} THEN "open" ELSE "rewrite",
                          ![p].doc = Swept(queue)]
  /\ UNCHANGED <<files, hook, log, stale, told, line, dropped, unheard, unkept,
                 refused, crossed, shared>>

SweepWrite(p) ==
  /\ Step(p, "rewrite", "open") /\ queue' = proc[p].doc
  /\ UNCHANGED <<state, latch, hook, log, stale, told, fate>>

\* The queue that the drain works on, up to its end.
OpenQueue(p) ==
  /\ proc[p].at = "open"
  /\ proc' = [proc EXCEPT ![p].at = "drain", ![p].doc = queue]
  /\ UNCHANGED <<files, hook, log, stale, told, fate>>

DrainNext(p) ==
  /\ Step(p, "drain", "resign") /\ proc[p].doc.entries # <<>>
  /\ UNCHANGED <<files, hook, log, stale, told, fate>>

DrainEnds(p) ==
  /\ Step(p, "drain", "publish") /\ proc[p].doc.entries = <<>>
  /\ queue' = proc[p].doc
  /\ UNCHANGED <<state, latch, hook, log, stale, told, fate>>

\* Deviation: the entry that was sent stays.
Rest_Kept(doc) == doc
Rest(doc) == [doc EXCEPT !.entries = Tail(@)]

\* The filter refuses at send what it let through at enqueue: the entry goes,
\* and the refusal is loud.
Refuse(p) ==
  LET doc == Rest(proc[p].doc) IN
  /\ proc[p].at = "send"
  /\ queue' = doc /\ Save(p, TRUE)
  /\ lapsed' = lapsed \cup {Head(proc[p].doc.entries).item}
  /\ proc' = [proc EXCEPT ![p].at = "publish", ![p].doc = doc, ![p].latch = TRUE]
  /\ UNCHANGED <<state, hook, log, stale, told, line, dropped, unheard, unkept, crossed, shared>>

\* What the request of a command carries: the head of its queue, or its own envelope.
Parcel(p) ==
  IF proc[p].at \in {"send", "sending"}
  THEN LET entry == Head(proc[p].doc.entries)
       IN  [item |-> entry.item, seq |-> proc[p].again, binding |-> proc[p].binding, home |-> entry.home]
  ELSE [item |-> proc[p].item, seq |-> proc[p].seq, binding |-> proc[p].binding, home |-> None]

\* The request goes out, and is stored or not.
Transmit(p) == \E reached \in BOOLEAN, way \in {<<"send", "sending">>, <<"publish", "publishing">>} :
  /\ proc[p].at = way[1] /\ (way[1] = "publish" => ~proc[p].latch)
  /\ proc' = [proc EXCEPT ![p].at = way[2], ![p].reached = reached]
  /\ log' = IF reached THEN Stored(Parcel(p)) ELSE log
  /\ UNCHANGED <<files, hook, stale, told, fate>>

\* The answer to an entry of the queue: the queue is written as this command knows it.
SentOk(p) ==
  LET doc == Rest(proc[p].doc) IN
  /\ proc[p].at = "sending" /\ proc[p].reached
  /\ queue' = doc /\ proc' = [proc EXCEPT ![p].at = "drain", ![p].doc = doc]
  /\ UNCHANGED <<state, latch, hook, log, stale, told, fate>>

\* Deviation: an entry taken off the queue before its answer is known.
AfterFailure_Shifted(p) == [proc[p] EXCEPT !.at = "publish", !.doc = Rest(@)]

AfterFailure(p) == [proc[p] EXCEPT !.at = "publish"]

Unheard(p) == unheard' = unheard \cup (IF proc[p].reached THEN {Parcel(p).item} ELSE {})

\* No answer, or a 5xx: the drain stops and keeps the rest.
SentSilent(p) ==
  /\ proc[p].at = "sending" /\ Unheard(p)
  /\ proc' = [proc EXCEPT ![p] = AfterFailure(p)]
  /\ queue' = proc'[p].doc
  /\ UNCHANGED <<state, latch, hook, log, stale, told, line, dropped, lapsed, unkept,
                 refused, crossed, shared>>

SentLoud(p) ==
  /\ proc[p].at = "sending" /\ ~proc[p].reached
  /\ queue' = proc[p].doc /\ Save(p, TRUE)
  /\ proc' = [proc EXCEPT ![p].at = "publish", ![p].latch = TRUE]
  /\ UNCHANGED <<state, hook, log, stale, told, kept, crossed, shared>>

\* The answer to the command's own envelope.
PublishedOk(p) ==
  /\ proc[p].at = "publishing" /\ proc[p].reached
  /\ told' = [told EXCEPT ![proc[p].item] = "sent"]
  /\ proc' = [proc EXCEPT ![p] = Idle]
  /\ UNCHANGED <<files, hook, log, stale, fate>>

\* The failure is counted, which saves the flags as this command read them.
PublishedSilent(p) ==
  /\ proc[p].at = "publishing" /\ Unheard(p)
  /\ Save(p, proc[p].latch)
  /\ proc' = [proc EXCEPT ![p].at = "reconcile", ![p].next = "push"]
  /\ UNCHANGED <<state, queue, hook, log, stale, told, line, dropped, lapsed, unkept,
                 crossed, shared>>

PublishedLoud(p) ==
  /\ proc[p].at = "publishing" /\ ~proc[p].reached
  /\ Save(p, TRUE)
  /\ told' = [told EXCEPT ![proc[p].item] = "blocked"]
  /\ proc' = [proc EXCEPT ![p] = Idle]
  /\ UNCHANGED <<state, queue, hook, log, stale, kept, crossed, shared>>

\* enqueue, behind its reconcileBinding: the queue is read again, without what has
\* expired, and then written back with the new entry under the command's binding.
EnqueueRead(p) ==
  /\ proc[p].at = "push"
  /\ lapsed' = lapsed \cup Expired(queue)
  /\ proc' = [proc EXCEPT ![p].at = "write", ![p].doc = Swept(queue)]
  /\ UNCHANGED <<files, hook, log, stale, told, line, dropped, unheard, unkept,
                 refused, crossed, shared>>

\* Deviation: the newest first.
Joined_Front(entries, entry) == <<entry>> \o entries

Joined(entries, entry) == Append(entries, entry)

EnqueueWrite(p) ==
  LET full == [proc[p].doc EXCEPT
                 !.entries = Joined(@, [item |-> proc[p].item, home |-> proc[p].binding]),
                 !.binding = proc[p].binding]
  IN  /\ proc[p].at = "write"
      /\ queue' = Capped(full)
      /\ dropped' = dropped \cup (ItemsOf(full.entries) \ ItemsOf(queue'.entries))
      /\ line' = Append(line, proc[p].item)
      /\ told' = [told EXCEPT ![proc[p].item] = "queued"]
      /\ proc' = [proc EXCEPT ![p] = Idle]
      /\ UNCHANGED <<state, latch, hook, log, stale, lapsed, unheard, unkept,
                     refused, crossed, shared>>

\* An enqueue that throws is caught, and the command says "queued" all the same.
EnqueueFails(p) ==
  /\ proc[p].at \in {"push", "write"} \/ (proc[p].at = "wipe" /\ proc[p].next = "push")
  /\ unkept' = unkept \cup {proc[p].item}
  /\ told' = [told EXCEPT ![proc[p].item] = "queued"]
  /\ proc' = [proc EXCEPT ![p] = Idle]
  /\ UNCHANGED <<files, hook, log, stale, line, dropped, lapsed, unheard,
                 refused, crossed, shared>>

\* The expiry of a queued entry passes.
Age == \E i \in ItemsOf(queue.entries) \ stale :
  /\ stale' = stale \cup {i}
  /\ UNCHANGED <<files, proc, hook, log, told, fate>>

\* A join, a rebind or a migration: another transport, topic, endpoint or token.
Rebind ==
  /\ state.binding < MaxBinding
  /\ state' = [state EXCEPT !.binding = @ + 1]
  /\ UNCHANGED <<queue, latch, proc, hook, log, stale, told, fate>>

\* State.update by a hook or the monitor, about other fields of state.json.
HookReads(h) ==
  /\ hook[h] = Free /\ hook' = [hook EXCEPT ![h] = [busy |-> TRUE, read |-> state]]
  /\ shared' = (shared \/ Busy)
  /\ UNCHANGED <<files, proc, log, stale, told, marks, crossed>>

HookWrites(h) ==
  /\ hook[h] # Free /\ state' = hook[h].read /\ hook' = [hook EXCEPT ![h] = Free]
  /\ UNCHANGED <<queue, latch, proc, log, stale, told, fate>>

Command(p) ==
  \/ Start(p) \/ ReadCounter(p) \/ WriteCounter(p) \/ Blocked(p) \/ Look(p)
  \/ ReconcileRead(p) \/ ReconcileWrite(p) \/ SweepRead(p) \/ SweepWrite(p) \/ OpenQueue(p)
  \/ DrainNext(p) \/ DrainEnds(p) \/ Refuse(p) \/ Transmit(p)
  \/ SentOk(p) \/ SentSilent(p) \/ SentLoud(p)
  \/ PublishedOk(p) \/ PublishedSilent(p) \/ PublishedLoud(p)
  \/ EnqueueRead(p) \/ EnqueueWrite(p) \/ EnqueueFails(p)

Next ==
  \/ \E p \in Procs : Command(p)
  \/ \E h \in Hooks : HookReads(h) \/ HookWrites(h)
  \/ Age \/ Rebind

Spec == Init /\ [][Next]_vars
-----------------------------------------------------------------------------
Logged == {log[i].item : i \in DOMAIN log}
Drained == {log[i].item : i \in {j \in DOMAIN log : log[j].home # None}}

\* An entry goes out only under the transport binding it was queued for, whatever
\* commands of one binding do to the queue at a time and however often it changed
\* between them; as long as commands of two bindings have not run at once.
OwnBindingOnly == ~crossed => \A i \in DOMAIN log : log[i].home \in {None, log[i].binding}

(***************************************************************************)
(* What holds as long as no two writers of the files have run at once.     *)
(***************************************************************************)
\* What a command reported as posted is on the transport: no other envelope of
\* the member took its sender_seq before (PROTOCOL 2.6).
HonestSent == ~shared => \A i \in Items : told[i] = "sent" => i \in Logged

\* What a command reported as queued is queued still, or was sent, or was
\* dropped for one of the reasons there are (PROTOCOL 10.3), unless its enqueue
\* failed, which the command does not tell (README 7).
Accounted == ~shared =>
  \A i \in Items \ unkept : told[i] = "queued" =>
    i \in ItemsOf(queue.entries) \cup Logged \cup dropped \cup lapsed

\* The queue drains in the order it was filled: nothing is sent from it before
\* what was queued earlier is sent or dropped.
InLine == ~shared =>
  \A a, b \in DOMAIN line : a < b /\ line[b] \in Drained => line[a] \in Drained \cup dropped \cup lapsed

\* An item is posted twice only when the answer to the first time was lost.
RepeatsOnlyAfterLoss == ~shared =>
  \A i, j \in DOMAIN log : i < j /\ log[i].item = log[j].item => log[i].item \in unheard

\* A session that was refused loudly stays stopped, whatever its later commands
\* save (PROTOCOL 10.2), until another session saves its own flags over them.
LatchHolds == ~shared => \A s \in refused : latch = [session |-> s, stopped |-> TRUE]
===============================================================================
