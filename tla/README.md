# Verification of the Claude Handshake coordination plugin

TLA+ models, model-checking runs and machine-checked proofs for the program in `src/`: a plugin that
lets several developers' agent sessions coordinate over a shared relay (or an ntfy topic) and over a
git branch. Every definition is translated from the source; `PROJECT.json` maps each one to the lines
it stands for. Tables below give the short form, the comments in the modules give the reasons.

1. [The system](#1-the-system)
2. [Modules and how they correspond to the code](#2-modules-and-how-they-correspond-to-the-code)
3. [Runs: what is checked and what it shows](#3-runs)
4. [Bounds](#4-bounds)
5. [Fairness](#5-fairness)
6. [Proofs](#6-proofs)
7. [What the runs found](#7-what-the-runs-found)
8. [What is not modelled](#8-what-is-not-modelled)
9. [Plan](#9-plan)

To run: `tlc -config MCRelay.cfg MCRelay.tla` (a run is a module and a `.cfg`),
`tlapm RelayProofs.tla` (a proof module).

## 1. The system

Each member works in a clone with the plugin installed. The plugin is a set of short-lived *processes*:
hooks the host starts around the agent's turns, one long-running monitor, and the `handshake` command
the agent or the user runs. They share nothing but files in the state directory, each read and written
whole and without locks. Members talk through a *relay* (a Cloudflare Durable Object per workspace) or
an ntfy topic, and leave durable records (decisions, knowledge, touched files) in *shard* files, which
are committed to a state branch and pushed.

| Component | Source | State it keeps | Operations |
|---|---|---|---|
| Relay workspace object | `relay/src/do/workspace.js` | tables meta, members, presence, claims, messages | init, join, rotate, rebind, remove, destroy, purge, heartbeat, claim, release, post, sync, cursor |
| Fair selection | `relay/src/lib/fairness.js`, again in `lib/transport.js` | none (pure) | selectFair, roundRobin |
| Rate limits | `relay/src/do/limiter.js`, `workspace.js` | windows and counters per bucket | check, penalise, sweep |
| Relay front | `relay/src/worker.js`, `relay/src/lib/*` | none | routing, tokens, bodies |
| Delivery | `hooks/sync.js`, `hooks/user-prompt-submit.js`, `lib/transport-relay.js` | digest.json, seen.json, watermark and flag in state.json, sync marker | refresh, render, advance, push of the cursor |
| Outbox | `lib/state.js`, `bin/handshake.js` | queue.json, sender_seq in state.json, session.json | publish, enqueue, drain, sweep, reconcile, posting latch |
| State branch | `lib/state-branch.js`, `monitors/heartbeat.js` | refs, shard, lock file, `state.pending`, `state.beat`, recorded head | append, batch (lock, fetch, commit, move ref, push), settle |
| Heartbeat and lifecycle | `monitors/heartbeat.js`, `hooks/*.js`, `lib/session.js` | roles, `monitor.alive`, `monitor.disarm`, `stop.beat`, session.json; touch buckets, pushed delta | start, poll, beat, stand-in beat, rest, end; fold |
| Own claims | `hooks/sync.js`, `lib/state.js`, `lib/subject.js` | own claims in state.json, peers.json | claim, release, renew, sync, re-adopt |
| ntfy transport | `lib/transport-ntfy.js`, `lib/envelope.js` | watermark by message id | publish, poll |
| Shard scan | `lib/shard-scan.js`, `hooks/user-prompt-submit.js` | knowledge.json and its latch | scan, merge with the fetched ref, inject |
| Repository guard | `lib/repo.js`, `lib/workspace-files.js`, `bin/handshake.js` | `repo_guard` (cached verdict, demand), secret.json, .gitignore, the opt-in record | probe, enforce, acknowledge, write, scrub, pair, gate |
| Init, join, migrate, leave, deploy | `bin/handshake.js`, `lib/deploy.js`, `lib/invite.js` | config, tokens | multi-step verbs that can fail half way |
| Filters, rendering, installers | `lib/filter.js`, `lib/escape.js`, `hooks/render.js`, `installers/` | none | text |

How they interact:

    command --publish/drain--> relay <--heartbeat, claims-- monitor / Stop hook
       |  \                     |
       |   \--append--> shard --+--- batch ---> state branch on the git remote
       v                        v                    |
    queue.json            sync page --SessionStart/PostToolUse--> digest.json
    state.json <--watermark-- UserPromptSubmit renders the digest into the model's context

Where it is hard, and what makes each part correct:

- **Relay object.** Handlers run to completion between awaits, and join, rotate and rebind await a key
  derivation between their check and their write, while `now` is read before the digest of the
  authentication is awaited. Correct: names unique, roster/claims/stream bounded, a removal is final and
  leaves no lease behind, an unexpired lease is never given to a peer and keeps its age, a seq is issued
  once and no watermark is beyond it or goes back.
- **Selection and sync.** A page of bounded size must let the reader advance without loss and keep
  warnings visible. Correct: the oldest pending message is in every page, the reserved slots are filled,
  one chatty peer cannot crowd another out.
- **Delivery.** The render is synchronous with zero network, so the digest is a cache that other hooks
  overwrite, and the watermark is pushed by a later hook. Correct: watermark monotone and ahead of the
  relay's, only rendered items remembered, nothing lost, nothing shown twice.
- **Outbox.** Unlocked whole-file rewrites and a transport whose answer may be lost. Correct: what was
  reported posted is posted, what was reported queued is queued, sent or dropped for a counted reason,
  order is kept, an entry leaves only under its own binding, a refusal stops the session.
- **State branch.** Several clones push one branch without force, several processes per clone share one
  lock file, processes are killed, answers lost. Correct: one batch at a time, the branch only grows, no
  second root, a reported success is on the remote, what is not there is marked and arrives at last.
- **Own claims.** A member's file, the relay's table and the peers' caches each hold a copy of a claim, and
  beats, tool hooks and session starts write back rows they read before. Correct: what is released stays
  released, the age that decides a double claim never gets younger, two members are not both told to go on.
- **Lifecycle.** Sessions of one project share sentinel files, and hosts differ in whether they export a
  session id and run a monitor. Correct: a rest lasts and silences only its own session, and a session that
  works is seen as online with or without a monitor.
- **Guard and opt-in.** A verdict on visibility is cached, prompts wait for a human, and the file with the
  keys is written before .gitignore knows. Correct: a push follows a fresh private verdict or the
  confirmation that fits, a leak keeps demanding rotation, a withheld file is not committed.
- **Shard scan.** Two carriers of the same records are merged under a cap within the deadline of a hook.
  Correct: what the caps leave out is counted, and the block, up to its own cap and with the "+N more" it
  announces, is never shorter than the working tree's.

`PROJECT.json` "hazards" has the list by source line, each with the properties that cover it or the
reason none does.

## 2. Modules and how they correspond to the code

### The relay: `RelayStore`, `RelayMembers`, `RelayClaims`, `RelayStream`, composed by `Relay`

`RelayStore` declares the tables as variables (`members`, `presence`, `claims`, `messages`, the meta keys
`enroll`, `nextSeq`, `phase`) and what every handler reads from them (`AuthMember`, `AuthEnroll`,
`ExpireClaims`). A handler that authenticates and writes in one stretch is one action. A handler that
awaits a key derivation is two: `JoinStart`/`JoinFinish`, `RotateStart`/`RotateFinish`,
`RebindStart`/`RebindFinish`, with a record in `inflight` in between, so that any number of them overlap
with one another and with every other handler. Time is `clock`; a handler acts on an instant of
`Arrivals`, up to `MaxLag` behind. Secrets and tokens are numbers in minting order; `minted` provides
fresh ones. A workspace that is destroyed drops all tables; handlers suspended at that moment resume into
an error (`ResumeDestroyed`).

| Operation in the code | Action |
|---|---|
| #init, #destroy, dispatch on no workspace | `InitWorkspace`, `Destroy`, `NotFound` |
| #join, #rotate, #memberRebind | the pairs above |
| #memberRemove | `MemberRemove` |
| #heartbeat, #claim, #release with #expireClaims | `Heartbeat`, `Claim` (`ClaimRenewal`, `ClaimGranted`, `ClaimRefused`), `Release` |
| #post with prune, #cursor, #purge | `Post`, `CommitCursor`, `Purge` |
| #sync | `RelaySync` (it writes nothing) |

`Lease` is the abstract specification of what the claim handlers promise: a subject is free or held by one
member with an age, changes hands only by being free in between, and keeps its age while it is held. It has
no request, no clock and no table. `Relay` instantiates it (`Promise`) with a row of the table that is past
its expiry, or whose owner left, read as free; the property `ImplementsLease` is its specification.

### Selection: `FairSelect`, `FairLoop`, `RelaySync`

`FairSelect` states what the selection chooses, without a loop: the items are ordered by round and by
their sender's oldest item, and the first `budget` are taken. `FairLoop` is the code's loop step by step.
The run `fair` shows that the loop computes the statement for every input inside its bounds, the theorem
`LoopChoosesFairly` for every input. `Sorted` is the one sort of the loop: by place, without recursion.
`RelaySync` builds the page of a sync (`Candidates`, `Page`) on `FairSelect`, as `#sync` does with its two
bounded reads.

### Delivery: `Delivery` (extends `RelaySync`)

One member and its peers' stream. Variables are the files: `digest`, `seen`, `watermark`, `commitDue`
(pending_cursor_commit), `marker`; on the relay, `stream` and `cursor`. `hook` has what each refresher
(SessionStart, PostToolUse) is doing, `turn` what UserPromptSubmit is doing. A refresh reads (`Ask`), gets
an answer and overwrites the digest (`Store`), pushes (`Push`) and takes down the flag (`Acknowledge`); a
turn prints a block (`Show`), rewrites the digest (`Carry`), moves the watermark (`Advance`) and raises the
flag (`RaiseFlag`). `Kill` stops a hook between any two of them. The unlocked rewrite of a single file is
one step here; that races on a single file lose updates is the subject of `Outbox`.

### Outbox: `Outbox`

Variables are state.json (`state`: counter and binding), queue.json (`queue`: binding, entries, dropped
count) and session.json (`latch`: the session it is of and its posting_stopped). Each command belongs to a
session and walks as `send` does: the counter (`ReadCounter`, `WriteCounter`), the latch as it was read at the
start (`Blocked`), the drain, its own envelope, and on silent failure the enqueue. Every read and every write
of a file is a step of its own, so other processes come between any two of them:

| Code | Steps |
|---|---|
| `drainQueue` asks `size()` (`bin/handshake.js:386`) | `Look` |
| `reconcileBinding` (`state.js:608`), in a drain and in an enqueue | `ReconcileRead`, `ReconcileWrite` |
| `sweep` (`state.js:624`) | `SweepRead`, `SweepWrite` |
| the queue that the drain goes through (`state.js:673`) | `OpenQueue`, then `DrainNext`, `Transmit` and an answer per entry, `DrainEnds` |
| `enqueue` (`state.js:639`, binding stamped at `:653`) | `EnqueueRead`, `EnqueueWrite`; `EnqueueFails` where any of it throws, which `bin/handshake.js:377` swallows |
| `session.save` | `Save`: the flags as the command knows them, over those of whatever session is in the file |

The relay is external to the module and is its log with the `(member, sender_seq)` idempotence that
`RelayStream` has. `Transmit` decides whether the envelope arrives; the answer may still be lost. Histories:
`shared` says that two writers of the files have run at once, `crossed` that commands of two bindings have,
`unkept` holds the items whose enqueue failed, and `refused` the session that was refused until another
session saves its flags.

### State branch: `StateBranch`

A commit is its history: the sequence of trees from the root to its own; a ref is a commit and an absent
ref the empty history, so "is an ancestor of" is `IsPrefix`. A tree gives each clone's records. A process
moves through `lock`, `fetch`, `build`, `expect`, `move`, `push`, `release`, `settle` as `runBeat` and
`stateBatch` do. Every failure the code distinguishes is an action with its outcome
(`Failure`). `Busy` and `Overlap` say whether commands append while a batch is under way or at the same
time as each other. Abstractions: the beat record and the marker are written in one step (`Settle`);
author and commit times are not part of a commit's identity, so two commits with the same history are one;
the order of a shard's records is left out; the remote branch is not deleted or rewritten by hand.

### Own claims: `OwnClaims`

`own` is own_claims of each member's state file, `cache` its peers.json. The transport is a lease table
(`relayed`) or the last presence of each member (ntfy), both external and as small as the clients need; what
the relay does to its table is in `RelayClaims`. Everything the code awaits splits an action in two: what a
command, a tool hook, a beat or a session start read before is in `command`, `renewing`, `adopting`. On ntfy a
presence is built from the own rows (`Build`, in `ClaimAnswered` and `BeatPost`) and then waits in `bodies`: in
the await of its send, behind the drain of the queue, or in the queue itself (`bin/handshake.js:375-378`,
`state.js:684`). It arrives at any later time, after newer ones and more than once (`Deliver`), or never
(`Undelivered`). A release is under way in `dropping` from when the relay drops the lease (`ReleaseAtRelay`) to
its answer (`ReleaseAnswered`, `ReleaseUnanswered`), and on ntfy from when the own row goes (`ReleaseOwn`) until
a presence without the claim has arrived; only then is it `released` (`Heard`), and in `overlapped` if rows or
presences read before are still under way. `ClaimUnanswered` is a lost call, `StateLost` a state file that reads
as empty. One key stands for one subject; overlap of subjects is not modelled.

### Lifecycle: `SessionLife`

Ages of the files `monitor.alive`, `stop.beat` and of each monitor's last beat saturate at the bound they
are compared with. `host` is what the host exports as a session id: one per session, one pinned id, or none.
`Begin` (in `Start` and `Resume`) is SessionStart with its role decision and the first tick of the monitor,
`StartAgain` a SessionStart within a session, `MonitorQuits` and `MonitorPoll` a poll, `Stop` the gates of the
Stop hook, `End` SessionEnd with its sweep, `Killed` an end without it.

A beat is three steps, as in the code: the monitor or the hook decides on it and spawns the CLI (`due`), the CLI
reads session.json and its latch (`CliStarts`, `due` to `posting`), and the post is answered, fails or runs out
of time (`CliEnds`). Between them sessions rest, end and are killed, and what is under way goes on. `Reports` is
what the CLI then makes of the answer, and it saves the session.json it read before the call. `rest` is its two
writes, `RestDisarms` and `RestLatches`; a session between them is in `resting`. `before` records the beats that
were under way when the session rested.

### Guard and opt-in: `PublishGate`

The actions are the commands and hooks that read or write `repo_guard`, the opt-in record, secret.json and
the managed block of .gitignore, beside what a human does: `SetRemote`, `SetVisibility`, `Commit`. `pair`
waits in `prompt` while everything else goes on, a batch that passed the gate waits in `batch`, and
`WriteGuardedFile`/`EnsureGitignore` are apart, since the writer can be killed in between (`KillWriter`).

### Shard scan: `ShardScan`

A record is its stamp, a shard a set of stamps. A session start scans the tree and caches the scan, fetches,
and scans the ref over it, or reads the cache and writes it back with a note (`NoteRead`, `NoteWrite`). `look`
is what the scan of the working tree met: whether its listing worked and which shards it could not read, both
of which the code takes for emptiness (`shard-scan.js:331`, `:371`). `Cut` are the shards beyond MAX_SHARDS. A
prompt shows the block of its own session's cache, once: LEARNED_CAP entries over all members (which of the
cached ones is the ranking's choice and is left out) and the number of the others, "+N more". Several sessions
share the cache file.

MC modules define only symmetry sets, bounds of a run (`OneConcern`, `LateTick`, `Sharing`,
`OneAtATime`, `FewUnderWay`, `OneTrouble`) and the constants a `.cfg` cannot write. Operators named
`X_Something` next to an operator `X` are deviations: plausible bugs of that code. They are used by no
action; `PROJECT.json` "mutants" substitutes each for its operator to show that the property it names can
fail.

## 3. Runs

| Run | Checks | Shows |
|---|---|---|
| `relay` | TypeOK, NamesUnique, RemovalFinal, RemovedHoldNothing | Joins, rotations, rebinds and removals overlapping at their hash. The check after the await is what makes names unique and removals final. |
| | ImplementsLease | Claims, renewals, releases, heartbeats and removals, with handlers that act on an older `now`: each step is one of `Lease` or a stutter. |
| | CursorBehindStream, StreamKeys | Posts with repeated client seqs, pruning, cursors, and purge, which keeps next_seq. |
| `fair` | ChoosesFairly, NobodyBuried | The loop agrees with the statement, and lets no sender with routine messages left over fall behind another's. |
| `delivery_overlap` | RelayFollows | Holds however hooks overlap and die. |
| `delivery_calm` | FloorIsFilled | Every stream of four messages of two senders and two kinds: the page at each cursor. |
| | NoneLost, ShownOnce, LagIsFlagged, Delivered | What a user expects holds when hooks do not overlap, blocks are not trimmed and messages are not stale; NoneLost and Delivered also need that the selection skips nothing (`InOrder`). |
| `delivery_carry` | NoneLost (violated) | Section 7. |
| `outbox` | TypeOK, HonestSent, Accounted, InLine, RepeatsOnlyAfterLoss, LatchHolds, OwnBindingOnly | Commands of two sessions, a hook that rewrites state.json, a change of binding at any time, a transport that fails, refuses and loses answers, failed enqueues, expiry and the cap. OwnBindingOnly holds until commands of two bindings have run at once (`~crossed`), the others but TypeOK until two writers have (`~shared`); section 7 says what happens then. |
| `branch_calm` | OneBatch, OkIsPublished, LateNotLost, NoSecondRoot | Two clones, failing remote, lost answers; no killed process and no append during a batch. |
| `branch_race` | PublishedStays, Drained | Appends at any time, a killed process and the race for its lock, up to two lock holders in one clone beside a peer that pushes: nothing leaves the remote and every record arrives. |
| `claims` | ReleasedStays, NeverBothKeep, AgeOnlyRewinds | Relay and ntfy, two members: commands, beats, tool hooks and session starts in any order, presences that arrive late, twice or never, releases heard and not answered, lost calls, a lost state file, expiry. |
| `sessions` | NoInheritedSilence, RestIsQuiet, KeepsBeating | A session with a monitor, one without and a child, on a host that names sessions and on one that does not: starts, rests half done, refusals, kills and ends in any order, with up to two beats under way across them. |
| `gate` | PushesWhereProven, LeakDemandsRotation, CommittedAsMarked | Two GitHub remotes, one other and none, with visibility, remote and commits changing while prompts, batches and writers wait. |
| `scan` | NothingLostSilently, NeverShorter, BlockWaits | Shards of three members in tree and ref, of which two are read: foreign commits, failed listings and fetches, unread shards in either carrier and kills, for two sessions. |

`CHECK_DEADLOCK FALSE` is set where the system may be done: the loop of `fair`, a finite number of items
(`Outbox`), of records (`StateBranch`) or of sessions that start (`ShardScan`). The other modules have
commands, clocks or prompts forever and keep the deadlock check. `TypeOK` of the modules whose run does not
name it holds too; a run spends its time on what can go wrong.

## 4. Bounds

| Model | Bounds | Why enough |
|---|---|---|
| Relay | 3 ids and names, MAX_MEMBERS 2, 2 suspended handlers, clock 2, lag 1, MAX_CLAIMS 1 of 2 subjects, MESSAGE_MAX 2, 3 seqs | A third join meets a full roster; two joins of one name and two rotations overlap; a second claim meets a full table; a lease lapses while a late handler still sees it alive; a third post prunes. `OneConcern` keeps reissued credentials, leases and messages from varying together: handlers of different tables share only the roster, and purge and destroy. The theorems of section 6 hold without it and for all values. |
| FairLoop | up to 4 candidates, 3 senders, 2 types, cap 0–4, floor 0–2 | All ways four items spread over three groups, with budgets below, at and above. |
| Delivery | 3–4 messages, cap 2, floor 1, window 2, block 1–2 items, clock 0–1 with skew 0 | A page, one item left over and one beyond the window; one tick makes a message stale; in `delivery_overlap` it comes once two messages are there (`LateTick`). |
| Outbox | 3 items (= commands in all), 2 processes of 2 sessions, 1 hook, queue cap 2, one rebind | The cap drops an entry, a second drain follows a failed one, a second session saves its flags, two drains overlap, and an entry meets another binding at every read of the queue. `Sharing`: the hook holds what it read only while the first item is under way; commands at one time are of one session; once two writers have run at once, one lost answer, no expiry and no loud refusal; nothing once `crossed`. The theorems of section 6 hold without it. |
| StateBranch | 2 clones, 3 processes, 2–3 records, 1–2 attempts, 0–1 kills, 0–1 failures | A rebuild after a peer's push and its exhaustion; a stale lock with two processes after it; one failure at every point where a step can fail. |
| OwnClaims | 2 members, 1 subject, time to live 2, clock 3, 2 claims or losses, 2 presences of a member | A claim of each member or two of one, expiry of the first while a row of it is held, re-adoption of an older age, and an old presence that arrives after a newer one. `FewUnderWay`: of calls, releases, rows in hand and presences, one of each member at a time or three of one, and two once a claim has come back. The theorems hold without it. |
| SessionLife | 3 sessions, one with a monitor, one a child; keepalive and freshness 1; 2 beats under way; hosts with ids and without | Ages saturate, so time is unbounded; two parents and a child meet at every sentinel, with the monitor's beat and a Stop hook's, or two of Stop hooks, across a rest. The third kind of host, the pinned id, and any number of beats are in the proofs. |
| PublishGate | 2 GitHub remotes, 1 other, time to live 1, batch of 1 tick | A verdict of one remote outlives a change to another; a batch is caught by a flip. Ages saturate. `OneAtATime`: the guarded file and the opt-in meet only in `repo_guard`. |
| ShardScan | 2 sessions, 3 members, 2 stamps, MAX_SHARDS 2, MAX_RECORDS_PER_SHARD 1, LEARNED_CAP 1 | A record newer in the tree, in the ref or in both, one that the cap drops in each half and in the union, a shard beyond the limit in either carrier, and a block that does not show every member. `OneTrouble`: one of a failed listing, an unreadable shard, another's commit and a missing opt-in at a time. The theorems hold without it. |

`MaxClock`, `MaxLag`, `MaxSeq`, `MaxClientSeq`, `MaxMinted`, `MaxInflight`, `MaxBinding`, `MaxCrashes`,
`MaxFailures`, `MaxCommands`, `MaxBodies` and `MaxBeats` are bounds of the exploration; the other constants are limits the code has.

## 5. Fairness

- `Delivery`: weak fairness for a hook that is under way (it runs on or is stopped) and for a turn that has
  started; strong fairness for a PostToolUse refresh starting, for its answer arriving (`Store`, enabled
  when the refresh has asked), and for a prompt being submitted. The session is in use, and the relay is not
  unreachable every single time. Weak fairness would not do: the start of a hook is disabled while another
  one runs. Nothing is assumed of SessionStart, of Kill or of peers.
- `StateBranch`: weak fairness for a minute passing, a dead process's lock growing old, a process asking
  for a batch (the monitor does every beat, and Stop hooks without it), and the batch going on.
  Failures, kills and appends are not fair and are bounded in number: a remote that always fails never
  gets the record. A batch stays enabled while it is under way, so weak fairness is enough.
- `SessionLife`: weak fairness for time passing, for *some* monitor polling (an interval timer), for *some*
  Stop hook of a running session (turns go on) and for *some* CLI going on (its call has a time limit);
  strong fairness for a post that is answered, since a transport may fail many times but not for ever. No
  single session, monitor or beat is promised a step. Nothing is assumed of starts, rests, ends, kills,
  monitors that quit, or children.

## 6. Proofs

TLAPS proves these for every value of the constants.

| Module | Theorems | Rest on |
|---|---|---|
| `RelayProofs` | `TypeCorrect`, `NamesStayUnique`, `RemovalIsFinal`, `RosterStaysBounded` | `RosterInv`: besides unique names, that an id with a suspended join has no row and no second one, and that a row that is absent has no name. Name and count are checked in the stretch that inserts, so uniqueness needs no more; removal is final because a suspended rebind reads the row again. |
| `RelayProofs`, the leases | `LeasesStayInThePast`, `RemovedMembersHoldNothing`, `TableImplementsLease`, `ClaimsStayBounded` | A *fate* lemma per operation says which of freed, kept, renewed or new each row becomes. `HeldInv` relates owners to the roster, `RowsInv` dates to the clock, `SizeInv` the number of held rows, by cardinality facts on finite sets. `TableImplementsLease` is the refinement: under `RowsInv` each fate is a `Keep`, `Take` or `Leave` of `Lease`, and it needs that a late `now` never sees a live lease as lapsed: expiry is monotone in time. |
| `RelayProofs`, the stream | `StreamKeysHold`, `CursorsStayBehind`, `SeqsGrow`, `StreamStaysBounded` | `StreamInv` and `AbsentUnread` (a row not inserted yet has cursor 0, so that a join does not move a watermark back). |
| `DeliveryProofs`, the page | `PageWithinCap`, `OldestIsInPage`, `FloorIsInPage`; of the specification `OldestAlwaysAnswered`, `WarningsAlwaysAnswered` | The order of the round robin is a strict total order on candidates with distinct seqs, so distinct items have distinct positions: at most `budget` are below `budget` (`RoundRobinWithinBudget`) and, by pigeonhole, as many as there are items or places (`PlacesFill`, hence `RoundRobinFills`). The oldest pending item has round 0 and the oldest sender in whichever pass it falls. The reserved slots are filled from the candidates or, with too few of them in the window, by the second read. |
| `DeliveryProofs`, the loop | `LoopChoosesFairly`, `LoopBuriesNobody`, `PageIsTheLoops`, `RoundsNeverRunOut` | `LoopInv`: what a pass has pushed is `Given`, the earlier rounds and of this one the groups before the index. `SortedIs` makes the place of an item in its group its round (`GroupIs`) and that of a group its `Seat` by oldest item (`OrderIs`), so nothing outside `Given` precedes anything in it, and when the pass ends it has the size of the budget or is everything: `PrefixIsRoundRobin` says that only one set is so. A round that pushed nothing is past the last because rounds have no gaps (`RoundsFollow`). Nobody is buried: a sender with a leftover has had every round before the last that anyone got. |
| `DeliveryProofs`, the reader | `DeliveryTypes`, `WatermarkNeverBack`, `RelayStaysBehind`, `WatermarkOnlyFetched`; under `Unhurried` (hooks do not overlap, no turn is killed) `LagIsAlwaysFlagged`, `MessagesAreShownOnce`, `NothingIsLost` | `CursorsFetched`: the digest's cursor, and the one a turn holds, is absent or was fetched. `TurnsAlone`, and with it `LagKnown` (a push the relay took is of the watermark of now) and `Remembered` (nothing rendered is in the digest or carried over, and a refresh has read the dedupe memory as it is). `NothingSkipped`: everything up to a cursor on its way to the watermark was shown or is in the digest that brought it; one sender without warnings (`InOrder`) makes each page a prefix of what is pending, which keeps it so (`PageIsPrefix`, `Gapless`). `NothingIsLost` needs `Whole` as well: no block trimmed, no message stale. |
| `OutboxProofs` | `OutboxTypes`; until commands of two bindings have run at once `BoundToItsTransport`; until two writers have `SentMeansPosted`, `QueuedIsAccounted`, `QueueKeepsOrder`, `RepeatsAreUnheard`, `RefusalStands` | `BindingInv` is `~crossed => Homely`: the commands at work have one binding (`OneBinding`), every queue document, the file's and each command's copy, holds only entries of its own binding (`Homed`), and a command behind its reconcile finds the file and its copy under its own (`OwnHome`), whatever other commands of that binding write in between. The rest is `Orderly`, which is `~shared =>` the conjunction of `Alone` (one writer at a time), `Reported` (what is told queued is in the line or was not kept), `Numbers` (no number on the relay is above the counter), `Honest`, `CopyIsQueue` (a drain's copy is the file, and one about to be written lacks only what expired), `Lined` (the queue is in the order of the commands, and what left it was sent from it or dropped with a count), `Heard` and `Latched` (a command of the refused session has read so). What reconcile, sweep, cap and requeue do to a sequence of any length is one relation, `Thins`: entries may go, none changes place; `Nth` is the enumeration by which the sweep keeps its order (`RankGrows`, `NthCounts`). |
| `StateBranchProofs` | `BranchTypes`, `PublishedRecordsStay`, `OneBatchUnlessKilled`, `NoSecondRootUnlessKilled`, `OkMeansPublished`, `LateRecordsAreMarked` | `WritersAgree`: what an append has read of the shard is what is in it, so shards only grow. `HistoriesSound`: a history in use, at any step of any batch, only adds records and none that is not on disk; the remote only moves to extensions of itself (`RemoteGrows`), so `PublishedRecordsStay` holds with kills, stale locks and two batches in one clone. `LockHeld`, `RootGuarded`, `Carried` (a batch that will say ok pushes what it read) and `LateMarked` (one that clears the marker carries the whole shard) are the invariants of the others. |
| `PublishGateProofs` | `GateTypes`, `BatchesArePushedWhereProven`, `LeaksKeepDemanding`, `SecretsAreCommittedAsMarked` | `PrivateWasProven`: a private verdict young enough to be served is of a repository that has been public for at most one step longer than the verdict is old (it may turn public right after the probe). The gate adds the batch's time to it (`BatchProven`), and for the other arms `ConfirmationTyped`: an arm is open only if its confirmation was typed last. `BlockFollowsFile` ties .gitignore to the guarded file between writers. |
| `OwnClaimsProofs` | `OwnTypes`, `ReleasedClaimsStay`, `AgesOnlyRewind`, `OneOfTwoYields` | `Forgotten`: after a release that was heard with nothing under way, no copy of the claim is left in the file, in a process, in a presence built or queued, or on the transport, and only a new claim makes one. Needs that copies are the member's own and one per subject (`Single`) and that a workspace has one transport. `OwnFate` says what a step makes of a row, `CarryKeeps` that a body which becomes a presence adds nothing to what the body held. `OneOfTwoYields`: no copy of a claim is from the future (`Dated`), and until a claim comes back with an earlier age (`revived`) a live own row is no older than any copy of it, in a presence of any age, with a peer or on its way there (`AgesLead`, `UpTo`). Each of two rivals then sees the other at most as young as it is, and the tie-break cannot favour both. |
| `SessionLifeProofs` | `SessionTypes`, `SilenceIsNotInherited`, `RestsAreQuiet` | `SilenceOwned`: where the host names sessions, a record that stops one names a session that rested or was refused (`StoppedGrows`). `RestHolds`: on such a host the last rest is kept by its disarm, which no other session may sweep, so that no beat is decided on after it (`Disarmed`), and every beat of the session under way is one of those before its end; elsewhere by the latch, which all sessions share there, and with no call posting no stale copy of session.json is left that could be saved over it. |
| `ShardScanProofs` | `ScanTypes`, `WhatIsMissingIsCounted`, `BlocksAreNeverShorter`, `BlocksWait` | `CachesSound`: the cache, and every copy of it a hook holds, is empty or of a scan whose counts cover what it lacks of what that scan could read (`look`) and of the shards beyond the limit of each carrier (`CutIsCounted`; `Total` is the size of a set of member-stamp pairs, so `TotalSplits` adds disjoint parts), and which gives each member at least as many records as its scan of the working tree and at most the cap. `NewestKeeps` says how many the cap keeps, for any finite shard; `MergeCounts` that the union of the shards read loses no more than it counts; `TotalGrows` sums the members' parts, so that the block over all of them, cut at its cap with the rest counted, is no shorter than the tree's. `OwnCache`, for `BlocksWait`: a session alone finds its own scan in the cache and in its hand. |

Assumptions: `NumbersAssumption` and `NamesAssumption` (limits are naturals; the null values are not in the
sets they stand beside), `SyncAssumption` (`SYNC_RESERVED_SLOTS < SYNC_FETCH_CAP`, which `#sync` has as 4
and 20), `DeliveryAssumption`, `OutboxAssumption`, `BranchAssumption`, `GateAssumption`, `OwnAssumption`,
`SessionAssumption`, `FairLoopAssumption`, `ScanAssumption` (the constants are numbers and ids of their kind; Fresh, Keep, TTL and MaxBeats are at
least one; a process is not named like a free lock; members and stamps of a scan are finite). TLC evaluates each in the runs of its module. No theorem
bounds the number of members, clones, processes, messages or records.

Hypotheses. The results of `Outbox`, `StateBranch` and of the reader that hold only while writers, commands,
hooks or kills keep out of each other's way say so in the statement: `Unhurried`, `~shared` (part of the
properties), `~crossed`, `~Overlap`, `MaxCrashes = 0`, `~Busy`. So do the exemptions inside the others: `unkept`
items, `overlapped` releases, beats `before` a rest and rests not counted, scans that could not look. They are the conditions of section 7, and the counterexample
TLC gives without each is described there. None is a property of the code; each is a situation the code
does not exclude and in which it does less.

Only model-checked: liveness (`Delivered`, `Drained`, `KeepsBeating`), which is out of the prover's reach,
as are ENABLED, induction over data and RECURSIVE operators; no module declares one. Every other property of
a passing run is a theorem. `PageIsTheLoops` speaks of the end of a loop; that a loop ends is in none of the
properties, but `RoundsNeverRunOut` shows that the model's bound on rounds is not what stops it.

## 7. What the runs found

One run, `delivery_carry`, expects a violation: items carried over because the block was full are overwritten
by the next refresh (`sync.js:77`, against the comment at `user-prompt-submit.js:101-103`; quoted in
`PROJECT.json` "findings").

Elsewhere the condition of a property, or the bound of its run, is where the code does less than a reader
would expect. Dropping the condition in the second column breaks the property.

| Property | Condition | What happens without it |
|---|---|---|
| ShownOnce, LagIsFlagged | `Overlapping = FALSE` | A refresh that asked before a turn and stores after it brings rendered items back; the push of an older watermark takes down the flag of a newer one. |
| NoneLost | `InOrder` | The fair selection may skip a lower seq while `next_cursor` is the highest of the page, so a pending message may fall behind the watermark unseen. |
| Delivered | `MaxClock = 0` | A page full of stale messages is rejected whole and does not move the cursor; fresh ones behind it are not reached. |
| OwnBindingOnly | `~crossed` | The binding is compared once (`state.js:608`), and the queue is read again to sweep (`:624`), to drain (`:673`) and to enqueue (`:639`, stamped with the command's binding at `:653`). A command of a newer binding that rewrites the file in between has its entries sent, or stamped, under the older one. |
| Accounted | `unkept` | An enqueue that throws is swallowed, and the command still says `queued: true` (`bin/handshake.js:377-378`): the message is nowhere. |
| Accounted, InLine | `~shared` | A drain writes back the queue.json it read before its awaits (`state.js:702`): an entry queued in between is gone and in no count, where `docs/PROTOCOL.md` 10.3 has every drop reported. |
| HonestSent | `~shared` | The unlocked rewrite of state.json by a hook (`state.js:322`) takes `sender_seq` back; the next message is answered as a duplicate and reported as posted. |
| LatchHolds | `refused` | session.json is of one session: a command of another finds no flags, and its first save replaces the file (`state.js:547-550`), so the refused session posts again. No overlap is needed for it. |
| LatchHolds | `~shared` | A command that counts a silent failure saves the session flags as it read them, over a latch set since. |
| RepeatsOnlyAfterLoss | the loss | An entry whose answer was lost is sent again under a new `sender_seq`, so the relay stores it twice. |
| OneBatch | `MaxCrashes = 0` | Two processes find a stale lock and the second unlinks the lock the first has just taken (`state-branch.js:545-548`). A live holder older than LOCK_STALE_MS is taken for dead in the same way. `branch_race` shows what the first does to the remote: nothing leaves it. |
| LateNotLost | `Busy = FALSE` | A record appended during a batch loses its marker to a batch that did not carry it. |
| PublishedStays | `Overlap = FALSE` | Two appends to one shard (`workspace-files.js:381`, an unlocked read and rename): a record that is already published is overwritten and leaves the branch with the next batch. |
| ReleasedStays | `overlapped` | A beat, tool hook or claim answer that read the claim before a release writes it back after; the relay then has no lease for it. On ntfy a presence built before the release, or queued, arrives after the one without the claim, and the next session start re-adopts the claim from it (`sync.js:132-160`). |
| NeverBothKeep | `revived` | addOwnClaim keeps the age of an *expired* row (`state.js:448`), so a new claim of the subject wins the tie-break against a peer who holds it. A beat (`heartbeat.js:487`) or a session start that writes back a row that expired under it does the same; the condition did not name these two until the proof of `OneOfTwoYields` failed there, and TLC with a longer clock confirmed them. |
| AgeOnlyRewinds | live rows | An expired row is not rewound by re-adoption, even where the transport remembers an earlier age. |
| KeepsBeating | `Sources` without `compact` | In a session without a monitor, SessionStart with source `compact` records a parent as a child (`lib/session.js:25`), and its Stop hook no longer beats. |
| RestIsQuiet | `before` | A monitor or Stop hook that has spawned its CLI before the rest awaits it (`heartbeat.js:150-246`): its presence is posted after the rest. |
| RestIsQuiet | rests not counted | Where the host exports no id of the session's own, a call that has passed the latch when the rest writes it may fail and save the session.json it read before over it. The Stop hook, which the disarm does not name there, then beats again. |
| NoInheritedSilence | `host = "ids"` | Where the host exports no id the CLI acts under one constant id, and a refusal latched under it is found by every later session's commands. |
| PushesWhereProven | `batch.of`, `BeatTicks` | The verdict and the opt-in name no remote (`repo.js:257-266`): after `git remote set-url` a batch goes to the new one on the old one's proof until the verdict's time is over. A batch under way also outlives a revocation. |
| LeakDemandsRotation | a guard ran on the leak | After a scrub, sync no longer looks at a secret that git still tracks. |
| CommittedAsMarked | `writing`, `torn` | secret.json is on disk before .gitignore hides it (`workspace-files.js:180-181`); a commit, or a kill, in between takes it up. |
| NothingLostSilently | `look` | An unreadable shard of the working tree reads as empty (`shard-scan.js:371`) and a failed listing as no shards (`:331`), and neither is counted; only the ref's are. |
| NothingLostSilently | each carrier by itself | The union's count of shards left out is the larger of the two (`shard-scan.js:585`), and its comment says that the union can drop no more. The carriers may leave out different ones: with a limit of one, a tree of a, b and a ref of a, c lose b and c, and the count is one. |
| NeverShorter | all members together | The block has LEARNED_CAP = 3 entries over all members, ranked (`render.js:305`, `:414-436`): records of the ref may take the places of a member's that are in the working tree, which are then in "+N more". |
| BlockWaits | no other session has started | Two sessions share knowledge.json: the scan of the second replaces the first's before its prompt, which then shows no block. A first prompt during the fetch latches the tree's block and the ref's is not shown. |

`OneBatch`, `OkIsPublished`, `LateNotLost` and `NoSecondRoot` are checked with one failure of any kind and no kill,
and claimed only without kills; `PublishedStays` is run with a kill and no failure, and proved for any number of
both (`PublishedRecordsStay`).

One comment and the code differ without a run of its own. `stop.js:197-215` says that on a host without a
session id `rest` no longer stops the Stop hook's beats until the session ends. The hook does find no owner it
recognises and spawns the CLI; but the CLI acts under the constant id that `rest` latched
(`bin/handshake.js:1977`), and its adapter refuses the post (`transport-relay.js:112-119`,
`transport-ntfy.js:85`). RestIsQuiet covers such hosts and holds on them, apart from the call that crosses the
rest in the table above.

## 8. What is not modelled

- Text: filters, escaping, secret shapes, rendering, wording. Pure functions whose subject is the text.
- The relay front: stateless parsing and routing. Its checks appear as guards of the relay's actions.
- The `pre-tool-use` hook, which only reads; installers, packaging, the end-to-end harness, spikes.
- Of `Delivery`: `sync --inject-digest` by hand, the ntfy cursor, the knowledge block, the peer cache.
- Of `RelaySync`: the sync answers only messages received after the retention floor
  (`workspace.js:645-652`, `:660-666`); the model has the pruning by number only. Nothing checked reaches a
  message that old.
- Of `Outbox`: a lost state file (the counter then restarts from the Unix time), an error of a file other than
  the enqueue's, which ends the command, the latch of a second transport, report-once flags, verbs that call
  relay endpoints without an envelope.
- Of `StateBranch`: `leasePush` of work branches (no command calls it yet), a shard edited by hand, the
  rewrite of the branch by hand, a live holder of the lock older than LOCK_STALE_MS.
- Of `OwnClaims`: overlap of subjects, a claim given up by hand, claims re-posted by upgrade and migrate, the
  roster (a member who leaves has no claims on either side in `RelayClaims`), the claims that are cut from a
  presence of more than 2048 bytes, and the date at which a queued presence expires (it may at any time).
- Of `SessionLife`: the fold of child touches and the pushed delta, the presence post at SessionEnd, the
  clocks of watchdogs, saves of session.json by other commands than the beats' and `rest`. A session that is
  started again waits for the calls it left behind.
- Of `PublishGate`: the single checks of the preflight (a refusal at any time stands for them), several
  sessions' posting latches, two processes that rewrite state.json at once, and a `git ls-files` that fails:
  `repo.js:306` then answers that nothing is tracked, where the model's `HardFail` always knows.
- Of `ShardScan`: the parsing of a shard and its byte cap, the ranking inside a block and its limit in
  characters (which three entries do not reach), an author check that gets no answer, the projection of state
  records into status.
- Not yet modelled, and planned: the components of section 9.

## 9. Plan

Done, in this order: the relay core (everything else depends on what it promises), selection and delivery,
the outbox, the state branch; then the abstract lease and its refinement, own claims, the lifecycle of
sessions, guard and opt-in and the shard scan, each with its proofs. Next:

1. `AuthLimiter`: the failure windows of the workspace object and the creation limiter: check and penalty
   as separate steps, the sweep, windows at their boundary. To prove: a window that blocks is not swept.
2. `NtfyTransport`: publish and poll, the watermark by message id, duplicates and reordering; delivery over
   it against the same properties as over the relay.
3. `Verbs`: the steps of init, join, migrate, upgrade, leave and deploy, each of which may be the last that
   ran.
4. The fold of child touches and the pushed delta, beside `SessionLife`.

Each of these comes with its invariants as theorems, as the present modules do. Of the present ones there
remains that the loop of `FairLoop` ends: a measure that decreases at every step.
