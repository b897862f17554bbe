------------------------------ MODULE StateBranch ------------------------------
(***************************************************************************)
(* The state branch: each member's shard file is committed by git plumbing *)
(* and pushed to one shared branch of the remote, from several clones and, *)
(* in each clone, from several processes: the monitor or the Stop hook on  *)
(* a clock, and SessionEnd and SessionStart past it                        *)
(* (monitors/heartbeat.js stateBatch, lib/state-branch.js runBeat).        *)
(* Nothing is ever forced and nothing merged: a clone fetches, builds on   *)
(* what it fetched, pushes, and builds again when the branch has moved.    *)
(*                                                                         *)
(* A commit is its history, the trees from the root commit to its own, and *)
(* a tree gives for each clone the records of its shard.  A ref that is    *)
(* absent is the empty history.                                            *)
(***************************************************************************)
EXTENDS Naturals, Sequences, SequencesExt

CONSTANTS
  Clones,       \* clones, one member each
  Writers,      \* commands that append a record, each one its own
  Processes,    \* processes that run batches
  Home,         \* the clone each of both runs in
  Role,         \* "clock" (monitor, Stop), "end" (SessionEnd), "start" (SessionStart)
  MaxRebuilds,  \* MAX_REBUILDS
  MaxCrashes,   \* bound: processes killed inside a batch
  MaxFailures,  \* bound: steps that fail (remote unreachable, no time, refusals)
  Busy,         \* whether commands also start while a batch is under way
  Overlap       \* whether commands of one clone overlap

ASSUME BranchAssumption ==
  /\ Home \in [Processes \cup Writers -> Clones]
  /\ Role \in [Processes -> {"clock", "end", "start"}]
  /\ MaxRebuilds \in Nat \ {0} /\ MaxCrashes \in Nat /\ MaxFailures \in Nat
  /\ Busy \in BOOLEAN /\ Overlap \in BOOLEAN
  /\ Processes \cap {"free", "dead", "stale"} = {}

VARIABLES
  remote,    \* the remote's handshake/state
  tracking,  \* each clone's copy of it, as last fetched
  local,     \* each clone's own handshake/state
  disk,      \* the records in each clone's shard file
  pending,   \* each clone's late-not-lost marker (state.pending)
  beat,      \* each clone's record of the last batch (state.beat)
  heads,     \* each clone's recorded head, and whether batches are deferred
  lock,      \* each clone's batch lock file
  writer,    \* what each command is doing
  proc,      \* what each process is doing
  crashes,   \* processes killed so far
  failures   \* failed steps so far

clone == <<tracking, local, disk, pending, beat, heads, lock>>
vars == <<remote, clone, writer, proc, crashes, failures>>

NoCommit == <<>>
Tree == [Clones -> SUBSET Writers]
EmptyTree == [c \in Clones |-> {}]
TreeOf(commit) == IF commit = NoCommit THEN EmptyTree ELSE Last(commit)
Held(p) == proc[p].at \in {"fetch", "build", "expect", "move", "push", "release"}
Idle == [at |-> "idle"]
Clear_Answered(outcome) == outcome # "offline"
Clear(outcome) == outcome \in {"ok", "unchanged"}
Deferring(outcome) == outcome \in {"deferred", "offline"}
Outcomes == {"ok", "unchanged", "deferred", "offline", "rejected", "refused", "paused"}

IsCommit(h) == h \in Seq(Tree)

TypeOK ==
  /\ IsCommit(remote)
  /\ \A c \in Clones :
       /\ IsCommit(tracking[c]) /\ IsCommit(local[c]) /\ IsCommit(heads[c].head)
       /\ heads[c].deferred \in BOOLEAN
  /\ disk \in Tree /\ pending \in [Clones -> BOOLEAN]
  /\ beat \in [Clones -> [recent : BOOLEAN, offline : BOOLEAN]]
  /\ lock \in [Clones -> Processes \cup {"free", "dead", "stale"}]
  /\ writer \in [Writers -> [at : {"idle", "append", "done"}, read : SUBSET Writers]]
  /\ \A p \in Processes :
       \/ proc[p] = Idle
       \/ proc[p].at \in {"lock", "unlink", "relock"}
       \/ /\ Held(p) \/ proc[p].at = "settle"
          /\ proc[p].attempt \in 1..MaxRebuilds /\ proc[p].carried \in SUBSET Writers
          /\ \A f \in {"base", "parent", "head", "old"} : IsCommit(proc[p][f])
          /\ proc[p].outcome \in Outcomes \cup {"none"}
  /\ crashes \in 0..MaxCrashes /\ failures \in 0..MaxFailures

Init ==
  /\ remote = NoCommit
  /\ tracking = [c \in Clones |-> NoCommit] /\ local = tracking
  /\ disk = EmptyTree /\ pending = [c \in Clones |-> FALSE]
  /\ beat = [c \in Clones |-> [recent |-> FALSE, offline |-> FALSE]]
  /\ heads = [c \in Clones |-> [head |-> NoCommit, deferred |-> FALSE]]
  /\ lock = [c \in Clones |-> "free"]
  /\ writer = [w \in Writers |-> [at |-> "idle", read |-> {}]]
  /\ proc = [p \in Processes |-> Idle]
  /\ crashes = 0 /\ failures = 0

Fail == failures < MaxFailures /\ failures' = failures + 1
At(p, stage) == proc[p].at = stage
Goto(p, stage) == proc' = [proc EXCEPT ![p].at = stage]

(***************************************************************************)
(* The shard.  A verb reads it whole, writes it back with its own record   *)
(* at the end, and marks the batch as pending.                             *)
(***************************************************************************)
Quiet(c) == \A p \in Processes : Home[p] = c => proc[p] = Idle

ReadShard(w) ==
  LET c == Home[w] IN
  /\ writer[w].at = "idle"
  /\ Busy \/ Quiet(c)
  /\ Overlap \/ \A v \in Writers : Home[v] = c => writer[v].at # "append"
  /\ writer' = [writer EXCEPT ![w] = [at |-> "append", read |-> disk[c]]]
  /\ UNCHANGED <<remote, clone, proc, crashes, failures>>

AppendRecord(w) ==
  LET c == Home[w] IN
  /\ writer[w].at = "append"
  /\ Busy \/ Quiet(c)
  /\ disk' = [disk EXCEPT ![c] = writer[w].read \cup {w}]
  /\ pending' = [pending EXCEPT ![c] = TRUE]
  /\ writer' = [writer EXCEPT ![w].at = "done"]
  /\ UNCHANGED <<remote, tracking, local, beat, heads, lock, proc, crashes, failures>>

(***************************************************************************)
(* Starting a batch.  The clock holds a batch back for a minute; a forced  *)
(* one is held back only when the last one found the remote unreachable    *)
(* inside that minute; a late flush runs only when the marker is there.    *)
(***************************************************************************)
Due(p) ==
  LET b == beat[Home[p]] IN
  /\ Role[p] = "clock" => ~b.recent
  /\ Role[p] # "clock" => ~(b.recent /\ b.offline)
  /\ Role[p] = "start" => pending[Home[p]]

Fresh == [at |-> "fetch", attempt |-> 1, base |-> NoCommit, parent |-> NoCommit,
          carried |-> {}, head |-> NoCommit, old |-> NoCommit, outcome |-> "none"]

Begin(p) ==
  /\ proc[p] = Idle /\ Due(p)
  /\ proc' = [proc EXCEPT ![p] = [at |-> "lock"]]
  /\ UNCHANGED <<remote, clone, writer, crashes, failures>>

\* Too little of the wall is left: the outcome is recorded, the clock stays.
NoTimeToStart(p) ==
  /\ proc[p] = Idle /\ Due(p) /\ Fail
  /\ beat' = [beat EXCEPT ![Home[p]].offline = FALSE]
  /\ UNCHANGED <<remote, tracking, local, disk, pending, heads, lock, writer, proc, crashes>>

\* The gate refuses before the lock is tried: opted out, or visibility unproved.
GateRefuses(p) ==
  /\ At(p, "lock") /\ Fail
  /\ proc' = [proc EXCEPT ![p] = [Fresh EXCEPT !.at = "settle", !.outcome = "refused"]]
  /\ UNCHANGED <<remote, clone, writer, crashes>>

(***************************************************************************)
(* The batch lock: a file made by an exclusive create.  One older than     *)
(* LOCK_STALE_MS is a crashed holder's; it is unlinked once, by name, and  *)
(* the create tried again.                                                 *)
(***************************************************************************)
Available_Always(p) == TRUE
Available(p) == lock[Home[p]] = "free"

Acquire(p) ==
  /\ proc[p].at \in {"lock", "relock"} /\ Available(p)
  /\ lock' = [lock EXCEPT ![Home[p]] = p]
  /\ proc' = [proc EXCEPT ![p] = Fresh]
  /\ UNCHANGED <<remote, tracking, local, disk, pending, beat, heads, writer, crashes, failures>>

Removable_Never(p) == FALSE
Removable(p) == lock[Home[p]] = "stale"

Locked(p) ==
  /\ \/ At(p, "lock") /\ ~Removable(p)
     \/ At(p, "relock")
  /\ ~Available(p)
  /\ proc' = [proc EXCEPT ![p] = Idle]
  /\ UNCHANGED <<remote, clone, writer, crashes, failures>>

FindsStale(p) ==
  /\ At(p, "lock") /\ Removable(p)
  /\ Goto(p, "unlink")
  /\ UNCHANGED <<remote, clone, writer, crashes, failures>>

Unlink(p) ==
  /\ At(p, "unlink")
  /\ lock' = [lock EXCEPT ![Home[p]] = "free"]
  /\ Goto(p, "relock")
  /\ UNCHANGED <<remote, tracking, local, disk, pending, beat, heads, writer, crashes, failures>>

(***************************************************************************)
(* Ending a batch: recordHead after a push, bumpDeferred for what waits,   *)
(* and nothing for a refusal; then the lock is released.                   *)
(***************************************************************************)
Recording(outcome) == outcome = "ok"

EndsWith(p, outcome) ==
  /\ proc' = [proc EXCEPT ![p].at = "release", ![p].outcome = outcome]
  /\ heads' = CASE Recording(outcome) -> [heads EXCEPT ![Home[p]] =
                                            [head |-> proc[p].head, deferred |-> FALSE]]
                [] Deferring(outcome) -> [heads EXCEPT ![Home[p]].deferred = TRUE]
                [] OTHER -> heads

(***************************************************************************)
(* Rule 1: fetch first.  Rule 2: a root is made only when the remote ref   *)
(* is proved absent.  The parent is the local head when it contains the    *)
(* fetched one, and the fetched one otherwise.                             *)
(***************************************************************************)
ParentFor(c, base) ==
  IF local[c] # NoCommit /\ IsPrefix(base, local[c]) THEN local[c] ELSE base

Builds(p, base) ==
  proc' = [proc EXCEPT ![p].at = "build", ![p].base = base,
                       ![p].parent = ParentFor(Home[p], base)]

FetchOk(p) ==
  /\ At(p, "fetch") /\ remote # NoCommit
  /\ tracking' = [tracking EXCEPT ![Home[p]] = remote]
  /\ Builds(p, remote)
  /\ UNCHANGED <<remote, local, disk, pending, beat, heads, lock, writer, crashes, failures>>

ProvedAbsent(p) ==
  /\ At(p, "fetch") /\ remote = NoCommit
  /\ Builds(p, NoCommit)
  /\ UNCHANGED <<remote, clone, writer, crashes, failures>>

\* The fetch fails and the probe does not prove the ref absent.
MayExtend_Unproved(p) == TRUE
MayExtend(p) == local[Home[p]] # NoCommit

FetchFails(p) ==
  /\ At(p, "fetch") /\ Fail
  /\ IF MayExtend(p) THEN Builds(p, NoCommit) /\ UNCHANGED heads
                     ELSE EndsWith(p, "offline")
  /\ UNCHANGED <<remote, tracking, local, disk, pending, beat, lock, writer, crashes>>

OutOfTime(p) ==
  /\ proc[p].at \in {"fetch", "push"} /\ Fail
  /\ EndsWith(p, "deferred")
  /\ UNCHANGED <<remote, tracking, local, disk, pending, beat, lock, writer, crashes>>

(***************************************************************************)
(* Rule 3: the parent's tree with this member's shard, as the scan read    *)
(* it, and nothing else changed; no commit when the tree is the parent's.  *)
(***************************************************************************)
Seed_Empty(p) == EmptyTree
Seed(p) == TreeOf(proc[p].parent)
Written(p) == [Seed(p) EXCEPT ![Home[p]] = disk[Home[p]]]
Ahead_Never(p) == FALSE
Ahead(p) == proc[p].parent # proc[p].base

Commit(p) ==
  /\ At(p, "build") /\ Written(p) # TreeOf(proc[p].parent)
  /\ proc' = [proc EXCEPT ![p].at = "expect", ![p].carried = disk[Home[p]],
                          ![p].head = Append(proc[p].parent, Written(p))]
  /\ UNCHANGED <<remote, clone, writer, crashes, failures>>

Replay(p) ==
  /\ At(p, "build") /\ Written(p) = TreeOf(proc[p].parent) /\ Ahead(p)
  /\ proc' = [proc EXCEPT ![p].at = "push", ![p].carried = disk[Home[p]],
                          ![p].head = proc[p].parent]
  /\ UNCHANGED <<remote, clone, writer, crashes, failures>>

Unchanged(p) ==
  /\ At(p, "build") /\ Written(p) = TreeOf(proc[p].parent) /\ ~Ahead(p)
  /\ proc' = [proc EXCEPT ![p].at = "release", ![p].carried = disk[Home[p]],
                          ![p].outcome = "unchanged"]
  /\ UNCHANGED <<remote, clone, writer, crashes, failures>>

\* The shard is too large, or the scan finds a secret or cannot read the shard.
BuildRefused(p) ==
  /\ At(p, "build") /\ Fail
  /\ EndsWith(p, "refused")
  /\ UNCHANGED <<remote, tracking, local, disk, pending, beat, lock, writer, crashes>>

\* The scan runs out of its budget, the tree loses a path, or git fails.
BuildDeferred(p) ==
  /\ At(p, "build") /\ Fail
  /\ EndsWith(p, "deferred")
  /\ UNCHANGED <<remote, tracking, local, disk, pending, beat, lock, writer, crashes>>

(***************************************************************************)
(* moveRef: the branch must not be checked out; the local ref is read and  *)
(* then updated only if it still is what was read.                         *)
(***************************************************************************)
Expect(p) ==
  /\ At(p, "expect")
  /\ proc' = [proc EXCEPT ![p].at = "move", ![p].old = local[Home[p]]]
  /\ UNCHANGED <<remote, clone, writer, crashes, failures>>

Paused(p) ==
  /\ At(p, "expect") /\ Fail
  /\ EndsWith(p, "paused")
  /\ UNCHANGED <<remote, tracking, local, disk, pending, beat, lock, writer, crashes>>

MoveRef(p) ==
  /\ At(p, "move")
  /\ IF local[Home[p]] = proc[p].old
     THEN /\ local' = [local EXCEPT ![Home[p]] = proc[p].head]
          /\ Goto(p, "push") /\ UNCHANGED heads
     ELSE EndsWith(p, "deferred") /\ UNCHANGED local
  /\ UNCHANGED <<remote, tracking, disk, pending, beat, lock, writer, crashes, failures>>

(***************************************************************************)
(* The push of the local ref, a fast-forward or nothing.  Rule 4: when the *)
(* branch has moved, fetch and build again.  Rule 5: a rejection is not    *)
(* being offline.                                                          *)
(***************************************************************************)
Pushable(p) == IsPrefix(remote, local[Home[p]])

PushOk(p) ==
  /\ At(p, "push") /\ Pushable(p)
  /\ remote' = local[Home[p]]
  /\ tracking' = [tracking EXCEPT ![Home[p]] = remote']
  /\ EndsWith(p, "ok")
  /\ UNCHANGED <<local, disk, pending, beat, lock, writer, crashes, failures>>

\* The remote takes the push and the answer does not come inside the bound.
PushUnheard(p) ==
  /\ At(p, "push") /\ Pushable(p) /\ Fail
  /\ remote' = local[Home[p]]
  /\ EndsWith(p, "offline")
  /\ UNCHANGED <<tracking, local, disk, pending, beat, lock, writer, crashes>>

PushFails(p) ==
  /\ At(p, "push") /\ Fail
  /\ \E outcome \in {"offline", "rejected", "refused"} : EndsWith(p, outcome)
  /\ UNCHANGED <<remote, tracking, local, disk, pending, beat, lock, writer, crashes>>

MayRebuild(p) == proc[p].attempt < MaxRebuilds

\* The branch has moved; or, of two pushes at one instant, this one lost.
PushBehind(p) ==
  /\ At(p, "push")
  /\ \/ ~Pushable(p) /\ UNCHANGED failures
     \/ Pushable(p) /\ Fail
  /\ IF MayRebuild(p)
     THEN /\ proc' = [proc EXCEPT ![p].at = "fetch", ![p].attempt = @ + 1]
          /\ UNCHANGED heads
     ELSE EndsWith(p, "deferred")
  /\ UNCHANGED <<remote, tracking, local, disk, pending, beat, lock, writer, crashes>>

(***************************************************************************)
(* The lock file is unlinked, whosever it is; then the record of the batch *)
(* is written and the marker cleared or set.                               *)
(***************************************************************************)
Release(p) ==
  /\ At(p, "release")
  /\ lock' = [lock EXCEPT ![Home[p]] = "free"]
  /\ Goto(p, "settle")
  /\ UNCHANGED <<remote, tracking, local, disk, pending, beat, heads, writer, crashes, failures>>

Settle(p) ==
  LET c == Home[p]  outcome == proc[p].outcome IN
  /\ At(p, "settle")
  /\ beat' = [beat EXCEPT ![c] = [recent |-> TRUE, offline |-> outcome = "offline"]]
  /\ pending' = [pending EXCEPT ![c] = ~Clear(outcome)]
  /\ proc' = [proc EXCEPT ![p] = Idle]
  /\ UNCHANGED <<remote, tracking, local, disk, heads, lock, writer, crashes, failures>>

(***************************************************************************)
(* Time, and processes that are killed inside a batch.                     *)
(***************************************************************************)
MinutePasses(c) ==
  /\ beat[c].recent
  /\ beat' = [beat EXCEPT ![c].recent = FALSE]
  /\ UNCHANGED <<remote, tracking, local, disk, pending, heads, lock, writer, proc, crashes,
                 failures>>

Crash(p) ==
  /\ proc[p] # Idle /\ crashes < MaxCrashes
  /\ crashes' = crashes + 1
  /\ proc' = [proc EXCEPT ![p] = Idle]
  /\ lock' = [lock EXCEPT ![Home[p]] = IF @ = p THEN "dead" ELSE @]
  /\ UNCHANGED <<remote, tracking, local, disk, pending, beat, heads, writer, failures>>

LockAges(c) ==
  /\ lock[c] = "dead"
  /\ lock' = [lock EXCEPT ![c] = "stale"]
  /\ UNCHANGED <<remote, tracking, local, disk, pending, beat, heads, writer, proc, crashes,
                 failures>>

TakeLock(p) == Acquire(p) \/ Locked(p) \/ FindsStale(p) \/ Unlink(p)
Rebase(p) == FetchOk(p) \/ ProvedAbsent(p)
Build(p) == Commit(p) \/ Replay(p) \/ Unchanged(p)
Advance(p) == Expect(p) \/ MoveRef(p)
Push(p) == PushOk(p) \/ PushBehind(p)
Finish(p) == Release(p) \/ Settle(p)
Failure(p) == NoTimeToStart(p) \/ GateRefuses(p) \/ FetchFails(p) \/ OutOfTime(p) \/ BuildRefused(p)
              \/ BuildDeferred(p) \/ Paused(p) \/ PushUnheard(p) \/ PushFails(p)
Batch(p) == TakeLock(p) \/ Rebase(p) \/ Build(p) \/ Advance(p) \/ Push(p) \/ Finish(p)

Next ==
  \/ \E w \in Writers : ReadShard(w) \/ AppendRecord(w)
  \/ \E c \in Clones : MinutePasses(c) \/ LockAges(c)
  \/ \E p \in Processes : Begin(p) \/ Batch(p) \/ Failure(p) \/ Crash(p)

Spec == Init /\ [][Next]_vars

(***************************************************************************)
(* Fairness: the monitor or a Stop hook keeps asking for batches, minutes  *)
(* pass, a dead process's lock grows old, a batch goes on, and steps do    *)
(* not fail forever.                                                       *)
(***************************************************************************)
FairSpec ==
  /\ Spec
  /\ \A c \in Clones : WF_vars(MinutePasses(c)) /\ WF_vars(LockAges(c))
  /\ \A p \in Processes : WF_vars(Begin(p)) /\ WF_vars(Batch(p))

(***************************************************************************)
(* Properties.                                                             *)
(***************************************************************************)

\* At most one batch is under way in a clone, of the monitor's, a SessionEnd's
\* and a command's: the lock excludes the others.  Its holder is not killed in
\* this run; the takeover of a dead process's lock can let two in (README 7),
\* and it is branch_race that shows what the remote makes of them.
OneBatch ==
  \A p, q \in Processes : Home[p] = Home[q] /\ Held(p) /\ Held(q) => p = q

\* The remote branch only grows: what it held, its history still holds, and no
\* push takes a record of any member out of its tree.
PublishedStays ==
  [][/\ IsPrefix(remote, remote')
     /\ \A c \in Clones : TreeOf(remote)[c] \subseteq TreeOf(remote')[c]]_vars

\* A clone that has seen the remote branch never makes a second root, however
\* the fetches of later batches fail.
NoSecondRoot ==
  [][\A c \in Clones : tracking[c] # NoCommit /\ local'[c] # local[c] => Len(local'[c]) > 1]_vars

\* A batch that says ok or unchanged has left on the remote every record of the
\* shard it read.
OkIsPublished ==
  \A p \in Processes : proc[p].at \in {"release", "settle"} /\ Clear(proc[p].outcome) =>
    proc[p].carried \subseteq TreeOf(remote)[Home[p]]

\* While no batch is under way, a record that has not reached the remote has the
\* marker that makes the next session start commit it.
LateNotLost ==
  \A c \in Clones : Quiet(c) /\ ~(disk[c] \subseteq TreeOf(remote)[c]) => pending[c]

\* Every record reaches the remote, also one whose batch was killed in the
\* middle and left its lock behind, or used up its rebuilds against a busy peer.
\* Fetches and pushes do not fail in the run that checks this (MaxFailures).
Drained == \A w \in Writers : writer[w].at = "done" ~> w \in TreeOf(remote)[Home[w]]
================================================================================
