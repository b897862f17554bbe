--------------------------- MODULE StateBranchProofs ---------------------------
(***************************************************************************)
(* Proofs about the state branch, for any clones, commands, processes and  *)
(* number of rebuilds, kills and failures.                                 *)
(***************************************************************************)
EXTENDS StateBranch, SequenceTheorems, TLAPS

Commits == Seq(Tree)
Waiting == [at : {"idle", "lock", "unlink", "relock"}]
Running == [at : {"fetch", "build", "expect", "move", "push", "release", "settle"},
            attempt : 1..MaxRebuilds, base : Commits, parent : Commits,
            carried : SUBSET Writers, head : Commits, old : Commits,
            outcome : Outcomes \cup {"none"}]

(* The type invariant, with the domains and the shape of a process.        *)
Shape ==
  /\ remote \in Commits
  /\ tracking \in [Clones -> Commits] /\ local \in [Clones -> Commits]
  /\ heads \in [Clones -> [head : Commits, deferred : BOOLEAN]]
  /\ disk \in Tree /\ pending \in [Clones -> BOOLEAN]
  /\ beat \in [Clones -> [recent : BOOLEAN, offline : BOOLEAN]]
  /\ lock \in [Clones -> Processes \cup {"free", "dead", "stale"}]
  /\ writer \in [Writers -> [at : {"idle", "append", "done"}, read : SUBSET Writers]]
  /\ proc \in [Processes -> Waiting \cup Running]
  /\ crashes \in 0..MaxCrashes /\ failures \in 0..MaxFailures

LEMMA ShapeIsType == Shape => TypeOK
  BY DEF Shape, TypeOK, Commits, IsCommit, Waiting, Running, Held, Idle

LEMMA WrittenTree ==
  ASSUME Shape, NEW p \in Processes, proc[p] \in Running
  PROVE  Written(p) \in Tree /\ TreeOf(proc[p].parent) \in Tree
<1>1. Home[p] \in Clones
  BY BranchAssumption
<1>2. proc[p].parent \in Seq(Tree)
  BY DEF Running, Commits
<1>3. TreeOf(proc[p].parent) \in Tree
  BY <1>2 DEF TreeOf, Last, NoCommit, EmptyTree, Tree
<1>. QED
  BY <1>1, <1>3 DEF Written, Seed, Shape, Tree

(* A batch starts with nothing in hand.                                    *)
LEMMA FreshRunning ==
  LET refused == [Fresh EXCEPT !.at = "settle", !.outcome = "refused"]
  IN  /\ Fresh \in Running
      /\ refused \in Running /\ refused.parent = Fresh.parent /\ refused.head = Fresh.head
      /\ refused.at = "settle" /\ refused.outcome = "refused"
<1>1. Fresh \in Running
  BY BranchAssumption DEF Fresh, Running, NoCommit, Commits
<1>2. ASSUME NEW r \in Running
      PROVE  LET refused == [r EXCEPT !.at = "settle", !.outcome = "refused"]
             IN  /\ refused \in Running /\ refused.parent = r.parent /\ refused.head = r.head
                 /\ refused.at = "settle" /\ refused.outcome = "refused"
  BY <1>2 DEF Running, Outcomes
<1>. QED
  BY <1>1, <1>2

LEMMA ShapeInit == Init => Shape
  BY BranchAssumption DEF Init, Shape, NoCommit, EmptyTree, Tree, Commits, Idle, Waiting

LEMMA EndsWithShape ==
  ASSUME Shape, NEW p \in Processes, proc[p] \in Running, NEW outcome \in Outcomes,
         EndsWith(p, outcome)
  PROVE  /\ proc' \in [Processes -> Waiting \cup Running]
         /\ heads' \in [Clones -> [head : Commits, deferred : BOOLEAN]]
<1>1. Home[p] \in Clones
  BY BranchAssumption
<1>2. proc' \in [Processes -> Waiting \cup Running]
  BY DEF EndsWith, Shape, Running, Outcomes
<1>3. proc[p].head \in Commits
  BY DEF Running
<1>4. heads' \in [Clones -> [head : Commits, deferred : BOOLEAN]]
  BY <1>1, <1>3 DEF EndsWith, Shape, Recording, Deferring
<1>. QED
  BY <1>2, <1>4

(* The base a batch starts from decides its parent.                        *)
LEMMA BuildsShape ==
  ASSUME Shape, NEW p \in Processes, proc[p] \in Running, NEW base \in Commits, Builds(p, base)
  PROVE  proc' \in [Processes -> Waiting \cup Running]
<1>1. ParentFor(Home[p], base) \in Commits
  BY BranchAssumption DEF ParentFor, Shape
<1>. QED
  BY <1>1 DEF Builds, Shape, Running

(* Only a process that holds the lock or settles has run its batch.        *)
LEMMA AtRunning ==
  ASSUME Shape, NEW p \in Processes,
         proc[p].at \in {"fetch", "build", "expect", "move", "push", "release", "settle"}
  PROVE  proc[p] \in Running
  BY DEF Shape, Waiting

LEMMA ShapeStep == Shape /\ [Next]_vars => Shape'
<1>. SUFFICES ASSUME Shape, [Next]_vars PROVE Shape'
  OBVIOUS
<1>. USE BranchAssumption
<1>1. ASSUME NEW w \in Writers, ReadShard(w) \/ AppendRecord(w)
      PROVE  Shape'
  <2>1. CASE ReadShard(w)
    BY <2>1 DEF ReadShard, Shape, Tree, clone
  <2>2. CASE AppendRecord(w)
    BY <2>2 DEF AppendRecord, Shape, Tree
  <2>. QED
    BY <1>1, <2>1, <2>2
<1>2. ASSUME NEW c \in Clones, MinutePasses(c) \/ LockAges(c)
      PROVE  Shape'
  <2>1. CASE MinutePasses(c)
    BY <2>1 DEF MinutePasses, Shape
  <2>2. CASE LockAges(c)
    BY <2>2 DEF LockAges, Shape
  <2>. QED
    BY <1>2, <2>1, <2>2
<1>3. ASSUME NEW p \in Processes, Begin(p) \/ TakeLock(p)
      PROVE  Shape'
  <2>1. CASE Begin(p)
    BY <2>1 DEF Begin, Shape, Waiting, clone
  <2>0. CASE Locked(p)
    BY <2>0 DEF Locked, Idle, Shape, Waiting, clone
  <2>2. CASE Acquire(p)
    BY <2>2, FreshRunning DEF Acquire, Shape
  <2>3. CASE FindsStale(p) \/ Unlink(p)
    <3>1. proc[p] \in Waiting
      BY <2>3 DEF FindsStale, Unlink, At, Shape, Running
    <3>2. ASSUME NEW stage \in {"unlink", "relock"}
          PROVE  [proc EXCEPT ![p].at = stage] \in [Processes -> Waiting \cup Running]
      <4>1. [proc[p] EXCEPT !.at = stage] \in Waiting
        BY <3>1 DEF Waiting
      <4>. QED
        BY <4>1 DEF Shape
    <3>3. CASE FindsStale(p)
      BY <3>2, <3>3 DEF FindsStale, Goto, Shape, clone
    <3>4. CASE Unlink(p)
      BY <3>2, <3>4 DEF Unlink, Goto, Shape
    <3>. QED
      BY <2>3, <3>3, <3>4
  <2>. QED
    BY <1>3, <2>0, <2>1, <2>2, <2>3 DEF TakeLock
<1>4. ASSUME NEW p \in Processes, Rebase(p) \/ FetchFails(p)
      PROVE  Shape'
  <2>1. proc[p] \in Running
    BY <1>4, AtRunning DEF Rebase, FetchOk, ProvedAbsent, FetchFails, At
  <2>2. CASE FetchOk(p)
    <3>1. proc' \in [Processes -> Waiting \cup Running]
      BY <2>1, <2>2, BuildsShape DEF FetchOk, Shape
    <3>. QED
      BY <2>2, <3>1 DEF FetchOk, Shape
  <2>3. NoCommit \in Commits
    BY DEF NoCommit, Commits
  <2>4. CASE ProvedAbsent(p)
    <3>1. proc' \in [Processes -> Waiting \cup Running]
      BY <2>1, <2>3, <2>4, BuildsShape DEF ProvedAbsent
    <3>. QED
      BY <2>4, <3>1 DEF ProvedAbsent, Shape, clone
  <2>5. CASE FetchFails(p)
    <3>1. CASE Builds(p, NoCommit) /\ heads' = heads
      <4>1. proc' \in [Processes -> Waiting \cup Running]
        BY <2>1, <2>3, <3>1, BuildsShape
      <4>. QED
        BY <2>5, <3>1, <4>1 DEF FetchFails, Fail, Shape
    <3>2. CASE EndsWith(p, "offline")
      <4>1. /\ proc' \in [Processes -> Waiting \cup Running]
            /\ heads' \in [Clones -> [head : Commits, deferred : BOOLEAN]]
        BY <2>1, <3>2, EndsWithShape DEF Outcomes
      <4>. QED
        BY <2>5, <4>1 DEF FetchFails, Fail, Shape
    <3>. QED
      BY <2>5, <3>1, <3>2 DEF FetchFails
  <2>. QED
    BY <1>4, <2>2, <2>4, <2>5 DEF Rebase
<1>5. ASSUME NEW p \in Processes, Build(p) \/ Advance(p)
      PROVE  Shape'
  <2>1. proc[p] \in Running
    BY <1>5, AtRunning DEF Build, Commit, Replay, Unchanged, Advance, Expect, MoveRef, At
  <2>2. CASE Commit(p)
    <3>1. Append(proc[p].parent, Written(p)) \in Commits
      BY <2>1, WrittenTree, AppendProperties DEF Running, Commits
    <3>2. disk[Home[p]] \in SUBSET Writers
      BY DEF Shape, Tree
    <3>3. proc' \in [Processes -> Waiting \cup Running]
      BY <2>1, <2>2, <3>1, <3>2 DEF Commit, Shape, Running
    <3>. QED
      BY <2>2, <3>3 DEF Commit, Shape, clone
  <2>3. CASE Replay(p) \/ Unchanged(p)
    <3>1. disk[Home[p]] \in SUBSET Writers
      BY DEF Shape, Tree
    <3>2. CASE Replay(p)
      <4>1. proc' \in [Processes -> Waiting \cup Running]
        BY <2>1, <3>1, <3>2 DEF Replay, Shape, Running
      <4>. QED
        BY <3>2, <4>1 DEF Replay, Shape, clone
    <3>3. CASE Unchanged(p)
      <4>1. proc' \in [Processes -> Waiting \cup Running]
        BY <2>1, <3>1, <3>3 DEF Unchanged, Shape, Running, Outcomes
      <4>. QED
        BY <3>3, <4>1 DEF Unchanged, Shape, clone
    <3>. QED
      BY <2>3, <3>2, <3>3
  <2>4. CASE Expect(p)
    <3>1. proc' \in [Processes -> Waiting \cup Running]
      BY <2>1, <2>4 DEF Expect, Shape, Running
    <3>. QED
      BY <2>4, <3>1 DEF Expect, Shape, clone
  <2>5. CASE MoveRef(p)
    <3>1. CASE EndsWith(p, "deferred") /\ local' = local
      <4>1. /\ proc' \in [Processes -> Waiting \cup Running]
            /\ heads' \in [Clones -> [head : Commits, deferred : BOOLEAN]]
        BY <2>1, <3>1, EndsWithShape DEF Outcomes
      <4>. QED
        BY <2>5, <3>1, <4>1 DEF MoveRef, Shape
    <3>2. CASE /\ local' = [local EXCEPT ![Home[p]] = proc[p].head]
               /\ Goto(p, "push") /\ heads' = heads
      <4>1. proc' \in [Processes -> Waiting \cup Running]
        BY <2>1, <3>2 DEF Goto, Shape, Running
      <4>2. local' \in [Clones -> Commits]
        BY <2>1, <3>2 DEF Shape, Running
      <4>. QED
        BY <2>5, <3>2, <4>1, <4>2 DEF MoveRef, Shape
    <3>. QED
      BY <2>5, <3>1, <3>2 DEF MoveRef
  <2>. QED
    BY <1>5, <2>2, <2>3, <2>4, <2>5 DEF Build, Advance
<1>6. ASSUME NEW p \in Processes, Push(p) \/ PushUnheard(p) \/ PushFails(p)
      PROVE  Shape'
  <2>1. proc[p] \in Running
    BY <1>6, AtRunning DEF Push, PushOk, PushBehind, PushUnheard, PushFails, At
  <2>2. CASE MayRebuild(p) /\ PushBehind(p)
    <3>1. proc[p].attempt + 1 \in 1..MaxRebuilds
      BY <2>1, <2>2 DEF MayRebuild, Running
    <3>2. proc' = [proc EXCEPT ![p].at = "fetch", ![p].attempt = proc[p].attempt + 1]
          /\ heads' = heads
      BY <2>2 DEF PushBehind
    <3>3. proc' \in [Processes -> Waiting \cup Running]
      BY <2>1, <3>1, <3>2 DEF Shape, Running
    <3>. QED
      BY <2>2, <3>2, <3>3 DEF PushBehind, Fail, Shape
  <2>3. ASSUME NEW outcome \in Outcomes, EndsWith(p, outcome)
        PROVE  Shape'
    <3>1. /\ proc' \in [Processes -> Waiting \cup Running]
          /\ heads' \in [Clones -> [head : Commits, deferred : BOOLEAN]]
      BY <2>1, <2>3, EndsWithShape
    <3>2. CASE PushOk(p)
      BY <3>1, <3>2 DEF PushOk, Shape
    <3>3. CASE PushBehind(p)
      BY <3>1, <3>3 DEF PushBehind, Fail, Shape
    <3>4. CASE PushUnheard(p)
      BY <3>1, <3>4 DEF PushUnheard, Fail, Shape
    <3>5. CASE PushFails(p)
      BY <3>1, <3>5 DEF PushFails, Fail, Shape
    <3>. QED
      BY <1>6, <3>2, <3>3, <3>4, <3>5 DEF Push
  <2>. QED
    BY <1>6, <2>2, <2>3 DEF Push, PushOk, PushBehind, PushUnheard, PushFails, Outcomes
<1>7. ASSUME NEW p \in Processes, Finish(p) \/ Crash(p)
      PROVE  Shape'
  <2>1. CASE Release(p)
    <3>1. proc[p] \in Running
      BY <2>1, AtRunning DEF Release, At
    <3>2. proc' \in [Processes -> Waiting \cup Running]
      BY <2>1, <3>1 DEF Release, Goto, Shape, Running
    <3>. QED
      BY <2>1, <3>2 DEF Release, Shape
  <2>3. CASE Settle(p)
    <3>1. proc' \in [Processes -> Waiting \cup Running]
      BY <2>3 DEF Settle, Idle, Shape, Waiting
    <3>2. beat' \in [Clones -> [recent : BOOLEAN, offline : BOOLEAN]]
      BY <2>3 DEF Settle, Shape
    <3>3. pending' \in [Clones -> BOOLEAN]
      BY <2>3 DEF Settle, Clear, Shape
    <3>. QED
      BY <2>3, <3>1, <3>2, <3>3 DEF Settle, Shape
  <2>2. CASE Crash(p)
    BY <2>2 DEF Crash, Idle, Shape, Waiting
  <2>. QED
    BY <1>7, <2>1, <2>2, <2>3 DEF Finish
<1>8. ASSUME NEW p \in Processes, NoTimeToStart(p) \/ GateRefuses(p)
      PROVE  Shape'
  <2>2. [Fresh EXCEPT !.at = "settle", !.outcome = "refused"] \in Running
    BY FreshRunning
  <2>3. CASE NoTimeToStart(p)
    <3>0. Home[p] \in Clones /\ beat[Home[p]] \in [recent : BOOLEAN, offline : BOOLEAN]
      BY DEF Shape
    <3>1. beat' \in [Clones -> [recent : BOOLEAN, offline : BOOLEAN]]
      BY <2>3, <3>0 DEF NoTimeToStart, Shape
    <3>. QED
      BY <2>3, <3>1 DEF NoTimeToStart, Fail, Shape
  <2>4. CASE GateRefuses(p)
    BY <2>2, <2>4 DEF GateRefuses, Fail, Shape, clone
  <2>. QED
    BY <1>8, <2>3, <2>4
<1>9. ASSUME NEW p \in Processes,
             OutOfTime(p) \/ BuildRefused(p) \/ BuildDeferred(p) \/ Paused(p)
      PROVE  Shape'
  <2>1. proc[p] \in Running
    BY <1>9, AtRunning DEF OutOfTime, BuildRefused, BuildDeferred, Paused, At
  <2>2. \E outcome \in Outcomes : EndsWith(p, outcome)
    BY <1>9 DEF OutOfTime, BuildRefused, BuildDeferred, Paused, Outcomes
  <2>3. /\ proc' \in [Processes -> Waiting \cup Running]
        /\ heads' \in [Clones -> [head : Commits, deferred : BOOLEAN]]
    BY <2>1, <2>2, EndsWithShape
  <2>. QED
    BY <1>9, <2>3 DEF OutOfTime, BuildRefused, BuildDeferred, Paused, Fail, Shape
<1>10. CASE UNCHANGED vars
  BY <1>10 DEF vars, clone, Shape
<1>. QED
  BY <1>1, <1>2, <1>3, <1>4, <1>5, <1>6, <1>7, <1>8, <1>9, <1>10
     DEF Next, Batch, Failure

(* The type invariant of the model. *)
THEOREM BranchTypes == Spec => []TypeOK
<1>. QED
  BY ShapeInit, ShapeStep, ShapeIsType, PTL DEF Spec

-----------------------------------------------------------------------------
(* Histories as sequences.                                                 *)
LEMMA PrefixIs ==
  ASSUME NEW s \in Commits, NEW t \in Commits
  PROVE  IsPrefix(s, t) <=> Len(s) <= Len(t) /\ \A i \in 1..Len(s) : s[i] = t[i]
<1>1. \A i \in 1..Len(s) : s[i] \in Tree
  BY ElementOfSeq DEF Commits
<1>2. SubSeq(s, 1, Len(s)) = s
  BY SubSeqFull DEF Commits
<1>3. CASE Len(s) <= Len(t)
  <2>1. \A i \in 1..Len(s) : t[i] \in Tree
    BY <1>3, ElementOfSeq, LenProperties DEF Commits
  <2>2. /\ SubSeq(t, 1, Len(s)) \in Commits
        /\ Len(SubSeq(t, 1, Len(s))) = Len(s)
        /\ \A i \in 1..Len(s) : SubSeq(t, 1, Len(s))[i] = t[i]
    <3>1. Len(s) \in Nat
      BY LenProperties DEF Commits
    <3>. QED
      BY <2>1, <3>1, SubSeqProperties DEF Commits
  <2>3. SubSeq(t, 1, Len(s)) = s <=> \A i \in 1..Len(s) : s[i] = t[i]
    BY <2>2, SeqEqual DEF Commits
  <2>. QED
    BY <1>2, <1>3, <2>3 DEF IsPrefix
<1>. QED
  BY <1>3 DEF IsPrefix

LEMMA PrefixTransitive ==
  ASSUME NEW s \in Commits, NEW t \in Commits, NEW u \in Commits, IsPrefix(s, t), IsPrefix(t, u)
  PROVE  IsPrefix(s, u)
<1>1. Len(s) \in Nat /\ Len(t) \in Nat /\ Len(u) \in Nat
  BY LenProperties DEF Commits
<1>. QED
  BY <1>1, PrefixIs

LEMMA PrefixTrivial ==
  ASSUME NEW s \in Commits
  PROVE  IsPrefix(s, s) /\ IsPrefix(NoCommit, s) /\ NoCommit \in Commits
<1>1. Len(s) \in Nat /\ NoCommit \in Commits /\ Len(NoCommit) = 0
  BY LenProperties, EmptySeq DEF Commits, NoCommit
<1>. QED
  BY <1>1, PrefixIs

(* A history whose trees only grow, up to what is in the files.            *)
Sound(h, files) ==
  /\ \A i, j \in 1..Len(h) : i <= j => \A c \in Clones : h[i][c] \subseteq h[j][c]
  /\ \A i \in 1..Len(h) : \A c \in Clones : h[i][c] \subseteq files[c]

LEMMA TipIs ==
  ASSUME NEW h \in Commits
  PROVE  /\ h = NoCommit => TreeOf(h) = EmptyTree
         /\ h # NoCommit => Len(h) \in 1..Len(h) /\ TreeOf(h) = h[Len(h)]
<1>1. h # NoCommit => Len(h) \in Nat \ {0}
  BY EmptySeq DEF Commits, NoCommit
<1>. QED
  BY <1>1 DEF TreeOf, Last

LEMMA SoundTip ==
  ASSUME NEW h \in Commits, NEW files, Sound(h, files), NEW c \in Clones
  PROVE  TreeOf(h)[c] \subseteq files[c]
<1>1. CASE h = NoCommit
  BY <1>1, TipIs DEF EmptyTree
<1>2. CASE h # NoCommit
  BY <1>2, TipIs DEF Sound
<1>. QED
  BY <1>1, <1>2

LEMMA SoundPrefix ==
  ASSUME NEW s \in Commits, NEW t \in Commits, NEW files, Sound(t, files), IsPrefix(s, t),
         NEW c \in Clones
  PROVE  TreeOf(s)[c] \subseteq TreeOf(t)[c]
<1>1. CASE s = NoCommit
  BY <1>1, TipIs DEF EmptyTree
<1>2. CASE s # NoCommit
  <2>1. Len(s) \in Nat /\ Len(t) \in Nat
    BY LenProperties DEF Commits
  <2>2. Len(s) \in 1..Len(s) /\ TreeOf(s) = s[Len(s)]
    BY <1>2, TipIs
  <2>3. Len(s) <= Len(t) /\ s[Len(s)] = t[Len(s)]
    BY <2>2, PrefixIs
  <2>4. t # NoCommit
    BY <2>1, <2>2, <2>3, EmptySeq DEF NoCommit
  <2>5. TreeOf(t) = t[Len(t)] /\ Len(s) \in 1..Len(t) /\ Len(t) \in 1..Len(t)
    BY <2>1, <2>2, <2>3, <2>4, TipIs
  <2>. QED
    BY <2>2, <2>3, <2>5 DEF Sound
<1>. QED
  BY <1>1, <1>2

LEMMA SoundAppend ==
  ASSUME NEW h \in Commits, NEW files, Sound(h, files), NEW t \in Tree,
         \A c \in Clones : TreeOf(h)[c] \subseteq t[c] /\ t[c] \subseteq files[c]
  PROVE  Sound(Append(h, t), files)
<1>. DEFINE g == Append(h, t)
<1>1. /\ Len(h) \in Nat /\ Len(g) = Len(h) + 1
      /\ \A i \in 1..Len(h) : g[i] = h[i]
      /\ g[Len(h) + 1] = t
  BY AppendProperties, LenProperties DEF Commits
<1>2. \A i \in 1..Len(h) : \A c \in Clones : h[i][c] \subseteq TreeOf(h)[c]
  <2>1. CASE h = NoCommit
    BY <2>1, EmptySeq DEF NoCommit
  <2>2. CASE h # NoCommit
    BY <1>1, <2>2, TipIs DEF Sound
  <2>. QED
    BY <2>1, <2>2
<1>. HIDE DEF g
<1>3. \A i \in 1..Len(g) : i \in 1..Len(h) \/ i = Len(h) + 1
  BY <1>1
<1>4. \A i \in 1..Len(g) : \A c \in Clones : g[i][c] \subseteq files[c]
  BY <1>1, <1>3 DEF Sound
<1>5. ASSUME NEW i \in 1..Len(g), NEW j \in 1..Len(g), i <= j, NEW c \in Clones
      PROVE  g[i][c] \subseteq g[j][c]
  <2>1. CASE j \in 1..Len(h)
    <3>1. i \in 1..Len(h)
      BY <1>1, <1>5, <2>1
    <3>. QED
      BY <1>1, <1>5, <2>1, <3>1 DEF Sound
  <2>2. CASE j = Len(h) + 1
    BY <1>1, <1>2, <1>3, <2>2
  <2>. QED
    BY <1>3, <2>1, <2>2
<1>. QED
  BY <1>4, <1>5 DEF Sound, g

-----------------------------------------------------------------------------
(* The commits that a ref points to or a batch has in hand.                *)
InUse(h) ==
  \/ h \in {NoCommit, remote}
  \/ \E c \in Clones : h = local[c]
  \/ \E p \in Processes : proc[p] \in Running /\ h \in {proc[p].parent, proc[p].head}

Built(p) == Append(proc[p].parent, Written(p))

LEMMA InUseCommits == Shape => \A h : InUse(h) => h \in Commits
<1>. SUFFICES ASSUME Shape, NEW h, InUse(h) PROVE h \in Commits
  OBVIOUS
<1>1. NoCommit \in Commits
  BY DEF NoCommit, Commits
<1>2. \A p \in Processes : proc[p] \in Running => proc[p].parent \in Commits /\ proc[p].head \in Commits
  BY DEF Running
<1>. QED
  BY <1>1, <1>2 DEF Shape, InUse

(* Each step is of one process, or of none.                                *)
LEMMA OwnSteps ==
  ASSUME Shape, [Next]_vars, NEW p \in Processes
  PROVE  proc'[p] = proc[p] \/ Begin(p) \/ Batch(p) \/ Failure(p) \/ Crash(p)
<1>1. \/ proc' = proc
      \/ \E q \in Processes : Begin(q) \/ Batch(q) \/ Failure(q) \/ Crash(q)
  BY DEF Next, vars, ReadShard, AppendRecord, MinutePasses, LockAges
<1>2. ASSUME NEW q \in Processes, q # p, Begin(q) \/ TakeLock(q) \/ Finish(q) \/ Crash(q)
      PROVE  proc'[p] = proc[p]
  BY <1>2 DEF Begin, TakeLock, Acquire, Locked, FindsStale, Unlink, Finish, Release, Settle,
     Crash, Goto, Shape
<1>3. ASSUME NEW q \in Processes, q # p, Rebase(q) \/ Build(q) \/ Expect(q)
      PROVE  proc'[p] = proc[p]
  BY <1>3 DEF Rebase, FetchOk, ProvedAbsent, Builds, Build, Commit, Replay, Unchanged, Expect, Shape
<1>4. ASSUME NEW q \in Processes, q # p, MoveRef(q) \/ Push(q)
      PROVE  proc'[p] = proc[p]
  BY <1>4 DEF MoveRef, Push, PushOk, PushBehind, EndsWith, Goto, Shape
<1>5. ASSUME NEW q \in Processes, q # p, Failure(q)
      PROVE  proc'[p] = proc[p]
  BY <1>5 DEF Failure, NoTimeToStart, GateRefuses, FetchFails, OutOfTime, BuildRefused,
     BuildDeferred, Paused, PushUnheard, PushFails, Builds, EndsWith, Shape
<1>. QED
  BY <1>1, <1>2, <1>3, <1>4, <1>5 DEF Batch, Advance

(* Which steps write which file or ref.                                    *)
LEMMA FileSteps ==
  ASSUME [Next]_vars
  PROVE  /\ remote' = remote \/ \E p \in Processes : PushOk(p) \/ PushUnheard(p)
         /\ local' = local \/ \E p \in Processes : MoveRef(p)
         /\ tracking' = tracking \/ \E p \in Processes : FetchOk(p) \/ PushOk(p)
         /\ disk' = disk \/ \E w \in Writers : AppendRecord(w)
         /\ pending' = pending \/ (\E w \in Writers : AppendRecord(w))
              \/ \E p \in Processes : Settle(p)
         /\ writer' = writer \/ \E w \in Writers : ReadShard(w) \/ AppendRecord(w)
         /\ \/ lock' = lock
            \/ \E p \in Processes : Acquire(p) \/ Unlink(p) \/ Release(p) \/ Crash(p)
            \/ \E c \in Clones : LockAges(c)
<1>. DEFINE Shared == UNCHANGED <<remote, local, tracking, disk, pending, writer>>
<1>1. ASSUME NEW w \in Writers, ReadShard(w) \/ AppendRecord(w)
      PROVE  /\ UNCHANGED <<remote, local, tracking, lock>>
             /\ UNCHANGED <<disk, pending>> \/ AppendRecord(w)
  BY <1>1 DEF ReadShard, AppendRecord, clone
<1>2. ASSUME NEW c \in Clones, MinutePasses(c) \/ LockAges(c)
      PROVE  Shared /\ (lock' = lock \/ LockAges(c))
  BY <1>2 DEF MinutePasses, LockAges
<1>3. ASSUME NEW p \in Processes, Begin(p) \/ TakeLock(p) \/ Crash(p)
      PROVE  Shared /\ (lock' = lock \/ Acquire(p) \/ Unlink(p) \/ Crash(p))
  BY <1>3 DEF Begin, TakeLock, Acquire, Locked, FindsStale, Unlink, Crash, clone
<1>4. ASSUME NEW p \in Processes, Rebase(p) \/ Build(p)
      PROVE  /\ UNCHANGED <<remote, local, disk, pending, lock, writer>>
             /\ tracking' = tracking \/ FetchOk(p)
  BY <1>4 DEF Rebase, FetchOk, ProvedAbsent, Build, Commit, Replay, Unchanged, clone
<1>5. ASSUME NEW p \in Processes, Advance(p) \/ Push(p)
      PROVE  /\ UNCHANGED <<disk, pending, lock, writer>>
             /\ UNCHANGED <<remote, tracking>> \/ PushOk(p)
             /\ local' = local \/ MoveRef(p)
  BY <1>5 DEF Advance, Expect, MoveRef, Push, PushOk, PushBehind, clone
<1>6. ASSUME NEW p \in Processes, Finish(p)
      PROVE  /\ UNCHANGED <<remote, local, tracking, disk, writer>>
             /\ pending' = pending \/ Settle(p)
             /\ lock' = lock \/ Release(p)
  BY <1>6 DEF Finish, Release, Settle
<1>7. ASSUME NEW p \in Processes, Failure(p)
      PROVE  /\ UNCHANGED <<local, tracking, disk, pending, lock, writer>>
             /\ remote' = remote \/ PushUnheard(p)
  BY <1>7 DEF Failure, NoTimeToStart, GateRefuses, FetchFails, OutOfTime, BuildRefused,
     BuildDeferred, Paused, PushUnheard, PushFails, clone
<1>8. CASE UNCHANGED vars
  BY <1>8 DEF vars, clone
<1>. QED
  BY <1>1, <1>2, <1>3, <1>4, <1>5, <1>6, <1>7, <1>8 DEF Next, Batch

(* An end with an outcome leaves what is in hand.                          *)
LEMMA EndsKeepHands ==
  ASSUME Shape, NEW p \in Processes, proc[p] \in Running, NEW outcome, EndsWith(p, outcome)
  PROVE  proc'[p] = [proc[p] EXCEPT !.at = "release", !.outcome = outcome]
  BY DEF EndsWith, Shape

LEMMA NotRunning == ASSUME NEW r \in Waiting PROVE r \notin Running
  BY DEF Waiting, Running

(* What a process has in hand is what it had, or what this step gave it.   *)
LEMMA HandsFate ==
  ASSUME Shape, [Next]_vars, NEW p \in Processes, proc'[p] \in Running
  PROVE  /\ \/ proc[p] \in Running /\ proc'[p].parent = proc[p].parent
            \/ proc'[p].parent \in {NoCommit, remote, local[Home[p]]}
         /\ \/ proc[p] \in Running /\ proc'[p].head \in {proc[p].head, proc[p].parent}
            \/ proc'[p].head = NoCommit
            \/ Commit(p) /\ proc'[p].head = Built(p)

<1>. DEFINE Kept == proc[p] \in Running /\ proc'[p].parent = proc[p].parent
                    /\ proc'[p].head \in {proc[p].head, proc[p].parent}
<1>1. CASE proc'[p] = proc[p]
  BY <1>1
<1>2. CASE Begin(p) \/ Locked(p) \/ Crash(p) \/ Settle(p)
  <2>1. proc'[p] \in Waiting
    BY <1>2 DEF Begin, Locked, Crash, Settle, Idle, Waiting, Shape
  <2>. QED
    BY <2>1, NotRunning
<1>3. CASE FindsStale(p) \/ Unlink(p)
  <2>1. proc'[p].at \in {"unlink", "relock"}
    <3>1. proc[p] \in Waiting
      BY <1>3 DEF FindsStale, Unlink, At, Shape, Running
    <3>. QED
      BY <1>3, <3>1 DEF FindsStale, Unlink, Goto, Shape, Waiting
  <2>. QED
    BY <2>1 DEF Running
<1>4. CASE Acquire(p) \/ GateRefuses(p)
  <2>1. proc'[p] \in {Fresh, [Fresh EXCEPT !.at = "settle", !.outcome = "refused"]}
    BY <1>4 DEF Acquire, GateRefuses, Shape
  <2>2. Fresh.parent = NoCommit /\ Fresh.head = NoCommit
    BY DEF Fresh
  <2>. QED
    BY <2>1, <2>2, FreshRunning
<1>5. ASSUME NEW base \in {NoCommit, remote}, proc[p] \in Running, Builds(p, base)
      PROVE  /\ proc'[p].parent \in {NoCommit, remote, local[Home[p]]}
             /\ proc'[p].head = proc[p].head
  BY <1>5 DEF Builds, ParentFor, Shape, Running
<1>6. CASE Rebase(p)
  <2>1. proc[p] \in Running
    BY <1>6, AtRunning DEF Rebase, FetchOk, ProvedAbsent, At
  <2>. QED
    BY <1>5, <1>6, <2>1 DEF Rebase, FetchOk, ProvedAbsent
<1>7. CASE Build(p)
  <2>1. proc[p] \in Running
    BY <1>7, AtRunning DEF Build, Commit, Replay, Unchanged, At
  <2>. QED
    BY <1>7, <2>1 DEF Build, Commit, Replay, Unchanged, Built, Shape, Running
<1>8. ASSUME proc[p] \in Running, NEW outcome, EndsWith(p, outcome)
      PROVE  Kept
  <2>1. proc'[p] = [proc[p] EXCEPT !.at = "release", !.outcome = outcome]
    BY <1>8, EndsKeepHands
  <2>. QED
    BY <1>8, <2>1 DEF Running
<1>9. CASE Advance(p) \/ Push(p) \/ Release(p)
  <2>1. proc[p] \in Running
    BY <1>9, AtRunning DEF Advance, Expect, MoveRef, Push, PushOk, PushBehind, Release, At
  <2>2. CASE Expect(p) \/ Release(p)
    BY <2>1, <2>2 DEF Expect, Release, Goto, Shape, Running
  <2>3. CASE MoveRef(p)
    <3>1. CASE Goto(p, "push")
      BY <2>1, <3>1 DEF Goto, Shape, Running
    <3>. QED
      BY <1>8, <2>1, <2>3, <3>1 DEF MoveRef
  <2>4. CASE Push(p)
    <3>1. CASE proc' = [proc EXCEPT ![p].at = "fetch", ![p].attempt = @ + 1]
      BY <2>1, <3>1 DEF Shape, Running
    <3>. QED
      BY <1>8, <2>1, <2>4, <3>1 DEF Push, PushOk, PushBehind
  <2>. QED
    BY <1>9, <2>2, <2>3, <2>4 DEF Advance
<1>10. CASE Failure(p)
  <2>1. CASE NoTimeToStart(p)
    BY <1>1, <2>1 DEF NoTimeToStart
  <2>2. CASE FetchFails(p)
    <3>1. proc[p] \in Running
      BY <2>2, AtRunning DEF FetchFails, At
    <3>. QED
      BY <1>5, <1>8, <2>2, <3>1 DEF FetchFails
  <2>3. CASE OutOfTime(p) \/ BuildRefused(p) \/ BuildDeferred(p) \/ Paused(p) \/ PushUnheard(p)
             \/ PushFails(p)
    <3>1. proc[p] \in Running
      BY <2>3, AtRunning
         DEF OutOfTime, BuildRefused, BuildDeferred, Paused, PushUnheard, PushFails, At
    <3>2. \E outcome : EndsWith(p, outcome)
      BY <2>3 DEF OutOfTime, BuildRefused, BuildDeferred, Paused, PushUnheard, PushFails
    <3>. QED
      BY <1>8, <3>1, <3>2
  <2>. QED
    BY <1>4, <1>10, <2>1, <2>2, <2>3 DEF Failure
<1>. QED
  BY <1>1, <1>2, <1>3, <1>4, <1>6, <1>7, <1>9, <1>10, OwnSteps DEF Batch, TakeLock, Finish

(* A step puts no other commit to use than one it builds itself.           *)
LEMMA HistoryFate ==
  ASSUME Shape, [Next]_vars, NEW h, InUse(h)'
  PROVE  InUse(h) \/ \E p \in Processes : Commit(p) /\ h = Built(p)
<1>1. \/ remote' = remote
      \/ \E p \in Processes : remote' = local[Home[p]]
  BY FileSteps DEF PushOk, PushUnheard
<1>2. ASSUME NEW c \in Clones
      PROVE  \/ local'[c] = local[c]
             \/ \E p \in Processes : proc[p] \in Running /\ local'[c] = proc[p].head
  <2>1. local' = local \/ \E p \in Processes : MoveRef(p)
    BY FileSteps
  <2>2. ASSUME NEW p \in Processes, MoveRef(p)
        PROVE  proc[p] \in Running /\ local'[c] \in {local[c], proc[p].head}
    BY <2>2, AtRunning DEF MoveRef, At, Shape
  <2>. QED
    BY <2>1, <2>2
<1>3. ASSUME NEW p \in Processes, proc'[p] \in Running, h \in {proc'[p].parent, proc'[p].head}
      PROVE  InUse(h) \/ (Commit(p) /\ h = Built(p))
  BY <1>3, HandsFate, BranchAssumption DEF InUse
<1>. QED
  BY <1>1, <1>2, <1>3, BranchAssumption DEF InUse

-----------------------------------------------------------------------------
(* Where the commands of one clone do not overlap, what a command has read *)
(* of the shard is what is still in it, so a shard only grows.             *)
WritersAgree ==
  ~Overlap =>
    /\ \A w \in Writers : writer[w].at = "append" => writer[w].read = disk[Home[w]]
    /\ \A v, w \in Writers : /\ writer[v].at = "append" /\ writer[w].at = "append"
                             /\ Home[v] = Home[w]
                             => v = w

LEMMA WritersInit == Init => WritersAgree
  BY DEF Init, WritersAgree

LEMMA WritersStep == Shape /\ WritersAgree /\ [Next]_vars => WritersAgree'
<1>. SUFFICES ASSUME Shape, WritersAgree, ~Overlap, [Next]_vars PROVE WritersAgree'
  BY DEF WritersAgree
<1>. USE BranchAssumption
<1>1. CASE UNCHANGED <<writer, disk>>
  BY <1>1 DEF WritersAgree
<1>2. ASSUME NEW w \in Writers, ReadShard(w)
      PROVE  WritersAgree'
  BY <1>2 DEF ReadShard, WritersAgree, Shape, clone
<1>3. ASSUME NEW w \in Writers, AppendRecord(w)
      PROVE  WritersAgree'
  <2>1. \A v \in Writers : writer'[v].at = "append" => v # w /\ writer'[v] = writer[v]
    BY <1>3 DEF AppendRecord, Shape
  <2>2. \A v \in Writers : v # w /\ writer[v].at = "append" => disk'[Home[v]] = disk[Home[v]]
    BY <1>3 DEF AppendRecord, WritersAgree, Shape, Tree
  <2>. QED
    BY <2>1, <2>2 DEF WritersAgree
<1>. QED
  BY <1>1, <1>2, <1>3, FileSteps

LEMMA ShardsGrow ==
  ASSUME Shape, WritersAgree, ~Overlap, [Next]_vars, NEW c \in Clones
  PROVE  disk[c] \subseteq disk'[c]
<1>1. ASSUME NEW w \in Writers, AppendRecord(w)
      PROVE  disk[c] \subseteq disk'[c]
  BY <1>1, BranchAssumption DEF AppendRecord, WritersAgree, Shape, Tree
<1>. QED
  BY <1>1, FileSteps

(* Every history in use only adds records, and none that is not on disk.   *)
HistoriesSound == ~Overlap => \A h : InUse(h) => Sound(h, disk)

LEMMA SoundInit == Init => HistoriesSound
<1>. SUFFICES ASSUME Init, NEW h, InUse(h) PROVE Sound(h, disk)
  BY DEF HistoriesSound
<1>1. h = NoCommit
  BY NotRunning DEF Init, InUse, Idle, Waiting
<1>. QED
  BY <1>1 DEF Sound, NoCommit

LEMMA SoundStep == Shape /\ WritersAgree /\ HistoriesSound /\ [Next]_vars => HistoriesSound'
<1>. SUFFICES ASSUME Shape, WritersAgree, HistoriesSound, ~Overlap, [Next]_vars, NEW h, InUse(h)'
              PROVE  Sound(h, disk')
  BY DEF HistoriesSound
<1>1. ASSUME NEW g, Sound(g, disk)
      PROVE  Sound(g, disk')
  BY <1>1, ShardsGrow DEF Sound
<1>2. CASE InUse(h)
  BY <1>1, <1>2 DEF HistoriesSound
<1>3. ASSUME NEW p \in Processes, Commit(p), h = Built(p)
      PROVE  Sound(h, disk')
  <2>1. proc[p] \in Running
    BY <1>3, AtRunning DEF Commit, At
  <2>2. InUse(proc[p].parent) /\ proc[p].parent \in Commits
    BY <2>1, InUseCommits DEF InUse
  <2>3. Written(p) \in Tree /\ TreeOf(proc[p].parent) \in Tree
    BY <2>1, WrittenTree
  <2>4. \A c \in Clones : TreeOf(proc[p].parent)[c] \subseteq disk[c]
    BY <2>2, SoundTip DEF HistoriesSound
  <2>5. \A c \in Clones : Written(p)[c] = IF c = Home[p] THEN disk[c]
                                          ELSE TreeOf(proc[p].parent)[c]
    BY <2>3 DEF Written, Seed, Tree
  <2>6. Sound(Built(p), disk)
    BY <2>2, <2>3, <2>4, <2>5, SoundAppend DEF Built, HistoriesSound
  <2>. QED
    BY <1>1, <1>3, <2>6
<1>. QED
  BY <1>2, <1>3, HistoryFate

(* What a push leaves on the remote contains what was there.               *)
LEMMA RemoteGrows ==
  ASSUME Shape, HistoriesSound, ~Overlap, [Next]_vars
  PROVE  /\ IsPrefix(remote, remote')
         /\ \A c \in Clones : TreeOf(remote)[c] \subseteq TreeOf(remote')[c]
<1>1. CASE remote' = remote
  BY <1>1, PrefixTrivial DEF Shape
<1>2. ASSUME NEW p \in Processes, PushOk(p) \/ PushUnheard(p)
      PROVE  /\ IsPrefix(remote, remote')
             /\ \A c \in Clones : TreeOf(remote)[c] \subseteq TreeOf(remote')[c]
  <2>1. remote' = local[Home[p]] /\ IsPrefix(remote, remote')
    BY <1>2 DEF PushOk, PushUnheard, Pushable
  <2>2. remote \in Commits /\ remote' \in Commits /\ Sound(remote', disk)
    BY <2>1, BranchAssumption DEF Shape, HistoriesSound, InUse
  <2>. QED
    BY <2>1, <2>2, SoundPrefix
<1>. QED
  BY <1>1, <1>2, FileSteps

(* The remote branch only grows, and no push takes a member's record out   *)
(* of its tree, whoever is killed and whatever fails, as long as commands  *)
(* of one clone do not overlap on its shard (pushState, never forced).     *)
THEOREM PublishedRecordsStay == ~Overlap => (Spec => PublishedStays)
<1>. SUFFICES ASSUME ~Overlap PROVE Spec => PublishedStays
  OBVIOUS
<1>1. Shape /\ HistoriesSound /\ [Next]_vars =>
        [/\ IsPrefix(remote, remote')
         /\ \A c \in Clones : TreeOf(remote)[c] \subseteq TreeOf(remote')[c]]_vars
  BY RemoteGrows
<1>. QED
  BY <1>1, ShapeInit, ShapeStep, WritersInit, WritersStep, SoundInit, SoundStep, PTL
     DEF Spec, PublishedStays

-----------------------------------------------------------------------------
(* How a process comes to be where it is in a batch.                       *)
Reaches(p) ==
  \/ proc'[p] = proc[p]
  \/ proc'[p].at = "fetch" /\ (Held(p) \/ Acquire(p))
  \/ proc'[p].at = "settle" /\ proc'[p].outcome = "refused" /\ ~Held(p)
  \/ /\ proc[p].at = "fetch"
     /\ FetchOk(p) \/ ProvedAbsent(p) \/ (FetchFails(p) /\ MayExtend(p))
     /\ \E base \in {NoCommit, remote} : proc'[p] =
          [proc[p] EXCEPT !.at = "build", !.base = base, !.parent = ParentFor(Home[p], base)]
  \/ Commit(p) /\ proc'[p] = [proc[p] EXCEPT !.at = "expect", !.carried = disk[Home[p]],
                                             !.head = Built(p)]
  \/ Replay(p) /\ proc'[p] = [proc[p] EXCEPT !.at = "push", !.carried = disk[Home[p]],
                                             !.head = proc[p].parent]
  \/ Unchanged(p) /\ proc'[p] = [proc[p] EXCEPT !.at = "release", !.carried = disk[Home[p]],
                                                !.outcome = "unchanged"]
  \/ Expect(p) /\ proc'[p] = [proc[p] EXCEPT !.at = "move", !.old = local[Home[p]]]
  \/ MoveRef(p) /\ proc'[p] = [proc[p] EXCEPT !.at = "push"] /\ local'[Home[p]] = proc[p].head
  \/ PushOk(p) /\ proc'[p] = [proc[p] EXCEPT !.at = "release", !.outcome = "ok"]
  \/ Release(p) /\ proc'[p] = [proc[p] EXCEPT !.at = "settle"]
  \/ /\ Held(p)
     /\ \E outcome \in Outcomes : /\ ~Clear(outcome)
                                  /\ proc'[p] = [proc[p] EXCEPT !.at = "release", !.outcome = outcome]

LEMMA BatchFate ==
  ASSUME Shape, [Next]_vars, NEW p \in Processes
  PROVE  \/ proc'[p] = Idle
         \/ proc'[p].at = "lock"
         \/ proc'[p].at \in {"unlink", "relock"} /\ (FindsStale(p) \/ Unlink(p))
         \/ Reaches(p)
<1>. USE BranchAssumption
<1>1. CASE proc'[p] = proc[p]
  BY <1>1 DEF Reaches
<1>2. CASE Begin(p) \/ Locked(p) \/ Crash(p) \/ Settle(p)
  BY <1>2 DEF Begin, Locked, Crash, Settle, Shape
<1>3. CASE FindsStale(p) \/ Unlink(p)
  <2>1. proc[p] \in Waiting
    BY <1>3 DEF FindsStale, Unlink, At, Shape, Running
  <2>. QED
    BY <1>3, <2>1 DEF FindsStale, Unlink, Goto, Shape, Waiting
<1>4. CASE Acquire(p)
  BY <1>4 DEF Acquire, Fresh, Shape, Reaches
<1>5. CASE GateRefuses(p)
  <2>1. proc'[p].at = "settle" /\ proc'[p].outcome = "refused" /\ ~Held(p)
    BY <1>5, FreshRunning DEF GateRefuses, At, Held, Shape
  <2>. QED
    BY <2>1 DEF Reaches
<1>6. ASSUME NEW outcome \in Outcomes, ~Clear(outcome), Held(p), EndsWith(p, outcome)
      PROVE  Reaches(p)
  BY <1>6, AtRunning, EndsKeepHands DEF Held, Reaches
<1>7. ASSUME NEW base \in {NoCommit, remote}, Builds(p, base), proc[p].at = "fetch",
             FetchOk(p) \/ ProvedAbsent(p) \/ (FetchFails(p) /\ MayExtend(p))
      PROVE  Reaches(p)
  <2>1. proc'[p] = [proc[p] EXCEPT !.at = "build", !.base = base,
                                   !.parent = ParentFor(Home[p], base)]
    BY <1>7 DEF Builds, Shape
  <2>. QED
    BY <1>7, <2>1 DEF Reaches
<1>8. CASE Rebase(p)
  BY <1>7, <1>8 DEF Rebase, FetchOk, ProvedAbsent, At
<1>9. CASE Build(p)
  <2>1. CASE Commit(p)
    BY <2>1 DEF Commit, Built, Shape, Reaches
  <2>2. CASE Replay(p)
    BY <2>2 DEF Replay, Shape, Reaches
  <2>3. CASE Unchanged(p)
    BY <2>3 DEF Unchanged, Shape, Reaches
  <2>. QED
    BY <1>9, <2>1, <2>2, <2>3 DEF Build
<1>10. CASE Advance(p)
  <2>1. CASE Expect(p)
    BY <2>1 DEF Expect, Shape, Reaches
  <2>2. CASE MoveRef(p)
    <3>1. CASE Goto(p, "push") /\ local' = [local EXCEPT ![Home[p]] = proc[p].head]
      BY <2>2, <3>1 DEF Goto, Shape, Reaches
    <3>2. CASE EndsWith(p, "deferred")
      BY <1>6, <2>2, <3>2 DEF MoveRef, At, Held, Outcomes, Clear
    <3>. QED
      BY <2>2, <3>1, <3>2 DEF MoveRef
  <2>. QED
    BY <1>10, <2>1, <2>2 DEF Advance
<1>11. CASE Push(p)
  <2>1. Held(p) /\ proc[p] \in Running
    BY <1>11, AtRunning DEF Push, PushOk, PushBehind, At, Held
  <2>2. CASE PushOk(p)
    BY <2>1, <2>2, EndsKeepHands DEF PushOk, Reaches
  <2>3. CASE proc' = [proc EXCEPT ![p].at = "fetch", ![p].attempt = @ + 1]
    <3>1. proc'[p].at = "fetch"
      BY <2>1, <2>3 DEF Shape, Running
    <3>. QED
      BY <2>1, <3>1 DEF Reaches
  <2>4. CASE EndsWith(p, "deferred")
    BY <1>6, <2>1, <2>4 DEF Outcomes, Clear
  <2>. QED
    BY <1>11, <2>2, <2>3, <2>4 DEF Push, PushBehind
<1>12. CASE Release(p)
  BY <1>12 DEF Release, Goto, Shape, Reaches
<1>13. CASE Failure(p)
  <2>1. CASE NoTimeToStart(p)
    BY <1>1, <2>1 DEF NoTimeToStart
  <2>2. CASE FetchFails(p)
    <3>1. CASE MayExtend(p)
      BY <1>7, <2>2, <3>1 DEF FetchFails, At
    <3>2. CASE ~MayExtend(p)
      BY <1>6, <2>2, <3>2 DEF FetchFails, At, Held, Outcomes, Clear
    <3>. QED
      BY <3>1, <3>2
  <2>3. CASE OutOfTime(p) \/ BuildRefused(p) \/ BuildDeferred(p) \/ Paused(p)
    BY <1>6, <2>3 DEF OutOfTime, BuildRefused, BuildDeferred, Paused, At, Held, Outcomes, Clear
  <2>4. CASE PushUnheard(p) \/ PushFails(p)
    BY <1>6, <2>4 DEF PushUnheard, PushFails, At, Held, Outcomes, Clear
  <2>. QED
    BY <1>5, <1>13, <2>1, <2>2, <2>3, <2>4 DEF Failure
<1>. QED
  BY <1>1, <1>2, <1>3, <1>4, <1>5, <1>8, <1>9, <1>10, <1>11, <1>12, <1>13, OwnSteps
     DEF Batch, TakeLock, Finish

(* The same by stage: what a process has in hand where it now is.          *)
Same(p, fields) == \A f \in fields : proc'[p][f] = proc[p][f]

Arrives(p) ==
  \/ proc'[p] = proc[p]
  \/ proc'[p].at = "fetch"
  \/ proc'[p].at = "settle" /\ proc'[p].outcome = "refused"
  \/ /\ proc'[p].at = "build" /\ proc[p].at = "fetch"
     /\ FetchOk(p) \/ ProvedAbsent(p) \/ (FetchFails(p) /\ MayExtend(p))
     /\ proc'[p].base \in {NoCommit, remote}
     /\ proc'[p].parent = ParentFor(Home[p], proc'[p].base)
  \/ /\ proc'[p].at = "expect" /\ Commit(p) /\ Same(p, {"base", "parent"})
     /\ proc'[p].carried = disk[Home[p]] /\ proc'[p].head = Built(p)
  \/ /\ proc'[p].at = "push" /\ Replay(p) /\ Same(p, {"base", "parent"})
     /\ proc'[p].carried = disk[Home[p]] /\ proc'[p].head = proc[p].parent
  \/ /\ proc'[p].at = "release" /\ Unchanged(p) /\ Same(p, {"base", "parent", "head"})
     /\ proc'[p].carried = disk[Home[p]] /\ proc'[p].outcome = "unchanged"
  \/ proc'[p].at = "move" /\ Expect(p) /\ Same(p, {"base", "parent", "head", "carried"})
  \/ /\ proc'[p].at = "push" /\ MoveRef(p) /\ Same(p, {"base", "parent", "head", "carried"})
     /\ local'[Home[p]] = proc[p].head
  \/ /\ proc'[p].at = "release" /\ PushOk(p) /\ Same(p, {"base", "parent", "head", "carried"})
     /\ proc'[p].outcome = "ok"
  \/ proc'[p].at = "settle" /\ Release(p) /\ Same(p, {"base", "parent", "head", "carried", "outcome"})
  \/ proc'[p].at = "release" /\ ~Clear(proc'[p].outcome) /\ Held(p)

LEMMA StageFate ==
  ASSUME Shape, [Next]_vars, NEW p \in Processes,
         proc'[p].at \in {"fetch", "build", "expect", "move", "push", "release", "settle"}
  PROVE  Arrives(p)
<1>1. Reaches(p)
  BY BatchFate DEF Idle
<1>2. CASE \/ proc'[p] = proc[p]
           \/ proc'[p].at = "fetch"
           \/ proc'[p].at = "settle" /\ proc'[p].outcome = "refused"
  BY <1>2 DEF Arrives
<1>3. ASSUME NEW base \in {NoCommit, remote}, proc[p].at = "fetch",
             proc'[p] = [proc[p] EXCEPT !.at = "build", !.base = base,
                                        !.parent = ParentFor(Home[p], base)]
      PROVE  /\ proc'[p].at = "build" /\ proc'[p].base = base
             /\ proc'[p].parent = ParentFor(Home[p], base)
  BY <1>3, AtRunning DEF Running
<1>4. CASE Commit(p) /\ proc'[p] = [proc[p] EXCEPT !.at = "expect", !.carried = disk[Home[p]],
                                                   !.head = Built(p)]
  <2>1. proc[p] \in Running
    BY <1>4, AtRunning DEF Commit, At
  <2>. QED
    BY <1>4, <2>1 DEF Running, Arrives, Same
<1>5. CASE Replay(p) /\ proc'[p] = [proc[p] EXCEPT !.at = "push", !.carried = disk[Home[p]],
                                                   !.head = proc[p].parent]
  <2>1. proc[p] \in Running
    BY <1>5, AtRunning DEF Replay, At
  <2>. QED
    BY <1>5, <2>1 DEF Running, Arrives, Same
<1>6. CASE Unchanged(p) /\ proc'[p] = [proc[p] EXCEPT !.at = "release", !.carried = disk[Home[p]],
                                                      !.outcome = "unchanged"]
  <2>1. proc[p] \in Running
    BY <1>6, AtRunning DEF Unchanged, At
  <2>. QED
    BY <1>6, <2>1 DEF Running, Arrives, Same
<1>7. CASE Expect(p) /\ proc'[p] = [proc[p] EXCEPT !.at = "move", !.old = local[Home[p]]]
  <2>1. proc[p] \in Running
    BY <1>7, AtRunning DEF Expect, At
  <2>. QED
    BY <1>7, <2>1 DEF Running, Arrives, Same
<1>8. CASE MoveRef(p) /\ proc'[p] = [proc[p] EXCEPT !.at = "push"] /\ local'[Home[p]] = proc[p].head
  <2>1. proc[p] \in Running
    BY <1>8, AtRunning DEF MoveRef, At
  <2>. QED
    BY <1>8, <2>1 DEF Running, Arrives, Same
<1>9. CASE PushOk(p) /\ proc'[p] = [proc[p] EXCEPT !.at = "release", !.outcome = "ok"]
  <2>1. proc[p] \in Running
    BY <1>9, AtRunning DEF PushOk, At
  <2>. QED
    BY <1>9, <2>1 DEF Running, Arrives, Same
<1>10. CASE Release(p) /\ proc'[p] = [proc[p] EXCEPT !.at = "settle"]
  <2>1. proc[p] \in Running
    BY <1>10, AtRunning DEF Release, At
  <2>. QED
    BY <1>10, <2>1 DEF Running, Arrives, Same
<1>11. ASSUME Held(p), NEW outcome \in Outcomes, ~Clear(outcome),
              proc'[p] = [proc[p] EXCEPT !.at = "release", !.outcome = outcome]
       PROVE  Arrives(p)
  <2>1. proc[p] \in Running
    BY <1>11, AtRunning DEF Held
  <2>. QED
    BY <1>11, <2>1 DEF Running, Arrives
<1>12. CASE /\ proc[p].at = "fetch"
            /\ FetchOk(p) \/ ProvedAbsent(p) \/ (FetchFails(p) /\ MayExtend(p))
            /\ \E base \in {NoCommit, remote} : proc'[p] =
                 [proc[p] EXCEPT !.at = "build", !.base = base, !.parent = ParentFor(Home[p], base)]
  BY <1>3, <1>12 DEF Arrives
<1>. QED
  BY <1>1, <1>2, <1>4, <1>5, <1>6, <1>7, <1>8, <1>9, <1>10, <1>11, <1>12 DEF Reaches

-----------------------------------------------------------------------------
(* Where no process is killed, no lock is ever stale, so each batch holds  *)
(* the lock of its clone until it has released it.                         *)
LockHeld ==
  MaxCrashes = 0 =>
    /\ \A c \in Clones : lock[c] \notin {"dead", "stale"}
    /\ \A p \in Processes : proc[p].at \notin {"unlink", "relock"}
    /\ \A p \in Processes : Held(p) => lock[Home[p]] = p

LEMMA LockInit == Init => LockHeld
  BY BranchAssumption DEF Init, LockHeld, Held, Idle

LEMMA LockIsOneBatch == LockHeld => (MaxCrashes = 0 => OneBatch)
  BY DEF LockHeld, OneBatch

LEMMA HeldSteps ==
  ASSUME Shape, [Next]_vars, NEW p \in Processes, Held(p)'
  PROVE  Held(p) \/ Acquire(p)
<1>1. CASE Reaches(p)
  BY <1>1 DEF Reaches, Held, At, Commit, Replay, Unchanged, Expect, MoveRef, PushOk, Release
<1>2. CASE proc'[p] = Idle
  BY <1>2 DEF Idle, Held
<1>. QED
  BY <1>1, <1>2, BatchFate DEF Held

LEMMA LockStep == Shape /\ LockHeld /\ [Next]_vars => LockHeld'
<1>. SUFFICES ASSUME Shape, LockHeld, MaxCrashes = 0, [Next]_vars PROVE LockHeld'
  BY DEF LockHeld
<1>. USE BranchAssumption
<1>1. ASSUME NEW p \in Processes
      PROVE  ~Crash(p) /\ ~FindsStale(p) /\ ~Unlink(p)
  BY <1>1 DEF Crash, FindsStale, Unlink, Removable, At, LockHeld, Shape
<1>2. \A c \in Clones : ~LockAges(c)
  BY DEF LockAges, LockHeld
<1>3. \/ lock' = lock
      \/ \E p \in Processes : Acquire(p) \/ Release(p)
  BY <1>1, <1>2, FileSteps
<1>4. \A c \in Clones : lock'[c] \notin {"dead", "stale"}
  BY <1>3 DEF Acquire, Release, LockHeld, Shape
<1>5. ASSUME NEW p \in Processes
      PROVE  proc'[p].at \notin {"unlink", "relock"}
  <2>1. CASE Reaches(p)
    <3>1. proc'[p] = proc[p] \/ proc'[p].at \in {"fetch", "settle"} \/ Held(p)
      BY <2>1 DEF Reaches, Held, At, Commit, Replay, Unchanged, Expect, MoveRef, PushOk, Release
    <3>2. CASE Held(p)
      <4>1. proc[p] \in Running
        BY <3>2, AtRunning DEF Held
      <4>. QED
        BY <2>1, <3>2, <4>1 DEF Reaches, Held, Running
    <3>. QED
      BY <3>1, <3>2 DEF LockHeld
  <2>2. CASE proc'[p] = Idle
    BY <2>2 DEF Idle
  <2>. QED
    BY <1>1, <2>1, <2>2, BatchFate
<1>6. ASSUME NEW p \in Processes, Held(p)'
      PROVE  lock'[Home[p]] = p
  <2>1. CASE Acquire(p)
    BY <2>1 DEF Acquire, Shape
  <2>2. CASE Held(p) /\ ~Acquire(p)
    <3>1. lock[Home[p]] = p
      BY <2>2 DEF LockHeld
    <3>2. ASSUME NEW q \in Processes, Acquire(q), Home[q] = Home[p]
          PROVE  FALSE
      BY <3>1, <3>2 DEF Acquire, Available
    <3>3. ASSUME NEW q \in Processes, Release(q), Home[q] = Home[p]
          PROVE  FALSE
      <4>1. Held(q)
        BY <3>3 DEF Release, At, Held
      <4>2. q = p
        BY <3>1, <3>3, <4>1 DEF LockHeld
      <4>3. proc[p] \in Running
        BY <2>2, AtRunning DEF Held
      <4>4. proc'[p].at = "settle"
        BY <3>3, <4>2, <4>3 DEF Release, Goto, Shape, Running
      <4>. QED
        BY <1>6, <4>4 DEF Held
    <3>. QED
      BY <1>3, <3>1, <3>2, <3>3 DEF Acquire, Release, Shape
  <2>. QED
    BY <1>6, <2>1, <2>2, HeldSteps
<1>. QED
  BY <1>4, <1>5, <1>6 DEF LockHeld

(* As long as no process is killed, at most one batch is under way in a    *)
(* clone (acquireBatchLock).                                               *)
THEOREM OneBatchUnlessKilled == Spec => [](MaxCrashes = 0 => OneBatch)
<1>. QED
  BY ShapeInit, ShapeStep, LockInit, LockStep, LockIsOneBatch, PTL DEF Spec

-----------------------------------------------------------------------------
(* A clone that has seen the branch has a parent for what it builds.       *)
RootGuarded ==
  MaxCrashes = 0 =>
    /\ remote = NoCommit => \A c \in Clones : tracking[c] = NoCommit
    /\ \A p \in Processes :
         /\ proc[p].at \in {"build", "expect", "move"} /\ tracking[Home[p]] # NoCommit
              => proc[p].parent # NoCommit
         /\ proc[p].at \in {"expect", "move"} => Len(proc[p].head) = Len(proc[p].parent) + 1

LEMMA RootInit == Init => RootGuarded
  BY BranchAssumption DEF Init, RootGuarded, Idle

LEMMA TrackingSteps ==
  ASSUME Shape, RootGuarded, MaxCrashes = 0, [Next]_vars
  PROVE  /\ remote' = NoCommit => \A c \in Clones : tracking'[c] = NoCommit
         /\ \A c \in Clones : \/ tracking'[c] = tracking[c]
                              \/ \E p \in Processes : Home[p] = c /\ (FetchOk(p) \/ PushOk(p))
<1>. USE BranchAssumption
<1>1. ASSUME NEW p \in Processes, PushOk(p) \/ PushUnheard(p), remote' = NoCommit
      PROVE  remote = NoCommit
  <2>1. local[Home[p]] \in Commits /\ IsPrefix(remote, NoCommit)
    BY <1>1 DEF PushOk, PushUnheard, Pushable, Shape
  <2>2. remote \in Commits /\ NoCommit \in Commits /\ Len(NoCommit) = 0
    BY EmptySeq DEF Shape, NoCommit, Commits
  <2>3. Len(remote) <= 0
    BY <2>1, <2>2, PrefixIs
  <2>. QED
    BY <2>2, <2>3, EmptySeq DEF Commits, NoCommit
<1>2. remote' = NoCommit => remote = NoCommit
  BY <1>1, FileSteps
<1>3. ASSUME NEW c \in Clones
      PROVE  \/ tracking'[c] = tracking[c]
             \/ \E p \in Processes : Home[p] = c /\ (FetchOk(p) \/ PushOk(p))
  BY FileSteps DEF FetchOk, PushOk, Shape
<1>4. ASSUME NEW p \in Processes, FetchOk(p) \/ PushOk(p)
      PROVE  tracking'[Home[p]] = remote'
  BY <1>4 DEF FetchOk, PushOk, Shape
<1>. QED
  BY <1>2, <1>3, <1>4 DEF RootGuarded

LEMMA RootStep == Shape /\ LockHeld /\ RootGuarded /\ [Next]_vars => RootGuarded'
<1>. SUFFICES ASSUME Shape, LockHeld, RootGuarded, MaxCrashes = 0, [Next]_vars
              PROVE  RootGuarded'
  BY DEF RootGuarded
<1>. USE BranchAssumption
<1>1. remote' = NoCommit => \A c \in Clones : tracking'[c] = NoCommit
  BY TrackingSteps
<1>2. ASSUME NEW p \in Processes, proc'[p].at \in {"expect", "move"}
      PROVE  Len(proc'[p].head) = Len(proc'[p].parent) + 1
  <2>1. CASE Commit(p) /\ proc'[p].head = Built(p) /\ proc'[p].parent = proc[p].parent
    <3>1. proc[p] \in Running
      BY <2>1, AtRunning DEF Commit, At
    <3>2. proc[p].parent \in Seq(Tree) /\ Written(p) \in Tree
      BY <3>1, WrittenTree DEF Running, Commits
    <3>. QED
      BY <2>1, <3>2, AppendProperties DEF Built
  <2>. QED
    BY <1>2, <2>1, StageFate DEF Arrives, Same, Expect, At, RootGuarded
<1>3. ASSUME NEW p \in Processes, proc'[p].at \in {"build", "expect", "move"},
             tracking'[Home[p]] # NoCommit
      PROVE  proc'[p].parent # NoCommit
  <2>1. CASE proc[p].at \in {"build", "expect", "move"} /\ proc'[p].parent = proc[p].parent
    <3>1. Held(p)
      BY <2>1 DEF Held
    <3>2. ASSUME NEW q \in Processes, Home[q] = Home[p], FetchOk(q) \/ PushOk(q)
          PROVE  FALSE
      <4>1. Held(q) /\ proc[q].at \in {"fetch", "push"}
        BY <3>2 DEF FetchOk, PushOk, At, Held
      <4>2. q = p
        BY <3>1, <3>2, <4>1 DEF LockHeld
      <4>. QED
        BY <2>1, <4>1, <4>2
    <3>3. tracking[Home[p]] # NoCommit
      BY <1>3, <3>2, TrackingSteps
    <3>. QED
      BY <2>1, <3>3 DEF RootGuarded
  <2>2. CASE /\ proc[p].at = "fetch"
             /\ FetchOk(p) \/ ProvedAbsent(p) \/ (FetchFails(p) /\ MayExtend(p))
    <3>1. CASE FetchOk(p)
      <4>1. proc'[p].parent = ParentFor(Home[p], remote)
        <5>1. proc[p] \in Running
          BY <2>2, AtRunning
        <5>. QED
          BY <3>1, <5>1 DEF FetchOk, Builds, Shape, Running
      <4>. QED
        BY <3>1, <4>1 DEF FetchOk, ParentFor
    <3>2. CASE ProvedAbsent(p)
      BY <1>3, <3>2 DEF ProvedAbsent, RootGuarded, clone
    <3>3. CASE FetchFails(p) /\ MayExtend(p)
      <4>1. Builds(p, NoCommit) /\ local[Home[p]] # NoCommit
        BY <3>3 DEF FetchFails, MayExtend
      <4>2. proc'[p].parent = ParentFor(Home[p], NoCommit)
        <5>1. proc[p] \in Running
          BY <2>2, AtRunning
        <5>. QED
          BY <4>1, <5>1 DEF Builds, Shape, Running
      <4>3. IsPrefix(NoCommit, local[Home[p]])
        BY PrefixTrivial DEF Shape
      <4>. QED
        BY <4>1, <4>2, <4>3 DEF ParentFor
    <3>. QED
      BY <2>2, <3>1, <3>2, <3>3
  <2>. QED
    BY <1>3, <2>1, <2>2, StageFate DEF Arrives, Same, Commit, Expect, At
<1>. QED
  BY <1>1, <1>2, <1>3 DEF RootGuarded

LEMMA MovedBeyondRoot ==
  ASSUME Shape, RootGuarded, MaxCrashes = 0, [Next]_vars,
         NEW c \in Clones, tracking[c] # NoCommit, local'[c] # local[c]
  PROVE  Len(local'[c]) > 1
<1>1. PICK p \in Processes : MoveRef(p)
  BY FileSteps
<1>2. Home[p] = c /\ local'[c] = proc[p].head /\ proc[p].at = "move" /\ proc[p] \in Running
  BY <1>1, AtRunning, BranchAssumption DEF MoveRef, At, Shape
<1>3. proc[p].parent \in Seq(Tree) /\ proc[p].parent # NoCommit
  BY <1>2 DEF RootGuarded, Running, Commits
<1>4. Len(proc[p].parent) \in Nat \ {0}
  BY <1>3, EmptySeq DEF NoCommit
<1>. QED
  BY <1>2, <1>4 DEF RootGuarded

(* As long as no process is killed, a clone that has seen the remote       *)
(* branch never starts a second root (beatBody: a fetch that failed proves *)
(* no absence).                                                            *)
THEOREM NoSecondRootUnlessKilled == MaxCrashes = 0 => (Spec => NoSecondRoot)
<1>. SUFFICES ASSUME MaxCrashes = 0 PROVE Spec => NoSecondRoot
  OBVIOUS
<1>1. Shape /\ RootGuarded /\ [Next]_vars =>
        [\A c \in Clones : tracking[c] # NoCommit /\ local'[c] # local[c] => Len(local'[c]) > 1]_vars
  BY MovedBeyondRoot
<1>. QED
  BY <1>1, ShapeInit, ShapeStep, LockInit, LockStep, RootInit, RootStep, PTL
     DEF Spec, NoSecondRoot

-----------------------------------------------------------------------------
(* What a batch that is going to say ok carries is in what it pushes.      *)
Undisturbed == ~Overlap /\ MaxCrashes = 0

CarriesOn(p) ==
  LET c == Home[p] IN
  /\ proc[p].at = "build" => /\ IsPrefix(proc[p].base, remote)
                             /\ proc[p].parent \in {proc[p].base, local[c]}
  /\ proc[p].at \in {"expect", "move"} => TreeOf(proc[p].head)[c] = proc[p].carried
  /\ proc[p].at = "push" => TreeOf(local[c])[c] = proc[p].carried
  /\ proc[p].at \in {"release", "settle"} /\ Clear(proc[p].outcome) =>
       proc[p].carried \subseteq TreeOf(remote)[c]

Carried == Undisturbed => \A p \in Processes : CarriesOn(p)

LEMMA CarriedIsPublished == Carried => (Undisturbed => OkIsPublished)
  BY DEF Carried, CarriesOn, OkIsPublished

LEMMA CarriedInit == Init => Carried
  BY DEF Init, Carried, CarriesOn, Idle

(* No other process writes the local ref of a clone under a batch.         *)
LEMMA LocalIsHeld ==
  ASSUME Shape, LockHeld, MaxCrashes = 0, [Next]_vars, NEW p \in Processes, Held(p), ~MoveRef(p)
  PROVE  local'[Home[p]] = local[Home[p]]
<1>1. ASSUME NEW q \in Processes, MoveRef(q)
      PROVE  local'[Home[p]] = local[Home[p]]
  <2>1. Held(q)
    BY <1>1 DEF MoveRef, At, Held
  <2>2. Home[q] # Home[p]
    BY <1>1, <2>1 DEF LockHeld
  <2>. QED
    BY <1>1, <2>2, BranchAssumption DEF MoveRef, Shape
<1>. QED
  BY <1>1, FileSteps

LEMMA CarriedStep ==
  Shape /\ HistoriesSound /\ LockHeld /\ Carried /\ [Next]_vars => Carried'
<1>. SUFFICES ASSUME Shape, HistoriesSound, LockHeld, Carried, Undisturbed, [Next]_vars,
                     NEW p \in Processes
              PROVE  CarriesOn(p)'
  BY DEF Carried, Undisturbed
<1>. USE BranchAssumption DEF Undisturbed
<1>. DEFINE c == Home[p]
<1>1. IsPrefix(remote, remote') /\ TreeOf(remote)[c] \subseteq TreeOf(remote')[c]
  BY RemoteGrows
<1>2. CarriesOn(p)
  BY DEF Carried
<1>3. CASE proc'[p] = proc[p]
  <2>1. proc[p].at \in {"build", "push"} => local'[c] = local[c]
    <3>1. ~MoveRef(p) \/ proc[p].at = "move"
      BY DEF MoveRef, At
    <3>. QED
      BY <3>1, LocalIsHeld DEF Held
  <2>2. proc[p].at = "build" => IsPrefix(proc[p].base, remote')
    <3>1. ASSUME proc[p].at = "build"
          PROVE  IsPrefix(proc[p].base, remote')
      <4>1. proc[p] \in Running
        BY <3>1, AtRunning
      <4>2. proc[p].base \in Commits /\ remote \in Commits /\ remote' \in Commits
        BY <4>1, ShapeStep DEF Running, Shape
      <4>. QED
        BY <1>1, <1>2, <3>1, <4>2, PrefixTransitive DEF CarriesOn
    <3>. QED
      BY <3>1
  <2>. QED
    BY <1>1, <1>2, <1>3, <2>1, <2>2 DEF CarriesOn
<1>4. CASE /\ proc'[p].at = "build" /\ proc[p].at = "fetch"
           /\ proc'[p].base \in {NoCommit, remote}
           /\ proc'[p].parent = ParentFor(c, proc'[p].base)
  <2>1. local'[c] = local[c]
    BY <1>4, LocalIsHeld DEF Held, MoveRef, At
  <2>2. remote \in Commits /\ remote' \in Commits
    BY ShapeStep DEF Shape
  <2>3. IsPrefix(proc'[p].base, remote')
    BY <1>1, <1>4, <2>2, PrefixTrivial
  <2>. QED
    BY <1>4, <2>1, <2>3 DEF CarriesOn, ParentFor
<1>5. ASSUME proc[p].at = "build"
      PROVE  /\ proc[p] \in Running /\ proc[p].parent \in Commits
             /\ TreeOf(proc[p].parent) \in Tree /\ Written(p) \in Tree
             /\ Written(p)[c] = disk[c]
             /\ local'[c] = local[c]
  <2>1. proc[p] \in Running
    BY <1>5, AtRunning
  <2>2. Written(p) \in Tree /\ TreeOf(proc[p].parent) \in Tree
    BY <2>1, WrittenTree
  <2>3. local'[c] = local[c]
    BY <1>5, LocalIsHeld DEF Held, MoveRef, At
  <2>. QED
    BY <2>1, <2>2, <2>3 DEF Running, Written, Seed, Tree
<1>6. CASE /\ proc'[p].at = "expect" /\ Commit(p)
           /\ proc'[p].carried = disk[c] /\ proc'[p].head = Built(p)
  <2>1. proc[p].at = "build"
    BY <1>6 DEF Commit, At
  <2>2. TreeOf(Built(p)) = Written(p)
    BY <1>5, <2>1, AppendProperties, LenProperties DEF Built, TreeOf, Last, NoCommit, Commits
  <2>. QED
    BY <1>5, <1>6, <2>1, <2>2 DEF CarriesOn
<1>7. CASE /\ proc'[p].at = "push" /\ Replay(p) /\ proc'[p].carried = disk[c]
  <2>1. proc[p].at = "build" /\ Written(p) = TreeOf(proc[p].parent) /\ proc[p].parent = local[c]
    BY <1>2, <1>7 DEF Replay, At, Ahead, CarriesOn
  <2>. QED
    BY <1>5, <1>7, <2>1 DEF CarriesOn
<1>8. CASE /\ proc'[p].at = "release" /\ Unchanged(p) /\ proc'[p].carried = disk[c]
  <2>1. /\ proc[p].at = "build" /\ Written(p) = TreeOf(proc[p].parent)
        /\ proc[p].parent = proc[p].base /\ IsPrefix(proc[p].base, remote)
    BY <1>2, <1>8 DEF Unchanged, At, Ahead, CarriesOn
  <2>2. remote \in Commits /\ Sound(remote, disk)
    BY DEF Shape, HistoriesSound, InUse
  <2>3. TreeOf(proc[p].base)[c] \subseteq TreeOf(remote)[c]
    BY <1>5, <2>1, <2>2, SoundPrefix
  <2>. QED
    BY <1>1, <1>5, <1>8, <2>1, <2>3 DEF CarriesOn
<1>9. CASE proc'[p].at = "move" /\ Expect(p) /\ Same(p, {"head", "carried"})
  BY <1>2, <1>9 DEF CarriesOn, Same, Expect, At
<1>10. CASE /\ proc'[p].at = "push" /\ MoveRef(p) /\ Same(p, {"head", "carried"})
            /\ local'[c] = proc[p].head
  BY <1>2, <1>10 DEF CarriesOn, Same, MoveRef, At
<1>11. CASE proc'[p].at = "release" /\ PushOk(p) /\ Same(p, {"carried"})
  BY <1>2, <1>11 DEF CarriesOn, Same, PushOk, At
<1>12. CASE proc'[p].at = "settle" /\ Release(p) /\ Same(p, {"carried", "outcome"})
  BY <1>1, <1>2, <1>12 DEF CarriesOn, Same, Release, At
<1>13. CASE \/ proc'[p].at \in {"idle", "lock", "unlink", "relock", "fetch"}
            \/ proc'[p].at \in {"settle", "release"} /\ ~Clear(proc'[p].outcome)
  BY <1>13 DEF CarriesOn
<1>14. proc'[p].at \in {"idle", "lock", "unlink", "relock"} \/ Arrives(p)
  BY StageFate, ShapeStep DEF Shape, Waiting, Running
<1>15. ~Clear("refused")
  BY DEF Clear
<1>. QED
  BY <1>3, <1>4, <1>6, <1>7, <1>8, <1>9, <1>10, <1>11, <1>12, <1>13, <1>14, <1>15
     DEF Arrives, Same

(* Where no process is killed and commands do not overlap, what a batch    *)
(* reports as pushed, or as nothing to push, is on the remote.             *)
THEOREM OkMeansPublished == Spec => [](Undisturbed => OkIsPublished)
<1>. QED
  BY ShapeInit, ShapeStep, WritersInit, WritersStep, SoundInit, SoundStep, LockInit, LockStep,
     CarriedInit, CarriedStep, CarriedIsPublished, PTL DEF Spec

-----------------------------------------------------------------------------
(* Where commands wait for a batch of their clone to end, a batch that     *)
(* clears the marker has carried the whole shard.                          *)
LateMarked ==
  Undisturbed /\ ~Busy =>
    /\ \A p \in Processes :
         \/ proc[p].at \in {"expect", "move", "push"}
         \/ proc[p].at \in {"release", "settle"} /\ Clear(proc[p].outcome)
         => proc[p].carried = disk[Home[p]]
    /\ \A c \in Clones : disk[c] \subseteq TreeOf(remote)[c] \/ pending[c]

LEMMA LateInit == Init => LateMarked
  BY BranchAssumption, TipIs, PrefixTrivial DEF Init, LateMarked, Idle, NoCommit, EmptyTree

LEMMA LateIsMarked == LateMarked => (Undisturbed /\ ~Busy => LateNotLost)
  BY DEF LateMarked, LateNotLost

LEMMA LateStep ==
  Shape /\ HistoriesSound /\ Carried /\ LateMarked /\ [Next]_vars => LateMarked'
<1>. SUFFICES ASSUME Shape, HistoriesSound, Carried, LateMarked, Undisturbed, ~Busy, [Next]_vars
              PROVE  LateMarked'
  BY DEF LateMarked, Undisturbed
<1>. USE BranchAssumption DEF Undisturbed
<1>1. ASSUME NEW w \in Writers, AppendRecord(w), NEW p \in Processes, Home[p] = Home[w]
      PROVE  proc'[p] = Idle
  BY <1>1 DEF AppendRecord, Quiet
<1>2. ASSUME NEW p \in Processes, proc'[p] # Idle
      PROVE  disk'[Home[p]] = disk[Home[p]]
  <2>1. ASSUME NEW w \in Writers, AppendRecord(w)
        PROVE  disk'[Home[p]] = disk[Home[p]]
    <3>1. Home[w] # Home[p]
      BY <1>1, <1>2, <2>1
    <3>. QED
      BY <2>1, <3>1 DEF AppendRecord, Shape, Tree
  <2>. QED
    BY <2>1, FileSteps
<1>3. ASSUME NEW p \in Processes,
             \/ proc'[p].at \in {"expect", "move", "push"}
             \/ proc'[p].at \in {"release", "settle"} /\ Clear(proc'[p].outcome)
      PROVE  proc'[p].carried = disk'[Home[p]]
  <2>1. disk'[Home[p]] = disk[Home[p]]
    BY <1>2, <1>3 DEF Idle
  <2>2. Arrives(p)
    BY <1>3, StageFate
  <2>3. ~Clear("refused")
    BY DEF Clear
  <2>. QED
    BY <1>3, <2>1, <2>2, <2>3 DEF Arrives, Same, LateMarked, Expect, MoveRef, PushOk, Release, At
<1>4. ASSUME NEW c \in Clones
      PROVE  disk'[c] \subseteq TreeOf(remote')[c] \/ pending'[c]
  <2>1. TreeOf(remote)[c] \subseteq TreeOf(remote')[c]
    BY RemoteGrows
  <2>2. CASE disk' = disk /\ pending' = pending
    BY <2>1, <2>2 DEF LateMarked
  <2>3. ASSUME NEW w \in Writers, AppendRecord(w)
        PROVE  disk'[c] \subseteq TreeOf(remote')[c] \/ pending'[c]
    <3>1. CASE c = Home[w]
      BY <2>3, <3>1 DEF AppendRecord, Shape
    <3>2. CASE c # Home[w]
      BY <2>1, <2>3, <3>2 DEF AppendRecord, Shape, Tree, LateMarked
    <3>. QED
      BY <3>1, <3>2
  <2>4. ASSUME NEW p \in Processes, Settle(p), disk' = disk
        PROVE  disk'[c] \subseteq TreeOf(remote')[c] \/ pending'[c]
    <3>1. CASE c # Home[p]
      BY <2>1, <2>4, <3>1 DEF Settle, Shape, LateMarked
    <3>2. CASE c = Home[p] /\ ~Clear(proc[p].outcome)
      BY <2>4, <3>2 DEF Settle, Shape
    <3>3. CASE c = Home[p] /\ Clear(proc[p].outcome)
      <4>1. proc[p].carried = disk[c] /\ proc[p].carried \subseteq TreeOf(remote)[c]
        BY <2>4, <3>3 DEF Settle, At, LateMarked, Carried, CarriesOn
      <4>. QED
        BY <2>1, <2>4, <4>1
    <3>. QED
      BY <3>1, <3>2, <3>3
  <2>. QED
    BY <2>2, <2>3, <2>4, FileSteps
<1>. QED
  BY <1>3, <1>4 DEF LateMarked

(* Where moreover no record is written during a batch, what has not        *)
(* reached the remote has the marker by which the next session start       *)
(* commits it (state.pending).                                             *)
THEOREM LateRecordsAreMarked == Spec => [](Undisturbed /\ ~Busy => LateNotLost)
<1>. QED
  BY ShapeInit, ShapeStep, WritersInit, WritersStep, SoundInit, SoundStep, LockInit, LockStep,
     CarriedInit, CarriedStep, LateInit, LateStep, LateIsMarked, PTL DEF Spec
================================================================================
