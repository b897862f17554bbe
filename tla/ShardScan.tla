----------------------------- MODULE ShardScan -----------------------------
(***************************************************************************)
(* The read half of the durable layer (lib/shard-scan.js): a SessionStart  *)
(* hook scans the members' shards in the working tree and caches them,     *)
(* fetches the state branch, scans the fetched ref and caches the union;   *)
(* the first prompt of the session shows the block once, from the cache.   *)
(* The sessions of a project share the clone and the cache file.           *)
(***************************************************************************)
EXTENDS FiniteSetsExt, Naturals

CONSTANTS
  Sessions,
  Members,       \* numbered in the order of the names of their shards
  Self,          \* the reader: the only member whose email is recorded here
  Stamps,        \* the times of records
  MaxShards,     \* MAX_SHARDS
  MaxRecords,    \* MAX_RECORDS_PER_SHARD
  LearnedCap     \* LEARNED_CAP

ASSUME ScanAssumption ==
  /\ IsFiniteSet(Members) /\ Members \subseteq Nat /\ Self \in Members
  /\ IsFiniteSet(Stamps) /\ Stamps \subseteq Nat
  /\ {MaxShards, MaxRecords, LearnedCap} \subseteq Nat \ {0}

VARIABLES
  disk,       \* each member's shard in the working tree
  branch,     \* each member's shard on the state branch
  foreign,    \* the carriers on which the reader's shard is seen to be committed by another
  enabled,    \* the state branch was opted in to
  ref,        \* the remote-tracking ref: "none", "old" or "new"
  cache,      \* knowledge.json
  at,         \* where each session's hook is
  look,       \* how much of the working tree each session's scan could read
  note,       \* the cache a hook has read to annotate
  shown,      \* the entries of the block each session was shown, and its "+N more"
  latched     \* knowledge.injected.json

world == <<disk, branch, foreign, enabled>>
scanVars == <<world, ref, cache, at, look, note, shown, latched>>

Shards == [Members -> SUBSET Stamps]
NoShards == [m \in Members |-> {}]

\* Whether the listing of the working tree works, and the shards that cannot be read.
Looks == [listed : BOOLEAN, gone : SUBSET Members]
NoLook == [listed |-> TRUE, gone |-> {}]

NoSession == "nobody"
NoCache == [session |-> NoSession, of |-> "none", records |-> NoShards,
            unread |-> {}, cut |-> 0, dropped |-> 0, excluded |-> 0, told |-> FALSE]

Caches == [session : Sessions \cup {NoSession}, of : {"none", "tree", "old", "new"},
           records : Shards, unread : SUBSET Members, cut : Nat, dropped : Nat,
           excluded : Nat, told : BOOLEAN]

TypeOK ==
  /\ disk \in Shards /\ branch \in Shards
  /\ foreign \in SUBSET {"tree", "ref"} /\ enabled \in BOOLEAN
  /\ ref \in {"none", "old", "new"}
  /\ cache \in Caches
  /\ at \in [Sessions -> {"new", "fetch", "ref", "note", "done"}]
  /\ note \in [Sessions -> Caches]
  /\ look \in [Sessions -> Looks]
  /\ shown \in [Sessions -> [entries : Nat, more : Nat]]
  /\ latched \in SUBSET Sessions

Init ==
  /\ disk \in Shards /\ branch \in Shards
  /\ foreign \in SUBSET {"tree", "ref"}
  /\ enabled \in BOOLEAN
  /\ ref \in {"none", "old"}
  /\ cache = NoCache
  /\ at = [s \in Sessions |-> "new"]
  /\ note = [s \in Sessions |-> NoCache]
  /\ look = [s \in Sessions |-> NoLook]
  /\ shown = [s \in Sessions |-> [entries |-> 0, more |-> 0]]
  /\ latched = {}

-----------------------------------------------------------------------------
(***************************************************************************)
(* Scans.  A scan reads the first MAX_SHARDS shards, keeps the newest      *)
(* records of each, and none of one that somebody else committed last.     *)
(***************************************************************************)
\* The ref before the fetch has the oldest record of each shard.
Behind == [m \in Members |-> branch[m] \cap {Min(Stamps)}]
OnRef(which) == IF which = "old" THEN Behind ELSE branch

\* The files there are, and those that the listing leaves out.
Files(shards) == {m \in Members : shards[m] # {}}

Cut(shards) == {m \in Files(shards) : Cardinality({k \in Files(shards) : k < m}) >= MaxShards}

Newest(stamps, n) ==
  {x \in stamps : Cardinality({y \in stamps : y > x}) < n}

\* The number of records in all the shards together.
Total(shards) == Cardinality({r \in Members \X Stamps : r[2] \in shards[r[1]]})

\* What is read of a carrier, where some shards cannot be handed back.
Read(shards, gone) ==
  LET left == gone \cup Cut(shards)
  IN  [m \in Members |-> IF m \in left THEN {} ELSE shards[m]]

\* scanShards.  On the ref a shard that cannot be read is counted; in the working
\* tree it reads as an empty one, and a listing that fails as no shards.
Scan(shards, gone, counted, clean) ==
  LET read == Read(shards, gone)
      kept == [m \in Members |-> Newest(read[m], MaxRecords)]
      out == [m \in Members |-> m = Self /\ ~clean]
  IN  [records |-> [m \in Members |-> IF out[m] THEN {} ELSE kept[m]],
       unread |-> IF counted THEN gone ELSE {},
       cut |-> Cardinality(Cut(shards)),
       dropped |-> Total([m \in Members |-> read[m] \ kept[m]]),
       excluded |-> Total([m \in Members |-> IF out[m] THEN kept[m] ELSE {}])]

Tree(as) == IF as.listed THEN disk ELSE NoShards
ScanOfTree(as) == Scan(Tree(as), as.gone, FALSE, "tree" \notin foreign)
TreeScan(s) == ScanOfTree(look[s])
RefScan(which, unread) == Scan(OnRef(which), unread, TRUE, "ref" \notin foreign)

\* What the working tree has over the ref, and what the cap leaves of its room.
Fresh(tree, over) == [m \in Members |-> tree.records[m] \ over.records[m]]
Room(over, m) == MaxRecords - Cardinality(over.records[m])

\* Deviation: the ref's scan replaces the working tree's.
Merged_Replaced(tree, over) == over

\* Deviation: what the cap of the union drops is not counted.
Merged_Uncounted(tree, over) ==
  [over EXCEPT !.records = [m \in Members |->
     over.records[m] \cup Newest(Fresh(tree, over)[m], Room(over, m))],
   !.dropped = tree.dropped + @, !.excluded = tree.excluded + @]

\* mergeScans: per member the records of the ref, and of the working tree what
\* the ref has not, newest first, as far as the cap has room for them.  Of the two
\* counts of shards left out it takes the larger.
Merged(tree, over) ==
  LET fresh == Fresh(tree, over)
      added == [m \in Members |-> Newest(fresh[m], Room(over, m))]
  IN  [records |-> [m \in Members |-> over.records[m] \cup added[m]],
       unread |-> over.unread,
       cut |-> IF tree.cut > over.cut THEN tree.cut ELSE over.cut,
       dropped |-> tree.dropped + over.dropped
                   + Total([m \in Members |-> fresh[m] \ added[m]]),
       excluded |-> tree.excluded + over.excluded]

Cached(s, of, scan) ==
  [session |-> s, of |-> of, records |-> scan.records, unread |-> scan.unread,
   cut |-> scan.cut, dropped |-> scan.dropped, excluded |-> scan.excluded, told |-> FALSE]

-----------------------------------------------------------------------------
(***************************************************************************)
(* sessionStartScan.                                                       *)
(***************************************************************************)
\* The working-tree scan is cached first, whatever comes after.  The hook keeps it
\* for the union with the ref's.
ScanTree(s) ==
  /\ at[s] = "new"
  /\ \E as \in Looks :
       /\ look' = [look EXCEPT ![s] = as]
       /\ cache' = Cached(s, "tree", ScanOfTree(as))
  /\ at' = [at EXCEPT ![s] = "fetch"]
  /\ UNCHANGED <<world, ref, note, shown, latched>>

\* The fetch runs only where it was opted in to, and may fail or be abandoned.
Fetch(s) ==
  /\ at[s] = "fetch"
  /\ ref' \in IF enabled THEN {ref, "new"} ELSE {ref}
  /\ at' = [at EXCEPT ![s] = "ref"]
  /\ UNCHANGED <<world, cache, look, note, shown, latched>>

\* The ref answers; shards it cannot hand back in time are counted.
ScanRef(s) ==
  /\ at[s] = "ref" /\ ref # "none"
  /\ \E unread \in SUBSET Members :
       cache' = Cached(s, ref, Merged(TreeScan(s), RefScan(ref, unread)))
  /\ at' = [at EXCEPT ![s] = "done"]
  /\ UNCHANGED <<world, ref, look, note, shown, latched>>

\* Deviation: the empty scan of a ref that could not be read is cached.
Unreadable_Cached(s) == [NoCache EXCEPT !.session = s, !.told = TRUE]

\* The ref does not resolve, or cannot be read within the budget: the cache is
\* read, and written back with the reason.
Unreadable(s) == [cache EXCEPT !.told = TRUE]

NoteRead(s) ==
  /\ at[s] = "ref"
  /\ note' = [note EXCEPT ![s] = Unreadable(s)]
  /\ at' = [at EXCEPT ![s] = "note"]
  /\ UNCHANGED <<world, ref, cache, look, shown, latched>>

NoteWrite(s) ==
  /\ at[s] = "note"
  /\ cache' = note[s]
  /\ note' = [note EXCEPT ![s] = NoCache]
  /\ at' = [at EXCEPT ![s] = "done"]
  /\ UNCHANGED <<world, ref, look, shown, latched>>

\* The watchdog or the host ends the hook.
Kill(s) ==
  /\ at[s] \in {"fetch", "ref", "note"}
  /\ note' = [note EXCEPT ![s] = NoCache]
  /\ at' = [at EXCEPT ![s] = "done"]
  /\ UNCHANGED <<world, ref, cache, look, shown, latched>>

-----------------------------------------------------------------------------
\* injectKnowledge reads only its own session's scan.
Own(s) == cache.session = s

\* A prompt, at any time: the block is printed once, and latched on the print.  It
\* has LEARNED_CAP entries, which ones depends on the files of the reader's claims
\* and on their age (rankLearned), and counts the rest in "+N more".
Prompt(s) ==
  LET found == Total(cache.records)
      fit == IF found > LearnedCap THEN LearnedCap ELSE found
  IN  /\ s \notin latched
      /\ Own(s) /\ found > 0
      /\ shown' = [shown EXCEPT ![s] = [entries |-> fit, more |-> found - fit]]
      /\ latched' = latched \cup {s}
      /\ UNCHANGED <<world, ref, cache, at, look, note>>

Step(s) ==
  \/ ScanTree(s) \/ Fetch(s) \/ ScanRef(s) \/ NoteRead(s) \/ NoteWrite(s) \/ Kill(s) \/ Prompt(s)

Next == \E s \in Sessions : Step(s)

Spec == Init /\ [][Next]_scanVars

-----------------------------------------------------------------------------
\* What a scan of the cache has read, and what of it the cache lacks.
FromRef == cache.of \in {"old", "new"}
Missing ==
  LET as == look[cache.session]
      onDisk == Read(Tree(as), as.gone)
      onRef == Read(OnRef(cache.of), cache.unread)
  IN  [m \in Members |-> (onDisk[m] \cup (IF FromRef THEN onRef[m] ELSE {})) \ cache.records[m]]

\* A record that was read is in the cache, or what dropped it is counted there: the
\* caps of both halves and of their union, and another's commit.  The shards beyond
\* the limit of the listing are counted for each carrier, though not for the two
\* together; those of the working tree that could not be read are not (README 7).
NothingLostSilently ==
  cache.session # NoSession =>
    /\ Total(Missing) <= cache.dropped + cache.excluded
    /\ Cardinality(Cut(Tree(look[cache.session]))) <= cache.cut
    /\ FromRef => Cardinality(Cut(OnRef(cache.of))) <= cache.cut

\* The block a session is shown has at least as many entries, up to its cap and with
\* those it announces beyond it, as its scan of the working tree alone would have
\* given it, whatever the fetched ref holds (mergeScans, "never shorter than either
\* carrier alone") and whatever other sessions have written over the cache.
NeverShorter ==
  \A s \in latched :
    LET own == Total(TreeScan(s).records)
    IN  /\ shown[s].entries + shown[s].more >= own
        /\ shown[s].entries >= IF own > LearnedCap THEN LearnedCap ELSE own

\* A session's own scan is cached from the moment its hook has run it, and what
\* then becomes of the ref never takes a member's records away: as long as no
\* other session's hook has started, which scans over it.
BlockWaits ==
  \A s \in Sessions :
    (at[s] # "new" /\ \A t \in Sessions \ {s} : at[t] = "new") =>
      LET own == TreeScan(s).records
      IN  /\ cache.session = s
          /\ \A m \in Members : Cardinality(cache.records[m]) >= Cardinality(own[m])
=============================================================================
