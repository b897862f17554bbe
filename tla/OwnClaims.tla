----------------------------- MODULE OwnClaims -----------------------------
(***************************************************************************)
(* What each member believes it holds (own_claims in its state file)       *)
(* against what the transport shows the others: the claim and release      *)
(* commands (bin/handshake.js), the beat's local renewal                   *)
(* (monitors/heartbeat.js), the sync into the peer cache and the           *)
(* re-adoption at session start (hooks/sync.js).  On the relay the         *)
(* transport is a lease table, on ntfy the last presence of each member.   *)
(***************************************************************************)
EXTENDS Naturals, FiniteSets

CONSTANTS
  Members,      \* ids; their order is the order of the numbers
  Subjects,
  Ttl,          \* of every claim
  MaxClock,     \* bound on time
  MaxCommands,  \* bound on the claims asked for and on the states lost
  MaxBodies     \* bound on the presences of a member under way at once

ASSUME OwnAssumption ==
  /\ Members \subseteq Nat /\ {Ttl, MaxCommands, MaxBodies} \subseteq Nat
  /\ MaxClock \in Nat \ {0}

VARIABLES
  relayed,      \* the transport of the workspace
  clock,
  own,          \* own_claims: a row per subject ever claimed and not released
  table,        \* relay: the rows of the lease table
  posted,       \* ntfy: the claims of each member's last presence, and when
  cache,        \* peers.json: the claims of the last sync
  command,      \* the claim command waiting for the transport
  renewing,     \* own rows read by a beat or a tool hook, not yet written back
  adopting,     \* own rows in the sync answer of a session start under way
  bodies,       \* ntfy: presence bodies built, waiting in a send or in the queue
  dropping,     \* releases under way: heard by the relay and not answered; on
                \* ntfy out of own_claims, the presence without them to come
  overlapped,   \* history: a release ran while rows read before it were held
  released,     \* history: released by the user and not claimed again
  revived,      \* history: an own claim came back with the age of an earlier one
  commands

ownVars == <<relayed, clock, own, table, posted, cache, command, renewing, adopting,
             bodies, dropping, overlapped, released, revived, commands>>
history == <<overlapped, released, revived>>
remote == <<table, posted>>

None == [acquired |-> 0, renewed |-> 0]
Row == [acquired : 1..MaxClock, renewed : 1..MaxClock]
Claimed == [owner : Members, key : Subjects, acquired : 1..MaxClock, renewed : 1..MaxClock]
Idle == {}

\* The expiry test of PROTOCOL 5.3; a row that was never there is not live.
LiveRow(r) == r.renewed > 0 /\ r.renewed + Ttl > clock

\* getOwnClaims: an expired row stays in the file and is left out.
OwnLive(m) == {k \in Subjects : LiveRow(own[m][k])}

\* Deviation: the claim's own acquired_at wins over the stored one.
AddOwnClaim_Overwrites(row, acquired) == [acquired |-> acquired, renewed |-> clock]

\* addOwnClaim: a stored row, expired or not, keeps its acquired_at.
AddOwnClaim(row, acquired) ==
  [acquired |-> IF row # None THEN row.acquired ELSE acquired, renewed |-> clock]

\* Deviation: of two claims of one age neither loses.
LosesTiebreak_NoTie(mine, me, theirs, peer) == theirs < mine

\* Does the first of two claims of a subject lose?
LosesTiebreak(mine, me, theirs, peer) ==
  theirs < mine \/ (theirs = mine /\ peer < me)

\* The claims the transport reports to a sync.
Reported ==
  IF relayed
  THEN {c \in table : LiveRow(c)}
  ELSE UNION {posted[m] : m \in Members}

\* The live own claims with their ages: what a presence body carries in full
\* (presenceBodyFor), and what a beat or a hook renews.
LiveRows(m) == {[key |-> k, acquired |-> own[m][k].acquired] : k \in OwnLive(m)}

\* Deviation: a presence adds to what was published before.
PresenceOf_Union(m, body) == posted[m] \cup
  {[owner |-> m, key |-> r.key, acquired |-> r.acquired, renewed |-> clock] : r \in body}

\* A body becomes the member's last presence, dated when it is received.
PresenceOf(m, body) ==
  {[owner |-> m, key |-> r.key, acquired |-> r.acquired, renewed |-> clock] : r \in body}

Init ==
  /\ relayed \in BOOLEAN
  /\ clock = 1
  /\ own = [m \in Members |-> [k \in Subjects |-> None]]
  /\ table = {}
  /\ posted = [m \in Members |-> {}]
  /\ cache = [m \in Members |-> {}]
  /\ command = [m \in Members |-> Idle]
  /\ renewing = [m \in Members |-> Idle]
  /\ adopting = [m \in Members |-> Idle]
  /\ bodies = [m \in Members |-> {}]
  /\ dropping = [m \in Members |-> {}]
  /\ overlapped = [m \in Members |-> {}]
  /\ released = [m \in Members |-> {}]
  /\ revived = FALSE
  /\ commands = 0

-----------------------------------------------------------------------------
\* cmdClaim, up to the transport's answer.  A live own row makes it a renewal
\* that asks for the stored age; an expired one is a new acquisition.
AskedAge(m, k) == IF k \in OwnLive(m) THEN own[m][k].acquired ELSE clock

\* On the relay the server decides, and the own row waits for its answer.
ClaimAtRelay(m, k) ==
  LET live == {c \in table : LiveRow(c)}
      held == {c \in live : c.key = k}
      age == IF held = {} THEN AskedAge(m, k) ELSE (CHOOSE c \in held : TRUE).acquired
  IN /\ relayed
     /\ \A c \in held : c.owner = m
     /\ table' = (live \ held) \cup
                   {[owner |-> m, key |-> k, acquired |-> age, renewed |-> clock]}
     /\ command' = [command EXCEPT ![m] = {[key |-> k, acquired |-> age]}]
     /\ UNCHANGED <<own, posted>>

\* On ntfy a live claim of a peer in the cache refuses a new one; otherwise
\* the own row is written first and the presence follows.
PeerHolds(m, k) == \E c \in cache[m] : c.key = k /\ c.owner # m /\ LiveRow(c)

ClaimOnNtfy(m, k) ==
  /\ ~relayed
  /\ k \in OwnLive(m) \/ ~PeerHolds(m, k)
  /\ own' = [own EXCEPT ![m][k] = AddOwnClaim(@, AskedAge(m, k))]
  /\ command' = [command EXCEPT ![m] = {[key |-> k, acquired |-> AskedAge(m, k)]}]
  /\ UNCHANGED remote

Claim(m, k) ==
  /\ command[m] = Idle /\ commands < MaxCommands
  /\ ClaimAtRelay(m, k) \/ ClaimOnNtfy(m, k)
  /\ released' = [released EXCEPT ![m] = @ \ {k}]
  /\ dropping' = IF relayed THEN dropping ELSE [dropping EXCEPT ![m] = @ \ {k}]
  /\ revived' = (revived \/ (~relayed /\ own'[m][k].acquired < AskedAge(m, k)))
  /\ commands' = commands + 1
  /\ UNCHANGED <<relayed, clock, cache, renewing, adopting, bodies, overlapped>>

\* A presence body is built from the own rows, and then waits: for the drain
\* of the queue before it and for its own post, or in the queue.
Build(m) ==
  /\ Cardinality(bodies[m]) < MaxBodies
  /\ bodies' = [bodies EXCEPT ![m] = @ \cup {LiveRows(m)}]

\* The relay's answer is written to own_claims; on ntfy
\* (refreshAdvisoryPresence) the presence follows the claim.
ClaimAnswered(m) ==
  /\ command[m] # Idle
  /\ IF relayed
     THEN /\ \E c \in command[m] :
               /\ own' = [own EXCEPT ![m][c.key] = AddOwnClaim(@, c.acquired)]
               /\ revived' = (revived \/ own'[m][c.key].acquired < c.acquired)
          /\ UNCHANGED bodies
     ELSE Build(m) /\ UNCHANGED <<own, revived>>
  /\ command' = [command EXCEPT ![m] = Idle]
  /\ UNCHANGED <<relayed, clock, remote, cache, renewing, adopting, dropping, overlapped,
                 released, commands>>

\* The answer does not arrive, or the claim is queued and no presence built.
ClaimUnanswered(m) ==
  /\ command[m] # Idle
  /\ command' = [command EXCEPT ![m] = Idle]
  /\ UNCHANGED <<relayed, clock, own, remote, cache, renewing, adopting, bodies, dropping,
                 history, commands>>

\* A row of k that a process of m, or a presence under way, still holds.
InHand(m, k) ==
  \E r \in (IF relayed THEN command[m] ELSE {}) \cup renewing[m] \cup adopting[m]
            \cup UNION bodies[m] : r.key = k

\* The transport has heard that m released these.
Heard(m, keys) ==
  /\ released' = [released EXCEPT ![m] = @ \cup keys]
  /\ overlapped' = [overlapped EXCEPT ![m] = (@ \ keys) \cup {k \in keys : InHand(m, k)}]
  /\ dropping' = [dropping EXCEPT ![m] = @ \ keys]

Leased(m, k) == \E c \in table : c.owner = m /\ c.key = k

\* release and done on the relay: the lease goes, the answer is awaited ...
ReleaseAtRelay(m, k) ==
  /\ relayed /\ (own[m][k] # None \/ Leased(m, k))
  /\ table' = {c \in table : c.owner # m \/ c.key # k}
  /\ dropping' = [dropping EXCEPT ![m] = @ \cup {k}]
  /\ UNCHANGED <<relayed, clock, own, posted, cache, command, renewing, adopting, bodies,
                 history, commands>>

\* ... and the own row goes, unless the answer was lost and the command is
\* release.  A claim made meanwhile has the lease again.
ReleaseAnswered(m, k) ==
  /\ relayed /\ k \in dropping[m]
  /\ own' = [own EXCEPT ![m][k] = None]
  /\ IF Leased(m, k)
     THEN dropping' = [dropping EXCEPT ![m] = @ \ {k}] /\ UNCHANGED <<released, overlapped>>
     ELSE Heard(m, {k})
  /\ UNCHANGED <<relayed, clock, remote, cache, command, renewing, adopting, bodies,
                 revived, commands>>

ReleaseUnanswered(m, k) ==
  /\ relayed /\ k \in dropping[m]
  /\ dropping' = [dropping EXCEPT ![m] = @ \ {k}]
  /\ UNCHANGED <<relayed, clock, own, remote, cache, command, renewing, adopting, bodies,
                 history, commands>>

\* On ntfy the own row goes first, and the presence without it follows (of
\* refreshAdvisoryPresence, or after done of the next beat); done on a relay
\* that cannot be reached drops the own row, and the lease stays.
ReleaseOwn(m, k) ==
  /\ own[m][k] # None
  /\ own' = [own EXCEPT ![m][k] = None]
  /\ dropping' = IF relayed THEN dropping ELSE [dropping EXCEPT ![m] = @ \cup {k}]
  /\ UNCHANGED <<relayed, clock, remote, cache, command, renewing, adopting, bodies,
                 history, commands>>

-----------------------------------------------------------------------------
\* The presence of a beat: the relay renews every live lease of the member;
\* for ntfy the body is built ...
BeatPost(m) ==
  /\ IF relayed
     THEN LET live == {c \in table : LiveRow(c)}
              mine == {c \in live : c.owner = m}
          IN /\ table' = (live \ mine) \cup {[c EXCEPT !.renewed = clock] : c \in mine}
             /\ UNCHANGED bodies
     ELSE Build(m) /\ UNCHANGED table
  /\ UNCHANGED <<relayed, clock, own, posted, cache, command, renewing, adopting, dropping,
                 history, commands>>

\* ... and arrives at any later time, after newer ones too; when its answer is
\* lost it goes to the queue, and arrives again.  A body without a claim that
\* was dropped is how the transport hears of the release.
Deliver(m) == \E body \in bodies[m] :
  /\ posted' = [posted EXCEPT ![m] = PresenceOf(m, body)]
  /\ bodies' \in {bodies, [bodies EXCEPT ![m] = @ \ {body}]}
  /\ Heard(m, {k \in dropping[m] : own[m][k] = None /\ \A r \in body : r.key # k})
  /\ UNCHANGED <<relayed, clock, own, table, cache, command, renewing, adopting, revived,
                 commands>>

\* ... or never: refused, expired in the queue, or its process killed.
Undelivered(m) == \E body \in bodies[m] :
  /\ bodies' = [bodies EXCEPT ![m] = @ \ {body}]
  /\ UNCHANGED <<relayed, clock, own, remote, cache, command, renewing, adopting, dropping,
                 history, commands>>

\* renewLocal after a beat, fold, and appendOwn after a tool: the live rows
\* are read ...
RenewRead(m) ==
  /\ renewing[m] = Idle /\ adopting[m] = Idle /\ OwnLive(m) # {}
  /\ renewing' = [renewing EXCEPT ![m] = LiveRows(m)]
  /\ UNCHANGED <<relayed, clock, own, remote, cache, command, adopting, bodies, dropping,
                 history, commands>>

\* ... and written back, one addOwnClaim each: one released meanwhile returns.
RenewWrite(m) ==
  /\ renewing[m] # Idle
  /\ own' = [own EXCEPT ![m] = [k \in Subjects |->
       IF \E r \in renewing[m] : r.key = k
       THEN AddOwnClaim(own[m][k], (CHOOSE r \in renewing[m] : r.key = k).acquired)
       ELSE own[m][k]]]
  /\ renewing' = [renewing EXCEPT ![m] = Idle]
  /\ revived' = (revived \/ \E r \in renewing[m] : ~LiveRow(own[m][r.key]))
  /\ UNCHANGED <<relayed, clock, remote, cache, command, adopting, bodies, dropping,
                 overlapped, released,
                 commands>>

\* refresh: the claims reported are the new peer cache (the own ones, only
\* displayed, are left out).
PeersIn(m, claims) == {c \in claims : c.owner # m /\ LiveRow(c)}

Sync(m) ==
  /\ cache' = [cache EXCEPT ![m] = PeersIn(m, Reported)]
  /\ UNCHANGED <<relayed, clock, own, remote, command, renewing, adopting, bodies,
                 dropping, history, commands>>

\* A session start refreshes the cache ...
StartSync(m) ==
  /\ adopting[m] = Idle /\ renewing[m] = Idle
  /\ cache' = [cache EXCEPT ![m] = PeersIn(m, Reported)]
  /\ adopting' = [adopting EXCEPT ![m] = {c \in Reported : c.owner = m /\ LiveRow(c)}]
  /\ UNCHANGED <<relayed, clock, own, remote, command, renewing, bodies, dropping, history,
                 commands>>

\* Deviation: a later local age is not dropped for the transport's.
Readopt_Local(row, acquired) == AddOwnClaim(row, acquired)

\* reconcileOwnClaims, one row: of two ages the earlier is kept.
Readopt(row, acquired) ==
  IF LiveRow(row) /\ row.acquired > acquired
  THEN AddOwnClaim(None, acquired) ELSE AddOwnClaim(row, acquired)

\* ... and re-adopts the own claims that the transport still reported.
Adopt(m) ==
  /\ adopting[m] # Idle
  /\ own' = [own EXCEPT ![m] = [k \in Subjects |->
       IF \E r \in adopting[m] : r.key = k
       THEN Readopt(own[m][k], (CHOOSE r \in adopting[m] : r.key = k).acquired)
       ELSE own[m][k]]]
  /\ adopting' = [adopting EXCEPT ![m] = Idle]
  /\ revived' = (revived \/ \E r \in adopting[m] :
       ~LiveRow(own[m][r.key]) \/ own'[m][r.key].acquired # own[m][r.key].acquired)
  /\ UNCHANGED <<relayed, clock, remote, cache, command, renewing, bodies, dropping,
                 overlapped, released,
                 commands>>

\* The state file is lost or unreadable: it reads as empty.
StateLost(m) ==
  /\ commands < MaxCommands
  /\ own' = [own EXCEPT ![m] = [k \in Subjects |-> None]]
  /\ cache' = [cache EXCEPT ![m] = {}]
  /\ commands' = commands + 1
  /\ UNCHANGED <<relayed, clock, remote, command, renewing, adopting, bodies, dropping,
                 history>>

Tick ==
  /\ clock < MaxClock
  /\ clock' = clock + 1
  /\ UNCHANGED <<relayed, own, remote, cache, command, renewing, adopting, bodies,
                 dropping, history, commands>>

Next ==
  \/ Tick
  \/ \E m \in Members :
       \/ \E k \in Subjects : Claim(m, k) \/ ReleaseAtRelay(m, k) \/ ReleaseAnswered(m, k)
                             \/ ReleaseUnanswered(m, k) \/ ReleaseOwn(m, k)
       \/ ClaimAnswered(m) \/ ClaimUnanswered(m)
       \/ BeatPost(m) \/ Deliver(m) \/ Undelivered(m) \/ RenewRead(m) \/ RenewWrite(m)
       \/ Sync(m) \/ StartSync(m) \/ Adopt(m) \/ StateLost(m)

Spec == Init /\ [][Next]_ownVars

-----------------------------------------------------------------------------
\* The state file, the lease table, the presences and the caches keep their shape.
TypeOK ==
  /\ clock \in 1..MaxClock
  /\ own \in [Members -> [Subjects -> Row \cup {None}]]
  /\ table \subseteq Claimed
  /\ posted \in [Members -> SUBSET Claimed]
  /\ cache \in [Members -> SUBSET Claimed]

\* What a user released is not held again, from when the transport has heard of
\* it until it is claimed again: no beat, tool hook or session start brings it
\* back.  It does not cover a release heard while something read before it was
\* still under way: a beat's or a hook's rows, a session start's answer, and on
\* ntfy a presence built before, which may arrive after and be re-adopted.
ReleasedStays ==
  \A m \in Members : \A k \in released[m] \ overlapped[m] : own[m][k] = None

\* The age of a live own claim is the tiebreak's input: nothing makes it
\* younger (PROTOCOL 5.3), and a re-adoption leaves it no younger than what the
\* transport remembered (reconcileOwnClaims).
AgeOnlyRewinds ==
  [][\A m \in Members : \A k \in Subjects :
       /\ LiveRow(own[m][k]) /\ own'[m][k] # None => own'[m][k].acquired <= own[m][k].acquired
       /\ \A r \in adopting[m] :
            /\ r.key = k /\ adopting'[m] = Idle
            /\ own[m][k] = None \/ LiveRow(own[m][k])
            => own'[m][k].acquired <= r.acquired]_ownVars

\* The notice of a double claim that m reads about n (buildView).
ToldOf(m, k, n) == {c \in cache[m] : c.key = k /\ c.owner = n /\ k \in OwnLive(m) /\ LiveRow(c)}
ToldToWin(m, k, n) ==
  \E c \in ToldOf(m, k, n) : ~LosesTiebreak(own[m][k].acquired, m, c.acquired, n)
ToldToLose(m, k, n) ==
  \E c \in ToldOf(m, k, n) : LosesTiebreak(own[m][k].acquired, m, c.acquired, n)

\* Two members that claimed a subject at once, and each see the other's claim,
\* are never both told to keep it, unless a claim came back with an earlier
\* claim's age (losesTiebreak, hooks/common.js buildView; PROTOCOL 5.4).
NeverBothKeep ==
  ~revived => \A m, n \in Members, k \in Subjects :
    m # n => ~(ToldToWin(m, k, n) /\ ToldToWin(n, k, m))
=============================================================================
