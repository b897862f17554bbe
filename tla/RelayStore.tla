----------------------------- MODULE RelayStore -----------------------------
(***************************************************************************)
(* The tables of one workspace Durable Object (relay/src/do/workspace.js)  *)
(* and the facts every handler reads from them.  A handler of the object   *)
(* runs without interruption between two awaits; the only awaits that      *)
(* separate a decision from the write it justifies are the key-derivation  *)
(* ones of join, rotate and rebind, so those handlers leave a record in    *)
(* `inflight`.  Every other handler authenticates and acts in one stretch. *)
(*                                                                         *)
(* `now` is read on entry to dispatch, before the digest await of the      *)
(* authentication, so a handler may act on a time up to MaxLag old.        *)
(***************************************************************************)
EXTENDS Naturals, FiniteSets

CONSTANTS
  MemberIds,     \* ids newMemberId can mint
  Names,         \* member names a join may ask for
  Subjects,      \* normalized subject keys
  Types,         \* envelope types the relay carries
  Nobody,        \* not a member id: the owner of an unclaimed subject
  NoName,        \* not a name: the name of a row that does not exist
  MaxMembers,    \* MAX_MEMBERS
  MaxClaims,     \* MAX_CLAIMS
  MaxTtl,        \* CLAIM_TTL_MAX_SECONDS
  MessageMax,    \* MESSAGE_MAX
  MessageTtl,    \* MESSAGE_TTL_SECONDS
  MaxGrace,      \* largest grace a rotation may ask for
  MaxClock,      \* bound: the last instant of the run
  MaxLag,        \* bound: how long a handler may wait on its digest
  MaxSeq,        \* bound: messages ever stored
  MaxClientSeq,  \* bound: sender_seq values a member uses
  MaxMinted,     \* bound: credentials minted by rotations and rebinds
  MaxInflight    \* bound: handlers suspended at a digest

ASSUME NumbersAssumption ==
  /\ {MaxMembers, MaxClaims, MaxTtl, MessageMax, MessageTtl, MaxGrace} \subseteq Nat
  /\ {MaxClock, MaxLag, MaxSeq, MaxClientSeq, MaxMinted, MaxInflight} \subseteq Nat
ASSUME NamesAssumption == Nobody \notin MemberIds /\ NoName \notin Names

VARIABLES
  phase,     \* "none" before init, "live", "destroyed" once the tables are dropped
  enroll,    \* the enroll_hash, enroll_prev_hash and enroll_prev_expires keys of meta
  nextSeq,   \* the next_seq key of meta
  members,   \* the members table, indexed by member_id
  presence,  \* the member_ids with a presence row
  claims,    \* the claims table, indexed by subject_key
  messages,  \* the messages table
  inflight,  \* handlers suspended between their check and their write
  minted,    \* credentials minted so far (the source of fresh ones)
  clock      \* Date.now()

metaVars == <<phase, enroll, minted>>
vars == <<phase, enroll, nextSeq, members, presence, claims, messages, inflight, minted, clock>>

-----------------------------------------------------------------------------
(* Rows.  Enrollment tokens are numbered in the order they are minted, 0   *)
(* being the one init returns; a member secret likewise, 0 being join's.   *)

Row == [status: {"absent", "active", "revoked"}, name: Names \cup {NoName},
        secret: Nat, cursor: Nat]
NoRow == [status |-> "absent", name |-> NoName, secret |-> 0, cursor |-> 0]

Lease == [owner: MemberIds \cup {Nobody}, acquired: Nat, renewed: Nat, ttl: Nat]
Free == [owner |-> Nobody, acquired |-> 0, renewed |-> 0, ttl |-> 0]

Message == [seq: Nat, sender: MemberIds, type: Types, client_seq: Nat, at: Nat]

Enrollment == [cur: Nat, prev: Nat, until: Nat]

Suspended == [op: {"join"}, id: MemberIds, name: Names]
        \cup [op: {"rotate"}, token: Nat, until: Nat]
        \cup [op: {"rebind"}, id: MemberIds, secret: Nat]

\* Date.now() as a handler that is running now may have read it.
Arrivals == {t \in 0..clock : clock <= t + MaxLag}

Initialized == phase = "live"

\* #authMember accepts: the digest matched a row that is not revoked.
AuthMember(m) == Initialized /\ members[m].status = "active"

\* #authEnroll accepts: the current token, or the previous one inside its grace.
\* A workspace that never rotated has no previous token (prev = cur then).
AuthEnroll(token, now) ==
  \/ token = enroll.cur
  \/ token = enroll.prev /\ now < enroll.until

ExpiredAt(lease, t) == lease.owner # Nobody /\ lease.renewed + lease.ttl <= t

Held(table) == {s \in Subjects : table[s].owner # Nobody}

\* Deviation: a lease deleted one tick before it lapses.
ExpireClaims_Early(now) ==
  [s \in Subjects |-> IF ExpiredAt(claims[s], now + 1) THEN Free ELSE claims[s]]

\* #expireClaims: what the claims table is once every lapsed lease is deleted.
ExpireClaims(now) ==
  [s \in Subjects |-> IF ExpiredAt(claims[s], now) THEN Free ELSE claims[s]]

\* Time passes.
Tick ==
  /\ clock < MaxClock
  /\ clock' = clock + 1
  /\ UNCHANGED <<phase, enroll, nextSeq, members, presence, claims, messages, inflight, minted>>
=============================================================================
