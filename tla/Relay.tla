-------------------------------- MODULE Relay --------------------------------
(***************************************************************************)
(* One workspace object serving its members and its administrator: every   *)
(* operation that dispatch routes, interleaved at the awaits, with time.   *)
(* The parts are RelayMembers, RelayClaims and RelayStream over the tables *)
(* of RelayStore.                                                          *)
(***************************************************************************)
EXTENDS RelayMembers, RelayClaims, RelayStream

Init ==
  /\ phase = "none"
  /\ enroll = [cur |-> 0, prev |-> 0, until |-> 0]
  /\ nextSeq = 1
  /\ members = [m \in MemberIds |-> NoRow]
  /\ presence = {}
  /\ claims = [s \in Subjects |-> Free]
  /\ messages = {}
  /\ inflight = {}
  /\ minted = 0
  /\ clock = 0

Next ==
  \/ Tick
  \/ MembersNext
  \/ \E m \in MemberIds : ClaimsOp(m) \/ StreamOp(m)
  \/ \E all \in BOOLEAN : Purge(all)

Spec == Init /\ [][Next]_vars

-----------------------------------------------------------------------------
(* Every table holds rows of its type, in every state of every handler.    *)
TypeOK ==
  /\ phase \in {"none", "live", "destroyed"}
  /\ enroll \in Enrollment
  /\ nextSeq \in Nat \ {0}
  /\ members \in [MemberIds -> Row]
  /\ presence \subseteq MemberIds
  /\ claims \in [Subjects -> Lease]
  /\ messages \subseteq Message
  /\ inflight \subseteq Suspended
  /\ minted \in Nat
  /\ clock \in Nat

(* No two rows of the roster, removed members' included, have one name, in *)
(* spite of joins of that name suspended at their hash together (#join,    *)
(* "two simultaneous joins of the same name could both pass the check").   *)
NamesUnique ==
  \A m, n \in MemberIds :
    m # n /\ members[m].status # "absent" => members[m].name # members[n].name

(* MAX_MEMBERS bounds the rows, whatever number of joins passed the        *)
(* enrollment check while there was still room.                            *)
RosterBounded == Cardinality(MemberRows) <= MaxMembers

(* A removed member holds no lease and no presence row, whatever handlers  *)
(* were under way when it was removed (#memberRemove, "must not keep       *)
(* holding leases the rest of the team is deferring to").                  *)
RemovedHoldNothing ==
  /\ \A s \in Subjects : claims[s].owner # Nobody => members[claims[s].owner].status = "active"
  /\ \A m \in presence : members[m].status = "active"

(* MAX_CLAIMS bounds the leases.                                           *)
ClaimsBounded == Cardinality(Held(claims)) <= MaxClaims

(* No lease dates itself, or was renewed, in the future: a client clock    *)
(* that runs ahead is clamped (#claim), so it cannot make its claim the    *)
(* youngest of a tiebreak.                                                 *)
LeasesInThePast ==
  \A s \in Subjects : claims[s].acquired <= clock /\ claims[s].renewed <= clock

(* The read watermark of a member is of an issued seq, so the next message *)
(* posted is past it; purge keeps next_seq so that this stays so           *)
(* (#cursor, "would forward-clamp the member past the very next message"). *)
CursorBehindStream == \A m \in MemberIds : members[m].cursor < nextSeq

(* The stream holds one message per seq, all of issued seqs, and one per   *)
(* (sender, client_seq).                                                   *)
StreamKeys ==
  /\ \A x \in messages : x.seq < nextSeq
  /\ \A x, y \in messages :
       x.seq = y.seq \/ (x.sender = y.sender /\ x.client_seq = y.client_seq) => x = y

(* MESSAGE_MAX bounds the stream after every post.                         *)
StreamBounded == Cardinality(messages) <= MessageMax

-----------------------------------------------------------------------------
\* What the table promises its readers: the lease on a subject, while it lives.
Live(s) == claims[s].owner # Nobody /\ ~ExpiredAt(claims[s], clock)
Holder == [s \in Subjects |-> IF Live(s) THEN claims[s].owner ELSE Nobody]
Since == [s \in Subjects |-> IF Live(s) THEN claims[s].acquired ELSE 0]

Promise == INSTANCE Lease WITH Holders <- MemberIds, holder <- Holder, since <- Since

(* The table implements the abstract lease: while the workspace lives, a   *)
(* lease that has not lapsed changes hands only by way of being free, and  *)
(* no renewal, by claim or by heartbeat, and no handler acting on an old   *)
(* time, alters its age (#claim, "must not be able to walk its own claim's *)
(* age forward or back").                                                  *)
ImplementsLease == Promise!Spec

(* A rebind that started before its member was removed does not reissue a  *)
(* secret to it, and nothing makes a removed member active again           *)
(* (#memberRebind, "must not be undone by a rebind that started before").  *)
RemovalFinal ==
  [][\A m \in MemberIds :
       members[m].status = "revoked" /\ phase' = "live" => members'[m] = members[m]]_vars

(* A seq is issued once in the life of a workspace, and no member's        *)
(* watermark moves back: purge and prune included.                         *)
SeqsOnlyGrow ==
  [][phase' = "live" =>
       /\ nextSeq' >= nextSeq
       /\ \A x \in messages' \ messages : x.seq >= nextSeq
       /\ \A m \in MemberIds : members'[m].cursor >= members[m].cursor]_vars
=============================================================================
