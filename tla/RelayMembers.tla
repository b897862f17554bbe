---------------------------- MODULE RelayMembers ----------------------------
(***************************************************************************)
(* The workspace's own life and its roster: init, join, rotate, member     *)
(* remove, member rebind and destroy (relay/src/do/workspace.js).          *)
(***************************************************************************)
EXTENDS RelayStore

tables == <<nextSeq, presence, claims, messages>>

\* #init: the tables are created and the first enrollment token minted.  The
\* worker mints a new workspace id for every init, so no id sees two of them.
InitWorkspace ==
  /\ phase = "none"
  /\ phase' = "live"
  /\ UNCHANGED <<enroll, members, inflight, minted, clock>> /\ UNCHANGED tables

Suspend(handler) ==
  /\ Cardinality(inflight) < MaxInflight
  /\ inflight' = inflight \cup {handler}

Resume(handler) ==
  /\ handler \in inflight
  /\ inflight' = inflight \ {handler}

\* A handler resumed after the tables were dropped: its first statement throws.
ResumeDestroyed ==
  /\ ~Initialized
  /\ \E h \in inflight : Resume(h)
  /\ UNCHANGED <<phase, enroll, members, minted, clock>> /\ UNCHANGED tables

-----------------------------------------------------------------------------
\* #join up to the hash of the new secret: the enrollment token is checked and
\* a member id minted that no row and no other handler has.
JoinStart(id, name, token) ==
  /\ Initialized
  /\ \E now \in Arrivals : AuthEnroll(token, now)
  /\ members[id].status = "absent"
  /\ \A h \in inflight : h.op = "join" => h.id # id
  /\ Suspend([op |-> "join", id |-> id, name |-> name])
  /\ UNCHANGED <<phase, enroll, members, minted, clock>> /\ UNCHANGED tables

NameTaken(name) == \E m \in MemberIds : members[m].name = name

MemberRows == {m \in MemberIds : members[m].status # "absent"}

\* Deviation: the duplicate check left before the hash.
JoinAccepted_NameCheckedEarly(name) == Cardinality(MemberRows) < MaxMembers

\* What #join answers once the secret is hashed: the row is inserted...
JoinAccepted(name) == ~NameTaken(name) /\ Cardinality(MemberRows) < MaxMembers

\* ...in the same stretch as the duplicate-name and count checks, or refused.
JoinFinish(h) ==
  /\ Initialized
  /\ h.op = "join"
  /\ Resume(h)
  /\ members' = IF JoinAccepted(h.name)
                THEN [members EXCEPT ![h.id] =
                        [status |-> "active", name |-> h.name, secret |-> 0, cursor |-> 0]]
                ELSE members
  /\ UNCHANGED <<phase, enroll, minted, clock>> /\ UNCHANGED tables

-----------------------------------------------------------------------------
\* #rotate up to the hash of the next token.
RotateStart(grace) ==
  /\ Initialized
  /\ minted < MaxMinted
  /\ minted' = minted + 1
  /\ \E now \in Arrivals :
       Suspend([op |-> "rotate", token |-> minted + 1, until |-> now + grace])
  /\ UNCHANGED <<phase, enroll, members, clock>> /\ UNCHANGED tables

\* The enrollment keys a finished rotation leaves: the token it supersedes is
\* read in the same stretch that writes the new one.
Rotated(h) == [cur |-> h.token, prev |-> enroll.cur, until |-> h.until]

RotateFinish(h) ==
  /\ Initialized
  /\ h.op = "rotate"
  /\ Resume(h)
  /\ enroll' = Rotated(h)
  /\ UNCHANGED <<phase, members, minted, clock>> /\ UNCHANGED tables

-----------------------------------------------------------------------------
\* #memberRebind up to the hash of the reissued secret.
RebindStart(m) ==
  /\ AuthMember(m)
  /\ minted < MaxMinted
  /\ minted' = minted + 1
  /\ Suspend([op |-> "rebind", id |-> m, secret |-> minted + 1])
  /\ UNCHANGED <<phase, enroll, members, clock>> /\ UNCHANGED tables

\* Deviation: the row is not read again, only known to have existed.
MayRebind_NotReread(m) == members[m].status # "absent"

\* The row is read again: a removal that landed meanwhile is not undone.
MayRebind(m) == members[m].status = "active"

RebindFinish(h) ==
  /\ Initialized
  /\ h.op = "rebind"
  /\ Resume(h)
  /\ members' = IF MayRebind(h.id) THEN [members EXCEPT ![h.id].secret = h.secret] ELSE members
  /\ UNCHANGED <<phase, enroll, minted, clock>> /\ UNCHANGED tables

-----------------------------------------------------------------------------
\* Deviation: the row is revoked and its leases left to lapse.
ClaimsWithout_LeftToLapse(m) == claims

\* The claims a removal leaves: none of the removed member's.
ClaimsWithout(m) == [s \in Subjects |-> IF claims[s].owner = m THEN Free ELSE claims[s]]

\* #memberRemove: revoke, and release what the member holds.
MemberRemove(m) ==
  /\ AuthMember(m)
  /\ members' = [members EXCEPT ![m].status = "revoked"]
  /\ presence' = presence \ {m}
  /\ claims' = ClaimsWithout(m)
  /\ UNCHANGED <<phase, enroll, nextSeq, messages, inflight, minted, clock>>

\* #destroy: every table is dropped, meta among them.
Destroy ==
  /\ Initialized
  /\ phase' = "destroyed"
  /\ enroll' = [cur |-> 0, prev |-> 0, until |-> 0]
  /\ nextSeq' = 1
  /\ members' = [m \in MemberIds |-> NoRow]
  /\ presence' = {}
  /\ claims' = [s \in Subjects |-> Free]
  /\ messages' = {}
  /\ UNCHANGED <<inflight, minted, clock>>

\* dispatch on a workspace that is not there: 404 and nothing else.
NotFound ==
  /\ ~Initialized
  /\ UNCHANGED vars

-----------------------------------------------------------------------------
MembersNext ==
  \/ InitWorkspace \/ Destroy \/ NotFound \/ ResumeDestroyed
  \/ \E id \in MemberIds, name \in Names, token \in 0..minted : JoinStart(id, name, token)
  \/ \E grace \in 0..MaxGrace : RotateStart(grace)
  \/ \E m \in MemberIds : RebindStart(m) \/ MemberRemove(m)
  \/ \E h \in inflight : JoinFinish(h) \/ RotateFinish(h) \/ RebindFinish(h)
=============================================================================
