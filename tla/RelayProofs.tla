----------------------------- MODULE RelayProofs -----------------------------
(***************************************************************************)
(* Proofs about one workspace object, for any members, names, subjects and *)
(* bounds: the types, the roster, the message stream with the read         *)
(* watermarks over it, and the leases with the presence beside them.       *)
(***************************************************************************)
EXTENDS Relay, TLAPS, FiniteSetTheorems, WellFoundedInduction

(* What a handler read on entry is an instant that has passed. *)
LEMMA ArrivalsType == ASSUME TypeOK, NEW now \in Arrivals PROVE now \in Nat /\ now <= clock
  BY DEF Arrivals, TypeOK

(* Deleting lapsed leases leaves a claims table. *)
LEMMA ExpireType ==
  ASSUME TypeOK, NEW now \in Arrivals
  PROVE  ExpireClaims(now) \in [Subjects -> Lease]
  BY DEF ExpireClaims, TypeOK, Lease, Free

LEMMA ClaimsWithoutType ==
  ASSUME TypeOK, NEW m \in MemberIds
  PROVE  ClaimsWithout(m) \in [Subjects -> Lease]
  BY DEF ClaimsWithout, TypeOK, Lease, Free

LEMMA ClaimType ==
  ASSUME TypeOK, NEW m \in MemberIds, NEW now \in Arrivals, NEW s \in Subjects,
         NEW ttl \in 1..MaxTtl, NEW asked \in 0..MaxClock, Claim(m, s, now, ttl, asked)
  PROVE  claims' \in [Subjects -> Lease]
<1>1. ExpireClaims(now) \in [Subjects -> Lease] /\ now \in Nat
  BY ExpireType, ArrivalsType
<1>2. ttl \in Nat /\ asked \in Nat
  BY NumbersAssumption
<1>3. CASE ClaimRenewal(m, s, now, ttl)
  BY <1>1, <1>2, <1>3 DEF ClaimRenewal, RenewLease, Lease
<1>4. CASE ClaimGranted(m, s, now, ttl, asked)
  BY <1>1, <1>2, <1>4 DEF ClaimGranted, NewLease, Earlier, Lease
<1>5. CASE ClaimRefused(m, s, now)
  BY <1>1, <1>5 DEF ClaimRefused
<1>. QED
  BY <1>3, <1>4, <1>5 DEF Claim

LEMMA JoinRow ==
  ASSUME TypeOK, NEW h \in inflight, JoinFinish(h)
  PROVE  members' \in [MemberIds -> Row]
  BY DEF JoinFinish, TypeOK, Suspended, Row

LEMMA PostType ==
  ASSUME TypeOK, NEW m \in MemberIds, NEW now \in Arrivals, NEW type \in Types,
         NEW cseq \in 1..MaxClientSeq, Post(m, type, cseq, now)
  PROVE  messages' \subseteq Message /\ nextSeq' \in Nat \ {0}
<1>1. NewMessage(m, type, cseq, now) \in Message
  BY ArrivalsType, NumbersAssumption DEF NewMessage, Message, TypeOK
<1>2. \A table : PruneMessages(table, now) \subseteq table
  BY DEF PruneMessages
<1>3. messages' \subseteq messages \cup {NewMessage(m, type, cseq, now)}
  BY <1>2 DEF Post
<1>. QED
  BY <1>1, <1>3 DEF Post, TypeOK

-----------------------------------------------------------------------------
LEMMA TypeInit == Init => TypeOK
  BY DEF Init, TypeOK, Enrollment, Row, NoRow, Lease, Free

LEMMA TypeStep == TypeOK /\ [Next]_vars => TypeOK'
<1>. SUFFICES ASSUME TypeOK, [Next]_vars PROVE TypeOK'
  OBVIOUS
<1>. USE NumbersAssumption DEF TypeOK
<1>1. CASE Tick
  BY <1>1 DEF Tick
<1>2. CASE InitWorkspace
  BY <1>2 DEF InitWorkspace, tables
<1>3. CASE Destroy
  BY <1>3 DEF Destroy, Enrollment, Row, NoRow, Lease, Free
<1>4. CASE ResumeDestroyed
  BY <1>4 DEF ResumeDestroyed, Resume, tables
<1>5. ASSUME NEW id \in MemberIds, NEW name \in Names, NEW token \in 0..minted, JoinStart(id, name, token)
     PROVE  TypeOK'
  BY <1>5 DEF JoinStart, Suspend, Suspended, tables
<1>6. ASSUME NEW h \in inflight, JoinFinish(h)
     PROVE  TypeOK'
  BY <1>6, JoinRow DEF JoinFinish, Resume, tables
<1>7. ASSUME NEW grace \in 0..MaxGrace, RotateStart(grace)
     PROVE  TypeOK'
  BY <1>7, ArrivalsType DEF RotateStart, Suspend, Suspended, tables
<1>8. ASSUME NEW h \in inflight, RotateFinish(h)
     PROVE  TypeOK'
  BY <1>8 DEF RotateFinish, Rotated, Resume, Suspended, Enrollment, tables
<1>9. ASSUME NEW m \in MemberIds, RebindStart(m)
     PROVE  TypeOK'
  BY <1>9 DEF RebindStart, Suspend, Suspended, tables
<1>10. ASSUME NEW h \in inflight, RebindFinish(h)
     PROVE  TypeOK'
  BY <1>10 DEF RebindFinish, Resume, Suspended, Row, tables
<1>11. ASSUME NEW m \in MemberIds, MemberRemove(m)
     PROVE  TypeOK'
  BY <1>11, ClaimsWithoutType DEF MemberRemove, Row
<1>12. ASSUME NEW m \in MemberIds, NEW now \in Arrivals, NEW renew \in BOOLEAN, Heartbeat(m, now, renew)
     PROVE  TypeOK'
  BY <1>12, ExpireType, ArrivalsType DEF Heartbeat, Renewed, Lease, claimFrame
<1>13. ASSUME NEW m \in MemberIds, NEW now \in Arrivals, NEW s \in Subjects,
              NEW ttl \in 1..MaxTtl, NEW asked \in 0..MaxClock, Claim(m, s, now, ttl, asked)
     PROVE  TypeOK'
  BY <1>13, ClaimType DEF Claim, claimFrame
<1>14. ASSUME NEW m \in MemberIds, NEW now \in Arrivals, NEW s \in Subjects, Release(m, s, now)
     PROVE  TypeOK'
  BY <1>14, ExpireType, ArrivalsType DEF Release, Lease, Free, claimFrame
<1>15. ASSUME NEW m \in MemberIds, NEW now \in Arrivals, NEW type \in Types,
              NEW cseq \in 1..MaxClientSeq, Post(m, type, cseq, now)
     PROVE  TypeOK'
  BY <1>15, PostType DEF Post, streamFrame
<1>16. ASSUME NEW m \in MemberIds, NEW seq \in 0..MaxSeq + 1, Cursor(m, seq)
     PROVE  TypeOK'
  BY <1>16 DEF Cursor, Later, Row, streamFrame
<1>17. ASSUME NEW all \in BOOLEAN, Purge(all)
     PROVE  TypeOK'
  BY <1>17 DEF Purge, SeqAfterPurge, Lease, Free, streamFrame
<1>18. CASE NotFound \/ UNCHANGED vars
  BY <1>18 DEF NotFound, vars
<1>. QED
  BY <1>1, <1>2, <1>3, <1>4, <1>5, <1>6, <1>7, <1>8, <1>9, <1>10, <1>11, <1>12, <1>13, <1>14, <1>15, <1>16, <1>17, <1>18 DEF Next, MembersNext, ClaimsOp, StreamOp

(* The tables stay tables of their row types. *)
THEOREM TypeCorrect == Spec => []TypeOK
  BY TypeInit, TypeStep, PTL DEF Spec

-----------------------------------------------------------------------------
(* The roster.  What a step may do to the members table and to the handlers *)
(* suspended over it.                                                      *)

RosterFrame == members' = members /\ inflight' = inflight

RosterStep ==
  \/ Destroy \/ ResumeDestroyed
  \/ \E id \in MemberIds, name \in Names, token \in 0..minted : JoinStart(id, name, token)
  \/ \E grace \in 0..MaxGrace : RotateStart(grace)
  \/ \E m \in MemberIds : RebindStart(m) \/ MemberRemove(m)
  \/ \E h \in inflight : JoinFinish(h) \/ RotateFinish(h) \/ RebindFinish(h)
  \/ \E m \in MemberIds, seq \in 0..MaxSeq + 1 : Cursor(m, seq)

(* Every other operation leaves both alone. *)
LEMMA RosterSteps == [Next]_vars => RosterStep \/ RosterFrame
<1>. SUFFICES ASSUME [Next]_vars PROVE RosterStep \/ RosterFrame
  OBVIOUS
<1>1. CASE Tick \/ InitWorkspace \/ NotFound \/ UNCHANGED vars
  BY <1>1 DEF Tick, InitWorkspace, NotFound, vars, RosterFrame
<1>2. CASE \E m \in MemberIds : ClaimsOp(m)
  BY <1>2 DEF ClaimsOp, Heartbeat, Claim, Release, claimFrame, RosterFrame
<1>3. ASSUME NEW m \in MemberIds, StreamOp(m)
      PROVE  RosterStep \/ RosterFrame
  BY <1>3 DEF StreamOp, Post, streamFrame, RosterFrame, RosterStep
<1>4. CASE \E all \in BOOLEAN : Purge(all)
  BY <1>4 DEF Purge, streamFrame, RosterFrame
<1>5. CASE MembersNext
  BY <1>5, <1>1 DEF MembersNext, RosterStep
<1>. QED
  BY <1>1, <1>2, <1>3, <1>4, <1>5 DEF Next

(* The roster invariant: rows and names go together, and a join suspended at *)
(* its hash has an id that is its own.                                     *)
RosterInv ==
  /\ \A m \in MemberIds : members[m].status = "absent" <=> members[m].name = NoName
  /\ NamesUnique
  /\ \A h \in inflight : h.op = "join" => members[h.id].status = "absent"
  /\ \A h, k \in inflight : h.op = "join" /\ k.op = "join" /\ h.id = k.id => h = k

LEMMA RosterInit == Init => RosterInv
  BY DEF Init, RosterInv, NamesUnique, NoRow

(* A join that completes adds one row, under a name no row has. *)
LEMMA JoinKeepsRoster ==
  ASSUME TypeOK, RosterInv, NEW h \in inflight, JoinFinish(h)
  PROVE  RosterInv'
<1>. USE DEF TypeOK
<1>1. h.id \in MemberIds /\ h.name \in Names /\ h.name # NoName
  BY NamesAssumption DEF JoinFinish, Suspended
<1>2. inflight' = inflight \ {h} /\ h.op = "join"
  BY DEF JoinFinish, Resume
<1>3. \A k \in inflight' : k.op = "join" => k \in inflight /\ k.id \in MemberIds /\ k.id # h.id
  BY <1>2 DEF RosterInv, Suspended
<1>4. CASE ~JoinAccepted(h.name)
  BY <1>2, <1>4 DEF JoinFinish, RosterInv, NamesUnique
<1>5. CASE JoinAccepted(h.name)
  <2>1. members' = [members EXCEPT ![h.id] =
                      [status |-> "active", name |-> h.name, secret |-> 0, cursor |-> 0]]
    BY <1>5 DEF JoinFinish
  <2>2. \A m \in MemberIds : members[m].name # h.name
    BY <1>5 DEF JoinAccepted, NameTaken
  <2>3. \A m \in MemberIds : members'[m].status = "absent" <=> members'[m].name = NoName
    BY <1>1, <2>1 DEF RosterInv, Row
  <2>4. NamesUnique'
    BY <1>1, <2>1, <2>2 DEF RosterInv, NamesUnique, Row
  <2>5. \A k \in inflight' : k.op = "join" => members'[k.id].status = "absent"
    BY <1>3, <2>1 DEF RosterInv
  <2>. QED
    BY <1>2, <2>3, <2>4, <2>5 DEF RosterInv
<1>. QED
  BY <1>4, <1>5

LEMMA RosterStepKeeps == TypeOK /\ RosterInv /\ [Next]_vars => RosterInv'
<1>. SUFFICES ASSUME TypeOK, RosterInv, RosterStep \/ RosterFrame PROVE RosterInv'
  BY RosterSteps
<1>. USE DEF TypeOK, RosterInv, NamesUnique
<1>1. CASE RosterFrame
  BY <1>1 DEF RosterFrame
<1>2. CASE Destroy
  BY <1>2 DEF Destroy, NoRow, Suspended
<1>3. CASE ResumeDestroyed
  BY <1>3 DEF ResumeDestroyed, Resume
<1>4. ASSUME NEW id \in MemberIds, NEW name \in Names, NEW token \in 0..minted, JoinStart(id, name, token)
      PROVE  RosterInv'
  BY <1>4 DEF JoinStart, Suspend
<1>5. ASSUME NEW grace \in 0..MaxGrace, RotateStart(grace)
      PROVE  RosterInv'
  BY <1>5 DEF RotateStart, Suspend
<1>6. ASSUME NEW m \in MemberIds, RebindStart(m)
      PROVE  RosterInv'
  BY <1>6 DEF RebindStart, Suspend
<1>7. ASSUME NEW m \in MemberIds, MemberRemove(m)
      PROVE  RosterInv'
  BY <1>7 DEF MemberRemove, AuthMember, Row, Suspended
<1>8. ASSUME NEW h \in inflight, JoinFinish(h)
      PROVE  RosterInv'
  BY <1>8, JoinKeepsRoster
<1>9. ASSUME NEW h \in inflight, RotateFinish(h)
      PROVE  RosterInv'
  BY <1>9 DEF RotateFinish, Resume
<1>10. ASSUME NEW h \in inflight, RebindFinish(h)
      PROVE  RosterInv'
  BY <1>10 DEF RebindFinish, Resume, Row, Suspended
<1>11. ASSUME NEW m \in MemberIds, NEW seq \in 0..MaxSeq + 1, Cursor(m, seq)
      PROVE  RosterInv'
  BY <1>11 DEF Cursor, Row, Suspended, streamFrame
<1>. QED
  BY <1>1, <1>2, <1>3, <1>4, <1>5, <1>6, <1>7, <1>8, <1>9, <1>10, <1>11 DEF RosterStep

(* One name, one row, whatever joins overlap at their hash. *)
THEOREM NamesStayUnique == Spec => []NamesUnique
<1>1. RosterInv => NamesUnique
  BY DEF RosterInv
<1>. QED
  BY <1>1, RosterInit, RosterStepKeeps, TypeCorrect, PTL DEF Spec

(* A removed member's row is written by nothing that comes after. *)
THEOREM RemovalIsFinal == Spec => RemovalFinal
<1>1. TypeOK /\ RosterInv /\ [Next]_vars =>
        \A m \in MemberIds :
          members[m].status = "revoked" /\ phase' = "live" => members'[m] = members[m]
  <2>. SUFFICES ASSUME TypeOK, RosterInv, RosterStep \/ RosterFrame,
                       NEW m \in MemberIds, members[m].status = "revoked", phase' = "live"
                PROVE  members'[m] = members[m]
    BY RosterSteps
  <2>. USE DEF TypeOK
  <2>1. ASSUME NEW h \in inflight, JoinFinish(h)
        PROVE  members'[m] = members[m]
    BY <2>1 DEF JoinFinish, RosterInv, Suspended
  <2>2. ASSUME NEW h \in inflight, RebindFinish(h)
        PROVE  members'[m] = members[m]
    BY <2>2 DEF RebindFinish, MayRebind, Suspended
  <2>3. ASSUME NEW n \in MemberIds, MemberRemove(n)
        PROVE  members'[m] = members[m]
    BY <2>3 DEF MemberRemove, AuthMember
  <2>4. ASSUME NEW n \in MemberIds, NEW seq \in 0..MaxSeq + 1, Cursor(n, seq)
        PROVE  members'[m] = members[m]
    BY <2>4 DEF Cursor, AuthMember
  <2>5. CASE Destroy
    BY <2>5 DEF Destroy
  <2>. QED
    BY <2>1, <2>2, <2>3, <2>4, <2>5 DEF RosterStep, RosterFrame, ResumeDestroyed, JoinStart,
       RotateStart, RebindStart, RotateFinish
<1>. QED
  BY <1>1, RosterInit, RosterStepKeeps, TypeCorrect, PTL DEF Spec, RemovalFinal

(* The number of rows: only a join that completes adds one, and it counts  *)
(* the rows in the stretch that inserts it.                                *)
LEMMA RowsStep ==
  ASSUME TypeOK, [Next]_vars
  PROVE  \/ MemberRows' \subseteq MemberRows
         \/ \E h \in inflight : /\ Cardinality(MemberRows) < MaxMembers
                                /\ MemberRows' \subseteq MemberRows \cup {h.id}
<1>. USE DEF TypeOK, MemberRows
<1>. SUFFICES ASSUME RosterStep
              PROVE  \/ MemberRows' \subseteq MemberRows
                     \/ \E h \in inflight : /\ Cardinality(MemberRows) < MaxMembers
                                            /\ MemberRows' \subseteq MemberRows \cup {h.id}
  BY RosterSteps DEF RosterFrame
<1>1. CASE Destroy
  BY <1>1 DEF Destroy, NoRow
<1>2. ASSUME NEW m \in MemberIds, MemberRemove(m)
      PROVE  MemberRows' \subseteq MemberRows
  BY <1>2 DEF MemberRemove, AuthMember
<1>3. ASSUME NEW h \in inflight, RebindFinish(h)
      PROVE  MemberRows' \subseteq MemberRows
  BY <1>3 DEF RebindFinish
<1>4. ASSUME NEW m \in MemberIds, NEW seq \in 0..MaxSeq + 1, Cursor(m, seq)
      PROVE  MemberRows' \subseteq MemberRows
  BY <1>4 DEF Cursor
<1>5. ASSUME NEW h \in inflight, JoinFinish(h)
      PROVE  \/ MemberRows' \subseteq MemberRows
             \/ /\ Cardinality(MemberRows) < MaxMembers
                /\ MemberRows' \subseteq MemberRows \cup {h.id}
  BY <1>5 DEF JoinFinish, JoinAccepted
<1>6. CASE UNCHANGED members
  BY <1>6
<1>. QED
  BY <1>1, <1>2, <1>3, <1>4, <1>5, <1>6 DEF RosterStep, ResumeDestroyed, JoinStart,
     RotateStart, RebindStart, RotateFinish

(* MAX_MEMBERS rows at most, whatever number of joins passed enrollment.   *)
THEOREM RosterStaysBounded == Spec => []RosterBounded
<1>. DEFINE RowsInv == IsFiniteSet(MemberRows) /\ RosterBounded
<1>1. Init => RowsInv
  <2>. SUFFICES ASSUME Init PROVE RowsInv
    OBVIOUS
  <2>1. MemberRows = {}
    BY DEF Init, MemberRows, NoRow
  <2>2. IsFiniteSet({}) /\ Cardinality({}) = 0
    BY FS_EmptySet
  <2>. QED
    BY <2>1, <2>2, NumbersAssumption DEF RosterBounded
<1>2. TypeOK /\ RowsInv /\ [Next]_vars => RowsInv'
  <2>. SUFFICES ASSUME TypeOK, RowsInv, [Next]_vars PROVE RowsInv'
    OBVIOUS
  <2>1. CASE MemberRows' \subseteq MemberRows
    <3>1. /\ IsFiniteSet(MemberRows')
          /\ Cardinality(MemberRows') <= Cardinality(MemberRows)
      BY <2>1, FS_Subset
    <3>2. Cardinality(MemberRows) \in Nat /\ Cardinality(MemberRows') \in Nat
      BY <3>1, FS_CardinalityType
    <3>. QED
      BY <3>1, <3>2, NumbersAssumption DEF RosterBounded
  <2>2. ASSUME NEW h \in inflight, Cardinality(MemberRows) < MaxMembers,
               MemberRows' \subseteq MemberRows \cup {h.id}
        PROVE  RowsInv'
    <3>. DEFINE More == MemberRows \cup {h.id}
    <3>1. IsFiniteSet(More) /\ Cardinality(More) <= Cardinality(MemberRows) + 1
      <4>1. /\ IsFiniteSet(More)
            /\ Cardinality(More) = IF h.id \in MemberRows THEN Cardinality(MemberRows)
                                   ELSE Cardinality(MemberRows) + 1
        BY FS_AddElement
      <4>2. Cardinality(MemberRows) \in Nat
        BY FS_CardinalityType
      <4>. QED
        BY <4>1, <4>2
    <3>2. IsFiniteSet(MemberRows') /\ Cardinality(MemberRows') <= Cardinality(More)
      BY <3>1, <2>2, FS_Subset
    <3>3. {Cardinality(MemberRows), Cardinality(MemberRows'), Cardinality(More)} \subseteq Nat
      BY <3>1, <3>2, FS_CardinalityType
    <3>. QED
      BY <3>1, <3>2, <3>3, <2>2, NumbersAssumption DEF RosterBounded
  <2>. QED
    BY <2>1, <2>2, RowsStep
<1>. QED
  BY <1>1, <1>2, TypeCorrect, PTL DEF Spec

-----------------------------------------------------------------------------
(* The message stream. *)
StreamFrame == messages' = messages /\ nextSeq' = nextSeq

StreamStep ==
  \/ Destroy
  \/ \E m \in MemberIds, now \in Arrivals, type \in Types, cseq \in 1..MaxClientSeq :
       Post(m, type, cseq, now)
  \/ \E all \in BOOLEAN : Purge(all)

(* The operations that write the messages table or next_seq. *)
LEMMA StreamSteps == [Next]_vars => StreamStep \/ StreamFrame
<1>. SUFFICES ASSUME [Next]_vars PROVE StreamStep \/ StreamFrame
  OBVIOUS
<1>1. CASE Tick \/ UNCHANGED vars
  BY <1>1 DEF Tick, vars, StreamFrame
<1>2. CASE MembersNext
  BY <1>2 DEF MembersNext, InitWorkspace, NotFound, ResumeDestroyed, JoinStart, RotateStart,
     RebindStart, JoinFinish, RotateFinish, RebindFinish, MemberRemove, tables, vars,
     StreamFrame, StreamStep
<1>3. ASSUME NEW m \in MemberIds, ClaimsOp(m) \/ StreamOp(m)
      PROVE  StreamStep \/ StreamFrame
  BY <1>3 DEF ClaimsOp, Heartbeat, Claim, Release, claimFrame, StreamOp, Cursor, StreamFrame,
     StreamStep
<1>. QED
  BY <1>1, <1>2, <1>3 DEF Next, StreamStep

(* What is in the stream after a step was in it, or is one new message     *)
(* under the seq that next_seq named.                                      *)
LEMMA StreamFate ==
  ASSUME TypeOK, [Next]_vars
  PROVE  \/ messages' \subseteq messages /\ (nextSeq' = nextSeq \/ Destroy)
         \/ \E m \in MemberIds, now \in Arrivals, type \in Types, cseq \in 1..MaxClientSeq :
              /\ Duplicates(m, cseq) = {}
              /\ messages' = PruneMessages(messages \cup {NewMessage(m, type, cseq, now)}, now)
              /\ nextSeq' = nextSeq + 1
<1>1. CASE Destroy
  BY <1>1 DEF Destroy
<1>2. ASSUME NEW all \in BOOLEAN, Purge(all)
      PROVE  messages' \subseteq messages /\ nextSeq' = nextSeq
  BY <1>2 DEF Purge, SeqAfterPurge
<1>3. CASE StreamFrame
  BY <1>3 DEF StreamFrame
<1>. QED
  BY <1>1, <1>2, <1>3, StreamSteps DEF StreamStep, Post

LEMMA PruneSubset == \A table, now : PruneMessages(table, now) \subseteq table
  BY DEF PruneMessages

-----------------------------------------------------------------------------
(* One message per seq and per (sender, client_seq), all of issued seqs. *)
LEMMA KeysStep == TypeOK /\ StreamKeys /\ [Next]_vars => StreamKeys'
<1>. SUFFICES ASSUME TypeOK, StreamKeys, [Next]_vars PROVE StreamKeys'
  OBVIOUS
<1>. USE DEF TypeOK
<1>1. CASE messages' \subseteq messages /\ (nextSeq' = nextSeq \/ Destroy)
  <2>1. CASE nextSeq' = nextSeq
    BY <1>1, <2>1 DEF StreamKeys
  <2>2. CASE Destroy
    BY <2>2 DEF Destroy, StreamKeys
  <2>. QED
    BY <1>1, <2>1, <2>2
<1>2. ASSUME NEW m \in MemberIds, NEW now \in Arrivals, NEW type \in Types,
             NEW cseq \in 1..MaxClientSeq,
             Duplicates(m, cseq) = {},
             messages' = PruneMessages(messages \cup {NewMessage(m, type, cseq, now)}, now),
             nextSeq' = nextSeq + 1
      PROVE  StreamKeys'
  <2>. DEFINE new == NewMessage(m, type, cseq, now)
  <2>1. new.seq = nextSeq /\ new.sender = m /\ new.client_seq = cseq
    BY DEF NewMessage
  <2>2. messages' \subseteq messages \cup {new}
    BY <1>2, PruneSubset
  <2>3. \A x \in messages : x.seq \in Nat /\ x.seq < nextSeq
    BY DEF StreamKeys, Message
  <2>4. \A x \in messages : ~(x.sender = m /\ x.client_seq = cseq)
    BY <1>2 DEF Duplicates
  <2>. HIDE DEF new
  <2>5. \A x \in messages' : x.seq < nextSeq'
    <3>1. nextSeq' = nextSeq + 1
      BY <1>2
    <3>. QED
      BY <3>1, <2>1, <2>2, <2>3
  <2>6. \A x, y \in messages' :
          x.seq = y.seq \/ (x.sender = y.sender /\ x.client_seq = y.client_seq) => x = y
    BY <2>1, <2>2, <2>3, <2>4 DEF StreamKeys
  <2>. QED
    BY <2>5, <2>6 DEF StreamKeys
<1>. QED
  BY <1>1, <1>2, StreamFate

THEOREM StreamKeysHold == Spec => []StreamKeys
<1>1. Init => StreamKeys
  BY DEF Init, StreamKeys
<1>. QED
  BY <1>1, KeysStep, TypeCorrect, PTL DEF Spec

-----------------------------------------------------------------------------
(* No watermark is of a seq still to be issued: the next message posted is *)
(* past every watermark, after a purge too.                                *)
LEMMA SeqMonotone ==
  ASSUME TypeOK, [Next]_vars
  PROVE  nextSeq' >= nextSeq \/ Destroy
<1>1. nextSeq' = nextSeq \/ nextSeq' = nextSeq + 1 \/ Destroy
  BY StreamFate
<1>. QED
  BY <1>1 DEF TypeOK

LEMMA CursorStep ==
  ASSUME TypeOK, RosterInv, [Next]_vars, NEW m \in MemberIds
  PROVE  \/ Destroy
         \/ members'[m].cursor = members[m].cursor
         \/ members[m].status = "absent" /\ members'[m].cursor = 0
         \/ members'[m].cursor >= members[m].cursor /\ members'[m].cursor < nextSeq
<1>. USE DEF TypeOK
<1>. SUFFICES ASSUME RosterStep, ~Destroy
              PROVE  \/ members'[m].cursor = members[m].cursor
                     \/ members[m].status = "absent" /\ members'[m].cursor = 0
                     \/ members'[m].cursor >= members[m].cursor /\ members'[m].cursor < nextSeq
  BY RosterSteps DEF RosterFrame
<1>1. ASSUME NEW h \in inflight, JoinFinish(h)
      PROVE  \/ members'[m].cursor = members[m].cursor
             \/ members[m].status = "absent" /\ members'[m].cursor = 0
  BY <1>1 DEF JoinFinish, RosterInv, Suspended
<1>2. ASSUME NEW h \in inflight, RebindFinish(h)
      PROVE  members'[m].cursor = members[m].cursor
  BY <1>2 DEF RebindFinish, Suspended, Row
<1>3. ASSUME NEW n \in MemberIds, MemberRemove(n)
      PROVE  members'[m].cursor = members[m].cursor
  BY <1>3 DEF MemberRemove, Row
<1>4. ASSUME NEW n \in MemberIds, NEW seq \in 0..MaxSeq + 1, Cursor(n, seq)
      PROVE  \/ members'[m].cursor = members[m].cursor
             \/ members'[m].cursor >= members[m].cursor /\ members'[m].cursor < nextSeq
  <2>1. seq \in Nat /\ members[n].cursor \in Nat
    BY NumbersAssumption DEF Row
  <2>2. members' = [members EXCEPT ![n].cursor = Later(seq, members[n].cursor)] /\ seq < nextSeq
    BY <1>4 DEF Cursor, CursorAccepted
  <2>3. CASE m # n
    BY <2>2, <2>3
  <2>4. CASE m = n
    BY <2>1, <2>2, <2>4 DEF Later, Row
  <2>. QED
    BY <2>3, <2>4
<1>5. CASE members' = members
  BY <1>5
<1>. QED
  BY <1>1, <1>2, <1>3, <1>4, <1>5 DEF RosterStep, ResumeDestroyed, JoinStart,
     RotateStart, RebindStart, RotateFinish

THEOREM CursorsStayBehind == Spec => []CursorBehindStream
<1>1. Init => CursorBehindStream
  BY DEF Init, CursorBehindStream, NoRow
<1>2. TypeOK /\ RosterInv /\ CursorBehindStream /\ [Next]_vars => CursorBehindStream'
  <2>. SUFFICES ASSUME TypeOK, RosterInv, CursorBehindStream, [Next]_vars, NEW m \in MemberIds
                PROVE  members'[m].cursor < nextSeq'
    BY DEF CursorBehindStream
  <2>1. CASE Destroy
    BY <2>1 DEF Destroy, NoRow
  <2>2. CASE ~Destroy
    <3>1. nextSeq' >= nextSeq /\ nextSeq \in Nat \ {0} /\ nextSeq' \in Nat
      BY <2>2, SeqMonotone, TypeStep DEF TypeOK
    <3>2. members[m].cursor \in Nat /\ members'[m].cursor \in Nat /\ members[m].cursor < nextSeq
      BY TypeStep DEF TypeOK, Row, CursorBehindStream
    <3>. QED
      BY <2>2, <3>1, <3>2, CursorStep
  <2>. QED
    BY <2>1, <2>2
<1>. QED
  BY <1>1, <1>2, RosterInit, RosterStepKeeps, TypeCorrect, PTL DEF Spec

-----------------------------------------------------------------------------
(* No id that has not joined has a watermark: a join starts it at 0. *)
AbsentUnread == \A m \in MemberIds : members[m].status = "absent" => members[m].cursor = 0

LEMMA AbsentInit == Init => AbsentUnread
  BY DEF Init, AbsentUnread, NoRow

LEMMA AbsentStep == TypeOK /\ RosterInv /\ AbsentUnread /\ [Next]_vars => AbsentUnread'
<1>. SUFFICES ASSUME TypeOK, RosterInv, AbsentUnread, RosterStep \/ RosterFrame,
                     NEW m \in MemberIds, members'[m].status = "absent"
              PROVE  members'[m].cursor = 0
  BY RosterSteps DEF AbsentUnread
<1>. USE DEF TypeOK
<1>1. CASE Destroy
  BY <1>1 DEF Destroy, NoRow
<1>2. ASSUME NEW h \in inflight, JoinFinish(h) \/ RebindFinish(h)
      PROVE  members'[m].cursor = 0
  BY <1>2 DEF JoinFinish, RebindFinish, RosterInv, Suspended, Row, AbsentUnread
<1>3. ASSUME NEW n \in MemberIds, MemberRemove(n)
      PROVE  members'[m].cursor = 0
  BY <1>3 DEF MemberRemove, AuthMember, Row, AbsentUnread
<1>4. ASSUME NEW n \in MemberIds, NEW seq \in 0..MaxSeq + 1, Cursor(n, seq)
      PROVE  members'[m].cursor = 0
  BY <1>4 DEF Cursor, AuthMember, Row, AbsentUnread
<1>5. CASE members' = members
  BY <1>5 DEF AbsentUnread
<1>. QED
  BY <1>1, <1>2, <1>3, <1>4, <1>5 DEF RosterStep, RosterFrame, ResumeDestroyed, JoinStart,
     RotateStart, RebindStart, RotateFinish

(* A seq is issued once, and no watermark moves back. *)
THEOREM SeqsGrow == Spec => SeqsOnlyGrow
<1>1. TypeOK /\ RosterInv /\ AbsentUnread /\ [Next]_vars =>
        (phase' = "live" =>
           /\ nextSeq' >= nextSeq
           /\ \A x \in messages' \ messages : x.seq >= nextSeq
           /\ \A m \in MemberIds : members'[m].cursor >= members[m].cursor)
  <2>. SUFFICES ASSUME TypeOK, RosterInv, AbsentUnread, [Next]_vars, phase' = "live"
                PROVE  /\ nextSeq' >= nextSeq
                       /\ \A x \in messages' \ messages : x.seq >= nextSeq
                       /\ \A m \in MemberIds : members'[m].cursor >= members[m].cursor
    OBVIOUS
  <2>1. ~Destroy
    BY DEF Destroy
  <2>2. nextSeq' >= nextSeq /\ nextSeq \in Nat
    BY <2>1, SeqMonotone DEF TypeOK
  <2>3. ASSUME NEW x \in messages' \ messages
        PROVE  x.seq = nextSeq
    <3>1. PICK m \in MemberIds, now \in Arrivals, type \in Types, cseq \in 1..MaxClientSeq :
            messages' = PruneMessages(messages \cup {NewMessage(m, type, cseq, now)}, now)
      BY <2>3, StreamFate
    <3>2. messages' \subseteq messages \cup {NewMessage(m, type, cseq, now)}
      BY <3>1, PruneSubset
    <3>. QED
      BY <2>3, <3>2 DEF NewMessage
  <2>4. ASSUME NEW m \in MemberIds
        PROVE  members'[m].cursor >= members[m].cursor
    <3>1. members[m].cursor \in Nat
      BY DEF TypeOK, Row
    <3>. QED
      BY <2>1, <3>1, CursorStep DEF AbsentUnread
  <2>. QED
    BY <2>2, <2>3, <2>4
<1>. QED
  BY <1>1, AbsentInit, AbsentStep, RosterInit, RosterStepKeeps, TypeCorrect, PTL DEF Spec, SeqsOnlyGrow

-----------------------------------------------------------------------------
(* Among messages that are one per seq, those that fewer than MESSAGE_MAX  *)
(* others follow are MESSAGE_MAX at most: all of them but the oldest       *)
(* follow the oldest.                                                      *)
LEMMA PruneBounds ==
  ASSUME NEW table, IsFiniteSet(table), NEW now,
         \A x \in table : x.seq \in Nat,
         \A x, y \in table : x.seq = y.seq => x = y
  PROVE  /\ IsFiniteSet(PruneMessages(table, now))
         /\ Cardinality(PruneMessages(table, now)) <= MessageMax
<1>. DEFINE kept == PruneMessages(table, now)
            young == {x \in table : x.at + MessageTtl > now}
<1>1. kept \subseteq young /\ young \subseteq table
  BY DEF PruneMessages
<1>2. IsFiniteSet(young) /\ IsFiniteSet(kept) /\ Cardinality(kept) \in Nat
  BY <1>1, FS_Subset, FS_CardinalityType
<1>3. CASE kept = {}
  BY <1>2, <1>3, FS_EmptySet, NumbersAssumption
<1>4. CASE kept # {}
  <2>. DEFINE seqs == {x.seq : x \in kept}
  <2>1. \E n \in seqs : \A k \in seqs : ~(<<k, n>> \in OpToRel(<, Nat))
    <3>1. seqs \subseteq Nat /\ seqs # {}
      BY <1>1, <1>4
    <3>. QED
      BY <3>1, NatLessThanWellFounded, WFMin
  <2>2. PICK oldest \in kept : \A y \in kept : ~(<<y.seq, oldest.seq>> \in OpToRel(<, Nat))
    BY <2>1
  <2>3. \A y \in kept \ {oldest} : y.seq > oldest.seq
    <3>1. \A a, b \in Nat : a < b => <<a, b>> \in OpToRel(<, Nat)
      BY DEF OpToRel
    <3>2. kept \subseteq table
      BY <1>1
    <3>. HIDE DEF kept
    <3>3. \A y \in kept : y.seq \in Nat /\ ~(y.seq < oldest.seq)
      BY <2>2, <3>1, <3>2
    <3>4. \A y \in kept : y.seq = oldest.seq => y = oldest
      BY <3>2
    <3>. QED
      BY <3>2, <3>3, <3>4
  <2>. DEFINE after == {y \in young : y.seq > oldest.seq}
  <2>4. Cardinality(after) < MessageMax
    BY DEF PruneMessages
  <2>5. kept \ {oldest} \subseteq after /\ after \subseteq young
    BY <2>3, <1>1
  <2>. HIDE DEF kept, young, after
  <2>6. /\ IsFiniteSet(kept \ {oldest})
        /\ Cardinality(kept \ {oldest}) = Cardinality(kept) - 1
    BY <1>2, <2>2, FS_RemoveElement
  <2>7. IsFiniteSet(after) /\ Cardinality(kept \ {oldest}) <= Cardinality(after)
    BY <1>2, <2>5, FS_Subset
  <2>8. Cardinality(after) \in Nat
    BY <2>7, FS_CardinalityType
  <2>9. Cardinality(kept) <= MessageMax
    BY <1>2, <2>4, <2>6, <2>7, <2>8, NumbersAssumption
  <2>. QED
    BY <1>2, <2>9 DEF kept
<1>. QED
  BY <1>3, <1>4

(* MESSAGE_MAX messages at most after every post. *)
THEOREM StreamStaysBounded == Spec => []StreamBounded
<1>. DEFINE SizeInv == IsFiniteSet(messages) /\ StreamBounded
<1>1. Init => SizeInv
  BY FS_EmptySet, NumbersAssumption DEF Init, StreamBounded
<1>2. TypeOK /\ StreamKeys /\ SizeInv /\ [Next]_vars => SizeInv'
  <2>. SUFFICES ASSUME TypeOK, StreamKeys, SizeInv, [Next]_vars PROVE SizeInv'
    OBVIOUS
  <2>1. CASE messages' \subseteq messages
    <3>1. IsFiniteSet(messages') /\ Cardinality(messages') <= Cardinality(messages)
      BY <2>1, FS_Subset
    <3>2. Cardinality(messages) \in Nat /\ Cardinality(messages') \in Nat
      BY <3>1, FS_CardinalityType
    <3>. QED
      BY <3>1, <3>2, NumbersAssumption DEF StreamBounded
  <2>2. ASSUME NEW m \in MemberIds, NEW now \in Arrivals, NEW type \in Types,
               NEW cseq \in 1..MaxClientSeq,
               messages' = PruneMessages(messages \cup {NewMessage(m, type, cseq, now)}, now)
        PROVE  SizeInv'
    <3>. DEFINE new == NewMessage(m, type, cseq, now)
                table == messages \cup {new}
    <3>1. new.seq = nextSeq
      BY DEF NewMessage
    <3>2. \A x \in messages : x.seq \in Nat /\ x.seq < nextSeq
      BY DEF StreamKeys, TypeOK, Message
    <3>3. nextSeq \in Nat
      BY DEF TypeOK
    <3>4. \A x, y \in messages : x.seq = y.seq => x = y
      BY DEF StreamKeys
    <3>5. IsFiniteSet(table)
      BY FS_AddElement
    <3>. HIDE DEF new
    <3>6. /\ \A x \in table : x.seq \in Nat
          /\ \A x, y \in table : x.seq = y.seq => x = y
      BY <3>1, <3>2, <3>3, <3>4
    <3>7. /\ IsFiniteSet(PruneMessages(table, now))
          /\ Cardinality(PruneMessages(table, now)) <= MessageMax
      BY <3>5, <3>6, PruneBounds
    <3>. QED
      BY <2>2, <3>7 DEF StreamBounded, new
  <2>. QED
    BY <2>1, <2>2, StreamFate
<1>. QED
  BY <1>1, <1>2, StreamKeysHold, TypeCorrect, PTL DEF Spec

-----------------------------------------------------------------------------
(***************************************************************************)
(* Leases and presence, for any members, subjects, bounds and lag: who may *)
(* hold a lease, what it may be dated, how many there are, and what a step *)
(* may do to one that has not lapsed.                                      *)
(***************************************************************************)
(* Deleting lapsed leases frees a subject or leaves its lease as it is;    *)
(* one that has not lapsed by the clock has not lapsed by an earlier time. *)
LEMMA ExpireFacts ==
  ASSUME TypeOK, NEW now \in Arrivals, NEW s \in Subjects
  PROVE  /\ ExpireClaims(now)[s] \in {claims[s], Free}
         /\ ~ExpiredAt(claims[s], clock) => ExpireClaims(now)[s] = claims[s]
<1>. USE DEF TypeOK
<1>1. now \in Nat /\ now <= clock
  BY ArrivalsType
<1>2. ExpireClaims(now)[s] = IF ExpiredAt(claims[s], now) THEN Free ELSE claims[s]
  BY DEF ExpireClaims
<1>3. claims[s].renewed \in Nat /\ claims[s].ttl \in Nat
  BY DEF Lease
<1>. QED
  BY <1>1, <1>2, <1>3 DEF ExpiredAt

(* What a step may do to the claims and presence tables. *)
LeaseFrame == claims' = claims /\ presence' = presence

LeaseStep ==
  \/ Destroy
  \/ \E m \in MemberIds : MemberRemove(m) \/ ClaimsOp(m)
  \/ \E all \in BOOLEAN : Purge(all)

(* Every operation but these leaves them alone. *)
LEMMA LeaseSteps == [Next]_vars => LeaseStep \/ LeaseFrame
<1>. SUFFICES ASSUME [Next]_vars PROVE LeaseStep \/ LeaseFrame
  OBVIOUS
<1>1. CASE Tick \/ UNCHANGED vars
  BY <1>1 DEF Tick, vars, LeaseFrame
<1>2. CASE MembersNext
  BY <1>2 DEF MembersNext, InitWorkspace, NotFound, ResumeDestroyed, JoinStart, RotateStart,
     RebindStart, JoinFinish, RotateFinish, RebindFinish, tables, vars, LeaseFrame, LeaseStep
<1>3. ASSUME NEW m \in MemberIds, StreamOp(m)
      PROVE  LeaseFrame
  BY <1>3 DEF StreamOp, Post, Cursor, LeaseFrame
<1>. QED
  BY <1>1, <1>2, <1>3 DEF Next, LeaseStep

(* What each of them makes of the lease on one subject: it is freed, left  *)
(* as it is, renewed by the member that holds it, or granted on a subject  *)
(* whose lease, if any, has lapsed.                                        *)
RenewedBy(m, s, now) ==
  /\ claims[s].owner = m
  /\ claims'[s].owner = m
  /\ claims'[s].acquired = claims[s].acquired
  /\ claims'[s].renewed = now

GrantedTo(m, s, now) ==
  /\ ExpireClaims(now)[s] = Free \/ claims[s].owner = Nobody
  /\ claims'[s].owner = m
  /\ claims'[s].acquired <= now
  /\ claims'[s].renewed = now

LeaseFate(s) ==
  \/ claims'[s] \in {claims[s], Free}
  \/ \E m \in MemberIds, now \in Arrivals :
       AuthMember(m) /\ (RenewedBy(m, s, now) \/ GrantedTo(m, s, now))

LEMMA HeartbeatFate ==
  ASSUME TypeOK, NEW m \in MemberIds, NEW now \in Arrivals, NEW renew \in BOOLEAN,
         Heartbeat(m, now, renew), NEW s \in Subjects
  PROVE  LeaseFate(s)
<1>. USE DEF TypeOK
<1>1. ExpireClaims(now)[s] \in {claims[s], Free}
  BY ExpireFacts
<1>2. CASE claims' = ExpireClaims(now)
  BY <1>1, <1>2 DEF LeaseFate
<1>3. CASE claims' = Renewed(ExpireClaims(now), m, now)
  <2>1. claims'[s] = IF ExpireClaims(now)[s].owner = m
                     THEN [ExpireClaims(now)[s] EXCEPT !.renewed = now]
                     ELSE ExpireClaims(now)[s]
    BY <1>3 DEF Renewed
  <2>2. Free.owner # m
    BY NamesAssumption DEF Free
  <2>3. claims[s] \in Lease
    OBVIOUS
  <2>4. CASE ExpireClaims(now)[s].owner = m
    <3>1. ExpireClaims(now)[s] = claims[s] /\ claims[s].owner = m
      BY <1>1, <2>2, <2>4
    <3>2. claims'[s] = [claims[s] EXCEPT !.renewed = now]
      BY <2>1, <2>4, <3>1
    <3>3. RenewedBy(m, s, now)
      BY <3>1, <3>2, <2>3 DEF RenewedBy, Lease
    <3>. QED
      BY <3>3 DEF LeaseFate, Heartbeat
  <2>5. CASE ExpireClaims(now)[s].owner # m
    BY <1>1, <2>1, <2>5 DEF LeaseFate
  <2>. QED
    BY <2>4, <2>5
<1>. QED
  BY <1>2, <1>3 DEF Heartbeat

LEMMA ClaimFate ==
  ASSUME TypeOK, NEW m \in MemberIds, NEW now \in Arrivals, NEW c \in Subjects,
         NEW ttl \in 1..MaxTtl, NEW asked \in 0..MaxClock, Claim(m, c, now, ttl, asked),
         NEW s \in Subjects
  PROVE  LeaseFate(s)
<1>. USE DEF TypeOK
<1>. DEFINE live == ExpireClaims(now)
<1>1. live[s] \in {claims[s], Free} /\ live \in [Subjects -> Lease]
  BY ExpireFacts, ExpireType
<1>2. now \in Nat /\ asked \in Nat /\ Free.owner = Nobody /\ m # Nobody
  BY ArrivalsType, NumbersAssumption, NamesAssumption DEF Free
<1>3. CASE s # c
  BY <1>1, <1>3 DEF Claim, ClaimRenewal, ClaimGranted, ClaimRefused, LeaseFate
<1>4. CASE s = c /\ ClaimRenewal(m, c, now, ttl)
  <2>1. live[s].owner = m /\ claims'[s] = [live[s] EXCEPT !.renewed = now, !.ttl = ttl]
    BY <1>1, <1>4 DEF ClaimRenewal, RenewLease
  <2>2. live[s] = claims[s]
    BY <1>1, <1>2, <2>1
  <2>3. RenewedBy(m, s, now)
    BY <1>1, <2>1, <2>2 DEF RenewedBy, Lease
  <2>. QED
    BY <2>3 DEF LeaseFate, Claim
<1>5. CASE s = c /\ ClaimGranted(m, c, now, ttl, asked)
  <2>1. /\ live[s].owner = Nobody
        /\ claims'[s] = [owner |-> m, acquired |-> Earlier(asked, now), renewed |-> now, ttl |-> ttl]
    BY <1>1, <1>5 DEF ClaimGranted, NewLease
  <2>2. live[s] = Free \/ claims[s].owner = Nobody
    BY <1>1, <2>1
  <2>3. GrantedTo(m, s, now)
    BY <1>2, <2>1, <2>2 DEF GrantedTo, Earlier
  <2>. QED
    BY <2>3 DEF LeaseFate, Claim
<1>6. CASE s = c /\ ClaimRefused(m, c, now)
  BY <1>1, <1>6 DEF ClaimRefused, LeaseFate
<1>. QED
  BY <1>3, <1>4, <1>5, <1>6 DEF Claim

LEMMA Fates ==
  ASSUME TypeOK, [Next]_vars, NEW s \in Subjects
  PROVE  LeaseFate(s)
<1>. USE DEF TypeOK
<1>1. CASE LeaseFrame
  BY <1>1 DEF LeaseFrame, LeaseFate
<1>2. CASE Destroy
  BY <1>2 DEF Destroy, LeaseFate
<1>3. ASSUME NEW m \in MemberIds, MemberRemove(m)
      PROVE  LeaseFate(s)
  BY <1>3 DEF MemberRemove, ClaimsWithout, LeaseFate
<1>4. ASSUME NEW m \in MemberIds, NEW now \in Arrivals, NEW c \in Subjects, Release(m, c, now)
      PROVE  LeaseFate(s)
  <2>1. ExpireClaims(now)[s] \in {claims[s], Free} /\ ExpireClaims(now) \in [Subjects -> Lease]
    BY ExpireFacts, ExpireType
  <2>2. claims'[s] \in {ExpireClaims(now)[s], Free}
    BY <1>4, <2>1 DEF Release
  <2>. QED
    BY <2>1, <2>2 DEF LeaseFate
<1>5. ASSUME NEW all \in BOOLEAN, Purge(all)
      PROVE  LeaseFate(s)
  BY <1>5 DEF Purge, LeaseFate
<1>. QED
  BY <1>1, <1>2, <1>3, <1>4, <1>5, HeartbeatFate, ClaimFate, LeaseSteps DEF LeaseStep, ClaimsOp

-----------------------------------------------------------------------------
(* Leases are dated in the past. *)
THEOREM LeasesStayInThePast == Spec => []LeasesInThePast
<1>1. Init => LeasesInThePast
  BY DEF Init, LeasesInThePast, Free
<1>2. TypeOK /\ LeasesInThePast /\ [Next]_vars => LeasesInThePast'
  <2>. SUFFICES ASSUME TypeOK, LeasesInThePast, [Next]_vars, NEW s \in Subjects
                PROVE  claims'[s].acquired <= clock' /\ claims'[s].renewed <= clock'
    BY DEF LeasesInThePast
  <2>1. TypeOK' /\ clock <= clock'
    <3>1. clock' \in {clock, clock + 1}
      BY DEF Next, MembersNext, ClaimsOp, StreamOp, Tick, InitWorkspace, Destroy, NotFound,
         ResumeDestroyed, JoinStart, JoinFinish, RotateStart, RotateFinish, RebindStart,
         RebindFinish, MemberRemove, Heartbeat, Claim, Release, Post, Cursor, Purge,
         claimFrame, streamFrame, vars
    <3>. QED
      BY <3>1, TypeStep DEF TypeOK
  <2>2. LeaseFate(s)
    BY Fates
  <2>3. claims[s] \in Lease /\ claims'[s] \in Lease /\ clock \in Nat /\ clock' \in Nat
    BY <2>1 DEF TypeOK
  <2>4. CASE claims'[s] \in {claims[s], Free}
    BY <2>1, <2>3, <2>4 DEF LeasesInThePast, Free, Lease
  <2>5. ASSUME NEW m \in MemberIds, NEW now \in Arrivals,
               RenewedBy(m, s, now) \/ GrantedTo(m, s, now)
        PROVE  claims'[s].acquired <= clock' /\ claims'[s].renewed <= clock'
    BY <2>1, <2>3, <2>5, ArrivalsType DEF RenewedBy, GrantedTo, LeasesInThePast, Lease
  <2>. QED
    BY <2>2, <2>4, <2>5 DEF LeaseFate
<1>. QED
  BY <1>1, <1>2, TypeCorrect, PTL DEF Spec

(* A member is active while it holds a lease or has a presence row: only a *)
(* handler that authenticated it gives it either, and only its removal, or *)
(* the end of the workspace, makes an active member anything else.         *)
LEMMA ActiveUntilRemoved ==
  ASSUME TypeOK, RosterInv, [Next]_vars, NEW m \in MemberIds, AuthMember(m)
  PROVE  AuthMember(m)' \/ Destroy \/ MemberRemove(m)
<1>. USE DEF TypeOK, AuthMember, Initialized
<1>1. phase' = phase \/ Destroy
  BY DEF Next, MembersNext, ClaimsOp, StreamOp, Tick, InitWorkspace, NotFound,
     ResumeDestroyed, JoinStart, JoinFinish, RotateStart, RotateFinish, RebindStart,
     RebindFinish, MemberRemove, Heartbeat, Claim, Release, Post, Cursor, Purge,
     claimFrame, streamFrame, vars
<1>2. members'[m].status = "active" \/ Destroy \/ MemberRemove(m)
  <2>. SUFFICES ASSUME RosterStep \/ RosterFrame
                PROVE  members'[m].status = "active" \/ Destroy \/ MemberRemove(m)
    BY RosterSteps
  <2>1. ASSUME NEW h \in inflight, JoinFinish(h) \/ RebindFinish(h)
        PROVE  members'[m].status = "active"
    BY <2>1 DEF JoinFinish, RebindFinish, RosterInv, Suspended, Row
  <2>2. ASSUME NEW n \in MemberIds, MemberRemove(n)
        PROVE  members'[m].status = "active" \/ MemberRemove(m)
    BY <2>2 DEF MemberRemove
  <2>3. ASSUME NEW n \in MemberIds, NEW seq \in 0..MaxSeq + 1, Cursor(n, seq)
        PROVE  members'[m].status = "active"
    BY <2>3 DEF Cursor, Row
  <2>. QED
    BY <2>1, <2>2, <2>3 DEF RosterStep, RosterFrame, ResumeDestroyed, JoinStart,
       RotateStart, RebindStart, RotateFinish
<1>. QED
  BY <1>1, <1>2

(* A removed member holds nothing the team would still defer to. *)
HoldersActive ==
  /\ \A s \in Subjects : claims[s].owner # Nobody => AuthMember(claims[s].owner)
  /\ \A m \in presence : AuthMember(m)

THEOREM RemovedMembersHoldNothing == Spec => []RemovedHoldNothing
<1>1. Init => HoldersActive
  BY DEF Init, HoldersActive, Free
<1>2. TypeOK /\ RosterInv /\ HoldersActive /\ [Next]_vars => HoldersActive'
  <2>. SUFFICES ASSUME TypeOK, RosterInv, HoldersActive, [Next]_vars PROVE HoldersActive'
    OBVIOUS
  <2>. USE DEF TypeOK
  <2>1. CASE Destroy
    BY <2>1 DEF Destroy, HoldersActive, Free
  <2>2. ASSUME NEW m \in MemberIds, MemberRemove(m)
        PROVE  HoldersActive'
    BY <2>2, NamesAssumption DEF MemberRemove, ClaimsWithout, HoldersActive, AuthMember,
       Initialized, Free, Row, Lease
  <2>3. ASSUME ~Destroy, \A m \in MemberIds : ~MemberRemove(m)
        PROVE  HoldersActive'
    <3>1. \A m \in MemberIds : AuthMember(m) => AuthMember(m)'
      BY <2>3, ActiveUntilRemoved
    <3>2. ASSUME NEW s \in Subjects, claims'[s].owner # Nobody
          PROVE  claims'[s].owner \in MemberIds /\ AuthMember(claims'[s].owner)
      BY <3>2, Fates DEF LeaseFate, RenewedBy, GrantedTo, HoldersActive, Free, Lease
    <3>3. ASSUME NEW m \in presence'
          PROVE  m \in MemberIds /\ AuthMember(m)
      BY <2>3, <3>3, LeaseSteps DEF LeaseStep, LeaseFrame, ClaimsOp, Heartbeat, Claim, Release,
         Purge, HoldersActive
    <3>. QED
      BY <3>1, <3>2, <3>3 DEF HoldersActive
  <2>. QED
    BY <2>1, <2>2, <2>3
<1>3. HoldersActive => RemovedHoldNothing
  BY DEF HoldersActive, RemovedHoldNothing, AuthMember
<1>. QED
  BY <1>1, <1>2, <1>3, TypeCorrect, RosterInit, RosterStepKeeps, PTL DEF Spec

-----------------------------------------------------------------------------
(* A step leaves the lease on a subject as it is, lets it go, or gives a   *)
(* subject that was free to a member: a lease that lives is seen alive by  *)
(* every handler, however old its time.                                    *)
LEMMA LeaseStepPromised ==
  ASSUME TypeOK, [Next]_vars, TypeOK', NEW s \in Subjects
  PROVE  Promise!Keep(s) \/ Promise!Take(s) \/ Promise!Leave(s)
<1>. USE DEF TypeOK, Promise!Keep, Promise!Take, Promise!Leave
<1>1. /\ Holder[s] = IF Live(s) THEN claims[s].owner ELSE Nobody
      /\ Since[s] = IF Live(s) THEN claims[s].acquired ELSE 0
      /\ Holder'[s] = IF Live(s)' THEN claims'[s].owner ELSE Nobody
      /\ Since'[s] = IF Live(s)' THEN claims'[s].acquired ELSE 0
  BY DEF Holder, Since
<1>2. claims'[s].owner \in MemberIds \cup {Nobody} /\ claims'[s].acquired \in Nat
  BY DEF Lease
<1>3. CASE ~Live(s)'
  BY <1>1, <1>3
<1>4. CASE Live(s)' /\ ~Live(s)
  BY <1>1, <1>2, <1>4 DEF Live
<1>5. CASE Live(s)' /\ Live(s)
  <2>1. claims'[s].owner = claims[s].owner /\ claims'[s].acquired = claims[s].acquired
    BY <1>5, Fates, ExpireFacts DEF LeaseFate, RenewedBy, GrantedTo, Live, Free
  <2>. QED
    BY <1>1, <1>5, <2>1
<1>. QED
  BY <1>3, <1>4, <1>5

(* The lease table implements the abstract lease. *)
THEOREM TableImplementsLease == Spec => ImplementsLease
<1>1. Init => Promise!Init
  BY DEF Init, Promise!Init, Holder, Since, Live, Free
<1>2. TypeOK /\ TypeOK' /\ [Next]_vars => [Promise!Next]_(Promise!leaseVars)
  BY LeaseStepPromised DEF Promise!Next
<1>. QED
  BY <1>1, <1>2, TypeCorrect, PTL DEF Spec, ImplementsLease, Promise!Spec

-----------------------------------------------------------------------------
(* Only a claim that is granted adds a held subject, and it counts the     *)
(* leases that have not lapsed first.                                      *)
LEMMA HeldStep ==
  ASSUME TypeOK, [Next]_vars
  PROVE  \/ Held(claims') \subseteq Held(claims)
         \/ \E now \in Arrivals, s \in Subjects :
              /\ Held(ExpireClaims(now)) \subseteq Held(claims)
              /\ RoomFor(ExpireClaims(now))
              /\ Held(claims') \subseteq Held(ExpireClaims(now)) \cup {s}
<1>. USE DEF TypeOK
<1>1. \A now \in Arrivals : Held(ExpireClaims(now)) \subseteq Held(claims)
  BY ExpireFacts DEF Held, Free
<1>2. ASSUME NEW m \in MemberIds, NEW now \in Arrivals, NEW s \in Subjects,
             NEW ttl \in 1..MaxTtl, NEW asked \in 0..MaxClock,
             ClaimGranted(m, s, now, ttl, asked)
      PROVE  /\ RoomFor(ExpireClaims(now))
             /\ Held(claims') \subseteq Held(ExpireClaims(now)) \cup {s}
  BY <1>2, ExpireType DEF ClaimGranted, Held
<1>3. ASSUME \A m \in MemberIds, now \in Arrivals, s \in Subjects, ttl \in 1..MaxTtl,
                asked \in 0..MaxClock :
                  Claim(m, s, now, ttl, asked) => ~ClaimGranted(m, s, now, ttl, asked)
      PROVE  Held(claims') \subseteq Held(claims)
  <2>. SUFFICES ASSUME NEW c \in Subjects, claims'[c].owner # Nobody, claims[c].owner = Nobody
                PROVE  FALSE
    BY DEF Held
  <2>1. \A now \in Arrivals : ExpireClaims(now)[c].owner = Nobody
    BY ExpireFacts DEF Free
  <2>2. ASSUME NEW m \in MemberIds, NEW now \in Arrivals, NEW renew \in BOOLEAN,
               Heartbeat(m, now, renew)
        PROVE  FALSE
    <3>1. ExpireClaims(now)[c].owner # m
      BY <2>1, NamesAssumption
    <3>2. claims'[c] = ExpireClaims(now)[c]
      BY <2>2, <3>1 DEF Heartbeat, Renewed
    <3>. QED
      BY <2>1, <3>2
  <2>3. ASSUME NEW m \in MemberIds, NEW now \in Arrivals, NEW s \in Subjects,
               NEW ttl \in 1..MaxTtl, NEW asked \in 0..MaxClock, Claim(m, s, now, ttl, asked)
        PROVE  FALSE
    <3>1. CASE ClaimRenewal(m, s, now, ttl)
      BY <2>1, <3>1, ExpireType, NamesAssumption DEF ClaimRenewal
    <3>2. CASE ClaimRefused(m, s, now)
      BY <2>1, <3>2 DEF ClaimRefused
    <3>. QED
      BY <1>3, <2>3, <3>1, <3>2 DEF Claim
  <2>4. ASSUME NEW m \in MemberIds, NEW now \in Arrivals, NEW s \in Subjects, Release(m, s, now)
        PROVE  FALSE
    BY <2>1, <2>4, ExpireType DEF Release, Free
  <2>5. CASE LeaseFrame
    BY <2>5 DEF LeaseFrame
  <2>6. ASSUME NEW m \in MemberIds, MemberRemove(m)
        PROVE  FALSE
    BY <2>6 DEF MemberRemove, ClaimsWithout, Free
  <2>7. CASE Destroy \/ \E all \in BOOLEAN : Purge(all)
    BY <2>7 DEF Destroy, Purge, Free
  <2>. QED
    BY <2>2, <2>3, <2>4, <2>5, <2>6, <2>7, LeaseSteps DEF LeaseStep, ClaimsOp
<1>. QED
  BY <1>1, <1>2, <1>3

(* MAX_CLAIMS leases at most. *)
THEOREM ClaimsStayBounded == Spec => []ClaimsBounded
<1>. DEFINE HeldInv == IsFiniteSet(Held(claims)) /\ ClaimsBounded
<1>1. Init => HeldInv
  <2>. SUFFICES ASSUME Init PROVE HeldInv
    OBVIOUS
  <2>1. Held(claims) = {}
    BY DEF Init, Held, Free
  <2>. QED
    BY <2>1, FS_EmptySet, NumbersAssumption DEF ClaimsBounded
<1>2. TypeOK /\ HeldInv /\ [Next]_vars => HeldInv'
  <2>. SUFFICES ASSUME TypeOK, HeldInv, [Next]_vars PROVE HeldInv'
    OBVIOUS
  <2>1. CASE Held(claims') \subseteq Held(claims)
    <3>1. IsFiniteSet(Held(claims')) /\ Cardinality(Held(claims')) <= Cardinality(Held(claims))
      BY <2>1, FS_Subset
    <3>2. Cardinality(Held(claims)) \in Nat /\ Cardinality(Held(claims')) \in Nat
      BY <3>1, FS_CardinalityType
    <3>. QED
      BY <3>1, <3>2, NumbersAssumption DEF ClaimsBounded
  <2>2. ASSUME NEW now \in Arrivals, NEW s \in Subjects,
               Held(ExpireClaims(now)) \subseteq Held(claims),
               RoomFor(ExpireClaims(now)),
               Held(claims') \subseteq Held(ExpireClaims(now)) \cup {s}
        PROVE  HeldInv'
    <3>. DEFINE Kept == Held(ExpireClaims(now))
    <3>1. IsFiniteSet(Kept)
      BY <2>2, FS_Subset
    <3>2. /\ IsFiniteSet(Kept \cup {s})
          /\ Cardinality(Kept \cup {s}) =
               IF s \in Kept THEN Cardinality(Kept) ELSE Cardinality(Kept) + 1
      BY <3>1, FS_AddElement
    <3>3. /\ IsFiniteSet(Held(claims'))
          /\ Cardinality(Held(claims')) <= Cardinality(Kept \cup {s})
      BY <2>2, <3>2, FS_Subset
    <3>4. /\ Cardinality(Kept) \in Nat
          /\ Cardinality(Held(claims')) \in Nat
      BY <3>1, <3>3, FS_CardinalityType
    <3>5. Cardinality(Kept) < MaxClaims
      BY <2>2 DEF RoomFor
    <3>. HIDE DEF Kept
    <3>6. Cardinality(Held(claims')) <= MaxClaims
      BY <3>2, <3>3, <3>4, <3>5, NumbersAssumption
    <3>. QED
      BY <3>3, <3>6 DEF ClaimsBounded
  <2>. QED
    BY <2>1, <2>2, HeldStep
<1>. QED
  BY <1>1, <1>2, TypeCorrect, PTL DEF Spec
=============================================================================
