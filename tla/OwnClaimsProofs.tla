-------------------------- MODULE OwnClaimsProofs --------------------------
(***************************************************************************)
(* Proofs about the claims a member believes it holds, over both           *)
(* transports, for any members, subjects, time to live and length of run.  *)
(***************************************************************************)
EXTENDS OwnClaims, TLAPS

Rows == [key : Subjects, acquired : 1..MaxClock]

(* What a process holds in its hands has the shape of what it read.        *)
HandsOK ==
  /\ command \in [Members -> SUBSET Rows]
  /\ renewing \in [Members -> SUBSET Rows]
  /\ adopting \in [Members -> SUBSET Claimed]
  /\ released \in [Members -> SUBSET Subjects]
  /\ overlapped \in [Members -> SUBSET Subjects]
  /\ bodies \in [Members -> SUBSET SUBSET Rows]
  /\ dropping \in [Members -> SUBSET Subjects]

Shape == TypeOK /\ HandsOK

(* addOwnClaim and a re-adoption make a row of a row.                      *)
LEMMA AddedRow ==
  ASSUME clock \in 1..MaxClock, NEW row \in Row \cup {None}, NEW acquired \in 1..MaxClock
  PROVE  /\ AddOwnClaim(row, acquired) \in Row
         /\ Readopt(row, acquired) \in Row
         /\ AddOwnClaim(row, acquired).acquired = IF row # None THEN row.acquired ELSE acquired
<1>1. AddOwnClaim(row, acquired) \in Row
  BY DEF AddOwnClaim, Row, None
<1>2. AddOwnClaim(None, acquired) \in Row
  BY DEF AddOwnClaim, Row, None
<1>3. AddOwnClaim(row, acquired).acquired = IF row # None THEN row.acquired ELSE acquired
  BY DEF AddOwnClaim
<1>. QED
  BY <1>1, <1>2, <1>3 DEF Readopt

LEMMA LiveIsRow == \A r \in Row \cup {None} : LiveRow(r) => r \in Row
  BY DEF LiveRow, None

LEMMA LiveRowsOK ==
  ASSUME Shape, NEW m \in Members
  PROVE  LiveRows(m) \in SUBSET Rows
<1>. SUFFICES ASSUME NEW k \in OwnLive(m)
              PROVE  [key |-> k, acquired |-> own[m][k].acquired] \in Rows
  BY DEF LiveRows
<1>1. k \in Subjects /\ own[m][k] \in Row
  BY LiveIsRow DEF OwnLive, Shape, TypeOK
<1>. QED
  BY <1>1 DEF Rows, Row

LEMMA PresenceRows ==
  ASSUME Shape, NEW m \in Members, NEW body \in SUBSET Rows
  PROVE  PresenceOf(m, body) \subseteq Claimed
<1>. SUFFICES ASSUME NEW r \in body
              PROVE  [owner |-> m, key |-> r.key, acquired |-> r.acquired, renewed |-> clock]
                       \in Claimed
  BY DEF PresenceOf
<1>. QED
  BY DEF Shape, TypeOK, Claimed, Rows

(* A body that is built is the last one of the set, nothing else moves.    *)
LEMMA BuiltBodies ==
  ASSUME Shape, NEW m \in Members, Build(m)
  PROVE  /\ bodies' \in [Members -> SUBSET SUBSET Rows]
         /\ \A n \in Members : bodies'[n] \subseteq bodies[n] \cup {LiveRows(n)}
<1>1. LiveRows(m) \in SUBSET Rows
  BY LiveRowsOK
<1>2. bodies' = [bodies EXCEPT ![m] = @ \cup {LiveRows(m)}]
  BY DEF Build
<1>. QED
  BY <1>1, <1>2 DEF Shape, HandsOK

(* What the transport hears of moves between the sets of subjects.         *)
LEMMA HeardShape ==
  ASSUME Shape, NEW m \in Members, NEW keys \in SUBSET Subjects, Heard(m, keys)
  PROVE  /\ released' \in [Members -> SUBSET Subjects]
         /\ overlapped' \in [Members -> SUBSET Subjects]
         /\ dropping' \in [Members -> SUBSET Subjects]
  BY DEF Heard, Shape, HandsOK

LEMMA ReportedRows == Shape => Reported \subseteq Claimed
  BY DEF Shape, TypeOK, Reported

LEMMA AskedAges ==
  ASSUME Shape, NEW m \in Members, NEW k \in Subjects
  PROVE  AskedAge(m, k) \in 1..MaxClock
  BY LiveIsRow DEF AskedAge, OwnLive, Shape, TypeOK, Row

-----------------------------------------------------------------------------
(* The state files, the transport and what is in hand keep their shape.    *)
LEMMA OwnInit == Init => Shape
  BY OwnAssumption DEF Init, Shape, TypeOK, HandsOK, Idle

LEMMA ShapeStep == Shape /\ [Next]_ownVars => Shape'
<1>. SUFFICES ASSUME Shape, [Next]_ownVars PROVE Shape'
  OBVIOUS
<1>. USE OwnAssumption DEF Shape, TypeOK, HandsOK
<1>1. CASE Tick
  BY <1>1 DEF Tick, remote, history
<1>2. ASSUME NEW m \in Members, NEW k \in Subjects, Claim(m, k)
      PROVE  Shape'
  <2>. DEFINE live == {c \in table : LiveRow(c)}
              held == {c \in live : c.key = k}
              age == IF held = {} THEN AskedAge(m, k) ELSE (CHOOSE c \in held : TRUE).acquired
  <2>1. AskedAge(m, k) \in 1..MaxClock
    BY AskedAges
  <2>2. age \in 1..MaxClock
    BY <2>1 DEF Claimed
  <2>3. CASE ClaimAtRelay(m, k)
    <3>1. table' \subseteq Claimed
      BY <2>2, <2>3 DEF ClaimAtRelay, Claimed
    <3>2. command' \in [Members -> SUBSET Rows]
      BY <2>2, <2>3 DEF ClaimAtRelay, Rows
    <3>. QED
      BY <1>2, <2>3, <3>1, <3>2 DEF Claim, ClaimAtRelay
  <2>4. CASE ClaimOnNtfy(m, k)
    <3>1. AddOwnClaim(own[m][k], AskedAge(m, k)) \in Row
      <4>1. own[m][k] \in Row \cup {None} /\ clock \in 1..MaxClock
        OBVIOUS
      <4>. QED
        BY <2>1, <4>1, AddedRow
    <3>2. own' \in [Members -> [Subjects -> Row \cup {None}]]
      BY <2>4, <3>1 DEF ClaimOnNtfy
    <3>3. command' \in [Members -> SUBSET Rows]
      BY <2>1, <2>4 DEF ClaimOnNtfy, Rows
    <3>. QED
      BY <1>2, <2>4, <3>2, <3>3 DEF Claim, ClaimOnNtfy, remote
  <2>. QED
    BY <1>2, <2>3, <2>4 DEF Claim
<1>3. ASSUME NEW m \in Members, ClaimAnswered(m)
      PROVE  Shape'
  <2>1. CASE relayed
    <3>1. PICK c \in command[m] : own' = [own EXCEPT ![m][c.key] = AddOwnClaim(@, c.acquired)]
      BY <1>3, <2>1 DEF ClaimAnswered
    <3>2. c.key \in Subjects /\ c.acquired \in 1..MaxClock
      BY DEF Rows
    <3>3. own[m][c.key] \in Row \cup {None} /\ clock \in 1..MaxClock
      BY <3>2
    <3>4. AddOwnClaim(own[m][c.key], c.acquired) \in Row
      BY <3>2, <3>3, AddedRow
    <3>5. own' \in [Members -> [Subjects -> Row \cup {None}]]
      BY <3>1, <3>2, <3>4
    <3>. QED
      BY <1>3, <2>1, <3>5 DEF ClaimAnswered, Idle, remote
  <2>2. CASE ~relayed
    <3>1. bodies' \in [Members -> SUBSET SUBSET Rows]
      BY <1>3, <2>2, BuiltBodies DEF ClaimAnswered
    <3>. QED
      BY <1>3, <2>2, <3>1 DEF ClaimAnswered, Idle, remote
  <2>. QED
    BY <2>1, <2>2
<1>4. ASSUME NEW m \in Members, ClaimUnanswered(m)
      PROVE  Shape'
  BY <1>4 DEF ClaimUnanswered, Idle, remote, history
<1>5. ASSUME NEW m \in Members, NEW k \in Subjects, ReleaseAnswered(m, k)
      PROVE  Shape'
  <2>1. own' \in [Members -> [Subjects -> Row \cup {None}]]
    BY <1>5 DEF ReleaseAnswered
  <2>2. /\ released' \in [Members -> SUBSET Subjects]
        /\ overlapped' \in [Members -> SUBSET Subjects]
        /\ dropping' \in [Members -> SUBSET Subjects]
    <3>1. CASE Leased(m, k)
      BY <1>5, <3>1 DEF ReleaseAnswered
    <3>2. CASE ~Leased(m, k)
      <4>1. Heard(m, {k})
        BY <1>5, <3>2 DEF ReleaseAnswered
      <4>. QED
        BY <4>1, HeardShape
    <3>. QED
      BY <3>1, <3>2
  <2>. QED
    BY <1>5, <2>1, <2>2 DEF ReleaseAnswered, remote
<1>6. ASSUME NEW m \in Members, NEW k \in Subjects,
             ReleaseAtRelay(m, k) \/ ReleaseUnanswered(m, k) \/ ReleaseOwn(m, k)
      PROVE  Shape'
  <2>1. CASE ReleaseAtRelay(m, k)
    BY <2>1 DEF ReleaseAtRelay, history
  <2>2. CASE ReleaseUnanswered(m, k)
    BY <2>2 DEF ReleaseUnanswered, remote, history
  <2>3. CASE ReleaseOwn(m, k)
    BY <2>3 DEF ReleaseOwn, remote, history
  <2>. QED
    BY <1>6, <2>1, <2>2, <2>3
<1>7. ASSUME NEW m \in Members, BeatPost(m)
      PROVE  Shape'
  <2>1. table' \subseteq Claimed
    <3>1. \A c \in Claimed : [c EXCEPT !.renewed = clock] \in Claimed
      BY DEF Claimed
    <3>2. \A c \in table' : c \in table \/ \E d \in table : c = [d EXCEPT !.renewed = clock]
      BY <1>7 DEF BeatPost
    <3>. QED
      BY <3>1, <3>2
  <2>2. bodies' \in [Members -> SUBSET SUBSET Rows]
    BY <1>7, BuiltBodies DEF BeatPost
  <2>. QED
    BY <1>7, <2>1, <2>2 DEF BeatPost, history
<1>8. ASSUME NEW m \in Members, RenewRead(m)
      PROVE  Shape'
  <2>1. LiveRows(m) \in SUBSET Rows
    BY LiveRowsOK
  <2>. QED
    BY <1>8, <2>1 DEF RenewRead, remote, history
<1>14. ASSUME NEW m \in Members, Deliver(m)
       PROVE  Shape'
  <2>. DEFINE heard(body) == {k \in dropping[m] : own[m][k] = None /\ \A r \in body : r.key # k}
  <2>1. PICK body \in bodies[m] : /\ posted' = [posted EXCEPT ![m] = PresenceOf(m, body)]
                                  /\ bodies' \in {bodies, [bodies EXCEPT ![m] = @ \ {body}]}
                                  /\ Heard(m, heard(body))
    BY <1>14 DEF Deliver
  <2>2. posted' \in [Members -> SUBSET Claimed]
    <3>1. PresenceOf(m, body) \subseteq Claimed
      BY PresenceRows
    <3>. QED
      BY <2>1, <3>1
  <2>3. bodies' \in [Members -> SUBSET SUBSET Rows]
    BY <2>1
  <2>4. heard(body) \in SUBSET Subjects
    OBVIOUS
  <2>. HIDE DEF heard
  <2>5. /\ released' \in [Members -> SUBSET Subjects]
        /\ overlapped' \in [Members -> SUBSET Subjects]
        /\ dropping' \in [Members -> SUBSET Subjects]
    BY <2>1, <2>4, HeardShape
  <2>. QED
    BY <1>14, <2>2, <2>3, <2>5 DEF Deliver
<1>15. ASSUME NEW m \in Members, Undelivered(m)
       PROVE  Shape'
  BY <1>15 DEF Undelivered, remote, history
<1>9. ASSUME NEW m \in Members, RenewWrite(m)
      PROVE  Shape'
  <2>1. ASSUME NEW k \in Subjects, \E r \in renewing[m] : r.key = k
        PROVE  AddOwnClaim(own[m][k], (CHOOSE r \in renewing[m] : r.key = k).acquired) \in Row
    <3>1. (CHOOSE r \in renewing[m] : r.key = k).acquired \in 1..MaxClock
      BY <2>1 DEF Rows
    <3>2. own[m][k] \in Row \cup {None} /\ clock \in 1..MaxClock
      OBVIOUS
    <3>. QED
      BY <3>1, <3>2, AddedRow
  <2>2. own' \in [Members -> [Subjects -> Row \cup {None}]]
    BY <1>9, <2>1 DEF RenewWrite
  <2>. QED
    BY <1>9, <2>2 DEF RenewWrite, remote, Idle
<1>10. ASSUME NEW m \in Members, Sync(m) \/ StartSync(m)
       PROVE  Shape'
  BY <1>10, ReportedRows DEF Sync, StartSync, PeersIn, remote, history
<1>11. ASSUME NEW m \in Members, Adopt(m)
       PROVE  Shape'
  <2>1. ASSUME NEW k \in Subjects, \E r \in adopting[m] : r.key = k
        PROVE  Readopt(own[m][k], (CHOOSE r \in adopting[m] : r.key = k).acquired) \in Row
    <3>1. (CHOOSE r \in adopting[m] : r.key = k).acquired \in 1..MaxClock
      BY <2>1 DEF Claimed
    <3>2. own[m][k] \in Row \cup {None} /\ clock \in 1..MaxClock
      OBVIOUS
    <3>. QED
      BY <3>1, <3>2, AddedRow
  <2>2. own' \in [Members -> [Subjects -> Row \cup {None}]]
    BY <1>11, <2>1 DEF Adopt
  <2>. QED
    BY <1>11, <2>2 DEF Adopt, remote, Idle
<1>12. ASSUME NEW m \in Members, StateLost(m)
       PROVE  Shape'
  BY <1>12 DEF StateLost, remote, history
<1>13. CASE UNCHANGED ownVars
  BY <1>13 DEF ownVars
<1>. QED
  BY <1>1, <1>2, <1>3, <1>4, <1>5, <1>6, <1>7, <1>8, <1>9, <1>10, <1>11, <1>12, <1>13,
     <1>14, <1>15 DEF Next

(* The type invariant of the model. *)
THEOREM OwnTypes == Spec => []TypeOK
<1>1. Shape => TypeOK
  BY DEF Shape
<1>. QED
  BY <1>1, OwnInit, ShapeStep, PTL DEF Spec

-----------------------------------------------------------------------------
(* A member's claims as the transport or a session start knows them are    *)
(* its own and one per subject.                                            *)
OnePerSubject(claims) == \A c, d \in claims : c.key = d.key => c = d

Single ==
  /\ OnePerSubject(table)
  /\ \A m \in Members : /\ \A c \in posted[m] : c.owner = m
                        /\ OnePerSubject(posted[m])
                        /\ \A body \in bodies[m] : OnePerSubject(body)
                        /\ \A c \in adopting[m] : c.owner = m
                        /\ OnePerSubject(adopting[m])

LEMMA PresenceSingle ==
  ASSUME NEW m, NEW body, OnePerSubject(body)
  PROVE  OnePerSubject(PresenceOf(m, body)) /\ \A c \in PresenceOf(m, body) : c.owner = m
  BY DEF PresenceOf, OnePerSubject

LEMMA LiveRowsSingle ==
  ASSUME NEW m
  PROVE  OnePerSubject(LiveRows(m))
  BY DEF LiveRows, OnePerSubject

(* A presence that arrives, or does not, moves nothing on the member's side. *)
LEMMA CarryKeeps ==
  ASSUME NEW m, Deliver(m) \/ Undelivered(m)
  PROVE  /\ relayed' = relayed /\ clock' = clock /\ own' = own /\ cache' = cache
         /\ command' = command /\ renewing' = renewing /\ adopting' = adopting
         /\ table' = table /\ revived' = revived /\ commands' = commands
         /\ Undelivered(m) => /\ posted' = posted /\ released' = released
                             /\ overlapped' = overlapped /\ dropping' = dropping
<1>1. CASE Deliver(m)
  BY <1>1 DEF Deliver, Undelivered, remote, history
<1>2. CASE Undelivered(m)
  BY <1>2 DEF Undelivered, remote, history
<1>. QED
  BY <1>1, <1>2

(* Which steps move the clock, the history and the presences.              *)
LEMMA StepKeeps ==
  ASSUME [Next]_ownVars
  PROVE  /\ relayed' = relayed
         /\ clock' = clock \/ clock' = clock + 1
         /\ ~revived' => ~revived
         /\ posted' = posted \/ \E m \in Members : Deliver(m)
<1>. USE DEF remote, history
<1>1. CASE UNCHANGED ownVars
  BY <1>1 DEF ownVars
<1>2. CASE Tick
  BY <1>2 DEF Tick
<1>3. ASSUME NEW m \in Members, NEW k \in Subjects, Claim(m, k)
      PROVE  relayed' = relayed /\ clock' = clock /\ (revived => revived') /\ posted' = posted
  BY <1>3 DEF Claim, ClaimAtRelay, ClaimOnNtfy
<1>4. ASSUME NEW m \in Members, ClaimAnswered(m)
      PROVE  relayed' = relayed /\ clock' = clock /\ (revived => revived') /\ posted' = posted
  <2>1. relayed' = relayed /\ clock' = clock /\ posted' = posted
    BY <1>4 DEF ClaimAnswered
  <2>2. revived => revived'
    BY <1>4 DEF ClaimAnswered
  <2>. QED
    BY <2>1, <2>2
<1>5. ASSUME NEW m \in Members, NEW k \in Subjects, ReleaseAnswered(m, k)
      PROVE  relayed' = relayed /\ clock' = clock /\ revived' = revived /\ posted' = posted
  BY <1>5 DEF ReleaseAnswered
<1>6. ASSUME NEW m \in Members, NEW k \in Subjects,
             ReleaseAtRelay(m, k) \/ ReleaseUnanswered(m, k) \/ ReleaseOwn(m, k)
      PROVE  relayed' = relayed /\ clock' = clock /\ revived' = revived /\ posted' = posted
  BY <1>6 DEF ReleaseAtRelay, ReleaseUnanswered, ReleaseOwn
<1>7. ASSUME NEW m \in Members, ClaimUnanswered(m) \/ BeatPost(m) \/ RenewRead(m)
      PROVE  relayed' = relayed /\ clock' = clock /\ revived' = revived /\ posted' = posted
  BY <1>7 DEF ClaimUnanswered, BeatPost, RenewRead
<1>8. ASSUME NEW m \in Members, RenewWrite(m) \/ Adopt(m)
      PROVE  relayed' = relayed /\ clock' = clock /\ (revived => revived') /\ posted' = posted
  <2>1. CASE RenewWrite(m)
    BY <2>1 DEF RenewWrite
  <2>2. CASE Adopt(m)
    BY <2>2 DEF Adopt
  <2>. QED
    BY <1>8, <2>1, <2>2
<1>9. ASSUME NEW m \in Members, Sync(m) \/ StartSync(m) \/ StateLost(m)
      PROVE  relayed' = relayed /\ clock' = clock /\ revived' = revived /\ posted' = posted
  BY <1>9 DEF Sync, StartSync, StateLost
<1>10. ASSUME NEW m \in Members, Deliver(m) \/ Undelivered(m)
       PROVE  /\ relayed' = relayed /\ clock' = clock /\ revived' = revived
              /\ posted' = posted \/ Deliver(m)
  BY <1>10, CarryKeeps
<1>. QED
  BY <1>1, <1>2, <1>3, <1>4, <1>5, <1>6, <1>7, <1>8, <1>9, <1>10 DEF Next

(* A body under way was so before, or has just been built from own rows.   *)
LEMMA BodiesFate ==
  ASSUME Shape, [Next]_ownVars, NEW n \in Members
  PROVE  /\ bodies'[n] \subseteq bodies[n] \cup {LiveRows(n)}
         /\ relayed => bodies'[n] \subseteq bodies[n]
<1>1. \/ bodies' = bodies
      \/ \E m \in Members : ClaimAnswered(m) \/ BeatPost(m) \/ Deliver(m) \/ Undelivered(m)
  BY DEF Next, ownVars, Tick, Claim, ClaimUnanswered, ReleaseAtRelay, ReleaseAnswered, ReleaseUnanswered,
     ReleaseOwn, RenewRead, RenewWrite, Sync, StartSync, Adopt, StateLost
<1>2. ASSUME NEW m \in Members, ClaimAnswered(m) \/ BeatPost(m)
      PROVE  bodies' = bodies \/ (~relayed /\ Build(m))
  BY <1>2 DEF ClaimAnswered, BeatPost
<1>3. ASSUME NEW m \in Members, Deliver(m) \/ Undelivered(m)
      PROVE  bodies'[n] \subseteq bodies[n]
  BY <1>3 DEF Deliver, Undelivered, Shape, HandsOK
<1>. QED
  BY <1>1, <1>2, <1>3, BuiltBodies

(* A presence is the one published last, or a body that was under way.     *)
LEMMA PresenceFate ==
  ASSUME Shape, [Next]_ownVars, NEW n \in Members
  PROVE  posted'[n] = posted[n] \/ \E body \in bodies[n] : posted'[n] = PresenceOf(n, body)
<1>1. posted' = posted \/ \E m \in Members : Deliver(m)
  BY StepKeeps
<1>2. ASSUME NEW m \in Members, NEW body \in bodies[m], posted' = [posted EXCEPT ![m] = PresenceOf(m, body)]
      PROVE  posted'[n] = posted[n] \/ \E b \in bodies[n] : posted'[n] = PresenceOf(n, b)
  BY <1>2 DEF Shape, TypeOK
<1>. QED
  BY <1>1, <1>2 DEF Deliver

(* Only a session start and its re-adoption change what is in its hands.   *)
LEMMA AdoptingFate ==
  ASSUME Shape, [Next]_ownVars, NEW n \in Members
  PROVE  adopting'[n] = adopting[n] \/ StartSync(n) \/ (Adopt(n) /\ adopting'[n] = Idle)
<1>1. \/ adopting' = adopting
      \/ \E m \in Members : StartSync(m) \/ Adopt(m)
  BY CarryKeeps DEF Next, ownVars, Tick, Claim, ClaimAnswered, ClaimUnanswered, ReleaseAtRelay,
     ReleaseAnswered,
     ReleaseUnanswered, ReleaseOwn, BeatPost, RenewRead, RenewWrite, Sync, StateLost
<1>2. ASSUME NEW m \in Members, StartSync(m)
      PROVE  adopting'[n] = adopting[n] \/ StartSync(n)
  <2>1. CASE m = n
    BY <1>2, <2>1
  <2>2. CASE m # n
    BY <1>2, <2>2 DEF StartSync, Shape, HandsOK
  <2>. QED
    BY <2>1, <2>2
<1>3. ASSUME NEW m \in Members, Adopt(m)
      PROVE  adopting'[n] = adopting[n] \/ (Adopt(n) /\ adopting'[n] = Idle)
  <2>1. adopting'[n] = IF m = n THEN Idle ELSE adopting[n]
    BY <1>3 DEF Adopt, Shape, HandsOK
  <2>. QED
    BY <1>3, <2>1
<1>. QED
  BY <1>1, <1>2, <1>3

(* Only a claim and a beat add rows to the lease table.                    *)
LEMMA TableFate ==
  ASSUME [Next]_ownVars
  PROVE  \/ table' \subseteq table
         \/ \E m \in Members : \/ BeatPost(m)
                              \/ \E k \in Subjects : Claim(m, k) /\ ClaimAtRelay(m, k)
<1>1. CASE UNCHANGED ownVars
  BY <1>1 DEF ownVars
<1>2. CASE Tick
  BY <1>2 DEF Tick, remote
<1>3. ASSUME NEW m \in Members, NEW k \in Subjects, Claim(m, k)
      PROVE  table' = table \/ ClaimAtRelay(m, k)
  BY <1>3 DEF Claim, ClaimOnNtfy, remote
<1>4. ASSUME NEW m \in Members, NEW k \in Subjects, \/ ReleaseAtRelay(m, k) \/ ReleaseAnswered(m, k)
                                                  \/ ReleaseUnanswered(m, k) \/ ReleaseOwn(m, k)
      PROVE  table' \subseteq table
  BY <1>4 DEF ReleaseAtRelay, ReleaseAnswered, ReleaseUnanswered, ReleaseOwn, remote
<1>5. ASSUME NEW m \in Members, \/ ClaimAnswered(m) \/ ClaimUnanswered(m)
                                \/ Deliver(m) \/ Undelivered(m)
      PROVE  table' = table
  BY <1>5 DEF ClaimAnswered, ClaimUnanswered, Deliver, Undelivered, remote
<1>6. ASSUME NEW m \in Members, RenewRead(m) \/ RenewWrite(m) \/ Sync(m)
      PROVE  table' = table
  BY <1>6 DEF RenewRead, RenewWrite, Sync, remote
<1>7. ASSUME NEW m \in Members, StartSync(m) \/ Adopt(m) \/ StateLost(m)
      PROVE  table' = table
  BY <1>7 DEF StartSync, Adopt, StateLost, remote
<1>. QED
  BY <1>1, <1>2, <1>3, <1>4, <1>5, <1>6, <1>7 DEF Next

LEMMA SingleStep == Shape /\ Single /\ [Next]_ownVars => Single'
<1>. SUFFICES ASSUME Shape, Single, [Next]_ownVars PROVE Single'
  OBVIOUS
<1>. USE DEF Single
<1>1. OnePerSubject(table')
  <2>1. ASSUME NEW m \in Members, NEW k \in Subjects, ClaimAtRelay(m, k)
        PROVE  OnePerSubject(table')
    BY <2>1 DEF ClaimAtRelay, OnePerSubject
  <2>2. ASSUME NEW m \in Members, BeatPost(m)
        PROVE  OnePerSubject(table')
    <3>. DEFINE Redated(d) == IF d.owner = m THEN [d EXCEPT !.renewed = clock] ELSE d
    <3>1. CASE relayed
      <4>1. \A c \in table' : \E d \in table : c = Redated(d)
        BY <2>2, <3>1 DEF BeatPost
      <4>2. \A d \in table : Redated(d).key = d.key
        BY DEF Shape, TypeOK, Claimed
      <4>. HIDE DEF Redated
      <4>. QED
        BY <4>1, <4>2 DEF OnePerSubject
    <3>2. CASE ~relayed
      BY <2>2, <3>2 DEF BeatPost
    <3>. QED
      BY <3>1, <3>2
  <2>3. CASE table' \subseteq table
    BY <2>3 DEF OnePerSubject
  <2>4. \/ table' \subseteq table
        \/ \E m \in Members : \/ BeatPost(m)
                             \/ \E k \in Subjects : Claim(m, k) /\ ClaimAtRelay(m, k)
    BY TableFate
  <2>. QED
    BY <2>1, <2>2, <2>3, <2>4
<1>2. ASSUME NEW n \in Members
      PROVE  OnePerSubject(posted'[n]) /\ \A c \in posted'[n] : c.owner = n
  BY PresenceFate, PresenceSingle
<1>4. ASSUME NEW n \in Members, NEW body \in bodies'[n]
      PROVE  OnePerSubject(body)
  BY BodiesFate, LiveRowsSingle
<1>3. ASSUME NEW n \in Members
      PROVE  OnePerSubject(adopting'[n]) /\ \A c \in adopting'[n] : c.owner = n
  <2>1. adopting'[n] \in {adopting[n], Idle} \/ StartSync(n)
    BY AdoptingFate
  <2>2. CASE adopting'[n] \in {adopting[n], Idle}
    BY <2>2 DEF Idle, OnePerSubject
  <2>3. CASE StartSync(n)
    <3>1. adopting'[n] = {c \in Reported : c.owner = n /\ LiveRow(c)}
      BY <2>3 DEF StartSync, Shape, HandsOK
    <3>2. \A c \in adopting'[n] : c \in table \/ c \in posted[n]
      BY <3>1 DEF Reported
    <3>3. \A c \in adopting'[n] : IF relayed THEN c \in table ELSE c \in posted[n]
      BY <3>1 DEF Reported
    <3>. QED
      BY <3>1, <3>3 DEF OnePerSubject
  <2>. QED
    BY <2>1, <2>2, <2>3
<1>. QED
  BY <1>1, <1>2, <1>3, <1>4

-----------------------------------------------------------------------------
(* What a step makes of a row of own_claims.                               *)
LEMMA OwnFate ==
  ASSUME Shape, [Next]_ownVars, NEW m \in Members, NEW k \in Subjects
  PROVE  \/ own'[m][k] \in {own[m][k], None}
         \/ \E a : own'[m][k] = AddOwnClaim(own[m][k], a)
         \/ Adopt(m)
<1>. USE DEF Shape, TypeOK
<1>1. ASSUME NEW n \in Members, NEW j \in Subjects, ClaimOnNtfy(n, j)
      PROVE  own'[m][k] = own[m][k] \/ \E a : own'[m][k] = AddOwnClaim(own[m][k], a)
  BY <1>1 DEF ClaimOnNtfy
<1>2. ASSUME NEW n \in Members, ClaimAnswered(n)
      PROVE  own'[m][k] = own[m][k] \/ \E a : own'[m][k] = AddOwnClaim(own[m][k], a)
  BY <1>2 DEF ClaimAnswered
<1>3. ASSUME NEW n \in Members, NEW j \in Subjects, ReleaseAnswered(n, j) \/ ReleaseOwn(n, j)
      PROVE  own'[m][k] \in {own[m][k], None}
  BY <1>3 DEF ReleaseAnswered, ReleaseOwn
<1>4. ASSUME NEW n \in Members, RenewWrite(n)
      PROVE  own'[m][k] = own[m][k] \/ \E a : own'[m][k] = AddOwnClaim(own[m][k], a)
  BY <1>4 DEF RenewWrite
<1>5. ASSUME NEW n \in Members, Adopt(n)
      PROVE  own'[m][k] = own[m][k] \/ Adopt(m)
  <2>1. \E f : own' = [own EXCEPT ![n] = f]
    BY <1>5 DEF Adopt
  <2>. QED
    BY <1>5, <2>1
<1>6. ASSUME NEW n \in Members, StateLost(n)
      PROVE  own'[m][k] \in {own[m][k], None}
  BY <1>6 DEF StateLost
<1>7. CASE own' = own
  BY <1>7
<1>8. \/ own' = own
      \/ \E n \in Members :
           \/ ClaimAnswered(n) \/ RenewWrite(n) \/ Adopt(n) \/ StateLost(n)
           \/ \E j \in Subjects : ClaimOnNtfy(n, j) \/ ReleaseAnswered(n, j) \/ ReleaseOwn(n, j)
  BY CarryKeeps DEF Next, ownVars, Tick, Claim, ClaimAtRelay, ClaimUnanswered, ReleaseAtRelay,
     ReleaseUnanswered,
     BeatPost, RenewRead, Sync, StartSync
<1>. QED
  BY <1>1, <1>2, <1>3, <1>4, <1>5, <1>6, <1>7, <1>8

(* A re-adoption of one of the reported rows leaves the row no younger     *)
(* than either.                                                            *)
LEMMA ReadoptEarliest ==
  ASSUME Shape, NEW row \in Row \cup {None}, NEW acquired \in 1..MaxClock
  PROVE  /\ LiveRow(row) => Readopt(row, acquired).acquired <= row.acquired
         /\ row = None \/ LiveRow(row) => Readopt(row, acquired).acquired <= acquired
<1>1. AddOwnClaim(None, acquired).acquired = acquired
  BY DEF AddOwnClaim
<1>2. row # None => AddOwnClaim(row, acquired).acquired = row.acquired
  BY DEF AddOwnClaim
<1>3. acquired \in Nat /\ (row # None => row.acquired \in Nat)
  BY OwnAssumption DEF Row
<1>4. ~LiveRow(None)
  BY DEF LiveRow, None
<1>. QED
  BY <1>1, <1>2, <1>3, <1>4 DEF Readopt

(* The age of a live own claim only goes back.                             *)
THEOREM AgesOnlyRewind == Spec => AgeOnlyRewinds
<1>1. Init => Single
  BY DEF Init, Single, OnePerSubject, Idle
<1>2. Shape /\ Single /\ [Next]_ownVars
        => [\A m \in Members : \A k \in Subjects :
              /\ LiveRow(own[m][k]) /\ own'[m][k] # None => own'[m][k].acquired <= own[m][k].acquired
              /\ \A r \in adopting[m] :
                   /\ r.key = k /\ adopting'[m] = Idle
                   /\ own[m][k] = None \/ LiveRow(own[m][k])
                   => own'[m][k].acquired <= r.acquired]_ownVars
  <2>. SUFFICES ASSUME Shape, Single, [Next]_ownVars, NEW m \in Members, NEW k \in Subjects
                PROVE  /\ LiveRow(own[m][k]) /\ own'[m][k] # None
                            => own'[m][k].acquired <= own[m][k].acquired
                       /\ \A r \in adopting[m] :
                            /\ r.key = k /\ adopting'[m] = Idle
                            /\ own[m][k] = None \/ LiveRow(own[m][k])
                            => own'[m][k].acquired <= r.acquired
    OBVIOUS
  <2>1. own[m][k] \in Row \cup {None} /\ clock \in 1..MaxClock
    BY DEF Shape, TypeOK
  <2>2. own[m][k] # None => own[m][k].acquired \in Nat
    BY <2>1, OwnAssumption DEF Row
  <2>3. ~LiveRow(None)
    BY DEF LiveRow, None
  <2>4. CASE Adopt(m)
    <3>1. own'[m][k] = IF \E r \in adopting[m] : r.key = k
                       THEN Readopt(own[m][k], (CHOOSE r \in adopting[m] : r.key = k).acquired)
                       ELSE own[m][k]
      BY <2>4 DEF Adopt, Shape, TypeOK
    <3>2. ASSUME NEW r \in adopting[m], r.key = k
          PROVE  own'[m][k] = Readopt(own[m][k], r.acquired) /\ r.acquired \in 1..MaxClock
      <4>1. (CHOOSE x \in adopting[m] : x.key = k) = r
        BY <3>2 DEF Single, OnePerSubject
      <4>2. r \in Claimed
        BY DEF Shape, HandsOK
      <4>. QED
        BY <3>1, <3>2, <4>1, <4>2 DEF Claimed
    <3>. QED
      BY <2>1, <2>2, <2>3, <3>1, <3>2, ReadoptEarliest
  <2>5. CASE ~Adopt(m)
    <3>1. adopting[m] # {} => adopting'[m] # Idle
      BY <2>5, AdoptingFate DEF StartSync, Idle
    <3>2. own[m][k] # None /\ own'[m][k] # None => own'[m][k].acquired = own[m][k].acquired
      <4>1. \A a : own[m][k] # None => AddOwnClaim(own[m][k], a).acquired = own[m][k].acquired
        BY DEF AddOwnClaim
      <4>2. \/ own'[m][k] \in {own[m][k], None}
            \/ \E a : own'[m][k] = AddOwnClaim(own[m][k], a)
        BY <2>5, OwnFate
      <4>. QED
        BY <4>1, <4>2
    <3>. QED
      BY <2>2, <2>3, <3>1, <3>2
  <2>. QED
    BY <2>4, <2>5
<1>. QED
  BY <1>1, <1>2, OwnInit, ShapeStep, SingleStep, PTL DEF Spec, AgeOnlyRewinds

-----------------------------------------------------------------------------
(* A workspace has one transport.                                          *)
OneTransport ==
  /\ relayed => \A m \in Members : posted[m] = {} /\ bodies[m] = {}
  /\ ~relayed => table = {}

LEMMA TransportStep == Shape /\ OneTransport /\ [Next]_ownVars => OneTransport'
<1>. SUFFICES ASSUME Shape, OneTransport, [Next]_ownVars PROVE OneTransport'
  OBVIOUS
<1>. USE DEF OneTransport
<1>1. relayed' = relayed
  BY StepKeeps
<1>2. IF relayed THEN posted' = posted ELSE table' = table
  <2>1. ASSUME NEW m \in Members, NEW k \in Subjects,
               Claim(m, k) \/ ReleaseAtRelay(m, k) \/ ReleaseAnswered(m, k)
        PROVE  IF relayed THEN posted' = posted ELSE table' = table
    <3>1. CASE Claim(m, k)
      BY <3>1 DEF Claim, ClaimAtRelay, ClaimOnNtfy, remote
    <3>2. CASE ReleaseAtRelay(m, k)
      BY <3>2 DEF ReleaseAtRelay
    <3>3. CASE ReleaseAnswered(m, k)
      BY <3>3 DEF ReleaseAnswered, remote
    <3>. QED
      BY <2>1, <3>1, <3>2, <3>3
  <2>2. ASSUME NEW m \in Members, BeatPost(m)
        PROVE  IF relayed THEN posted' = posted ELSE table' = table
    BY <2>2 DEF BeatPost
  <2>3. ASSUME NEW m \in Members, Deliver(m)
        PROVE  IF relayed THEN posted' = posted ELSE table' = table
    <3>1. ~relayed
      BY <2>3 DEF Deliver
    <3>. QED
      BY <2>3, <3>1 DEF Deliver
  <2>4. \/ posted' = posted /\ table' = table
        \/ \E m \in Members : \/ BeatPost(m) \/ Deliver(m)
                             \/ \E k \in Subjects : Claim(m, k) \/ ReleaseAtRelay(m, k) \/ ReleaseAnswered(m, k)
    BY DEF Next, ownVars, remote, Tick, ClaimAnswered, ClaimUnanswered, ReleaseUnanswered, ReleaseOwn,
       Undelivered, RenewRead, RenewWrite, Sync, StartSync, Adopt, StateLost
  <2>. QED
    BY <2>1, <2>2, <2>3, <2>4
<1>3. \A m \in Members : relayed => bodies'[m] \subseteq bodies[m]
  BY BodiesFate
<1>. QED
  BY <1>1, <1>2, <1>3

(* A claim that nobody has a copy of: not the state file, not a process    *)
(* that read it before, not the transport.                                 *)
Forgotten(m, k) ==
  /\ own[m][k] = None
  /\ \A r \in renewing[m] \cup adopting[m] : r.key # k
  /\ relayed => \A r \in command[m] : r.key # k
  /\ \A body \in bodies[m] : \A r \in body : r.key # k
  /\ \A c \in table : c.owner # m \/ c.key # k
  /\ \A c \in posted[m] : c.key # k

ReleasedForgotten == \A m \in Members : \A k \in released[m] \ overlapped[m] : Forgotten(m, k)

(* A claim that was forgotten stays so until the user claims it again.     *)
LEMMA ForgottenStays ==
  ASSUME Shape, Single, [Next]_ownVars, NEW m \in Members, NEW k \in Subjects, Forgotten(m, k),
         ~Claim(m, k)
  PROVE  Forgotten(m, k)'
<1>. USE DEF Shape, TypeOK, HandsOK, Forgotten
<1>1. k \notin OwnLive(m)
  BY DEF OwnLive, LiveRow, None
<1>0. \A r \in LiveRows(m) : r.key # k
  BY <1>1 DEF LiveRows
<1>2. /\ \A body \in bodies'[m] : \A r \in body : r.key # k
      /\ \A c \in posted'[m] : c.key # k
  <2>1. \A body \in bodies'[m] : \A r \in body : r.key # k
    BY <1>0, BodiesFate
  <2>2. \A body \in bodies[m] : \A c \in PresenceOf(m, body) : c.key # k
    BY DEF PresenceOf
  <2>. QED
    BY <2>1, <2>2, PresenceFate
<1>15. relayed' = relayed
  BY StepKeeps
<1>3. ASSUME NEW n \in Members, NEW j \in Subjects, Claim(n, j)
      PROVE  Forgotten(m, k)'
  <2>1. n # m \/ j # k
    BY <1>3
  <2>2. CASE ClaimAtRelay(n, j)
    <3>1. \A r \in command'[m] : r.key # k
      BY <2>1, <2>2 DEF ClaimAtRelay
    <3>2. \A c \in table' : c \in table \/ (c.owner = n /\ c.key = j)
      BY <2>2 DEF ClaimAtRelay
    <3>. QED
      BY <1>3, <2>1, <2>2, <3>1, <3>2 DEF Claim, ClaimAtRelay
  <2>3. CASE ClaimOnNtfy(n, j)
    <3>1. own'[m][k] = None
      BY <2>1, <2>3 DEF ClaimOnNtfy
    <3>. QED
      BY <1>2, <1>3, <1>15, <2>3, <3>1 DEF Claim, ClaimOnNtfy, remote
  <2>. QED
    BY <1>3, <2>2, <2>3 DEF Claim
<1>4. ASSUME NEW n \in Members, ClaimAnswered(n)
      PROVE  Forgotten(m, k)'
  <2>1. own'[m][k] = None
    <3>1. CASE relayed
      <4>1. PICK c \in command[n] : own' = [own EXCEPT ![n][c.key] = AddOwnClaim(@, c.acquired)]
        BY <1>4, <3>1 DEF ClaimAnswered
      <4>2. n # m \/ c.key # k
        BY <3>1
      <4>. QED
        BY <4>1, <4>2 DEF Rows
    <3>2. CASE ~relayed
      BY <1>4, <3>2 DEF ClaimAnswered
    <3>. QED
      BY <3>1, <3>2
  <2>2. command'[m] \subseteq command[m]
    BY <1>4 DEF ClaimAnswered, Idle
  <2>. QED
    BY <1>2, <1>4, <1>15, <2>1, <2>2 DEF ClaimAnswered, remote
<1>5. ASSUME NEW n \in Members, ClaimUnanswered(n)
      PROVE  Forgotten(m, k)'
  <2>1. command'[m] \subseteq command[m]
    BY <1>5 DEF ClaimUnanswered, Idle
  <2>. QED
    BY <1>2, <1>5, <1>15, <2>1 DEF ClaimUnanswered, remote
<1>6. ASSUME NEW n \in Members, NEW j \in Subjects, ReleaseAnswered(n, j) \/ ReleaseOwn(n, j)
      PROVE  Forgotten(m, k)'
  <2>1. own'[m][k] = None
    BY <1>6 DEF ReleaseAnswered, ReleaseOwn
  <2>. QED
    BY <1>2, <1>6, <1>15, <2>1 DEF ReleaseAnswered, ReleaseOwn, remote
<1>7. ASSUME NEW n \in Members, NEW j \in Subjects, ReleaseAtRelay(n, j) \/ ReleaseUnanswered(n, j)
      PROVE  Forgotten(m, k)'
  <2>1. table' \subseteq table
    BY <1>7 DEF ReleaseAtRelay, ReleaseUnanswered, remote
  <2>. QED
    BY <1>2, <1>7, <1>15, <2>1 DEF ReleaseAtRelay, ReleaseUnanswered, remote
<1>8. ASSUME NEW n \in Members, BeatPost(n)
      PROVE  Forgotten(m, k)'
  <2>1. \A c \in table' : c.owner # m \/ c.key # k
    <3>. DEFINE Redated(d) == [d EXCEPT !.renewed = clock]
    <3>1. \A c \in table' : c \in table \/ \E d \in table : c = Redated(d)
      BY <1>8 DEF BeatPost
    <3>2. \A d \in table : Redated(d).owner = d.owner /\ Redated(d).key = d.key
      BY DEF Claimed
    <3>. HIDE DEF Redated
    <3>. QED
      BY <3>1, <3>2
  <2>. QED
    BY <1>2, <1>8, <1>15, <2>1 DEF BeatPost
<1>9. ASSUME NEW n \in Members, RenewRead(n)
      PROVE  Forgotten(m, k)'
  <2>1. \A r \in renewing'[m] : r.key # k
    BY <1>0, <1>9 DEF RenewRead
  <2>. QED
    BY <1>2, <1>9, <1>15, <2>1 DEF RenewRead, remote
<1>10. ASSUME NEW n \in Members, RenewWrite(n)
       PROVE  Forgotten(m, k)'
  <2>1. own'[m][k] = None
    BY <1>10 DEF RenewWrite
  <2>2. renewing'[m] \subseteq renewing[m]
    BY <1>10 DEF RenewWrite, Idle
  <2>. QED
    BY <1>2, <1>10, <1>15, <2>1, <2>2 DEF RenewWrite, remote
<1>11. ASSUME NEW n \in Members, Sync(n) \/ StateLost(n) \/ Deliver(n) \/ Undelivered(n)
       PROVE  Forgotten(m, k)'
  <2>1. CASE Sync(n) \/ StateLost(n)
    BY <1>2, <1>15, <2>1 DEF Sync, StateLost, remote
  <2>2. CASE Deliver(n) \/ Undelivered(n)
    BY <1>2, <1>15, <2>2 DEF Deliver, Undelivered, remote
  <2>. QED
    BY <1>11, <2>1, <2>2
<1>12. ASSUME NEW n \in Members, StartSync(n)
       PROVE  Forgotten(m, k)'
  <2>1. \A c \in Reported : c.owner = m => c \in table \/ c \in posted[m]
    BY DEF Reported, Single
  <2>2. \A r \in adopting'[m] : r.key # k
    BY <1>12, <2>1 DEF StartSync
  <2>. QED
    BY <1>2, <1>12, <1>15, <2>2 DEF StartSync, remote
<1>13. ASSUME NEW n \in Members, Adopt(n)
       PROVE  Forgotten(m, k)'
  <2>1. own'[m][k] = None
    BY <1>13 DEF Adopt
  <2>2. adopting'[m] \subseteq adopting[m]
    BY <1>13 DEF Adopt, Idle
  <2>. QED
    BY <1>2, <1>13, <1>15, <2>1, <2>2 DEF Adopt, remote
<1>14. CASE Tick \/ UNCHANGED ownVars
  BY <1>14 DEF Tick, ownVars, remote
<1>. QED
  BY <1>3, <1>4, <1>5, <1>6, <1>7, <1>8, <1>9, <1>10, <1>11, <1>12, <1>13, <1>14 DEF Next

(* A release that the transport has heard, with nothing under way that was  *)
(* read before it, leaves no copy of the claim.                            *)
LEMMA ReleaseForgets ==
  ASSUME Shape, Single, OneTransport, NEW m \in Members, NEW k \in Subjects,
         \/ ReleaseAnswered(m, k) /\ ~Leased(m, k)
         \/ Deliver(m) /\ own[m][k] = None /\ (\A c \in posted'[m] : c.key # k),
         ~InHand(m, k)'
  PROVE  Forgotten(m, k)'
<1>. USE DEF Shape, TypeOK, HandsOK
<1>1. own'[m][k] = None
  <2>1. ReleaseAnswered(m, k) => own'[m][k] = None
    BY DEF ReleaseAnswered
  <2>2. Deliver(m) => own' = own
    BY CarryKeeps
  <2>. QED
    BY <2>1, <2>2
<1>2. /\ \A r \in renewing'[m] \cup adopting'[m] : r.key # k
      /\ relayed' => \A r \in command'[m] : r.key # k
      /\ \A body \in bodies'[m] : \A r \in body : r.key # k
  BY DEF InHand
<1>3. CASE ReleaseAnswered(m, k) /\ ~Leased(m, k)
  <2>1. \A c \in table' : c.owner # m \/ c.key # k
    BY <1>3 DEF ReleaseAnswered, Leased, remote
  <2>2. \A c \in posted'[m] : c.key # k
    BY <1>3 DEF ReleaseAnswered, OneTransport, remote
  <2>. QED
    BY <1>1, <1>2, <2>1, <2>2 DEF Forgotten
<1>4. CASE Deliver(m) /\ \A c \in posted'[m] : c.key # k
  <2>1. ~relayed /\ table' = table
    BY <1>4 DEF Deliver, OneTransport
  <2>2. table' = {}
    BY <2>1 DEF OneTransport
  <2>. QED
    BY <1>1, <1>2, <1>4, <2>2 DEF Forgotten
<1>. QED
  BY <1>3, <1>4

(* What is heard of is released, and overlapped by what is still in hand.   *)
LEMMA HeardFate ==
  ASSUME Shape, NEW n \in Members, NEW keys \in SUBSET Subjects, Heard(n, keys),
         NEW m \in Members, NEW k \in released'[m] \ overlapped'[m]
  PROVE  \/ k \in released[m] \ overlapped[m]
         \/ m = n /\ k \in keys /\ ~InHand(m, k)
  BY DEF Heard, Shape, HandsOK

(* A claim becomes one that may not return by being heard of.               *)
LEMMA ReleasedFate ==
  ASSUME Shape, [Next]_ownVars, NEW m \in Members, NEW k \in Subjects,
         k \in released'[m] \ overlapped'[m]
  PROVE  \/ k \in released[m] \ overlapped[m]
         \/ ReleaseAnswered(m, k) /\ ~Leased(m, k) /\ ~InHand(m, k)'
         \/ /\ Deliver(m) /\ own[m][k] = None
            /\ (\A c \in posted'[m] : c.key # k) /\ ~InHand(m, k)'
<1>. USE DEF Shape, TypeOK, HandsOK
<1>1. ASSUME NEW n \in Members, NEW j \in Subjects, Claim(n, j)
      PROVE  k \in released[m] \ overlapped[m]
  BY <1>1 DEF Claim
<1>2. ASSUME NEW n \in Members, NEW j \in Subjects, ReleaseAnswered(n, j)
      PROVE  \/ k \in released[m] \ overlapped[m]
             \/ ReleaseAnswered(m, k) /\ ~Leased(m, k) /\ ~InHand(m, k)'
  <2>1. CASE Leased(n, j)
    BY <1>2, <2>1 DEF ReleaseAnswered
  <2>2. CASE ~Leased(n, j)
    <3>1. Heard(n, {j}) /\ {j} \in SUBSET Subjects
      BY <1>2, <2>2 DEF ReleaseAnswered
    <3>2. \/ k \in released[m] \ overlapped[m]
          \/ m = n /\ k \in {j} /\ ~InHand(m, k)
      BY <3>1, HeardFate
    <3>3. InHand(m, k)' => InHand(m, k)
      BY <1>2 DEF ReleaseAnswered, InHand
    <3>. QED
      BY <1>2, <2>2, <3>2, <3>3
  <2>. QED
    BY <2>1, <2>2
<1>3. ASSUME NEW n \in Members, Deliver(n)
      PROVE  \/ k \in released[m] \ overlapped[m]
             \/ /\ Deliver(m) /\ own[m][k] = None
                /\ (\A c \in posted'[m] : c.key # k) /\ ~InHand(m, k)'
  <2>. DEFINE heard(body) == {j \in dropping[n] : own[n][j] = None /\ \A r \in body : r.key # j}
  <2>1. PICK body \in bodies[n] : /\ posted' = [posted EXCEPT ![n] = PresenceOf(n, body)]
                                  /\ bodies' \in {bodies, [bodies EXCEPT ![n] = @ \ {body}]}
                                  /\ Heard(n, heard(body))
    BY <1>3 DEF Deliver
  <2>2. heard(body) \in SUBSET Subjects
    OBVIOUS
  <2>3. \/ k \in released[m] \ overlapped[m]
        \/ m = n /\ k \in heard(body) /\ ~InHand(m, k)
    <3>. HIDE DEF heard
    <3>. QED
      BY <2>1, <2>2, HeardFate
  <2>4. ASSUME m = n, k \in heard(body), ~InHand(m, k)
        PROVE  Deliver(m) /\ own[m][k] = None /\ (\A c \in posted'[m] : c.key # k) /\ ~InHand(m, k)'
    <3>1. \A c \in posted'[m] : c.key # k
      BY <2>1, <2>4 DEF PresenceOf
    <3>2. bodies'[m] \subseteq bodies[m]
      BY <2>1
    <3>3. ~InHand(m, k)'
      BY <1>3, <2>4, <3>2 DEF Deliver, InHand
    <3>. QED
      BY <1>3, <2>4, <3>1, <3>3
  <2>. QED
    BY <2>3, <2>4
<1>4. \/ released' = released /\ overlapped' = overlapped
      \/ \E n \in Members : Deliver(n) \/ \E j \in Subjects : Claim(n, j) \/ ReleaseAnswered(n, j)
  BY DEF Next, ownVars, history, Tick, ClaimAnswered, ClaimUnanswered, ReleaseAtRelay, ReleaseUnanswered,
     ReleaseOwn, BeatPost, Undelivered, RenewRead, RenewWrite, Sync, StartSync, Adopt, StateLost
<1>. QED
  BY <1>1, <1>2, <1>3, <1>4

(* The user's word is final: released stays released, once the transport    *)
(* has heard of it with nothing under way that was read before.             *)
THEOREM ReleasedClaimsStay == Spec => []ReleasedStays
<1>1. Init => Single /\ OneTransport /\ ReleasedForgotten
  BY DEF Init, Single, OnePerSubject, Idle, OneTransport, ReleasedForgotten
<1>2. Shape /\ Single /\ OneTransport /\ ReleasedForgotten /\ [Next]_ownVars => ReleasedForgotten'
  <2>. SUFFICES ASSUME Shape, Single, OneTransport, ReleasedForgotten, [Next]_ownVars,
                       NEW m \in Members, NEW k \in released'[m] \ overlapped'[m]
                PROVE  Forgotten(m, k)'
    BY DEF ReleasedForgotten
  <2>1. k \in Subjects
    BY ShapeStep DEF Shape, HandsOK
  <2>2. CASE k \in released[m] \ overlapped[m]
    <3>1. Claim(m, k) => k \notin released'[m]
      BY DEF Claim, Shape, HandsOK
    <3>. QED
      BY <2>1, <2>2, <3>1, ForgottenStays DEF ReleasedForgotten
  <2>3. CASE ReleaseAnswered(m, k) /\ ~Leased(m, k) /\ ~InHand(m, k)'
    BY <2>1, <2>3, ReleaseForgets
  <2>4. CASE /\ Deliver(m) /\ own[m][k] = None
             /\ (\A c \in posted'[m] : c.key # k) /\ ~InHand(m, k)'
    BY <2>1, <2>4, ReleaseForgets
  <2>. QED
    BY <2>1, <2>2, <2>3, <2>4, ReleasedFate
<1>3. ReleasedForgotten => ReleasedStays
  BY DEF ReleasedForgotten, Forgotten, ReleasedStays
<1>. QED
  BY <1>1, <1>2, <1>3, OwnInit, ShapeStep, SingleStep, TransportStep, PTL DEF Spec

-----------------------------------------------------------------------------
(* The tie-break.  Everything is dated in the past.                        *)
Dated ==
  /\ \A m \in Members, k \in Subjects : own[m][k].acquired <= clock
  /\ \A m \in Members : \A r \in command[m] \cup renewing[m] \cup adopting[m] : r.acquired <= clock
  /\ \A c \in table : c.acquired <= clock
  /\ \A m \in Members : \A c \in posted[m] \cup cache[m] : c.acquired <= clock
  /\ \A m \in Members : \A body \in bodies[m] : \A r \in body : r.acquired <= clock

(* A row of the lease table is an older one, perhaps renewed, or the one   *)
(* the claim of its subject has just made.                                 *)
LEMMA RowFate ==
  ASSUME Shape, [Next]_ownVars, NEW c \in table'
  PROVE  \/ \E d \in table : c.owner = d.owner /\ c.key = d.key /\ c.acquired = d.acquired
         \/ /\ Claim(c.owner, c.key) /\ ClaimAtRelay(c.owner, c.key)
            /\ c.owner \in Members /\ c.key \in Subjects
<1>. USE DEF Shape, TypeOK
<1>1. CASE table' \subseteq table
  BY <1>1
<1>2. ASSUME NEW m \in Members, BeatPost(m)
      PROVE  \E d \in table : c.owner = d.owner /\ c.key = d.key /\ c.acquired = d.acquired
  <2>1. \A d \in table : LET e == [d EXCEPT !.renewed = clock]
                         IN e.owner = d.owner /\ e.key = d.key /\ e.acquired = d.acquired
    BY DEF Claimed
  <2>2. c \in table \/ \E d \in table : c = [d EXCEPT !.renewed = clock]
    BY <1>2 DEF BeatPost
  <2>. QED
    BY <2>1, <2>2
<1>3. ASSUME NEW m \in Members, NEW k \in Subjects, ClaimAtRelay(m, k)
      PROVE  c \in table \/ (c.owner = m /\ c.key = k)
  BY <1>3 DEF ClaimAtRelay
<1>. QED
  BY <1>1, <1>2, <1>3, TableFate

(* A peer cache is the last one, or what the transport reports.            *)
LEMMA CacheFate ==
  ASSUME Shape, [Next]_ownVars, NEW n \in Members
  PROVE  cache'[n] \subseteq cache[n] \cup Reported
<1>. USE DEF Shape, TypeOK
<1>1. ASSUME NEW m \in Members, Sync(m) \/ StartSync(m)
      PROVE  cache'[n] \subseteq cache[n] \cup Reported
  <2>1. PeersIn(m, Reported) \subseteq Reported
    BY DEF PeersIn
  <2>. QED
    BY <1>1, <2>1 DEF Sync, StartSync
<1>2. ASSUME NEW m \in Members, StateLost(m)
      PROVE  cache'[n] \subseteq cache[n]
  BY <1>2 DEF StateLost
<1>3. cache' = cache \/ \E m \in Members : Sync(m) \/ StartSync(m) \/ StateLost(m)
  BY CarryKeeps DEF Next, ownVars, Tick, Claim, ClaimAnswered, ClaimUnanswered, ReleaseAtRelay,
     ReleaseAnswered,
     ReleaseUnanswered, ReleaseOwn, BeatPost, RenewRead, RenewWrite, Adopt
<1>. QED
  BY <1>1, <1>2, <1>3

(* What is in the hands of a process was there, or has just been read.     *)
LEMMA HandFate ==
  ASSUME Shape, Single, [Next]_ownVars, NEW n \in Members
  PROVE  /\ \A r \in command'[n] : \/ r \in command[n]
                                   \/ Claim(n, r.key) /\ r.key \in Subjects
         /\ \A r \in renewing'[n] : \/ r \in renewing[n]
                                    \/ \E k \in Subjects : r.acquired = own[n][k].acquired
         /\ \A r \in adopting'[n] : r \in adopting[n] \/ r \in Reported
<1>. USE DEF Shape, TypeOK, HandsOK
<1>1. \A r \in command'[n] : r \in command[n] \/ (Claim(n, r.key) /\ r.key \in Subjects)
  <2>1. ASSUME NEW m \in Members, NEW k \in Subjects, Claim(m, k), NEW r \in command'[n]
        PROVE  r \in command[n] \/ (Claim(n, r.key) /\ r.key \in Subjects)
    <3>1. CASE m = n
      <4>0. \E age : command' = [command EXCEPT ![m] = {[key |-> k, acquired |-> age]}]
        BY <2>1 DEF Claim, ClaimAtRelay, ClaimOnNtfy
      <4>1. r.key = k
        BY <2>1, <3>1, <4>0
      <4>. QED
        BY <2>1, <3>1, <4>1
    <3>2. CASE m # n
      BY <2>1, <3>2 DEF Claim, ClaimAtRelay, ClaimOnNtfy
    <3>. QED
      BY <3>1, <3>2
  <2>2. ASSUME NEW m \in Members, ClaimAnswered(m) \/ ClaimUnanswered(m)
        PROVE  command'[n] \subseteq command[n]
    BY <2>2 DEF ClaimAnswered, ClaimUnanswered, Idle
  <2>3. \/ command' = command
        \/ \E m \in Members : \/ ClaimAnswered(m) \/ ClaimUnanswered(m)
                              \/ \E k \in Subjects : Claim(m, k)
    BY CarryKeeps DEF Next, ownVars, Tick, ReleaseAtRelay, ReleaseAnswered, ReleaseUnanswered,
       ReleaseOwn, BeatPost, RenewRead, RenewWrite, Sync, StartSync, Adopt, StateLost
  <2>. QED
    BY <2>1, <2>2, <2>3
<1>2. \A r \in renewing'[n] : r \in renewing[n] \/ \E k \in Subjects : r.acquired = own[n][k].acquired
  <2>1. ASSUME NEW m \in Members, RenewRead(m), NEW r \in renewing'[n]
        PROVE  r \in renewing[n] \/ \E k \in Subjects : r.acquired = own[n][k].acquired
    BY <2>1 DEF RenewRead, LiveRows, OwnLive
  <2>2. ASSUME NEW m \in Members, RenewWrite(m)
        PROVE  renewing'[n] \subseteq renewing[n]
    BY <2>2 DEF RenewWrite, Idle
  <2>3. renewing' = renewing \/ \E m \in Members : RenewRead(m) \/ RenewWrite(m)
    BY CarryKeeps DEF Next, ownVars, Tick, Claim, ClaimAnswered, ClaimUnanswered, ReleaseAtRelay,
       ReleaseAnswered,
     ReleaseUnanswered, ReleaseOwn, BeatPost, Sync, StartSync, Adopt, StateLost
  <2>. QED
    BY <2>1, <2>2, <2>3
<1>3. \A r \in adopting'[n] : r \in adopting[n] \/ r \in Reported
  <2>1. StartSync(n) => adopting'[n] \subseteq Reported
    BY DEF StartSync
  <2>. QED
    BY <2>1, AdoptingFate DEF Idle
<1>. QED
  BY <1>1, <1>2, <1>3

(* Own rows get the age of a claim, or of a row that is in somebody's      *)
(* hands.                                                                  *)
LEMMA OwnAge ==
  ASSUME Shape, [Next]_ownVars, Dated, NEW m \in Members, NEW k \in Subjects
  PROVE  own'[m][k].acquired <= clock
<1>. USE DEF Shape, TypeOK, HandsOK
<1>1. /\ own[m][k] \in Row \cup {None} /\ clock \in 1..MaxClock
      /\ own[m][k].acquired \in Nat /\ own[m][k].acquired <= clock /\ clock \in Nat
  BY OwnAssumption DEF Dated, Row, None
<1>2. ASSUME NEW a \in Nat, a <= clock
      PROVE  /\ AddOwnClaim(own[m][k], a).acquired <= clock
             /\ Readopt(own[m][k], a).acquired <= clock
  BY <1>1, <1>2 DEF AddOwnClaim, Readopt
<1>3. ASSUME NEW n \in Members, NEW j \in Subjects, ClaimOnNtfy(n, j) PROVE own'[m][k].acquired <= clock
  <2>1. AskedAge(m, k) \in Nat /\ AskedAge(m, k) <= clock
    BY <1>1 DEF AskedAge
  <2>2. own'[m][k] = own[m][k] \/ own'[m][k] = AddOwnClaim(own[m][k], AskedAge(m, k))
    BY <1>3 DEF ClaimOnNtfy
  <2>. QED
    BY <1>1, <1>2, <2>1, <2>2
<1>4. ASSUME NEW n \in Members, ClaimAnswered(n) PROVE own'[m][k].acquired <= clock
  <2>1. \/ own' = own
        \/ \E c \in command[n] : own' = [own EXCEPT ![n][c.key] = AddOwnClaim(@, c.acquired)]
    BY <1>4 DEF ClaimAnswered
  <2>2. ASSUME NEW c \in command[n], own' = [own EXCEPT ![n][c.key] = AddOwnClaim(@, c.acquired)]
        PROVE  own'[m][k].acquired <= clock
    <3>1. c.acquired \in Nat /\ c.acquired <= clock
      BY OwnAssumption DEF Dated, Rows
    <3>2. own'[m][k] = own[m][k] \/ own'[m][k] = AddOwnClaim(own[m][k], c.acquired)
      BY <2>2
    <3>. QED
      BY <1>1, <1>2, <3>1, <3>2
  <2>. QED
    BY <1>1, <2>1, <2>2
<1>5. ASSUME NEW n \in Members, RenewWrite(n) PROVE own'[m][k].acquired <= clock
  <2>1. \/ own'[m][k] = own[m][k]
        \/ (\E r \in renewing[n] : r.key = k)
             /\ own'[m][k] = AddOwnClaim(own[m][k], (CHOOSE r \in renewing[n] : r.key = k).acquired)
    BY <1>5 DEF RenewWrite
  <2>2. ASSUME NEW r \in renewing[n] PROVE r.acquired \in Nat /\ r.acquired <= clock
    BY OwnAssumption DEF Dated, Rows
  <2>. QED
    BY <1>1, <1>2, <2>1, <2>2
<1>6. ASSUME NEW n \in Members, Adopt(n) PROVE own'[m][k].acquired <= clock
  <2>. DEFINE some == CHOOSE r \in adopting[n] : r.key = k
  <2>1. \/ own'[m][k] = own[m][k]
        \/ (\E r \in adopting[n] : r.key = k) /\ own'[m][k] = Readopt(own[m][k], some.acquired)
    <3>1. own' = [own EXCEPT ![n] = [j \in Subjects |->
            IF \E r \in adopting[n] : r.key = j
            THEN Readopt(own[n][j], (CHOOSE r \in adopting[n] : r.key = j).acquired)
            ELSE own[n][j]]]
      BY <1>6 DEF Adopt
    <3>2. CASE n = m
      BY <3>1, <3>2
    <3>3. CASE n # m
      BY <3>1, <3>3
    <3>. QED
      BY <3>2, <3>3
  <2>2. ASSUME NEW r \in adopting[n] PROVE r.acquired \in Nat /\ r.acquired <= clock
    BY OwnAssumption DEF Dated, Claimed
  <2>3. (\E r \in adopting[n] : r.key = k) => some \in adopting[n]
    OBVIOUS
  <2>. HIDE DEF some
  <2>. QED
    BY <1>1, <1>2, <2>1, <2>2, <2>3
<1>7. ASSUME NEW n \in Members, \/ StateLost(n)
                                \/ \E j \in Subjects : ReleaseAnswered(n, j) \/ ReleaseOwn(n, j)
      PROVE  own'[m][k].acquired <= clock
  <2>1. StateLost(n) => own'[m][k] \in {own[m][k], None}
    BY DEF StateLost
  <2>2. ASSUME NEW j \in Subjects, own' = [own EXCEPT ![n][j] = None]
        PROVE  own'[m][k] \in {own[m][k], None}
    BY <2>2
  <2>3. own'[m][k] \in {own[m][k], None}
    BY <1>7, <2>1, <2>2 DEF ReleaseAnswered, ReleaseOwn
  <2>. QED
    BY <1>1, <2>3 DEF None
<1>8. CASE own' = own
  BY <1>1, <1>8
<1>9. \/ own' = own
      \/ \E n \in Members :
           \/ ClaimAnswered(n) \/ RenewWrite(n) \/ Adopt(n) \/ StateLost(n)
           \/ \E j \in Subjects : ClaimOnNtfy(n, j) \/ ReleaseAnswered(n, j) \/ ReleaseOwn(n, j)
  BY CarryKeeps DEF Next, ownVars, Tick, Claim, ClaimAtRelay, ClaimUnanswered, ReleaseAtRelay,
     ReleaseUnanswered,
     BeatPost, RenewRead, Sync, StartSync
<1>. QED
  BY <1>3, <1>4, <1>5, <1>6, <1>7, <1>8, <1>9

LEMMA ClockFate ==
  ASSUME Shape, [Next]_ownVars
  PROVE  clock' \in Nat /\ clock <= clock'
<1>1. clock' = clock \/ clock' = clock + 1
  BY StepKeeps
<1>. QED
  BY <1>1, OwnAssumption DEF Shape, TypeOK

(* The age a claim asks for, or is given, has passed.                      *)
LEMMA ClaimAges ==
  ASSUME Shape, Dated, NEW m \in Members, NEW k \in Subjects
  PROVE  /\ AskedAge(m, k) <= clock
         /\ ClaimAtRelay(m, k) => \A c \in table' : c.acquired <= clock
         /\ Claim(m, k) => \A r \in command'[m] : r.acquired <= clock
<1>. USE DEF Shape, TypeOK, HandsOK
<1>. DEFINE live == {c \in table : LiveRow(c)}
            held == {c \in live : c.key = k}
            age == IF held = {} THEN AskedAge(m, k) ELSE (CHOOSE c \in held : TRUE).acquired
<1>1. AskedAge(m, k) <= clock
  BY OwnAssumption DEF AskedAge, Dated
<1>2. age <= clock
  BY <1>1 DEF Dated
<1>3. ClaimAtRelay(m, k) =>
        /\ table' = (live \ held) \cup {[owner |-> m, key |-> k, acquired |-> age, renewed |-> clock]}
        /\ command' = [command EXCEPT ![m] = {[key |-> k, acquired |-> age]}]
  BY DEF ClaimAtRelay
<1>. HIDE DEF age
<1>4. ClaimAtRelay(m, k) => \A c \in table' : c \in table \/ c.acquired = age
  <2>. SUFFICES ASSUME ClaimAtRelay(m, k), NEW c \in table', c \notin table PROVE c.acquired = age
    OBVIOUS
  <2>1. c = [owner |-> m, key |-> k, acquired |-> age, renewed |-> clock]
    BY <1>3
  <2>. QED
    BY <2>1
<1>5. ClaimAtRelay(m, k) => \A r \in command'[m] : r.acquired = age
  <2>1. ClaimAtRelay(m, k) => command'[m] = {[key |-> k, acquired |-> age]}
    BY <1>3
  <2>. QED
    BY <2>1
<1>6. ClaimOnNtfy(m, k) => \A r \in command'[m] : r.acquired = AskedAge(m, k)
  <2>1. ClaimOnNtfy(m, k) => command'[m] = {[key |-> k, acquired |-> AskedAge(m, k)]}
    BY DEF ClaimOnNtfy
  <2>. QED
    BY <2>1
<1>. QED
  BY <1>1, <1>2, <1>4, <1>5, <1>6 DEF Claim, Dated

LEMMA DatedStep == Shape /\ Single /\ Dated /\ [Next]_ownVars => Dated'
<1>. SUFFICES ASSUME Shape, Single, Dated, [Next]_ownVars PROVE Dated'
  OBVIOUS
<1>1. clock \in Nat /\ clock' \in Nat /\ clock <= clock'
  BY ClockFate, OwnAssumption DEF Shape, TypeOK
<1>2. Shape'
  BY ShapeStep
<1>3. \A c \in Reported : c.acquired <= clock
  BY DEF Reported, Dated
<1>4. \A m \in Members, k \in Subjects : own'[m][k].acquired <= clock'
  <2>1. \A m \in Members, k \in Subjects : own'[m][k].acquired \in Nat
    BY <1>2, OwnAssumption DEF Shape, TypeOK, Row, None
  <2>. QED
    BY <1>1, <2>1, OwnAge
<1>5. ASSUME NEW c \in table' PROVE c.acquired <= clock'
  <2>1. c.acquired <= clock
    BY RowFate, ClaimAges DEF Dated
  <2>2. c.acquired \in Nat
    BY <1>2, OwnAssumption DEF Shape, TypeOK, Claimed
  <2>. QED
    BY <1>1, <2>1, <2>2
<1>6. ASSUME NEW m \in Members, NEW c \in posted'[m] PROVE c.acquired <= clock'
  <2>1. c.acquired <= clock
    <3>1. ASSUME NEW body \in bodies[m], posted'[m] = PresenceOf(m, body)
          PROVE  c.acquired <= clock
      BY <3>1 DEF PresenceOf, Dated
    <3>. QED
      BY <3>1, PresenceFate DEF Dated
  <2>2. c.acquired \in Nat
    BY <1>2, OwnAssumption DEF Shape, TypeOK, Claimed
  <2>. QED
    BY <1>1, <2>1, <2>2
<1>7. ASSUME NEW m \in Members, NEW c \in cache'[m] PROVE c.acquired <= clock'
  <2>1. c.acquired <= clock
    BY <1>3, CacheFate DEF Dated
  <2>2. c.acquired \in Nat
    BY <1>2, OwnAssumption DEF Shape, TypeOK, Claimed
  <2>. QED
    BY <1>1, <2>1, <2>2
<1>8. ASSUME NEW m \in Members, NEW r \in command'[m] \cup renewing'[m] \cup adopting'[m]
      PROVE  r.acquired <= clock'
  <2>1. r.acquired <= clock
    BY <1>3, HandFate, ClaimAges DEF Dated
  <2>2. r.acquired \in Nat
    BY <1>2, OwnAssumption DEF Shape, HandsOK, Rows, Claimed
  <2>. QED
    BY <1>1, <2>1, <2>2
<1>9. ASSUME NEW m \in Members, NEW body \in bodies'[m], NEW r \in body
      PROVE  r.acquired <= clock'
  <2>1. r.acquired <= clock
    <3>1. r \in LiveRows(m) => r.acquired <= clock
      BY DEF LiveRows, OwnLive, Dated
    <3>. QED
      BY <3>1, BodiesFate DEF Dated
  <2>2. r.acquired \in Nat
    BY <1>2, OwnAssumption DEF Shape, HandsOK, Rows
  <2>. QED
    BY <1>1, <2>1, <2>2
<1>. QED
  BY <1>4, <1>5, <1>6, <1>7, <1>8, <1>9 DEF Dated

(* No copy of m's claim of k, on the transport, on its way there or in a   *)
(* peer's cache, is younger than x.                                        *)
UpTo(m, k, x) ==
  /\ \A c \in table \cup UNION {cache[n] : n \in Members} :
       c.owner = m /\ c.key = k => c.acquired <= x
  /\ \A c \in posted[m] : c.key = k => c.acquired <= x
  /\ \A body \in bodies[m] : \A r \in body : r.key = k => r.acquired <= x

(* As long as no claim has come back with an earlier age: a live own row,  *)
(* the answer to a claim, and the row of the lease table are each no       *)
(* older than any copy.                                                    *)
AgesLead ==
  ~revived => \A m \in Members, k \in Subjects :
    /\ LiveRow(own[m][k]) => UpTo(m, k, own[m][k].acquired)
    /\ \A r \in command[m] : relayed /\ r.key = k => UpTo(m, k, r.acquired)
    /\ \A c \in table : c.owner = m /\ c.key = k => UpTo(m, k, c.acquired)

(* How copies come about: from other copies, a claim at the relay, or a    *)
(* presence.                                                               *)
LEMMA UpToStep ==
  ASSUME Shape, Single, [Next]_ownVars, NEW m \in Members, NEW k \in Subjects, NEW x \in Nat,
         UpTo(m, k, x), ~(Claim(m, k) /\ ClaimAtRelay(m, k)),
         ~relayed /\ LiveRow(own[m][k]) => own[m][k].acquired <= x
  PROVE  UpTo(m, k, x)'
<1>1. ASSUME NEW c \in table', c.owner = m, c.key = k PROVE c.acquired <= x
  <2>1. PICK d \in table : c.owner = d.owner /\ c.key = d.key /\ c.acquired = d.acquired
    BY <1>1, RowFate
  <2>. QED
    BY <1>1, <2>1 DEF UpTo
<1>2. ASSUME NEW n \in Members, NEW c \in cache'[n], c.owner = m, c.key = k PROVE c.acquired <= x
  <2>1. c \in cache[n] \/ c \in Reported
    BY CacheFate
  <2>2. c \in Reported => c \in table \cup posted[m]
    BY <1>2 DEF Reported, Single
  <2>. QED
    BY <1>2, <2>1, <2>2 DEF UpTo
<1>3. ASSUME NEW c \in posted'[m], c.key = k PROVE c.acquired <= x
  <2>1. CASE posted'[m] = posted[m]
    BY <1>3, <2>1 DEF UpTo
  <2>2. ASSUME NEW body \in bodies[m], posted'[m] = PresenceOf(m, body)
        PROVE  c.acquired <= x
    BY <1>3, <2>2 DEF PresenceOf, UpTo
  <2>. QED
    BY <2>1, <2>2, PresenceFate
<1>4. ASSUME NEW body \in bodies'[m], NEW r \in body, r.key = k PROVE r.acquired <= x
  <2>1. CASE body \in bodies[m]
    BY <1>4, <2>1 DEF UpTo
  <2>2. CASE ~relayed /\ body = LiveRows(m)
    BY <1>4, <2>2 DEF LiveRows, OwnLive
  <2>. QED
    BY <2>1, <2>2, BodiesFate
<1>. QED
  BY <1>1, <1>2, <1>3, <1>4 DEF UpTo

(* A row is live after a step because it was before with that age, or      *)
(* because a claim has just been made, of this instant on ntfy, of the     *)
(* answer's age on the relay; anything else is a return.                   *)
LEMMA LiveFate ==
  ASSUME Shape, [Next]_ownVars, ~revived', NEW m \in Members, NEW k \in Subjects,
         LiveRow(own[m][k])'
  PROVE  \/ LiveRow(own[m][k]) /\ own'[m][k].acquired = own[m][k].acquired
         \/ ~relayed /\ own'[m][k].acquired >= clock
         \/ relayed /\ \E r \in command[m] : r.key = k /\ own'[m][k].acquired >= r.acquired
<1>. USE DEF Shape, TypeOK, HandsOK
<1>. DEFINE Before == LiveRow(own[m][k]) /\ own'[m][k].acquired = own[m][k].acquired
<1>1. /\ own[m][k] \in Row \cup {None} /\ clock \in Nat
      /\ own[m][k].acquired \in Nat /\ own[m][k].renewed \in Nat
      /\ LiveRow(own[m][k]) => own[m][k] # None
  BY OwnAssumption DEF Row, None, LiveRow
<1>2. own'[m][k] # None
  BY DEF LiveRow, None
<1>3. CASE own'[m][k] = own[m][k]
  <2>1. own[m][k].renewed > 0 /\ own[m][k].renewed + Ttl > clock'
    BY <1>3 DEF LiveRow
  <2>2. clock' \in Nat /\ clock <= clock'
    BY ClockFate
  <2>. QED
    BY <1>1, <1>3, <2>1, <2>2, OwnAssumption DEF LiveRow
<1>4. ASSUME NEW n \in Members, NEW j \in Subjects, Claim(n, j), own'[m][k] # own[m][k]
      PROVE  Before \/ (~relayed /\ own'[m][k].acquired >= clock)
  <2>1. ClaimOnNtfy(n, j) /\ ~relayed /\ n = m /\ j = k
    BY <1>4 DEF Claim, ClaimAtRelay, ClaimOnNtfy
  <2>2. own'[m][k] = AddOwnClaim(own[m][k], AskedAge(m, k))
    BY <2>1 DEF ClaimOnNtfy
  <2>3. ~(own'[m][k].acquired < AskedAge(m, k))
    BY <1>4, <2>1 DEF Claim
  <2>4. CASE LiveRow(own[m][k])
    BY <1>1, <2>2, <2>4 DEF AddOwnClaim
  <2>5. CASE ~LiveRow(own[m][k])
    <3>1. AskedAge(m, k) = clock
      BY <2>5 DEF AskedAge, OwnLive
    <3>2. own'[m][k].acquired \in Nat
      BY <1>1, <2>2, <3>1 DEF AddOwnClaim
    <3>. QED
      BY <1>1, <2>1, <2>3, <3>1, <3>2
  <2>. QED
    BY <2>4, <2>5
<1>5. ASSUME NEW n \in Members, ClaimAnswered(n), own'[m][k] # own[m][k]
      PROVE  \/ Before
             \/ relayed /\ \E r \in command[m] : r.key = k /\ own'[m][k].acquired >= r.acquired
  <2>1. PICK r \in command[n] :
          /\ own' = [own EXCEPT ![n][r.key] = AddOwnClaim(@, r.acquired)]
          /\ revived' = (revived \/ own'[n][r.key].acquired < r.acquired)
          /\ relayed
    BY <1>5 DEF ClaimAnswered
  <2>2. n = m /\ r.key = k
    BY <1>5, <2>1
  <2>3. own'[m][k] = AddOwnClaim(own[m][k], r.acquired) /\ r.acquired \in Nat
    BY <2>1, <2>2, OwnAssumption DEF Rows
  <2>4. ~(own'[m][k].acquired < r.acquired)
    BY <2>1, <2>2
  <2>5. own'[m][k].acquired \in Nat
    BY <1>1, <2>3 DEF AddOwnClaim
  <2>. QED
    BY <2>1, <2>2, <2>3, <2>4, <2>5
<1>6. ASSUME NEW n \in Members, RenewWrite(n), own'[m][k] # own[m][k]
      PROVE  Before
  <2>1. n = m /\ \E r \in renewing[m] : r.key = k
    BY <1>6 DEF RenewWrite
  <2>2. \E a : own'[m][k] = AddOwnClaim(own[m][k], a)
    BY <1>6, <2>1 DEF RenewWrite
  <2>3. LiveRow(own[m][k])
    BY <1>6, <2>1 DEF RenewWrite
  <2>. QED
    BY <1>1, <2>2, <2>3 DEF AddOwnClaim
<1>7. ASSUME NEW n \in Members, Adopt(n), own'[m][k] # own[m][k]
      PROVE  Before
  <2>1. own' = [own EXCEPT ![n] = [j \in Subjects |->
          IF \E r \in adopting[n] : r.key = j
          THEN Readopt(own[n][j], (CHOOSE r \in adopting[n] : r.key = j).acquired)
          ELSE own[n][j]]]
    BY <1>7 DEF Adopt
  <2>2. n = m
    BY <1>7, <2>1
  <2>3. PICK r \in adopting[m] : r.key = k
    BY <1>7, <2>1, <2>2
  <2>4. ~(\E q \in adopting[n] : ~LiveRow(own[n][q.key]) \/ own'[n][q.key].acquired # own[n][q.key].acquired)
    <3>1. revived' = (revived \/ \E q \in adopting[n] :
            ~LiveRow(own[n][q.key]) \/ own'[n][q.key].acquired # own[n][q.key].acquired)
      BY <1>7 DEF Adopt
    <3>. QED
      BY <3>1
  <2>. QED
    BY <2>2, <2>3, <2>4
<1>8. ASSUME NEW n \in Members, \/ StateLost(n)
                                \/ \E j \in Subjects : ReleaseAnswered(n, j) \/ ReleaseOwn(n, j)
      PROVE  own'[m][k] = own[m][k]
  <2>1. StateLost(n) => own'[m][k] \in {own[m][k], None}
    BY DEF StateLost
  <2>2. ASSUME NEW j \in Subjects, own' = [own EXCEPT ![n][j] = None]
        PROVE  own'[m][k] \in {own[m][k], None}
    BY <2>2
  <2>. QED
    BY <1>2, <1>8, <2>1, <2>2 DEF ReleaseAnswered, ReleaseOwn
<1>9. \/ own' = own
      \/ \E n \in Members :
           \/ ClaimAnswered(n) \/ RenewWrite(n) \/ Adopt(n)
           \/ \E j \in Subjects : Claim(n, j)
           \/ StateLost(n) \/ \E j \in Subjects : ReleaseAnswered(n, j) \/ ReleaseOwn(n, j)
  BY CarryKeeps DEF Next, ownVars, Tick, ClaimUnanswered, ReleaseAtRelay, ReleaseUnanswered, BeatPost,
     RenewRead, Sync, StartSync
<1>. QED
  BY <1>3, <1>4, <1>5, <1>6, <1>7, <1>8, <1>9

(* At the relay a claim is given the age of the row it finds, or the one   *)
(* it asks for, which is the own row's or this instant.                    *)
LEMMA GrantedLeads ==
  ASSUME Shape, Single, OneTransport, Dated, AgesLead, ~revived, [Next]_ownVars,
         NEW m \in Members, NEW k \in Subjects, ClaimAtRelay(m, k), Claim(m, k)
  PROVE  /\ \A x \in Nat : LiveRow(own[m][k]) /\ x = own[m][k].acquired => UpTo(m, k, x)'
         /\ \A r \in command'[m] : r.key = k => UpTo(m, k, r.acquired)'
         /\ \A c \in table' : c.owner = m /\ c.key = k => UpTo(m, k, c.acquired)'
<1>. USE DEF Shape, TypeOK, HandsOK
<1>. DEFINE live == {c \in table : LiveRow(c)}
            held == {c \in live : c.key = k}
            age == IF held = {} THEN AskedAge(m, k) ELSE (CHOOSE c \in held : TRUE).acquired
            new == [owner |-> m, key |-> k, acquired |-> age, renewed |-> clock]
<1>1. /\ table' = (live \ held) \cup {new}
      /\ command' = [command EXCEPT ![m] = {[key |-> k, acquired |-> age]}]
      /\ own' = own /\ posted' = posted /\ cache' = cache
      /\ relayed /\ \A c \in held : c.owner = m
  BY DEF ClaimAtRelay, Claim
<1>2. posted[m] = {} /\ bodies[m] = {} /\ bodies' = bodies
  BY <1>1 DEF OneTransport, Claim
<1>3. UpTo(m, k, clock)
  BY DEF UpTo, Dated
<1>4. clock \in Nat /\ own[m][k].acquired \in Nat
  BY OwnAssumption DEF Row, None
<1>5. ASSUME NEW x \in Nat, UpTo(m, k, x),
             \A c \in table' : c.owner = m /\ c.key = k => c.acquired <= x
      PROVE  UpTo(m, k, x)'
  <2>1. \A c \in table' \cup UNION {cache'[n] : n \in Members} :
          c.owner = m /\ c.key = k => c.acquired <= x
    <3>. SUFFICES ASSUME NEW c \in table' \cup UNION {cache'[n] : n \in Members},
                         c.owner = m, c.key = k
                  PROVE  c.acquired <= x
      OBVIOUS
    <3>1. cache' = cache
      BY <1>1
    <3>2. CASE c \in table'
      BY <1>5, <3>2
    <3>3. CASE c \in UNION {cache[n] : n \in Members}
      BY <1>5, <3>3 DEF UpTo
    <3>. QED
      BY <3>1, <3>2, <3>3
  <2>2. posted'[m] = {} /\ bodies'[m] = {}
    BY <1>1, <1>2
  <2>. QED
    BY <2>1, <2>2 DEF UpTo
<1>6. CASE held = {}
  <2>1. age = AskedAge(m, k)
    BY <1>6
  <2>2. PICK x \in Nat : x = age /\ UpTo(m, k, x) /\ (LiveRow(own[m][k]) => x = own[m][k].acquired)
    <3>. HIDE DEF age
    <3>1. UpTo(m, k, age) /\ age \in Nat /\ (LiveRow(own[m][k]) => age = own[m][k].acquired)
      BY <1>3, <1>4, <2>1 DEF AskedAge, OwnLive, AgesLead
    <3>. QED
      BY <3>1
  <2>. HIDE DEF age
  <2>3. \A c \in table' : c.owner = m /\ c.key = k => c.acquired = x
    BY <1>1, <1>6, <2>2
  <2>4. \A r \in command'[m] : r.acquired = x
    <3>1. command'[m] = {[key |-> k, acquired |-> age]}
      BY <1>1
    <3>. QED
      BY <2>2, <3>1
  <2>5. UpTo(m, k, x)'
    BY <1>5, <2>2, <2>3
  <2>. QED
    BY <2>2, <2>3, <2>4, <2>5
<1>7. CASE held # {}
  <2>1. PICK h \in held : age = h.acquired
    BY <1>7
  <2>2. h \in table /\ h.owner = m /\ h.key = k
    BY <1>1, <2>1
  <2>3. PICK x \in Nat : /\ x = age /\ UpTo(m, k, x)
                         /\ LiveRow(own[m][k]) => x <= own[m][k].acquired
    <3>1. age \in Nat
      BY <2>1, <2>2, OwnAssumption DEF Claimed
    <3>. HIDE DEF age
    <3>2. UpTo(m, k, age) /\ (LiveRow(own[m][k]) => age <= own[m][k].acquired)
      BY <2>1, <2>2, <3>1 DEF AgesLead, UpTo
    <3>. QED
      BY <3>1, <3>2
  <2>. HIDE DEF age
  <2>4. \A c \in table' : c.owner = m /\ c.key = k => c.acquired = x
    BY <1>1, <2>3
  <2>5. \A r \in command'[m] : r.acquired = x
    <3>1. command'[m] = {[key |-> k, acquired |-> age]}
      BY <1>1
    <3>. QED
      BY <2>3, <3>1
  <2>6. UpTo(m, k, x)'
    BY <1>5, <2>3, <2>4
  <2>7. ASSUME LiveRow(own[m][k]), NEW y \in Nat, y = own[m][k].acquired
        PROVE  UpTo(m, k, y)'
    <3>1. UpTo(m, k, y)
      BY <2>7 DEF AgesLead
    <3>2. x <= y
      BY <2>3, <2>7
    <3>. QED
      BY <1>5, <2>4, <3>1, <3>2
  <2>. QED
    BY <2>4, <2>5, <2>6, <2>7
<1>. QED
  BY <1>6, <1>7

LEMMA AgesLeadStep ==
  Shape /\ Single /\ OneTransport /\ Dated /\ AgesLead /\ [Next]_ownVars => AgesLead'
<1>. SUFFICES ASSUME Shape, Single, OneTransport, Dated, AgesLead, [Next]_ownVars, ~revived',
                     NEW m \in Members, NEW k \in Subjects
              PROVE  /\ LiveRow(own[m][k])' => UpTo(m, k, own[m][k].acquired)'
                     /\ \A r \in command'[m] : relayed' /\ r.key = k => UpTo(m, k, r.acquired)'
                     /\ \A c \in table' : c.owner = m /\ c.key = k => UpTo(m, k, c.acquired)'
  BY DEF AgesLead
<1>1. ~revived
  BY StepKeeps
<1>2. relayed' = relayed
  BY StepKeeps
<1>3. Shape'
  BY ShapeStep
<1>4. /\ clock \in Nat /\ own[m][k].acquired \in Nat /\ own'[m][k].acquired \in Nat
      /\ own[m][k].acquired <= clock
      /\ \A r \in command[m] : r.acquired \in Nat
      /\ \A c \in table : c.acquired \in Nat
      /\ table # {} => relayed
  BY <1>3, OwnAssumption DEF Shape, TypeOK, HandsOK, Row, None, Rows, Claimed, Dated, OneTransport
<1>5. UpTo(m, k, clock)
  BY DEF UpTo, Dated
<1>6. /\ \A c \in table \cup UNION {cache[n] : n \in Members} : c.acquired \in Nat
      /\ \A c \in posted[m] : c.acquired \in Nat
      /\ \A body \in bodies[m] : \A r \in body : r.acquired \in Nat
  BY OwnAssumption DEF Shape, TypeOK, HandsOK, Rows, Claimed
<1>7. CASE Claim(m, k) /\ ClaimAtRelay(m, k)
  <2>1. own' = own /\ clock' = clock
    BY <1>7 DEF Claim, ClaimAtRelay
  <2>2. LiveRow(own[m][k])' => LiveRow(own[m][k])
    BY <2>1 DEF LiveRow
  <2>3. PICK x \in Nat : x = own[m][k].acquired
    BY <1>4
  <2>4. LiveRow(own[m][k])' => UpTo(m, k, x)'
    BY <1>1, <1>7, <2>2, <2>3, GrantedLeads
  <2>5. LiveRow(own[m][k])' => UpTo(m, k, own[m][k].acquired)'
    BY <2>1, <2>3, <2>4 DEF UpTo
  <2>. QED
    BY <1>1, <1>7, <2>5, GrantedLeads
<1>8. CASE ~(Claim(m, k) /\ ClaimAtRelay(m, k))
  <2>1. ASSUME NEW x \in Nat, UpTo(m, k, x), ~relayed /\ LiveRow(own[m][k]) => own[m][k].acquired <= x
        PROVE  UpTo(m, k, x)'
    BY <1>8, <2>1, UpToStep
  <2>2. ASSUME LiveRow(own[m][k])', NEW x \in Nat, x = own'[m][k].acquired
        PROVE  UpTo(m, k, x)'
    <3>1. CASE LiveRow(own[m][k]) /\ x = own[m][k].acquired
      <4>1. UpTo(m, k, x)
        BY <1>1, <3>1 DEF AgesLead
      <4>2. own[m][k].acquired <= x
        BY <1>4, <3>1
      <4>. QED
        BY <2>1, <4>1, <4>2
    <3>2. CASE ~relayed /\ x >= clock
      <4>1. UpTo(m, k, x) /\ own[m][k].acquired <= x
        BY <1>4, <1>5, <1>6, <3>2 DEF UpTo
      <4>. QED
        BY <2>1, <4>1
    <3>3. ASSUME relayed, NEW r \in command[m], r.key = k, x >= r.acquired
          PROVE  UpTo(m, k, x)'
      <4>1. UpTo(m, k, r.acquired)
        BY <1>1, <3>3 DEF AgesLead
      <4>2. UpTo(m, k, x)
        BY <1>4, <1>6, <3>3, <4>1 DEF UpTo
      <4>. QED
        BY <2>1, <3>3, <4>2
    <3>. QED
      BY <2>2, <3>1, <3>2, <3>3, LiveFate
  <2>3. ASSUME NEW r \in command'[m], relayed, r.key = k
        PROVE  UpTo(m, k, r.acquired)'
    <3>1. r \in command[m]
      <4>1. Claim(m, k) => ClaimAtRelay(m, k)
        BY <2>3 DEF Claim, ClaimOnNtfy
      <4>. QED
        BY <1>8, <2>3, <4>1, HandFate
    <3>. QED
      BY <1>1, <1>4, <2>1, <2>3, <3>1 DEF AgesLead
  <2>4. ASSUME NEW c \in table', c.owner = m, c.key = k
        PROVE  UpTo(m, k, c.acquired)'
    <3>1. PICK d \in table : d.owner = m /\ d.key = k /\ c.acquired = d.acquired
      BY <1>8, <2>4, RowFate
    <3>. QED
      BY <1>1, <1>4, <2>1, <3>1 DEF AgesLead
  <2>5. PICK y \in Nat : y = own'[m][k].acquired
    BY <1>4
  <2>6. LiveRow(own[m][k])' => UpTo(m, k, own[m][k].acquired)'
    <3>1. LiveRow(own[m][k])' => UpTo(m, k, y)'
      BY <2>2, <2>5
    <3>. QED
      BY <2>5, <3>1 DEF UpTo
  <2>. QED
    BY <1>2, <2>3, <2>4, <2>6
<1>. QED
  BY <1>7, <1>8

(* While no claim has come back with the age of an earlier one, two        *)
(* members that each see the other's claim of a subject are not both told  *)
(* to keep it, on either transport, whatever is lost, late or repeated     *)
(* (losesTiebreak in hooks/common.js).                                     *)
THEOREM OneOfTwoYields == Spec => []NeverBothKeep
<1>1. Init => Single /\ OneTransport /\ Dated /\ AgesLead
  BY OwnAssumption DEF Init, Single, OnePerSubject, Idle, OneTransport, Dated, AgesLead, UpTo, LiveRow, None
<1>2. Shape /\ AgesLead => NeverBothKeep
  <2>. SUFFICES ASSUME Shape, AgesLead, ~revived, NEW m \in Members, NEW n \in Members,
                       NEW k \in Subjects, m # n, ToldToWin(m, k, n), ToldToWin(n, k, m)
                PROVE  FALSE
    BY DEF NeverBothKeep
  <2>1. PICK c \in ToldOf(m, k, n) : ~LosesTiebreak(own[m][k].acquired, m, c.acquired, n)
    BY DEF ToldToWin
  <2>2. PICK d \in ToldOf(n, k, m) : ~LosesTiebreak(own[n][k].acquired, n, d.acquired, m)
    BY DEF ToldToWin
  <2>3. LiveRow(own[m][k]) /\ LiveRow(own[n][k])
    BY <2>1, <2>2 DEF ToldOf, OwnLive
  <2>4. UpTo(m, k, own[m][k].acquired) /\ UpTo(n, k, own[n][k].acquired)
    BY <2>3 DEF AgesLead
  <2>5. c.acquired <= own[n][k].acquired /\ d.acquired <= own[m][k].acquired
    BY <2>1, <2>2, <2>4 DEF ToldOf, UpTo
  <2>6. /\ c.acquired \in Nat /\ d.acquired \in Nat /\ m \in Nat /\ n \in Nat
        /\ own[m][k].acquired \in Nat /\ own[n][k].acquired \in Nat
    BY <2>1, <2>2, OwnAssumption DEF ToldOf, Shape, TypeOK, Claimed, Row, None
  <2>. QED
    BY <2>1, <2>2, <2>5, <2>6 DEF LosesTiebreak
<1>. QED
  BY <1>1, <1>2, OwnInit, ShapeStep, SingleStep, TransportStep, DatedStep, AgesLeadStep, PTL DEF Spec
=============================================================================
