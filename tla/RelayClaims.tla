----------------------------- MODULE RelayClaims -----------------------------
(***************************************************************************)
(* Presence and leases: heartbeat, claim and release                       *)
(* (relay/src/do/workspace.js).  Each handler first deletes every lapsed   *)
(* lease, whatever it then answers.                                        *)
(***************************************************************************)
EXTENDS RelayStore

claimFrame == <<phase, enroll, nextSeq, members, messages, inflight, minted, clock>>

Earlier(a, b) == IF a <= b THEN a ELSE b

\* The table `live` with every lease of m renewed at `now`.
Renewed(live, m, now) ==
  [s \in Subjects |-> IF live[s].owner = m THEN [live[s] EXCEPT !.renewed = now] ELSE live[s]]

\* #heartbeat: the presence row is upserted and, unless renew_claims is false,
\* every lease of the member renewed.
Heartbeat(m, now, renew) ==
  /\ AuthMember(m)
  /\ presence' = presence \cup {m}
  /\ claims' = IF renew THEN Renewed(ExpireClaims(now), m, now) ELSE ExpireClaims(now)
  /\ UNCHANGED claimFrame

\* Deviation: a renewal restarts the lease's age.
RenewLease_Reborn(lease, now, ttl) == [lease EXCEPT !.acquired = now, !.renewed = now, !.ttl = ttl]

\* #claim on a subject the caller already holds: acquired_at is not written.
RenewLease(lease, now, ttl) == [lease EXCEPT !.renewed = now, !.ttl = ttl]

\* #claim on a free subject: acquired_at is the caller's, clamped to now.
NewLease(m, now, ttl, asked) ==
  [owner |-> m, acquired |-> Earlier(asked, now), renewed |-> now, ttl |-> ttl]

RoomFor(live) == Cardinality(Held(live)) < MaxClaims

ClaimRenewal(m, s, now, ttl) ==
  LET live == ExpireClaims(now) IN
  /\ live[s].owner = m
  /\ claims' = [live EXCEPT ![s] = RenewLease(live[s], now, ttl)]

ClaimGranted(m, s, now, ttl, asked) ==
  LET live == ExpireClaims(now) IN
  /\ live[s].owner = Nobody
  /\ RoomFor(live)
  /\ claims' = [live EXCEPT ![s] = NewLease(m, now, ttl, asked)]

\* claim_conflict, or workspace_claims_full
ClaimRefused(m, s, now) ==
  LET live == ExpireClaims(now) IN
  /\ live[s].owner # m
  /\ live[s].owner # Nobody \/ ~RoomFor(live)
  /\ claims' = live

Claim(m, s, now, ttl, asked) ==
  /\ AuthMember(m)
  /\ \/ ClaimRenewal(m, s, now, ttl)
     \/ ClaimGranted(m, s, now, ttl, asked)
     \/ ClaimRefused(m, s, now)
  /\ UNCHANGED presence /\ UNCHANGED claimFrame

\* #release: only the owner's request deletes the row.
MayRelease(m, lease) == lease.owner = m

Release(m, s, now) ==
  /\ AuthMember(m)
  /\ LET live == ExpireClaims(now)
     IN claims' = IF MayRelease(m, live[s]) THEN [live EXCEPT ![s] = Free] ELSE live
  /\ UNCHANGED presence /\ UNCHANGED claimFrame

ClaimsOp(m) ==
  \E now \in Arrivals :
    \/ \E renew \in BOOLEAN : Heartbeat(m, now, renew)
    \/ \E s \in Subjects :
         \/ \E ttl \in 1..MaxTtl, asked \in 0..MaxClock : Claim(m, s, now, ttl, asked)
         \/ Release(m, s, now)
=============================================================================
