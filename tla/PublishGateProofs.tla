------------------------- MODULE PublishGateProofs -------------------------
(***************************************************************************)
(* Proofs about the guard, the opt-in and the guarded file, for any        *)
(* remotes, any life of a verdict and any length of a batch.               *)
(***************************************************************************)
EXTENDS PublishGate, TLAPS

Verdict == [reason : {"unasked", "private", "public", "unprovable", "no_remote", "unread"},
            of : Remotes, age : 0..TTL, demanded : BOOLEAN]

(* What a probe can answer: private only of a repository on GitHub that is *)
(* private now.                                                            *)
LEMMA ProbeAnswers ==
  ASSUME NEW p \in Probe
  PROVE  /\ p \in {"private", "public", "unprovable", "no_remote", "unread"}
         /\ p = "private" => /\ remote \notin Labs \cup {NoRemote}
                            /\ publicFor[remote] = 0
<1>1. CASE remote = NoRemote
  <2>1. Probe = {"no_remote"}
    BY <1>1, GateAssumption DEF Probe
  <2>. QED
    BY <2>1
<1>2. CASE remote # NoRemote /\ remote \in Labs
  <2>1. Probe = {"unprovable"}
    BY <1>2 DEF Probe
  <2>. QED
    BY <2>1
<1>3. CASE remote # NoRemote /\ remote \notin Labs
  <2>1. Probe = {IF publicFor[remote] = 0 THEN "private" ELSE "public", "unread"}
    BY <1>3 DEF Probe
  <2>. QED
    BY <1>3, <2>1
<1>. QED
  BY <1>1, <1>2, <1>3

(* The record after a probe is of the remote, new, and keeps the demand.   *)
LEMMA ProbedVerdicts ==
  ASSUME TypeOK, NEW g \in Probed
  PROVE  /\ g \in Verdict
         /\ g.of = remote /\ g.age = 0 /\ g.demanded = repoGuard.demanded
         /\ g.reason # "unasked"
         /\ g.reason = "private" => remote \in Hubs /\ publicFor[remote] = 0
<1>1. PICK p \in Probe : g = [repoGuard EXCEPT !.reason = p, !.of = remote, !.age = 0]
  BY DEF Probed
<1>2. repoGuard \in Verdict /\ remote \in Remotes /\ 0 \in 0..TTL
  BY GateAssumption DEF TypeOK, Verdict
<1>3. p \in {"private", "public", "unprovable", "no_remote", "unread"}
  BY ProbeAnswers
<1>4. g \in Verdict /\ g.reason = p /\ g.of = remote /\ g.age = 0 /\ g.demanded = repoGuard.demanded
  BY <1>1, <1>2, <1>3 DEF Verdict
<1>. QED
  BY <1>2, <1>3, <1>4, ProbeAnswers DEF Remotes

(* A guard serves the record it has, or one of a probe of the remote.      *)
LEMMA GuardedVerdicts ==
  ASSUME TypeOK, NEW force \in BOOLEAN, NEW g \in Guarded(force)
  PROVE  /\ g \in Verdict
         /\ g.demanded = repoGuard.demanded
         /\ \/ g = repoGuard /\ Fresh
            \/ g \in Probed
<1>1. CASE Fresh /\ ~force
  BY <1>1 DEF Guarded, TypeOK, Verdict
<1>2. CASE ~(Fresh /\ ~force)
  BY <1>2, ProbedVerdicts DEF Guarded
<1>. QED
  BY <1>1, <1>2

-----------------------------------------------------------------------------
(* The records keep their shape. *)
LEMMA GateInit == Init => TypeOK
<1>. SUFFICES ASSUME Init PROVE TypeOK
  OBVIOUS
<1>. USE GateAssumption DEF Init
<1>1. remote \in Remotes /\ NoRemote \in Remotes
  BY DEF Remotes
<1>2. publicFor \in [Hubs -> 0..Long]
  BY DEF Long
<1>3. repoGuard \in Verdict
  BY <1>1 DEF Verdict
<1>4. optIn \in [enabled : BOOLEAN, override : BOOLEAN, unprovable : BOOLEAN]
  BY DEF Off
<1>5. prompt \in [at : {"none", "ask", "grant"}, arm : Arms]
  BY DEF NoPrompt, Arms
<1>6. batch \in [on : BOOLEAN, arm : Arms, of : Remotes, word : Arms, left : 0..BeatTicks]
  BY <1>1 DEF NoBatch, Arms
<1>. QED
  BY <1>1, <1>2, <1>3, <1>4, <1>5, <1>6 DEF TypeOK, Verdict, Arms

LEMMA TypeStep == TypeOK /\ [Next]_gateVars => TypeOK'
<1>. SUFFICES ASSUME TypeOK, [Next]_gateVars PROVE TypeOK'
  OBVIOUS
<1>. USE GateAssumption DEF TypeOK
<1>1. CASE Tick
  <2>1. publicFor' \in [Hubs -> 0..Long]
    BY <1>1 DEF Tick, Long
  <2>2. repoGuard' \in Verdict
    BY <1>1 DEF Tick, Verdict
  <2>3. batch' \in [on : BOOLEAN, arm : Arms, of : Remotes, word : Arms, left : 0..BeatTicks]
    BY <1>1 DEF Tick
  <2>. QED
    BY <1>1, <2>1, <2>2, <2>3 DEF Tick, leakVars, Verdict
<1>2. CASE Commit \/ NewSession
  BY <1>2 DEF Commit, NewSession, leakVars, pushVars
<1>3. ASSUME NEW r \in Hubs, SetVisibility(r)
      PROVE  TypeOK'
  BY <1>3 DEF SetVisibility, Long, leakVars, pushVars
<1>4. ASSUME NEW r \in Remotes, SetRemote(r)
      PROVE  TypeOK'
  BY <1>4 DEF SetRemote, leakVars, pushVars
<1>5. ASSUME NEW force \in BOOLEAN, Look(force)
      PROVE  TypeOK'
  BY <1>5, GuardedVerdicts DEF Look, Verdict, leakVars, pushVars
<1>6. ASSUME NEW force \in BOOLEAN, NEW g \in Guarded(force), Applied(g),
             UNCHANGED <<remote, publicFor, leakVars, pushVars>>
      PROVE  TypeOK'
  <2>1. g \in Verdict
    BY <1>6, GuardedVerdicts
  <2>2. HardFail(g) \in BOOLEAN
    BY DEF HardFail
  <2>. QED
    BY <1>6, <2>1, <2>2 DEF Applied, Verdict, leakVars, pushVars
<1>7. CASE AckRotated
  BY <1>7 DEF AckRotated, leakVars, pushVars
<1>8. CASE WriteGuardedFile
  BY <1>8, GuardedVerdicts DEF WriteGuardedFile, Verdict, pushVars
<1>9. CASE EnsureGitignore \/ KillWriter \/ Scrub
  BY <1>9 DEF EnsureGitignore, Block, KillWriter, Scrub, Scrubbed, pushVars
<1>10. CASE PairBegin
  <2>1. PICK g \in Guarded(FALSE) :
          /\ repoGuard' = g
          /\ prompt' = IF remote = NoRemote \/ g.reason = "unread" THEN NoPrompt
                       ELSE [at |-> IF g.reason = "private" THEN "grant" ELSE "ask",
                             arm |-> ArmOf(g.reason)]
    BY <1>10 DEF PairBegin
  <2>2. g \in Verdict
    BY GuardedVerdicts
  <2>3. prompt' \in [at : {"none", "ask", "grant"}, arm : Arms]
    <3>1. NoPrompt \in [at : {"none", "ask", "grant"}, arm : Arms]
      BY DEF NoPrompt, Arms
    <3>2. ArmOf(g.reason) \in Arms
      BY DEF ArmOf, Arms
    <3>. QED
      BY <2>1, <3>1, <3>2
  <2>. QED
    BY <1>10, <2>1, <2>2, <2>3 DEF PairBegin, Verdict, leakVars
<1>11. CASE PairAnswered \/ PairRefused \/ PairGranted \/ Revoke
  <2>1. CASE PairAnswered
    BY <2>1 DEF PairAnswered, Arms, leakVars
  <2>2. CASE PairRefused
    BY <2>2 DEF PairRefused, NoPrompt, Arms, leakVars
  <2>3. CASE PairGranted
    <3>1. prompt.arm \in Arms /\ Granted(prompt.arm) \in [enabled : BOOLEAN, override : BOOLEAN,
                                                           unprovable : BOOLEAN]
      BY DEF Granted
    <3>2. NoPrompt \in [at : {"none", "ask", "grant"}, arm : Arms]
      BY DEF NoPrompt, Arms
    <3>. QED
      BY <2>3, <3>1, <3>2 DEF PairGranted, leakVars
  <2>4. CASE Revoke
    BY <2>4 DEF Revoke, Off, Arms, leakVars
  <2>. QED
    BY <1>11, <2>1, <2>2, <2>3, <2>4
<1>12. ASSUME NEW roomy \in BOOLEAN, StateBatch(roomy)
       PROVE  TypeOK'
  <2>1. PICK g \in (IF ~Fresh /\ roomy THEN Probed ELSE {repoGuard}) :
          /\ repoGuard' = g
          /\ batch' = IF remote # NoRemote /\ Admits(Effective(g))
                      THEN [on |-> TRUE, arm |-> ArmOf(Effective(g)), of |-> g.of, word |-> typed,
                            left |-> BeatTicks]
                      ELSE NoBatch
    BY <1>12 DEF StateBatch
  <2>2. g \in Verdict
    BY <2>1, ProbedVerdicts DEF Verdict
  <2>3. ArmOf(Effective(g)) \in Arms
    BY DEF ArmOf, Arms
  <2>4. batch' \in [on : BOOLEAN, arm : Arms, of : Remotes, word : Arms, left : 0..BeatTicks]
    BY <2>1, <2>2, <2>3 DEF Verdict, NoBatch, Arms, Remotes
  <2>. QED
    BY <1>12, <2>1, <2>2, <2>4 DEF StateBatch, Verdict, leakVars
<1>13. CASE EndBatch
  BY <1>13 DEF EndBatch, NoBatch, Arms, Remotes, leakVars
<1>14. CASE UNCHANGED gateVars
  BY <1>14 DEF gateVars, leakVars, pushVars
<1>. QED
  BY <1>1, <1>2, <1>3, <1>4, <1>5, <1>6, <1>7, <1>8, <1>9, <1>10, <1>11, <1>12, <1>13, <1>14
  DEF Next, EnforceRepoGuard, CmdGuard

THEOREM GateTypes == Spec => []TypeOK
<1>. QED
  BY GateInit, TypeStep, PTL DEF Spec

-----------------------------------------------------------------------------
(* A private verdict that is still served is of a repository that has been *)
(* public for at most one step longer than the verdict is old: it was      *)
(* private when it was probed, and may have turned public right after.     *)
PrivateWasProven ==
  repoGuard.reason = "private" =>
    /\ repoGuard.of \in Hubs
    /\ repoGuard.age < TTL => publicFor[repoGuard.of] <= repoGuard.age + 1

(* The same of a record that the guard serves or probes for.               *)
LEMMA ServedWasProven ==
  ASSUME TypeOK, PrivateWasProven,
         NEW g, g = repoGuard \/ g \in Probed, g.reason = "private", g.age < TTL
  PROVE  g.of \in Hubs /\ publicFor[g.of] <= g.age + 1
<1>1. CASE g = repoGuard
  BY <1>1 DEF PrivateWasProven
<1>2. CASE g \in Probed
  BY <1>2, ProbedVerdicts, GateAssumption DEF TypeOK
<1>. QED
  BY <1>1, <1>2

(* Only a guard, a batch's re-probe and the clock change the verdict.      *)
VerdictKept ==
  /\ repoGuard'.reason = repoGuard.reason /\ repoGuard'.of = repoGuard.of
  /\ repoGuard'.age = repoGuard.age

LEMMA VerdictFate ==
  ASSUME TypeOK, [Next]_gateVars
  PROVE  \/ Tick
         \/ \E r \in Hubs : SetVisibility(r)
         \/ VerdictKept /\ publicFor' = publicFor
         \/ /\ publicFor' = publicFor
            /\ \E g \in Probed : /\ repoGuard'.reason = g.reason
                                 /\ repoGuard'.of = g.of /\ repoGuard'.age = g.age
<1>. USE DEF VerdictKept
<1>1. CASE \E force \in BOOLEAN : Look(force)
  BY <1>1, GuardedVerdicts DEF Look, pushVars
<1>2. ASSUME NEW force \in BOOLEAN, NEW g \in Guarded(force), Applied(g),
             publicFor' = publicFor
      PROVE  \/ VerdictKept
             \/ \E h \in Probed : /\ repoGuard'.reason = h.reason
                                  /\ repoGuard'.of = h.of /\ repoGuard'.age = h.age
  <2>1. g \in Verdict /\ (g = repoGuard \/ g \in Probed)
    BY GuardedVerdicts
  <2>2. /\ repoGuard'.reason = g.reason /\ repoGuard'.of = g.of
        /\ repoGuard'.age = g.age
    BY <1>2, <2>1 DEF Applied, Verdict
  <2>. QED
    BY <2>1, <2>2
<1>3. CASE AckRotated
  BY <1>3 DEF AckRotated, TypeOK
<1>4. CASE WriteGuardedFile
  BY <1>4, GuardedVerdicts DEF WriteGuardedFile
<1>5. CASE PairBegin
  BY <1>5, GuardedVerdicts DEF PairBegin
<1>6. ASSUME NEW roomy \in BOOLEAN, StateBatch(roomy)
      PROVE  publicFor' = publicFor /\ (repoGuard' = repoGuard \/ repoGuard' \in Probed)
  BY <1>6 DEF StateBatch
<1>7. CASE \/ Commit \/ NewSession \/ EnsureGitignore \/ KillWriter \/ Scrub
           \/ PairAnswered \/ PairRefused \/ PairGranted \/ Revoke \/ EndBatch
           \/ \E r \in Remotes : SetRemote(r)
  BY <1>7 DEF Commit, NewSession, EnsureGitignore, KillWriter, Scrub, Scrubbed, PairAnswered,
     PairRefused, PairGranted, Revoke, EndBatch, SetRemote
<1>8. CASE UNCHANGED gateVars
  BY <1>8 DEF gateVars
<1>. QED
  BY <1>1, <1>2, <1>3, <1>4, <1>5, <1>6, <1>7, <1>8 DEF Next, EnforceRepoGuard, CmdGuard

LEMMA ProvenStep == TypeOK /\ PrivateWasProven /\ [Next]_gateVars => PrivateWasProven'
<1>. SUFFICES ASSUME TypeOK, PrivateWasProven, [Next]_gateVars PROVE PrivateWasProven'
  OBVIOUS
<1>. USE GateAssumption DEF TypeOK, PrivateWasProven
<1>1. CASE Tick
  <2>1. /\ repoGuard'.reason = repoGuard.reason /\ repoGuard'.of = repoGuard.of
        /\ repoGuard'.age = IF repoGuard.age < TTL THEN repoGuard.age + 1 ELSE repoGuard.age
    BY <1>1 DEF Tick
  <2>2. \A r \in Hubs : publicFor'[r] <= publicFor[r] + 1
    BY <1>1 DEF Tick, Long
  <2>3. \A r \in Hubs : publicFor[r] \in Nat /\ publicFor'[r] \in Nat
    BY <1>1, TypeStep DEF Long
  <2>. QED
    BY <2>1, <2>2, <2>3
<1>2. ASSUME NEW r \in Hubs, SetVisibility(r)
      PROVE  PrivateWasProven'
  BY <1>2 DEF SetVisibility
<1>3. ASSUME publicFor' = publicFor,
             NEW g \in Probed, repoGuard'.reason = g.reason,
             repoGuard'.of = g.of, repoGuard'.age = g.age
      PROVE  PrivateWasProven'
  <2>1. g.age = 0 /\ (g.reason = "private" => g.of \in Hubs /\ publicFor[g.of] = 0)
    BY ProbedVerdicts
  <2>. QED
    BY <1>3, <2>1
<1>. QED
  BY <1>1, <1>2, <1>3, VerdictFate DEF VerdictKept

-----------------------------------------------------------------------------
(* An arm of the opt-in is open only if its confirmation was typed last.   *)
ConfirmationTyped ==
  /\ optIn.override => typed = "public"
  /\ optIn.unprovable => typed = "unprovable"

LEMMA ConfirmationStep == TypeOK /\ ConfirmationTyped /\ [Next]_gateVars => ConfirmationTyped'
<1>. SUFFICES ASSUME TypeOK, ConfirmationTyped, [Next]_gateVars PROVE ConfirmationTyped'
  OBVIOUS
<1>1. CASE PairGranted
  BY <1>1 DEF PairGranted, Granted, ConfirmationTyped
<1>2. CASE Revoke
  BY <1>2 DEF Revoke, Off, ConfirmationTyped
<1>3. CASE optIn' = optIn /\ typed' = typed
  BY <1>3 DEF ConfirmationTyped
<1>4. PairGranted \/ Revoke \/ (optIn' = optIn /\ typed' = typed)
  BY DEF Next, gateVars, pushVars, Tick, Commit, NewSession, SetVisibility, SetRemote, Look,
     EnforceRepoGuard, CmdGuard, AckRotated, WriteGuardedFile, EnsureGitignore, KillWriter,
     Scrub, PairBegin, PairAnswered, PairRefused, StateBatch, EndBatch
<1>. QED
  BY <1>1, <1>2, <1>3, <1>4

(* A batch under way was let by a verdict that was proven, as long as its  *)
(* deadline leaves it time, or by the confirmation typed last.             *)
BatchProven ==
  batch.on =>
    \/ /\ batch.arm = "private" /\ batch.of \in Hubs
       /\ publicFor[batch.of] <= TTL + BeatTicks - batch.left
    \/ batch.arm # "private" /\ batch.arm = batch.word

(* The gate lets a batch by on a private verdict that was proven, or on    *)
(* the arm that was typed.                                                 *)
LEMMA GateLets ==
  ASSUME TypeOK, PrivateWasProven, ConfirmationTyped,
         NEW g \in Verdict, g = repoGuard \/ g \in Probed, Admits(Effective(g))
  PROVE  \/ /\ ArmOf(Effective(g)) = "private" /\ g.of \in Hubs
            /\ publicFor[g.of] <= TTL
         \/ ArmOf(Effective(g)) # "private" /\ ArmOf(Effective(g)) = typed
<1>1. CASE Effective(g) = "private"
  <2>1. g.reason = "private" /\ g.age < TTL
    BY <1>1, GateAssumption DEF Effective, Verdict
  <2>2. g.of \in Hubs /\ publicFor[g.of] <= g.age + 1
    BY <2>1, ServedWasProven
  <2>3. publicFor[g.of] \in Nat /\ g.age \in Nat
    BY <2>2, GateAssumption DEF TypeOK, Long, Verdict
  <2>. QED
    BY <1>1, <2>1, <2>2, <2>3, GateAssumption DEF ArmOf
<1>2. CASE Effective(g) = "public"
  BY <1>2 DEF Admits, ArmOf, ConfirmationTyped
<1>3. CASE Effective(g) \in {"unprovable", "no_remote"}
  BY <1>3 DEF Admits, ArmOf, ConfirmationTyped
<1>4. CASE Effective(g) \notin {"private", "public", "unprovable", "no_remote"}
  BY <1>4 DEF Admits
<1>. QED
  BY <1>1, <1>2, <1>3, <1>4

LEMMA BatchStep ==
  TypeOK /\ PrivateWasProven /\ ConfirmationTyped /\ BatchProven /\ [Next]_gateVars => BatchProven'
<1>. SUFFICES ASSUME TypeOK, PrivateWasProven, ConfirmationTyped, BatchProven, [Next]_gateVars,
                     batch'.on
              PROVE  BatchProven'
  BY DEF BatchProven
<1>. USE GateAssumption DEF TypeOK
<1>1. CASE Tick
  <2>1. batch.on
    BY <1>1 DEF Tick
  <2>2. /\ batch'.arm = batch.arm /\ batch'.of = batch.of /\ batch'.word = batch.word
        /\ batch'.left = batch.left - 1
    BY <1>1, <2>1 DEF Tick
  <2>3. \A r \in Hubs : publicFor'[r] <= publicFor[r] + 1
    BY <1>1 DEF Tick, Long
  <2>4. \A r \in Hubs : publicFor[r] \in Nat /\ publicFor'[r] \in Nat
    BY <1>1, TypeStep DEF Long
  <2>. QED
    BY <2>1, <2>2, <2>3, <2>4 DEF BatchProven
<1>2. ASSUME NEW r \in Hubs, SetVisibility(r)
      PROVE  BatchProven'
  <2>1. batch' = batch
    BY <1>2 DEF SetVisibility, pushVars
  <2>2. publicFor' = [publicFor EXCEPT ![r] = IF @ = 0 THEN 1 ELSE 0]
    BY <1>2 DEF SetVisibility
  <2>. QED
    BY <2>1, <2>2 DEF BatchProven
<1>3. ASSUME NEW roomy \in BOOLEAN, StateBatch(roomy)
      PROVE  BatchProven'
  <2>1. PICK g \in (IF ~Fresh /\ roomy THEN Probed ELSE {repoGuard}) :
          batch' = IF remote # NoRemote /\ Admits(Effective(g))
                   THEN [on |-> TRUE, arm |-> ArmOf(Effective(g)), of |-> g.of, word |-> typed,
                         left |-> BeatTicks]
                   ELSE NoBatch
    BY <1>3 DEF StateBatch
  <2>2. Admits(Effective(g))
    BY <2>1 DEF NoBatch
  <2>3. g \in Verdict /\ (g = repoGuard \/ g \in Probed)
    BY <2>1, ProbedVerdicts DEF Verdict
  <2>4. /\ batch'.arm = ArmOf(Effective(g)) /\ batch'.of = g.of /\ batch'.word = typed
        /\ batch'.left = BeatTicks
    BY <2>1 DEF NoBatch
  <2>5. publicFor' = publicFor
    BY <1>3 DEF StateBatch
  <2>. QED
    BY <2>2, <2>3, <2>4, <2>5, GateLets DEF BatchProven
<1>4. CASE batch' = batch /\ publicFor' = publicFor
  BY <1>4 DEF BatchProven
<1>5. \/ Tick \/ (\E r \in Hubs : SetVisibility(r)) \/ (\E roomy \in BOOLEAN : StateBatch(roomy))
      \/ EndBatch
      \/ batch' = batch /\ publicFor' = publicFor
  BY DEF Next, gateVars, pushVars, Commit, NewSession, SetRemote, Look, EnforceRepoGuard,
     CmdGuard, AckRotated, WriteGuardedFile, EnsureGitignore, KillWriter, Scrub, PairBegin,
     PairAnswered, PairRefused, PairGranted, Revoke
<1>6. CASE EndBatch
  BY <1>6 DEF EndBatch, NoBatch
<1>. QED
  BY <1>1, <1>2, <1>3, <1>4, <1>5, <1>6

(* A batch that may be pushed has its proof or its confirmation: the       *)
(* verdict is as old as its time to live allows and a batch as long as its *)
(* deadline, whatever changes around it (gate, cachedVerdict).             *)
THEOREM BatchesArePushedWhereProven == Spec => []PushesWhereProven
<1>1. Init => PrivateWasProven /\ ConfirmationTyped /\ BatchProven
  BY DEF Init, PrivateWasProven, ConfirmationTyped, BatchProven, Off, NoBatch
<1>2. TypeOK /\ BatchProven => PushesWhereProven
  <2>. SUFFICES ASSUME TypeOK, BatchProven PROVE PushesWhereProven
    OBVIOUS
  <2>1. batch.left \in Nat /\ \A r \in Hubs : publicFor[r] \in Nat
    BY GateAssumption DEF TypeOK, Long
  <2>. QED
    BY <2>1, GateAssumption DEF BatchProven, PushesWhereProven
<1>. QED
  BY <1>1, <1>2, GateTypes, ProvenStep, ConfirmationStep, BatchStep, PTL DEF Spec

-----------------------------------------------------------------------------
(* An exposed leak is a hard failure for every record a guard may serve:   *)
(* a private verdict young enough to be served was proven less than TTL    *)
(* steps ago of the repository that it names.                              *)
LEMMA ExposedFails ==
  ASSUME TypeOK, PrivateWasProven, Exposed, NEW force \in BOOLEAN, NEW g \in Guarded(force)
  PROVE  HardFail(g)
<1>. SUFFICES ASSUME g.reason = "private" PROVE FALSE
  BY DEF Exposed, HardFail
<1>1. g.of = remote /\ g.age < TTL
  BY GuardedVerdicts, ProbedVerdicts, GateAssumption DEF Exposed, Fresh
<1>2. remote \in Hubs /\ publicFor[remote] <= g.age + 1
  BY <1>1, GuardedVerdicts, ServedWasProven
<1>3. publicFor[remote] \in Nat /\ g.age \in Nat
  BY <1>2, GuardedVerdicts, GateAssumption DEF TypeOK, Long, Verdict
<1>. QED
  BY <1>1, <1>2, <1>3, GateAssumption DEF Exposed

(* The demand to rotate and the stop last until they are settled.          *)
THEOREM LeaksKeepDemanding == Spec => []LeakDemandsRotation
<1>1. Init => PrivateWasProven /\ LeakDemandsRotation
  BY DEF Init, PrivateWasProven, LeakDemandsRotation
<1>2. TypeOK /\ PrivateWasProven /\ LeakDemandsRotation /\ [Next]_gateVars => LeakDemandsRotation'
  <2>. SUFFICES ASSUME TypeOK, PrivateWasProven, LeakDemandsRotation, [Next]_gateVars
                PROVE  LeakDemandsRotation'
    OBVIOUS
  <2>1. ASSUME NEW force \in BOOLEAN, NEW g \in Guarded(force), Applied(g)
        PROVE  LeakDemandsRotation'
    <3>1. g \in Verdict /\ g.demanded = repoGuard.demanded
      BY GuardedVerdicts
    <3>2. repoGuard'.demanded = (g.demanded \/ HardFail(g))
      BY <2>1, <3>1 DEF Applied, Verdict
    <3>3. CASE Exposed
      BY <2>1, <3>2, <3>3, ExposedFails DEF Applied, LeakDemandsRotation
    <3>4. CASE ~Exposed
      BY <2>1, <3>1, <3>2, <3>4 DEF Applied, LeakDemandsRotation
    <3>. QED
      BY <3>3, <3>4
  <2>2. CASE NewSession
    BY <2>2 DEF NewSession, LeakDemandsRotation
  <2>3. CASE AckRotated
    BY <2>3 DEF AckRotated, LeakDemandsRotation
  <2>4. ASSUME owed' = owed, stopped' = stopped, repoGuard'.demanded = repoGuard.demanded
        PROVE  LeakDemandsRotation'
    BY <2>4 DEF LeakDemandsRotation
  <2>5. CASE \/ \E force \in BOOLEAN : Look(force)
             \/ WriteGuardedFile \/ PairBegin
    BY <2>4, <2>5, GuardedVerdicts DEF Look, WriteGuardedFile, PairBegin
  <2>6. ASSUME NEW roomy \in BOOLEAN, StateBatch(roomy)
        PROVE  LeakDemandsRotation'
    BY <2>4, <2>6, ProbedVerdicts DEF StateBatch
  <2>7. CASE Tick
    BY <2>4, <2>7 DEF Tick, TypeOK
  <2>8. CASE \/ Commit \/ EnsureGitignore \/ KillWriter \/ Scrub \/ PairAnswered \/ PairRefused
             \/ PairGranted \/ Revoke \/ EndBatch \/ (\E r \in Hubs : SetVisibility(r))
             \/ (\E r \in Remotes : SetRemote(r)) \/ UNCHANGED gateVars
    BY <2>4, <2>8 DEF Commit, EnsureGitignore, KillWriter, Scrub, Scrubbed, PairAnswered,
       PairRefused, PairGranted, Revoke, EndBatch, SetVisibility, SetRemote, gateVars
  <2>. QED
    BY <2>1, <2>2, <2>3, <2>5, <2>6, <2>7, <2>8 DEF Next, EnforceRepoGuard, CmdGuard
<1>. QED
  BY <1>1, <1>2, GateTypes, ProvenStep, PTL DEF Spec

-----------------------------------------------------------------------------
(* Between writers the managed block is the one the guarded file asks for. *)
BlockFollowsFile == file # "absent" /\ ~writing /\ ~torn => ignore = Block

(* A commit takes up the guarded file only as it is marked.                *)
THEOREM SecretsAreCommittedAsMarked == Spec => CommittedAsMarked
<1>1. Init => BlockFollowsFile
  BY DEF Init, BlockFollowsFile
<1>2. TypeOK /\ BlockFollowsFile /\ [Next]_gateVars => BlockFollowsFile'
  <2>. SUFFICES ASSUME TypeOK, BlockFollowsFile, [Next]_gateVars PROVE BlockFollowsFile'
    OBVIOUS
  <2>1. CASE WriteGuardedFile \/ EnsureGitignore \/ KillWriter \/ Scrub
    BY <2>1 DEF WriteGuardedFile, EnsureGitignore, KillWriter, Scrub, BlockFollowsFile, Block
  <2>2. CASE file' = file /\ writing' = writing /\ torn' = torn /\ ignore' = ignore
    BY <2>2 DEF BlockFollowsFile, Block
  <2>3. \/ WriteGuardedFile \/ EnsureGitignore \/ KillWriter \/ Scrub
        \/ file' = file /\ writing' = writing /\ torn' = torn /\ ignore' = ignore
    BY DEF Next, gateVars, leakVars, Tick, Commit, NewSession, SetVisibility, SetRemote, Look,
       EnforceRepoGuard, CmdGuard, AckRotated, PairBegin, PairAnswered, PairRefused,
       PairGranted, Revoke, StateBatch, EndBatch
  <2>. QED
    BY <2>1, <2>2, <2>3
<1>3. TypeOK /\ BlockFollowsFile /\ [Next]_gateVars
        => [~tracked /\ tracked' => file = "committed" \/ writing \/ torn]_gateVars
  <2>. SUFFICES ASSUME TypeOK, BlockFollowsFile, [Next]_gateVars, ~tracked, tracked'
                PROVE  file = "committed" \/ writing \/ torn
    OBVIOUS
  <2>1. Commit \/ tracked' = tracked
    BY DEF Next, gateVars, leakVars, Tick, NewSession, SetVisibility, SetRemote, Look,
       EnforceRepoGuard, CmdGuard, AckRotated, WriteGuardedFile, EnsureGitignore, KillWriter,
       Scrub, PairBegin, PairAnswered, PairRefused, PairGranted, Revoke, StateBatch, EndBatch
  <2>2. CASE Commit
    BY <2>2 DEF Commit, BlockFollowsFile, Block, TypeOK
  <2>. QED
    BY <2>1, <2>2
<1>. QED
  BY <1>1, <1>2, <1>3, GateTypes, PTL DEF Spec, CommittedAsMarked
=============================================================================
