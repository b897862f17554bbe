------------------------- MODULE SessionLifeProofs -------------------------
(***************************************************************************)
(* Proofs about rests, refusals and the sentinel files, for any sessions,  *)
(* monitors, children, kinds of host, keepalive, freshness and bound.      *)
(***************************************************************************)
EXTENDS SessionLife, TLAPS

(* The ids a session goes by, on each kind of host.                        *)
LEMMA Identities ==
  ASSUME host \in Hosts
  PROVE  \A s : /\ host = "ids" => Exported(s) = {s} /\ CliId(s) = s
                /\ host = "pinned" => Exported(s) = {Pin} /\ CliId(s) = Pin
                /\ host = "none" => Exported(s) = {} /\ CliId(s) = Cli
                /\ host \in {"ids", "pinned", "none"}
<1>1. host \in {"ids", "pinned", "none"}
  BY SessionAssumption
<1>2. CASE host = "ids"
  BY <1>2 DEF Exported, CliId
<1>3. CASE host = "pinned"
  BY <1>3 DEF Exported, CliId
<1>4. CASE host = "none"
  BY <1>4 DEF Exported, CliId
<1>. QED
  BY <1>1, <1>2, <1>3, <1>4

LEMMA CliIdType == host \in Hosts => \A s \in Sessions : CliId(s) \in Ids
  BY Identities, SessionAssumption DEF Ids

(* Beside the type invariant: a session that has started has a role, one   *)
(* that is no child was recorded as a parent, and names are names.         *)
Shape ==
  /\ TypeOK
  /\ host \in Hosts
  /\ disarm \in [owner : Ids \cup {NoOwner}, over : SUBSET Sessions]
  /\ latch \in [session : Ids \cup {NoOwner}, stopped : BOOLEAN]
  /\ rests \subseteq Sessions /\ resting \subseteq Sessions /\ parents \subseteq Sessions
  /\ due \cap posting = {}
  /\ \A s \in Sessions :
       /\ status[s] = "new" <=> role[s] = "none"
       /\ status[s] # "new" /\ s \notin Children => s \in parents
       /\ role[s] = "parent" => s \notin Children

LEMMA SessionInit == Init => Shape
  BY SessionAssumption DEF Init, Shape, TypeOK, NoDisarm, Stale, Ids

LEMMA Verdicts ==
  \A s \in Sessions, source \in {"startup", "resume", "clear", "compact"} :
    /\ Verdict(s, source) \in {"parent", "child"}
    /\ Verdict(s, source) = "parent" => s \notin Children
    /\ s \notin Children /\ source # "compact" => Verdict(s, source) = "parent"
  BY DEF Verdict

LEMMA ReportShape ==
  ASSUME Shape, NEW s \in Sessions, Reports(s)
  PROVE  latch' \in [session : Ids \cup {NoOwner}, stopped : BOOLEAN]
<1>1. CliId(s) \in Ids
  BY CliIdType DEF Shape
<1>2. latch' \in {latch, [session |-> CliId(s), stopped |-> FALSE],
                  [session |-> CliId(s), stopped |-> TRUE]}
  BY DEF Reports
<1>3. \A b \in BOOLEAN : [session |-> CliId(s), stopped |-> b] \in [session : Ids \cup {NoOwner}, stopped : BOOLEAN]
  BY <1>1
<1>4. latch \in [session : Ids \cup {NoOwner}, stopped : BOOLEAN]
  BY DEF Shape
<1>. QED
  BY <1>2, <1>3, <1>4

LEMMA DecidesShape ==
  ASSUME NEW s, NEW age, Decides(s, age)
  PROVE  /\ due' \subseteq due \cup {<<"monitor", s>>}
         /\ due \cap posting = {} => due' \cap posting = {}
  BY DEF Decides

LEMMA Aging ==
  ASSUME NEW bound \in Nat, NEW age \in 0..bound
  PROVE  Older(age, bound) \in 0..bound
  BY DEF Older

LEMMA ShapeStep == Shape /\ [Next]_sessionVars => Shape'
<1>. SUFFICES ASSUME Shape, [Next]_sessionVars PROVE Shape'
  OBVIOUS
<1>. USE SessionAssumption DEF Shape, TypeOK
<1>1. CASE PassTime
  <2>1. Stale \in Nat /\ Keep \in Nat
    BY DEF Stale
  <2>2. alive' \in 0..Stale /\ mark' \in 0..Keep /\ quiet' \in 0..Keep
    BY <1>1, <2>1, Aging DEF PassTime
  <2>. QED
    BY <1>1, <2>2 DEF PassTime, beats
<1>2. ASSUME NEW s \in Sessions, NEW source \in {"startup", "resume"}, status[s] # "on", Begin(s, source)
      PROVE  Shape'
  <2>1. /\ Verdict(s, source) \in {"parent", "child"}
        /\ Verdict(s, source) = "parent" <=> s \notin Children
    BY Verdicts
  <2>2. \A t \in Sessions : /\ status'[t] = IF t = s THEN "on" ELSE status[t]
                            /\ role'[t] = IF t = s THEN Verdict(s, source) ELSE role[t]
    BY <1>2 DEF Begin
  <2>3. parents' = IF s \notin Children THEN parents \cup {s} ELSE parents
    BY <1>2, <2>1 DEF Begin
  <2>4. status' \in [Sessions -> {"new", "on", "over"}] /\ role' \in [Sessions -> {"none", "parent", "child"}]
    BY <1>2, <2>1 DEF Begin
  <2>5. /\ monitor' \subseteq {t \in Monitored \ Children : status'[t] = "on"}
        /\ alive' \in 0..Stale /\ disarm' \in [owner : Ids \cup {NoOwner}, over : SUBSET Sessions]
    <3>1. CASE s \in Monitored \ Children
      BY <1>2, <2>2, <3>1 DEF Begin, Stale
    <3>2. CASE s \notin Monitored \ Children
      BY <1>2, <2>2, <3>2 DEF Begin
    <3>. QED
      BY <3>1, <3>2
  <2>6. due' \cup posting' \subseteq {"monitor", "hook"} \X parents' /\ due' \cap posting' = {}
    <3>1. CASE s \in Monitored \ Children
      BY <1>2, <2>3, <3>1, DecidesShape DEF Begin
    <3>2. CASE s \notin Monitored \ Children
      BY <1>2, <2>3, <3>2 DEF Begin
    <3>. QED
      BY <3>1, <3>2
  <2>. QED
    BY <1>2, <2>1, <2>2, <2>3, <2>4, <2>5, <2>6 DEF Begin
<1>3. ASSUME NEW s \in Sessions, NEW source \in Sources, StartAgain(s, source)
      PROVE  Shape'
  <2>1. /\ Verdict(s, source) \in {"parent", "child"}
        /\ Verdict(s, source) = "parent" => s \notin Children
    BY Verdicts
  <2>. QED
    BY <1>3, <2>1 DEF StartAgain, files, beats
<1>4. ASSUME NEW s \in Sessions, MonitorQuits(s)
      PROVE  Shape'
  BY <1>4 DEF MonitorQuits, Stale, beats
<1>5. ASSUME NEW s \in Sessions, MonitorPoll(s)
      PROVE  Shape'
  <2>1. s \in parents
    BY <1>5 DEF MonitorPoll
  <2>2. due' \subseteq due \cup {<<"monitor", s>>} /\ due' \cap posting = {}
    BY <1>5, DecidesShape DEF MonitorPoll
  <2>. QED
    BY <1>5, <2>1, <2>2 DEF MonitorPoll, Stale
<1>6. ASSUME NEW s \in Sessions, Stop(s)
      PROVE  Shape'
  <2>1. s \notin Children
    BY <1>6 DEF Stop, IsChild
  <2>2. s \in parents /\ status[s] = "on"
    BY <1>6, <2>1 DEF Stop
  <2>. QED
    BY <1>6, <2>2 DEF Stop
<1>7. ASSUME NEW b \in Beats, CliStarts(b) \/ CliEnds(b)
      PROVE  Shape'
  <2>1. CASE CliStarts(b)
    BY <2>1 DEF CliStarts, files
  <2>2. CASE CliEnds(b)
    <3>1. latch' \in [session : Ids \cup {NoOwner}, stopped : BOOLEAN]
      BY <2>2, ReportShape DEF CliEnds, Beats
    <3>2. quiet' \in 0..Keep
      BY <2>2 DEF CliEnds
    <3>. QED
      BY <2>2, <3>1, <3>2 DEF CliEnds
  <2>. QED
    BY <1>7, <2>1, <2>2
<1>8. ASSUME NEW s \in Sessions, RestDisarms(s) \/ RestLatches(s)
      PROVE  Shape'
  <2>1. CliId(s) \in Ids
    BY CliIdType
  <2>2. CASE RestDisarms(s)
    BY <2>1, <2>2 DEF RestDisarms, beats
  <2>3. CASE RestLatches(s)
    BY <2>1, <2>3 DEF RestLatches, beats
  <2>. QED
    BY <1>8, <2>2, <2>3
<1>9. ASSUME NEW s \in Sessions, End(s) \/ Killed(s)
      PROVE  Shape'
  <2>1. /\ alive' \in 0..Stale
        /\ disarm' \in [owner : Ids \cup {NoOwner}, over : SUBSET Sessions]
    BY <1>9 DEF End, Killed, Stale, NoDisarm
  <2>2. Over(s)
    BY <1>9 DEF End, Killed
  <2>. QED
    BY <2>1, <2>2 DEF Over, beats
<1>10. CASE UNCHANGED sessionVars
  BY <1>10 DEF sessionVars, files, beats
<1>. QED
  BY <1>1, <1>2, <1>3, <1>4, <1>5, <1>6, <1>7, <1>8, <1>9, <1>10
  DEF Next, SessionStep, Start, Resume

(* The type invariant of the model. *)
THEOREM SessionTypes == Spec => []TypeOK
<1>1. Shape => TypeOK
  BY DEF Shape
<1>. QED
  BY <1>1, SessionInit, ShapeStep, PTL DEF Spec

-----------------------------------------------------------------------------
(* Where the host names its sessions, a record that stops one carries the  *)
(* name of a session that rested or was refused.                           *)
SilenceOwned ==
  host = "ids" => /\ disarm.owner \in stopped \cup {NoOwner}
                  /\ latch.stopped => latch.session \in stopped
                  /\ resting \subseteq stopped

LEMMA ReportOwned ==
  ASSUME Shape, SilenceOwned, host = "ids", NEW s \in Sessions, Reports(s)
  PROVE  stopped \subseteq stopped' /\ (latch'.stopped => latch'.session \in stopped')
<1>1. CliId(s) = s
  BY Identities DEF Shape
<1>. QED
  BY <1>1 DEF Reports, SilenceOwned

LEMMA HostStays == [Next]_sessionVars => host' = host
  BY DEF Next, SessionStep, Start, Resume, Begin, StartAgain, MonitorQuits, MonitorPoll, Stop,
     RestDisarms, RestLatches, CliStarts, CliEnds, End, Killed, Over, PassTime, sessionVars

LEMMA StoppedGrows ==
  [Next]_sessionVars => stopped \subseteq stopped' /\ resting' \subseteq resting \cup stopped'
<1>. DEFINE Goal == stopped \subseteq stopped' /\ resting' \subseteq resting \cup stopped'
<1>1. ASSUME NEW s \in Sessions, SessionStep(s) PROVE Goal
  <2>1. CASE Start(s) \/ Resume(s)
    BY <2>1 DEF Start, Resume, Begin
  <2>2. CASE \E source \in Sources : StartAgain(s, source)
    BY <2>2 DEF StartAgain
  <2>3. CASE MonitorQuits(s) \/ MonitorPoll(s) \/ Stop(s)
    BY <2>3 DEF MonitorQuits, MonitorPoll, Stop
  <2>4. CASE RestDisarms(s) \/ RestLatches(s)
    BY <2>4 DEF RestDisarms, RestLatches
  <2>5. CASE End(s) \/ Killed(s)
    BY <2>5 DEF End, Killed, Over
  <2>. QED
    BY <1>1, <2>1, <2>2, <2>3, <2>4, <2>5 DEF SessionStep
<1>2. ASSUME NEW b \in Beats, CliStarts(b) \/ CliEnds(b) PROVE Goal
  BY <1>2 DEF CliStarts, CliEnds, Reports
<1>3. CASE PassTime \/ UNCHANGED sessionVars
  BY <1>3 DEF PassTime, sessionVars
<1>. QED
  BY <1>1, <1>2, <1>3 DEF Next

LEMMA OwnedStep == Shape /\ SilenceOwned /\ [Next]_sessionVars => SilenceOwned'
<1>. SUFFICES ASSUME Shape, SilenceOwned, [Next]_sessionVars, host' = "ids"
              PROVE  /\ disarm'.owner \in stopped' \cup {NoOwner}
                     /\ latch'.stopped => latch'.session \in stopped'
  BY StoppedGrows, HostStays DEF SilenceOwned
<1>1. host = "ids"
  BY HostStays
<1>2. ASSUME NEW b \in Beats, CliEnds(b)
      PROVE  /\ disarm'.owner \in stopped' \cup {NoOwner}
             /\ latch'.stopped => latch'.session \in stopped'
  <2>1. /\ stopped \subseteq stopped'
        /\ latch'.stopped => latch'.session \in stopped'
    BY <1>1, <1>2, ReportOwned DEF CliEnds, Beats
  <2>. QED
    BY <1>1, <1>2, <2>1 DEF CliEnds, SilenceOwned
<1>3. ASSUME disarm'.owner \in {disarm.owner, NoOwner}, latch' = latch, stopped' = stopped
      PROVE  /\ disarm'.owner \in stopped' \cup {NoOwner}
             /\ latch'.stopped => latch'.session \in stopped'
  BY <1>1, <1>3 DEF SilenceOwned
<1>4. ASSUME NEW s \in Sessions, NEW source, Begin(s, source)
      PROVE  disarm'.owner \in {disarm.owner, NoOwner} /\ latch' = latch /\ stopped' = stopped
  BY <1>4 DEF Begin, Shape
<1>5. ASSUME NEW s \in Sessions, RestLatches(s)
      PROVE  /\ disarm'.owner \in stopped' \cup {NoOwner}
             /\ latch'.stopped => latch'.session \in stopped'
  <2>1. CliId(s) = s /\ s \in stopped
    BY <1>1, <1>5, Identities DEF RestLatches, Shape, SilenceOwned
  <2>. QED
    BY <1>1, <1>5, <2>1 DEF RestLatches, SilenceOwned
<1>6. ASSUME NEW s \in Sessions, RestDisarms(s)
      PROVE  /\ disarm'.owner \in stopped' \cup {NoOwner}
             /\ latch'.stopped => latch'.session \in stopped'
  <2>1. CliId(s) = s
    BY <1>1, Identities DEF Shape
  <2>. QED
    BY <1>1, <1>6, <2>1 DEF RestDisarms, SilenceOwned
<1>7. ASSUME NEW s \in Sessions, End(s) \/ Killed(s)
      PROVE  disarm'.owner \in {disarm.owner, NoOwner} /\ latch' = latch /\ stopped' = stopped
  BY <1>7 DEF End, Killed, Over, NoDisarm
<1>8. ASSUME NEW s \in Sessions, \/ MonitorQuits(s) \/ MonitorPoll(s) \/ Stop(s)
                                \/ \E source \in Sources : StartAgain(s, source)
      PROVE  disarm' = disarm /\ latch' = latch /\ stopped' = stopped
  BY <1>8 DEF MonitorQuits, MonitorPoll, Stop, StartAgain, files
<1>9. CASE PassTime \/ UNCHANGED sessionVars
  BY <1>3, <1>9 DEF PassTime, sessionVars, files
<1>10. ASSUME NEW b \in Beats, CliStarts(b)
       PROVE  disarm' = disarm /\ latch' = latch /\ stopped' = stopped
  BY <1>10 DEF CliStarts, files
<1>. QED
  BY <1>2, <1>3, <1>4, <1>5, <1>6, <1>7, <1>8, <1>9, <1>10 DEF Next, SessionStep, Start, Resume

(* No session is silenced by another's rest or refusal. *)
THEOREM SilenceIsNotInherited == Spec => []NoInheritedSilence
<1>1. Init => SilenceOwned
  BY DEF Init, SilenceOwned, NoDisarm
<1>2. Shape /\ SilenceOwned => NoInheritedSilence
  <2>. SUFFICES ASSUME Shape, SilenceOwned PROVE NoInheritedSilence
    OBVIOUS
  <2>1. ASSUME NEW s \in Sessions \ stopped, host = "ids"
        PROVE  /\ ~OwnsRecord(disarm.owner, HookIds(s))
               /\ ~(OwnsRecord(latch.session, HookIds(s)) /\ latch.stopped) /\ ~Latched(s)
    <3>1. HookIds(s) = {s} /\ CliId(s) = s
      BY <2>1, Identities DEF HookIds, Shape
    <3>2. s # NoOwner
      BY SessionAssumption DEF NoOwner
    <3>. QED
      BY <2>1, <3>1, <3>2 DEF SilenceOwned, OwnsRecord, Latched
  <2>2. \A s \in monitor : DisarmedHere(s) => s \in disarm.over
    BY DEF DisarmedHere
  <2>. QED
    BY <2>1, <2>2 DEF NoInheritedSilence
<1>. QED
  BY <1>1, <1>2, SessionInit, ShapeStep, OwnedStep, PTL DEF Spec

-----------------------------------------------------------------------------
(* What keeps the session quiet that rested last: its disarm where the     *)
(* host names its sessions, so that no beat is decided on after; elsewhere *)
(* the latch, which every session shares there and no call has passed.     *)
RestHolds ==
  \A s \in rests :
    /\ status[s] = "on"
    /\ host = "ids" => disarm.owner = s /\ (s \in monitor => s \in disarm.over)
    /\ s \notin resting =>
         /\ host = "ids" => UnderWay(s) \subseteq before
         /\ host # "ids" => Latched(s) /\ posting = {}

LEMMA SharedLatch ==
  ASSUME Shape, host # "ids", NEW s \in Sessions, NEW t \in Sessions
  PROVE  CliId(s) = CliId(t)
  BY Identities DEF Shape

(* Where the host names its sessions, one that rests is disarmed for its   *)
(* monitor and its hooks alike.                                            *)
LEMMA Disarmed ==
  ASSUME Shape, RestHolds, host = "ids", NEW s \in rests
  PROVE  ~MonitorPoll(s) /\ ~Stop(s)
<1>1. disarm.owner = s /\ (s \in monitor => s \in disarm.over) /\ s \in Sessions
  BY DEF RestHolds, Shape
<1>2. s # NoOwner
  BY <1>1, SessionAssumption DEF NoOwner
<1>3. Exported(s) = {s}
  BY <1>1, Identities DEF Shape
<1>4. disarm # NoDisarm
  BY <1>1, <1>2 DEF NoDisarm
<1>. QED
  BY <1>1, <1>3, <1>4 DEF MonitorPoll, Stop, DisarmedHere, HookIds, OwnsRecord

LEMMA RestStep == Shape /\ RestHolds /\ [Next]_sessionVars => RestHolds'
<1>. SUFFICES ASSUME Shape, RestHolds, [Next]_sessionVars PROVE RestHolds'
  OBVIOUS
<1>1. host' = host /\ rests \subseteq Sessions /\ \A s \in Sessions : CliId(s)' = CliId(s)
  BY HostStays DEF Shape, CliId
<1>2. ASSUME NEW t \in Sessions, NEW source, status[t] # "on", Begin(t, source)
      PROVE  RestHolds'
  <2>1. ASSUME NEW s \in rests
        PROVE  s # t /\ status'[s] = "on" /\ (s \in monitor' => s \in monitor)
               /\ disarm'.owner = disarm.owner /\ (s \in disarm.over => s \in disarm'.over)
    <3>1. s # t
      BY <1>2 DEF RestHolds
    <3>. QED
      BY <1>2, <3>1 DEF Begin, RestHolds, Shape
  <2>2. due' \subseteq due \cup {<<"monitor", t>>}
    BY <1>2, DecidesShape DEF Begin
  <2>3. ASSUME NEW s \in rests PROVE UnderWay(s)' \subseteq UnderWay(s)
    BY <1>2, <2>1, <2>2 DEF Begin, UnderWay
  <2>. QED
    BY <1>1, <1>2, <2>1, <2>3 DEF Begin, RestHolds, Latched
<1>3. ASSUME NEW b \in Beats, CliStarts(b) \/ CliEnds(b)
      PROVE  RestHolds'
  <2>1. status' = status /\ rests' = rests /\ disarm' = disarm /\ monitor' = monitor /\ resting' = resting
    BY <1>3 DEF CliStarts, CliEnds, files
  <2>2. ASSUME NEW s \in rests \ resting, host = "ids"
        PROVE  UnderWay(s)' \subseteq before'
    <3>1. UnderWay(s)' \subseteq UnderWay(s) /\ UnderWay(s) \subseteq before
      BY <1>3, <2>2 DEF CliStarts, CliEnds, UnderWay, RestHolds
    <3>2. before' = before \/ (before' = before \ {b} /\ b \notin UnderWay(s)')
      <4>1. CASE CliEnds(b)
        BY <4>1 DEF CliEnds, Done, UnderWay, Shape
      <4>2. CASE CliStarts(b)
        BY <4>2 DEF CliStarts, Done, UnderWay, Shape
      <4>. QED
        BY <1>3, <4>1, <4>2
    <3>. QED
      BY <3>1, <3>2
  <2>3. ASSUME NEW s \in rests \ resting, host # "ids"
        PROVE  Latched(s)' /\ posting' = {}
    <3>1. Latched(s) /\ posting = {} /\ CliId(b[2]) = CliId(s)
      BY <1>1, <2>3, SharedLatch DEF RestHolds, Beats
    <3>2. CliStarts(b) /\ Latched(b[2])
      BY <1>3, <3>1 DEF CliEnds, Latched
    <3>. QED
      BY <1>1, <2>3, <3>1, <3>2 DEF CliStarts, Latched, files
  <2>. QED
    BY <1>1, <2>1, <2>2, <2>3 DEF RestHolds
<1>4. ASSUME NEW t \in Sessions, RestDisarms(t)
      PROVE  RestHolds'
  <2>1. host = "ids" => CliId(t) = t
    BY Identities DEF Shape
  <2>. QED
    BY <1>1, <1>4, <2>1 DEF RestDisarms, RestHolds
<1>5. ASSUME NEW t \in Sessions, End(t) \/ Killed(t)
      PROVE  RestHolds'
  <2>1. Over(t)
    BY <1>5 DEF End, Killed
  <2>2. ASSUME NEW s \in rests'
        PROVE  s \in rests /\ s # t /\ status'[s] = "on" /\ (s \in monitor' => s \in monitor)
    BY <2>1 DEF Over, RestHolds, Shape, TypeOK
  <2>3. ASSUME NEW s \in rests', host = "ids"
        PROVE  disarm' = disarm
    <3>1. HookIds(t) = {t}
      BY <2>3, Identities DEF HookIds, Shape
    <3>. QED
      BY <1>5, <2>2, <2>3, <3>1 DEF End, Killed, Sweeps, RestHolds
  <2>. QED
    BY <1>1, <2>1, <2>2, <2>3 DEF Over, RestHolds, Latched, UnderWay, beats
<1>6. ASSUME NEW t \in Sessions, MonitorPoll(t) \/ Stop(t)
      PROVE  RestHolds'
  <2>1. due' \subseteq due \cup {<<"monitor", t>>, <<"hook", t>>}
    BY <1>6, DecidesShape DEF MonitorPoll, Stop
  <2>2. /\ status' = status /\ rests' = rests /\ resting' = resting /\ disarm' = disarm
        /\ monitor' = monitor /\ latch' = latch /\ before' = before /\ posting' = posting
    BY <1>6 DEF MonitorPoll, Stop
  <2>3. ASSUME NEW s \in rests, host = "ids" PROVE UnderWay(s)' \subseteq UnderWay(s)
    <3>1. s # t
      BY <1>6, <2>3, Disarmed
    <3>. QED
      BY <2>1, <2>2, <3>1 DEF UnderWay
  <2>. QED
    BY <1>1, <2>2, <2>3 DEF RestHolds, Latched
<1>7. ASSUME disarm' = disarm, latch' = latch, monitor' \subseteq monitor, status' = status,
             rests' = rests, resting' = resting, before' = before, due' = due, posting' = posting
      PROVE  RestHolds'
  BY <1>1, <1>7 DEF RestHolds, Latched, UnderWay
<1>8. ASSUME NEW t \in Sessions, MonitorQuits(t) \/ \E source \in Sources : StartAgain(t, source)
      PROVE  RestHolds'
  BY <1>7, <1>8 DEF MonitorQuits, StartAgain, files, beats
<1>9. CASE PassTime \/ UNCHANGED sessionVars
  BY <1>7, <1>9 DEF PassTime, sessionVars, files, beats
<1>10. ASSUME NEW t \in Sessions, RestLatches(t)
       PROVE  RestHolds'
  <2>1. /\ rests' \subseteq rests /\ resting' = resting \ {t} /\ due' = due /\ posting' = posting
        /\ status' = status /\ disarm' = disarm /\ monitor' = monitor
        /\ latch' = [session |-> CliId(t), stopped |-> TRUE]
    BY <1>10 DEF RestLatches, beats
  <2>2. ASSUME NEW s \in rests', s \notin resting', host = "ids"
        PROVE  UnderWay(s)' \subseteq before'
    BY <1>10, <2>1, <2>2 DEF RestLatches, RestHolds, UnderWay
  <2>3. ASSUME NEW s \in rests', s \notin resting', host # "ids"
        PROVE  Latched(s)' /\ posting' = {}
    <3>1. CliId(s) = CliId(t) /\ CliId(s)' = CliId(s)
      BY <1>1, <2>1, <2>3, SharedLatch
    <3>2. posting = {}
      BY <1>10, <2>1, <2>3 DEF RestLatches, RestHolds
    <3>. QED
      BY <2>1, <3>1, <3>2 DEF Latched
  <2>. QED
    BY <1>1, <2>1, <2>2, <2>3 DEF RestHolds
<1>. QED
  BY <1>2, <1>3, <1>4, <1>5, <1>6, <1>8, <1>9, <1>10 DEF Next, SessionStep, Start, Resume

(* A rest lasts. *)
THEOREM RestsAreQuiet == Spec => RestIsQuiet
<1>1. Init => RestHolds
  BY DEF Init, RestHolds
<1>2. Shape /\ RestHolds /\ [Next]_sessionVars
        => [\A s \in rests \ resting, by \in {"monitor", "hook"} :
              <<by, s>> \in posting \ posting' /\ quiet' < quiet => <<by, s>> \in before]_sessionVars
  BY DEF RestHolds, UnderWay
<1>. QED
  BY <1>1, <1>2, SessionInit, ShapeStep, RestStep, PTL DEF Spec, RestIsQuiet
=============================================================================
