---------------------------- MODULE SessionLife ----------------------------
(***************************************************************************)
(* Who keeps a member's presence alive, and who is told to stop: the       *)
(* sessions of one project share a state directory, and a monitor          *)
(* (monitors/heartbeat.js), the Stop hook that stands in for one           *)
(* (hooks/stop.js), the session hooks and the CLI meet in its sentinel     *)
(* files.  Ages of files saturate at the bound they are compared with.     *)
(***************************************************************************)
EXTENDS Naturals, FiniteSets

CONSTANTS
  Sessions,
  Monitored,    \* the sessions whose host runs a monitor
  Children,     \* the sessions with CLAUDE_CODE_CHILD_SESSION=1
  Hosts,        \* what hosts export: "ids", a "pinned" id, or "none"
  Sources,      \* the sources a running session is started with again
  Keep,         \* the keepalive, in steps of the clock
  Fresh,        \* MONITOR_SENTINEL_MAX_AGE_MS, in steps of the clock
  MaxBeats,     \* bound: beats under way at once
  Pin, Cli      \* the pinned id; the CLI's id where the host exports none

ASSUME SessionAssumption ==
  /\ Monitored \subseteq Sessions /\ Children \subseteq Sessions
  /\ Hosts \subseteq {"ids", "pinned", "none"}
  /\ Sources \subseteq {"clear", "compact"}
  /\ {Keep, Fresh, MaxBeats} \subseteq Nat \ {0}
  /\ {Pin, Cli} \cap Sessions = {} /\ Pin # Cli
  /\ "nobody" \notin Sessions \cup {Pin, Cli}

VARIABLES
  host,
  status,       \* "new", "on" or "over"
  role,         \* session_roles: "none", "parent" or "child"
  monitor,      \* the sessions whose monitor runs
  alive,        \* age of monitor.alive
  disarm,       \* monitor.disarm: its owner, and the monitors older than it
  latch,        \* session.json: whose it is and whether posting stopped
  mark,         \* age of stop.beat
  lastBeat,     \* age of each monitor's last beat
  due,          \* the beats decided on whose CLI has not read its latch yet
  posting,      \* the beats whose CLI has passed its latch and waits for an answer
  resting,      \* the sessions whose rest has written the sentinel only
  quiet,        \* time since the member's presence was posted
  parents,      \* history: the sessions once recorded as a parent
  stopped,      \* history: the sessions that rested or were refused
  rests,        \* history: the session whose rest began last
  before        \* history: the beats under way when it rested

files == <<alive, disarm, latch, mark>>
beats == <<due, posting>>
sessionVars == <<host, status, role, monitor, files, lastBeat, beats, resting, quiet,
                 parents, stopped, rests, before>>

Ids == Sessions \cup {Pin, Cli}
Beats == {"monitor", "hook"} \X Sessions
NoOwner == "nobody"
NoDisarm == [owner |-> NoOwner, over |-> {}]
Stale == Fresh + 1

Init ==
  /\ host \in Hosts
  /\ status = [s \in Sessions |-> "new"]
  /\ role = [s \in Sessions |-> "none"]
  /\ monitor = {}
  /\ alive = Stale
  /\ disarm = NoDisarm
  /\ latch = [session |-> NoOwner, stopped |-> FALSE]
  /\ mark = Keep
  /\ lastBeat = [s \in Sessions |-> Keep]
  /\ due = {} /\ posting = {}
  /\ resting = {}
  /\ quiet = Keep
  /\ parents = {}
  /\ stopped = {}
  /\ rests = {}
  /\ before = {}

-----------------------------------------------------------------------------
\* sessionIdentities: what the host exports, and the payload's id for a hook;
\* the CLI's constant is admitted by neither.
Exported(s) == CASE host = "ids" -> {s} [] host = "pinned" -> {Pin} [] host = "none" -> {}
HookIds(s) == {s} \cup Exported(s)
CliId(s) == CASE host = "ids" -> s [] host = "pinned" -> Pin [] host = "none" -> Cli

\* Deviation: a record is obeyed because it is there.
OwnsRecord_Unscoped(owner, ids) == owner # NoOwner

OwnsRecord(owner, ids) == owner \in ids

MonitorAlive == alive <= Fresh

\* Deviation: the start time decides only where the owner does not.
DisarmedHere_OwnerFirst(s) ==
  /\ disarm # NoDisarm
  /\ IF Exported(s) # {} THEN disarm.owner \in Exported(s) ELSE s \in disarm.over

\* disarmedHere: written in this monitor's lifetime and, where both names are
\* known, by its session.
DisarmedHere(s) ==
  /\ disarm # NoDisarm
  /\ s \in disarm.over
  /\ Exported(s) # {} => disarm.owner \in Exported(s)

\* detectChildMode: a child by its environment, or for want of a marker.
Verdict(s, source) ==
  IF s \in Children THEN "child"
  ELSE IF MonitorAlive \/ source \in {"startup", "resume", "clear"} THEN "parent"
  ELSE "child"

\* isChild, as the hooks after SessionStart decide it.
IsChild(s) ==
  IF s \in Children THEN TRUE
  ELSE IF role[s] # "none" THEN role[s] = "child"
  ELSE Verdict(s, "none") = "child"

-----------------------------------------------------------------------------
\* posting_stopped, as the CLI of s reads it.
Latched(s) == latch.session = CliId(s) /\ latch.stopped

UnderWay(s) == {b \in due \cup posting : b[2] = s}
Room == Cardinality(due \cup posting) < MaxBeats

\* A beat is over; the monitor that awaited it dates its last beat by the end.
Done(b) ==
  /\ before' = before \ {b}
  /\ lastBeat' = IF b[1] = "monitor" THEN [lastBeat EXCEPT ![b[2]] = 0] ELSE lastBeat

\* The CLI of a beat starts: it reads session.json once, and is refused without
\* a call when its own session's latch is set.
CliStarts(b) ==
  /\ b \in due
  /\ due' = due \ {b}
  /\ IF Latched(b[2]) THEN posting' = posting /\ Done(b)
     ELSE posting' = posting \cup {b} /\ UNCHANGED <<lastBeat, before>>
  /\ UNCHANGED <<host, status, role, monitor, files, resting, quiet, parents, stopped, rests>>

\* What the CLI of s makes of its answer (reportFailure): nothing, the failure
\* counted, or the refusal latched; each of the last two saves the session.json
\* it read before the call, whatever has been written since.
Reports(s) ==
  \/ UNCHANGED <<latch, stopped>>
  \/ latch' = [session |-> CliId(s), stopped |-> FALSE] /\ UNCHANGED stopped
  \/ latch' = [session |-> CliId(s), stopped |-> TRUE] /\ stopped' = stopped \cup {s}

\* The presence is posted or not, and the answer, a failure or the time limit
\* of the call (there may be no time for it at all) ends the beat.
CliEnds(b) ==
  /\ b \in posting
  /\ posting' = posting \ {b}
  /\ Done(b)
  /\ quiet' \in {quiet, 0}
  /\ Reports(b[2])
  /\ UNCHANGED <<host, status, role, monitor, alive, disarm, mark, due, resting, parents, rests>>

\* A monitor decides on a beat when it is due, unless it awaits one or its
\* session is latched; the CLI is spawned at once.
Decides(s, age) ==
  due' = IF /\ <<"monitor", s>> \notin due \cup posting
            /\ Room /\ age >= Keep
            /\ ~(OwnsRecord(latch.session, Exported(s)) /\ latch.stopped)
         THEN due \cup {<<"monitor", s>>} ELSE due

\* SessionStart records the role; the host starts the session's monitor, which
\* exits at once in a child, and else touches its sentinel and polls.
Begin(s, source) ==
  /\ role' = [role EXCEPT ![s] = Verdict(s, source)]
  /\ parents' = IF Verdict(s, source) = "parent" THEN parents \cup {s} ELSE parents
  /\ status' = [status EXCEPT ![s] = "on"]
  /\ IF s \in Monitored \ Children
     THEN /\ monitor' = monitor \cup {s} /\ alive' = 0
          /\ lastBeat' = [lastBeat EXCEPT ![s] = Keep]
          /\ disarm' = [disarm EXCEPT !.over = @ \ {s}]
          /\ Decides(s, Keep)
     ELSE UNCHANGED <<monitor, alive, lastBeat, disarm, due>>
  /\ UNCHANGED <<host, latch, mark, posting, resting, quiet, stopped, rests, before>>

Start(s) == status[s] = "new" /\ Begin(s, "startup")

\* ... again once the calls it left behind have ended.
Resume(s) == status[s] = "over" /\ UnderWay(s) = {} /\ Begin(s, "resume")

\* SessionStart within a running session: the role is recorded anew.
StartAgain(s, source) ==
  /\ status[s] = "on"
  /\ role' = [role EXCEPT ![s] = Verdict(s, source)]
  /\ UNCHANGED <<host, status, monitor, files, lastBeat, beats, resting, quiet, parents, stopped,
                 rests, before>>

\* One poll of a monitor: disarmed it removes the sentinel and quits, leaving a
\* call it awaits behind; else it touches the sentinel and may decide on a beat.
MonitorQuits(s) ==
  /\ s \in monitor /\ DisarmedHere(s)
  /\ monitor' = monitor \ {s} /\ alive' = Stale
  /\ UNCHANGED <<host, status, role, disarm, latch, mark, lastBeat, beats, resting, quiet, parents,
                 stopped, rests, before>>

MonitorPoll(s) ==
  /\ s \in monitor /\ ~DisarmedHere(s)
  /\ alive' = 0
  /\ Decides(s, lastBeat[s])
  /\ UNCHANGED <<host, status, role, monitor, disarm, latch, mark, lastBeat, posting, resting, quiet,
                 parents, stopped, rests, before>>

\* The gates of the Stop hook; the last stamps the cadence mark before the beat.
Stop(s) ==
  /\ status[s] = "on" /\ <<"hook", s>> \notin due \cup posting /\ Room
  /\ ~MonitorAlive
  /\ ~OwnsRecord(disarm.owner, HookIds(s))
  /\ ~IsChild(s)
  /\ ~(OwnsRecord(latch.session, HookIds(s)) /\ latch.stopped)
  /\ mark >= Keep
  /\ mark' = 0
  /\ due' = due \cup {<<"hook", s>>}
  /\ UNCHANGED <<host, status, role, monitor, alive, disarm, latch, lastBeat, posting, resting, quiet,
                 parents, stopped, rests, before>>

\* rest writes the sentinel, then the latch; both carry the CLI's session.
RestDisarms(s) ==
  /\ status[s] = "on" /\ s \notin Children \cup resting
  /\ disarm' = [owner |-> CliId(s), over |-> monitor]
  /\ stopped' = stopped \cup {s}
  /\ resting' = resting \cup {s}
  /\ rests' = {s}
  /\ before' = {}
  /\ UNCHANGED <<host, status, role, monitor, alive, latch, mark, lastBeat, beats, quiet, parents>>

\* Where sessions share an id, a call that has passed the latch may take it down
\* again with the copy it saves: such a rest is not counted.
RestLatches(s) ==
  /\ s \in resting
  /\ resting' = resting \ {s}
  /\ latch' = [session |-> CliId(s), stopped |-> TRUE]
  /\ rests' = IF host = "ids" \/ posting = {} THEN rests ELSE rests \ {s}
  /\ before' = IF s \in rests /\ host = "ids" THEN due \cup posting ELSE before
  /\ UNCHANGED <<host, status, role, monitor, alive, disarm, mark, lastBeat, beats, quiet, parents, stopped>>

\* Deviation: a child's end sweeps the sentinel too.
Sweeps_Child(s) == disarm.owner \in HookIds(s) \cup {NoOwner} \cup Sessions

\* SessionEnd's sweep: only its own disarm, and never by a child.
Sweeps(s) == ~IsChild(s) /\ disarm.owner \in HookIds(s)

Over(s) ==
  /\ status[s] = "on"
  /\ status' = [status EXCEPT ![s] = "over"]
  /\ monitor' = monitor \ {s}
  /\ resting' = resting \ {s}
  /\ rests' = rests \ {s}
  /\ UNCHANGED <<host, role, latch, mark, lastBeat, beats, quiet, parents, stopped, before>>

End(s) ==
  /\ Over(s)
  /\ alive' = Stale
  /\ disarm' = IF Sweeps(s) THEN NoDisarm ELSE disarm

\* The session ends without its hook, and its monitor and a rest it had begun
\* are killed with it; a call on its way stays.
Killed(s) == Over(s) /\ UNCHANGED <<alive, disarm>>

Older(age, bound) == IF age < bound THEN age + 1 ELSE bound

PassTime ==
  /\ alive' = Older(alive, Stale)
  /\ mark' = Older(mark, Keep)
  /\ quiet' = Older(quiet, Keep)
  /\ lastBeat' = [s \in Sessions |-> Older(lastBeat[s], Keep)]
  /\ UNCHANGED <<host, status, role, monitor, disarm, latch, beats, resting, parents, stopped,
                 rests, before>>

SessionStep(s) ==
  \/ Start(s) \/ Resume(s) \/ (\E source \in Sources : StartAgain(s, source))
  \/ MonitorQuits(s) \/ MonitorPoll(s)
  \/ Stop(s) \/ RestDisarms(s) \/ RestLatches(s)
  \/ End(s) \/ Killed(s)

Next ==
  \/ PassTime
  \/ \E s \in Sessions : SessionStep(s)
  \/ \E b \in Beats : CliStarts(b) \/ CliEnds(b)

\* Some parent's turn ends again and again, some monitor polls, some CLI goes on
\* (CLI_TIMEOUT_MS), and a transport asked again and again answers once.
Fairness ==
  /\ WF_sessionVars(PassTime)
  /\ WF_sessionVars(\E s \in Sessions : MonitorPoll(s))
  /\ WF_sessionVars(\E s \in Sessions : Stop(s))
  /\ WF_sessionVars(\E b \in Beats : CliStarts(b) \/ CliEnds(b))
  /\ SF_sessionVars(\E b \in Beats : CliEnds(b) /\ quiet' = 0)

Spec == Init /\ [][Next]_sessionVars /\ Fairness

-----------------------------------------------------------------------------
\* The sentinels keep their shape, and only a session once recorded as a parent
\* beats, from its monitor or its Stop hook.
TypeOK ==
  /\ status \in [Sessions -> {"new", "on", "over"}]
  /\ role \in [Sessions -> {"none", "parent", "child"}]
  /\ monitor \subseteq {s \in Monitored \ Children : status[s] = "on"}
  /\ disarm.owner \in Ids \cup {NoOwner}
  /\ due \cup posting \subseteq {"monitor", "hook"} \X parents
  /\ alive \in 0..Stale /\ mark \in 0..Keep /\ quiet \in 0..Keep

\* After `rest`, and until it ends or another session rests, a session's
\* presence is not posted again (PROTOCOL 8): not by its monitor, not by its Stop
\* hook, not by way of another session's failures or end - only, on a host that
\* names its sessions, by a beat that was under way when it rested.
RestIsQuiet ==
  [][\A s \in rests \ resting, by \in {"monitor", "hook"} :
       <<by, s>> \in posting \ posting' /\ quiet' < quiet => <<by, s>> \in before]_sessionVars

\* No session is silenced by another's rest or refusal, ended or running: one
\* that neither rested nor was refused finds no record that stops it, and no
\* monitor, whatever the host exports, obeys a disarm written before it started
\* (sessionIdentities, disarmedHere).
NoInheritedSilence ==
  /\ \A s \in Sessions \ stopped : host = "ids" =>
       /\ ~OwnsRecord(disarm.owner, HookIds(s))
       /\ ~(OwnsRecord(latch.session, HookIds(s)) /\ latch.stopped) /\ ~Latched(s)
  /\ \A s \in monitor : DisarmedHere(s) => s \in disarm.over

\* A running session that was a parent when it began and never rested or was
\* refused, with no refused session's monitor holding the clock.
Eligible(s) == host = "ids" /\ status[s] = "on" /\ s \in parents \ stopped /\ monitor \cap stopped = {}

\* While such sessions run (a child never is one), with monitors or without, and
\* be it one after another, the member's presence is posted again and again
\* (PROTOCOL 8).
KeepsBeating == (\E s \in Sessions : Eligible(s)) ~> (quiet = 0 \/ \A s \in Sessions : ~Eligible(s))
=============================================================================
