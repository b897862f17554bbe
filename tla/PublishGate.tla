---------------------------- MODULE PublishGate ----------------------------
(***************************************************************************)
(* What a member may publish to git: the cached verdict on the repository  *)
(* (lib/repo.js), the typed opt-in to the state branch with its prompts    *)
(* (`handshake pair`), the gate every batch passes (lib/state-branch.js),  *)
(* the guarded file with its .gitignore (lib/workspace-files.js), and the  *)
(* rotation demanded when key material is tracked where it should not be.  *)
(* GitHub, `gh` and the human who commits are external.                    *)
(***************************************************************************)
EXTENDS Naturals

CONSTANTS
  Hubs,         \* GitHub remotes: their visibility can be probed
  Labs,         \* other remotes: it cannot
  NoRemote,
  TTL,          \* GUARD_TTL_MS, in steps of the clock
  BeatTicks     \* STATE_BEAT_MS: how long a batch may work past the gate

ASSUME GateAssumption ==
  /\ Hubs \cap Labs = {} /\ NoRemote \notin Hubs \cup Labs
  /\ TTL \in Nat \ {0} /\ BeatTicks \in Nat

VARIABLES
  remote,       \* where `origin` points
  publicFor,    \* how long each GitHub repository has been public; 0: private
  repoGuard,    \* repo_guard: the verdict, of which remote, its age, the demand
  stopped,      \* posting_stopped of the session
  optIn,        \* state-branch.json
  prompt,       \* the `pair` that waits for its human
  batch,        \* the batch past the gate: what let it by, what was typed
  file,         \* secret.json: absent, or marked committed or not
  ignore,       \* the managed block of .gitignore: "none", "hides", "shows"
  tracked,      \* secret.json is in git's index
  writing,      \* a writeRepoLayer has written the file, not yet the block
  torn,         \* history: the last writer was killed there
  typed,        \* history: the confirmation typed for the last grant
  owed          \* history: what a guard that met a leak still owes

leakVars == <<file, ignore, tracked, writing, torn>>
pushVars == <<optIn, prompt, batch, typed>>
gateVars == <<remote, publicFor, repoGuard, stopped, owed, leakVars, pushVars>>

Remotes == Hubs \cup Labs \cup {NoRemote}
Arms == {"private", "public", "unprovable"}
Long == TTL + BeatTicks + 1
Off == [enabled |-> FALSE, override |-> FALSE, unprovable |-> FALSE]
NoPrompt == [at |-> "none", arm |-> "private"]
NoBatch == [on |-> FALSE, arm |-> "private", of |-> NoRemote, word |-> "private", left |-> 0]

Init ==
  /\ remote \in Remotes
  /\ publicFor \in [Hubs -> {0, Long}]
  /\ repoGuard = [reason |-> "unasked", of |-> NoRemote, age |-> TTL, demanded |-> FALSE]
  /\ stopped = FALSE
  /\ optIn = Off
  /\ prompt = NoPrompt
  /\ batch = NoBatch
  /\ file = "absent" /\ ignore = "none" /\ tracked = FALSE
  /\ writing = FALSE /\ torn = FALSE
  /\ typed = "private"
  /\ owed = {}

-----------------------------------------------------------------------------
(***************************************************************************)
(* The verdict.  probeVisibility is private on one path only; what gh      *)
(* cannot answer is "unread".                                              *)
(***************************************************************************)
Probe == CASE remote = NoRemote -> {"no_remote"}
           [] remote \in Labs -> {"unprovable"}
           [] OTHER -> {IF publicFor[remote] = 0 THEN "private" ELSE "public", "unread"}

\* Deviation: the verdict replaces the record, the standing demand with it.
Probed_Replaced ==
  {[reason |-> p, of |-> remote, age |-> 0, demanded |-> FALSE] : p \in Probe}

\* Deviation: a verdict is served however old it is.
Fresh_Forever == repoGuard.reason # "unasked"

\* guard: the record after it ran; every rewrite keeps what it does not set.
Fresh == repoGuard.reason # "unasked" /\ repoGuard.age < TTL
Probed == {[repoGuard EXCEPT !.reason = p, !.of = remote, !.age = 0] : p \in Probe}
Guarded(force) == IF Fresh /\ ~force THEN {repoGuard} ELSE Probed

\* Deviation: the stored verdict is reported as it stands.
Effective_Stale(g) == g.reason

\* cachedVerdict: a private verdict older than its time to live is none.
Effective(g) == IF g.reason = "private" /\ g.age >= TTL THEN "unread" ELSE g.reason

\* History only: the guarded file is tracked in a repository that has not been
\* private for as long as a verdict lives, and not behind another's verdict.
Exposed ==
  /\ tracked
  /\ remote \in Hubs => publicFor[remote] > TTL
  /\ repoGuard.of = remote

\* Deviation: only a verdict of public is a leak, one that could not be read is not.
HardFail_Proven(g) == g.reason = "public" /\ tracked

\* applyGuard: the demand and the stop; tracked alone is what it is asked about.
HardFail(g) == g.reason # "private" /\ tracked
Applied(g) ==
  /\ repoGuard' = [g EXCEPT !.demanded = @ \/ HardFail(g)]
  /\ stopped' = (stopped \/ HardFail(g))
  /\ owed' = IF Exposed THEN {"demand", "stop"} ELSE owed

-----------------------------------------------------------------------------
(***************************************************************************)
(* The world: clocks, GitHub, the human's own git commands.                *)
(***************************************************************************)
Tick ==
  /\ batch.on => batch.left > 0
  /\ publicFor' = [r \in Hubs |->
       IF publicFor[r] \in 1..(Long - 1) THEN publicFor[r] + 1 ELSE publicFor[r]]
  /\ repoGuard' = [repoGuard EXCEPT !.age = IF @ < TTL THEN @ + 1 ELSE @]
  /\ batch' = IF batch.on THEN [batch EXCEPT !.left = @ - 1] ELSE batch
  /\ UNCHANGED <<owed, remote, stopped, optIn, prompt, typed, leakVars>>

SetVisibility(r) ==
  /\ publicFor' = [publicFor EXCEPT ![r] = IF @ = 0 THEN 1 ELSE 0]
  /\ UNCHANGED <<owed, remote, repoGuard, stopped, leakVars, pushVars>>

SetRemote(r) ==
  /\ r # remote
  /\ remote' = r
  /\ UNCHANGED <<owed, publicFor, repoGuard, stopped, leakVars, pushVars>>

\* `git add -A` and a commit: .gitignore does not untrack what is tracked.
Commit ==
  /\ tracked' = (file # "absent" /\ (tracked \/ ignore # "hides"))
  /\ UNCHANGED <<owed, remote, publicFor, repoGuard, stopped, file, ignore, writing, torn, pushVars>>

NewSession ==
  /\ stopped' = FALSE
  /\ owed' = owed \ {"stop"}
  /\ UNCHANGED <<remote, publicFor, repoGuard, leakVars, pushVars>>

-----------------------------------------------------------------------------
(***************************************************************************)
(* The guard's commands: doctor and join only look, sync and guard act.    *)
(***************************************************************************)
Look(force) ==
  /\ repoGuard' \in Guarded(force)
  /\ UNCHANGED <<owed, remote, publicFor, stopped, leakVars, pushVars>>

EnforceRepoGuard ==
  /\ file # "absent"
  /\ \E g \in Guarded(FALSE) : Applied(g)
  /\ UNCHANGED <<remote, publicFor, leakVars, pushVars>>

CmdGuard ==
  /\ \E g \in Guarded(TRUE) : Applied(g)
  /\ UNCHANGED <<remote, publicFor, leakVars, pushVars>>

AckRotated ==
  /\ repoGuard' = [repoGuard EXCEPT !.demanded = FALSE]
  /\ owed' = owed \ {"demand"}
  /\ UNCHANGED <<remote, publicFor, stopped, leakVars, pushVars>>

-----------------------------------------------------------------------------
(***************************************************************************)
(* The repo layer: writeRepoLayer writes the guarded file, then the        *)
(* managed block of .gitignore, each atomically.  The layer is there from  *)
(* the first write on; its public record carries no key.                   *)
(***************************************************************************)
WriteGuardedFile ==
  /\ ~writing
  /\ repoGuard' \in Guarded(TRUE)
  /\ file' = IF repoGuard'.reason = "private" THEN "committed" ELSE "withheld"
  /\ writing' = TRUE
  /\ UNCHANGED <<owed, remote, publicFor, stopped, ignore, tracked, torn, pushVars>>

\* Deviation: a managed block that is there is left as it is.
Block_Once == IF ignore # "none" THEN ignore ELSE IF file = "committed" THEN "shows" ELSE "hides"

Block == IF file = "committed" THEN "shows" ELSE "hides"

EnsureGitignore ==
  /\ writing
  /\ ignore' = Block
  /\ writing' = FALSE /\ torn' = FALSE
  /\ UNCHANGED <<owed, remote, publicFor, repoGuard, stopped, file, tracked, pushVars>>

KillWriter ==
  /\ writing
  /\ writing' = FALSE /\ torn' = TRUE
  /\ UNCHANGED <<owed, remote, publicFor, repoGuard, stopped, file, ignore, tracked, pushVars>>

\* Deviation: scrubbing forgets the guard's record.
Scrubbed_Forgets == [reason |-> "unasked", of |-> NoRemote, age |-> TTL, demanded |-> FALSE]

\* cmdScrub: the directory goes; repo_guard, and what git tracks, stay.
Scrubbed == repoGuard

Scrub ==
  /\ ~writing
  /\ file # "absent"
  /\ file' = "absent" /\ ignore' = "none" /\ torn' = FALSE
  /\ repoGuard' = Scrubbed
  /\ UNCHANGED <<owed, remote, publicFor, stopped, tracked, writing, pushVars>>

-----------------------------------------------------------------------------
(***************************************************************************)
(* The opt-in.  The prompts of `pair` wait for a human while the rest of   *)
(* the world goes on; preflight may refuse between them.                   *)
(***************************************************************************)
\* visibilityArm: no_remote, where the verdict is older than the remote, is
\* the arm of what cannot be proved.
ArmOf(reason) == IF reason \in {"private", "public"} THEN reason ELSE "unprovable"

PairBegin ==
  /\ prompt.at = "none"
  /\ \E g \in Guarded(FALSE) :
       /\ repoGuard' = g
       /\ prompt' = IF remote = NoRemote \/ g.reason = "unread" THEN NoPrompt
                    ELSE [at |-> IF g.reason = "private" THEN "grant" ELSE "ask",
                          arm |-> ArmOf(g.reason)]
  /\ UNCHANGED <<owed, remote, publicFor, stopped, optIn, batch, typed, leakVars>>

PairAnswered ==
  /\ prompt.at = "ask"
  /\ prompt' = [prompt EXCEPT !.at = "grant"]
  /\ UNCHANGED <<owed, remote, publicFor, repoGuard, stopped, optIn, batch, typed, leakVars>>

PairRefused ==
  /\ prompt.at # "none"
  /\ prompt' = NoPrompt
  /\ UNCHANGED <<owed, remote, publicFor, repoGuard, stopped, optIn, batch, typed, leakVars>>

\* Deviation: the grant is merged into the record that is there.
Granted_Merged(arm) ==
  [enabled |-> TRUE, override |-> optIn.override \/ arm = "public",
   unprovable |-> optIn.unprovable \/ arm = "unprovable"]

\* writeOptIn writes the whole record.
Granted(arm) ==
  [enabled |-> TRUE, override |-> arm = "public", unprovable |-> arm = "unprovable"]

PairGranted ==
  /\ prompt.at = "grant"
  /\ optIn' = Granted(prompt.arm)
  /\ typed' = prompt.arm
  /\ prompt' = NoPrompt
  /\ UNCHANGED <<owed, remote, publicFor, repoGuard, stopped, batch, leakVars>>

Revoke ==
  /\ optIn' = Off
  /\ typed' = "private"
  /\ UNCHANGED <<owed, remote, publicFor, repoGuard, stopped, prompt, batch, leakVars>>

\* Deviation: one confirmation opens both arms.
Admits_Either(reason) ==
  CASE reason = "private" -> TRUE
    [] reason \in {"unprovable", "no_remote", "public"} -> optIn.unprovable \/ optIn.override
    [] OTHER -> FALSE

-----------------------------------------------------------------------------
(***************************************************************************)
(* The batch: stateBatch takes the verdict, re-probing a stale one when    *)
(* its time allows; the gate decides on it; the batch lock admits one.     *)
(***************************************************************************)
Admits(reason) ==
  CASE reason = "private" -> TRUE
    [] reason \in {"unprovable", "no_remote"} -> optIn.unprovable
    [] reason = "public" -> optIn.override
    [] OTHER -> FALSE

StateBatch(roomy) ==
  /\ optIn.enabled
  /\ ~batch.on
  /\ \E g \in IF ~Fresh /\ roomy THEN Probed ELSE {repoGuard} :
       /\ repoGuard' = g
       /\ batch' = IF remote # NoRemote /\ Admits(Effective(g))
                   THEN [on |-> TRUE, arm |-> ArmOf(Effective(g)), of |-> g.of, word |-> typed,
                         left |-> BeatTicks]
                   ELSE NoBatch
  /\ UNCHANGED <<owed, remote, publicFor, stopped, optIn, prompt, typed, leakVars>>

\* The push, a refusal of it, the deadline or a kill end the batch.
EndBatch ==
  /\ batch.on
  /\ batch' = NoBatch
  /\ UNCHANGED <<owed, remote, publicFor, repoGuard, stopped, optIn, prompt, typed, leakVars>>

Next ==
  \/ Tick \/ Commit \/ NewSession
  \/ \E r \in Hubs : SetVisibility(r)
  \/ \E r \in Remotes : SetRemote(r)
  \/ \E force \in BOOLEAN : Look(force)
  \/ EnforceRepoGuard \/ CmdGuard \/ AckRotated
  \/ WriteGuardedFile \/ EnsureGitignore \/ KillWriter \/ Scrub
  \/ PairBegin \/ PairAnswered \/ PairRefused \/ PairGranted \/ Revoke
  \/ \E roomy \in BOOLEAN : StateBatch(roomy)
  \/ EndBatch

Spec == Init /\ [][Next]_gateVars

-----------------------------------------------------------------------------
\* The records keep their shape, and ages stay below what they are compared with.
TypeOK ==
  /\ remote \in Remotes
  /\ publicFor \in [Hubs -> 0..Long]
  /\ repoGuard \in [reason : {"unasked", "private", "public", "unprovable", "no_remote", "unread"},
                    of : Remotes, age : 0..TTL, demanded : BOOLEAN]
  /\ optIn \in [enabled : BOOLEAN, override : BOOLEAN, unprovable : BOOLEAN]
  /\ prompt \in [at : {"none", "ask", "grant"}, arm : Arms]
  /\ batch \in [on : BOOLEAN, arm : Arms, of : Remotes, word : Arms, left : 0..BeatTicks]
  /\ file \in {"absent", "committed", "withheld"}
  /\ ignore \in {"none", "hides", "shows"}
  /\ {stopped, tracked, writing, torn} \subseteq BOOLEAN
  /\ typed \in Arms
  /\ owed \subseteq {"demand", "stop"}

\* A batch that may be pushed was let by a verdict whose repository turned
\* public no longer ago than the verdict lives and a batch works, or by the
\* confirmation that fits it, if it was the one typed for the last grant
\* (lib/state-branch.js gate, lib/repo.js cachedVerdict; prompts left open,
\* revocations and changes of visibility in any order).
PushesWhereProven ==
  batch.on =>
    \/ batch.arm = "private" /\ batch.of \in Hubs /\ publicFor[batch.of] =< TTL + BeatTicks
    \/ batch.arm # "private" /\ batch.arm = batch.word

\* When a sync or a guard command has run on key material tracked in a
\* repository that is no longer private for as long as a verdict lives,
\* rotation is demanded until it is acknowledged and posting is stopped until
\* the session ends (lib/repo.js applyGuard; a clean verdict, a scrub or a
\* restore in between settles nothing).
LeakDemandsRotation ==
  /\ "demand" \in owed => repoGuard.demanded
  /\ "stop" \in owed => stopped

\* A commit takes up the guarded file only if the file says it may be
\* committed, or its writer has not come to .gitignore, or was killed before
\* (lib/workspace-files.js writeGuardedPart over init, restore and scrub).
CommittedAsMarked ==
  [][~tracked /\ tracked' => file = "committed" \/ writing \/ torn]_gateVars
=============================================================================
