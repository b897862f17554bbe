--------------------------- MODULE MCPublishGate ---------------------------
(***************************************************************************)
(* Bound: the guarded file and the opt-in meet in repo_guard only, so a    *)
(* behaviour has one of them at a time.                                    *)
(***************************************************************************)
EXTENDS PublishGate

OneAtATime ==
  \/ file = "absent" /\ ~tracked /\ ~repoGuard.demanded
  \/ optIn = Off /\ prompt = NoPrompt /\ batch = NoBatch
=============================================================================
