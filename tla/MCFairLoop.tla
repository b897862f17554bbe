----------------------------- MODULE MCFairLoop -----------------------------
(* Every input of FairLoop up to its bounds. *)
EXTENDS FairLoop
=============================================================================
