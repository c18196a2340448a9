----------------------------- MODULE MCOpenCache -----------------------------
(* Instances of OpenCache for TLC. *)
EXTENDS OpenCache, TLC
=============================================================================
