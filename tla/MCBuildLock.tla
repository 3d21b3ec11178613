----------------------------- MODULE MCBuildLock -----------------------------
(* Two or three builders of one environment, one or two of which fail.     *)
EXTENDS BuildLockProofs
=============================================================================
