------------------------------ MODULE MCLaunch ------------------------------
(* Model-checking instances of Launch: two candidates, and either two RAM  *)
(* tiers with two volumes or one of each with room for several retries.    *)
(* The proof module is extended so that TLC also checks the inductive      *)
(* invariant the proofs use.                                               *)
EXTENDS LaunchProofs

MCSizes == [s \in Storages |-> IF s = 1 THEN 1 ELSE 3]
MCDurations == {0, 2}
=============================================================================
