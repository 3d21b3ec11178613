----------------------------- MODULE MCTerminate -----------------------------
(* Three callers of one pod, each free to terminate, reconcile and be      *)
(* cancelled; a verification has time for more than one listing.           *)
EXTENDS Terminate
=============================================================================
