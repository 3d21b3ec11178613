-------------------------- MODULE MCPrebuiltVolume --------------------------
(* Two builds, an environment from before or none, an invalidation and a   *)
(* check, all at once.                                                     *)
EXTENDS PrebuiltVolume, TLC

Interchangeable == Permutations(Builders)

(* Bound: once two builders have been at work at once, no property says    *)
(* anything of the volume any more.                                        *)
NotCrowded == ~crowded
=============================================================================
