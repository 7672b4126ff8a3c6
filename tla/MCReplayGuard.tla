---------------------------- MODULE MCReplayGuard -----------------------------
(* Small instances of ReplayGuard: tokens that expire at different instants,  *)
(* with a mutant of the code for every property.                              *)
EXTENDS ReplayGuard, TLC

CONSTANTS p1, p2, n1, n2

MCIssued == n1 :> 0 @@ n2 :> 0
MCExpires == n1 :> 1 @@ n2 :> 3

Symmetry == Permutations(Procs)

===============================================================================
