---------------------------- MODULE MCVoicePairing ----------------------------
(* Two applications, two pairing ids and two claims: an application may pair   *)
(* again after its first request expired, and two claims may meet on one id.   *)
EXTENDS VoicePairing, TLC

CONSTANTS a1, a2, i1, i2, c1, c2

Symmetry == Permutations(Apps) \union Permutations(Ids) \union Permutations(Claims)

===============================================================================
