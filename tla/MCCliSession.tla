---------------------------- MODULE MCCliSession ----------------------------
(* CliSession for TLC: identities, fingers and pairing data are alike. *)
EXTENDS CliSession

Alike == Permutations(Guids) \cup Permutations(Fingers) \cup Permutations(Values)
=============================================================================
