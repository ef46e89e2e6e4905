------------------------ MODULE MCEmailVerification ------------------------
(* EmailVerification on small instances, for TLC. *)
EXTENDS EmailVerification, TLC

Symmetry == Permutations(Request) \cup Permutations(Email)
=============================================================================
