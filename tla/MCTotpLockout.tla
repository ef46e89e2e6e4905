---------------------------- MODULE MCTotpLockout ----------------------------
(* TotpLockout on small instances, for TLC. *)
EXTENDS TotpLockout, TLC

Symmetry == Permutations(Request) \cup Permutations(Secret)
=============================================================================
