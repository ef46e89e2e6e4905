--------------------------- MODULE MCRefreshTokens ---------------------------
(* RefreshTokens on a few tokens, for TLC. *)
EXTENDS RefreshTokens, TLC

Symmetry == Permutations(Txn) \cup Permutations(Token) \cup Permutations(Family)
=============================================================================
