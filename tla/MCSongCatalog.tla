---------------------------- MODULE MCSongCatalog ----------------------------
(* SongCatalog on small instances, for TLC. *)
EXTENDS SongCatalog, TLC

Symmetry == Permutations(Song) \cup Permutations(Track)
=============================================================================
