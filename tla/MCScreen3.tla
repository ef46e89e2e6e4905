----------------------------- MODULE MCScreen3 -----------------------------
(* Screen3 on small instances, for TLC. *)
EXTENDS Screen3, TLC

Symmetry == Permutations(Request) \cup Permutations(Playlist) \cup Permutations(Song)

\* Bound: a user who has playlists does not play, one who plays has none.
PlaysOrEdits == current = None \/ \A p \in Playlist : ~Exists(p)
=============================================================================
