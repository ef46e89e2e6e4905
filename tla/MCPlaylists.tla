----------------------------- MODULE MCPlaylists -----------------------------
(* Playlists on small instances, for TLC. *)
EXTENDS Playlists, TLC

Symmetry == Permutations(Request) \cup Permutations(Playlist) \cup Permutations(Song)

\* Bound: no request acts on two playlists, so it is enough that one is long at a time.
OneLong == \A p, q \in Playlist :
    p # q => Cardinality(SongsIn(p)) <= 1 \/ Cardinality(SongsIn(q)) <= 1
=============================================================================
