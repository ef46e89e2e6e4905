----------------------------- MODULE PlaylistSpec ----------------------------
(***************************************************************************)
(* What the playlists of one user are meant to be: lists of songs without  *)
(* repetition, on which every request acts at one instant.                 *)
(***************************************************************************)
EXTENDS Naturals, Sequences

CONSTANTS Playlist, Song, MaxSongs

VARIABLE lists  \* playlist -> its songs in order, for the playlists that exist

SongsOf(q) == {q[i] : i \in DOMAIN q}

Init == lists = [p \in {} |-> <<>>]

Create(p) ==
    /\ p \notin DOMAIN lists
    /\ lists' = [x \in DOMAIN lists \cup {p} |-> IF x = p THEN <<>> ELSE lists[x]]

Delete(p) == lists' = [x \in DOMAIN lists \ {p} |-> lists[x]]

Add(p, s) ==
    /\ s \notin SongsOf(lists[p])
    /\ Len(lists[p]) < MaxSongs
    /\ lists' = [lists EXCEPT ![p] = Append(@, s)]

Remove(p, s) ==
    \E i \in DOMAIN lists[p] :
        /\ lists[p][i] = s
        /\ lists' = [lists EXCEPT ![p] = SubSeq(@, 1, i - 1) \o SubSeq(@, i + 1, Len(@))]

\* The new order has the same songs, once each.
Reorder(p) ==
    \E q \in [DOMAIN lists[p] -> SongsOf(lists[p])] :
        /\ SongsOf(q) = SongsOf(lists[p])
        /\ lists' = [lists EXCEPT ![p] = q]

Next ==
    \/ \E p \in Playlist : Create(p)
    \/ \E p \in DOMAIN lists :
        \/ Delete(p)
        \/ Reorder(p)
        \/ \E s \in Song : Add(p, s) \/ Remove(p, s)

Spec == Init /\ [][Next]_lists
=============================================================================
