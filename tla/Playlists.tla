------------------------------ MODULE Playlists ------------------------------
(***************************************************************************)
(* The playlists of one user: src/app/api/playlists.py over the tables of  *)
(* src/app/models/playlist.py.  Requests run in Postgres transactions at   *)
(* READ COMMITTED, statement by statement.  What add, remove and reorder   *)
(* do is serialised by SELECT ... FOR UPDATE on the row of the playlist;   *)
(* create, rename and delete take no lock before they write.               *)
(*                                                                         *)
(* A song is one that exists and is "ready" (add refuses the others and no *)
(* code of the application takes a song out of that state).  The name of a *)
(* playlist, which is all that rename writes, is left out.                 *)
(***************************************************************************)
EXTENDS Integers, FiniteSets

CONSTANTS Request,       \* requests that may run at once
          Playlist,      \* ids of playlists; Postgres never uses one again
          Song,
          None,          \* nobody holds the lock
          MaxPlaylists,  \* _MAX_PLAYLISTS_PER_USER
          MaxSongs       \* _MAX_SONGS_PER_PLAYLIST

ASSUME NoneAssumption == None \notin Request
ASSUME LimitAssumption == MaxPlaylists \in Nat \ {0} /\ MaxSongs \in Nat
ASSUME RequestAssumption == IsFiniteSet(Request)

VARIABLES
    used,      \* ids given out so far
    exists,    \* the rows of playlists
    position,  \* playlist -> its rows in playlist_songs: song -> position
    lockedBy,  \* playlist -> the request that has selected it FOR UPDATE
    pc,        \* request -> the statement it runs next
    op,        \* request -> what it was asked to do
    writes     \* request -> the positions it will write when it commits

rowVars == <<used, exists, position>>
requestVars == <<lockedBy, pc, op, writes>>
vars == <<rowVars, requestVars>>

NoRows == [s \in {} |-> 0]
Kind == {"add", "remove", "reorder", "rename", "delete"}
Op == [kind : Kind, playlist : Playlist, song : Song]
Idle == [kind |-> "idle"]

Init ==
    /\ used = {}
    /\ exists = {}
    /\ position = [p \in Playlist |-> NoRows]
    /\ lockedBy = [p \in Playlist |-> None]
    /\ pc = [r \in Request |-> "idle"]
    /\ op = [r \in Request |-> Idle]
    /\ writes = [r \in Request |-> NoRows]

----------------------------------------------------------------------------
(* Rows and locks *)

SongsIn(p) == DOMAIN position[p]

\* Where a song stands among the songs of S, in the order of the playlist p.
Rank(p, S, s) == Cardinality({t \in S : position[p][t] < position[p][s]})

\* Fault: nothing is locked.
Lockable_Ignored(r, p) == TRUE

Lockable(r, p) == lockedBy[p] \in {None, r}

\* The request is answered: its transaction has ended.
End(r) ==
    /\ lockedBy' = [p \in Playlist |-> IF lockedBy[p] = r THEN None ELSE lockedBy[p]]
    /\ pc' = [pc EXCEPT ![r] = "idle"]
    /\ op' = [op EXCEPT ![r] = Idle]
    /\ writes' = [writes EXCEPT ![r] = NoRows]

----------------------------------------------------------------------------
(* create_playlist *)

\* Fault: the limit is not looked at.
CreateCount_Unlimited(r) ==
    /\ pc[r] = "idle"
    /\ pc' = [pc EXCEPT ![r] = "create"]
    /\ UNCHANGED <<rowVars, lockedBy, op, writes>>

\* The count, which is below the limit ...
CreateCount(r) ==
    /\ pc[r] = "idle"
    /\ Cardinality(exists) < MaxPlaylists
    /\ pc' = [pc EXCEPT ![r] = "create"]
    /\ UNCHANGED <<rowVars, lockedBy, op, writes>>

\* ... and the new row, whatever the count is by now.
CreateCommit(r, p) ==
    /\ pc[r] = "create"
    /\ p \notin used
    /\ used' = used \cup {p}
    /\ exists' = exists \cup {p}
    /\ End(r)
    /\ UNCHANGED position

----------------------------------------------------------------------------
(* The other handlers *)

\* A request for a playlist that the client has seen.
Begin(r, o) ==
    /\ pc[r] = "idle"
    /\ o.playlist \in used
    /\ op' = [op EXCEPT ![r] = o]
    /\ pc' = [pc EXCEPT ![r] = IF o.kind \in {"rename", "delete"} THEN "find" ELSE "lock"]
    /\ UNCHANGED <<rowVars, lockedBy, writes>>

\* rename_playlist, delete_playlist: a plain SELECT ...
Find(r) ==
    /\ pc[r] = "find"
    /\ \/ /\ op[r].playlist \in exists
          /\ pc' = [pc EXCEPT ![r] = op[r].kind]
          /\ UNCHANGED <<lockedBy, op, writes>>
       \/ /\ op[r].playlist \notin exists
          /\ End(r)
    /\ UNCHANGED rowVars

\* Fault: the songs of the playlist stay.
DeleteCommit_NoCascade(r) ==
    LET p == op[r].playlist
    IN  /\ pc[r] = "delete"
        /\ Lockable(r, p)
        /\ exists' = exists \ {p}
        /\ End(r)
        /\ UNCHANGED <<used, position>>

\* ... then DELETE, which waits for the lock, takes the songs along (ON DELETE
\* CASCADE), and is no error when the row is gone.
DeleteCommit(r) ==
    LET p == op[r].playlist
    IN  /\ pc[r] = "delete"
        /\ Lockable(r, p)
        /\ exists' = exists \ {p}
        /\ position' = [position EXCEPT ![p] = NoRows]
        /\ End(r)
        /\ UNCHANGED used

\* ... or UPDATE, of the name; it waits for the lock too, and fails when the row is gone.
RenameCommit(r) ==
    /\ pc[r] = "rename"
    /\ Lockable(r, op[r].playlist)
    /\ End(r)
    /\ UNCHANGED rowVars

\* _get_owned_playlist(lock=True): 404 if the row is gone when the lock is free.
Lock(r) ==
    LET p == op[r].playlist
    IN  /\ pc[r] = "lock"
        /\ Lockable(r, p)
        /\ \/ /\ p \in exists
              /\ lockedBy' = [lockedBy EXCEPT ![p] = r]
              /\ pc' = [pc EXCEPT ![r] = "read"]
              /\ UNCHANGED <<op, writes>>
           \/ /\ p \notin exists
              /\ End(r)
        /\ UNCHANGED rowVars

Plan(r, rows) ==
    /\ writes' = [writes EXCEPT ![r] = rows]
    /\ pc' = [pc EXCEPT ![r] = "write"]
    /\ UNCHANGED <<lockedBy, op>>

\* add_song_to_playlist: the count is the position of the new song.
ReadForAdd(r) ==
    LET count == Cardinality(SongsIn(op[r].playlist))
    IN  IF count < MaxSongs THEN Plan(r, [s \in {op[r].song} |-> count]) ELSE End(r)

\* Fault: the last song takes the place of the one that goes.
ReadForRemove_LastFills(r) ==
    LET p == op[r].playlist
        gone == op[r].song
        rest == SongsIn(p) \ {gone}
    IN  IF gone \in SongsIn(p)
        THEN Plan(r, [s \in rest |-> IF position[p][s] = Cardinality(rest)
                                     THEN position[p][gone]
                                     ELSE position[p][s]])
        ELSE End(r)

\* remove_song_from_playlist: the rows that remain are renumbered.
ReadForRemove(r) ==
    LET p == op[r].playlist
        rest == SongsIn(p) \ {op[r].song}
    IN  IF op[r].song \in SongsIn(p) THEN Plan(r, [s \in rest |-> Rank(p, rest, s)]) ELSE End(r)

\* reorder_playlist_songs: the client's list is a permutation of the songs of the
\* playlist, or is refused.
ReadForReorder(r) ==
    LET songs == SongsIn(op[r].playlist)
    IN  \/ \E order \in [songs -> 0..(Cardinality(songs) - 1)] :
              /\ \A s, t \in songs : order[s] = order[t] => s = t
              /\ Plan(r, order)
        \/ End(r)

Read(r) ==
    /\ pc[r] = "read"
    /\ \/ op[r].kind = "add" /\ ReadForAdd(r)
       \/ op[r].kind = "remove" /\ ReadForRemove(r)
       \/ op[r].kind = "reorder" /\ ReadForReorder(r)
    /\ UNCHANGED rowVars

\* The INSERT of add; it fails if the song is there already (the unique constraint).
WriteAdded(r) ==
    LET p == op[r].playlist
        s == op[r].song
    IN  /\ op[r].kind = "add"
        /\ position' = IF s \in SongsIn(p) \/ p \notin exists
                       THEN position
                       ELSE [position EXCEPT ![p] =
                               [t \in SongsIn(p) \cup {s} |-> IF t = s THEN writes[r][s] ELSE @[t]]]

\* The DELETE of remove and the UPDATEs of renumbering, for the rows that are read.
WriteRenumbered(r) ==
    LET p == op[r].playlist
        left == IF op[r].kind = "remove" THEN SongsIn(p) \ {op[r].song} ELSE SongsIn(p)
    IN  /\ op[r].kind \in {"remove", "reorder"}
        /\ position' = [position EXCEPT ![p] =
                          [t \in left |-> IF t \in DOMAIN writes[r] THEN writes[r][t] ELSE @[t]]]

Write(r) ==
    /\ pc[r] = "write"
    /\ WriteAdded(r) \/ WriteRenumbered(r)
    /\ End(r)
    /\ UNCHANGED <<used, exists>>

\* The handler dies, or its connection does: Postgres rolls back.
Abort(r) ==
    /\ pc[r] # "idle"
    /\ End(r)
    /\ UNCHANGED rowVars

Step(r) ==
    \/ CreateCount(r) \/ \E p \in Playlist : CreateCommit(r, p)
    \/ \E o \in Op : Begin(r, o)
    \/ Find(r) \/ RenameCommit(r) \/ DeleteCommit(r)
    \/ Lock(r) \/ Read(r) \/ Write(r) \/ Abort(r)

Next == \E r \in Request : Step(r)

Spec == Init /\ [][Next]_vars

----------------------------------------------------------------------------
(* Properties *)

TypeOK ==
    /\ used \subseteq Playlist
    /\ exists \subseteq used
    /\ \A p \in Playlist :
        /\ SongsIn(p) \subseteq Song
        /\ position[p] \in [SongsIn(p) -> Nat]
        /\ p \notin exists => SongsIn(p) = {}
    /\ lockedBy \in [Playlist -> Request \cup {None}]
    /\ pc \in [Request -> {"idle", "create", "find", "rename", "delete", "lock", "read", "write"}]
    /\ op \in [Request -> Op \cup {Idle}]

\* "La contigüidad ya está garantizada por construcción" (models/playlist.py, lines
\* 36-41): however adds, removals and reorderings interleave, the positions of a
\* playlist of n songs are 0 to n - 1, and n is at most the limit.
PositionsContiguous ==
    \A p \in Playlist :
        LET n == Cardinality(SongsIn(p))
        IN  /\ {position[p][s] : s \in SongsIn(p)} = 0..(n - 1)
            /\ n <= MaxSongs

\* The limit of playlists is a soft one: requests that count at the same time may
\* pass it together, but by no more than one playlist each.
PlaylistLimitSoft ==
    Cardinality(exists) < MaxPlaylists + Cardinality(Request)

\* Each playlist as the list of its songs in the order of their positions.
Lists ==
    [p \in exists |->
        [i \in 1..Cardinality(SongsIn(p)) |->
            CHOOSE s \in SongsIn(p) : position[p][s] = i - 1]]

Abstract == INSTANCE PlaylistSpec WITH lists <- Lists

\* Every request acts on its playlist as a whole and at one instant: adding appends,
\* removing takes one song out and leaves the others in their order.
ImplementsPlaylistSpec == Abstract!Spec
=============================================================================
