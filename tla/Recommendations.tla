-------------------------- MODULE Recommendations --------------------------
(***************************************************************************)
(* The precomputed recommendations: the Celery task of src/app/worker.py,   *)
(* the ranking of src/app/services/recommendations.py and the Redis keys    *)
(* both write.                                                              *)
(*                                                                          *)
(* Beat starts passes; the prefork pool may run several at once.  A pass    *)
(* takes the Redis lock with SET NX EX, reads the ready songs and then the  *)
(* plays in two statements (READ COMMITTED: two snapshots), stores a list   *)
(* per user and releases the lock if it is still its own.  The lock may     *)
(* expire at any moment: a pass whose lock expired under it has overrun its *)
(* TTL.  A restart of Redis, which keeps no volume, is the expiry of every  *)
(* key.  Time itself is not modelled.                                       *)
(***************************************************************************)
EXTENDS Integers, Sequences, FiniteSets, FiniteSetsExt, SequencesExt

CONSTANTS
    Pass,       \* executions of the task, each with its own lock token
    User,
    Catalog,    \* the songs, newest first, whatever their status
    Artist,     \* the artist of each song
    Published,  \* the songs that are ready before the first pass
    Limit,      \* _RECOMMENDATION_LIMIT
    None,
    MaxPlays    \* bound on the plays recorded

Song == Range(Catalog)

ASSUME RecommendationsAssumption ==
    /\ None \notin Pass
    /\ IsFiniteSet(User)
    /\ Catalog \in Seq(Song) /\ IsInjective(Catalog)
    /\ DOMAIN Artist = Song
    /\ Published \subseteq Song
    /\ Limit \in Nat \ {0} /\ MaxPlays \in Nat

VARIABLES
    ready,      \* the songs whose status is "ready"
    plays,      \* song_plays: how often each user played each song
    lock,       \* recompute:lock, the pass whose token it holds
    pc,         \* where each pass is
    songs,      \* per pass, the ready songs it read
    counts,     \* per pass, the plays it aggregated
    todo,       \* per pass, the users it has not stored yet
    rec,        \* recommendations:{user}
    basis,      \* how much data each stored list was computed from, 0 if its pass
                \* had overrun: an observer
    overrun     \* the live passes whose lock expired under them: an observer

vars == <<ready, plays, lock, pc, songs, counts, todo, rec, basis, overrun>>
dataVars == <<ready, plays>>
recVars == <<rec, basis>>

NoPlays == [u \in User |-> [s \in Song |-> 0]]
Sum(f) == FoldFunction(+, 0, f)
Total(p) == Sum([u \in User |-> Sum(p[u])])

----------------------------------------------------------------------------
(* The ranking: rank_recommendations_for_user *)

GlobalCount(s, p) == Sum([u \in User |-> p[u][s]])
ArtistScore(u, artist, p) == Sum([s \in {x \in Song : Artist[x] = artist} |-> p[u][s]])
Played(u, p) == {s \in Song : p[u][s] > 0}

\* The catalogue has s before t.
Newer(s, t) == \E i, j \in DOMAIN Catalog : i < j /\ Catalog[i] = s /\ Catalog[j] = t

\* list.sort(reverse=True): the songs in the order of their keys, of which "beats" has the
\* pairs that differ.  It is stable: of two songs with equal keys the newer stays first.
SortedBy(candidates, beats) ==
    LET Before(s, t) == <<s, t>> \in beats \/ (<<t, s>> \notin beats /\ Newer(s, t))
    IN  CHOOSE list \in [1..Cardinality(candidates) -> candidates] :
            \A i, j \in DOMAIN list : i < j => Before(list[i], list[j])

\* The keys: the score of the artist, ties by plays; or the plays alone.
MoreHeard(p) == {x \in Song \X Song : GlobalCount(x[1], p) > GlobalCount(x[2], p)}
MoreLiked(u, p) ==
    {x \in Song \X Song :
        LET more == ArtistScore(u, Artist[x[1]], p) - ArtistScore(u, Artist[x[2]], p)
        IN  more > 0 \/ (more = 0 /\ GlobalCount(x[1], p) > GlobalCount(x[2], p))}

\* The ranking in full: the songs of artists the user has heard; then those that anybody
\* has; then the newest.  A song already in the list is not added again.
Ranking(u, songsRead, p) ==
    LET unplayed == songsRead \ Played(u, p)
        scored == {s \in unplayed : ArtistScore(u, Artist[s], p) > 0}
        popular == {s \in unplayed \ scored : GlobalCount(s, p) > 0}
    IN  SortedBy(scored, MoreLiked(u, p))
        \o SortedBy(popular, MoreHeard(p))
        \o SortedBy(unplayed \ (scored \cup popular), {})

\* Fault: the limit is forgotten.
Rank_NoLimit(u, songsRead, p) == Ranking(u, songsRead, p)

\* Fault: popular songs come whether or not the user has played them.
Rank_Replays(u, songsRead, p) ==
    LET popular == {s \in songsRead : GlobalCount(s, p) > 0}
        list == SortedBy(popular, MoreHeard(p))
    IN  SubSeq(list, 1, Min({Limit, Len(list)}))

Rank(u, songsRead, p) ==
    LET list == Ranking(u, songsRead, p)
    IN  SubSeq(list, 1, Min({Limit, Len(list)}))

----------------------------------------------------------------------------
(* The passes *)

Init ==
    /\ ready = Published
    /\ plays = NoPlays
    /\ lock = None
    /\ pc = [p \in Pass |-> "idle"]
    /\ songs = [p \in Pass |-> {}]
    /\ counts = [p \in Pass |-> NoPlays]
    /\ todo = [p \in Pass |-> {}]
    /\ rec = [u \in User |-> None]
    /\ basis = [u \in User |-> 0]
    /\ overrun = {}

\* The pass needs what it has read no more.
Goto(p, place) ==
    /\ pc' = [pc EXCEPT ![p] = place]
    /\ songs' = [songs EXCEPT ![p] = {}]
    /\ counts' = [counts EXCEPT ![p] = NoPlays]
    /\ todo' = [todo EXCEPT ![p] = {}]

\* The pass is over; the next one of this worker has a token of its own.
End(p) == Goto(p, "idle") /\ overrun' = overrun \ {p}

\* SET NX EX; a pass that finds the lock taken skips the cycle and changes nothing.
Acquire(p) ==
    /\ pc[p] = "idle"
    /\ lock = None
    /\ lock' = p
    /\ pc' = [pc EXCEPT ![p] = "songs"]
    /\ UNCHANGED <<songs, counts, todo, overrun, dataVars, recVars>>

FetchReadySongs(p) ==
    /\ pc[p] = "songs"
    /\ songs' = [songs EXCEPT ![p] = ready]
    /\ pc' = [pc EXCEPT ![p] = "plays"]
    /\ UNCHANGED <<counts, todo, lock, overrun, dataVars, recVars>>

\* Fault: the lock covers only the reading.
FetchPlays_Releases(p) ==
    /\ pc[p] = "plays"
    /\ counts' = [counts EXCEPT ![p] = plays]
    /\ todo' = [todo EXCEPT ![p] = User]
    /\ pc' = [pc EXCEPT ![p] = "store"]
    /\ lock' = IF lock = p THEN None ELSE lock
    /\ UNCHANGED <<songs, overrun, dataVars, recVars>>

\* The plays, and the users to store.
FetchPlays(p) ==
    /\ pc[p] = "plays"
    /\ counts' = [counts EXCEPT ![p] = plays]
    /\ todo' = [todo EXCEPT ![p] = User]
    /\ pc' = [pc EXCEPT ![p] = "store"]
    /\ UNCHANGED <<songs, lock, overrun, dataVars, recVars>>

\* store_recommendations for one user.
Store(p, u) ==
    /\ pc[p] = "store"
    /\ u \in todo[p]
    /\ rec' = [rec EXCEPT ![u] = Rank(u, songs[p], counts[p])]
    /\ basis' = [basis EXCEPT ![u] = IF p \in overrun THEN 0
                                     ELSE Cardinality(songs[p]) + Total(counts[p])]
    /\ IF todo[p] = {u}
       THEN Goto(p, "release")
       ELSE todo' = [todo EXCEPT ![p] = @ \ {u}] /\ UNCHANGED <<pc, songs, counts>>
    /\ UNCHANGED <<lock, overrun, dataVars>>

\* Postgres or Redis fails: "finally" releases the lock.
Fail(p) ==
    /\ pc[p] \in {"songs", "plays", "store"}
    /\ Goto(p, "release")
    /\ UNCHANGED <<lock, overrun, dataVars, recVars>>

\* Fault: DEL, whoever holds the lock.
Release_Unconditional(p) ==
    /\ pc[p] = "release"
    /\ lock' = None
    /\ End(p)
    /\ UNCHANGED <<dataVars, recVars>>

\* _RELEASE_LOCK_SCRIPT: the lock goes only if it is still this pass's.
Release(p) ==
    /\ pc[p] = "release"
    /\ lock' = IF lock = p THEN None ELSE lock
    /\ End(p)
    /\ UNCHANGED <<dataVars, recVars>>

\* The worker dies, or Redis does not answer the release: the lock stays.
Die(p) ==
    /\ pc[p] # "idle"
    /\ End(p)
    /\ UNCHANGED <<lock, dataVars, recVars>>

LockExpires ==
    /\ lock # None
    /\ overrun' = IF pc[lock] = "idle" THEN overrun ELSE overrun \cup {lock}
    /\ lock' = None
    /\ UNCHANGED <<pc, songs, counts, todo, dataVars, recVars>>

----------------------------------------------------------------------------
(* The rest of the system *)

RecExpires(u) ==
    /\ rec[u] # None
    /\ rec' = [rec EXCEPT ![u] = None]
    /\ basis' = [basis EXCEPT ![u] = 0]
    /\ UNCHANGED <<pc, songs, counts, todo, lock, overrun, dataVars>>

SongReady(s) ==
    /\ s \notin ready
    /\ ready' = ready \cup {s}
    /\ UNCHANGED <<plays, pc, songs, counts, todo, lock, overrun, recVars>>

\* get_song_stream_url records a play of a ready song.
Play(u, s) ==
    /\ s \in ready
    /\ Total(plays) < MaxPlays
    /\ plays' = [plays EXCEPT ![u][s] = @ + 1]
    /\ UNCHANGED <<ready, pc, songs, counts, todo, lock, overrun, recVars>>

Next ==
    \/ \E p \in Pass :
        \/ Acquire(p) \/ FetchReadySongs(p) \/ FetchPlays(p)
        \/ \E u \in User : Store(p, u)
        \/ Fail(p) \/ Release(p) \/ Die(p)
    \/ LockExpires
    \/ \E u \in User : RecExpires(u)
    \/ \E s \in Song : SongReady(s)
    \/ \E u \in User, s \in Song : Play(u, s)

Spec == Init /\ [][Next]_vars

----------------------------------------------------------------------------
(* Properties *)

Inside(p) == pc[p] \in {"songs", "plays", "store", "release"}

TypeOK ==
    /\ ready \subseteq Song
    /\ plays \in [User -> [Song -> Nat]]
    /\ lock \in Pass \cup {None}
    /\ pc \in [Pass -> {"idle", "songs", "plays", "store", "release"}]
    /\ songs \in [Pass -> SUBSET Song]
    /\ counts \in [Pass -> [User -> [Song -> Nat]]]
    /\ todo \in [Pass -> SUBSET User]
    /\ \A u \in User : rec[u] # None => rec[u] \in Seq(Song) /\ Len(rec[u]) <= Limit
    /\ overrun \subseteq {p \in Pass : Inside(p)}

\* worker.py, lines 39-45: two passes run together only if the lock of one of them
\* expired under it; a pass that has lost its lock never takes away another's.
OnePassUnlessOverrun ==
    \A p, q \in Pass : p # q /\ Inside(p) /\ Inside(q) => p \in overrun \/ q \in overrun

\* Unless an overrun pass is involved, a list is replaced only by one computed from
\* data at least as new: the listener's last plays are not forgotten again.
NeverOlderData == [][\A u \in User : basis'[u] # 0 => basis'[u] >= basis[u]]_vars

\* The promise of rank_recommendations_for_user (lines 78-86), said without the
\* algorithm: s deserves to precede t.
Deserves(s, t, u, p) ==
    LET more == ArtistScore(u, Artist[s], p) - ArtistScore(u, Artist[t], p)
        louder == GlobalCount(s, p) - GlobalCount(t, p)
        age(x) == CHOOSE i \in DOMAIN Catalog : Catalog[i] = x
    IN  \/ more > 0
        \/ more = 0 /\ louder > 0
        \/ more = 0 /\ louder = 0 /\ age(s) < age(t)

\* A list has ready songs the user has not played, once each, is as long as can be,
\* and no song, in it or left out, deserves to precede one that it does not precede.
IsBest(list, u, songsRead, p) ==
    LET eligible == songsRead \ Played(u, p)
    IN  /\ IsInjective(list)
        /\ Range(list) \subseteq eligible
        /\ Len(list) = Min({Limit, Cardinality(eligible)})
        /\ \A i \in DOMAIN list :
             \A s \in eligible \ Range(SubSeq(list, 1, i)) : ~Deserves(s, list[i], u, p)

\* Every list that is stored is the best one for what its pass has read.
StoresBestRanking ==
    [][\A u \in User :
         rec'[u] \notin {rec[u], None} =>
             \E p \in Pass : pc[p] = "store" /\ IsBest(rec'[u], u, songs[p], counts[p])]_vars
=============================================================================
