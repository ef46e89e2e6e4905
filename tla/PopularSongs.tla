----------------------------- MODULE PopularSongs -----------------------------
(***************************************************************************)
(* GET /songs/popular: a list of songs by plays, kept in one Redis key     *)
(* (src/app/services/popular.py), together with the recommendations, which *)
(* read the same songs and plays.                                          *)
(*                                                                         *)
(* A request that finds the key answers from it and changes nothing.  One  *)
(* that does not, or gets no answer from Redis, computes the list, stores  *)
(* it and answers from it; several may do so at once, and the last one to  *)
(* store wins.  Time passes in units of which the key lives TTL.           *)
(***************************************************************************)
EXTENDS Recommendations

CONSTANTS
    Request,   \* requests that compute the list at the same time
    CacheMax,  \* _POPULAR_CACHE_MAX
    Limits,    \* the limits that clients may ask for: 1 to 100
    TTL,       \* _POPULAR_CACHE_TTL_SECONDS
    MaxDelay   \* the longest a request takes from its query to its write in Redis

ASSUME PopularAssumption ==
    /\ CacheMax \in Nat /\ Limits \subseteq 1..CacheMax
    /\ TTL \in Nat \ {0} /\ MaxDelay \in Nat

VARIABLES
    popular,   \* songs:popular, or None: its list and how long it still lives; as
               \* observers, the plays there were to rank by and the age of that query
    asked,     \* request -> the limit it was asked for, until it is answered, or None
    computed   \* request -> the list it has computed, with the same observers, or None

popularVars == <<popular, asked, computed>>
allVars == <<vars, popularVars>>

PopularInit ==
    /\ Init
    /\ popular = None
    /\ asked = [r \in Request |-> None]
    /\ computed = [r \in Request |-> None]

----------------------------------------------------------------------------
(* fetch_popular_song_ids *)

\* The plays of each ready song that has any.
Heard == [s \in {x \in ready : GlobalCount(x, plays) > 0} |-> GlobalCount(s, plays)]

\* ORDER BY count DESC LIMIT n; Postgres may order equal counts in any way.
MostPlayed(n) ==
    {list \in [1..Min({n, Cardinality(DOMAIN Heard)}) -> DOMAIN Heard] :
        /\ IsInjective(list)
        /\ \A i \in DOMAIN list, s \in DOMAIN Heard :
             Heard[s] > Heard[list[i]] => \E j \in 1..(i - 1) : list[j] = s}

\* What a request for n songs is answered, given the list.
AnswerFrom(list, n) == SubSeq(list, 1, Min({n, Len(list)}))

----------------------------------------------------------------------------
(* get_popular_song_ids *)

\* The key is not there, or Redis does not answer.
Miss(r, n) ==
    /\ asked[r] = None
    /\ asked' = [asked EXCEPT ![r] = n]
    /\ UNCHANGED <<popular, computed>>

\* Fault: the list is computed, and then stored, no longer than this request needs.
Query_AsLongAsAsked(r) ==
    /\ asked[r] # None /\ computed[r] = None
    /\ \E list \in MostPlayed(asked[r]) :
         computed' = [computed EXCEPT ![r] = [list |-> list, heard |-> Heard, age |-> 0]]
    /\ UNCHANGED <<popular, asked>>

Query(r) ==
    /\ asked[r] # None /\ computed[r] = None
    /\ \E list \in MostPlayed(CacheMax) :
         computed' = [computed EXCEPT ![r] = [list |-> list, heard |-> Heard, age |-> 0]]
    /\ UNCHANGED <<popular, asked>>

\* The request is answered from its own list, or dies.
Answered(r) ==
    /\ asked' = [asked EXCEPT ![r] = None]
    /\ computed' = [computed EXCEPT ![r] = None]

\* Fault: without EX the key never expires.
StorePopular_NoExpiry(r) ==
    /\ computed[r] # None
    /\ popular' = [life |-> 0, query |-> computed[r]]
    /\ Answered(r)

\* SET with EX, whatever the key holds by now.
StorePopular(r) ==
    /\ computed[r] # None
    /\ popular' = [life |-> TTL, query |-> computed[r]]
    /\ Answered(r)

\* Redis does not answer (which is only logged), or the process dies.
GiveUp(r) ==
    /\ asked[r] # None
    /\ Answered(r)
    /\ UNCHANGED popular

Older(query) == [query EXCEPT !.age = @ + 1]

\* Time passes: the key expires at the end of its life.
Tick ==
    /\ \A r \in Request : computed[r] # None => computed[r].age < MaxDelay
    /\ computed' = [r \in Request |-> IF computed[r] = None THEN None ELSE Older(computed[r])]
    /\ popular' = IF popular = None \/ popular.life = 1 THEN None
                  ELSE [life |-> popular.life - 1, query |-> Older(popular.query)]
    /\ UNCHANGED asked

\* Redis restarts, without a volume.
PopularLost ==
    /\ popular # None
    /\ popular' = None
    /\ UNCHANGED <<asked, computed>>

PopularNext ==
    \/ \E r \in Request : \/ \E n \in Limits : Miss(r, n)
                          \/ Query(r) \/ StorePopular(r) \/ GiveUp(r)
    \/ Tick \/ PopularLost

ListeningNext ==
    \/ Next /\ UNCHANGED popularVars
    \/ PopularNext /\ UNCHANGED vars

ListeningSpec == PopularInit /\ [][ListeningNext]_allVars

----------------------------------------------------------------------------
(* Properties *)

QueryTypeOK(q) ==
    /\ q.list \in Seq(Song) /\ q.age \in Nat
    /\ DOMAIN q.heard \subseteq Song /\ q.heard \in [DOMAIN q.heard -> Nat]

ListeningTypeOK ==
    /\ TypeOK
    /\ popular # None => popular.life \in 1..TTL /\ QueryTypeOK(popular.query)
    /\ \A r \in Request :
        /\ asked[r] \in Limits \cup {None}
        /\ computed[r] # None => asked[r] # None /\ QueryTypeOK(computed[r])

\* One list serves every limit: "una primera request con limit=10 no deja un caché corto
\* que no pueda servir una request posterior con limit=50" (popular.py, lines 49-52).
\* Whoever computed it, and for whatever limit, an answer has as many songs as it asks
\* for, or all there were, most played first.
OneListServesAll ==
    popular # None =>
        \A n \in Limits :
            LET answer == AnswerFrom(popular.query.list, n)
                heard == popular.query.heard
            IN  /\ Len(answer) = Min({n, Cardinality(DOMAIN heard)})
                /\ IsInjective(answer)
                /\ Range(answer) \subseteq DOMAIN heard
                /\ \A i \in DOMAIN answer, s \in DOMAIN heard :
                     heard[s] > heard[answer[i]] => \E j \in 1..(i - 1) : answer[j] = s

\* A play is counted in the list after at most one life of the key and the time that
\* one request takes, even if slow requests store older lists over newer ones, each of
\* which starts the life of the key anew (docs/architecture.md, line 1604: "hasta 5 min
\* de retraso").
StalenessBounded == popular # None => popular.query.age <= TTL + MaxDelay
=============================================================================
