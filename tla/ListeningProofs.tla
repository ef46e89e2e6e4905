--------------------------- MODULE ListeningProofs ---------------------------
(***************************************************************************)
(* Recommendations and PopularSongs for any number of passes, users, songs *)
(* and requests.                                                           *)
(***************************************************************************)
EXTENDS PopularSongs, FunctionTheorems, SequenceTheorems, FiniteSetTheorems, TLAPS

----------------------------------------------------------------------------
(* The lock of the passes.  Only the holder and the clock of Redis ever free the *)
(* lock, and the clock makes the holder an overrun pass: so any other pass inside *)
(* holds the lock, and there is one lock.                                        *)

\* The part of TypeOK that the lock needs.
LockTypeOK ==
    /\ lock \in Pass \cup {None}
    /\ pc \in [Pass -> {"idle", "songs", "plays", "store", "release"}]

\* A pass that is inside and has not overrun holds the lock, and only one can.
HoldsLock == \A p \in Pass : Inside(p) /\ p \notin overrun => lock = p

\* Inductive, whatever the passes read and store.
IInv == LockTypeOK /\ HoldsLock

\* Initially no pass is inside.
LEMMA InitInv == Init => IInv
  BY DEF Init, IInv, LockTypeOK, HoldsLock, Inside

\* Every step preserves it: Release and Acquire because of the token in the lock.
LEMMA NextInv == IInv /\ [Next]_vars => IInv'
  <1> SUFFICES ASSUME IInv, [Next]_vars PROVE IInv'
    OBVIOUS
  <1> USE RecommendationsAssumption DEF IInv, LockTypeOK, HoldsLock, Inside
  <1>1. ASSUME NEW p \in Pass, Acquire(p) PROVE IInv'
    BY <1>1 DEF Acquire
  <1>2. ASSUME NEW p \in Pass, FetchReadySongs(p) PROVE IInv'
    BY <1>2 DEF FetchReadySongs
  <1>3. ASSUME NEW p \in Pass, FetchPlays(p) PROVE IInv'
    BY <1>3 DEF FetchPlays
  <1>4. ASSUME NEW p \in Pass, NEW u \in User, Store(p, u) PROVE IInv'
    <2>1. CASE todo[p] = {u}
      BY <1>4, <2>1 DEF Store, Goto
    <2>2. CASE todo[p] # {u}
      BY <1>4, <2>2 DEF Store
    <2> QED BY <2>1, <2>2
  <1>5. ASSUME NEW p \in Pass, Fail(p) PROVE IInv'
    BY <1>5 DEF Fail, Goto
  <1>6. ASSUME NEW p \in Pass, Release(p) PROVE IInv'
    BY <1>6 DEF Release, End, Goto
  <1>7. ASSUME NEW p \in Pass, Die(p) PROVE IInv'
    BY <1>7 DEF Die, End, Goto
  <1>8. CASE LockExpires
    BY <1>8 DEF LockExpires
  <1>9. ASSUME NEW u \in User, RecExpires(u) PROVE IInv'
    BY <1>9 DEF RecExpires
  <1>10. ASSUME NEW s \in Song, SongReady(s) PROVE IInv'
    BY <1>10 DEF SongReady
  <1>11. ASSUME NEW u \in User, NEW s \in Song, Play(u, s) PROVE IInv'
    BY <1>11 DEF Play
  <1>12. CASE UNCHANGED vars
    BY <1>12 DEF vars
  <1> QED
    BY <1>1, <1>2, <1>3, <1>4, <1>5, <1>6, <1>7, <1>8, <1>9, <1>10, <1>11, <1>12 DEF Next

\* Together: the invariant holds always.
LEMMA Invariance == Spec => []IInv
  BY InitInv, NextInv, PTL DEF Spec

\* Two passes of worker.py are inside together only if the lock of one of them
\* expired under it, for any number of workers.
THEOREM OnePassSafe == Spec => []OnePassUnlessOverrun
  <1>1. IInv => OnePassUnlessOverrun
    BY DEF IInv, HoldsLock, OnePassUnlessOverrun
  <1> QED BY <1>1, Invariance, PTL

----------------------------------------------------------------------------
(* The popular songs.  A list that has just been stored is at most MaxDelay old and has *)
(* TTL to live; from then on each tick makes it older by as much as it takes from its    *)
(* life.                                                                                  *)

\* The record of a query, whatever its list.
IsQuery(q) ==
    /\ q = [list |-> q.list, heard |-> q.heard, age |-> q.age]
    /\ q.age \in Nat

\* A list that was computed is not older than a request may be, and neither was the one
\* in the key when its life began.
AgesOK ==
    /\ DOMAIN computed = Request
    /\ \A r \in Request :
         computed[r] # None => IsQuery(computed[r]) /\ computed[r].age <= MaxDelay
    /\ popular # None =>
         /\ popular = [life |-> popular.life, query |-> popular.query]
         /\ popular.life \in 1..TTL
         /\ IsQuery(popular.query)
         /\ popular.query.age + popular.life <= TTL + MaxDelay

\* Initially nothing is stored or computed.
LEMMA InitAges == PopularInit => AgesOK
BY DEF PopularInit, AgesOK

\* A query is older by one, and still a query.
LEMMA OlderQuery ==
    ASSUME NEW q, IsQuery(q)
    PROVE  IsQuery(Older(q)) /\ Older(q).age = q.age + 1
<1>1. Older(q) = [list |-> q.list, heard |-> q.heard, age |-> q.age + 1]
    BY DEF IsQuery, Older
<1>2. QED
    BY <1>1 DEF IsQuery

\* Storing starts the life of the key.
LEMMA StoreAges ==
    ASSUME AgesOK, NEW r \in Request, StorePopular(r) PROVE AgesOK'
BY PopularAssumption DEF AgesOK, IsQuery, StorePopular, Answered

\* Time takes from the life of the key what it adds to the age of its list.
LEMMA TickAges == ASSUME AgesOK, Tick PROVE AgesOK'
<1>1. DOMAIN computed' = Request
    BY DEF Tick
<1>2. ASSUME NEW r \in Request, computed'[r] # None
      PROVE  IsQuery(computed'[r]) /\ computed'[r].age <= MaxDelay
    <2>1. computed[r] # None /\ computed'[r] = Older(computed[r]) /\ computed[r].age < MaxDelay
        BY <1>2 DEF Tick
    <2>2. QED
        BY <2>1, OlderQuery, PopularAssumption DEF AgesOK, IsQuery
<1>3. ASSUME popular' # None
      PROVE  /\ popular' = [life |-> popular'.life, query |-> popular'.query]
             /\ popular'.life \in 1..TTL
             /\ IsQuery(popular'.query)
             /\ popular'.query.age + popular'.life <= TTL + MaxDelay
    <2>1. /\ popular # None /\ popular.life # 1
          /\ popular' = [life |-> popular.life - 1, query |-> Older(popular.query)]
        BY <1>3 DEF Tick
    <2>2. IsQuery(popular.query) /\ popular.life \in 1..TTL
          /\ popular.query.age + popular.life <= TTL + MaxDelay
        BY <2>1 DEF AgesOK
    <2>3. IsQuery(Older(popular.query)) /\ Older(popular.query).age = popular.query.age + 1
        BY <2>2, OlderQuery
    <2>4. popular'.life = popular.life - 1 /\ popular'.query = Older(popular.query)
        BY <2>1
    <2>5. QED
        BY <2>1, <2>2, <2>3, <2>4, PopularAssumption DEF IsQuery
<1>4. QED
    BY <1>1, <1>2, <1>3 DEF AgesOK

LEMMA ListeningAges == AgesOK /\ [ListeningNext]_allVars => AgesOK'
<1> SUFFICES ASSUME AgesOK, [ListeningNext]_allVars PROVE AgesOK'
    OBVIOUS
<1>1. ASSUME NEW r \in Request, Query(r) PROVE AgesOK'
    BY <1>1, PopularAssumption DEF AgesOK, IsQuery, Query
<1>2. ASSUME NEW r \in Request, NEW n \in Limits, Miss(r, n) PROVE AgesOK'
    BY <1>2 DEF AgesOK, Miss
<1>3. ASSUME NEW r \in Request, GiveUp(r) PROVE AgesOK'
    BY <1>3 DEF AgesOK, GiveUp, Answered
<1>4. CASE PopularLost
    BY <1>4 DEF AgesOK, PopularLost
<1>5. CASE UNCHANGED popularVars
    BY <1>5 DEF AgesOK, popularVars
<1>6. QED
    BY <1>1, <1>2, <1>3, <1>4, <1>5, StoreAges, TickAges
    DEF ListeningNext, PopularNext, allVars, popularVars

\* However many slow requests store older lists over newer ones, a play is counted after
\* at most one life of the key and the time of one request.
THEOREM StalenessSafe == ListeningSpec => []StalenessBounded
<1>1. AgesOK => StalenessBounded
    BY PopularAssumption DEF AgesOK, StalenessBounded, IsQuery
<1>2. QED
    BY <1>1, InitAges, ListeningAges, PTL DEF ListeningSpec

\* A step of the popular songs is a stutter for the passes, so what is proved of Spec
\* can be used of ListeningSpec.
LEMMA PassesUndisturbed == ListeningSpec => Spec
<1>1. PopularInit => Init
    BY DEF PopularInit
<1>2. [ListeningNext]_allVars => [Next]_vars
    BY DEF ListeningNext, allVars
<1>3. QED
    BY <1>1, <1>2, PTL DEF ListeningSpec, Spec

----------------------------------------------------------------------------
(* Sums.  Sum is a recursion over the subsets of the domain of a function; what it *)
(* computes is found by looking at a smallest subset where it would go wrong.      *)

\* Of the subsets of a finite set that have a property, some are smallest.
LEMMA SmallestSubset ==
    ASSUME NEW S, IsFiniteSet(S), NEW T, T \subseteq SUBSET S, T # {}
    PROVE  \E x \in T : \A y \in T : y \subseteq x => y = x
<1>1. IsWellFoundedOn(StrictSubsetOrdering(S), SUBSET S)
    BY FS_StrictSubsetOrderingWellFounded, FS_FiniteSubsetsOfFinite
<1>2. PICK x \in T : \A y \in T : <<y, x>> \notin StrictSubsetOrdering(S)
    BY <1>1, WFMin
<1>3. \A y \in T : y \subseteq x => y = x
    BY <1>2 DEF StrictSubsetOrdering
<1>4. QED
    BY <1>3

\* The recursion of the sum of f: h tells the sum over each subset of S.
Some(s) == CHOOSE x \in s : TRUE
Sums(h, S, f) ==
    h = [s \in SUBSET S |-> IF s = {} THEN 0 ELSE f[Some(s)] + h[s \ {Some(s)}]]

LEMMA SomeIn == \A s : s # {} => Some(s) \in s
BY DEF Some

\* There is at most one such h, ...
LEMMA SumsUnique ==
    ASSUME NEW S, IsFiniteSet(S), NEW f, NEW g, NEW h, Sums(g, S, f), Sums(h, S, f)
    PROVE  g = h
<1> DEFINE wrong == {s \in SUBSET S : g[s] # h[s]}
<1>1. wrong = {}
    <2> SUFFICES ASSUME wrong # {} PROVE FALSE
        OBVIOUS
    <2>1. PICK s \in wrong : \A t \in wrong : t \subseteq s => t = s
        <3>1. wrong \subseteq SUBSET S
            OBVIOUS
        <3> HIDE DEF wrong
        <3>2. QED
            BY <3>1, SmallestSubset
    <2>2. CASE s = {}
        BY <2>2 DEF Sums
    <2>3. CASE s # {}
        <3>1. s \ {Some(s)} \subseteq s /\ s \ {Some(s)} # s /\ s \ {Some(s)} \in SUBSET S
            BY <2>3, SomeIn
        <3>2. g[s \ {Some(s)}] = h[s \ {Some(s)}]
            BY <2>1, <3>1
        <3>3. g[s] = f[Some(s)] + g[s \ {Some(s)}] /\ h[s] = f[Some(s)] + h[s \ {Some(s)}]
            BY <2>3 DEF Sums
        <3>4. QED
            BY <3>2, <3>3
    <2>4. QED
        BY <2>2, <2>3
<1>2. g = [s \in SUBSET S |-> g[s]] /\ h = [s \in SUBSET S |-> h[s]]
    BY DEF Sums
<1>3. QED
    BY <1>1, <1>2

\* ... which also tells the sums over the subsets of a subset, ...
LEMMA SumsWithin ==
    ASSUME NEW S, NEW T \in SUBSET S, NEW f, NEW h, Sums(h, S, f),
           NEW g, g = [s \in SUBSET T |-> h[s]]
    PROVE  Sums(g, T, f)
<1>1. \A s \in SUBSET T : s \in SUBSET S /\ s \ {Some(s)} \in SUBSET T
    OBVIOUS
<1>2. \A s \in SUBSET T : h[s] = IF s = {} THEN 0 ELSE f[Some(s)] + h[s \ {Some(s)}]
    BY <1>1 DEF Sums
<1>3. \A s \in SUBSET T : g[s] = IF s = {} THEN 0 ELSE f[Some(s)] + g[s \ {Some(s)}]
    BY <1>1, <1>2
<1>4. g = [s \in SUBSET T |-> g[s]]
    OBVIOUS
<1>5. QED
    BY <1>3, <1>4 DEF Sums

\* ... and there is one.
LEMMA SumsExist ==
    ASSUME NEW S, IsFiniteSet(S), NEW f
    PROVE  \E h : Sums(h, S, f)
<1> DEFINE wrong == {T \in SUBSET S : ~ \E h : Sums(h, T, f)}
<1>1. ASSUME wrong # {} PROVE FALSE
    <2>1. PICK T \in wrong : \A U \in wrong : U \subseteq T => U = T
        <3>1. wrong \subseteq SUBSET S
            OBVIOUS
        <3> HIDE DEF wrong
        <3>2. QED
            BY <1>1, <3>1, SmallestSubset
    <2>2. \A U \in SUBSET T : U # T => \E h : Sums(h, U, f)
        BY <2>1
    <2> DEFINE sumOver(U) == (CHOOSE h : Sums(h, U, f))[U]
               g == [s \in SUBSET T |-> IF s = {} THEN 0 ELSE f[Some(s)] + sumOver(s \ {Some(s)})]
    <2>3. ASSUME NEW U \in SUBSET T, U # T, U # {}
          PROVE  sumOver(U) = f[Some(U)] + sumOver(U \ {Some(U)})
        <3> DEFINE V == U \ {Some(U)}
                   hU == CHOOSE h : Sums(h, U, f)
                   hV == CHOOSE h : Sums(h, V, f)
        <3>1. V \in SUBSET U /\ V \in SUBSET T /\ V # T /\ IsFiniteSet(V)
            BY <2>3, FS_Subset
        <3>2. Sums(hU, U, f) /\ Sums(hV, V, f)
            BY <2>2, <2>3, <3>1
        <3> HIDE DEF hU, hV
        <3> DEFINE gV == [s \in SUBSET V |-> hU[s]]
        <3>3. gV = [s \in SUBSET V |-> hU[s]]
            OBVIOUS
        <3> HIDE DEF V, gV
        <3>4. Sums(gV, V, f)
            BY <3>1, <3>2, <3>3, SumsWithin
        <3>5. hV[V] = hU[V]
            BY <3>1, <3>2, <3>3, <3>4, SumsUnique
        <3>6. hU[U] = f[Some(U)] + hU[V]
            BY <2>3, <3>2 DEF Sums, V
        <3>7. QED
            BY <3>5, <3>6 DEF hU, hV, V
    <2>4. ASSUME NEW U \in SUBSET T, U # T PROVE sumOver(U) = g[U]
        <3>1. CASE U = {}
            <4>1. Sums(CHOOSE h : Sums(h, U, f), U, f)
                BY <2>2, <2>4
            <4>2. QED
                BY <3>1, <4>1 DEF Sums
        <3>2. CASE U # {}
            <4> HIDE DEF sumOver
            <4>1. QED
                BY <2>3, <2>4, <3>2
        <3>3. QED
            BY <3>1, <3>2
    <2> HIDE DEF sumOver
    <2>5. \A s \in SUBSET T : g[s] = IF s = {} THEN 0 ELSE f[Some(s)] + g[s \ {Some(s)}]
        <3> SUFFICES ASSUME NEW s \in SUBSET T, s # {}
                     PROVE  g[s] = f[Some(s)] + g[s \ {Some(s)}]
            OBVIOUS
        <3>1. s \ {Some(s)} \in SUBSET T /\ s \ {Some(s)} # T
            BY SomeIn
        <3>2. sumOver(s \ {Some(s)}) = g[s \ {Some(s)}]
            BY <2>4, <3>1
        <3>3. QED
            BY <3>2
    <2>6. Sums(g, T, f)
        BY <2>5 DEF Sums
    <2>7. QED
        BY <2>1, <2>6
<1>2. QED
    BY <1>1

\* Sum is what the recursion says.
LEMMA SumIs ==
    ASSUME NEW S, IsFiniteSet(S), NEW f, DOMAIN f = S
    PROVE  \E h : Sums(h, S, f) /\ Sum(f) = h[S]
<1> DEFINE iter == CHOOSE h : Sums(h, S, f)
<1>1. Sums(iter, S, f)
    BY SumsExist
<1>2. Sum(f) = iter[S]
    BY DEF Sum, FoldFunction, FoldFunctionOnSet, MapThenFoldSet, Sums, Some
<1>3. QED
    BY <1>1, <1>2

\* A sum of naturals is one, and grows with what is summed.
LEMMA SumGrows ==
    ASSUME NEW S, IsFiniteSet(S), NEW f \in [S -> Nat], NEW g \in [S -> Nat],
           \A x \in S : f[x] <= g[x]
    PROVE  Sum(f) \in Nat /\ Sum(g) \in Nat /\ Sum(f) <= Sum(g)
<1>1. PICK hf : Sums(hf, S, f) /\ Sum(f) = hf[S]
    BY SumIs
<1>2. PICK hg : Sums(hg, S, g) /\ Sum(g) = hg[S]
    BY SumIs
<1> DEFINE Right(s) == hf[s] \in Nat /\ hg[s] \in Nat /\ hf[s] <= hg[s]
           wrong == {s \in SUBSET S : ~ Right(s)}
<1>3. ASSUME wrong # {} PROVE FALSE
    <2>1. PICK s \in wrong : \A t \in wrong : t \subseteq s => t = s
        <3>1. wrong \subseteq SUBSET S
            OBVIOUS
        <3> HIDE DEF wrong
        <3>2. QED
            BY <1>3, <3>1, SmallestSubset
    <2>2. CASE s = {}
        <3>1. hf[s] = 0 /\ hg[s] = 0
            BY <1>1, <1>2, <2>2 DEF Sums
        <3>2. QED
            BY <3>1
    <2>3. CASE s # {}
        <3> DEFINE x == Some(s)
        <3>1. x \in s /\ s \ {x} \in SUBSET S /\ s \ {x} \subseteq s /\ s \ {x} # s
            BY <2>3, SomeIn
        <3>2. Right(s \ {x})
            BY <2>1, <3>1
        <3>3. hf[s] = f[x] + hf[s \ {x}] /\ hg[s] = g[x] + hg[s \ {x}]
            BY <1>1, <1>2, <2>3 DEF Sums
        <3>4. f[x] \in Nat /\ g[x] \in Nat /\ f[x] <= g[x]
            BY <3>1
        <3>5. Right(s)
            BY <3>2, <3>3, <3>4
        <3>6. QED
            BY <3>5
    <2>4. QED
        BY <2>2, <2>3
<1>4. Right(S)
    BY <1>3
<1>5. QED
    BY <1>1, <1>2, <1>4

\* The tables of plays.
PlayTables == [User -> [Song -> Nat]]

LEMMA SongIsFinite == IsFiniteSet(Song)
<1>1. PICK n \in Nat : DOMAIN Catalog = 1..n
    BY RecommendationsAssumption
<1>2. Catalog \in [1..n -> Song]
    BY <1>1, RecommendationsAssumption DEF Song
<1>3. IsFiniteSet(1..n)
    BY FS_Interval
<1>4. Catalog \in Surjection(1..n, Song)
    BY <1>1, <1>2 DEF Song, Range, Surjection
<1>5. QED
    BY <1>3, <1>4, FS_Surjection

\* The more plays, the larger their total.
LEMMA TotalGrows ==
    ASSUME NEW p \in PlayTables, NEW q \in PlayTables,
           \A u \in User, s \in Song : p[u][s] <= q[u][s]
    PROVE  Total(p) \in Nat /\ Total(q) \in Nat /\ Total(p) <= Total(q)
<1> DEFINE P == [u \in User |-> Sum(p[u])]
           Q == [u \in User |-> Sum(q[u])]
<1>1. \A u \in User : Sum(p[u]) \in Nat /\ Sum(q[u]) \in Nat /\ Sum(p[u]) <= Sum(q[u])
    BY SongIsFinite, SumGrows DEF PlayTables
<1>2. P \in [User -> Nat] /\ Q \in [User -> Nat] /\ \A u \in User : P[u] <= Q[u]
    BY <1>1
<1> HIDE DEF P, Q
<1>3. Sum(P) \in Nat /\ Sum(Q) \in Nat /\ Sum(P) <= Sum(Q)
    BY <1>2, RecommendationsAssumption, SumGrows
<1>4. QED
    BY <1>3 DEF Total, P, Q

----------------------------------------------------------------------------
(* No list forgets the last plays.  While a pass holds the lock, nobody else stores what *)
(* counts; so what it has read is at least as new as anything that is stored.            *)

\* How much data a list is computed from.
Data(songsRead, p) == Cardinality(songsRead) + Total(p)

DataTypeOK ==
    /\ ready \subseteq Song
    /\ plays \in PlayTables
    /\ songs \in [Pass -> SUBSET Song]
    /\ counts \in [Pass -> PlayTables]
    /\ basis \in [User -> Nat]

\* What a pass that has not overrun has read, and will store, is not behind the lists.
Fresh(p) ==
    /\ pc[p] = "plays" =>
        /\ songs[p] \subseteq ready
        /\ \A u \in User : basis[u] <= Data(songs[p], plays)
    /\ pc[p] = "store" =>
        /\ songs[p] \subseteq ready
        /\ \A u \in User, s \in Song : counts[p][u][s] <= plays[u][s]
        /\ \A u \in User : basis[u] <= Data(songs[p], counts[p])

FreshInv ==
    /\ DataTypeOK
    /\ \A u \in User : basis[u] <= Data(ready, plays)
    /\ \A p \in Pass \ overrun : Fresh(p)

\* More songs and more plays are more data.
LEMMA DataGrows ==
    ASSUME NEW R \in SUBSET Song, NEW S \in SUBSET R,
           NEW p \in PlayTables, NEW q \in PlayTables,
           \A u \in User, s \in Song : p[u][s] <= q[u][s]
    PROVE  Data(S, p) \in Nat /\ Data(R, q) \in Nat /\ Data(S, p) <= Data(R, q)
<1>1. IsFiniteSet(R)
    BY SongIsFinite, FS_Subset
<1>2. Cardinality(S) \in Nat /\ Cardinality(R) \in Nat /\ Cardinality(S) <= Cardinality(R)
    BY <1>1, FS_Subset, FS_CardinalityType
<1>3. QED
    BY <1>2, TotalGrows DEF Data

\* Passes that learn nothing, while nothing newer is stored, stay fresh.
LEMMA FreshStays ==
    ASSUME FreshInv, DataTypeOK',
           ready \subseteq ready',
           \A u \in User, s \in Song : plays[u][s] <= plays'[u][s],
           \A u \in User : basis'[u] <= basis[u],
           NEW p \in Pass \ overrun, pc'[p] = pc[p], songs'[p] = songs[p], counts'[p] = counts[p]
    PROVE  Fresh(p)'
<1>1. Fresh(p)
    BY DEF FreshInv
<1>2. CASE pc[p] = "plays"
    <2>1. songs[p] \in SUBSET Song /\ plays \in PlayTables /\ plays' \in PlayTables
        BY DEF FreshInv, DataTypeOK
    <2>2. Data(songs[p], plays) \in Nat /\ Data(songs[p], plays') \in Nat
          /\ Data(songs[p], plays) <= Data(songs[p], plays')
        BY <2>1, DataGrows
    <2>3. \A u \in User : basis'[u] \in Nat /\ basis[u] \in Nat
        BY DEF FreshInv, DataTypeOK
    <2>4. QED
        BY <1>1, <1>2, <2>2, <2>3 DEF Fresh, Data
<1>3. CASE pc[p] = "store"
    <2>1. \A u \in User, s \in Song :
            counts[p][u][s] \in Nat /\ plays[u][s] \in Nat /\ plays'[u][s] \in Nat
        BY DEF FreshInv, DataTypeOK, PlayTables
    <2>2. \A u \in User : basis'[u] \in Nat /\ basis[u] \in Nat
        BY DEF FreshInv, DataTypeOK
    <2>3. songs[p] \in SUBSET Song /\ counts[p] \in PlayTables
        BY DEF FreshInv, DataTypeOK
    <2>4. Data(songs[p], counts[p]) \in Nat
        BY <2>1, <2>3, DataGrows
    <2>5. QED
        BY <1>1, <1>3, <2>1, <2>2, <2>4 DEF Fresh, Data
<1>4. QED
    BY <1>2, <1>3 DEF Fresh

\* What is stored stays behind the data.
LEMMA DataStaysAhead ==
    ASSUME FreshInv, DataTypeOK', ready \subseteq ready',
           \A u \in User, s \in Song : plays[u][s] <= plays'[u][s],
           NEW u \in User, basis'[u] <= basis[u]
    PROVE  basis'[u] <= Data(ready', plays')
<1>1. Data(ready, plays) \in Nat /\ Data(ready', plays') \in Nat
      /\ Data(ready, plays) <= Data(ready', plays')
    BY DataGrows DEF FreshInv, DataTypeOK
<1>2. basis'[u] \in Nat /\ basis[u] \in Nat /\ basis[u] <= Data(ready, plays)
    BY DEF FreshInv, DataTypeOK
<1>3. QED
    BY <1>1, <1>2

LEMMA InitFresh == Init => FreshInv
<1> SUFFICES ASSUME Init PROVE FreshInv
    OBVIOUS
<1>1. NoPlays \in PlayTables
    BY DEF NoPlays, PlayTables
<1>2. DataTypeOK
    BY <1>1, RecommendationsAssumption DEF Init, DataTypeOK
<1>3. \A u \in User : basis[u] <= Data(ready, plays)
    <2>1. Data(ready, plays) \in Nat
        <3>1. \A u \in User, s \in Song : plays[u][s] <= plays[u][s]
            BY <1>2 DEF DataTypeOK, PlayTables
        <3>2. QED
            BY <1>2, <3>1, DataGrows DEF DataTypeOK
    <2>2. QED
        BY <2>1 DEF Init
<1>4. \A p \in Pass \ overrun : Fresh(p)
    BY DEF Init, Fresh
<1>5. QED
    BY <1>2, <1>3, <1>4 DEF FreshInv

\* A step that reads no data and stores none that counts.
LEMMA QuietFresh ==
    ASSUME FreshInv, DataTypeOK', ready \subseteq ready',
           \A u \in User, s \in Song : plays[u][s] <= plays'[u][s],
           \A u \in User : basis'[u] <= basis[u],
           \A p \in Pass \ overrun' :
                \/ pc'[p] \notin {"plays", "store"}
                \/ /\ p \notin overrun
                   /\ pc'[p] = pc[p] /\ songs'[p] = songs[p] /\ counts'[p] = counts[p]
    PROVE  FreshInv'
<1>1. \A p \in Pass \ overrun' : Fresh(p)'
    <2> SUFFICES ASSUME NEW p \in Pass \ overrun' PROVE Fresh(p)'
        OBVIOUS
    <2>1. CASE pc'[p] \notin {"plays", "store"}
        BY <2>1 DEF Fresh
    <2>2. CASE /\ p \notin overrun
               /\ pc'[p] = pc[p] /\ songs'[p] = songs[p] /\ counts'[p] = counts[p]
        BY <2>2, FreshStays
    <2>3. QED
        BY <2>1, <2>2
<1>2. \A u \in User : basis'[u] <= Data(ready', plays')
    BY DataStaysAhead
<1>3. QED
    BY <1>1, <1>2 DEF FreshInv, Data

\* The numbers compare with themselves.
LEMMA SameData ==
    ASSUME DataTypeOK
    PROVE  /\ \A u \in User, s \in Song : plays[u][s] <= plays[u][s]
           /\ \A u \in User : basis[u] <= basis[u] /\ 0 <= basis[u]
BY DEF DataTypeOK, PlayTables

\* The first statement of a pass ...
LEMMA FetchReadySongsFresh ==
    ASSUME IInv, FreshInv, NEW p \in Pass, FetchReadySongs(p) PROVE FreshInv'
<1>1. DataTypeOK'
    BY DEF FreshInv, DataTypeOK, FetchReadySongs, dataVars, recVars
<1>2. ASSUME NEW q \in Pass \ overrun', q # p PROVE Fresh(q)'
    BY <1>1, <1>2, SameData, FreshStays
       DEF FetchReadySongs, IInv, LockTypeOK, FreshInv, DataTypeOK, dataVars, recVars
<1>3. Fresh(p)'
    BY DEF FetchReadySongs, IInv, LockTypeOK, FreshInv, DataTypeOK, dataVars, recVars, Fresh, Data
<1>4. \A u \in User : basis'[u] <= Data(ready', plays')
    BY DEF FetchReadySongs, FreshInv, dataVars, recVars
<1>5. QED
    BY <1>1, <1>2, <1>3, <1>4 DEF FreshInv, Data

\* ... and the second.
LEMMA FetchPlaysFresh ==
    ASSUME IInv, FreshInv, NEW p \in Pass, FetchPlays(p) PROVE FreshInv'
<1>1. DataTypeOK'
    BY DEF FreshInv, DataTypeOK, FetchPlays, dataVars, recVars
<1>2. ASSUME NEW q \in Pass \ overrun', q # p PROVE Fresh(q)'
    BY <1>1, <1>2, SameData, FreshStays
       DEF FetchPlays, IInv, LockTypeOK, FreshInv, DataTypeOK, dataVars, recVars
<1>3. p \notin overrun => Fresh(p)'
    <2>1. p \notin overrun => Fresh(p)
        BY DEF FreshInv
    <2>2. pc[p] = "plays" /\ pc'[p] = "store" /\ counts'[p] = plays /\ songs' = songs
          /\ UNCHANGED <<ready, plays, basis>>
        BY DEF FetchPlays, IInv, LockTypeOK, FreshInv, DataTypeOK, dataVars, recVars
    <2>3. QED
        BY <2>1, <2>2, SameData DEF FreshInv, Fresh, Data
<1>4. \A u \in User : basis'[u] <= Data(ready', plays')
    BY DEF FetchPlays, FreshInv, dataVars, recVars
<1>5. QED
    BY <1>1, <1>2, <1>3, <1>4 DEF FreshInv, Data, FetchPlays

\* A pass that goes elsewhere forgets what it has read.
LEMMA GotoKeeps ==
    ASSUME IInv, FreshInv, NEW p \in Pass, NEW place, Goto(p, place)
    PROVE  /\ songs' \in [Pass -> SUBSET Song] /\ counts' \in [Pass -> PlayTables]
           /\ pc'[p] = place
           /\ \A q \in Pass \ {p} :
                pc'[q] = pc[q] /\ songs'[q] = songs[q] /\ counts'[q] = counts[q]
<1>1. NoPlays \in PlayTables
    BY DEF NoPlays, PlayTables
<1>2. QED
    BY <1>1 DEF IInv, LockTypeOK, FreshInv, DataTypeOK, Goto

\* A list of an overrun pass does not count; and who else stores holds the lock.
LEMMA StoreFresh ==
    ASSUME IInv, FreshInv, NEW p \in Pass, NEW u \in User, Store(p, u) PROVE FreshInv'
<1> DEFINE D == Data(songs[p], counts[p])
<1>1. /\ pc[p] = "store" /\ UNCHANGED <<ready, plays, overrun>>
      /\ basis' = [basis EXCEPT ![u] = IF p \in overrun THEN 0 ELSE D]
    BY DEF Store, dataVars, Data
<1>2. /\ songs' \in [Pass -> SUBSET Song] /\ counts' \in [Pass -> PlayTables]
      /\ \A q \in Pass \ {p} :
            pc'[q] = pc[q] /\ songs'[q] = songs[q] /\ counts'[q] = counts[q]
      /\ \/ pc'[p] = "release"
         \/ pc'[p] = "store" /\ songs'[p] = songs[p] /\ counts'[p] = counts[p]
    <2>1. CASE todo[p] = {u}
        BY <2>1, GotoKeeps DEF Store
    <2>2. CASE todo[p] # {u}
        BY <1>1, <2>2 DEF Store, FreshInv, DataTypeOK
    <2>3. QED
        BY <2>1, <2>2
<1>3. D \in Nat
    <2>1. songs[p] \in SUBSET Song /\ counts[p] \in PlayTables
        BY DEF FreshInv, DataTypeOK
    <2>2. \A v \in User, s \in Song : counts[p][v][s] <= counts[p][v][s]
        BY <2>1 DEF PlayTables
    <2>3. QED
        BY <2>1, <2>2, DataGrows
<1> HIDE DEF D
<1>4. DataTypeOK'
    BY <1>1, <1>2, <1>3 DEF FreshInv, DataTypeOK
<1>5. CASE p \in overrun
    <2>1. \A v \in User : basis'[v] <= basis[v]
        BY <1>1, <1>5, SameData DEF FreshInv, DataTypeOK
    <2>2. \A q \in Pass \ overrun' :
            q \notin overrun /\ pc'[q] = pc[q] /\ songs'[q] = songs[q] /\ counts'[q] = counts[q]
        BY <1>1, <1>2, <1>5
    <2>3. QED
        BY <1>1, <1>4, <2>1, <2>2, SameData, QuietFresh DEF FreshInv
<1>6. CASE p \notin overrun
    <2>1. /\ songs[p] \subseteq ready
          /\ \A v \in User, s \in Song : counts[p][v][s] <= plays[v][s]
          /\ \A v \in User : basis[v] <= D
        BY <1>1, <1>6 DEF FreshInv, Fresh, D
    <2>2. \A v \in User : basis'[v] <= D
        BY <1>1, <1>3, <1>6, <2>1 DEF FreshInv, DataTypeOK
    <2>3. D <= Data(ready, plays) /\ Data(ready, plays) \in Nat
        BY <2>1, DataGrows DEF FreshInv, DataTypeOK, D
    <2>4. \A v \in User : basis'[v] <= Data(ready', plays')
        BY <1>1, <1>3, <1>4, <2>2, <2>3 DEF DataTypeOK
    <2>5. ASSUME NEW q \in Pass \ overrun', q # p PROVE Fresh(q)'
        <3>1. pc'[q] \notin {"plays", "store"}
            BY <1>1, <1>2, <1>6, <2>5 DEF IInv, HoldsLock, Inside
        <3>2. QED
            BY <3>1 DEF Fresh
    <2>6. Fresh(p)'
        BY <1>1, <1>2, <2>1, <2>2 DEF Fresh, Data, D
    <2>7. QED
        BY <1>4, <2>4, <2>5, <2>6 DEF FreshInv, Data
<1>7. QED
    BY <1>5, <1>6

\* The passes that end, and those that only begin
LEMMA PassFresh ==
    ASSUME IInv, FreshInv, NEW p \in Pass,
           Acquire(p) \/ Fail(p) \/ Release(p) \/ Die(p)
    PROVE  FreshInv'
<1>1. UNCHANGED <<ready, plays, basis>>
    BY DEF Acquire, Fail, Release, Die, dataVars, recVars
<1>2. /\ songs' \in [Pass -> SUBSET Song] /\ counts' \in [Pass -> PlayTables]
      /\ pc'[p] \in {"songs", "release", "idle"}
      /\ \A q \in Pass \ {p} :
            pc'[q] = pc[q] /\ songs'[q] = songs[q] /\ counts'[q] = counts[q]
    <2>1. CASE Acquire(p)
        BY <2>1 DEF Acquire, IInv, LockTypeOK, FreshInv, DataTypeOK
    <2>2. CASE Fail(p)
        BY <2>2, GotoKeeps DEF Fail
    <2>3. CASE Release(p) \/ Die(p)
        BY <2>3, GotoKeeps DEF Release, Die, End
    <2>4. QED
        BY <2>1, <2>2, <2>3
<1>3. \A q \in Pass \ {p} : q \in overrun => q \in overrun'
    BY DEF Acquire, Fail, Release, Die, End
<1>4. DataTypeOK'
    BY <1>1, <1>2 DEF FreshInv, DataTypeOK
<1>5. QED
    BY <1>1, <1>2, <1>3, <1>4, SameData, QuietFresh DEF FreshInv

\* The rest of the system: keys expire, songs and plays come.
LEMMA RestFresh ==
    ASSUME FreshInv,
           \/ LockExpires
           \/ \E u \in User : RecExpires(u)
           \/ \E s \in Song : SongReady(s)
           \/ \E u \in User, s \in Song : Play(u, s)
    PROVE  FreshInv'
<1>1. UNCHANGED <<pc, songs, counts>> /\ overrun \subseteq overrun'
    BY DEF LockExpires, RecExpires, SongReady, Play
<1>2. plays' \in PlayTables /\ \A u \in User, s \in Song : plays[u][s] <= plays'[u][s]
    <2>1. CASE UNCHANGED plays
        BY <2>1, SameData DEF FreshInv, DataTypeOK
    <2>2. CASE \E u \in User, s \in Song : plays' = [plays EXCEPT ![u][s] = @ + 1]
        BY <2>2 DEF FreshInv, DataTypeOK, PlayTables
    <2>3. QED
        BY <2>1, <2>2 DEF LockExpires, RecExpires, SongReady, Play, dataVars
<1>3. ready \subseteq ready' /\ ready' \subseteq Song
    BY DEF LockExpires, RecExpires, SongReady, Play, dataVars, FreshInv, DataTypeOK
<1>4. basis' \in [User -> Nat] /\ \A u \in User : basis'[u] <= basis[u]
    BY SameData DEF LockExpires, RecExpires, SongReady, Play, recVars, FreshInv, DataTypeOK
<1>5. DataTypeOK'
    BY <1>1, <1>2, <1>3, <1>4 DEF FreshInv, DataTypeOK
<1>6. QED
    BY <1>1, <1>2, <1>3, <1>4, <1>5, QuietFresh

LEMMA NextFresh == IInv /\ FreshInv /\ [Next]_vars => FreshInv'
<1> SUFFICES ASSUME IInv, FreshInv, [Next]_vars PROVE FreshInv'
    OBVIOUS
<1>1. CASE UNCHANGED vars
    BY <1>1 DEF vars, FreshInv, DataTypeOK, Fresh, Data
<1>2. CASE Next
    BY <1>2, FetchReadySongsFresh, FetchPlaysFresh, StoreFresh, PassFresh, RestFresh DEF Next
<1>3. QED
    BY <1>1, <1>2

\* Only a pass that has read more than is stored replaces it by a list that counts.
LEMMA StepNeverOlder ==
    ASSUME FreshInv, [Next]_vars, NEW u \in User
    PROVE  basis'[u] # 0 => basis'[u] >= basis[u]
<1>1. CASE UNCHANGED basis
    BY <1>1, SameData DEF FreshInv, DataTypeOK
<1>2. ASSUME NEW p \in Pass, NEW v \in User, Store(p, v)
      PROVE  basis'[u] # 0 => basis'[u] >= basis[u]
    <2>1. CASE p \in overrun \/ u # v
        BY <1>2, <2>1, SameData DEF Store, FreshInv, DataTypeOK
    <2>2. CASE p \notin overrun /\ u = v
        <3>1. basis'[u] = Data(songs[p], counts[p])
            BY <1>2, <2>2 DEF Store, FreshInv, DataTypeOK, Data
        <3>2. basis[u] <= Data(songs[p], counts[p])
            BY <1>2, <2>2 DEF Store, FreshInv, Fresh
        <3>3. Data(songs[p], counts[p]) \in Nat /\ basis[u] \in Nat
            <4>1. songs[p] \in SUBSET Song /\ counts[p] \in PlayTables
                BY DEF FreshInv, DataTypeOK
            <4>2. \A w \in User, s \in Song : counts[p][w][s] <= counts[p][w][s]
                BY <4>1 DEF PlayTables
            <4>3. QED
                BY <4>1, <4>2, DataGrows DEF FreshInv, DataTypeOK
        <3>4. QED
            BY <3>1, <3>2, <3>3
    <2>3. QED
        BY <2>1, <2>2
<1>3. ASSUME NEW v \in User, RecExpires(v) PROVE basis'[u] # 0 => basis'[u] >= basis[u]
    BY <1>3, SameData DEF RecExpires, FreshInv, DataTypeOK
<1>4. CASE UNCHANGED recVars \/ UNCHANGED vars
    BY <1>1, <1>4 DEF recVars, vars
<1>5. QED
    BY <1>2, <1>3, <1>4
    DEF Next, Acquire, FetchReadySongs, FetchPlays, Fail, Release, Die, LockExpires, SongReady, Play

\* Unless an overrun pass is involved, a list is replaced only by one computed from data
\* at least as new, for any number of passes, users, songs and plays.
THEOREM NeverOlderSafe == Spec => NeverOlderData
<1>1. FreshInv /\ [Next]_vars => [\A u \in User : basis'[u] # 0 => basis'[u] >= basis[u]]_vars
    BY StepNeverOlder
<1>2. QED
    BY <1>1, Invariance, InitFresh, NextFresh, PTL DEF Spec, NeverOlderData

----------------------------------------------------------------------------
(* One list of popular songs serves every limit, as it is as long as any client may ask. *)

\* The smaller of two numbers.
LEMMA MinOfTwo ==
    ASSUME NEW a \in Nat, NEW b \in Nat
    PROVE  Min({a, b}) = IF a <= b THEN a ELSE b
<1> DEFINE m == IF a <= b THEN a ELSE b
<1>1. m \in {a, b} /\ \A y \in {a, b} : m <= y
    OBVIOUS
<1>2. \A x \in {a, b} : (\A y \in {a, b} : x <= y) => x = m
    OBVIOUS
<1>3. QED
    BY <1>1, <1>2 DEF Min

\* The songs there are to rank, as many as fit, once each, most played first.
Serves(q) ==
    /\ IsFiniteSet(DOMAIN q.heard)
    /\ q.list \in [1..Min({CacheMax, Cardinality(DOMAIN q.heard)}) -> DOMAIN q.heard]
    /\ IsInjective(q.list)
    /\ \A i \in DOMAIN q.list, s \in DOMAIN q.heard :
         q.heard[s] > q.heard[q.list[i]] => \E j \in 1..(i - 1) : q.list[j] = s

ServesInv ==
    /\ popular # None => Serves(popular.query)
    /\ DOMAIN computed = Request
    /\ \A r \in Request : computed[r] # None => Serves(computed[r])

\* A query that grows older keeps its list.
LEMMA OlderServes ==
    ASSUME NEW q, IsQuery(q), Serves(q)
    PROVE  Serves(Older(q))
<1>1. Older(q) = [list |-> q.list, heard |-> q.heard, age |-> q.age + 1]
    BY DEF IsQuery, Older
<1>2. Older(q).list = q.list /\ Older(q).heard = q.heard
    BY <1>1
<1>3. QED
    BY <1>2 DEF Serves

LEMMA QueryServes ==
    ASSUME DataTypeOK, ServesInv, NEW r \in Request, Query(r) PROVE ServesInv'
<1>1. PICK list \in MostPlayed(CacheMax) :
        computed' = [computed EXCEPT ![r] = [list |-> list, heard |-> Heard, age |-> 0]]
    BY DEF Query
<1>2. IsFiniteSet(DOMAIN Heard)
    <2>1. DOMAIN Heard \subseteq Song
        BY DEF Heard, DataTypeOK
    <2>2. QED
        BY <2>1, SongIsFinite, FS_Subset
<1> DEFINE new == [list |-> list, heard |-> Heard, age |-> 0]
<1>3. Serves(new)
    <2>1. new.list = list /\ new.heard = Heard
        OBVIOUS
    <2> HIDE DEF new
    <2>2. QED
        BY <1>2, <2>1 DEF Serves, MostPlayed
<1> HIDE DEF new
<1>4. computed' = [computed EXCEPT ![r] = new] /\ UNCHANGED popular
    BY <1>1 DEF new, Query
<1>5. QED
    BY <1>3, <1>4 DEF ServesInv

LEMMA NextServes ==
    DataTypeOK /\ AgesOK /\ ServesInv /\ [ListeningNext]_allVars => ServesInv'
<1> SUFFICES ASSUME DataTypeOK, AgesOK, ServesInv, [ListeningNext]_allVars PROVE ServesInv'
    OBVIOUS
<1>1. ASSUME NEW r \in Request, Query(r) PROVE ServesInv'
    BY <1>1, QueryServes
<1>2. ASSUME NEW r \in Request, StorePopular(r) PROVE ServesInv'
    BY <1>2 DEF ServesInv, StorePopular, Answered
<1>3. ASSUME NEW r \in Request, GiveUp(r) PROVE ServesInv'
    BY <1>3 DEF ServesInv, GiveUp, Answered
<1>4. ASSUME NEW r \in Request, NEW n \in Limits, Miss(r, n) PROVE ServesInv'
    BY <1>4 DEF ServesInv, Miss
<1>5. CASE Tick
    <2>1. \A r \in Request : computed'[r] # None => Serves(computed'[r])
        BY <1>5, OlderServes DEF Tick, ServesInv, AgesOK
    <2>2. ASSUME popular' # None PROVE Serves(popular'.query)
        <3>1. popular # None /\ popular'.query = Older(popular.query)
            BY <1>5, <2>2 DEF Tick
        <3>2. QED
            BY <3>1, OlderServes DEF ServesInv, AgesOK
    <2>3. QED
        BY <1>5, <2>1, <2>2 DEF ServesInv, Tick
<1>6. CASE PopularLost
    BY <1>6 DEF ServesInv, PopularLost
<1>7. CASE UNCHANGED popularVars
    BY <1>7 DEF ServesInv, popularVars
<1>8. QED
    BY <1>1, <1>2, <1>3, <1>4, <1>5, <1>6, <1>7
    DEF ListeningNext, PopularNext, allVars, popularVars

\* The beginning of a list.
LEMMA Beginning ==
    ASSUME NEW S, NEW n \in Nat, NEW list \in [1..n -> S], NEW k \in 0..n
    PROVE  /\ SubSeq(list, 1, k) \in [1..k -> S]
           /\ SubSeq(list, 1, k) \in Seq(S) /\ Len(SubSeq(list, 1, k)) = k
           /\ \A i \in 1..k : SubSeq(list, 1, k)[i] = list[i]
<1> DEFINE first == SubSeq(list, 1, k)
<1>1. list \in Seq(S) /\ Len(list) = n /\ k \in 0..Len(list)
    OBVIOUS
<1>2. first = Restrict(list, 1..k)
    BY <1>1, SubSeqRestrict, Zenon
<1> HIDE DEF first
<1>3. first = [i \in 1..k |-> list[i]]
    BY <1>2 DEF Restrict
<1>4. \A i \in 1..k : list[i] \in S /\ first[i] = list[i]
    BY <1>3
<1>5. first \in [1..k -> S]
    BY <1>3, <1>4
<1>6. first \in Seq(S) /\ Len(first) = k
    BY <1>5
<1>7. QED
    BY <1>4, <1>5, <1>6 DEF first

\* An answer is the beginning of the list.
LEMMA AnswerServes ==
    ASSUME NEW q, Serves(q), NEW n \in Limits
    PROVE  LET answer == AnswerFrom(q.list, n)
           IN  /\ Len(answer) = Min({n, Cardinality(DOMAIN q.heard)})
               /\ IsInjective(answer)
               /\ Range(answer) \subseteq DOMAIN q.heard
               /\ \A i \in DOMAIN answer, s \in DOMAIN q.heard :
                    q.heard[s] > q.heard[answer[i]] => \E j \in 1..(i - 1) : answer[j] = s
<1> DEFINE H == DOMAIN q.heard
           more(s, t) == q.heard[s] > q.heard[t]
           h == Cardinality(H)
           m == Min({CacheMax, h})
           k == Min({n, m})
           list == q.list
           answer == SubSeq(list, 1, k)
<1>1. h \in Nat /\ n \in Nat /\ CacheMax \in Nat /\ 1 <= n /\ n <= CacheMax
    BY FS_CardinalityType, PopularAssumption DEF Serves
<1>2. m \in Nat /\ m = IF CacheMax <= h THEN CacheMax ELSE h
    BY <1>1, MinOfTwo
<1>3. k \in Nat /\ k <= m /\ k = Min({n, h})
    BY <1>1, <1>2, MinOfTwo
<1>4. /\ list \in [1..m -> H]
      /\ \A i, j \in 1..m : list[i] = list[j] => i = j
      /\ \A i \in 1..m, s \in H : more(s, list[i]) => \E j \in 1..(i - 1) : list[j] = s
    BY DEF Serves, IsInjective
<1> HIDE DEF h, m, k, list, H, more
<1>5. list \in Seq(H) /\ Len(list) = m
    BY <1>2, <1>4
<1>6. answer \in Seq(H) /\ Len(answer) = k /\ \A i \in 1..k : answer[i] = list[i]
    <2>1. k \in 0..m
        BY <1>2, <1>3
    <2>2. QED
        BY <1>2, <1>4, <2>1, Beginning
<1> HIDE DEF answer
<1>7. DOMAIN answer = 1..k /\ 1..k \subseteq 1..m
    BY <1>2, <1>3, <1>6
<1>8. IsInjective(answer)
    BY <1>4, <1>6, <1>7 DEF IsInjective
<1>9. Range(answer) \subseteq H
    BY <1>4, <1>6, <1>7 DEF Range
<1>10. \A i \in DOMAIN answer, s \in H : more(s, answer[i]) => \E j \in 1..(i - 1) : answer[j] = s
    <2> SUFFICES ASSUME NEW i \in 1..k, NEW s \in H, more(s, answer[i])
                 PROVE  \E j \in 1..(i - 1) : answer[j] = s
        BY <1>7
    <2>1. i \in 1..m /\ answer[i] = list[i]
        BY <1>6, <1>7
    <2>2. PICK j \in 1..(i - 1) : list[j] = s
        BY <1>4, <2>1
    <2>3. j \in 1..k
        BY <1>3
    <2>4. answer[j] = s
        BY <1>6, <2>2, <2>3
    <2>5. QED
        BY <2>4
<1>11. AnswerFrom(list, n) = answer
    <2>1. Min({n, Len(list)}) = k
        BY <1>5 DEF k
    <2>2. QED
        BY <2>1 DEF AnswerFrom, answer
<1>12. Len(answer) = Min({n, h})
    BY <1>3, <1>6
<1>13. QED
    BY <1>8, <1>9, <1>10, <1>11, <1>12, Zenon DEF h, list, H, more

\* Whoever computed the list, and for whatever limit, an answer from it has as many songs
\* as it asks for, or all there were, once each, and no song that was played more than one
\* of them is missing before it.
THEOREM OneListSafe == ListeningSpec => []OneListServesAll
<1>1. ServesInv => OneListServesAll
    BY AnswerServes DEF ServesInv, OneListServesAll
<1>2. PopularInit => ServesInv
    BY DEF PopularInit, ServesInv
<1>3. FreshInv => DataTypeOK
    BY DEF FreshInv
<1>4. QED
    BY <1>1, <1>2, <1>3, NextServes, InitAges, ListeningAges, PassesUndisturbed,
       Invariance, InitFresh, NextFresh, PTL DEF ListeningSpec, Spec

----------------------------------------------------------------------------
(* The ranking.  Its three parts are sorted by different keys; put together, no song     *)
(* deserves to precede one that it follows.                                              *)

\* A finite set on which R is a strict total order can be listed in that order: every
\* member has the place that the number of those before it tells.
LEMMA CanBeListed ==
    ASSUME NEW S, IsFiniteSet(S), NEW R,
           \A s \in S : <<s, s>> \notin R,
           \A s, t, v \in S : <<s, t>> \in R /\ <<t, v>> \in R => <<s, v>> \in R,
           \A s, t \in S : s = t \/ <<s, t>> \in R \/ <<t, s>> \in R
    PROVE  \E list \in [1..Cardinality(S) -> S] :
              \A i, j \in 1..Cardinality(S) : i < j => <<list[i], list[j]>> \in R
<1> DEFINE n == Cardinality(S)
           before(s) == {t \in S : <<t, s>> \in R}
           place == [s \in S |-> Cardinality(before(s)) + 1]
<1>1. n \in Nat
    BY FS_CardinalityType
<1>2. ASSUME NEW s \in S PROVE IsFiniteSet(before(s)) /\ Cardinality(before(s)) \in 0..(n - 1)
    <2>1. before(s) \subseteq S \ {s}
        OBVIOUS
    <2>2. IsFiniteSet(S \ {s}) /\ Cardinality(S \ {s}) = n - 1
        BY FS_RemoveElement
    <2> HIDE DEF before, n
    <2>3. IsFiniteSet(before(s)) /\ Cardinality(before(s)) <= n - 1
        BY <2>1, <2>2, FS_Subset
    <2>4. QED
        BY <1>1, <2>3, FS_CardinalityType
<1>3. \A s \in S : \A t \in before(s) : t \in S /\ <<t, s>> \in R
    OBVIOUS
<1>4. \A s, t \in S : <<s, t>> \in R => before(s) \cup {s} \subseteq before(t) /\ s \notin before(s)
    OBVIOUS
<1> HIDE DEF before, n
<1>5. place \in [S -> 1..n] /\ \A s \in S : place[s] = Cardinality(before(s)) + 1
    BY <1>1, <1>2
<1>6. ASSUME NEW s \in S, NEW t \in S, <<s, t>> \in R PROVE place[s] < place[t]
    <2>1. before(s) \cup {s} \subseteq before(t) /\ s \notin before(s)
        BY <1>4, <1>6
    <2>2. IsFiniteSet(before(s)) /\ IsFiniteSet(before(t))
          /\ Cardinality(before(s)) \in Nat /\ Cardinality(before(t)) \in Nat
        BY <1>1, <1>2
    <2>3. Cardinality(before(s) \cup {s}) = Cardinality(before(s)) + 1
        BY <2>1, <2>2, FS_AddElement
    <2>4. Cardinality(before(s) \cup {s}) <= Cardinality(before(t))
        BY <2>1, <2>2, FS_Subset
    <2>5. QED
        BY <1>5, <2>2, <2>3, <2>4
<1> HIDE DEF place
<1>7. \A s, t \in S : place[s] = place[t] => s = t
    <2> SUFFICES ASSUME NEW s \in S, NEW t \in S, place[s] = place[t], s # t PROVE FALSE
        OBVIOUS
    <2>1. place[s] \in Nat /\ place[t] \in Nat
        BY <1>1, <1>5
    <2>2. place[s] < place[t] \/ place[t] < place[s]
        BY <1>6
    <2>3. QED
        BY <2>1, <2>2
<1>8. \A i \in 1..n : \E s \in S : place[s] = i
    <2>1. place \in Injection(S, 1..n)
        BY <1>5, <1>7 DEF Injection, IsInjective
    <2>2. IsFiniteSet(1..n) /\ Cardinality(1..n) = n
        BY <1>1, FS_Interval
    <2>3. place \in Surjection(S, 1..n)
        BY <2>1, <2>2, FS_Injection DEF n
    <2>4. QED
        BY <2>3 DEF Surjection
<1> DEFINE list == [i \in 1..n |-> CHOOSE s \in S : place[s] = i]
<1>9. \A i \in 1..n : list[i] \in S /\ place[list[i]] = i
    BY <1>8
<1>10. list \in [1..n -> S]
    BY <1>9
<1> HIDE DEF list
<1>11. ASSUME NEW i \in 1..n, NEW j \in 1..n, i < j PROVE <<list[i], list[j]>> \in R
    <2>1. list[i] \in S /\ list[j] \in S /\ place[list[i]] = i /\ place[list[j]] = j
        BY <1>9
    <2>2. list[i] # list[j]
        BY <1>11, <2>1
    <2>3. <<list[j], list[i]>> \notin R
        <3>1. <<list[j], list[i]>> \in R => j < i
            BY <1>6, <2>1
        <3>2. QED
            BY <1>11, <3>1
    <2>4. QED
        BY <2>1, <2>2, <2>3
<1>12. QED
    BY <1>10, <1>11 DEF n

\* A list of the members of C, once each, in which no pair is the wrong way round.
Lists(list, C, W) ==
    /\ list \in [1..Cardinality(C) -> C]
    /\ IsInjective(list)
    /\ Range(list) = C
    /\ \A i, j \in 1..Cardinality(C) : i < j => <<list[i], list[j]>> \in W

\* A list in which every pair is in order has every member, and once.
LEMMA OrderedLists ==
    ASSUME NEW C, IsFiniteSet(C), NEW W, NEW list \in [1..Cardinality(C) -> C],
           \A i, j \in 1..Cardinality(C) : i < j => <<list[i], list[j]>> \in W,
           \A s \in C : <<s, s>> \notin W
    PROVE  Lists(list, C, W)
<1> DEFINE n == Cardinality(C)
<1>1. n \in Nat
    BY FS_CardinalityType
<1>2. \A i, j \in 1..n : list[i] = list[j] => i = j
    <2> SUFFICES ASSUME NEW i \in 1..n, NEW j \in 1..n, list[i] = list[j], i # j PROVE FALSE
        OBVIOUS
    <2>1. i < j \/ j < i
        BY <1>1
    <2>2. list[i] \in C
        OBVIOUS
    <2>3. QED
        BY <2>1, <2>2
<1>3. list \in Injection(1..n, C) /\ IsInjective(list)
    BY <1>2 DEF Injection, IsInjective
<1>4. Cardinality(1..n) = n
    BY <1>1, FS_Interval
<1>5. list \in Surjection(1..n, C)
    BY <1>3, <1>4, FS_Injection
<1>6. Range(list) = C
    BY <1>5 DEF Surjection, Range
<1>7. QED
    BY <1>3, <1>6 DEF Lists

\* Of two songs one is newer.
LEMMA NewerIsTotal ==
    /\ \A s \in Song : ~Newer(s, s)
    /\ \A s, t \in Song : s = t \/ Newer(s, t) \/ Newer(t, s)
    /\ \A s, t, v \in Song : Newer(s, t) /\ Newer(t, v) => Newer(s, v)
<1>1. PICK n \in Nat : DOMAIN Catalog = 1..n
    BY RecommendationsAssumption
<1>2. \A i, j \in 1..n : Catalog[i] = Catalog[j] => i = j
    BY <1>1, RecommendationsAssumption DEF IsInjective
<1>3. \A s \in Song : \E i \in 1..n : Catalog[i] = s
    BY <1>1 DEF Song, Range
<1>4. \A s, t : Newer(s, t) <=> \E i, j \in 1..n : i < j /\ Catalog[i] = s /\ Catalog[j] = t
    BY <1>1 DEF Newer
<1>5. \A s \in Song : ~Newer(s, s)
    BY <1>2, <1>4
<1>6. ASSUME NEW s \in Song, NEW t \in Song PROVE s = t \/ Newer(s, t) \/ Newer(t, s)
    <2>1. PICK i \in 1..n : Catalog[i] = s
        BY <1>3
    <2>2. PICK j \in 1..n : Catalog[j] = t
        BY <1>3
    <2>3. i = j \/ i < j \/ j < i
        OBVIOUS
    <2>4. QED
        BY <1>4, <2>1, <2>2, <2>3
<1>7. ASSUME NEW s \in Song, NEW t \in Song, NEW v \in Song, Newer(s, t), Newer(t, v)
      PROVE  Newer(s, v)
    <2>1. PICK i \in 1..n, j \in 1..n : i < j /\ Catalog[i] = s /\ Catalog[j] = t
        BY <1>4, <1>7
    <2>2. PICK k \in 1..n, m \in 1..n : k < m /\ Catalog[k] = t /\ Catalog[m] = v
        BY <1>4, <1>7
    <2>3. j = k /\ i < m
        BY <1>2, <2>1, <2>2
    <2>4. QED
        BY <1>4, <2>1, <2>2, <2>3
<1>8. QED
    BY <1>5, <1>6, <1>7

\* Pairs of songs whose keys differ: nothing beats itself, and whoever beats another beats,
\* or is beaten by, any third.
IsByKey(beats) ==
    /\ \A s \in Song : <<s, s>> \notin beats
    /\ \A s, t, v \in Song : <<s, t>> \in beats /\ <<t, v>> \in beats => <<s, v>> \in beats
    /\ \A s, t, v \in Song : <<s, v>> \in beats => <<s, t>> \in beats \/ <<t, v>> \in beats

\* The sort does what it promises.
LEMMA SortedByLists ==
    ASSUME NEW C \in SUBSET Song, NEW beats, IsByKey(beats), NEW W,
           \A s, t \in C :
              \/ <<s, t>> \in beats
              \/ <<t, s>> \notin beats /\ Newer(s, t)
              => <<s, t>> \in W /\ s # t
    PROVE  Lists(SortedBy(C, beats), C, W)
<1> DEFINE Before(s, t) == <<s, t>> \in beats \/ (<<t, s>> \notin beats /\ Newer(s, t))
           R == {x \in Song \X Song : Before(x[1], x[2])}
           n == Cardinality(C)
<1>1. IsFiniteSet(C)
    BY SongIsFinite, FS_Subset
<1>2. \A s, t \in Song : <<s, t>> \in R <=> Before(s, t)
    OBVIOUS
<1>3. \A s \in C : ~Before(s, s)
    BY NewerIsTotal DEF IsByKey
<1>4. \A s, t \in C : s = t \/ Before(s, t) \/ Before(t, s)
    BY NewerIsTotal
<1>5. \A s, t, v \in C : Before(s, t) /\ Before(t, v) => Before(s, v)
    BY NewerIsTotal DEF IsByKey
<1>6. /\ \A s \in C : <<s, s>> \notin R
      /\ \A s, t, v \in C : <<s, t>> \in R /\ <<t, v>> \in R => <<s, v>> \in R
      /\ \A s, t \in C : s = t \/ <<s, t>> \in R \/ <<t, s>> \in R
    <2>1. C \subseteq Song
        OBVIOUS
    <2> HIDE DEF R, Before
    <2>2. QED
        BY <1>2, <1>3, <1>4, <1>5, <2>1
<1> HIDE DEF R
<1>7. \E list \in [1..n -> C] : \A i, j \in 1..n : i < j => <<list[i], list[j]>> \in R
    BY <1>1, <1>6, CanBeListed
<1>8. \E list \in [1..n -> C] : \A i, j \in DOMAIN list : i < j => Before(list[i], list[j])
    <2>1. PICK list \in [1..n -> C] : \A i, j \in 1..n : i < j => <<list[i], list[j]>> \in R
        BY <1>7
    <2>2. \A i, j \in DOMAIN list : i < j => Before(list[i], list[j])
        BY <1>2, <2>1
    <2>3. QED
        BY <2>2
<1> DEFINE sorted == SortedBy(C, beats)
<1>9. sorted \in [1..n -> C] /\ \A i, j \in DOMAIN sorted : i < j => Before(sorted[i], sorted[j])
    BY <1>8 DEF SortedBy
<1> HIDE DEF sorted
<1>10. \A i, j \in 1..n : i < j => <<sorted[i], sorted[j]>> \in W /\ sorted[i] # sorted[j]
    BY <1>9
<1> DEFINE V == {x \in W : x[1] # x[2]}
<1>11. Lists(sorted, C, V)
    <2>1. \A i, j \in 1..n : i < j => <<sorted[i], sorted[j]>> \in V
        BY <1>10
    <2>2. \A s \in C : <<s, s>> \notin V
        OBVIOUS
    <2> HIDE DEF V
    <2>3. QED
        BY <1>1, <1>9, <2>1, <2>2, OrderedLists
<1>12. QED
    BY <1>10, <1>11 DEF Lists, sorted

\* How the songs are compared.
LEMMA CountsAreNumbers ==
    ASSUME NEW p \in PlayTables
    PROVE  /\ \A s \in Song : GlobalCount(s, p) \in Nat
           /\ \A u \in User, s \in Song : ArtistScore(u, Artist[s], p) \in Nat
<1>1. ASSUME NEW s \in Song PROVE GlobalCount(s, p) \in Nat
    <2> DEFINE f == [u \in User |-> p[u][s]]
    <2>1. f \in [User -> Nat] /\ \A u \in User : f[u] <= f[u]
        BY DEF PlayTables
    <2> HIDE DEF f
    <2>2. Sum(f) \in Nat
        BY <2>1, RecommendationsAssumption, SumGrows
    <2>3. QED
        BY <2>2 DEF GlobalCount, f
<1>2. ASSUME NEW u \in User, NEW s \in Song PROVE ArtistScore(u, Artist[s], p) \in Nat
    <2> DEFINE T == {x \in Song : Artist[x] = Artist[s]}
               f == [x \in T |-> p[u][x]]
    <2>1. IsFiniteSet(T)
        BY SongIsFinite, FS_Subset
    <2>2. f \in [T -> Nat] /\ \A x \in T : f[x] <= f[x]
        BY DEF PlayTables
    <2>3. f = [x \in {y \in Song : Artist[y] = Artist[s]} |-> p[u][x]]
        OBVIOUS
    <2> HIDE DEF f, T
    <2>4. Sum(f) \in Nat
        BY <2>1, <2>2, SumGrows
    <2>5. QED
        BY <2>3, <2>4 DEF ArtistScore
<1>3. QED
    BY <1>1, <1>2

LEMMA KeysCompare ==
    ASSUME NEW u \in User, NEW p \in PlayTables
    PROVE  IsByKey(MoreLiked(u, p)) /\ IsByKey(MoreHeard(p)) /\ IsByKey({})
<1> DEFINE heard == [s \in Song |-> GlobalCount(s, p)]
           score == [s \in Song |-> ArtistScore(u, Artist[s], p)]
<1>1. heard \in [Song -> Nat] /\ score \in [Song -> Nat]
    BY CountsAreNumbers
<1>2. \A s, t \in Song : <<s, t>> \in MoreHeard(p) <=> heard[s] > heard[t]
    BY DEF MoreHeard
<1>3. \A s, t \in Song : <<s, t>> \in MoreLiked(u, p) <=>
        score[s] - score[t] > 0 \/ (score[s] - score[t] = 0 /\ heard[s] > heard[t])
    BY DEF MoreLiked
<1> HIDE DEF heard, score
<1>4. IsByKey(MoreHeard(p))
    BY <1>1, <1>2 DEF IsByKey
<1>5. IsByKey(MoreLiked(u, p))
    BY <1>1, <1>3 DEF IsByKey
<1>6. QED
    BY <1>4, <1>5 DEF IsByKey

\* One list after another, of other songs.
LEMMA ListsAppended ==
    ASSUME NEW A, NEW B, IsFiniteSet(A), IsFiniteSet(B), A \cap B = {}, NEW W,
           NEW a, Lists(a, A, W), NEW b, Lists(b, B, W),
           \A s \in A, t \in B : <<s, t>> \in W
    PROVE  Lists(a \o b, A \cup B, W)
<1> DEFINE k == Cardinality(A)
           m == Cardinality(B)
           c == a \o b
           C == A \cup B
<1>1. k \in Nat /\ m \in Nat
    BY FS_CardinalityType
<1>2. Cardinality(C) = k + m
    <2>1. Cardinality(A \cap B) = 0
        BY FS_EmptySet
    <2>2. Cardinality(C) = k + m - Cardinality(A \cap B)
        BY FS_Union
    <2>3. QED
        BY <1>1, <2>1, <2>2
<1>3. /\ a \in [1..k -> A] /\ b \in [1..m -> B]
      /\ \A i, j \in 1..k : a[i] = a[j] => i = j
      /\ \A i, j \in 1..m : b[i] = b[j] => i = j
      /\ \A i, j \in 1..k : i < j => <<a[i], a[j]>> \in W
      /\ \A i, j \in 1..m : i < j => <<b[i], b[j]>> \in W
      /\ \A s \in A : \E i \in 1..k : a[i] = s
      /\ \A s \in B : \E i \in 1..m : b[i] = s
    BY DEF Lists, IsInjective, Range
<1> HIDE DEF k, m
<1>4. a \in Seq(A) /\ b \in Seq(B) /\ Len(a) = k /\ Len(b) = m
    BY <1>1, <1>3
<1>5. /\ DOMAIN c = 1..(k + m)
      /\ \A i \in 1..k : c[i] = a[i]
      /\ \A i \in (k + 1)..(k + m) : c[i] = b[i - k]
      /\ c = [i \in 1..(k + m) |-> c[i]]
    <2>1. a \in Seq(C) /\ b \in Seq(C)
        BY <1>4
    <2>2. c \in Seq(C) /\ Len(c) = k + m
        BY <1>4, <2>1
    <2>3. \A i \in 1..(k + m) : c[i] = IF i <= k THEN a[i] ELSE b[i - k]
        BY <1>1, <1>4, <2>1
    <2> HIDE DEF c, C
    <2>4. DOMAIN c = 1..(k + m) /\ c = [i \in 1..(k + m) |-> c[i]]
        BY <1>1, <2>2
    <2>5. QED
        BY <1>1, <2>3, <2>4
<1> HIDE DEF c
<1>6. \A i \in 1..(k + m) : \/ i \in 1..k /\ c[i] = a[i] /\ a[i] \in A
                           \/ /\ i \in (k + 1)..(k + m) /\ i - k \in 1..m
                              /\ c[i] = b[i - k] /\ b[i - k] \in B
    <2> SUFFICES ASSUME NEW i \in 1..(k + m)
                 PROVE  \/ i \in 1..k /\ c[i] = a[i] /\ a[i] \in A
                        \/ /\ i \in (k + 1)..(k + m) /\ i - k \in 1..m
                           /\ c[i] = b[i - k] /\ b[i - k] \in B
        OBVIOUS
    <2>1. CASE i <= k
        <3>1. i \in 1..k
            BY <1>1, <2>1
        <3>2. QED
            BY <1>3, <1>5, <3>1
    <2>2. CASE i > k
        <3>1. i \in (k + 1)..(k + m) /\ i - k \in 1..m
            BY <1>1, <2>2
        <3>2. QED
            BY <1>3, <1>5, <3>1
    <2>3. QED
        BY <1>1, <2>1, <2>2
<1>7. c \in [1..(k + m) -> C]
    <2>1. \A i \in 1..(k + m) : c[i] \in C
        BY <1>6
    <2> HIDE DEF C
    <2>2. QED
        BY <1>5, <2>1
<1>8. ASSUME NEW i \in 1..(k + m), NEW j \in 1..(k + m), i < j
      PROVE  <<c[i], c[j]>> \in W /\ c[i] # c[j]
    <2>1. CASE j \in 1..k /\ c[j] = a[j] /\ a[j] \in A
        <3>1. i \in 1..k
            BY <1>1, <1>8, <2>1
        <3>2. c[i] = a[i]
            BY <1>5, <3>1
        <3>3. QED
            BY <1>3, <1>8, <2>1, <3>1, <3>2
    <2>2. CASE /\ j \in (k + 1)..(k + m) /\ j - k \in 1..m
               /\ c[j] = b[j - k] /\ b[j - k] \in B
        <3>1. CASE i \in 1..k /\ c[i] = a[i] /\ a[i] \in A
            BY <2>2, <3>1
        <3>2. CASE /\ i \in (k + 1)..(k + m) /\ i - k \in 1..m
                   /\ c[i] = b[i - k] /\ b[i - k] \in B
            <4>1. i - k < j - k
                BY <1>1, <1>8
            <4>2. QED
                BY <1>3, <2>2, <3>2, <4>1
        <3>3. QED
            BY <1>6, <3>1, <3>2
    <2>3. QED
        BY <1>6, <2>1, <2>2
<1>9. \A i, j \in 1..(k + m) : c[i] = c[j] => i = j
    <2> SUFFICES ASSUME NEW i \in 1..(k + m), NEW j \in 1..(k + m), i # j PROVE c[i] # c[j]
        OBVIOUS
    <2>1. i < j \/ j < i
        BY <1>1
    <2>2. QED
        BY <1>8, <2>1
<1>10. \A s \in C : \E i \in 1..(k + m) : c[i] = s
    <2>1. ASSUME NEW s \in A PROVE \E i \in 1..(k + m) : c[i] = s
        <3>1. PICK i \in 1..k : a[i] = s
            BY <1>3
        <3>2. i \in 1..(k + m)
            BY <1>1
        <3>3. c[i] = s
            BY <1>5, <3>1
        <3>4. QED
            BY <3>2, <3>3
    <2>2. ASSUME NEW s \in B PROVE \E i \in 1..(k + m) : c[i] = s
        <3>1. PICK i \in 1..m : b[i] = s
            BY <1>3
        <3>2. i + k \in (k + 1)..(k + m) /\ (i + k) - k = i
            BY <1>1
        <3>3. c[i + k] = s
            BY <1>5, <3>1, <3>2
        <3>4. QED
            BY <1>1, <3>2, <3>3
    <2>3. QED
        BY <2>1, <2>2
<1>11. IsInjective(c) /\ Range(c) = C
    BY <1>7, <1>9, <1>10 DEF IsInjective, Range
<1>12. Lists(c, C, W)
    BY <1>2, <1>7, <1>8, <1>11 DEF Lists
<1>13. QED
    BY <1>12 DEF c

\* The pairs of which the second does not deserve to precede the first.
Undisputed(u, p) == {x \in Song \X Song : ~Deserves(x[2], x[1], u, p)}

\* What Deserves says, with the scores and the plays as numbers.
LEMMA DeservesIs ==
    ASSUME NEW u \in User, NEW p \in PlayTables, NEW s \in Song, NEW t \in Song,
           NEW a, a = ArtistScore(u, Artist[s], p), NEW b, b = ArtistScore(u, Artist[t], p),
           NEW h, h = GlobalCount(s, p), NEW k, k = GlobalCount(t, p),
           a > b \/ (a = b /\ h > k) \/ (a = b /\ h = k /\ Newer(s, t))
    PROVE  <<s, t>> \in Undisputed(u, p)
<1> DEFINE age(x) == CHOOSE i \in DOMAIN Catalog : Catalog[i] = x
<1>1. a \in Nat /\ b \in Nat /\ h \in Nat /\ k \in Nat
    BY CountsAreNumbers
<1>2. Newer(s, t) => ~(age(t) < age(s))
    <2>1. PICK n \in Nat : DOMAIN Catalog = 1..n
        BY RecommendationsAssumption
    <2>2. \A i, j \in 1..n : Catalog[i] = Catalog[j] => i = j
        BY <2>1, RecommendationsAssumption DEF IsInjective
    <2>3. ASSUME Newer(s, t) PROVE ~(age(t) < age(s))
        <3>1. PICK i \in 1..n, j \in 1..n : i < j /\ Catalog[i] = s /\ Catalog[j] = t
            BY <2>1, <2>3 DEF Newer
        <3>2. /\ \E x \in DOMAIN Catalog : Catalog[x] = s
              /\ \E x \in DOMAIN Catalog : Catalog[x] = t
            BY <2>1, <3>1
        <3>3. /\ age(s) \in 1..n /\ Catalog[age(s)] = s
              /\ age(t) \in 1..n /\ Catalog[age(t)] = t
            BY <2>1, <3>2
        <3> HIDE DEF age
        <3>4. age(s) = i /\ age(t) = j
            BY <2>2, <3>1, <3>3
        <3>5. QED
            BY <3>1, <3>4
    <2>4. QED
        BY <2>3
<1> DEFINE more == b - a
           louder == k - h
<1>3. Deserves(t, s, u, p) <=> \/ more > 0
                              \/ (more = 0 /\ louder > 0)
                              \/ (more = 0 /\ louder = 0 /\ age(t) < age(s))
    BY DEF Deserves
<1> HIDE DEF age
<1>4. ~Deserves(t, s, u, p)
    BY <1>1, <1>2, <1>3
<1>5. QED
    BY <1>4 DEF Undisputed

\* The three parts of the ranking, each sorted by its keys, one after the other.
LEMMA RankingLists ==
    ASSUME NEW u \in User, NEW R \in SUBSET Song, NEW p \in PlayTables
    PROVE  Lists(Ranking(u, R, p), R \ Played(u, p), Undisputed(u, p))
<1> DEFINE heard == [s \in Song |-> GlobalCount(s, p)]
           score == [s \in Song |-> ArtistScore(u, Artist[s], p)]
           unplayed == R \ Played(u, p)
           scored == {s \in unplayed : ArtistScore(u, Artist[s], p) > 0}
           popularOnes == {s \in unplayed \ scored : GlobalCount(s, p) > 0}
           rest == unplayed \ (scored \cup popularOnes)
           W == Undisputed(u, p)
           first == SortedBy(scored, MoreLiked(u, p))
           second == SortedBy(popularOnes, MoreHeard(p))
           third == SortedBy(rest, {})
<1>1. heard \in [Song -> Nat] /\ score \in [Song -> Nat]
    BY CountsAreNumbers
<1>2. \A s, t \in Song : <<s, t>> \in MoreHeard(p) <=> heard[s] > heard[t]
    BY DEF MoreHeard
<1>3. \A s, t \in Song : <<s, t>> \in MoreLiked(u, p) <=>
        score[s] - score[t] > 0 \/ (score[s] - score[t] = 0 /\ heard[s] > heard[t])
    BY DEF MoreLiked
<1>4. \A s, t \in Song :
        \/ score[s] > score[t]
        \/ (score[s] = score[t] /\ heard[s] > heard[t])
        \/ (score[s] = score[t] /\ heard[s] = heard[t] /\ Newer(s, t))
        => <<s, t>> \in W
    <2> SUFFICES ASSUME NEW s \in Song, NEW t \in Song,
                        \/ score[s] > score[t]
                        \/ (score[s] = score[t] /\ heard[s] > heard[t])
                        \/ (score[s] = score[t] /\ heard[s] = heard[t] /\ Newer(s, t))
                 PROVE  <<s, t>> \in W
        OBVIOUS
    <2>1. /\ score[s] = ArtistScore(u, Artist[s], p) /\ score[t] = ArtistScore(u, Artist[t], p)
          /\ heard[s] = GlobalCount(s, p) /\ heard[t] = GlobalCount(t, p)
        OBVIOUS
    <2> HIDE DEF score, heard, W
    <2>2. <<s, t>> \in Undisputed(u, p)
        BY <2>1, DeservesIs
    <2>3. QED
        BY <2>2 DEF W
<1>5. /\ scored \subseteq Song /\ popularOnes \subseteq Song /\ rest \subseteq Song
      /\ scored \cap popularOnes = {} /\ (scored \cup popularOnes) \cap rest = {}
      /\ (scored \cup popularOnes) \cup rest = unplayed
    OBVIOUS
<1>6. /\ \A s \in scored : score[s] > 0
      /\ \A s \in popularOnes : score[s] = 0 /\ heard[s] > 0
      /\ \A s \in rest : score[s] = 0 /\ heard[s] = 0
    <2>1. \A s \in Song : /\ score[s] \in Nat /\ score[s] = ArtistScore(u, Artist[s], p)
                          /\ heard[s] \in Nat /\ heard[s] = GlobalCount(s, p)
        BY <1>1
    <2>2. /\ \A s \in scored : s \in Song /\ ArtistScore(u, Artist[s], p) > 0
          /\ \A s \in popularOnes : /\ s \in Song /\ ~(ArtistScore(u, Artist[s], p) > 0)
                                    /\ GlobalCount(s, p) > 0
          /\ \A s \in rest : /\ s \in Song /\ ~(ArtistScore(u, Artist[s], p) > 0)
                             /\ ~(GlobalCount(s, p) > 0)
        OBVIOUS
    <2> HIDE DEF scored, popularOnes, rest, score, heard
    <2>3. QED
        BY <2>1, <2>2
<1>7. Ranking(u, R, p) = (first \o second) \o third
    BY DEF Ranking
<1>8. IsFiniteSet(scored) /\ IsFiniteSet(popularOnes) /\ IsFiniteSet(rest)
    BY <1>5, SongIsFinite, FS_Subset
<1>9. IsByKey(MoreLiked(u, p)) /\ IsByKey(MoreHeard(p)) /\ IsByKey({})
    BY KeysCompare
<1> HIDE DEF scored, popularOnes, rest, W, heard, score, unplayed
<1>10. Lists(first, scored, W)
    <2>1. ASSUME NEW s \in scored, NEW t \in scored,
                 \/ <<s, t>> \in MoreLiked(u, p)
                 \/ <<t, s>> \notin MoreLiked(u, p) /\ Newer(s, t)
          PROVE  <<s, t>> \in W /\ s # t
        <3>1. s \in Song /\ t \in Song
            BY <1>5
        <3>2. s # t
            BY <1>9, <2>1, <3>1, NewerIsTotal DEF IsByKey
        <3>3. /\ score[s] \in Nat /\ score[t] \in Nat /\ heard[s] \in Nat /\ heard[t] \in Nat
            BY <1>1, <3>1
        <3>4. \/ score[s] > score[t]
              \/ (score[s] = score[t] /\ heard[s] > heard[t])
              \/ (score[s] = score[t] /\ heard[s] = heard[t] /\ Newer(s, t))
            BY <1>3, <2>1, <3>1, <3>3
        <3>5. QED
            BY <1>4, <3>1, <3>2, <3>4
    <2> HIDE DEF first
    <2>2. QED
        BY <1>5, <1>9, <2>1, SortedByLists DEF first
<1>11. Lists(second, popularOnes, W)
    <2>1. ASSUME NEW s \in popularOnes, NEW t \in popularOnes,
                 \/ <<s, t>> \in MoreHeard(p)
                 \/ <<t, s>> \notin MoreHeard(p) /\ Newer(s, t)
          PROVE  <<s, t>> \in W /\ s # t
        <3>1. s \in Song /\ t \in Song
            BY <1>5
        <3>2. s # t
            BY <1>9, <2>1, <3>1, NewerIsTotal DEF IsByKey
        <3>3. score[s] = score[t] /\ heard[s] \in Nat /\ heard[t] \in Nat
            BY <1>1, <1>6, <3>1
        <3>4. heard[s] > heard[t] \/ (heard[s] = heard[t] /\ Newer(s, t))
            BY <1>2, <2>1, <3>1, <3>3
        <3>5. QED
            BY <1>4, <3>1, <3>2, <3>3, <3>4
    <2> HIDE DEF second
    <2>2. QED
        BY <1>5, <1>9, <2>1, SortedByLists DEF second
<1>12. Lists(third, rest, W)
    <2>1. ASSUME NEW s \in rest, NEW t \in rest,
                 <<s, t>> \in {} \/ (<<t, s>> \notin {} /\ Newer(s, t))
          PROVE  <<s, t>> \in W /\ s # t
        <3>1. s \in Song /\ t \in Song /\ Newer(s, t)
            BY <1>5, <2>1
        <3>2. s # t
            BY <3>1, NewerIsTotal
        <3>3. QED
            BY <1>4, <1>6, <3>1, <3>2
    <2> HIDE DEF third
    <2>2. QED
        BY <1>5, <1>9, <2>1, SortedByLists DEF third
<1>13. \A s \in scored, t \in popularOnes : <<s, t>> \in W
    BY <1>4, <1>5, <1>6
<1>14. \A s \in scored \cup popularOnes, t \in rest : <<s, t>> \in W
    BY <1>4, <1>5, <1>6
<1> DEFINE two == first \o second
<1> HIDE DEF first, second, third
<1>15. Lists(two, scored \cup popularOnes, W)
    BY <1>5, <1>8, <1>10, <1>11, <1>13, ListsAppended
<1>16. IsFiniteSet(scored \cup popularOnes)
    BY <1>8, FS_Union
<1> HIDE DEF two
<1>17. Lists(two \o third, (scored \cup popularOnes) \cup rest, W)
    BY <1>5, <1>8, <1>12, <1>14, <1>15, <1>16, ListsAppended
<1>18. QED
    BY <1>5, <1>7, <1>17 DEF two, W, unplayed

\* The list that is stored: the ranking, as far as the limit.
LEMMA RankIsBest ==
    ASSUME NEW u \in User, NEW R \in SUBSET Song, NEW p \in PlayTables
    PROVE  /\ Rank(u, R, p) \in Seq(Song) /\ Len(Rank(u, R, p)) <= Limit
           /\ IsBest(Rank(u, R, p), u, R, p)
<1> DEFINE E == R \ Played(u, p)
           n == Cardinality(E)
           list == Ranking(u, R, p)
           k == Min({Limit, n})
           top == SubSeq(list, 1, k)
<1>1. IsFiniteSet(E) /\ E \subseteq Song
    BY SongIsFinite, FS_Subset
<1>2. n \in Nat
    BY <1>1, FS_CardinalityType
<1>3. k \in 0..n /\ k <= Limit
    <2>1. Limit \in Nat
        BY RecommendationsAssumption
    <2> HIDE DEF n
    <2>2. k = IF Limit <= n THEN Limit ELSE n
        BY <1>2, <2>1, MinOfTwo
    <2>3. QED
        BY <1>2, <2>1, <2>2
<1>4. /\ list \in [1..n -> E]
      /\ \A i, j \in 1..n : list[i] = list[j] => i = j
      /\ \A s \in E : \E i \in 1..n : list[i] = s
      /\ \A i, j \in 1..n : i < j => <<list[i], list[j]>> \in Undisputed(u, p)
    <2>1. Lists(list, E, Undisputed(u, p))
        BY RankingLists
    <2> HIDE DEF list, E
    <2>2. list \in [1..n -> E] /\ DOMAIN list = 1..n
        BY <2>1 DEF Lists
    <2>3. QED
        BY <2>1, <2>2 DEF Lists, IsInjective, Range
<1> HIDE DEF list, n, E
<1>5. Rank(u, R, p) = top
    <2>1. Len(list) = n
        BY <1>2, <1>4
    <2>2. QED
        BY <2>1 DEF Rank, list
<1> HIDE DEF k
<1>6. /\ top \in [1..k -> E] /\ top \in Seq(E) /\ Len(top) = k
      /\ \A i \in 1..k : top[i] = list[i]
    BY <1>2, <1>3, <1>4, Beginning
<1> HIDE DEF top
<1>7. IsInjective(top) /\ Range(top) \subseteq E
    <2>1. DOMAIN top = 1..k /\ 1..k \subseteq 1..n
        BY <1>2, <1>3, <1>6
    <2>2. IsInjective(top)
        BY <1>4, <1>6, <2>1 DEF IsInjective
    <2>3. \A i \in 1..k : top[i] \in E
        BY <1>6
    <2>4. QED
        BY <2>1, <2>2, <2>3 DEF Range
<1>8. ASSUME NEW i \in 1..k, NEW s \in E \ Range(SubSeq(top, 1, i))
      PROVE  ~Deserves(s, top[i], u, p)
    <2> DEFINE before == SubSeq(top, 1, i)
    <2>1. before \in [1..i -> E] /\ \A j \in 1..i : before[j] = top[j]
        BY <1>3, <1>6, Beginning
    <2>2. s \notin Range(before)
        BY <1>8
    <2> HIDE DEF before
    <2>3. PICK j \in 1..n : list[j] = s
        BY <1>4
    <2>4. j > i
        <3>1. CASE j \in 1..i
            <4>1. j \in 1..k /\ before[j] = s
                BY <1>3, <1>6, <2>1, <2>3, <3>1
            <4>2. QED
                BY <2>1, <2>2, <3>1, <4>1 DEF Range
        <3>2. QED
            BY <1>2, <1>3, <3>1
    <2>5. i \in 1..n /\ top[i] = list[i]
        BY <1>2, <1>3, <1>6
    <2>6. <<top[i], s>> \in Undisputed(u, p)
        BY <1>2, <1>4, <2>3, <2>4, <2>5
    <2>7. QED
        BY <2>6 DEF Undisputed
<1>9. top \in Seq(Song)
    BY <1>1, <1>6
<1>10. DOMAIN top = 1..k
    BY <1>6
<1>11. IsBest(top, u, R, p)
    BY <1>6, <1>7, <1>8, <1>10 DEF IsBest, E, n, k
<1>12. QED
    BY <1>3, <1>5, <1>6, <1>9, <1>11

----------------------------------------------------------------------------
(* What is stored, and the types of the rest.                                            *)

\* What TypeOK says of the keys and the passes, and DataTypeOK and LockTypeOK do not.
ListsTypeOK ==
    /\ todo \in [Pass -> SUBSET User]
    /\ DOMAIN rec = User
    /\ \A u \in User : rec[u] # None => rec[u] \in Seq(Song) /\ Len(rec[u]) <= Limit
    /\ overrun \subseteq {p \in Pass : Inside(p)}

LEMMA InitLists == Init => ListsTypeOK
BY DEF Init, ListsTypeOK

\* A list is stored for one user, and it is the best there is.
LEMMA StoreIsBest ==
    ASSUME DataTypeOK, ListsTypeOK, NEW p \in Pass, NEW u \in User, Store(p, u)
    PROVE  /\ DOMAIN rec' = User
           /\ \A v \in User \ {u} : rec'[v] = rec[v]
           /\ rec'[u] \in Seq(Song) /\ Len(rec'[u]) <= Limit
           /\ pc[p] = "store" /\ IsBest(rec'[u], u, songs[p], counts[p])
<1> DEFINE list == Rank(u, songs[p], counts[p])
<1>1. list \in Seq(Song) /\ Len(list) <= Limit /\ IsBest(list, u, songs[p], counts[p])
    <2>1. songs[p] \in SUBSET Song /\ counts[p] \in PlayTables
        BY DEF DataTypeOK
    <2>2. QED
        BY <2>1, RankIsBest
<1>2. pc[p] = "store" /\ rec' = [rec EXCEPT ![u] = list]
    BY DEF Store
<1> HIDE DEF list
<1>3. DOMAIN rec' = User /\ rec'[u] = list /\ \A v \in User \ {u} : rec'[v] = rec[v]
    BY <1>2 DEF ListsTypeOK
<1>4. QED
    BY <1>1, <1>2, <1>3

\* Going somewhere changes nothing but the pass that goes.
LEMMA GotoLists ==
    ASSUME LockTypeOK, ListsTypeOK, NEW p \in Pass, NEW place, Goto(p, place)
    PROVE  /\ todo' \in [Pass -> SUBSET User]
           /\ pc'[p] = place /\ \A q \in Pass \ {p} : pc'[q] = pc[q]
BY DEF Goto, LockTypeOK, ListsTypeOK

LEMMA NextLists == IInv /\ DataTypeOK /\ ListsTypeOK /\ [Next]_vars => ListsTypeOK'
<1> SUFFICES ASSUME LockTypeOK, DataTypeOK, ListsTypeOK, [Next]_vars PROVE ListsTypeOK'
    BY DEF IInv
<1>1. ASSUME NEW p \in Pass, NEW u \in User, Store(p, u) PROVE ListsTypeOK'
    <2>1. /\ todo' \in [Pass -> SUBSET User] /\ overrun' = overrun
          /\ \A q \in Pass : Inside(q) => Inside(q)'
        <3>1. CASE todo[p] = {u}
            BY <1>1, <3>1, GotoLists DEF Store, Inside
        <3>2. CASE todo[p] # {u}
            BY <1>1, <3>2 DEF Store, Inside, ListsTypeOK
        <3>3. QED
            BY <1>1, <3>1, <3>2 DEF Store
    <2>2. /\ DOMAIN rec' = User /\ \A v \in User \ {u} : rec'[v] = rec[v]
          /\ rec'[u] \in Seq(Song) /\ Len(rec'[u]) <= Limit
        BY <1>1, StoreIsBest
    <2>3. QED
        BY <2>1, <2>2 DEF ListsTypeOK
<1>2. ASSUME NEW p \in Pass, Fail(p) PROVE ListsTypeOK'
    BY <1>2, GotoLists DEF Fail, recVars, ListsTypeOK, Inside
<1>3. ASSUME NEW p \in Pass, Release(p) \/ Die(p) PROVE ListsTypeOK'
    BY <1>3, GotoLists DEF Release, Die, End, recVars, ListsTypeOK, Inside
<1>4. ASSUME NEW p \in Pass, Acquire(p) \/ FetchReadySongs(p) \/ FetchPlays(p)
      PROVE  ListsTypeOK'
    <2>1. /\ UNCHANGED <<rec, overrun>> /\ todo' \in [Pass -> SUBSET User]
          /\ \A q \in Pass : Inside(q) => Inside(q)'
        BY <1>4 DEF Acquire, FetchReadySongs, FetchPlays, recVars, ListsTypeOK, LockTypeOK, Inside
    <2>2. QED
        BY <2>1 DEF ListsTypeOK
<1>5. CASE LockExpires
    BY <1>5 DEF LockExpires, recVars, ListsTypeOK, LockTypeOK, Inside
<1>6. ASSUME NEW u \in User, RecExpires(u) PROVE ListsTypeOK'
    BY <1>6 DEF RecExpires, ListsTypeOK, Inside
<1>7. ASSUME NEW s \in Song, SongReady(s) PROVE ListsTypeOK'
    BY <1>7 DEF SongReady, recVars, ListsTypeOK, Inside
<1>8. ASSUME NEW u \in User, NEW s \in Song, Play(u, s) PROVE ListsTypeOK'
    BY <1>8 DEF Play, recVars, ListsTypeOK, Inside
<1>9. CASE UNCHANGED vars
    BY <1>9 DEF vars, ListsTypeOK, Inside
<1>10. QED
    BY <1>1, <1>2, <1>3, <1>4, <1>5, <1>6, <1>7, <1>8, <1>9 DEF Next

\* Every list that appears is stored by a pass, for one user.
LEMMA StepIsBest ==
    ASSUME DataTypeOK, ListsTypeOK, [Next]_vars, NEW u \in User, rec'[u] \notin {rec[u], None}
    PROVE  \E p \in Pass : pc[p] = "store" /\ IsBest(rec'[u], u, songs[p], counts[p])
<1>1. ASSUME NEW p \in Pass, NEW v \in User, Store(p, v)
      PROVE  pc[p] = "store" /\ IsBest(rec'[u], u, songs[p], counts[p])
    BY <1>1, StoreIsBest
<1>2. ASSUME NEW v \in User, RecExpires(v) PROVE FALSE
    BY <1>2 DEF RecExpires, ListsTypeOK
<1>3. CASE UNCHANGED rec
    BY <1>3
<1>4. \/ \E p \in Pass, v \in User : Store(p, v)
      \/ \E v \in User : RecExpires(v)
      \/ UNCHANGED rec
    BY DEF Next, Acquire, FetchReadySongs, FetchPlays, Fail, Release, Die, LockExpires,
           SongReady, Play, recVars, vars
<1>5. QED
    BY <1>1, <1>2, <1>3, <1>4

\* A list that is stored has ready songs the user has not played, once each, as many as fit,
\* and none that a song deserves to precede which it does not precede: for any catalogue,
\* any plays, any limit, whatever the passes do to each other.
THEOREM BestSafe == Spec => StoresBestRanking
<1>1. FreshInv => DataTypeOK
    BY DEF FreshInv
<1>2. DataTypeOK /\ ListsTypeOK /\ [Next]_vars =>
        [\A u \in User :
            rec'[u] \notin {rec[u], None} =>
                \E p \in Pass : pc[p] = "store" /\ IsBest(rec'[u], u, songs[p], counts[p])]_vars
    BY StepIsBest
<1>3. QED
    BY <1>1, <1>2, InitLists, NextLists, Invariance, InitFresh, NextFresh, PTL
    DEF Spec, StoresBestRanking

\* The three results on the passes, of the specification that TLC checks.
COROLLARY PassesSafe ==
    ListeningSpec => []OnePassUnlessOverrun /\ NeverOlderData /\ StoresBestRanking
BY OnePassSafe, NeverOlderSafe, BestSafe, PassesUndisturbed, PTL

\* What the requests for the popular songs were asked and have computed.
PopularTypeOK ==
    /\ DOMAIN asked = Request
    /\ popular # None => QueryTypeOK(popular.query)
    /\ \A r \in Request :
        /\ asked[r] \in Limits \cup {None}
        /\ computed[r] # None => asked[r] # None /\ QueryTypeOK(computed[r])

LEMMA QueryTypes ==
    ASSUME DataTypeOK, AgesOK, PopularTypeOK, NEW r \in Request, Query(r) PROVE PopularTypeOK'
<1>1. PICK list \in MostPlayed(CacheMax) :
        computed' = [computed EXCEPT ![r] = [list |-> list, heard |-> Heard, age |-> 0]]
    BY DEF Query
<1> DEFINE H == DOMAIN Heard
<1>2. H \subseteq Song /\ IsFiniteSet(H) /\ Heard \in [H -> Nat]
    <2>1. H \subseteq Song /\ IsFiniteSet(H)
        <3>1. H \subseteq Song
            BY DEF Heard, DataTypeOK
        <3> HIDE DEF H
        <3>2. QED
            BY <3>1, SongIsFinite, FS_Subset
    <2>2. \A s \in Song : GlobalCount(s, plays) \in Nat
        BY CountsAreNumbers DEF DataTypeOK
    <2>3. QED
        BY <2>1, <2>2 DEF Heard
<1>3. list \in Seq(Song)
    <2> DEFINE m == Min({CacheMax, Cardinality(H)})
    <2>1. m \in Nat
        <3>1. CacheMax \in Nat /\ Cardinality(H) \in Nat
            BY <1>2, FS_CardinalityType, PopularAssumption
        <3>2. QED
            BY <3>1, MinOfTwo
    <2>2. list \in [1..m -> H]
        BY DEF MostPlayed
    <2> HIDE DEF m, H
    <2>3. list \in [1..m -> Song]
        BY <1>2, <2>2
    <2>4. QED
        BY <2>1, <2>3
<1> DEFINE new == [list |-> list, heard |-> Heard, age |-> 0]
<1>4. QueryTypeOK(new)
    <2>1. new.list = list /\ new.heard = Heard /\ new.age = 0
        OBVIOUS
    <2> HIDE DEF new
    <2>2. QED
        BY <1>2, <1>3, <2>1 DEF QueryTypeOK
<1> HIDE DEF new
<1>5. computed' = [computed EXCEPT ![r] = new] /\ UNCHANGED <<popular, asked>> /\ asked[r] # None
    BY <1>1 DEF new, Query
<1>6. QED
    BY <1>4, <1>5 DEF PopularTypeOK, AgesOK

LEMMA NextPopularTypes ==
    DataTypeOK /\ AgesOK /\ PopularTypeOK /\ [ListeningNext]_allVars => PopularTypeOK'
<1> SUFFICES ASSUME DataTypeOK, AgesOK, PopularTypeOK, [ListeningNext]_allVars
             PROVE  PopularTypeOK'
    OBVIOUS
<1>1. ASSUME NEW r \in Request, Query(r) PROVE PopularTypeOK'
    BY <1>1, QueryTypes
<1>2. ASSUME NEW r \in Request, StorePopular(r) PROVE PopularTypeOK'
    BY <1>2 DEF PopularTypeOK, AgesOK, StorePopular, Answered
<1>3. ASSUME NEW r \in Request, GiveUp(r) PROVE PopularTypeOK'
    BY <1>3 DEF PopularTypeOK, AgesOK, GiveUp, Answered
<1>4. ASSUME NEW r \in Request, NEW n \in Limits, Miss(r, n) PROVE PopularTypeOK'
    BY <1>4 DEF PopularTypeOK, Miss
<1>5. CASE Tick
    <2>1. ASSUME NEW q, IsQuery(q), QueryTypeOK(q) PROVE QueryTypeOK(Older(q))
        <3>1. Older(q) = [list |-> q.list, heard |-> q.heard, age |-> q.age + 1]
            BY <2>1 DEF IsQuery, Older
        <3>2. /\ Older(q).list = q.list /\ Older(q).heard = q.heard
              /\ Older(q).age = q.age + 1
            BY <3>1
        <3>3. QED
            BY <2>1, <3>2 DEF QueryTypeOK
    <2>2. \A r \in Request : computed'[r] # None => computed[r] # None /\ QueryTypeOK(computed'[r])
        BY <1>5, <2>1 DEF Tick, PopularTypeOK, AgesOK
    <2>3. ASSUME popular' # None PROVE QueryTypeOK(popular'.query)
        <3>1. popular # None /\ popular'.query = Older(popular.query)
            BY <1>5, <2>3 DEF Tick
        <3>2. QED
            BY <2>1, <3>1 DEF PopularTypeOK, AgesOK
    <2>4. QED
        BY <1>5, <2>2, <2>3 DEF PopularTypeOK, Tick
<1>6. CASE PopularLost
    BY <1>6 DEF PopularTypeOK, PopularLost
<1>7. CASE UNCHANGED popularVars
    BY <1>7 DEF PopularTypeOK, popularVars
<1>8. QED
    BY <1>1, <1>2, <1>3, <1>4, <1>5, <1>6, <1>7
    DEF ListeningNext, PopularNext, allVars, popularVars

\* Every key, pass and request has what it should have: the lists are of songs, within the
\* limits, and the keys live no longer than they may.
THEOREM ListeningTypeSafe == ListeningSpec => []ListeningTypeOK
<1>1. PopularInit => PopularTypeOK
    BY DEF PopularInit, PopularTypeOK
<1>2. IInv /\ FreshInv /\ ListsTypeOK /\ AgesOK /\ PopularTypeOK => ListeningTypeOK
    <2> SUFFICES ASSUME IInv, FreshInv, ListsTypeOK, AgesOK, PopularTypeOK
                 PROVE  ListeningTypeOK
        OBVIOUS
    <2>1. TypeOK
        BY DEF IInv, LockTypeOK, FreshInv, DataTypeOK, ListsTypeOK, TypeOK, PlayTables
    <2>2. QED
        BY <2>1 DEF ListeningTypeOK, PopularTypeOK, AgesOK
<1>3. FreshInv => DataTypeOK
    BY DEF FreshInv
<1>4. QED
    BY <1>1, <1>2, <1>3, NextPopularTypes, InitAges, ListeningAges, PassesUndisturbed,
       Invariance, InitFresh, NextFresh, InitLists, NextLists, PTL DEF ListeningSpec, Spec

=============================================================================
