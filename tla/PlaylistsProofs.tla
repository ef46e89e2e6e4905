--------------------------- MODULE PlaylistsProofs ---------------------------
(***************************************************************************)
(* Playlists for any number of requests, playlists and songs.  Whoever     *)
(* reads a playlist in order to write it holds its row until it writes, so *)
(* what a request has planned still fits the rows when it commits.         *)
(***************************************************************************)
EXTENDS Playlists, Sequences, FunctionTheorems, FiniteSetTheorems, TLAPS

\* The songs of S have the positions 0 to the size of S less one, each its own.
Numbers(f, S) ==
    /\ IsFiniteSet(S)
    /\ f \in [S -> 0..(Cardinality(S) - 1)]
    /\ \A s, t \in S : f[s] = f[t] => s = t

----------------------------------------------------------------------------
(* Numberings of finite sets *)

\* A numbering uses every number, once.
LEMMA NumbersIsBijection ==
    ASSUME NEW f, NEW S, Numbers(f, S)
    PROVE  /\ Cardinality(S) \in Nat
           /\ f \in Bijection(S, 0..(Cardinality(S) - 1))
           /\ \A i \in 0..(Cardinality(S) - 1) : \E s \in S : f[s] = i
<1> DEFINE n == Cardinality(S)
<1>1. n \in Nat
    BY FS_CardinalityType DEF Numbers
<1>2. IsFiniteSet(0..(n - 1)) /\ Cardinality(0..(n - 1)) = n
    BY <1>1, FS_Interval
<1>3. f \in Injection(S, 0..(n - 1))
    BY Fun_IsInj DEF Numbers
<1>4. f \in Surjection(S, 0..(n - 1))
    BY <1>2, <1>3, FS_Injection
<1>5. QED
    BY <1>1, <1>3, <1>4 DEF Bijection, Surjection

\* As many songs stand before the number k as there are numbers below it.
LEMMA SongsBelow ==
    ASSUME NEW f, NEW S, Numbers(f, S), NEW k \in 0..Cardinality(S)
    PROVE  /\ IsFiniteSet({t \in S : f[t] < k})
           /\ Cardinality({t \in S : f[t] < k}) = k
<1> DEFINE below == {t \in S : f[t] < k}
<1>1. Cardinality(S) \in Nat /\ \A i \in 0..(Cardinality(S) - 1) : \E s \in S : f[s] = i
    BY NumbersIsBijection
<1>2. IsFiniteSet(below)
    BY FS_Subset DEF Numbers
<1>3. IsFiniteSet(0..(k - 1)) /\ Cardinality(0..(k - 1)) = k
    <2>1. k \in Nat /\ k - 1 \in Int /\ (0 > k - 1 => k = 0)
        BY <1>1
    <2>2. QED
        BY <2>1, FS_Interval
<1> DEFINE g == [t \in below |-> f[t]]
<1>4. g \in Bijection(below, 0..(k - 1))
    <2>1. g \in [below -> 0..(k - 1)]
        BY <1>1 DEF Numbers
    <2>2. \A s, t \in below : g[s] = g[t] => s = t
        BY DEF Numbers
    <2>3. \A i \in 0..(k - 1) : \E t \in below : g[t] = i
        BY <1>1
    <2> HIDE DEF g, below
    <2>4. QED
        BY <2>1, <2>2, <2>3, Fun_IsBij
<1>5. ExistsBijection(below, 0..(k - 1))
    BY <1>4 DEF ExistsBijection
<1>6. QED
    BY <1>2, <1>3, <1>5, FS_Bijection

\* The rank of a song among the others, once one is taken out.
LEMMA RankWithout ==
    ASSUME NEW p, NEW S, Numbers(position[p], S), NEW gone \in S, NEW s \in S \ {gone}
    PROVE  Rank(p, S \ {gone}, s) = IF position[p][s] < position[p][gone]
                                    THEN position[p][s]
                                    ELSE position[p][s] - 1
<1> DEFINE f == position[p]
           below == {t \in S : f[t] < f[s]}
<1>1. /\ f[s] \in 0..Cardinality(S) /\ f[s] \in Nat
      /\ f[gone] \in Nat /\ f[s] # f[gone]
    BY NumbersIsBijection DEF Numbers
<1>2. IsFiniteSet(below) /\ Cardinality(below) = f[s]
    BY <1>1, SongsBelow
<1>3. {t \in S \ {gone} : f[t] < f[s]} = below \ {gone}
    OBVIOUS
<1>4. gone \in below <=> ~ (f[s] < f[gone])
    BY <1>1
<1>5. Cardinality(below \ {gone}) = IF f[s] < f[gone] THEN f[s] ELSE f[s] - 1
    BY <1>2, <1>4, FS_RemoveElement
<1>6. QED
    BY <1>3, <1>5 DEF Rank

\* An empty playlist is numbered, ...
LEMMA NumbersNone == Numbers(NoRows, {}) /\ Cardinality({}) = 0 /\ DOMAIN NoRows = {}
BY FS_EmptySet DEF Numbers, NoRows

\* ... so is one with one more song at the end, ...
LEMMA NumbersAppended ==
    ASSUME NEW f, NEW S, Numbers(f, S), NEW new, new \notin S
    PROVE  /\ Numbers([t \in S \cup {new} |-> IF t = new THEN Cardinality(S) ELSE f[t]], S \cup {new})
           /\ Cardinality(S \cup {new}) = Cardinality(S) + 1
<1>1. Cardinality(S) \in Nat
    BY NumbersIsBijection
<1>2. IsFiniteSet(S \cup {new}) /\ Cardinality(S \cup {new}) = Cardinality(S) + 1
    BY FS_AddElement DEF Numbers
<1> DEFINE g == [t \in S \cup {new} |-> IF t = new THEN Cardinality(S) ELSE f[t]]
<1>3. g \in [S \cup {new} -> 0..Cardinality(S)]
    BY <1>1 DEF Numbers
<1>4. \A s, t \in S \cup {new} : g[s] = g[t] => s = t
    <2> SUFFICES ASSUME NEW s \in S \cup {new}, NEW t \in S \cup {new}, s # t
                 PROVE  g[s] # g[t]
        OBVIOUS
    <2>1. \A x \in S : f[x] # Cardinality(S)
        BY <1>1 DEF Numbers
    <2>2. QED
        BY <2>1 DEF Numbers
<1>5. Cardinality(S \cup {new}) - 1 = Cardinality(S)
    BY <1>1, <1>2
<1> HIDE DEF g
<1>6. Numbers(g, S \cup {new})
    BY <1>2, <1>3, <1>4, <1>5 DEF Numbers
<1>7. QED
    BY <1>2, <1>6 DEF g

\* ... and one that is renumbered after a song is taken out.
LEMMA NumbersWithout ==
    ASSUME NEW p, NEW S, Numbers(position[p], S), NEW gone \in S
    PROVE  /\ Numbers([s \in S \ {gone} |-> Rank(p, S \ {gone}, s)], S \ {gone})
           /\ Cardinality(S \ {gone}) = Cardinality(S) - 1
<1> DEFINE f == position[p]
           rest == S \ {gone}
           g == [s \in rest |-> Rank(p, rest, s)]
<1>1. Cardinality(S) \in Nat /\ f \in [S -> 0..(Cardinality(S) - 1)]
    BY NumbersIsBijection DEF Numbers
<1>2. IsFiniteSet(rest) /\ Cardinality(rest) = Cardinality(S) - 1
    BY FS_RemoveElement DEF Numbers
<1>3. \A s \in rest : g[s] = IF f[s] < f[gone] THEN f[s] ELSE f[s] - 1
    BY RankWithout
<1>4. \A s, t \in S : f[s] = f[t] => s = t
    BY DEF Numbers
<1> HIDE DEF g, f
<1>5. \A s \in rest : g[s] \in 0..(Cardinality(rest) - 1)
    <2> SUFFICES ASSUME NEW s \in rest PROVE g[s] \in 0..(Cardinality(rest) - 1)
        OBVIOUS
    <2>1. f[s] \in 0..(Cardinality(S) - 1) /\ f[gone] \in 0..(Cardinality(S) - 1) /\ f[s] # f[gone]
        BY <1>1, <1>4
    <2>2. QED
        BY <1>1, <1>2, <1>3, <2>1
<1>6. \A s, t \in rest : g[s] = g[t] => s = t
    <2> SUFFICES ASSUME NEW s \in rest, NEW t \in rest, g[s] = g[t] PROVE f[s] = f[t]
        BY <1>4
    <2>1. /\ f[s] \in Nat /\ f[t] \in Nat /\ f[gone] \in Nat
          /\ f[s] # f[gone] /\ f[t] # f[gone]
        BY <1>1, <1>4
    <2>2. QED
        BY <1>3, <2>1
<1>7. g \in [rest -> 0..(Cardinality(rest) - 1)]
    BY <1>5 DEF g
<1>8. QED
    BY <1>2, <1>6, <1>7 DEF Numbers, g

----------------------------------------------------------------------------
(* The inductive invariant *)

RowsOK ==
    /\ used \subseteq Playlist
    /\ exists \subseteq used
    /\ DOMAIN position = Playlist
    /\ \A p \in Playlist :
        /\ SongsIn(p) \subseteq Song
        /\ Numbers(position[p], SongsIn(p))
        /\ Cardinality(SongsIn(p)) <= MaxSongs
        /\ p \notin exists => position[p] = NoRows

\* What r will write fits the songs of its playlist as they are.
Planned(r) ==
    LET p == op[r].playlist
        s == op[r].song
        n == Cardinality(SongsIn(p))
        rest == SongsIn(p) \ {s}
    IN  \/ /\ op[r].kind = "add"
           /\ n < MaxSongs
           /\ writes[r] = [t \in {s} |-> n]
        \/ /\ op[r].kind = "remove"
           /\ s \in SongsIn(p)
           /\ writes[r] = [t \in rest |-> Rank(p, rest, t)]
        \/ /\ op[r].kind = "reorder"
           /\ Numbers(writes[r], SongsIn(p))

Holding == {"read", "write"}
Asked == {"find", "rename", "delete", "lock"} \cup Holding

RequestOK(r) ==
    /\ pc[r] \in Asked => op[r] \in Op /\ op[r].playlist \in used
    /\ pc[r] = "find" => op[r].kind \in {"rename", "delete"}
    /\ pc[r] \in {"lock"} \cup Holding => op[r].kind \in {"add", "remove", "reorder"}
    /\ pc[r] \in Holding => op[r].playlist \in exists /\ lockedBy[op[r].playlist] = r
    /\ pc[r] = "write" => Planned(r)

TablesOK ==
    /\ lockedBy \in [Playlist -> Request \cup {None}]
    /\ pc \in [Request -> {"idle", "create"} \cup Asked]
    /\ op \in [Request -> Op \cup {Idle}]
    /\ DOMAIN writes = Request

IInv == RowsOK /\ TablesOK /\ \A r \in Request : RequestOK(r)

----------------------------------------------------------------------------
(* Every step keeps it *)

\* Initially there are no playlists and no requests.
LEMMA InitInv == Init => IInv
<1> SUFFICES ASSUME Init PROVE IInv
    OBVIOUS
<1>1. RowsOK
    BY NumbersNone, LimitAssumption DEF Init, RowsOK, SongsIn
<1>2. TablesOK
    BY DEF Init, TablesOK, NoRows
<1>3. \A r \in Request : RequestOK(r)
    BY DEF Init, RequestOK, Asked, Holding
<1>4. QED
    BY <1>1, <1>2, <1>3 DEF IInv

\* What another request knows stays true while the rows it holds, and its locks, do.
LEMMA OthersUndisturbed ==
    ASSUME IInv, NEW q \in Request,
           pc'[q] = pc[q], op'[q] = op[q], writes'[q] = writes[q],
           used \subseteq used',
           pc[q] \in Holding =>
               /\ op[q].playlist \in exists'
               /\ lockedBy'[op[q].playlist] = q
               /\ position'[op[q].playlist] = position[op[q].playlist]
    PROVE  RequestOK(q)'
<1>1. RequestOK(q)
    BY DEF IInv
<1>2. ASSUME Planned(q), pc[q] \in Holding PROVE Planned(q)'
    <2> DEFINE p == op[q].playlist
    <2>1. position'[p] = position[p] /\ op'[q] = op[q] /\ writes'[q] = writes[q]
        BY <1>2
    <2>2. \A S, t : Rank(p, S, t)' = Rank(p, S, t)
        BY <2>1 DEF Rank
    <2>3. QED
        BY <1>2, <2>1, <2>2 DEF Planned, SongsIn, Rank
<1>3. QED
    BY <1>1, <1>2 DEF RequestOK, Asked, Holding

\* A request that is answered leaves the others what they hold.
LEMMA EndKeepsTables ==
    ASSUME IInv, NEW r \in Request, End(r)
    PROVE  /\ TablesOK'
           /\ RequestOK(r)'
           /\ \A q \in Request \ {r} :
                /\ pc'[q] = pc[q] /\ op'[q] = op[q] /\ writes'[q] = writes[q]
                /\ pc[q] \in Holding => lockedBy'[op[q].playlist] = q
<1>1. TablesOK'
    BY DEF IInv, TablesOK, End
<1>2. RequestOK(r)'
    BY DEF IInv, TablesOK, End, RequestOK, Asked, Holding
<1>3. ASSUME NEW q \in Request \ {r}
      PROVE  /\ pc'[q] = pc[q] /\ op'[q] = op[q] /\ writes'[q] = writes[q]
             /\ pc[q] \in Holding => lockedBy'[op[q].playlist] = q
    <2>1. pc[q] \in Holding =>
            op[q].playlist \in Playlist /\ lockedBy[op[q].playlist] = q
        BY DEF IInv, RequestOK, RowsOK
    <2>2. QED
        BY <2>1 DEF IInv, TablesOK, End
<1>4. QED
    BY <1>1, <1>2, <1>3

\* A request that is answered with the rows as they are.
LEMMA EndInv ==
    ASSUME IInv, NEW r \in Request, End(r), UNCHANGED rowVars
    PROVE  IInv'
<1>1. RowsOK'
    BY DEF IInv, RowsOK, rowVars, SongsIn
<1>2. \A q \in Request : RequestOK(q)'
    <2> SUFFICES ASSUME NEW q \in Request PROVE RequestOK(q)'
        OBVIOUS
    <2>1. CASE q = r
        BY <2>1, EndKeepsTables
    <2>2. CASE q # r
        <3>1. pc[q] \in Holding => op[q].playlist \in exists
            BY DEF IInv, RequestOK
        <3>2. QED
            BY <2>2, <3>1, EndKeepsTables, OthersUndisturbed DEF rowVars
    <2>3. QED
        BY <2>1, <2>2
<1>3. QED
    BY <1>1, <1>2, EndKeepsTables DEF IInv

\* A request that goes on with the rows and the locks as they are, having learnt what is
\* true of it.
LEMMA GoesOnInv ==
    ASSUME IInv, NEW r \in Request,
           UNCHANGED <<rowVars, lockedBy>>,
           op' \in [Request -> Op \cup {Idle}],
           pc' \in [Request -> {"idle", "create"} \cup Asked], DOMAIN writes' = Request,
           \A q \in Request \ {r} : pc'[q] = pc[q] /\ op'[q] = op[q] /\ writes'[q] = writes[q],
           RequestOK(r)'
    PROVE  IInv'
<1>1. RowsOK'
    BY DEF IInv, RowsOK, rowVars, SongsIn
<1>2. TablesOK'
    BY DEF IInv, TablesOK
<1>3. \A q \in Request : RequestOK(q)'
    <2> SUFFICES ASSUME NEW q \in Request, q # r PROVE RequestOK(q)'
        OBVIOUS
    <2>1. pc[q] \in Holding => op[q].playlist \in exists /\ lockedBy[op[q].playlist] = q
        BY DEF IInv, RequestOK
    <2>2. QED
        BY <2>1, OthersUndisturbed DEF rowVars
<1>4. QED
    BY <1>1, <1>2, <1>3 DEF IInv

\* create_playlist
LEMMA CreateCountInv ==
    ASSUME IInv, NEW r \in Request, CreateCount(r) PROVE IInv'
<1>1. RequestOK(r)'
    BY DEF IInv, TablesOK, CreateCount, RequestOK, Asked, Holding
<1>2. QED
    BY <1>1, GoesOnInv DEF IInv, TablesOK, CreateCount

LEMMA CreateCommitInv ==
    ASSUME IInv, NEW r \in Request, NEW p \in Playlist, CreateCommit(r, p) PROVE IInv'
<1>1. RowsOK'
    BY DEF IInv, RowsOK, CreateCommit, SongsIn
<1>2. ASSUME NEW q \in Request PROVE RequestOK(q)'
    <2>1. CASE q = r
        BY <2>1, EndKeepsTables DEF CreateCommit
    <2>2. CASE q # r
        <3>1. pc[q] \in Holding => op[q].playlist \in exists
            BY DEF IInv, RequestOK
        <3>2. QED
            BY <2>2, <3>1, EndKeepsTables, OthersUndisturbed DEF CreateCommit
    <2>3. QED
        BY <2>1, <2>2
<1>3. QED
    BY <1>1, <1>2, EndKeepsTables DEF IInv, CreateCommit

\* The first statements of the other handlers
LEMMA BeginInv ==
    ASSUME IInv, NEW r \in Request, NEW o \in Op, Begin(r, o) PROVE IInv'
<1>1. RequestOK(r)'
    BY DEF IInv, TablesOK, Begin, RequestOK, Asked, Holding, Op, Kind, rowVars
<1>2. QED
    BY <1>1, GoesOnInv DEF IInv, TablesOK, Begin, Asked

LEMMA FindInv ==
    ASSUME IInv, NEW r \in Request, Find(r) PROVE IInv'
<1>1. CASE End(r)
    BY <1>1, EndInv DEF Find
<1>2. CASE pc' = [pc EXCEPT ![r] = op[r].kind] /\ UNCHANGED <<lockedBy, op, writes>>
    <2>1. RequestOK(r) /\ pc[r] = "find"
        BY DEF IInv, Find
    <2>2. RequestOK(r)'
        BY <1>2, <2>1 DEF IInv, TablesOK, Find, RequestOK, Asked, Holding, rowVars
    <2>3. QED
        BY <1>2, <2>2, GoesOnInv DEF IInv, TablesOK, Find, RequestOK, Asked
<1>3. QED
    BY <1>1, <1>2 DEF Find

\* rename_playlist, delete_playlist
LEMMA RenameInv ==
    ASSUME IInv, NEW r \in Request, RenameCommit(r) PROVE IInv'
BY EndInv DEF RenameCommit

\* DELETE finds the row locked by nobody else, so no one holds it.
LEMMA DeleteInv ==
    ASSUME IInv, NEW r \in Request, DeleteCommit(r) PROVE IInv'
<1> DEFINE p == op[r].playlist
<1>1. /\ p \in Playlist /\ Lockable(r, p) /\ End(r) /\ UNCHANGED used /\ pc[r] = "delete"
      /\ exists' = exists \ {p}
      /\ position' = [position EXCEPT ![p] = NoRows]
    BY DEF IInv, RequestOK, Asked, RowsOK, DeleteCommit
<1>2. RowsOK'
    <2>1. \A x \in Playlist : position'[x] = IF x = p THEN NoRows ELSE position[x]
        BY <1>1 DEF IInv, RowsOK
    <2>2. QED
        BY <1>1, <2>1, NumbersNone, LimitAssumption DEF IInv, RowsOK, SongsIn
<1>3. ASSUME NEW q \in Request, q # r PROVE RequestOK(q)'
    <2>1. pc[q] \in Holding =>
            /\ op[q].playlist \in exists
            /\ op[q].playlist \in Playlist
            /\ lockedBy[op[q].playlist] = q
        BY DEF IInv, RequestOK, RowsOK
    <2>2. pc[q] \in Holding => op[q].playlist # p
        BY <1>1, <1>3, <2>1, NoneAssumption DEF Lockable
    <2>3. QED
        BY <1>1, <1>3, <2>1, <2>2, EndKeepsTables, OthersUndisturbed DEF IInv, RowsOK
<1>4. QED
    BY <1>1, <1>2, <1>3, EndKeepsTables DEF IInv

\* SELECT ... FOR UPDATE: nobody else holds the row.
LEMMA LockInv ==
    ASSUME IInv, NEW r \in Request, Lock(r) PROVE IInv'
<1> DEFINE p == op[r].playlist
<1>1. CASE End(r)
    BY <1>1, EndInv DEF Lock
<1>2. CASE /\ p \in exists
           /\ lockedBy' = [lockedBy EXCEPT ![p] = r]
           /\ pc' = [pc EXCEPT ![r] = "read"]
           /\ UNCHANGED <<op, writes>>
    <2>1. pc[r] = "lock" /\ Lockable(r, p) /\ UNCHANGED rowVars /\ RequestOK(r) /\ p \in Playlist
        BY DEF IInv, Lock, RequestOK, Asked, RowsOK
    <2>2. RowsOK'
        BY <2>1 DEF IInv, RowsOK, rowVars, SongsIn
    <2>3. TablesOK'
        BY <1>2 DEF IInv, TablesOK, Asked, Holding
    <2>4. RequestOK(r)'
        BY <1>2, <2>1 DEF IInv, TablesOK, RequestOK, Asked, Holding, rowVars
    <2>5. ASSUME NEW q \in Request, q # r PROVE RequestOK(q)'
        <3>1. pc[q] \in Holding =>
                /\ op[q].playlist \in exists
                /\ lockedBy[op[q].playlist] = q
            BY DEF IInv, RequestOK
        <3>2. pc[q] \in Holding => op[q].playlist # p
            BY <2>1, <2>5, <3>1, NoneAssumption DEF Lockable
        <3>3. pc[q] \in Holding => lockedBy'[op[q].playlist] = q
            BY <1>2, <3>1, <3>2 DEF IInv, TablesOK
        <3>4. QED
            BY <1>2, <2>1, <2>5, <3>1, <3>3, OthersUndisturbed DEF IInv, TablesOK, rowVars
    <2>6. QED
        BY <2>2, <2>3, <2>4, <2>5 DEF IInv
<1>3. QED
    BY <1>1, <1>2 DEF Lock

\* What is read under the lock is a plan that fits.
LEMMA PlanInv ==
    ASSUME IInv, NEW r \in Request, NEW rows, Plan(r, rows), pc[r] = "read",
           UNCHANGED rowVars, Planned(r)'
    PROVE  IInv'
<1>1. RequestOK(r)'
    BY DEF IInv, TablesOK, Plan, RequestOK, Asked, Holding, rowVars
<1>2. QED
    BY <1>1, GoesOnInv DEF IInv, TablesOK, Plan, Asked, Holding

LEMMA ReadInv ==
    ASSUME IInv, NEW r \in Request, Read(r) PROVE IInv'
<1> DEFINE p == op[r].playlist
           s == op[r].song
           n == Cardinality(SongsIn(p))
           rest == SongsIn(p) \ {s}
<1>1. /\ pc[r] = "read" /\ UNCHANGED rowVars /\ p \in Playlist
      /\ Numbers(position[p], SongsIn(p)) /\ r \in DOMAIN writes
    BY DEF Read, IInv, RequestOK, Asked, Holding, RowsOK, TablesOK
<1>2. CASE End(r)
    BY <1>1, <1>2, EndInv
<1>3. CASE op[r].kind = "add" /\ n < MaxSongs /\ Plan(r, [t \in {s} |-> n])
    <2>1. Planned(r)'
        BY <1>1, <1>3 DEF Planned, Plan, rowVars, SongsIn
    <2>2. QED
        BY <1>1, <1>3, <2>1, PlanInv
<1>4. CASE op[r].kind = "remove" /\ s \in SongsIn(p) /\ Plan(r, [t \in rest |-> Rank(p, rest, t)])
    <2>1. \A S, t : Rank(p, S, t)' = Rank(p, S, t)
        BY <1>1, <1>4 DEF Rank, Plan, rowVars
    <2>2. writes'[r] = [t \in rest |-> Rank(p, rest, t)] /\ op' = op /\ position' = position
        BY <1>1, <1>4 DEF Plan, rowVars
    <2>3. Planned(r)'
        BY <1>4, <2>1, <2>2 DEF Planned, SongsIn, Rank
    <2>4. QED
        BY <1>1, <1>4, <2>3, PlanInv
<1>5. CASE /\ op[r].kind = "reorder"
           /\ \E order \in [SongsIn(p) -> 0..(n - 1)] :
                /\ \A x, t \in SongsIn(p) : order[x] = order[t] => x = t
                /\ Plan(r, order)
    <2>1. PICK order \in [SongsIn(p) -> 0..(n - 1)] :
                /\ \A x, t \in SongsIn(p) : order[x] = order[t] => x = t
                /\ Plan(r, order)
        BY <1>5
    <2>2. Numbers(order, SongsIn(p))
        BY <1>1, <2>1 DEF Numbers
    <2>3. writes'[r] = order /\ op' = op /\ position' = position
        BY <1>1, <2>1 DEF Plan, rowVars
    <2>4. Planned(r)'
        BY <1>5, <2>2, <2>3 DEF Planned, SongsIn
    <2>5. QED
        BY <1>1, <2>1, <2>4, PlanInv
<1>6. QED
    BY <1>2, <1>3, <1>4, <1>5 DEF Read, ReadForAdd, ReadForRemove, ReadForReorder

\* What a commit under the lock makes of the rows of the playlist.
LEMMA WriteRows ==
    ASSUME IInv, NEW r \in Request, Write(r)
    PROVE  LET p == op[r].playlist
               s == op[r].song
               rest == SongsIn(p) \ {s}
           IN  /\ p \in Playlist /\ p \in exists /\ s \in Song
               /\ pc[r] = "write" /\ End(r) /\ UNCHANGED <<used, exists>>
               /\ \A x \in Playlist \ {p} : position'[x] = position[x]
               /\ \/ position' = position
                  \/ /\ s \notin SongsIn(p) /\ Cardinality(SongsIn(p)) < MaxSongs
                     /\ position' = [position EXCEPT ![p] =
                            [t \in SongsIn(p) \cup {s} |->
                                IF t = s THEN Cardinality(SongsIn(p)) ELSE position[p][t]]]
                  \/ /\ s \in SongsIn(p)
                     /\ position' = [position EXCEPT ![p] = [t \in rest |-> Rank(p, rest, t)]]
                  \/ \E order :
                        /\ Numbers(order, SongsIn(p))
                        /\ position' = [position EXCEPT ![p] = order]
<1> DEFINE p == op[r].playlist
           s == op[r].song
           rest == SongsIn(p) \ {s}
<1>1. /\ p \in Playlist /\ p \in exists /\ s \in Song /\ DOMAIN position = Playlist
      /\ pc[r] = "write" /\ End(r) /\ UNCHANGED <<used, exists>> /\ Planned(r)
    BY DEF Write, IInv, RequestOK, Asked, Holding, RowsOK, Op
<1>2. CASE op[r].kind = "add" /\ WriteAdded(r)
    <2>1. writes[r] = [t \in {s} |-> Cardinality(SongsIn(p))] /\ Cardinality(SongsIn(p)) < MaxSongs
        BY <1>1, <1>2 DEF Planned
    <2>2. CASE s \in SongsIn(p)
        BY <1>1, <1>2, <2>2 DEF WriteAdded
    <2>3. CASE s \notin SongsIn(p)
        <3>1. position' = [position EXCEPT ![p] =
                            [t \in SongsIn(p) \cup {s} |->
                                IF t = s THEN Cardinality(SongsIn(p)) ELSE position[p][t]]]
            BY <1>1, <1>2, <2>1, <2>3 DEF WriteAdded
        <3>2. QED
            BY <1>1, <2>1, <2>3, <3>1
    <2>4. QED
        BY <2>2, <2>3
<1>3. CASE op[r].kind = "remove" /\ WriteRenumbered(r)
    <2>1. s \in SongsIn(p) /\ writes[r] = [t \in rest |-> Rank(p, rest, t)]
        BY <1>1, <1>3 DEF Planned
    <2>2. position' = [position EXCEPT ![p] = [t \in rest |-> Rank(p, rest, t)]]
        BY <1>1, <1>3, <2>1 DEF WriteRenumbered
    <2>3. QED
        BY <1>1, <2>1, <2>2
<1>4. CASE op[r].kind = "reorder" /\ WriteRenumbered(r)
    <2>1. Numbers(writes[r], SongsIn(p))
        BY <1>1, <1>4 DEF Planned
    <2>2. writes[r] = [t \in SongsIn(p) |-> writes[r][t]]
        BY <2>1 DEF Numbers
    <2>3. position' = [position EXCEPT ![p] = writes[r]]
        BY <1>1, <1>4, <2>2 DEF WriteRenumbered
    <2>4. QED
        BY <1>1, <2>1, <2>3
<1>5. QED
    BY <1>1, <1>2, <1>3, <1>4 DEF Write, Planned, WriteAdded, WriteRenumbered

\* The rows of one playlist are replaced by rows that are numbered.
LEMMA NewRowsOK ==
    ASSUME IInv, UNCHANGED <<used, exists>>, NEW p \in exists, NEW f, NEW S,
           position' = [position EXCEPT ![p] = f],
           Numbers(f, S), S \subseteq Song, Cardinality(S) <= MaxSongs
    PROVE  RowsOK'
<1>1. \A x \in Playlist : position'[x] = IF x = p THEN f ELSE position[x]
    BY DEF IInv, RowsOK
<1>2. DOMAIN f = S /\ p \in Playlist
    BY DEF Numbers, IInv, RowsOK
<1>3. QED
    BY <1>1, <1>2 DEF IInv, RowsOK, SongsIn

LEMMA WriteInv ==
    ASSUME IInv, NEW r \in Request, Write(r) PROVE IInv'
<1> DEFINE p == op[r].playlist
           s == op[r].song
           S == SongsIn(p)
           rest == S \ {s}
<1>1. /\ p \in Playlist /\ p \in exists /\ s \in Song
      /\ pc[r] = "write" /\ End(r) /\ UNCHANGED <<used, exists>>
      /\ \A x \in Playlist \ {p} : position'[x] = position[x]
    BY WriteRows
<1>2. Numbers(position[p], S) /\ S \subseteq Song /\ Cardinality(S) <= MaxSongs /\ Cardinality(S) \in Nat
    BY <1>1, NumbersIsBijection DEF IInv, RowsOK
<1>3. RowsOK'
    <2>1. CASE position' = position
        BY <1>1, <2>1 DEF IInv, RowsOK, SongsIn
    <2>2. CASE /\ s \notin S /\ Cardinality(S) < MaxSongs
               /\ position' = [position EXCEPT ![p] =
                      [t \in S \cup {s} |-> IF t = s THEN Cardinality(S) ELSE position[p][t]]]
        <3>1. /\ Numbers([t \in S \cup {s} |-> IF t = s THEN Cardinality(S) ELSE position[p][t]],
                         S \cup {s})
              /\ Cardinality(S \cup {s}) = Cardinality(S) + 1
            BY <1>2, <2>2, NumbersAppended
        <3>2. Cardinality(S \cup {s}) <= MaxSongs /\ S \cup {s} \subseteq Song
            BY <1>1, <1>2, <2>2, <3>1, LimitAssumption
        <3>3. QED
            BY <1>1, <2>2, <3>1, <3>2, NewRowsOK
    <2>3. CASE s \in S /\ position' = [position EXCEPT ![p] = [t \in rest |-> Rank(p, rest, t)]]
        <3>1. /\ Numbers([t \in rest |-> Rank(p, rest, t)], rest)
              /\ Cardinality(rest) = Cardinality(S) - 1
            BY <1>2, <2>3, NumbersWithout
        <3>2. Cardinality(rest) <= MaxSongs /\ rest \subseteq Song
            BY <1>2, <3>1, LimitAssumption
        <3>3. QED
            BY <1>1, <2>3, <3>1, <3>2, NewRowsOK
    <2>4. CASE \E order : Numbers(order, S) /\ position' = [position EXCEPT ![p] = order]
        BY <1>1, <1>2, <2>4, NewRowsOK
    <2>5. QED
        BY <2>1, <2>2, <2>3, <2>4, WriteRows
<1>4. ASSUME NEW q \in Request, q # r PROVE RequestOK(q)'
    <2>1. pc[r] \in Holding /\ RequestOK(r) /\ RequestOK(q)
        BY <1>1 DEF Holding, IInv
    <2>2. pc[q] \in Holding =>
            op[q].playlist \in exists /\ op[q].playlist \in Playlist \ {p}
        BY <1>4, <2>1 DEF RequestOK, IInv, RowsOK
    <2>3. QED
        BY <1>1, <1>4, <2>2, EndKeepsTables, OthersUndisturbed
<1>5. QED
    BY <1>1, <1>3, <1>4, EndKeepsTables DEF IInv

\* Postgres rolls back.
LEMMA AbortInv ==
    ASSUME IInv, NEW r \in Request, Abort(r) PROVE IInv'
BY EndInv DEF Abort

LEMMA StutterInv ==
    ASSUME IInv, UNCHANGED vars PROVE IInv'
<1>1. \A p, S, s : Rank(p, S, s)' = Rank(p, S, s)
    BY DEF Rank, vars, rowVars
<1>2. \A r : Planned(r)' <=> Planned(r)
    BY <1>1 DEF Planned, SongsIn, Rank, vars, rowVars, requestVars
<1>3. QED
    BY <1>2 DEF IInv, RowsOK, TablesOK, RequestOK, SongsIn, vars, rowVars, requestVars

LEMMA NextInv == IInv /\ [Next]_vars => IInv'
<1> SUFFICES ASSUME IInv, [Next]_vars PROVE IInv'
    OBVIOUS
<1>1. CASE UNCHANGED vars
    BY <1>1, StutterInv
<1>2. ASSUME NEW r \in Request, Step(r) PROVE IInv'
    BY <1>2, CreateCountInv, CreateCommitInv, BeginInv, FindInv, RenameInv, DeleteInv, LockInv,
       ReadInv, WriteInv, AbortInv DEF Step
<1>3. QED
    BY <1>1, <1>2 DEF Next

\* What holds of every reachable state.
THEOREM PlaylistsInvariant == Spec => []IInv
BY InitInv, NextInv, PTL DEF Spec

----------------------------------------------------------------------------
(* What the run checks, for every value of the constants *)

\* Type correctness, with the rows, the locks and the requests of any number of clients.
THEOREM TypeSafe == Spec => []TypeOK
<1>1. ASSUME IInv PROVE TypeOK
    <2>1. \A p \in Playlist :
            /\ position[p] \in [SongsIn(p) -> Nat]
            /\ p \notin exists => SongsIn(p) = {}
        <3> SUFFICES ASSUME NEW p \in Playlist
                     PROVE  /\ position[p] \in [SongsIn(p) -> Nat]
                            /\ p \notin exists => SongsIn(p) = {}
            OBVIOUS
        <3>1. Numbers(position[p], SongsIn(p)) /\ (p \notin exists => position[p] = NoRows)
            BY <1>1 DEF IInv, RowsOK
        <3>2. QED
            BY <3>1, NumbersIsBijection DEF Numbers, SongsIn, NoRows
    <2>2. pc \in [Request -> {"idle", "create", "find", "rename", "delete", "lock", "read", "write"}]
        BY <1>1 DEF IInv, TablesOK, Asked, Holding
    <2>3. QED
        BY <1>1, <2>1, <2>2 DEF TypeOK, IInv, RowsOK, TablesOK
<1>2. QED
    BY <1>1, PlaylistsInvariant, PTL

\* The positions of a playlist of n songs are 0 to n - 1, and n is at most the limit,
\* however adds, removals and reorderings interleave.
THEOREM PositionsSafe == Spec => []PositionsContiguous
<1>1. ASSUME IInv PROVE PositionsContiguous
    <2> SUFFICES ASSUME NEW p \in Playlist
                 PROVE  /\ {position[p][s] : s \in SongsIn(p)} = 0..(Cardinality(SongsIn(p)) - 1)
                        /\ Cardinality(SongsIn(p)) <= MaxSongs
        BY DEF PositionsContiguous
    <2>1. Numbers(position[p], SongsIn(p)) /\ Cardinality(SongsIn(p)) <= MaxSongs
        BY <1>1 DEF IInv, RowsOK
    <2>2. QED
        BY <2>1, NumbersIsBijection DEF Numbers
<1>2. QED
    BY <1>1, PlaylistsInvariant, PTL

----------------------------------------------------------------------------
(* The limit of playlists *)

Creating == {r \in Request : pc[r] = "create"}

\* Who has counted and not yet inserted may still add one playlist each.
LimitInv ==
    /\ IsFiniteSet(exists)
    /\ Cardinality(exists) + Cardinality(Creating) < MaxPlaylists + Cardinality(Request)

\* There are no more of them than requests.
LEMMA CreatingIsFinite ==
    /\ IsFiniteSet(Creating) /\ Cardinality(Creating) \in Nat
    /\ Cardinality(Request) \in Nat
    /\ Cardinality(Creating) <= Cardinality(Request)
BY RequestAssumption, FS_Subset, FS_CardinalityType DEF Creating

LEMMA InitLimit == Init => LimitInv
<1> SUFFICES ASSUME Init PROVE LimitInv
    OBVIOUS
<1>1. exists = {} /\ Creating = {}
    BY DEF Init, Creating
<1>2. QED
    BY <1>1, FS_EmptySet, LimitAssumption, CreatingIsFinite DEF LimitInv

\* Fewer playlists, and no new request that has counted.
LEMMA FewerLimit ==
    ASSUME LimitInv, exists' \subseteq exists, Creating' \subseteq Creating
    PROVE  LimitInv'
<1>1. IsFiniteSet(exists') /\ Cardinality(exists') <= Cardinality(exists)
      /\ Cardinality(exists) \in Nat /\ Cardinality(exists') \in Nat
    BY FS_Subset, FS_CardinalityType DEF LimitInv
<1>2. IsFiniteSet(Creating') /\ Cardinality(Creating') <= Cardinality(Creating)
      /\ Cardinality(Creating') \in Nat
    BY CreatingIsFinite, FS_Subset, FS_CardinalityType
<1>3. QED
    BY <1>1, <1>2, CreatingIsFinite, LimitAssumption DEF LimitInv

LEMMA CountLimit ==
    ASSUME LimitInv, NEW r \in Request, CreateCount(r) PROVE LimitInv'
<1>1. exists' = exists /\ Cardinality(exists) < MaxPlaylists /\ Cardinality(exists) \in Nat
    BY FS_CardinalityType DEF LimitInv, CreateCount, rowVars
<1>2. IsFiniteSet(Creating') /\ Cardinality(Creating') \in Nat
      /\ Cardinality(Creating') <= Cardinality(Request) /\ Cardinality(Request) \in Nat
    BY RequestAssumption, FS_Subset, FS_CardinalityType DEF Creating
<1>3. QED
    BY <1>1, <1>2, LimitAssumption DEF LimitInv

LEMMA CommitLimit ==
    ASSUME IInv, LimitInv, NEW r \in Request, NEW p \in Playlist, CreateCommit(r, p)
    PROVE  LimitInv'
<1>1. /\ IsFiniteSet(exists') /\ Cardinality(exists') = Cardinality(exists) + 1
      /\ Cardinality(exists) \in Nat
    BY FS_AddElement, FS_CardinalityType DEF LimitInv, CreateCommit, IInv, RowsOK
<1>2. Creating' = Creating \ {r} /\ r \in Creating
    BY DEF IInv, TablesOK, Creating, CreateCommit, End
<1>3. Cardinality(Creating') = Cardinality(Creating) - 1
    BY <1>2, CreatingIsFinite, FS_RemoveElement
<1>4. QED
    BY <1>1, <1>3, CreatingIsFinite, LimitAssumption DEF LimitInv

LEMMA NextLimit == IInv /\ LimitInv /\ [Next]_vars => LimitInv'
<1> SUFFICES ASSUME IInv, LimitInv, [Next]_vars PROVE LimitInv'
    OBVIOUS
<1>1. CASE UNCHANGED vars
    BY <1>1, FewerLimit DEF vars, rowVars, requestVars, Creating
<1>2. ASSUME NEW r \in Request, Step(r) PROVE LimitInv'
    <2>1. ASSUME End(r) PROVE Creating' \subseteq Creating
        BY <2>1 DEF IInv, TablesOK, Creating, End
    <2>2. ASSUME NEW x, x # "create", pc' = [pc EXCEPT ![r] = x] PROVE Creating' \subseteq Creating
        BY <2>2 DEF IInv, TablesOK, Creating
    <2>3. CASE \E o \in Op : Begin(r, o)
        BY <2>3, <2>2, FewerLimit DEF Begin, rowVars
    <2>4. CASE Find(r)
        <3>1. pc[r] = "find" => op[r].kind # "create"
            BY DEF IInv, RequestOK
        <3>2. QED
            BY <2>4, <3>1, <2>1, <2>2, FewerLimit DEF Find, rowVars
    <2>5. CASE RenameCommit(r) \/ DeleteCommit(r) \/ Write(r) \/ Abort(r)
        BY <2>5, <2>1, FewerLimit DEF RenameCommit, DeleteCommit, Write, Abort, rowVars
    <2>6. CASE Lock(r)
        BY <2>6, <2>1, <2>2, FewerLimit DEF Lock, rowVars
    <2>7. CASE Read(r)
        BY <2>7, <2>1, <2>2, FewerLimit
           DEF Read, ReadForAdd, ReadForRemove, ReadForReorder, Plan, rowVars
    <2>8. QED
        BY <1>2, <2>3, <2>4, <2>5, <2>6, <2>7, CountLimit, CommitLimit DEF Step
<1>3. QED
    BY <1>1, <1>2 DEF Next

\* Requests that count at the same time pass the limit together by no more than one
\* playlist each.
THEOREM LimitSafe == Spec => []PlaylistLimitSoft
<1>1. LimitInv => PlaylistLimitSoft
    BY CreatingIsFinite, FS_CardinalityType, LimitAssumption DEF LimitInv, PlaylistLimitSoft
<1>2. QED
    BY <1>1, InitLimit, NextLimit, PlaylistsInvariant, PTL DEF Spec

----------------------------------------------------------------------------
(* The refinement: each playlist is a list on which every request acts at one instant *)

\* The songs of a numbering in the order of their numbers.
Listed(f) ==
    [i \in 1..Cardinality(DOMAIN f) |-> CHOOSE s \in DOMAIN f : f[s] = i - 1]

LEMMA ListsAreListed == Lists = [p \in exists |-> Listed(position[p])]
BY DEF Lists, Listed, SongsIn

\* The song at each place of the list has the number before it.
LEMMA ListedInverts ==
    ASSUME NEW f, NEW S, Numbers(f, S)
    PROVE  /\ Listed(f) \in [1..Cardinality(S) -> S]
           /\ Listed(f) \in Seq(S) /\ Len(Listed(f)) = Cardinality(S)
           /\ \A i \in 1..Cardinality(S) : f[Listed(f)[i]] = i - 1
           /\ \A s \in S : f[s] + 1 \in 1..Cardinality(S) /\ Listed(f)[f[s] + 1] = s
           /\ Abstract!SongsOf(Listed(f)) = S
<1> DEFINE n == Cardinality(S)
           L == Listed(f)
<1>1. DOMAIN f = S /\ n \in Nat /\ \A i \in 0..(n - 1) : \E s \in S : f[s] = i
    BY NumbersIsBijection DEF Numbers
<1>2. L = [i \in 1..n |-> CHOOSE s \in S : f[s] = i - 1]
    BY <1>1 DEF Listed
<1>3. ASSUME NEW i \in 1..n PROVE L[i] \in S /\ f[L[i]] = i - 1
    <2>1. \E s \in S : f[s] = i - 1
        BY <1>1
    <2>2. QED
        BY <1>2, <2>1
<1> HIDE DEF L
<1>4. L \in [1..n -> S]
    BY <1>2, <1>3
<1>5. L \in Seq(S) /\ Len(L) = n
    BY <1>1, <1>4
<1>6. ASSUME NEW s \in S PROVE f[s] + 1 \in 1..n /\ L[f[s] + 1] = s
    <2>1. f[s] + 1 \in 1..n /\ f[s] \in Nat
        BY <1>1 DEF Numbers
    <2>2. L[f[s] + 1] \in S /\ f[L[f[s] + 1]] = f[s]
        BY <2>1, <1>3
    <2>3. QED
        BY <2>1, <2>2 DEF Numbers
<1>7. Abstract!SongsOf(L) = S
    BY <1>3, <1>4, <1>6 DEF Abstract!SongsOf
<1>8. QED
    BY <1>3, <1>4, <1>5, <1>6, <1>7 DEF L

\* Two lists of the same songs of which each place tells the number are the same.
LEMMA ListedUnique ==
    ASSUME NEW f, NEW S, Numbers(f, S),
           NEW q \in [1..Cardinality(S) -> S],
           \A i \in 1..Cardinality(S) : f[q[i]] = i - 1
    PROVE  Listed(f) = q
<1>1. /\ Listed(f) \in [1..Cardinality(S) -> S]
      /\ \A i \in 1..Cardinality(S) : f[Listed(f)[i]] = i - 1
    BY ListedInverts
<1>2. \A i \in 1..Cardinality(S) : Listed(f)[i] = q[i]
    BY <1>1 DEF Numbers
<1>3. /\ Listed(f) = [i \in 1..Cardinality(S) |-> Listed(f)[i]]
      /\ q = [i \in 1..Cardinality(S) |-> q[i]]
    BY <1>1
<1>4. QED
    BY <1>2, <1>3

\* Adding a song at the end of the numbering appends it to the list.
LEMMA ListedAppended ==
    ASSUME NEW f, NEW S, Numbers(f, S), NEW new, new \notin S
    PROVE  Listed([t \in S \cup {new} |-> IF t = new THEN Cardinality(S) ELSE f[t]])
             = Append(Listed(f), new)
<1> DEFINE n == Cardinality(S)
           g == [t \in S \cup {new} |-> IF t = new THEN Cardinality(S) ELSE f[t]]
           q == Append(Listed(f), new)
<1>1. Numbers(g, S \cup {new}) /\ Cardinality(S \cup {new}) = n + 1 /\ n \in Nat
    BY NumbersAppended, NumbersIsBijection
<1>2. /\ Listed(f) \in Seq(S) /\ Len(Listed(f)) = n
      /\ \A i \in 1..n : Listed(f)[i] \in S /\ f[Listed(f)[i]] = i - 1
    BY ListedInverts
<1>3. \A i \in 1..(n + 1) : q[i] = IF i = n + 1 THEN new ELSE Listed(f)[i]
    BY <1>1, <1>2
<1>4. q \in Seq(S \cup {new}) /\ Len(q) = n + 1
    BY <1>1, <1>2
<1>5. q \in [1..(n + 1) -> S \cup {new}]
    <2> HIDE DEF q
    <2>1. q = [i \in 1..(n + 1) |-> q[i]]
        BY <1>1, <1>4
    <2>2. QED
        BY <1>1, <1>2, <1>3, <2>1
<1>6. \A i \in 1..(n + 1) : g[q[i]] = i - 1
    BY <1>1, <1>2, <1>3
<1> HIDE DEF q, g
<1>7. Listed(g) = q
    BY <1>1, <1>5, <1>6, ListedUnique
<1>8. QED
    BY <1>7 DEF q, g

\* Renumbering what remains takes the song out of the list and leaves the others in order.
LEMMA ListedWithout ==
    ASSUME NEW p, NEW S, Numbers(position[p], S), NEW gone \in S
    PROVE  LET L == Listed(position[p])
               i == position[p][gone] + 1
               rest == S \ {gone}
           IN  /\ i \in DOMAIN L /\ L[i] = gone
               /\ Listed([s \in rest |-> Rank(p, rest, s)])
                    = SubSeq(L, 1, i - 1) \o SubSeq(L, i + 1, Len(L))
<1> DEFINE n == Cardinality(S)
           f == position[p]
           L == Listed(f)
           k == f[gone] + 1
           rest == S \ {gone}
           g == [s \in rest |-> Rank(p, rest, s)]
           q == SubSeq(L, 1, k - 1) \o SubSeq(L, k + 1, Len(L))
<1>1. /\ n \in Nat /\ L \in [1..n -> S] /\ L \in Seq(S) /\ Len(L) = n
      /\ \A i \in 1..n : f[L[i]] = i - 1
      /\ k \in 1..n /\ L[k] = gone
    BY NumbersIsBijection, ListedInverts
<1>2. Numbers(g, rest) /\ Cardinality(rest) = n - 1
    BY NumbersWithout
<1>3. \A s \in rest : g[s] = IF f[s] < f[gone] THEN f[s] ELSE f[s] - 1
    BY RankWithout
<1>4. f[gone] = k - 1
    BY <1>1
<1> HIDE DEF f, g, L, k
<1>5. /\ SubSeq(L, 1, k - 1) \in Seq(S) /\ Len(SubSeq(L, 1, k - 1)) = k - 1
      /\ \A i \in 1..(k - 1) : SubSeq(L, 1, k - 1)[i] = L[i]
    BY <1>1
<1>6. /\ SubSeq(L, k + 1, n) \in Seq(S) /\ Len(SubSeq(L, k + 1, n)) = n - k
      /\ \A i \in 1..(n - k) : SubSeq(L, k + 1, n)[i] = L[k + i]
    BY <1>1
<1>7. q \in Seq(S) /\ Len(q) = n - 1
    <2>1. q = SubSeq(L, 1, k - 1) \o SubSeq(L, k + 1, n)
        BY <1>1
    <2>2. k - 1 \in Nat /\ n - k \in Nat /\ (k - 1) + (n - k) = n - 1
        BY <1>1
    <2> HIDE DEF q
    <2>3. QED
        BY <1>5, <1>6, <2>1, <2>2
<1>8. \A i \in 1..(n - 1) : q[i] = IF i < k THEN L[i] ELSE L[i + 1]
    <2> DEFINE A == SubSeq(L, 1, k - 1)
               B == SubSeq(L, k + 1, n)
    <2>1. q = A \o B
        BY <1>1
    <2>2. /\ A \in Seq(S) /\ Len(A) = k - 1 /\ \A i \in 1..(k - 1) : A[i] = L[i]
          /\ B \in Seq(S) /\ Len(B) = n - k /\ \A i \in 1..(n - k) : B[i] = L[k + i]
        BY <1>5, <1>6
    <2> HIDE DEF q, A, B
    <2>3. ASSUME NEW i \in 1..(n - 1) PROVE q[i] = IF i < k THEN L[i] ELSE L[i + 1]
        <3>1. CASE i < k
            <4>1. i \in 1..(k - 1)
                BY <1>1, <3>1
            <4>2. q[i] = A[i]
                BY <2>1, <2>2, <4>1
            <4>3. QED
                BY <2>2, <3>1, <4>1, <4>2
        <3>2. CASE ~ (i < k)
            <4>1. i - (k - 1) \in 1..(n - k) /\ k + (i - (k - 1)) = i + 1
                BY <1>1, <3>2
            <4>2. q[i] = B[i - (k - 1)]
                BY <1>1, <2>1, <2>2, <3>2, <4>1
            <4>3. QED
                BY <2>2, <3>2, <4>1, <4>2
        <3>3. QED
            BY <3>1, <3>2
    <2>4. QED
        BY <2>3
<1> HIDE DEF q
<1>9. ASSUME NEW i \in 1..(n - 1) PROVE q[i] \in rest /\ g[q[i]] = i - 1
    <2>1. CASE i < k
        <3>1. q[i] = L[i] /\ i \in 1..n /\ L[i] \in S /\ f[L[i]] = i - 1
            BY <1>1, <1>8, <2>1
        <3>2. f[L[i]] < f[gone]
            BY <1>1, <1>4, <2>1, <3>1
        <3>3. L[i] # gone
            BY <1>4, <3>1, <3>2, <1>1
        <3>4. QED
            BY <1>3, <3>1, <3>2, <3>3
    <2>2. CASE ~ (i < k)
        <3>1. q[i] = L[i + 1] /\ i + 1 \in 1..n /\ L[i + 1] \in S /\ f[L[i + 1]] = i
            BY <1>1, <1>8, <2>2
        <3>2. ~ (f[L[i + 1]] < f[gone]) /\ f[L[i + 1]] # f[gone]
            BY <1>1, <1>4, <2>2, <3>1
        <3>3. L[i + 1] # gone
            BY <3>2
        <3>4. QED
            BY <1>3, <3>1, <3>2, <3>3
    <2>3. QED
        BY <2>1, <2>2
<1>10. q \in [1..(n - 1) -> rest]
    <2>1. q = [i \in 1..(n - 1) |-> q[i]]
        BY <1>1, <1>7
    <2>2. QED
        BY <1>9, <2>1
<1>11. Listed(g) = q
    <2>1. q \in [1..Cardinality(rest) -> rest] /\ \A i \in 1..Cardinality(rest) : g[q[i]] = i - 1
        BY <1>2, <1>9, <1>10
    <2>2. Numbers(g, rest)
        BY <1>2
    <2> HIDE DEF rest, q, g, n
    <2>3. QED
        BY <2>1, <2>2, ListedUnique
<1>12. QED
    BY <1>1, <1>11 DEF f, g, L, k, q

LEMMA ListsBecome == Lists' = [p \in exists' |-> Listed(position'[p])]
BY DEF Lists, Listed, SongsIn

\* New rows for one playlist are a new list for it.
LEMMA ListsChanged ==
    ASSUME IInv, UNCHANGED exists, NEW p \in exists, NEW f,
           position' = [position EXCEPT ![p] = f]
    PROVE  Lists' = [Lists EXCEPT ![p] = Listed(f)]
<1>1. \A x \in exists : position'[x] = IF x = p THEN f ELSE position[x]
    BY DEF IInv, RowsOK
<1>2. Lists' = [x \in exists |-> IF x = p THEN Listed(f) ELSE Listed(position[x])]
    BY <1>1, ListsBecome
<1>3. QED
    BY <1>2, ListsAreListed

\* Nothing that the lists are made of has changed.
LEMMA ListsUnchanged ==
    ASSUME UNCHANGED <<exists, position>> PROVE UNCHANGED Lists
BY ListsAreListed, ListsBecome

\* A new row is a new list, which is empty.
LEMMA CreateAbstract ==
    ASSUME IInv, NEW r \in Request, NEW p \in Playlist, CreateCommit(r, p)
    PROVE  Abstract!Create(p)
<1>1. p \notin exists /\ exists' = exists \cup {p} /\ position' = position /\ position[p] = NoRows
    BY DEF IInv, RowsOK, CreateCommit
<1>2. Listed(NoRows) = <<>>
    BY NumbersNone DEF Listed
<1>3. Lists' = [x \in exists \cup {p} |-> IF x = p THEN <<>> ELSE Lists[x]]
    BY <1>1, <1>2, ListsAreListed, ListsBecome
<1>4. DOMAIN Lists = exists
    BY DEF Lists
<1>5. QED
    BY <1>1, <1>3, <1>4 DEF Abstract!Create

\* The deletion of a row that is there takes its list away; of one that is gone, nothing.
LEMMA DeleteAbstract ==
    ASSUME IInv, NEW r \in Request, DeleteCommit(r)
    PROVE  [Abstract!Next]_Lists
<1> DEFINE p == op[r].playlist
<1>1. /\ p \in Playlist /\ exists' = exists \ {p} /\ DOMAIN Lists = exists
      /\ position' = [position EXCEPT ![p] = NoRows] /\ exists \subseteq Playlist
    BY DEF IInv, RequestOK, Asked, RowsOK, DeleteCommit, Lists
<1>2. CASE p \in exists
    <2>1. \A x \in exists \ {p} : position'[x] = position[x]
        BY <1>1 DEF IInv, RowsOK
    <2>2. Lists' = [x \in DOMAIN Lists \ {p} |-> Lists[x]]
        BY <1>1, <2>1, ListsAreListed, ListsBecome
    <2>3. Abstract!Delete(p)
        BY <2>2 DEF Abstract!Delete
    <2>4. QED
        BY <1>1, <1>2, <2>3 DEF Abstract!Next
<1>3. CASE p \notin exists
    <2>1. exists' = exists /\ \A x \in exists : position'[x] = position[x]
        BY <1>1, <1>3 DEF IInv, RowsOK
    <2>2. QED
        BY <2>1, ListsAreListed, ListsBecome
<1>4. QED
    BY <1>2, <1>3

\* The commit of an add appends, of a remove takes one song out, of a reorder permutes.
LEMMA WriteAbstract ==
    ASSUME IInv, NEW r \in Request, Write(r)
    PROVE  [Abstract!Next]_Lists
<1> DEFINE p == op[r].playlist
           s == op[r].song
           S == SongsIn(p)
           rest == S \ {s}
           L == Listed(position[p])
<1>1. /\ p \in exists /\ s \in Song /\ UNCHANGED exists
      /\ Numbers(position[p], S) /\ Cardinality(S) \in Nat
    BY WriteRows, NumbersIsBijection DEF IInv, RowsOK
<1>2. DOMAIN Lists = exists /\ Lists[p] = L
    BY <1>1, ListsAreListed
<1>3. /\ Abstract!SongsOf(L) = S /\ Len(L) = Cardinality(S)
      /\ DOMAIN L = 1..Cardinality(S)
    BY <1>1, ListedInverts
<1>4. CASE position' = position
    BY <1>1, <1>4, ListsUnchanged
<1>5. CASE /\ s \notin S /\ Cardinality(S) < MaxSongs
           /\ position' = [position EXCEPT ![p] =
                  [t \in S \cup {s} |-> IF t = s THEN Cardinality(S) ELSE position[p][t]]]
    <2> DEFINE g == [t \in S \cup {s} |-> IF t = s THEN Cardinality(S) ELSE position[p][t]]
    <2>1. Listed(g) = Append(L, s)
        BY <1>1, <1>5, ListedAppended
    <2>2. Lists' = [Lists EXCEPT ![p] = Listed(g)]
        BY <1>1, <1>5, ListsChanged
    <2> HIDE DEF g
    <2>3. Lists' = [Lists EXCEPT ![p] = Append(Lists[p], s)]
        BY <1>2, <2>1, <2>2
    <2>4. Abstract!Add(p, s)
        BY <1>2, <1>3, <1>5, <2>3 DEF Abstract!Add
    <2>5. QED
        BY <1>1, <1>2, <2>4 DEF Abstract!Next
<1>6. CASE s \in S /\ position' = [position EXCEPT ![p] = [t \in rest |-> Rank(p, rest, t)]]
    <2> DEFINE i == position[p][s] + 1
               q == SubSeq(L, 1, i - 1) \o SubSeq(L, i + 1, Len(L))
               g == [t \in rest |-> Rank(p, rest, t)]
    <2>1. i \in DOMAIN L /\ L[i] = s /\ Listed(g) = q
        <3> HIDE DEF p, s, S
        <3>1. Numbers(position[p], S) /\ s \in S
            BY <1>1, <1>6
        <3>2. QED
            BY <3>1, ListedWithout
    <2>2. position' = [position EXCEPT ![p] = g]
        BY <1>6
    <2> HIDE DEF g, q
    <2>3. Lists' = [Lists EXCEPT ![p] = Listed(g)]
        BY <1>1, <2>2, ListsChanged
    <2>4. Lists' = [Lists EXCEPT ![p] = q]
        BY <2>1, <2>3
    <2> USE DEF q
    <2>5. \E k \in DOMAIN Lists[p] :
            /\ Lists[p][k] = s
            /\ Lists' = [Lists EXCEPT ![p] =
                   SubSeq(Lists[p], 1, k - 1) \o SubSeq(Lists[p], k + 1, Len(Lists[p]))]
        BY <1>2, <2>1, <2>4
    <2>6. Abstract!Remove(p, s)
        BY <2>5 DEF Abstract!Remove
    <2>7. QED
        BY <1>1, <1>2, <2>6 DEF Abstract!Next
<1>7. CASE \E order : Numbers(order, S) /\ position' = [position EXCEPT ![p] = order]
    <2>1. PICK order : Numbers(order, S) /\ position' = [position EXCEPT ![p] = order]
        BY <1>7
    <2>2. /\ Lists' = [Lists EXCEPT ![p] = Listed(order)]
          /\ Listed(order) \in [1..Cardinality(S) -> S]
          /\ Abstract!SongsOf(Listed(order)) = S
        BY <1>1, <2>1, ListsChanged, ListedInverts
    <2>3. Abstract!Reorder(p)
        BY <1>2, <1>3, <2>2 DEF Abstract!Reorder
    <2>4. QED
        BY <1>1, <1>2, <2>3 DEF Abstract!Next
<1>8. QED
    BY <1>4, <1>5, <1>6, <1>7, WriteRows

\* Every request acts on its playlist as a whole and at one instant: adding appends,
\* removing takes one song out and leaves the others in their order.
THEOREM PlaylistsImplement == Spec => ImplementsPlaylistSpec
<1>1. Init => Abstract!Init
    BY DEF Init, Lists, Abstract!Init
<1>2. IInv /\ [Next]_vars => [Abstract!Next]_Lists
    <2> SUFFICES ASSUME IInv, [Next]_vars PROVE [Abstract!Next]_Lists
        OBVIOUS
    <2>1. CASE UNCHANGED <<exists, position>>
        BY <2>1, ListsUnchanged
    <2>2. ASSUME NEW r \in Request, NEW p \in Playlist, CreateCommit(r, p)
          PROVE  [Abstract!Next]_Lists
        BY <2>2, CreateAbstract DEF Abstract!Next
    <2>3. ASSUME NEW r \in Request, Step(r) PROVE [Abstract!Next]_Lists
        BY <2>1, <2>2, <2>3, DeleteAbstract, WriteAbstract
           DEF Step, CreateCount, Begin, Find, RenameCommit, Lock, Read, Abort, rowVars
    <2>4. QED
        BY <2>1, <2>3 DEF Next, vars, rowVars
<1>3. QED
    BY <1>1, <1>2, PlaylistsInvariant, PTL DEF Spec, ImplementsPlaylistSpec, Abstract!Spec
=============================================================================
