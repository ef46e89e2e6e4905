------------------------- MODULE RefreshTokensProofs -------------------------
(***************************************************************************)
(* The safety properties of RefreshTokens for any number of handlers,      *)
(* tokens and sessions.  The argument rests on the row lock: between its   *)
(* SELECT ... FOR UPDATE and its commit, a rotation holds the lock of the  *)
(* token it replaces, and every other step that revokes a token needs that *)
(* lock.  So the token is still active when the rotation commits, and the  *)
(* new token takes the place of the only active one.                       *)
(***************************************************************************)
EXTENDS RefreshTokens, FiniteSetTheorems, TLAPS

----------------------------------------------------------------------------
(* The inductive invariant *)

\* A rotation holds the lock of its token, which is active.
RotationHolds ==
    \A p \in Txn : pc[p] = "rotate" => cookie[p] \in Active /\ lockedBy[cookie[p]] = p

\* The rows an UPDATE has been through are revoked, or locked to be.
RevocationHolds ==
    \A p \in Txn :
        /\ targets[p] \subseteq issued
        /\ \A u \in done[p] : u \in revoked \/ lockedBy[u] = p

\* What the locks of the transactions amount to: the part of the invariant about
\* the transactions, apart from the part about the committed rows.
LocksOK == RotationHolds /\ RevocationHolds

\* A token that was not issued yet replaces none and is replaced by none.
FreshTokens ==
    /\ \A t \in Token \ issued : replacedBy[t] = None
    /\ \A t \in Token : replacedBy[t] # None => replacedBy[t] \in issued

RowsOK == OneActivePerFamily /\ SingleLineage /\ FreshTokens

IInv == TypeOK /\ LocksOK /\ RowsOK

\* Initially there are no rows and nothing is locked.
LEMMA InitIInv == Init => IInv
BY NoneAssumption DEF Init, IInv, TypeOK, LocksOK, RowsOK, RotationHolds, RevocationHolds,
    OneActivePerFamily, SingleLineage, FreshTokens, Active

----------------------------------------------------------------------------
(* The end of a transaction and the locks *)

\* When p ends, the others keep their locks, cookies and targets.
LEMMA EndFacts ==
    ASSUME TypeOK, NEW p \in Txn, End(p)
    PROVE  /\ lockedBy' \in [Token -> Txn \cup {None}]
           /\ pc' \in [Txn -> {"idle", "select", "rotate", "update", "revoke", "logout"}]
           /\ cookie' \in [Txn -> Token \cup {None}]
           /\ targets' \in [Txn -> SUBSET Token]
           /\ done' \in [Txn -> SUBSET Token]
           /\ pc'[p] = "idle" /\ targets'[p] = {} /\ done'[p] = {}
           /\ \A q \in Txn \ {p} : /\ pc'[q] = pc[q] /\ cookie'[q] = cookie[q]
                                   /\ targets'[q] = targets[q] /\ done'[q] = done[q]
           /\ \A q \in Txn \ {p}, t \in Token : lockedBy[t] = q => lockedBy'[t] = q
BY NoneAssumption DEF TypeOK, End

\* A transaction that ends, having revoked only rows that no other one has locked
\* and removed none, disturbs no other.
LEMMA EndLocks ==
    ASSUME IInv, NEW p \in Txn, End(p),
           issued \subseteq issued', revoked \subseteq revoked', revoked' \subseteq issued,
           \A t \in revoked' \ revoked : lockedBy[t] \in {None, p}
    PROVE  LocksOK'
<1>e. /\ pc'[p] = "idle" /\ targets'[p] = {} /\ done'[p] = {}
      /\ \A q \in Txn \ {p} : /\ pc'[q] = pc[q] /\ cookie'[q] = cookie[q]
                              /\ targets'[q] = targets[q] /\ done'[q] = done[q]
      /\ \A q \in Txn \ {p}, t \in Token : lockedBy[t] = q => lockedBy'[t] = q
    BY EndFacts DEF IInv
<1>1. RotationHolds'
    <2> SUFFICES ASSUME NEW q \in Txn, pc'[q] = "rotate"
                 PROVE  cookie'[q] \in Active' /\ lockedBy'[cookie'[q]] = q
        BY DEF RotationHolds
    <2>1. q # p /\ pc[q] = "rotate" /\ cookie'[q] = cookie[q]
        BY <1>e
    <2>2. cookie[q] \in issued /\ cookie[q] \notin revoked /\ lockedBy[cookie[q]] = q
        BY <2>1 DEF IInv, LocksOK, RotationHolds, Active
    <2>3. cookie[q] \in Token
        BY <2>2 DEF IInv, TypeOK
    <2>4. cookie[q] \notin revoked'
        BY <2>1, <2>2, NoneAssumption
    <2>5. QED
        BY <1>e, <2>1, <2>2, <2>3, <2>4 DEF Active
<1>2. RevocationHolds'
    <2> SUFFICES ASSUME NEW q \in Txn
                 PROVE  /\ targets'[q] \subseteq issued'
                        /\ \A u \in done'[q] : u \in revoked' \/ lockedBy'[u] = q
        BY DEF RevocationHolds
    <2>1. CASE q = p
        BY <2>1, <1>e
    <2>2. CASE q # p
        <3>1. done[q] \subseteq Token
            BY DEF IInv, TypeOK
        <3>2. QED
            BY <2>2, <3>1, <1>e DEF IInv, LocksOK, RevocationHolds
    <2>3. QED
        BY <2>1, <2>2
<1>3. QED
    BY <1>1, <1>2 DEF LocksOK

----------------------------------------------------------------------------
(* Every action preserves it *)

LEMMA LoginIInv ==
    ASSUME IInv, NEW t \in Token, NEW f \in Family, Login(t, f)
    PROVE  IInv'
<1>1. TypeOK'
    BY DEF IInv, TypeOK, Login, txnVars
<1>2. LocksOK'
    BY DEF IInv, LocksOK, TypeOK, RotationHolds, RevocationHolds, Active, Login, txnVars
<1>3. OneActivePerFamily'
    BY DEF IInv, RowsOK, TypeOK, OneActivePerFamily, Active, Login
<1>4. SingleLineage'
    <2>1. \A u \in issued : family'[u] = family[u] /\ family'[u] # f
        BY DEF IInv, TypeOK, Login
    <2>2. /\ family'[t] = f /\ issued' = issued \cup {t} /\ t \notin issued
          /\ UNCHANGED <<revoked, replacedBy>>
          /\ replacedBy[t] = None /\ t # None
        BY NoneAssumption DEF IInv, RowsOK, FreshTokens, TypeOK, Login
    <2>3. \A x \in issued : replacedBy[x] # t
        BY <2>2 DEF IInv, RowsOK, SingleLineage
    <2>4. QED
        BY <2>1, <2>2, <2>3 DEF IInv, RowsOK, SingleLineage
<1>5. FreshTokens'
    BY DEF IInv, RowsOK, FreshTokens, Login
<1>6. QED
    BY <1>1, <1>2, <1>3, <1>4, <1>5 DEF IInv, RowsOK

\* The steps that change no row.
LEMMA SameRows ==
    ASSUME IInv, UNCHANGED rowVars
    PROVE  RowsOK'
BY DEF IInv, RowsOK, OneActivePerFamily, SingleLineage, FreshTokens, Active, rowVars

\* Revoking more rows, when those that are replaced stay the same, leaves the rows
\* in order.
LEMMA MoreRevoked ==
    ASSUME IInv, revoked \subseteq revoked', UNCHANGED <<issued, family, replacedBy>>
    PROVE  RowsOK'
BY DEF IInv, RowsOK, OneActivePerFamily, SingleLineage, FreshTokens, Active

LEMMA BeginIInv ==
    ASSUME IInv, NEW p \in Txn, NEW t \in Token, Refresh(p, t) \/ Logout(p, t)
    PROVE  IInv'
<1>1. TypeOK'
    BY DEF IInv, TypeOK, Refresh, Logout, rowVars
<1>2. LocksOK'
    BY DEF IInv, LocksOK, TypeOK, RotationHolds, RevocationHolds, Active, Refresh, Logout,
           rowVars
<1>3. RowsOK'
    BY SameRows DEF Refresh, Logout
<1>4. QED
    BY <1>1, <1>2, <1>3 DEF IInv

LEMMA SelectIInv ==
    ASSUME IInv, NEW p \in Txn, SelectForUpdate(p)
    PROVE  IInv'
<1>1. CASE cookie[p] \in revoked \/ cookie[p] \notin expired
    <2>1. TypeOK'
        BY <1>1 DEF IInv, TypeOK, SelectForUpdate, End, rowVars
    <2>2. /\ cookie[p] \in issued /\ lockedBy[cookie[p]] \in {None, p}
          /\ lockedBy' = [lockedBy EXCEPT ![cookie[p]] = p]
          /\ pc' = [pc EXCEPT ![p] = IF cookie[p] \in revoked THEN "update" ELSE "rotate"]
          /\ UNCHANGED <<cookie, targets, done, rowVars>>
        BY <1>1 DEF IInv, TypeOK, SelectForUpdate, End, Lockable
    <2>3. \A q \in Txn, u \in Token : lockedBy[u] = q => lockedBy'[u] = q
        BY <2>2, NoneAssumption DEF IInv, TypeOK
    <2>4. RotationHolds'
        BY <2>2, <2>3 DEF IInv, LocksOK, TypeOK, RotationHolds, Active, rowVars
    <2>5. RevocationHolds'
        BY <2>2, <2>3 DEF IInv, LocksOK, TypeOK, RevocationHolds, rowVars
    <2>6. RowsOK'
        BY <2>2, SameRows
    <2>7. QED
        BY <2>1, <2>4, <2>5, <2>6 DEF IInv, LocksOK
<1>2. CASE cookie[p] \notin revoked /\ cookie[p] \in expired
    <2>1. End(p) /\ UNCHANGED <<rowVars, expired>>
        BY <1>2 DEF SelectForUpdate
    <2>2. TypeOK'
        BY <2>1, EndFacts DEF IInv, TypeOK, rowVars
    <2>3. LocksOK'
        BY <2>1, EndLocks DEF IInv, TypeOK, rowVars
    <2>4. QED
        BY <2>1, <2>2, <2>3, SameRows DEF IInv
<1>3. QED
    BY <1>1, <1>2

LEMMA RotateIInv ==
    ASSUME IInv, NEW p \in Txn, NEW n \in Token, Rotate(p, n)
    PROVE  IInv'
<1>1. PICK t \in Token : t = cookie[p]
    BY DEF IInv, TypeOK, Rotate
<1>2. /\ t \in Active /\ lockedBy[t] = p /\ t # n /\ n # None
      /\ n \notin issued /\ n \notin revoked
      /\ replacedBy[t] = None /\ replacedBy[n] = None
    BY <1>1, NoneAssumption DEF IInv, TypeOK, LocksOK, RowsOK, FreshTokens, SingleLineage,
        RotationHolds, Rotate, Active
<1>3. /\ issued' = issued \cup {n} /\ revoked' = revoked \cup {t}
      /\ family' = [family EXCEPT ![n] = family[t]]
      /\ replacedBy' = [replacedBy EXCEPT ![t] = n]
      /\ End(p) /\ expired' = expired
    BY <1>1 DEF Rotate
<1>4. TypeOK'
    BY <1>2, <1>3, EndFacts DEF IInv, TypeOK, Active
<1>5. LocksOK'
    BY <1>2, <1>3, EndLocks DEF IInv, TypeOK, Active
<1>6. /\ family'[n] = family[t] /\ \A u \in issued : family'[u] = family[u]
      /\ replacedBy'[t] = n /\ \A u \in Token \ {t} : replacedBy'[u] = replacedBy[u]
    BY <1>2, <1>3 DEF IInv, TypeOK
<1>7. OneActivePerFamily'
    BY <1>2, <1>3, <1>6 DEF IInv, RowsOK, OneActivePerFamily, Active
<1>8. FreshTokens'
    BY <1>2, <1>3, <1>6 DEF IInv, RowsOK, FreshTokens, Active
<1>9. SingleLineage'
    <2>1. \A u \in issued : u \in Token
        BY DEF IInv, TypeOK
    <2>2. \A u \in issued : replacedBy[u] # n
        BY <1>2 DEF IInv, RowsOK, SingleLineage
    <2>3. \A u \in issued' : replacedBy'[u] # None =>
            u \in revoked' /\ replacedBy'[u] \in issued' /\ family'[replacedBy'[u]] = family'[u]
        BY <1>2, <1>3, <1>6, <2>1 DEF IInv, RowsOK, SingleLineage, Active
    <2>4. \A u, v \in issued' : replacedBy'[u] = replacedBy'[v] /\ replacedBy'[u] # None => u = v
        BY <1>2, <1>3, <1>6, <2>1, <2>2 DEF IInv, RowsOK, SingleLineage
    <2>5. ASSUME NEW u \in issued', NEW v \in issued', family'[u] = family'[v],
                 \A x \in issued' : replacedBy'[x] \notin {u, v}
          PROVE  u = v
        <3>1. u # n /\ v # n
            BY <1>2, <1>3, <1>6, <2>5 DEF Active
        <3>2. u \in issued /\ v \in issued /\ family[u] = family[v]
            BY <3>1, <2>5, <1>3, <1>6
        <3>3. ASSUME NEW x \in issued PROVE replacedBy[x] \notin {u, v}
            BY <3>2, <2>1, <2>5, <1>2, <1>3, <1>6, NoneAssumption
        <3>4. QED
            BY <3>2, <3>3 DEF IInv, RowsOK, SingleLineage
    <2>6. QED
        BY <2>3, <2>4, <2>5 DEF SingleLineage
<1>10. QED
    BY <1>4, <1>5, <1>7, <1>8, <1>9 DEF IInv, RowsOK

LEMMA ScanIInv ==
    ASSUME IInv, NEW p \in Txn, ReuseScan(p)
    PROVE  IInv'
<1>1. TypeOK'
    BY DEF IInv, TypeOK, ReuseScan, rowVars
<1>2. LocksOK'
    BY DEF IInv, LocksOK, TypeOK, RotationHolds, RevocationHolds, Active, ReuseScan, rowVars
<1>3. QED
    BY <1>1, <1>2, SameRows DEF IInv, ReuseScan

LEMMA ReuseRowIInv ==
    ASSUME IInv, NEW p \in Txn, NEW u \in Token, ReuseRow(p, u)
    PROVE  IInv'
<1>1. TypeOK'
    BY DEF IInv, TypeOK, ReuseRow, rowVars
<1>2. \A q \in Txn, t \in Token : lockedBy[t] = q => lockedBy'[t] = q
    BY NoneAssumption DEF IInv, TypeOK, ReuseRow, Lockable
<1>3. u \in revoked \/ lockedBy'[u] = p
    BY DEF IInv, TypeOK, ReuseRow
<1>4. RotationHolds'
    BY <1>2 DEF IInv, LocksOK, TypeOK, RotationHolds, Active, ReuseRow, rowVars
<1>5. RevocationHolds'
    BY <1>2, <1>3 DEF IInv, LocksOK, TypeOK, RevocationHolds, ReuseRow, rowVars
<1>6. QED
    BY <1>1, <1>4, <1>5, SameRows DEF IInv, LocksOK, ReuseRow

LEMMA ReuseCommitIInv ==
    ASSUME IInv, NEW p \in Txn, ReuseCommit(p)
    PROVE  IInv'
<1>1. /\ revoked' = revoked \cup {u \in targets[p] : lockedBy[u] = p}
      /\ targets[p] \subseteq issued
      /\ End(p) /\ UNCHANGED <<issued, family, replacedBy, expired>>
    BY DEF IInv, LocksOK, RevocationHolds, ReuseCommit
<1>2. TypeOK'
    BY <1>1, EndFacts DEF IInv, TypeOK
<1>3. LocksOK'
    BY <1>1, EndLocks DEF IInv, TypeOK
<1>4. QED
    BY <1>1, <1>2, <1>3, MoreRevoked DEF IInv

LEMMA LogoutCommitIInv ==
    ASSUME IInv, NEW p \in Txn, LogoutCommit(p)
    PROVE  IInv'
<1>1. /\ revoked' = revoked \cup {cookie[p]}
      /\ cookie[p] \in issued /\ lockedBy[cookie[p]] \in {None, p}
      /\ End(p) /\ UNCHANGED <<issued, family, replacedBy, expired>>
    BY DEF IInv, TypeOK, LogoutCommit, Lockable
<1>2. TypeOK'
    BY <1>1, EndFacts DEF IInv, TypeOK
<1>3. LocksOK'
    BY <1>1, EndLocks DEF IInv, TypeOK
<1>4. QED
    BY <1>1, <1>2, <1>3, MoreRevoked DEF IInv

LEMMA AbortIInv ==
    ASSUME IInv, NEW p \in Txn, Abort(p)
    PROVE  IInv'
<1>1. End(p) /\ UNCHANGED <<rowVars, expired>>
    BY DEF Abort
<1>2. TypeOK'
    BY <1>1, EndFacts DEF IInv, TypeOK, rowVars
<1>3. LocksOK'
    BY <1>1, EndLocks DEF IInv, TypeOK, rowVars
<1>4. QED
    BY <1>1, <1>2, <1>3, SameRows DEF IInv

LEMMA ExpireIInv ==
    ASSUME IInv, NEW t \in Token, Expire(t)
    PROVE  IInv'
<1>1. TypeOK'
    BY DEF IInv, TypeOK, Expire, rowVars, txnVars
<1>2. LocksOK'
    BY DEF IInv, LocksOK, RotationHolds, RevocationHolds, Active, Expire, rowVars, txnVars
<1>3. QED
    BY <1>1, <1>2, SameRows DEF IInv, Expire

LEMMA StutterIInv == IInv /\ UNCHANGED vars => IInv'
<1> SUFFICES ASSUME IInv, UNCHANGED vars PROVE IInv'
    OBVIOUS
<1>1. TypeOK' /\ LocksOK'
    BY DEF IInv, TypeOK, LocksOK, RotationHolds, RevocationHolds, Active, vars, rowVars, txnVars
<1>2. QED
    BY <1>1, SameRows DEF IInv, vars

LEMMA NextIInv == IInv /\ [Next]_vars => IInv'
BY LoginIInv, BeginIInv, SelectIInv, RotateIInv, ScanIInv, ReuseRowIInv, ReuseCommitIInv,
   LogoutCommitIInv, AbortIInv, ExpireIInv, StutterIInv
   DEF Next, Step

LEMMA SpecIInv == Spec => []IInv
BY InitIInv, NextIInv, PTL DEF Spec

----------------------------------------------------------------------------
(* The theorems *)

\* Every variable keeps its type: only issued tokens are revoked, and a transaction
\* in progress has a token that was issued.
THEOREM TypeCorrect == Spec => []TypeOK
<1>1. IInv => TypeOK
    BY DEF IInv
<1>2. QED
    BY <1>1, SpecIInv, PTL

\* Refresh, reuse detection and logout, interleaved in any way, leave a session at
\* most one working token.
THEOREM OneActiveSafe == Spec => []OneActivePerFamily
<1>1. IInv => OneActivePerFamily
    BY DEF IInv, RowsOK
<1>2. QED
    BY <1>1, SpecIInv, PTL

\* Each session is one chain of tokens that replace each other.
THEOREM LineageSafe == Spec => []SingleLineage
<1>1. IInv => SingleLineage
    BY DEF IInv, RowsOK
<1>2. QED
    BY <1>1, SpecIInv, PTL

\* A step that creates a token in a family that has rows already is a rotation, of
\* an active token: no step brings a closed session back.
THEOREM DeadSessionSafe == Spec => DeadSessionStaysDead
<1> DEFINE Dead(f) == (\E t \in issued : family[t] = f) /\ ActiveIn(f) = {}
           Stays == \A f \in Family : Dead(f) => ActiveIn(f)' = {}
<1>1. IInv /\ [Next]_vars => Stays
    <2> SUFFICES ASSUME IInv, [Next]_vars, NEW f \in Family, Dead(f)
                 PROVE  ActiveIn(f)' = {}
        OBVIOUS
    <2>0. \A t \in issued : t \in Token /\ (family[t] = f => t \in revoked)
        BY DEF IInv, TypeOK, ActiveIn, Active
    <2>1. ASSUME NEW t \in Token, NEW g \in Family, Login(t, g)
          PROVE  ActiveIn(f)' = {}
        BY <2>0, <2>1 DEF IInv, TypeOK, Login, ActiveIn, Active
    <2>2. ASSUME NEW p \in Txn, NEW n \in Token, Rotate(p, n)
          PROVE  ActiveIn(f)' = {}
        <3>1. PICK t \in Active : t = cookie[p]
            BY <2>2 DEF IInv, LocksOK, RotationHolds, Rotate
        <3>2. t \in issued /\ t \notin revoked /\ family[t] # f
            BY <2>0, <3>1 DEF Active
        <3>3. /\ issued' = issued \cup {n} /\ revoked' = revoked \cup {t} /\ n \notin issued
              /\ family' = [family EXCEPT ![n] = family[t]]
            BY <2>2, <3>1 DEF Rotate
        <3>4. QED
            BY <2>0, <3>2, <3>3 DEF IInv, TypeOK, ActiveIn, Active
    <2>3. CASE revoked \subseteq revoked' /\ UNCHANGED <<issued, family>>
        BY <2>0, <2>3 DEF ActiveIn, Active
    <2>4. QED
        BY <2>1, <2>2, <2>3
        DEF Next, Step, Refresh, Logout, SelectForUpdate, ReuseScan, ReuseRow, ReuseCommit,
            LogoutCommit, Abort, Expire, vars, rowVars
<1>2. QED
    BY <1>1, SpecIInv, PTL DEF Spec, DeadSessionStaysDead

----------------------------------------------------------------------------
(* The refinement: the step of a handler that commits is the step of its session *)

LEMMA OnlyOne == \A t : Only({t}) = t
BY DEF Only

\* The token that works in a session is its only active one.
LEMMA WorksIsActive ==
    ASSUME IInv, NEW t \in Active
    PROVE  family[t] \in Opened /\ Current[family[t]] = t /\ t # None
<1>1. t \in issued /\ t \in Token
    BY DEF IInv, TypeOK, Active
<1>2. ActiveIn(family[t]) = {t}
    BY DEF IInv, RowsOK, OneActivePerFamily, ActiveIn
<1>3. QED
    BY <1>1, <1>2, OnlyOne, NoneAssumption DEF Opened, Current

\* The rows that an UPDATE goes through are of the session of its token.
OneSession ==
    \A p \in Txn :
        /\ pc[p] # "revoke" => targets[p] = {}
        /\ \A u \in targets[p] : family[u] = family[cookie[p]]

LEMMA SpecOneSession == Spec => []OneSession
<1>1. Init => OneSession
    BY DEF Init, OneSession
<1>2. IInv /\ OneSession /\ [Next]_vars => OneSession'
    <2> SUFFICES ASSUME IInv, OneSession, [Next]_vars PROVE OneSession'
        OBVIOUS
    <2> USE DEF OneSession
    <2>1. ASSUME NEW p \in Txn, End(p), UNCHANGED family PROVE OneSession'
        BY <2>1, EndFacts DEF IInv
    <2>2. ASSUME NEW t \in Token, NEW f \in Family, Login(t, f) PROVE OneSession'
        <3>1. \A u \in issued : family'[u] = family[u]
            BY <2>2 DEF IInv, TypeOK, Login
        <3>2. \A p \in Txn : targets[p] \subseteq issued /\ (targets[p] # {} => cookie[p] \in issued)
            BY DEF IInv, TypeOK, LocksOK, RevocationHolds
        <3>3. QED
            BY <2>2, <3>1, <3>2 DEF Login, txnVars
    <2>3. ASSUME NEW p \in Txn, NEW n \in Token, Rotate(p, n) PROVE OneSession'
        <3>1. \A u \in issued : family'[u] = family[u]
            BY <2>3 DEF IInv, TypeOK, Rotate
        <3>2. \A q \in Txn : targets[q] \subseteq issued /\ (targets[q] # {} => cookie[q] \in issued)
            BY DEF IInv, TypeOK, LocksOK, RevocationHolds
        <3>3. QED
            BY <2>3, <3>1, <3>2, EndFacts DEF IInv, Rotate
    <2>4. ASSUME NEW p \in Txn,
                 \/ \E t \in Token : Refresh(p, t) \/ Logout(p, t)
                 \/ SelectForUpdate(p) \/ ReuseScan(p)
                 \/ \E u \in Token : ReuseRow(p, u)
          PROVE  OneSession'
        BY <2>4, <2>1 DEF IInv, TypeOK, rowVars, Refresh, Logout, SelectForUpdate, ReuseScan,
            ReuseRow
    <2>5. ASSUME NEW p \in Txn, ReuseCommit(p) \/ LogoutCommit(p) \/ Abort(p) PROVE OneSession'
        BY <2>5, <2>1 DEF ReuseCommit, LogoutCommit, Abort, rowVars
    <2>6. CASE UNCHANGED vars \/ \E t \in Token : Expire(t)
        BY <2>6 DEF vars, rowVars, txnVars, Expire
    <2>7. QED
        BY <2>2, <2>3, <2>4, <2>5, <2>6 DEF Next, Step
<1>3. QED
    BY <1>1, <1>2, SpecIInv, PTL DEF Spec

\* Initially no session is open.
LEMMA InitSessions == Init => Sessions!Init
BY DEF Init, Sessions!Init, Current, Opened

\* A login opens a session with its first token.
LEMMA LoginOpens ==
    ASSUME IInv, NEW t \in Token, NEW f \in Family, Login(t, f)
    PROVE  Sessions!Open(f, t)
<1>1. /\ \A u \in issued : u \in Token /\ u # t /\ family[u] # f /\ family'[u] = family[u]
      /\ family'[t] = f /\ issued' = issued \cup {t} /\ t \notin issued
      /\ revoked' = revoked /\ t \notin revoked
    BY DEF IInv, TypeOK, Login
<1>2. f \notin Opened /\ Opened' = Opened \cup {f}
    BY <1>1 DEF Opened
<1>3. ActiveIn(f)' = {t} /\ \A g \in Opened : ActiveIn(g)' = ActiveIn(g)
    BY <1>1, <1>2 DEF ActiveIn, Active
<1>4. Current' = [g \in Opened \cup {f} |-> IF g = f THEN t ELSE Current[g]]
    BY <1>2, <1>3, OnlyOne DEF Current
<1>5. DOMAIN Current = Opened
    BY DEF Current
<1>6. QED
    BY <1>1, <1>2, <1>4, <1>5 DEF Sessions!Open

\* A rotation exchanges the token that works for a new one.
LEMMA RotateRotates ==
    ASSUME IInv, NEW p \in Txn, NEW n \in Token, Rotate(p, n)
    PROVE  family[cookie[p]] \in Opened /\ Sessions!Rotate(family[cookie[p]], n)
<1>1. PICK t \in Active : t = cookie[p]
    BY DEF IInv, LocksOK, RotationHolds, Rotate
<1>2. PICK f \in Opened : f = family[t] /\ Current[f] = t /\ t # None
    BY WorksIsActive
<1>3. /\ \A u \in issued : u \in Token /\ u # n /\ family'[u] = family[u]
      /\ family'[n] = f /\ issued' = issued \cup {n} /\ n \notin issued /\ t \in issued
      /\ revoked' = revoked \cup {t} /\ n \notin revoked
    BY <1>1, <1>2 DEF IInv, TypeOK, Rotate, Active
<1>4. Opened' = Opened
    BY <1>2, <1>3 DEF Opened
<1>5. ActiveIn(f) = {t}
    BY <1>2 DEF IInv, RowsOK, OneActivePerFamily, ActiveIn
<1>6. ActiveIn(f)' = {n}
    BY <1>3, <1>5 DEF ActiveIn, Active
<1>7. ASSUME NEW g \in Opened, g # f PROVE ActiveIn(g)' = ActiveIn(g)
    BY <1>2, <1>3, <1>7 DEF ActiveIn, Active
<1>8. Current' = [Current EXCEPT ![f] = n]
    BY <1>4, <1>6, <1>7, OnlyOne DEF Current
<1>9. QED
    BY <1>1, <1>2, <1>3, <1>8 DEF Sessions!Rotate

\* Revoking tokens of one session closes it, or changes nothing.
LEMMA RevokeCloses ==
    ASSUME IInv, UNCHANGED <<issued, family>>, NEW f \in Family,
           NEW gone \in SUBSET {t \in issued : family[t] = f}, revoked' = revoked \cup gone
    PROVE  \/ f \in Opened /\ Sessions!Close(f)
           \/ Current' = Current /\ issued' = issued
<1>1. Opened' = Opened /\ issued' = issued
    BY DEF Opened
<1>2. \A g \in Opened \ {f} : ActiveIn(g)' = ActiveIn(g)
    BY DEF ActiveIn, Active
<1>3. \/ ActiveIn(f)' = ActiveIn(f)
      \/ ActiveIn(f)' = {} /\ ActiveIn(f) # {}
    <2>1. \A t, u \in ActiveIn(f) : t = u
        BY DEF IInv, RowsOK, OneActivePerFamily, ActiveIn
    <2>2. ActiveIn(f)' = ActiveIn(f) \ gone
        BY DEF ActiveIn, Active
    <2>3. QED
        BY <2>1, <2>2
<1>4. CASE ActiveIn(f)' = ActiveIn(f)
    BY <1>1, <1>2, <1>4 DEF Current
<1>5. CASE ActiveIn(f)' = {} /\ ActiveIn(f) # {}
    <2>1. f \in Opened
        BY <1>5 DEF Opened, ActiveIn, Active
    <2>2. Only({}) = None
        BY DEF Only
    <2>3. Current' = [Current EXCEPT ![f] = None]
        BY <1>1, <1>2, <1>5, <2>2 DEF Current
    <2>4. QED
        BY <1>1, <2>1, <2>3 DEF Sessions!Close
<1>6. QED
    BY <1>3, <1>4, <1>5

\* Every interleaving of refreshes, reuse detections and logouts is one of requests
\* that act on their session at one instant.
THEOREM SessionsImplemented == Spec => ImplementsSessionSpec
<1>1. ASSUME IInv, OneSession, [Next]_vars
      PROVE  Sessions!Next \/ UNCHANGED <<Current, issued>>
    <2>1. ASSUME NEW t \in Token, NEW f \in Family, Login(t, f)
          PROVE  Sessions!Next
        BY <1>1, <2>1, LoginOpens DEF Sessions!Next
    <2>2. ASSUME NEW p \in Txn, NEW n \in Token, Rotate(p, n)
          PROVE  Sessions!Next
        BY <1>1, <2>2, RotateRotates DEF Sessions!Next, Current
    <2>3. ASSUME NEW p \in Txn, ReuseCommit(p) \/ LogoutCommit(p)
          PROVE  Sessions!Next \/ UNCHANGED <<Current, issued>>
        <3>1. PICK gone \in SUBSET {t \in issued : family[t] = family[cookie[p]]} :
                 revoked' = revoked \cup gone
            BY <1>1, <2>3 DEF IInv, TypeOK, OneSession, LocksOK, RevocationHolds, ReuseCommit,
                LogoutCommit
        <3>2. family[cookie[p]] \in Family /\ UNCHANGED <<issued, family>>
            BY <1>1, <2>3 DEF IInv, TypeOK, ReuseCommit, LogoutCommit
        <3>3. QED
            BY <1>1, <3>1, <3>2, RevokeCloses DEF Sessions!Next, Current
    <2>4. ASSUME UNCHANGED rowVars
          PROVE  UNCHANGED <<Current, issued>>
        BY <2>4 DEF rowVars, Current, Opened, ActiveIn, Active
    <2>5. QED
        BY <1>1, <2>1, <2>2, <2>3, <2>4
        DEF Next, Step, Refresh, Logout, SelectForUpdate, ReuseScan, ReuseRow, Abort, Expire,
            vars, rowVars
<1>2. QED
    BY <1>1, InitSessions, SpecIInv, SpecOneSession, PTL DEF Spec, ImplementsSessionSpec, Sessions!Spec

\* The UPDATE of reuse detection waits for every row that it found, and leaves none
\* of them active.
THEOREM ReuseSafe == Spec => ReuseRevokesAllSeen
<1>1. IInv /\ [Next]_vars => \A p \in Txn : ReuseCommit(p) => targets[p] \subseteq revoked'
    BY DEF IInv, LocksOK, RevocationHolds, ReuseCommit
<1>2. QED
    BY <1>1, SpecIInv, PTL DEF Spec, ReuseRevokesAllSeen

----------------------------------------------------------------------------
(* No deadlock.  Only reuse detection asks for a lock while it holds one: it holds the   *)
(* token it was sent, which is revoked, and asks for the only one of the session that    *)
(* was active when its UPDATE started, which is younger.  So along a circle of waits the *)
(* tokens would grow younger for ever.                                                   *)

\* The rows whose lock a transaction may hold.
Holds(p, u) ==
    \/ pc[p] \in {"rotate", "update", "revoke"} /\ u = cookie[p]
    \/ pc[p] = "revoke" /\ u \in done[p]

WaitingOK ==
    /\ \A p \in Txn, u \in Token : lockedBy[u] = p => Holds(p, u)
    /\ \A p \in Txn :
        /\ pc[p] # "revoke" => targets[p] = {} /\ done[p] = {}
        /\ done[p] \subseteq targets[p]
        /\ \A t, u \in targets[p] : t = u
        /\ pc[p] = "update" => cookie[p] \in revoked

\* In every session the active token is the youngest; what an UPDATE goes through is
\* younger than the token it was sent.
Younger(age) ==
    /\ \A t \in issued, u \in Active : family[t] = family[u] /\ t # u => age[t] < age[u]
    /\ \A p \in Txn : \A u \in targets[p] : age[cookie[p]] < age[u]

Ages == \E age \in [Token -> Nat] : Younger(age)

WaitInv == WaitingOK /\ Ages

LEMMA InitWait == Init => WaitInv
<1> SUFFICES ASSUME Init PROVE WaitInv
    OBVIOUS
<1>1. WaitingOK
    BY NoneAssumption DEF Init, WaitingOK
<1>2. Younger([t \in Token |-> 0])
    BY DEF Init, Younger, Active
<1>3. [t \in Token |-> 0] \in [Token -> Nat]
    OBVIOUS
<1>4. QED
    BY <1>1, <1>2, <1>3 DEF WaitInv, Ages

\* A transaction that ends lets go of what it holds, and the others of nothing.
LEMMA EndWaiting ==
    ASSUME IInv, WaitingOK, NEW p \in Txn, End(p), revoked \subseteq revoked'
    PROVE  WaitingOK'
<1>1. /\ pc'[p] = "idle" /\ targets'[p] = {} /\ done'[p] = {}
      /\ \A q \in Txn \ {p} : /\ pc'[q] = pc[q] /\ cookie'[q] = cookie[q]
                              /\ targets'[q] = targets[q] /\ done'[q] = done[q]
    BY EndFacts DEF IInv
<1>2. \A q \in Txn, u \in Token : lockedBy'[u] = q => q # p /\ lockedBy[u] = q
    BY NoneAssumption DEF End
<1>3. QED
    BY <1>1, <1>2 DEF WaitingOK, Holds

\* As long as no token is given out and no UPDATE finds more, the ages stay as they are.
LEMMA SameAges ==
    ASSUME IInv, NEW age \in [Token -> Nat], Younger(age),
           UNCHANGED <<issued, family>>, revoked \subseteq revoked',
           \A p \in Txn : targets'[p] = {} \/ (targets'[p] = targets[p] /\ cookie'[p] = cookie[p])
    PROVE  Younger(age)'
BY DEF Younger, Active

LEMMA LoginWait ==
    ASSUME IInv, WaitInv, NEW t \in Token, NEW f \in Family, Login(t, f)
    PROVE  WaitInv'
<1>1. WaitingOK'
    BY DEF Login, txnVars, WaitInv, WaitingOK, Holds
<1>2. PICK age \in [Token -> Nat] : Younger(age)
    BY DEF WaitInv, Ages
<1>3. /\ issued' = issued \cup {t} /\ revoked' = revoked /\ t \notin issued
      /\ family'[t] = f
      /\ \A u \in issued : u # t /\ family[u] # f /\ family'[u] = family[u]
      /\ targets' = targets /\ cookie' = cookie
    BY DEF Login, txnVars, IInv, TypeOK
<1>4. Younger(age)'
    BY <1>2, <1>3 DEF Younger, Active
<1>5. QED
    BY <1>1, <1>4 DEF WaitInv, Ages

\* The token that takes the place of the youngest is younger still.
LEMMA RotateWait ==
    ASSUME IInv, WaitInv, NEW p \in Txn, NEW n \in Token, Rotate(p, n)
    PROVE  WaitInv'
<1>1. PICK t \in Active : t = cookie[p]
    BY DEF IInv, LocksOK, RotationHolds, Rotate
<1>2. PICK age \in [Token -> Nat] : Younger(age)
    BY DEF WaitInv, Ages
<1>3. /\ issued' = issued \cup {n} /\ revoked' = revoked \cup {t} /\ n \notin issued
      /\ n \notin revoked /\ t \in issued /\ t \in Token /\ t # n
      /\ family'[n] = family[t]
      /\ \A u \in issued : u \in Token /\ u # n /\ family'[u] = family[u]
      /\ End(p)
    BY <1>1 DEF Rotate, IInv, TypeOK, Active
<1>4. WaitingOK'
    BY <1>3, EndWaiting DEF WaitInv
<1> DEFINE older == [age EXCEPT ![n] = age[t] + 1]
<1>5. /\ older \in [Token -> Nat] /\ older[n] = age[t] + 1
      /\ \A u \in issued : older[u] = age[u] /\ age[u] \in Nat
    BY <1>3
<1> HIDE DEF older
<1>6. \A u \in Active : family[u] = family[t] => u = t
    BY <1>1 DEF IInv, RowsOK, OneActivePerFamily
<1>7. \A u \in issued : family[u] = family[t] => age[u] <= age[t]
    <2> SUFFICES ASSUME NEW u \in issued, family[u] = family[t], u # t PROVE age[u] < age[t]
        BY <1>3, <1>5
    <2>1. QED
        BY <1>1, <1>2 DEF Younger
<1>8. Active' = (Active \ {t}) \cup {n}
    BY <1>3 DEF Active
<1>9. ASSUME NEW u \in issued', NEW v \in Active', family'[u] = family'[v], u # v
      PROVE  older[u] < older[v]
    <2>1. CASE v = n
        <3>1. u \in issued /\ family[u] = family[t]
            BY <1>3, <1>9, <2>1
        <3>2. QED
            BY <1>3, <1>5, <1>7, <2>1, <3>1
    <2>2. CASE v # n
        <3>1. v \in Active /\ v # t /\ v \in issued
            BY <1>8, <1>9, <2>2 DEF Active
        <3>2. u \in issued
            BY <1>3, <1>6, <1>9, <3>1
        <3>3. family[u] = family[v]
            BY <1>3, <1>9, <3>1, <3>2
        <3>4. QED
            BY <1>2, <1>5, <1>9, <3>1, <3>2, <3>3 DEF Younger
    <2>3. QED
        BY <2>1, <2>2
<1>10. ASSUME NEW q \in Txn, NEW u \in targets'[q] PROVE older[cookie'[q]] < older[u]
    <2>1. q # p /\ targets'[q] = targets[q] /\ cookie'[q] = cookie[q] /\ u \in targets[q]
        BY <1>3, <1>10, EndFacts DEF IInv
    <2>2. u \in issued /\ cookie[q] \in issued
        BY <2>1 DEF IInv, TypeOK, LocksOK, RevocationHolds, WaitInv, WaitingOK
    <2>3. QED
        BY <1>2, <1>5, <2>1, <2>2 DEF Younger
<1>11. Younger(older)'
    BY <1>9, <1>10 DEF Younger
<1>12. QED
    BY <1>4, <1>5, <1>11 DEF WaitInv, Ages

\* An UPDATE finds the active token of the session, and has been sent a revoked one.
LEMMA ScanWait ==
    ASSUME IInv, WaitInv, NEW p \in Txn, ReuseScan(p)
    PROVE  WaitInv'
<1>1. PICK age \in [Token -> Nat] : Younger(age)
    BY DEF WaitInv, Ages
<1>2. /\ pc[p] = "update" /\ cookie[p] \in revoked /\ cookie[p] \in issued /\ done[p] = {}
      /\ UNCHANGED <<issued, family, revoked, lockedBy, cookie, done>>
      /\ pc' = [pc EXCEPT ![p] = "revoke"]
    BY DEF ReuseScan, rowVars, WaitInv, WaitingOK, IInv, TypeOK
<1>3. /\ pc'[p] = "revoke" /\ \A q \in Txn \ {p} : pc'[q] = pc[q] /\ targets'[q] = targets[q]
      /\ targets'[p] = {u \in Active : family[u] = family[cookie[p]]}
    BY <1>2 DEF ReuseScan, IInv, TypeOK, Active
<1>4. WaitingOK'
    <2>1. \A t, u \in targets'[p] : t = u
        BY <1>3 DEF IInv, RowsOK, OneActivePerFamily
    <2>2. QED
        BY <1>2, <1>3, <2>1 DEF WaitInv, WaitingOK, Holds
<1>5. Younger(age)'
    <2>1. \A u \in targets'[p] : age[cookie[p]] < age[u]
        BY <1>1, <1>2, <1>3 DEF Younger, Active
    <2>2. QED
        BY <1>1, <1>2, <1>3, <2>1 DEF Younger, Active
<1>6. QED
    BY <1>4, <1>5 DEF WaitInv, Ages

\* The locks that are taken, and the requests that begin.
LEMMA LockWait ==
    ASSUME IInv, WaitInv, NEW p \in Txn,
           \/ \E t \in Token : Refresh(p, t) \/ Logout(p, t)
           \/ SelectForUpdate(p)
           \/ \E u \in Token : ReuseRow(p, u)
    PROVE  WaitInv'
<1>1. PICK age \in [Token -> Nat] : Younger(age)
    BY DEF WaitInv, Ages
<1>2. UNCHANGED <<issued, family, revoked>>
    BY DEF Refresh, Logout, SelectForUpdate, ReuseRow, rowVars
<1>3. ASSUME NEW t \in Token, Refresh(p, t) \/ Logout(p, t) PROVE WaitInv'
    <2>1. /\ pc[p] = "idle" /\ pc'[p] \notin {"rotate", "update", "revoke"}
          /\ \A q \in Txn \ {p} : pc'[q] = pc[q] /\ cookie'[q] = cookie[q]
          /\ UNCHANGED <<lockedBy, targets, done>>
        BY <1>3 DEF Refresh, Logout, IInv, TypeOK
    <2>2. WaitingOK'
        BY <1>2, <2>1 DEF WaitInv, WaitingOK, Holds
    <2>3. Younger(age)'
        BY <1>1, <1>2, <2>1, SameAges DEF WaitInv, WaitingOK
    <2>4. QED
        BY <2>2, <2>3 DEF WaitInv, Ages
<1>4. CASE SelectForUpdate(p)
    <2>1. CASE End(p)
        <3>1. WaitingOK'
            BY <1>2, <2>1, EndWaiting DEF WaitInv
        <3>2. Younger(age)'
            BY <1>1, <1>2, <2>1, EndFacts, SameAges DEF IInv
        <3>3. QED
            BY <3>1, <3>2 DEF WaitInv, Ages
    <2>2. CASE /\ lockedBy' = [lockedBy EXCEPT ![cookie[p]] = p]
               /\ pc' = [pc EXCEPT ![p] = IF cookie[p] \in revoked THEN "update" ELSE "rotate"]
               /\ UNCHANGED <<cookie, targets, done>>
        <3>1. /\ pc[p] = "select" /\ pc'[p] \in {"update", "rotate"}
              /\ pc'[p] = "update" => cookie[p] \in revoked
              /\ \A q \in Txn \ {p} : pc'[q] = pc[q]
              /\ \A u \in Token : lockedBy'[u] = IF u = cookie[p] THEN p ELSE lockedBy[u]
            BY <1>4, <2>2 DEF SelectForUpdate, IInv, TypeOK
        <3>2. WaitingOK'
            BY <1>2, <2>2, <3>1 DEF WaitInv, WaitingOK, Holds
        <3>3. Younger(age)'
            BY <1>1, <1>2, <2>2, SameAges
        <3>4. QED
            BY <3>2, <3>3 DEF WaitInv, Ages
    <2>3. QED
        BY <1>4, <2>1, <2>2 DEF SelectForUpdate
<1>5. ASSUME NEW u \in Token, ReuseRow(p, u) PROVE WaitInv'
    <2>1. /\ pc[p] = "revoke" /\ u \in targets[p] /\ done'[p] = done[p] \cup {u}
          /\ \A q \in Txn \ {p} : done'[q] = done[q]
          /\ \A v \in Token : lockedBy'[v] = lockedBy[v] \/ (v = u /\ lockedBy'[v] = p)
          /\ UNCHANGED <<pc, cookie, targets>>
        BY <1>5 DEF ReuseRow, IInv, TypeOK
    <2>2. WaitingOK'
        BY <1>2, <2>1 DEF WaitInv, WaitingOK, Holds
    <2>3. Younger(age)'
        BY <1>1, <1>2, <2>1, SameAges
    <2>4. QED
        BY <2>2, <2>3 DEF WaitInv, Ages
<1>6. QED
    BY <1>3, <1>4, <1>5

LEMMA CommitWait ==
    ASSUME IInv, WaitInv, NEW p \in Txn, ReuseCommit(p) \/ LogoutCommit(p) \/ Abort(p)
    PROVE  WaitInv'
<1>1. End(p) /\ UNCHANGED <<issued, family>> /\ revoked \subseteq revoked'
    BY DEF ReuseCommit, LogoutCommit, Abort, rowVars
<1>2. PICK age \in [Token -> Nat] : Younger(age)
    BY DEF WaitInv, Ages
<1>3. Younger(age)'
    BY <1>1, <1>2, EndFacts, SameAges DEF IInv
<1>4. QED
    BY <1>1, <1>3, EndWaiting DEF WaitInv, Ages

LEMMA NextWait == IInv /\ WaitInv /\ [Next]_vars => WaitInv'
<1> SUFFICES ASSUME IInv, WaitInv, [Next]_vars PROVE WaitInv'
    OBVIOUS
<1>1. CASE UNCHANGED vars \/ \E t \in Token : Expire(t)
    BY <1>1 DEF vars, rowVars, txnVars, Expire, WaitInv, WaitingOK, Holds, Ages, Younger, Active
<1>2. QED
    BY <1>1, LoginWait, RotateWait, ScanWait, LockWait, CommitWait DEF Next, Step

\* Who waits for one that waits is reuse detection, and its token is the older one.
LEMMA WaitsForYounger ==
    ASSUME IInv, WaitingOK, NEW age \in [Token -> Nat], Younger(age),
           NEW p \in Txn, NEW q \in Txn, WaitsFor(p, q), NEW r \in Txn, WaitsFor(q, r)
    PROVE  /\ pc[q] = "revoke"
           /\ pc[p] = "revoke" => age[cookie[p]] < age[cookie[q]]
<1>1. PICK u \in Token : /\ lockedBy[u] = q
                         /\ pc[p] = "revoke" => u \in targets[p]
    BY DEF WaitsFor, IInv, TypeOK
<1>2. Holds(q, u)
    BY <1>1 DEF WaitingOK
<1>3. pc[q] = "revoke" /\ \E v \in targets[q] : v \notin done[q]
    BY <1>2 DEF Holds, WaitsFor
<1>4. u = cookie[q]
    BY <1>2, <1>3 DEF Holds, WaitingOK
<1>5. QED
    BY <1>1, <1>3, <1>4 DEF Younger

\* No transactions wait for each other in a circle, however many there are and whatever
\* rows they have locked.
THEOREM DeadlockFree == Spec => []NoDeadlock
<1>1. ASSUME IInv, WaitInv, NEW S \in SUBSET Txn, IsFiniteSet(S), S # {},
             \A p \in S : \E q \in S : WaitsFor(p, q)
      PROVE  FALSE
    <2>1. PICK age \in [Token -> Nat] : Younger(age)
        BY <1>1 DEF WaitInv, Ages
    <2> DEFINE R == {p \in S : pc[p] = "revoke"}
               rank(p) == age[cookie[p]]
               above(p) == {q \in R : rank(p) <= rank(q)}
               T == {above(p) : p \in R}
    <2>2. \A p \in S : \E q \in R :
            pc[p] = "revoke" => rank(p) < rank(q)
        BY <1>1, <2>1, WaitsForYounger DEF WaitInv
    <2>3. \A p \in R : rank(p) \in Nat
        BY <1>1 DEF IInv, TypeOK
    <2>4. R # {} /\ R \subseteq S /\ IsFiniteSet(R)
        <3>1. R # {} /\ R \subseteq S
            BY <1>1, <2>2
        <3>2. QED
            BY <1>1, <3>1, FS_Subset
    <2>5. \A p \in R : \E q \in R : rank(p) < rank(q)
        BY <2>2
    <2>6. \A p \in R : p \in above(p) /\ above(p) \in T
        BY <2>3
    <2>7. \A p, q \in R : rank(p) < rank(q) => above(q) \subseteq above(p) /\ p \notin above(q)
        BY <2>3
    <2> HIDE DEF R, rank
    <2>8. T # {} /\ T \subseteq SUBSET R
        BY <2>4
    <2>9. IsWellFoundedOn(StrictSubsetOrdering(R), SUBSET R)
        BY <2>4, FS_StrictSubsetOrderingWellFounded, FS_FiniteSubsetsOfFinite
    <2>10. PICK x \in T : \A y \in T : <<y, x>> \notin StrictSubsetOrdering(R)
        <3> HIDE DEF T
        <3>1. QED
            BY <2>8, <2>9, WFMin
    <2>11. PICK p \in R : x = above(p)
        OBVIOUS
    <2>12. PICK q \in R : rank(p) < rank(q)
        BY <2>5
    <2>13. above(q) \subseteq above(p) /\ p \in above(p) /\ p \notin above(q)
        BY <2>6, <2>7, <2>12
    <2>14. above(q) \in T /\ above(q) \subseteq R /\ above(p) \subseteq R
        OBVIOUS
    <2> HIDE DEF above, T
    <2>15. <<above(q), above(p)>> \in StrictSubsetOrdering(R)
        BY <2>13, <2>14 DEF StrictSubsetOrdering
    <2>16. QED
        BY <2>10, <2>11, <2>14, <2>15
<1>2. IInv /\ WaitInv => NoDeadlock
    BY <1>1 DEF NoDeadlock
<1>3. QED
    BY <1>2, InitWait, NextWait, SpecIInv, PTL DEF Spec
=============================================================================
