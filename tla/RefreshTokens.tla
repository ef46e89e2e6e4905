---------------------------- MODULE RefreshTokens ----------------------------
(***************************************************************************)
(* The refresh tokens of src/app/api/auth.py: login, refresh with rotation *)
(* and reuse detection, logout.  Each handler is one Postgres transaction  *)
(* at READ COMMITTED (the default; src/app/db/session.py sets no other):   *)
(* a plain SELECT, and the scan of an UPDATE, read the rows committed when *)
(* the statement starts; SELECT ... FOR UPDATE and UPDATE wait for the     *)
(* lock of a row and go on with its latest committed version.              *)
(*                                                                         *)
(* The variables hold the committed rows.  What a transaction has written  *)
(* but not committed is visible to nobody else and appears in the step     *)
(* that commits.                                                           *)
(***************************************************************************)
EXTENDS Integers, FiniteSets

CONSTANTS Txn,      \* handlers that may run at once
          Token,    \* refresh tokens
          Family,   \* family_id values, one per login
          None      \* SQL NULL; also: nobody holds the lock

ASSUME NoneAssumption == None \notin Txn /\ None \notin Token /\ None \notin Family

VARIABLES
    issued,      \* the rows of refresh_tokens
    family,      \* token -> family_id
    revoked,     \* rows whose revoked_at is not null
    replacedBy,  \* token -> replaced_by_id
    expired,     \* rows whose expires_at has passed
    lockedBy,    \* token -> the transaction that holds the row lock
    pc,          \* transaction -> the statement it runs next
    cookie,      \* transaction -> the refresh token it was sent
    targets,     \* transaction -> the rows its UPDATE found when it started
    done         \* transaction -> those it has locked, or skipped

rowVars == <<issued, family, revoked, replacedBy>>
txnVars == <<lockedBy, pc, cookie, targets, done>>
vars == <<rowVars, expired, txnVars>>

Init ==
    /\ issued = {}
    /\ family = [t \in Token |-> None]
    /\ revoked = {}
    /\ replacedBy = [t \in Token |-> None]
    /\ expired = {}
    /\ lockedBy = [t \in Token |-> None]
    /\ pc = [p \in Txn |-> "idle"]
    /\ cookie = [p \in Txn |-> None]
    /\ targets = [p \in Txn |-> {}]
    /\ done = [p \in Txn |-> {}]

----------------------------------------------------------------------------
(* Row locks *)

\* Fault: no FOR UPDATE, no row lock.
Lockable_Ignored(p, t) == TRUE

Lockable(p, t) == lockedBy[t] \in {None, p}

\* The transaction ends: it commits or rolls back, and its locks go.
End(p) ==
    /\ lockedBy' = [t \in Token |-> IF lockedBy[t] = p THEN None ELSE lockedBy[t]]
    /\ pc' = [pc EXCEPT ![p] = "idle"]
    /\ cookie' = [cookie EXCEPT ![p] = None]
    /\ targets' = [targets EXCEPT ![p] = {}]
    /\ done' = [done EXCEPT ![p] = {}]

----------------------------------------------------------------------------
(* The handlers *)

\* login: the first token of a new family, in one transaction of its own.
Login(t, f) ==
    /\ t \notin issued
    /\ \A u \in issued : family[u] # f
    /\ issued' = issued \cup {t}
    /\ family' = [family EXCEPT ![t] = f]
    /\ UNCHANGED <<revoked, replacedBy, expired, txnVars>>

\* A request to refresh arrives with a token that was given out.
Refresh(p, t) ==
    /\ pc[p] = "idle"
    /\ t \in issued
    /\ pc' = [pc EXCEPT ![p] = "select"]
    /\ cookie' = [cookie EXCEPT ![p] = t]
    /\ UNCHANGED <<rowVars, expired, lockedBy, targets, done>>

\* Fault: the answer to an expired token keeps the transaction open.
SelectForUpdate_LeakLock(p) ==
    /\ pc[p] = "select"
    /\ Lockable(p, cookie[p])
    /\ lockedBy' = [lockedBy EXCEPT ![cookie[p]] = p]
    /\ pc' = [pc EXCEPT ![p] = CASE cookie[p] \in revoked -> "update"
                                 [] cookie[p] \in expired -> "idle"
                                 [] OTHER -> "rotate"]
    /\ UNCHANGED <<rowVars, expired, cookie, targets, done>>

\* SELECT ... FOR UPDATE, and the branches on what it returns.
SelectForUpdate(p) ==
    /\ pc[p] = "select"
    /\ Lockable(p, cookie[p])
    /\ \/ /\ cookie[p] \in revoked \/ cookie[p] \notin expired
          /\ lockedBy' = [lockedBy EXCEPT ![cookie[p]] = p]
          /\ pc' = [pc EXCEPT ![p] = IF cookie[p] \in revoked THEN "update" ELSE "rotate"]
          /\ UNCHANGED <<cookie, targets, done>>
       \/ /\ cookie[p] \notin revoked /\ cookie[p] \in expired
          /\ End(p)
    /\ UNCHANGED <<rowVars, expired>>

\* Fault: the new token is not given the family of the old one.
Rotate_NoFamily(p, n) ==
    LET t == cookie[p]
    IN  /\ pc[p] = "rotate"
        /\ n \notin issued
        /\ issued' = issued \cup {n}
        /\ revoked' = revoked \cup {t}
        /\ replacedBy' = [replacedBy EXCEPT ![t] = n]
        /\ End(p)
        /\ UNCHANGED <<family, expired>>

\* The rotation commits: the new token, and the old one revoked and replaced by it.
Rotate(p, n) ==
    LET t == cookie[p]
    IN  /\ pc[p] = "rotate"
        /\ n \notin issued
        /\ issued' = issued \cup {n}
        /\ family' = [family EXCEPT ![n] = family[t]]
        /\ revoked' = revoked \cup {t}
        /\ replacedBy' = [replacedBy EXCEPT ![t] = n]
        /\ End(p)
        /\ UNCHANGED expired

\* Reuse detected: UPDATE ... WHERE family_id = ... AND revoked_at IS NULL starts,
\* and scans the rows committed at this moment.
ReuseScan(p) ==
    /\ pc[p] = "update"
    /\ targets' = [targets EXCEPT ![p] =
                      {u \in issued \ revoked : family[u] = family[cookie[p]]}]
    /\ pc' = [pc EXCEPT ![p] = "revoke"]
    /\ UNCHANGED <<rowVars, expired, lockedBy, cookie, done>>

\* Fault: UPDATE does not wait for rows that are locked (SKIP LOCKED).
ReuseRow_SkipLocked(p, u) ==
    /\ pc[p] = "revoke"
    /\ u \in targets[p] \ done[p]
    /\ lockedBy' = IF Lockable(p, u) THEN [lockedBy EXCEPT ![u] = p] ELSE lockedBy
    /\ done' = [done EXCEPT ![p] = @ \cup {u}]
    /\ UNCHANGED <<rowVars, expired, pc, cookie, targets>>

\* UPDATE takes the lock of one row it found, waiting for it, and looks again: a
\* row that was revoked meanwhile no longer matches and is skipped.
ReuseRow(p, u) ==
    /\ pc[p] = "revoke"
    /\ u \in targets[p] \ done[p]
    /\ Lockable(p, u)
    /\ lockedBy' = IF u \in revoked THEN lockedBy ELSE [lockedBy EXCEPT ![u] = p]
    /\ done' = [done EXCEPT ![p] = @ \cup {u}]
    /\ UNCHANGED <<rowVars, expired, pc, cookie, targets>>

\* UPDATE has been through all its rows, and the transaction commits.
ReuseCommit(p) ==
    /\ pc[p] = "revoke"
    /\ done[p] = targets[p]
    /\ revoked' = revoked \cup {u \in targets[p] : lockedBy[u] = p}
    /\ End(p)
    /\ UNCHANGED <<issued, family, replacedBy, expired>>

\* logout: a plain SELECT, and nothing more unless the token is active ...
Logout(p, t) ==
    /\ pc[p] = "idle"
    /\ t \in issued \ revoked
    /\ pc' = [pc EXCEPT ![p] = "logout"]
    /\ cookie' = [cookie EXCEPT ![p] = t]
    /\ UNCHANGED <<rowVars, expired, lockedBy, targets, done>>

\* ... else UPDATE ... WHERE id = ... and commit, whatever became of the row.
LogoutCommit(p) ==
    /\ pc[p] = "logout"
    /\ Lockable(p, cookie[p])
    /\ revoked' = revoked \cup {cookie[p]}
    /\ End(p)
    /\ UNCHANGED <<issued, family, replacedBy, expired>>

----------------------------------------------------------------------------
(* The environment *)

\* The handler dies, or its connection does: Postgres rolls the transaction back.
Abort(p) ==
    /\ pc[p] # "idle"
    /\ End(p)
    /\ UNCHANGED <<rowVars, expired>>

\* expires_at passes (refresh_token_expire_days).
Expire(t) ==
    /\ t \in issued \ expired
    /\ expired' = expired \cup {t}
    /\ UNCHANGED <<rowVars, txnVars>>

Step(p) ==
    \/ SelectForUpdate(p)
    \/ \E n \in Token : Rotate(p, n)
    \/ ReuseScan(p)
    \/ \E u \in Token : ReuseRow(p, u)
    \/ ReuseCommit(p)
    \/ LogoutCommit(p)

Next ==
    \/ \E t \in Token, f \in Family : Login(t, f)
    \/ \E p \in Txn, t \in Token : Refresh(p, t) \/ Logout(p, t)
    \/ \E p \in Txn : Step(p) \/ Abort(p)
    \/ \E t \in Token : Expire(t)

Spec == Init /\ [][Next]_vars

\* The server goes on with the requests it has begun.  Postgres grants a row lock
\* in the order in which it was asked for, so a statement that waits for one gets
\* it in the end (strong fairness).  Only for the bound: a rotation for which no
\* token is left is rolled back.
FairSpec ==
    /\ Spec
    /\ \A p \in Txn :
        /\ SF_vars(Step(p))
        /\ WF_vars(issued = Token /\ pc[p] = "rotate" /\ Abort(p))

----------------------------------------------------------------------------
(* Properties *)

Active == issued \ revoked
ActiveIn(f) == {t \in Active : family[t] = f}

TypeOK ==
    /\ issued \subseteq Token
    /\ family \in [Token -> Family \cup {None}]
    /\ \A t \in issued : family[t] \in Family
    /\ revoked \subseteq issued
    /\ replacedBy \in [Token -> Token \cup {None}]
    /\ expired \subseteq issued
    /\ lockedBy \in [Token -> Txn \cup {None}]
    /\ pc \in [Txn -> {"idle", "select", "rotate", "update", "revoke", "logout"}]
    /\ cookie \in [Txn -> Token \cup {None}]
    /\ \A p \in Txn : pc[p] # "idle" => cookie[p] \in issued
    /\ targets \in [Txn -> SUBSET Token]
    /\ done \in [Txn -> SUBSET Token]

\* Whatever requests are in flight, a session has at most one token that works: the
\* reason given for the FOR UPDATE of /auth/refresh (auth.py, lines 206-210).
OneActivePerFamily ==
    \A t, u \in Active : family[t] = family[u] => t = u

\* replaced_by_id describes each session completely: a token replaces at most one
\* other, of its own family, which is revoked, and all but one token of a family
\* (the one of the login) replace another.
SingleLineage ==
    /\ \A t \in issued : replacedBy[t] # None =>
        /\ t \in revoked
        /\ replacedBy[t] \in issued
        /\ family[replacedBy[t]] = family[t]
    /\ \A t, u \in issued : replacedBy[t] = replacedBy[u] /\ replacedBy[t] # None => t = u
    /\ \A t, u \in issued :
        /\ family[t] = family[u]
        /\ \A x \in issued : replacedBy[x] \notin {t, u}
        => t = u

\* A session that has no working token left never gets one again: a refresh that
\* had already read its token cannot bring a closed session back.
DeadSessionStaysDead ==
    [][\A f \in Family :
        (\E t \in issued : family[t] = f) /\ ActiveIn(f) = {} => ActiveIn(f)' = {}]_vars

\* Each session that was opened, as the token that works in it.
Opened == {family[t] : t \in issued}
Only(tokens) == IF tokens = {} THEN None ELSE CHOOSE t \in tokens : TRUE
Current == [f \in Opened |-> Only(ActiveIn(f))]

Sessions == INSTANCE SessionSpec WITH current <- Current, given <- issued

\* Whatever statements of refreshes, reuse detections and logouts interleave, every
\* request acts on its session at one instant: it exchanges the token that works for
\* one that never worked before, or closes the session, for good.
ImplementsSessionSpec == Sessions!Spec

\* Reuse detection revokes every token of the family that was committed when its
\* UPDATE started, those included that other transactions held locked.
ReuseRevokesAllSeen ==
    [][\A p \in Txn : ReuseCommit(p) => targets[p] \subseteq revoked']_vars

\* p waits for the lock of a row that q holds.
WaitsFor(p, q) ==
    /\ p # q
    /\ \/ pc[p] \in {"select", "logout"} /\ lockedBy[cookie[p]] = q
       \/ pc[p] = "revoke" /\ \E u \in targets[p] \ done[p] : lockedBy[u] = q

\* Among any transactions, one waits for none of the others: reuse detection, which
\* asks for a lock while it holds one, never does so round in a circle.
NoDeadlock ==
    \A S \in SUBSET Txn : IsFiniteSet(S) /\ S # {} =>
        \E p \in S : \A q \in S : ~WaitsFor(p, q)

\* Every request is answered: no two of them wait for each other's rows forever.
EveryRequestAnswered ==
    \A p \in Txn : (pc[p] # "idle") ~> (pc[p] = "idle")

\* What the comment at auth.py, lines 223-224, and docs/architecture.md, lines 13-14
\* and 675, say of reuse detection: it revokes the whole chain of the session.
ReuseKillsSession ==
    [][\A p \in Txn, f \in Family :
        ReuseCommit(p) /\ family[cookie[p]] = f => ActiveIn(f)' = {}]_vars
=============================================================================
