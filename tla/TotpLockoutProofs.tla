-------------------------- MODULE TotpLockoutProofs --------------------------
(***************************************************************************)
(* The lockout of TotpLockout for any number of requests and attempts and  *)
(* any duration.  A request that evaluates a code holds the row, and its   *)
(* copy of the counter is the row's (CopyFresh); so the counter follows    *)
(* the wrong codes of the window one by one, until the lockout, which      *)
(* outlasts the window (CounterFollows).                                   *)
(***************************************************************************)
EXTENDS TotpLockout, TLAPS

----------------------------------------------------------------------------
(* The inductive invariant *)

\* At most one request holds the row, and its copy is what the row holds; the row
\* was not locked out when it looked.
CopyFresh ==
    /\ \A r, q \in Request : pc[r] \in Checked /\ pc[q] \in Checked => r = q
    /\ \A r \in Request : pc[r] \in Checked =>
          seen[r] = Row /\ lockedUntil <= clock /\ secret # None

\* In a window the wrong codes are counted by the counter; or the lockout came, and
\* lasts at least as long as the window.
CounterFollows ==
    clock < since + LockDuration =>
        \/ guesses <= attempts
        \/ guesses <= MaxAttempts /\ since + LockDuration <= lockedUntil

\* Requests that have passed the check of totp_enabled on their copy find it true.
GateHolds ==
    \A r \in Request :
        pc[r] \in {"lock_activate", "check_activate", "grant"} => totp_enabled

IInv ==
    /\ TypeOK
    /\ CopyFresh
    /\ CounterFollows
    /\ GateHolds

\* Initially no code was evaluated.
LEMMA InitIInv == Init => IInv
<1> SUFFICES ASSUME Init PROVE IInv
    OBVIOUS
<1>1. Blank \in [attempts : 0..(MaxAttempts - 1), lockedUntil : Nat]
    BY LockoutAssumption DEF Blank
<1>2. TypeOK
    <2>1. seen \in [Request -> [attempts : 0..(MaxAttempts - 1), lockedUntil : Nat]]
        BY <1>1 DEF Init
    <2>2. attempts \in 0..(MaxAttempts - 1) /\ since \in 0..clock
        BY LockoutAssumption DEF Init
    <2>3. QED
        BY <2>1, <2>2 DEF Init, TypeOK
<1>3. CopyFresh /\ CounterFollows /\ GateHolds
    BY LockoutAssumption DEF Init, CopyFresh, CounterFollows, GateHolds, Checked
<1>4. QED
    BY <1>2, <1>3 DEF IInv

\* The end of a request leaves the copies of the others alone.
LEMMA EndFacts ==
    ASSUME TypeOK, NEW r \in Request, End(r)
    PROVE  /\ pc' \in [Request -> {"idle", "setup", "lock_verify", "lock_activate",
                                   "check_verify", "check_activate", "confirm", "grant",
                                   "deactivate"}]
           /\ seen' \in [Request -> [attempts : 0..(MaxAttempts - 1), lockedUntil : Nat]]
           /\ pc'[r] = "idle"
           /\ \A q \in Request \ {r} : pc'[q] = pc[q] /\ seen'[q] = seen[q]
BY LockoutAssumption DEF TypeOK, End, Blank

----------------------------------------------------------------------------
(* Every action preserves it *)

LEMMA LoadIInv ==
    ASSUME IInv, NEW r \in Request,
           NEW next \in {"setup", "lock_verify", "lock_activate", "deactivate"},
           next = "lock_activate" => totp_enabled, Load(r, next)
    PROVE  IInv'
<1>1. Row \in [attempts : 0..(MaxAttempts - 1), lockedUntil : Nat]
    BY DEF IInv, TypeOK, Row
<1>2. TypeOK'
    BY <1>1 DEF IInv, TypeOK, Load, rowVars, lockoutVars, observerVars
<1>3. CopyFresh'
    BY DEF IInv, TypeOK, CopyFresh, Checked, Row, Load, rowVars, lockoutVars
<1>4. CounterFollows'
    BY DEF IInv, CounterFollows, Load, rowVars, lockoutVars, observerVars
<1>5. GateHolds'
    BY DEF IInv, TypeOK, GateHolds, totp_enabled, Load, rowVars
<1>6. QED
    BY <1>2, <1>3, <1>4, <1>5 DEF IInv

LEMMA SetupCommitIInv ==
    ASSUME IInv, NEW r \in Request, NEW s \in Secret, SetupCommit(r, s)
    PROVE  IInv'
<1>1. End(r) /\ RowFree /\ s # None
    BY NoneAssumption DEF SetupCommit
<1>2. TypeOK'
    BY <1>1, EndFacts DEF IInv, TypeOK, SetupCommit, lockoutVars
<1>3. CopyFresh'
    BY <1>1, EndFacts DEF IInv, CopyFresh, RowFree, Checked
<1>4. CounterFollows'
    BY DEF IInv, CounterFollows, SetupCommit, lockoutVars
<1>5. GateHolds'
    BY <1>1, EndFacts DEF IInv, TypeOK, GateHolds, totp_enabled, SetupCommit
<1>6. QED
    BY <1>2, <1>3, <1>4, <1>5 DEF IInv

LEMMA LockRowIInv ==
    ASSUME IInv, NEW r \in Request, LockRow(r)
    PROVE  IInv'
<1>1. CASE End(r)
    <2>1. TypeOK'
        BY <1>1, EndFacts DEF IInv, TypeOK, LockRow, rowVars, lockoutVars, observerVars
    <2>2. CopyFresh'
        BY <1>1, EndFacts DEF IInv, CopyFresh, RowFree, Checked, LockRow
    <2>3. CounterFollows'
        BY DEF IInv, CounterFollows, LockRow, rowVars, lockoutVars, observerVars
    <2>4. GateHolds'
        BY <1>1, EndFacts DEF IInv, TypeOK, GateHolds, totp_enabled, LockRow, rowVars
    <2>5. QED
        BY <2>1, <2>2, <2>3, <2>4 DEF IInv
<1>2. CASE /\ secret # None /\ lockedUntil <= clock
           /\ pc' = [pc EXCEPT ![r] = NextOf(pc[r])]
           /\ seen' = [seen EXCEPT ![r] = Row]
    <2>1. /\ Row \in [attempts : 0..(MaxAttempts - 1), lockedUntil : Nat]
          /\ NextOf(pc[r]) \in Checked
          /\ NextOf(pc[r]) = "check_activate" => pc[r] = "lock_activate"
        BY DEF IInv, TypeOK, Row, LockRow, NextOf, Checked
    <2>2. TypeOK'
        BY <1>2, <2>1 DEF IInv, TypeOK, Checked, LockRow, rowVars, lockoutVars, observerVars
    <2>3. CopyFresh'
        BY <1>2, <2>1 DEF IInv, TypeOK, CopyFresh, RowFree, Checked, Row, LockRow, rowVars,
                          lockoutVars
    <2>4. CounterFollows'
        BY DEF IInv, CounterFollows, LockRow, rowVars, lockoutVars, observerVars
    <2>5. GateHolds'
        BY <1>2, <2>1 DEF IInv, TypeOK, GateHolds, totp_enabled, Checked, LockRow, rowVars
    <2>6. QED
        BY <2>2, <2>3, <2>4, <2>5 DEF IInv
<1>3. QED
    BY <1>1, <1>2 DEF LockRow

LEMMA WrongCodeIInv ==
    ASSUME IInv, NEW r \in Request, WrongCode(r)
    PROVE  IInv'
<1>1. End(r) /\ pc[r] \in Checked
    BY DEF WrongCode
<1>2. seen[r].attempts = attempts /\ lockedUntil <= clock
    BY <1>1 DEF IInv, CopyFresh, Row
<1>3. /\ IF attempts + 1 >= MaxAttempts
         THEN attempts' = 0 /\ lockedUntil' = clock + LockDuration
         ELSE attempts' = attempts + 1 /\ lockedUntil' = lockedUntil
      /\ guesses' = guesses + 1
      /\ UNCHANGED <<clock, secret, confirmed, premium, proved, since>>
    BY <1>2 DEF WrongCode
<1>4. TypeOK'
    BY <1>1, <1>3, EndFacts, LockoutAssumption DEF IInv, TypeOK
<1>5. CopyFresh'
    BY <1>1, EndFacts DEF IInv, CopyFresh, Checked
<1>6. CounterFollows'
    BY <1>2, <1>3, LockoutAssumption DEF IInv, TypeOK, CounterFollows
<1>7. GateHolds'
    BY <1>1, <1>3, EndFacts DEF IInv, TypeOK, GateHolds, totp_enabled
<1>8. QED
    BY <1>4, <1>5, <1>6, <1>7 DEF IInv

LEMMA RightCodeIInv ==
    ASSUME IInv, NEW r \in Request, RightCode(r)
    PROVE  IInv'
<1>1. /\ NextOf(pc[r]) \in {"confirm", "grant"}
      /\ NextOf(pc[r]) = "grant" => pc[r] = "check_activate"
      /\ Blank \in [attempts : 0..(MaxAttempts - 1), lockedUntil : Nat]
      /\ pc[r] \in Checked
    BY LockoutAssumption DEF RightCode, NextOf, Checked, Blank
<1>2. secret \in Secret
    BY <1>1 DEF IInv, TypeOK, CopyFresh
<1>3. TypeOK'
    BY <1>1, <1>2, LockoutAssumption DEF IInv, TypeOK, RightCode
<1>4. CopyFresh'
    BY <1>1 DEF IInv, TypeOK, CopyFresh, Checked, RightCode
<1>5. CounterFollows'
    BY LockoutAssumption DEF IInv, TypeOK, CounterFollows, RightCode
<1>6. GateHolds'
    BY <1>1 DEF IInv, TypeOK, GateHolds, totp_enabled, RightCode
<1>7. QED
    BY <1>3, <1>4, <1>5, <1>6 DEF IInv

LEMMA ConfirmIInv ==
    ASSUME IInv, NEW r \in Request, Confirm(r)
    PROVE  IInv'
<1>1. End(r)
    BY DEF Confirm
<1>2. TypeOK'
    BY <1>1, EndFacts DEF IInv, TypeOK, Confirm, lockoutVars, observerVars
<1>3. CopyFresh'
    BY <1>1, EndFacts DEF IInv, CopyFresh, Checked, Row, Confirm, lockoutVars
<1>4. CounterFollows'
    BY DEF IInv, CounterFollows, Confirm, lockoutVars, observerVars
<1>5. GateHolds'
    BY <1>1, EndFacts DEF IInv, GateHolds, totp_enabled, Confirm
<1>6. QED
    BY <1>2, <1>3, <1>4, <1>5 DEF IInv

\* Granting and giving up premium, and requests that fail.
LEMMA PremiumIInv ==
    ASSUME IInv, NEW r \in Request, Grant(r) \/ DeactivateCommit(r) \/ Refuse(r)
    PROVE  IInv'
<1>1. /\ End(r) /\ premium' \in BOOLEAN
      /\ UNCHANGED <<clock, secret, confirmed, lockoutVars, observerVars>>
    BY DEF IInv, TypeOK, Grant, DeactivateCommit, Refuse, rowVars
<1>2. TypeOK'
    BY <1>1, EndFacts DEF IInv, TypeOK, lockoutVars, observerVars
<1>3. CopyFresh'
    BY <1>1, EndFacts DEF IInv, CopyFresh, Checked, Row, lockoutVars
<1>4. CounterFollows'
    BY <1>1 DEF IInv, CounterFollows, lockoutVars, observerVars
<1>5. GateHolds'
    BY <1>1, EndFacts DEF IInv, GateHolds, totp_enabled
<1>6. QED
    BY <1>2, <1>3, <1>4, <1>5 DEF IInv

LEMMA EnvironmentIInv ==
    ASSUME IInv, Tick \/ Observe \/ UNCHANGED vars
    PROVE  IInv'
<1>1. UNCHANGED <<rowVars, requestVars, proved>> /\ clock' \in {clock, clock + 1}
    BY DEF Tick, Observe, vars, observerVars
<1>2. TypeOK'
    BY <1>1 DEF IInv, TypeOK, Tick, Observe, vars, rowVars, lockoutVars, requestVars,
                observerVars
<1>3. CopyFresh'
    BY <1>1 DEF IInv, TypeOK, CopyFresh, Row, rowVars, lockoutVars, requestVars
<1>4. CounterFollows'
    BY <1>1, LockoutAssumption DEF IInv, TypeOK, CounterFollows, Tick, Observe, vars,
                rowVars, lockoutVars, observerVars
<1>5. GateHolds'
    BY <1>1 DEF IInv, GateHolds, totp_enabled, rowVars, requestVars
<1>6. QED
    BY <1>2, <1>3, <1>4, <1>5 DEF IInv

LEMMA NextIInv == IInv /\ [Next]_vars => IInv'
<1> SUFFICES ASSUME IInv, [Next]_vars PROVE IInv'
    OBVIOUS
<1>1. ASSUME NEW r \in Request,
             SetupLoad(r) \/ VerifyLoad(r) \/ ActivateLoad(r) \/ DeactivateLoad(r)
      PROVE  IInv'
    BY <1>1, LoadIInv DEF SetupLoad, VerifyLoad, ActivateLoad, DeactivateLoad
<1>2. QED
    BY <1>1, SetupCommitIInv, LockRowIInv, WrongCodeIInv, RightCodeIInv, ConfirmIInv,
       PremiumIInv, EnvironmentIInv
    DEF Next, Step

LEMMA SpecIInv == Spec => []IInv
BY InitIInv, NextIInv, PTL DEF Spec

----------------------------------------------------------------------------
(* The theorems *)

\* Every variable keeps its type: the counter never reaches its limit.
THEOREM TypeCorrect == Spec => []TypeOK
<1>1. IInv => TypeOK
    BY DEF IInv
<1>2. QED
    BY <1>1, SpecIInv, PTL

\* However many requests try codes at once, in any LockDuration at most MaxAttempts
\* wrong ones are evaluated unless a right one comes in between.
THEOREM LockoutSafe == Spec => []WrongCodesBounded
<1>1. IInv => WrongCodesBounded
    BY LockoutAssumption DEF IInv, TypeOK, CounterFollows, WrongCodesBounded
<1>2. QED
    BY <1>1, SpecIInv, PTL

\* No step turns 2FA off again.
THEOREM StaysEnabled == Spec => TotpStaysEnabled
<1>1. [Next]_vars => (totp_enabled => totp_enabled')
    BY NoneAssumption
    DEF Next, Step, SetupLoad, VerifyLoad, ActivateLoad, DeactivateLoad, Load, SetupCommit,
        LockRow, WrongCode, RightCode, Confirm, Grant, DeactivateCommit, Refuse, Tick,
        Observe, totp_enabled, vars, rowVars
<1>2. QED
    BY <1>1, PTL DEF Spec, TotpStaysEnabled

\* Whoever is granted premium has 2FA on, although the check is made on a copy that
\* was loaded before the row was locked.
THEOREM PremiumSafe == Spec => PremiumNeedsTotp
<1>1. IInv /\ [Next]_vars => (~premium /\ premium' => totp_enabled)
    BY DEF IInv, TypeOK, GateHolds, Next, Step, SetupLoad, VerifyLoad, ActivateLoad,
        DeactivateLoad, Load, SetupCommit, LockRow, WrongCode, RightCode, Confirm, Grant,
        DeactivateCommit, Refuse, Tick, Observe, vars, rowVars
<1>2. QED
    BY <1>1, SpecIInv, PTL DEF Spec, PremiumNeedsTotp
=============================================================================
