----------------------------- MODULE TotpLockout -----------------------------
(***************************************************************************)
(* Two-factor authentication of one account: src/app/api/totp.py and the   *)
(* premium endpoints of src/app/api/users.py, which share the lockout.     *)
(* The account is one row of users.  get_current_user has loaded the row   *)
(* with a plain SELECT before the handler starts; the session keeps that   *)
(* copy (its identity map) and a commit writes only the columns whose      *)
(* value differs from it.                                                  *)
(*                                                                         *)
(* Codes are right or wrong for the secret the row holds when they are     *)
(* evaluated.  Wrong passwords end a request with nothing changed, as do   *)
(* undecipherable secrets: both appear as Refuse.                          *)
(***************************************************************************)
EXTENDS Integers, FiniteSets

CONSTANTS Request,      \* requests that may run at once
          Secret,       \* TOTP secrets
          None,         \* SQL NULL
          MaxAttempts,  \* TOTP_LOCKOUT_MAX_ATTEMPTS
          LockDuration, \* TOTP_LOCKOUT_DURATION
          Horizon       \* bound of the clock

ASSUME NoneAssumption == None \notin Secret
ASSUME LockoutAssumption ==
    /\ MaxAttempts \in Nat \ {0}
    /\ LockDuration \in Nat \ {0}
    /\ Horizon \in Nat

VARIABLES
    clock,
    secret,       \* totp_secret_encrypted
    confirmed,    \* totp_confirmed_at is not null
    attempts,     \* totp_failed_attempts
    lockedUntil,  \* totp_locked_until, 0 for null
    premium,      \* is_premium
    pc,           \* request -> what it does next
    seen,         \* request -> the attempts and locked_until of its copy of the row
    proved,       \* observer: secrets for which a right code was evaluated
    since,        \* observer: when the window began
    guesses       \* observer: wrong codes evaluated in the window

lockoutVars == <<attempts, lockedUntil>>
rowVars == <<secret, confirmed, lockoutVars, premium>>
requestVars == <<pc, seen>>
observerVars == <<proved, since, guesses>>
vars == <<clock, rowVars, requestVars, observerVars>>

totp_enabled == secret # None /\ confirmed

Row == [attempts |-> attempts, lockedUntil |-> lockedUntil]
Blank == [attempts |-> 0, lockedUntil |-> 0]

Init ==
    /\ clock = 0
    /\ secret = None
    /\ confirmed = FALSE
    /\ attempts = 0
    /\ lockedUntil = 0
    /\ premium = FALSE
    /\ pc = [r \in Request |-> "idle"]
    /\ seen = [r \in Request |-> Blank]
    /\ proved = {}
    /\ since = 0
    /\ guesses = 0

----------------------------------------------------------------------------
(* One request *)

\* get_current_user has loaded the row, and the handler goes on to its next step.
Load(r, next) ==
    /\ pc[r] = "idle"
    /\ pc' = [pc EXCEPT ![r] = next]
    /\ seen' = [seen EXCEPT ![r] = Row]
    /\ UNCHANGED <<clock, rowVars, observerVars>>

End(r) ==
    /\ pc' = [pc EXCEPT ![r] = "idle"]
    /\ seen' = [seen EXCEPT ![r] = Blank]

\* The request between SELECT ... FOR UPDATE and its commit holds the row: every
\* UPDATE and every other SELECT ... FOR UPDATE waits for it.
Checked == {"check_verify", "check_activate"}
RowFree == \A r \in Request : pc[r] \notin Checked

\* setup_totp: the copy says that 2FA is not on; a new secret will be stored.
SetupLoad(r) == ~totp_enabled /\ Load(r, "setup")

\* Fault: the UPDATE writes totp_confirmed_at although it is null in the copy.
SetupCommit_WholeRow(r, s) ==
    /\ pc[r] = "setup"
    /\ RowFree
    /\ s # secret
    /\ secret' = s
    /\ confirmed' = FALSE
    /\ proved' = proved \ {s}
    /\ End(r)
    /\ UNCHANGED <<clock, lockoutVars, premium, since, guesses>>

\* The UPDATE writes the secret only: totp_confirmed_at is null in the copy and is
\* set to null, so it is not among the columns that changed.  The secret is a new
\* one, which nobody has shown a code of.
SetupCommit(r, s) ==
    /\ pc[r] = "setup"
    /\ RowFree
    /\ s # secret
    /\ secret' = s
    /\ proved' = proved \ {s}
    /\ End(r)
    /\ UNCHANGED <<clock, confirmed, lockoutVars, premium, since, guesses>>

\* verify_totp and activate_premium; the latter asks for 2FA to be on, by the copy.
VerifyLoad(r) == Load(r, "lock_verify")
ActivateLoad(r) == totp_enabled /\ Load(r, "lock_activate")

NextOf(step) ==
    CASE step = "lock_verify"    -> "check_verify"
      [] step = "lock_activate"  -> "check_activate"
      [] step = "check_verify"   -> "confirm"
      [] step = "check_activate" -> "grant"

\* Fault: without populate_existing the copy stays as get_current_user loaded it.
LockRow_Stale(r) ==
    /\ pc[r] \in {"lock_verify", "lock_activate"}
    /\ RowFree
    /\ \/ /\ secret # None
          /\ seen[r].lockedUntil <= clock
          /\ pc' = [pc EXCEPT ![r] = NextOf(pc[r])]
          /\ UNCHANGED seen
       \/ /\ secret = None \/ seen[r].lockedUntil > clock
          /\ End(r)
    /\ UNCHANGED <<clock, rowVars, observerVars>>

\* lock_user_for_totp_check refreshes the copy under the lock; then the check that
\* there is a secret, and check_totp_lockout.
LockRow(r) ==
    /\ pc[r] \in {"lock_verify", "lock_activate"}
    /\ RowFree
    /\ \/ /\ secret # None
          /\ lockedUntil <= clock
          /\ pc' = [pc EXCEPT ![r] = NextOf(pc[r])]
          /\ seen' = [seen EXCEPT ![r] = Row]
       \/ /\ secret = None \/ lockedUntil > clock
          /\ End(r)
    /\ UNCHANGED <<clock, rowVars, observerVars>>

\* Fault: one attempt too many before the lockout.
WrongCode_OneMore(r) ==
    LET failed == seen[r].attempts + 1
    IN  /\ pc[r] \in Checked
        /\ IF failed > MaxAttempts
           THEN attempts' = 0 /\ lockedUntil' = clock + LockDuration
           ELSE attempts' = failed /\ UNCHANGED lockedUntil
        /\ guesses' = guesses + 1
        /\ End(r)
        /\ UNCHANGED <<clock, secret, confirmed, premium, proved, since>>

\* A wrong code: register_totp_failure, with its commit.
WrongCode(r) ==
    LET failed == seen[r].attempts + 1
    IN  /\ pc[r] \in Checked
        /\ IF failed >= MaxAttempts
           THEN attempts' = 0 /\ lockedUntil' = clock + LockDuration
           ELSE attempts' = failed /\ UNCHANGED lockedUntil
        /\ guesses' = guesses + 1
        /\ End(r)
        /\ UNCHANGED <<clock, secret, confirmed, premium, proved, since>>

\* A right code: register_totp_success, whose commit releases the row.
RightCode(r) ==
    /\ pc[r] \in Checked
    /\ attempts' = 0
    /\ pc' = [pc EXCEPT ![r] = NextOf(pc[r])]
    /\ seen' = [seen EXCEPT ![r] = Blank]
    /\ proved' = proved \cup {secret}
    /\ since' = clock
    /\ guesses' = 0
    /\ UNCHANGED <<clock, secret, confirmed, lockedUntil, premium>>

\* verify_totp goes on in a second transaction: it reads the row again, and turns
\* 2FA on if it is not.
Confirm(r) ==
    /\ pc[r] = "confirm"
    /\ confirmed \/ RowFree
    /\ confirmed' = TRUE
    /\ End(r)
    /\ UNCHANGED <<clock, secret, lockoutVars, premium, observerVars>>

\* activate_premium grants premium in a second transaction too.
Grant(r) ==
    /\ pc[r] = "grant"
    /\ RowFree
    /\ premium' = TRUE
    /\ End(r)
    /\ UNCHANGED <<clock, secret, confirmed, lockoutVars, observerVars>>

\* deactivate_premium writes nothing unless the copy says premium.
DeactivateLoad(r) == premium /\ Load(r, "deactivate")

DeactivateCommit(r) ==
    /\ pc[r] = "deactivate"
    /\ RowFree
    /\ premium' = FALSE
    /\ End(r)
    /\ UNCHANGED <<clock, secret, confirmed, lockoutVars, observerVars>>

\* The request fails or dies with its transaction open, which is rolled back.
Refuse(r) ==
    /\ pc[r] # "idle"
    /\ End(r)
    /\ UNCHANGED <<clock, rowVars, observerVars>>

----------------------------------------------------------------------------
(* The environment *)

Tick ==
    /\ clock < Horizon
    /\ clock' = clock + 1
    /\ UNCHANGED <<rowVars, requestVars, observerVars>>

\* The observer begins a new window, at any time.
Observe ==
    /\ since' = clock
    /\ guesses' = 0
    /\ UNCHANGED <<clock, rowVars, requestVars, proved>>

Step(r) ==
    \/ SetupLoad(r) \/ VerifyLoad(r) \/ ActivateLoad(r) \/ DeactivateLoad(r)
    \/ \E s \in Secret : SetupCommit(r, s)
    \/ LockRow(r) \/ WrongCode(r) \/ RightCode(r)
    \/ Confirm(r) \/ Grant(r) \/ DeactivateCommit(r) \/ Refuse(r)

Next == (\E r \in Request : Step(r)) \/ Tick \/ Observe

Spec == Init /\ [][Next]_vars

----------------------------------------------------------------------------
(* Properties *)

TypeOK ==
    /\ clock \in Nat
    /\ secret \in Secret \cup {None}
    /\ confirmed \in BOOLEAN
    /\ attempts \in 0..(MaxAttempts - 1)
    /\ lockedUntil \in Nat
    /\ premium \in BOOLEAN
    /\ pc \in [Request -> {"idle", "setup", "lock_verify", "lock_activate", "check_verify",
                           "check_activate", "confirm", "grant", "deactivate"}]
    /\ seen \in [Request -> [attempts : 0..(MaxAttempts - 1), lockedUntil : Nat]]
    /\ proved \subseteq Secret
    /\ since \in 0..clock
    /\ guesses \in Nat

\* The lockout (totp.py, lines 31-37 and 40-49): in any LockDuration, unless a right
\* code comes in between, at most MaxAttempts wrong codes are evaluated, however
\* many requests try at once and whichever endpoint they use.
WrongCodesBounded == clock < since + LockDuration => guesses <= MaxAttempts

\* Once 2FA is on it is never off again: no setup that began before undoes it.
TotpStaysEnabled == [][totp_enabled => totp_enabled']_vars

\* Premium is granted only while 2FA is on (users.py, lines 35-50), although the
\* row is read before the lock, and premium set after a commit that gives it up.
PremiumNeedsTotp == [][~premium /\ premium' => totp_enabled]_vars

\* What models/user.py, lines 46-47, says: 2FA is on for a secret which has been
\* confirmed with a valid code.
EnabledMeansConfirmed == totp_enabled => secret \in proved
=============================================================================
