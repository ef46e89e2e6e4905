----------------------------- MODULE SessionSpec -----------------------------
(***************************************************************************)
(* What the sessions of a login are meant to be: each has one token that   *)
(* works, which is exchanged for a new one, until the session is closed    *)
(* for good.  Every request acts at one instant.                           *)
(***************************************************************************)
CONSTANTS Family, Token, None

VARIABLES
    current,  \* session -> the token that works, or None, for the sessions opened
    given     \* the tokens given out

Init == current = [f \in {} |-> None] /\ given = {}

Open(f, t) ==
    /\ f \notin DOMAIN current
    /\ t \notin given
    /\ current' = [g \in DOMAIN current \cup {f} |-> IF g = f THEN t ELSE current[g]]
    /\ given' = given \cup {t}

\* A token that was given out, and exchanged or revoked, never works again.
Rotate(f, t) ==
    /\ current[f] # None
    /\ t \notin given
    /\ current' = [current EXCEPT ![f] = t]
    /\ given' = given \cup {t}

Close(f) == current' = [current EXCEPT ![f] = None] /\ UNCHANGED given

Next ==
    \/ \E f \in Family, t \in Token : Open(f, t)
    \/ \E f \in DOMAIN current : Close(f) \/ \E t \in Token : Rotate(f, t)

Spec == Init /\ [][Next]_<<current, given>>
=============================================================================
