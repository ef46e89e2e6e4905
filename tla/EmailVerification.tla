------------------------- MODULE EmailVerification -------------------------
(***************************************************************************)
(* Registration and the verification of the email address: register,       *)
(* verify_email and _process_resend_verification of src/app/api/auth.py,   *)
(* and the gate of login.                                                  *)
(*                                                                         *)
(* A request is one execution of a handler, or of the background task of   *)
(* resend-verification; the token a request generates is named after the   *)
(* request.  Each handler reads the row in one statement and writes it in  *)
(* a later one, with nothing locked in between, and mails after the        *)
(* commit.  SQLAlchemy writes only the columns that the handler assigned.  *)
(***************************************************************************)
EXTENDS Naturals, FiniteSets

CONSTANTS
    Request,
    Email,
    None

ASSUME VerificationAssumption == None \notin Request

VARIABLES
    users,      \* the addresses that have a row
    verified,   \* email_verified
    hash,       \* email_verification_token_hash: the token whose hash it is
    expires,    \* email_verification_token_expires_at: the token it was set for
    pc,         \* where each request is
    about,      \* the address each request is about
    mailbox,    \* the links that have reached each address
    expired,    \* the tokens whose time is over
    session,    \* the addresses somebody has logged in with
    stored,     \* the tokens that a commit has stored: an observer
    lost,       \* the tokens whose mail will never be sent: an observer
    opened      \* the tokens that were presented in time: an observer

rowVars == <<users, verified, hash, expires>>
requestVars == <<pc, about>>
observerVars == <<stored, lost, opened>>
vars == <<rowVars, requestVars, mailbox, expired, session, observerVars>>

Init ==
    /\ users = {}
    /\ verified = [e \in Email |-> FALSE]
    /\ hash = [e \in Email |-> None]
    /\ expires = [e \in Email |-> None]
    /\ pc = [r \in Request |-> "new"]
    /\ about = [r \in Request |-> None]
    /\ mailbox = [e \in Email |-> {}]
    /\ expired = {}
    /\ session = {}
    /\ stored = {}
    /\ lost = {}
    /\ opened = {}

Goto(r, place) ==
    /\ pc' = [pc EXCEPT ![r] = place]
    /\ about' = IF place = "done" THEN [about EXCEPT ![r] = None] ELSE about

Start(r, e, place) ==
    /\ pc[r] = "new"
    /\ pc' = [pc EXCEPT ![r] = place]
    /\ about' = [about EXCEPT ![r] = e]

\* _set_new_verification_token
SetNewToken(e, r) ==
    /\ hash' = [hash EXCEPT ![e] = r]
    /\ expires' = [expires EXCEPT ![e] = r]
    /\ stored' = stored \cup {r}

----------------------------------------------------------------------------
(* register *)

\* The quick look for an account of that address: 409 if there is one.
Register(r, e) ==
    /\ e \notin users
    /\ Start(r, e, "insert")
    /\ UNCHANGED <<rowVars, mailbox, expired, session, observerVars>>

\* Fault: the commit is forgotten.
RegisterCommit_Forgotten(r) ==
    /\ pc[r] = "insert"
    /\ Goto(r, "send")
    /\ UNCHANGED <<rowVars, mailbox, expired, session, observerVars>>

\* The INSERT; 409 if another request has inserted the address (IntegrityError).
RegisterCommit(r) ==
    LET e == about[r]
    IN  /\ pc[r] = "insert"
        /\ \/ /\ e \notin users
              /\ users' = users \cup {e}
              /\ SetNewToken(e, r)
              /\ Goto(r, "send")
           \/ /\ e \in users
              /\ Goto(r, "done")
              /\ UNCHANGED <<users, hash, expires, stored>>
        /\ UNCHANGED <<verified, mailbox, expired, session, lost, opened>>

\* send_verification_email, which never raises ...
Send(r) ==
    /\ pc[r] = "send"
    /\ mailbox' = [mailbox EXCEPT ![about[r]] = @ \cup {r}]
    /\ Goto(r, "done")
    /\ UNCHANGED <<rowVars, expired, session, observerVars>>

\* ... and tells nobody when it fails.  (A mail that the server took before the error
\* is a Send.)
SendFails(r) ==
    /\ pc[r] = "send"
    /\ lost' = lost \cup {r}
    /\ Goto(r, "done")
    /\ UNCHANGED <<rowVars, mailbox, expired, session, stored, opened>>

----------------------------------------------------------------------------
(* _process_resend_verification *)

\* Fault: the mail goes out before the commit.
Resend_MailsFirst(r, e) ==
    /\ e \in users /\ ~verified[e]
    /\ Start(r, e, "update")
    /\ mailbox' = [mailbox EXCEPT ![e] = @ \cup {r}]
    /\ UNCHANGED <<rowVars, expired, session, observerVars>>

\* Nothing is done for an address without an account, or verified.
Resend(r, e) ==
    /\ e \in users /\ ~verified[e]
    /\ Start(r, e, "update")
    /\ UNCHANGED <<rowVars, mailbox, expired, session, observerVars>>

\* Fault: the whole row is written back as it was read.
ResendCommit_WholeRow(r) ==
    LET e == about[r]
    IN  /\ pc[r] = "update"
        /\ SetNewToken(e, r)
        /\ verified' = [verified EXCEPT ![e] = FALSE]
        /\ Goto(r, "send")
        /\ UNCHANGED <<users, mailbox, expired, session, lost, opened>>

\* The token, whatever has become of the row since it was read.
ResendCommit(r) ==
    /\ pc[r] = "update"
    /\ SetNewToken(about[r], r)
    /\ Goto(r, "send")
    /\ UNCHANGED <<users, verified, mailbox, expired, session, lost, opened>>

----------------------------------------------------------------------------
(* verify_email and login *)

\* Fault: the time of the token is not looked at.
VerifyEmail_Anytime(r, e, t) ==
    /\ t \in mailbox[e]
    /\ hash[e] = t
    /\ Start(r, e, "verify")
    /\ opened' = IF t \in expired THEN opened ELSE opened \cup {t}
    /\ UNCHANGED <<rowVars, mailbox, expired, session, stored, lost>>

\* Someone opens a link of the mailbox, perhaps not for the first time.  The row is
\* found by the hash; an unknown or expired token gets the error page.
VerifyEmail(r, e, t) ==
    /\ t \in mailbox[e]
    /\ hash[e] = t
    /\ expires[e] \notin expired
    /\ Start(r, e, "verify")
    /\ opened' = opened \cup {t}
    /\ UNCHANGED <<rowVars, mailbox, expired, session, stored, lost>>

\* Fault: the token is used up in a commit of its own, and the flag is set later.
VerifyCommit_TokenFirst(r) ==
    LET e == about[r]
    IN  /\ pc[r] = "verify"
        /\ hash' = [hash EXCEPT ![e] = None]
        /\ expires' = [expires EXCEPT ![e] = None]
        /\ verified' = [verified EXCEPT ![e] = (hash[e] = None)]
        /\ Goto(r, IF hash[e] = None THEN "done" ELSE "verify")
        /\ UNCHANGED <<users, mailbox, expired, session, observerVars>>

VerifyCommit(r) ==
    LET e == about[r]
    IN  /\ pc[r] = "verify"
        /\ verified' = [verified EXCEPT ![e] = TRUE]
        /\ hash' = [hash EXCEPT ![e] = None]
        /\ expires' = [expires EXCEPT ![e] = None]
        /\ Goto(r, "done")
        /\ UNCHANGED <<users, mailbox, expired, session, observerVars>>

\* With the right password: 403 unless the address is verified.
Login(e) ==
    /\ e \in users
    /\ verified[e]
    /\ session' = session \cup {e}
    /\ UNCHANGED <<rowVars, requestVars, mailbox, expired, observerVars>>

----------------------------------------------------------------------------

TokenExpires(t) ==
    /\ t \in stored \ expired
    /\ expired' = expired \cup {t}
    /\ UNCHANGED <<rowVars, requestVars, mailbox, session, observerVars>>

\* The process of the request dies: nothing is committed, nothing is mailed.
Crash(r) ==
    /\ pc[r] \notin {"new", "done"}
    /\ lost' = IF pc[r] = "send" THEN lost \cup {r} ELSE lost
    /\ Goto(r, "done")
    /\ UNCHANGED <<rowVars, mailbox, expired, session, stored, opened>>

Next ==
    \/ \E r \in Request :
        \/ RegisterCommit(r) \/ Send(r) \/ SendFails(r)
        \/ ResendCommit(r) \/ VerifyCommit(r) \/ Crash(r)
        \/ \E e \in Email :
            \/ Register(r, e) \/ Resend(r, e)
            \/ \E t \in Request : VerifyEmail(r, e, t)
    \/ \E e \in Email : Login(e)
    \/ \E t \in Request : TokenExpires(t)

Spec == Init /\ [][Next]_vars

----------------------------------------------------------------------------
(* Properties *)

TypeOK ==
    /\ users \subseteq Email
    /\ verified \in [Email -> BOOLEAN]
    /\ hash \in [Email -> Request \cup {None}]
    /\ expires \in [Email -> Request \cup {None}]
    /\ pc \in [Request -> {"new", "insert", "update", "verify", "send", "done"}]
    /\ about \in [Request -> Email \cup {None}]
    /\ mailbox \in [Email -> SUBSET Request]
    /\ session \subseteq users
    /\ UNION {expired, stored, lost, opened} \subseteq Request
    /\ \A e \in Email \ users : hash[e] = None /\ ~verified[e] /\ mailbox[e] = {}

\* However registrations, resends and verifications of one address overlap, an
\* address that is verified stays so: a session that was granted stays justified.
VerifiedIsFinal == [][\A e \in Email : verified[e] => verified'[e]]_vars

\* Nobody logs in with an address unless a link that was mailed to that address was
\* opened before the time of its token was over.
LoginNeedsMailbox == \A e \in session : mailbox[e] \cap opened # {}

\* There is a way out for every account that is not verified: its token has been
\* mailed, or is about to be, or its mail was lost and it takes a resend; and the
\* expiry in the row is that of its own token.
NoDeadEnd ==
    \A e \in users :
        /\ expires[e] = hash[e]
        /\ ~verified[e] => /\ hash[e] # None
                           /\ \/ hash[e] \in mailbox[e] \cup lost
                              \/ pc[hash[e]] = "send" /\ about[hash[e]] = e

\* No link is mailed that the row has never known.
MailedIsStored == \A e \in Email : mailbox[e] \subseteq stored
=============================================================================
