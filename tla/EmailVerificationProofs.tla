---------------------- MODULE EmailVerificationProofs ----------------------
(***************************************************************************)
(* Theorems about EmailVerification, for any number of requests and        *)
(* addresses.  Nothing is locked between the read and the write of a       *)
(* handler; what saves the properties is which columns each write touches  *)
(* (only verify_email writes email_verified, and hash and expiry are       *)
(* always written together) and that mails are sent after the commit.      *)
(***************************************************************************)
EXTENDS EmailVerification, TLAPS

\* A request under way is about an address, and past its insertion about an account.
AboutOK ==
    \A r \in Request :
        /\ pc[r] = "insert" => about[r] \in Email
        /\ pc[r] \in {"update", "verify", "send"} => about[r] \in users

\* Who is verified, or about to be, has opened a link of its mailbox in time.
Proven ==
    /\ \A e \in Email : verified[e] => mailbox[e] \cap opened # {}
    /\ \A r \in Request : pc[r] = "verify" => mailbox[about[r]] \cap opened # {}

\* What a request is about to mail has been stored.
SendsStored == \A r \in Request : pc[r] = "send" => r \in stored

\* Sessions are granted to verified addresses, and verification is final.
SessionsVerified == \A e \in session : verified[e]

\* The properties are inductive together with these facts.
IInv ==
    /\ TypeOK
    /\ AboutOK
    /\ Proven
    /\ SendsStored
    /\ SessionsVerified
    /\ NoDeadEnd
    /\ MailedIsStored

\* Initially there are no accounts.
LEMMA InitInv == Init => IInv
  BY VerificationAssumption
     DEF Init, IInv, TypeOK, AboutOK, Proven, SendsStored, SessionsVerified, NoDeadEnd,
         MailedIsStored

\* Every step keeps the types, and what requests are about.
LEMMA NextType == IInv /\ [Next]_vars => TypeOK' /\ AboutOK'
  <1> SUFFICES ASSUME IInv, [Next]_vars PROVE TypeOK' /\ AboutOK'
    OBVIOUS
  <1> USE VerificationAssumption DEF IInv, TypeOK, AboutOK
  <1>1. ASSUME NEW r \in Request, RegisterCommit(r) PROVE TypeOK' /\ AboutOK'
    BY <1>1 DEF RegisterCommit, Goto, SetNewToken
  <1>2. ASSUME NEW r \in Request, Send(r) PROVE TypeOK' /\ AboutOK'
    BY <1>2 DEF Send, Goto, rowVars, observerVars
  <1>3. ASSUME NEW r \in Request, SendFails(r) PROVE TypeOK' /\ AboutOK'
    BY <1>3 DEF SendFails, Goto, rowVars
  <1>4. ASSUME NEW r \in Request, ResendCommit(r) PROVE TypeOK' /\ AboutOK'
    BY <1>4 DEF ResendCommit, Goto, SetNewToken
  <1>5. ASSUME NEW r \in Request, VerifyCommit(r) PROVE TypeOK' /\ AboutOK'
    BY <1>5 DEF VerifyCommit, Goto, observerVars
  <1>6. ASSUME NEW r \in Request, Crash(r) PROVE TypeOK' /\ AboutOK'
    BY <1>6 DEF Crash, Goto, rowVars
  <1>7. ASSUME NEW r \in Request, NEW e \in Email, Register(r, e) PROVE TypeOK' /\ AboutOK'
    BY <1>7 DEF Register, Start, rowVars, observerVars
  <1>8. ASSUME NEW r \in Request, NEW e \in Email, Resend(r, e) PROVE TypeOK' /\ AboutOK'
    BY <1>8 DEF Resend, Start, rowVars, observerVars
  <1>9. ASSUME NEW r \in Request, NEW e \in Email, NEW t \in Request, VerifyEmail(r, e, t)
        PROVE TypeOK' /\ AboutOK'
    BY <1>9 DEF VerifyEmail, Start, rowVars
  <1>10. ASSUME NEW e \in Email, Login(e) PROVE TypeOK' /\ AboutOK'
    BY <1>10 DEF Login, rowVars, requestVars, observerVars
  <1>11. ASSUME NEW t \in Request, TokenExpires(t) PROVE TypeOK' /\ AboutOK'
    BY <1>11 DEF TokenExpires, rowVars, requestVars, observerVars
  <1>12. CASE UNCHANGED vars
    BY <1>12 DEF vars, rowVars, requestVars, observerVars
  <1> QED
    BY <1>1, <1>2, <1>3, <1>4, <1>5, <1>6, <1>7, <1>8, <1>9, <1>10, <1>11, <1>12 DEF Next

\* Every step that verifies, or is about to, or grants a session has its proof.
LEMMA NextProven == IInv /\ [Next]_vars => Proven' /\ SessionsVerified'
  <1> SUFFICES ASSUME IInv, [Next]_vars PROVE Proven' /\ SessionsVerified'
    OBVIOUS
  <1> USE VerificationAssumption DEF IInv, TypeOK, AboutOK, Proven, SessionsVerified
  <1>1. ASSUME NEW r \in Request, RegisterCommit(r) PROVE Proven' /\ SessionsVerified'
    BY <1>1 DEF RegisterCommit, Goto, SetNewToken
  <1>2. ASSUME NEW r \in Request, Send(r) PROVE Proven' /\ SessionsVerified'
    BY <1>2 DEF Send, Goto, rowVars, observerVars
  <1>3. ASSUME NEW r \in Request, SendFails(r) PROVE Proven' /\ SessionsVerified'
    BY <1>3 DEF SendFails, Goto, rowVars
  <1>4. ASSUME NEW r \in Request, ResendCommit(r) PROVE Proven' /\ SessionsVerified'
    BY <1>4 DEF ResendCommit, Goto, SetNewToken
  <1>5. ASSUME NEW r \in Request, VerifyCommit(r) PROVE Proven' /\ SessionsVerified'
    BY <1>5 DEF VerifyCommit, Goto, observerVars
  <1>6. ASSUME NEW r \in Request, Crash(r) PROVE Proven' /\ SessionsVerified'
    BY <1>6 DEF Crash, Goto, rowVars
  <1>7. ASSUME NEW r \in Request, NEW e \in Email, Register(r, e) PROVE Proven' /\ SessionsVerified'
    BY <1>7 DEF Register, Start, rowVars, observerVars
  <1>8. ASSUME NEW r \in Request, NEW e \in Email, Resend(r, e) PROVE Proven' /\ SessionsVerified'
    BY <1>8 DEF Resend, Start, rowVars, observerVars
  <1>9. ASSUME NEW r \in Request, NEW e \in Email, NEW t \in Request, VerifyEmail(r, e, t)
        PROVE Proven' /\ SessionsVerified'
    BY <1>9 DEF VerifyEmail, Start, rowVars
  <1>10. ASSUME NEW e \in Email, Login(e) PROVE Proven' /\ SessionsVerified'
    BY <1>10 DEF Login, rowVars, requestVars, observerVars
  <1>11. ASSUME NEW t \in Request, TokenExpires(t) PROVE Proven' /\ SessionsVerified'
    BY <1>11 DEF TokenExpires, rowVars, requestVars, observerVars
  <1>12. CASE UNCHANGED vars
    BY <1>12 DEF vars, rowVars, requestVars, observerVars
  <1> QED
    BY <1>1, <1>2, <1>3, <1>4, <1>5, <1>6, <1>7, <1>8, <1>9, <1>10, <1>11, <1>12 DEF Next

\* Every step mails only what is stored.
LEMMA NextStored == IInv /\ [Next]_vars => SendsStored' /\ MailedIsStored'
  <1> SUFFICES ASSUME IInv, [Next]_vars PROVE SendsStored' /\ MailedIsStored'
    OBVIOUS
  <1> USE VerificationAssumption DEF IInv, TypeOK, AboutOK, SendsStored, MailedIsStored
  <1>1. ASSUME NEW r \in Request, RegisterCommit(r) PROVE SendsStored' /\ MailedIsStored'
    BY <1>1 DEF RegisterCommit, Goto, SetNewToken
  <1>2. ASSUME NEW r \in Request, Send(r) PROVE SendsStored' /\ MailedIsStored'
    BY <1>2 DEF Send, Goto, rowVars, observerVars
  <1>3. ASSUME NEW r \in Request, SendFails(r) PROVE SendsStored' /\ MailedIsStored'
    BY <1>3 DEF SendFails, Goto, rowVars
  <1>4. ASSUME NEW r \in Request, ResendCommit(r) PROVE SendsStored' /\ MailedIsStored'
    BY <1>4 DEF ResendCommit, Goto, SetNewToken
  <1>5. ASSUME NEW r \in Request, VerifyCommit(r) PROVE SendsStored' /\ MailedIsStored'
    BY <1>5 DEF VerifyCommit, Goto, observerVars
  <1>6. ASSUME NEW r \in Request, Crash(r) PROVE SendsStored' /\ MailedIsStored'
    BY <1>6 DEF Crash, Goto, rowVars
  <1>7. ASSUME NEW r \in Request, NEW e \in Email, Register(r, e) PROVE SendsStored' /\ MailedIsStored'
    BY <1>7 DEF Register, Start, rowVars, observerVars
  <1>8. ASSUME NEW r \in Request, NEW e \in Email, Resend(r, e) PROVE SendsStored' /\ MailedIsStored'
    BY <1>8 DEF Resend, Start, rowVars, observerVars
  <1>9. ASSUME NEW r \in Request, NEW e \in Email, NEW t \in Request, VerifyEmail(r, e, t)
        PROVE SendsStored' /\ MailedIsStored'
    BY <1>9 DEF VerifyEmail, Start, rowVars
  <1>10. ASSUME NEW e \in Email, Login(e) PROVE SendsStored' /\ MailedIsStored'
    BY <1>10 DEF Login, rowVars, requestVars, observerVars
  <1>11. ASSUME NEW t \in Request, TokenExpires(t) PROVE SendsStored' /\ MailedIsStored'
    BY <1>11 DEF TokenExpires, rowVars, requestVars, observerVars
  <1>12. CASE UNCHANGED vars
    BY <1>12 DEF vars, rowVars, requestVars, observerVars
  <1> QED
    BY <1>1, <1>2, <1>3, <1>4, <1>5, <1>6, <1>7, <1>8, <1>9, <1>10, <1>11, <1>12 DEF Next

\* Every step leaves each unverified account a token that can reach it.
LEMMA NextNoDeadEnd == IInv /\ [Next]_vars => NoDeadEnd'
  <1> SUFFICES ASSUME IInv, [Next]_vars PROVE NoDeadEnd'
    OBVIOUS
  <1> USE VerificationAssumption DEF IInv, TypeOK, AboutOK, NoDeadEnd
  <1>1. ASSUME NEW r \in Request, RegisterCommit(r) PROVE NoDeadEnd'
    BY <1>1 DEF RegisterCommit, Goto, SetNewToken
  <1>2. ASSUME NEW r \in Request, Send(r) PROVE NoDeadEnd'
    BY <1>2 DEF Send, Goto, rowVars, observerVars
  <1>3. ASSUME NEW r \in Request, SendFails(r) PROVE NoDeadEnd'
    BY <1>3 DEF SendFails, Goto, rowVars
  <1>4. ASSUME NEW r \in Request, ResendCommit(r) PROVE NoDeadEnd'
    BY <1>4 DEF ResendCommit, Goto, SetNewToken
  <1>5. ASSUME NEW r \in Request, VerifyCommit(r) PROVE NoDeadEnd'
    BY <1>5 DEF VerifyCommit, Goto, observerVars
  <1>6. ASSUME NEW r \in Request, Crash(r) PROVE NoDeadEnd'
    BY <1>6 DEF Crash, Goto, rowVars
  <1>7. ASSUME NEW r \in Request, NEW e \in Email, Register(r, e) PROVE NoDeadEnd'
    BY <1>7 DEF Register, Start, rowVars, observerVars
  <1>8. ASSUME NEW r \in Request, NEW e \in Email, Resend(r, e) PROVE NoDeadEnd'
    BY <1>8 DEF Resend, Start, rowVars, observerVars
  <1>9. ASSUME NEW r \in Request, NEW e \in Email, NEW t \in Request, VerifyEmail(r, e, t)
        PROVE NoDeadEnd'
    BY <1>9 DEF VerifyEmail, Start, rowVars
  <1>10. ASSUME NEW e \in Email, Login(e) PROVE NoDeadEnd'
    BY <1>10 DEF Login, rowVars, requestVars, observerVars
  <1>11. ASSUME NEW t \in Request, TokenExpires(t) PROVE NoDeadEnd'
    BY <1>11 DEF TokenExpires, rowVars, requestVars, observerVars
  <1>12. CASE UNCHANGED vars
    BY <1>12 DEF vars, rowVars, requestVars, observerVars
  <1> QED
    BY <1>1, <1>2, <1>3, <1>4, <1>5, <1>6, <1>7, <1>8, <1>9, <1>10, <1>11, <1>12 DEF Next

\* Together: the invariant holds always.
LEMMA Invariance == Spec => []IInv
  <1>1. IInv /\ [Next]_vars => IInv'
    BY NextType, NextProven, NextStored, NextNoDeadEnd DEF IInv
  <1> QED BY InitInv, <1>1, PTL DEF Spec

\* The types of the rows, the requests and the mailboxes.
THEOREM TypeCorrect == Spec => []TypeOK
  <1>1. IInv => TypeOK
    BY DEF IInv
  <1> QED BY <1>1, Invariance, PTL

\* No verification of auth.py is ever undone by a resend that read the row before it.
THEOREM VerifiedSafe == Spec => VerifiedIsFinal
  <1>1. IInv /\ [Next]_vars => [\A e \in Email : verified[e] => verified'[e]]_vars
    BY DEF IInv, TypeOK, AboutOK, Next, vars, rowVars, requestVars, observerVars,
           RegisterCommit, Send, SendFails, ResendCommit, VerifyCommit, Crash, Register,
           Resend, VerifyEmail, Login, TokenExpires
  <1> QED BY <1>1, Invariance, PTL DEF Spec, VerifiedIsFinal

\* A session needs a link of the mailbox, opened in time.
THEOREM LoginSafe == Spec => []LoginNeedsMailbox
  <1>1. IInv => LoginNeedsMailbox
    BY DEF IInv, TypeOK, Proven, SessionsVerified, LoginNeedsMailbox
  <1> QED BY <1>1, Invariance, PTL

\* Every account that is not verified has a token that can still get it verified.
THEOREM WayOutSafe == Spec => []NoDeadEnd
  <1>1. IInv => NoDeadEnd
    BY DEF IInv
  <1> QED BY <1>1, Invariance, PTL

\* The mail goes out after the commit.
THEOREM MailSafe == Spec => []MailedIsStored
  <1>1. IInv => MailedIsStored
    BY DEF IInv
  <1> QED BY <1>1, Invariance, PTL
=============================================================================
