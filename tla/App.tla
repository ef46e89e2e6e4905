-------------------------------- MODULE App --------------------------------
(***************************************************************************)
(* A tab of the front-end: the screen it shows and whether it is signed    *)
(* in.  src/app/static/app.js, with the login of js/screen1-auth.js, the   *)
(* buttons of js/screen2-gate.js and js/app-state.js.  Screen3 adds the    *)
(* music screen.                                                           *)
(*                                                                         *)
(* Event handlers run to their first "await"; the rest runs when the       *)
(* answer is there, in any order.  Every fetch is a request in flight: it  *)
(* is sent, the server answers it at some instant, and its continuation    *)
(* runs later.  Registering, asking for another mail and the first step of *)
(* setting up TOTP change nothing here but the texts on their form.        *)
(***************************************************************************)
EXTENDS Naturals, FiniteSets

CONSTANTS
    Request,    \* fetches in flight at once
    None

VARIABLES
    gate,       \* server: the user is premium and has TOTP enabled
    flight,     \* the fetches
    view,       \* the view that is shown
    token,      \* appState.accessToken is not null
    sounding,   \* the audio element is not paused
    playing     \* isPlaying, what the player's button goes by

audioVars == <<sounding, playing>>
appVars == <<gate, flight, view, token, audioVars>>

Fetch(kind, on, signed) ==
    [kind |-> kind, on |-> on, signed |-> signed, status |-> "sent", version |-> 0, lists |-> {}]
Free == [Fetch("free", None, FALSE) EXCEPT !.status = "free"]

\* authFetch sends the token there is at this moment.
Signed(kind, on) == Fetch(kind, on, token)

\* trySilentRefresh, when the page has loaded.
AppInit ==
    /\ gate \in BOOLEAN
    /\ \E r \in Request :
        flight = [q \in Request |-> IF q = r THEN Fetch("refresh", None, FALSE) ELSE Free]
    /\ view = "loading"
    /\ token = FALSE
    /\ sounding = FALSE
    /\ playing = FALSE

Sends(r, fetch) ==
    /\ flight[r] = Free
    /\ flight' = [flight EXCEPT ![r] = fetch]

\* The continuation of r ends, or goes on with another fetch.
Becomes(r, fetch) == flight' = [flight EXCEPT ![r] = fetch]
Done(r) == Becomes(r, Free)

\* Fault: isPlaying is set by hand, the audio goes on.
Pause_OnlyTheButton == playing' = FALSE /\ UNCHANGED sounding

\* player.pause(), and its "pause" event
Pause == sounding' = FALSE /\ playing' = FALSE

\* showView; leaving the music screen pauses the player.
Show(v) ==
    /\ view' = v
    /\ IF v = "app" THEN UNCHANGED audioVars ELSE Pause

handleSessionExpired == token' = FALSE /\ Show("auth")

\* routeAfterAuth: the music screen, which then loads its lists, or the gate.
Route(r, qualifies, signed) ==
    IF qualifies
    THEN Show("app") /\ Becomes(r, Fetch("lists", None, signed))
    ELSE Show("gate") /\ Done(r)

----------------------------------------------------------------------------
(* The user *)

\* The button is disabled while a login is going on.
Login(r) ==
    /\ view = "auth"
    /\ \A q \in Request : flight[q].kind \notin {"login", "first"}
    /\ Sends(r, Fetch("login", None, FALSE))
    /\ UNCHANGED <<gate, view, token, audioVars>>

Logout(r) ==
    /\ view \in {"gate", "app"}
    /\ Sends(r, Fetch("logout", None, FALSE))
    /\ UNCHANGED <<gate, view, token, audioVars>>

BackToGate ==
    /\ view = "app"
    /\ Show("gate")
    /\ UNCHANGED <<gate, flight, token>>

\* refreshUserAndRoute, by the button "back to the app".
BackToApp(r) ==
    /\ view = "gate"
    /\ Sends(r, Signed("me", None))
    /\ UNCHANGED <<gate, view, token, audioVars>>

\* Confirming TOTP, activating or deactivating premium.
Update(r) ==
    /\ view = "gate"
    /\ Sends(r, Signed("update", None))
    /\ UNCHANGED <<gate, view, token, audioVars>>

----------------------------------------------------------------------------
(* The server *)

\* Premium or TOTP changes in another tab.
ToggleGate ==
    /\ gate' = ~gate
    /\ UNCHANGED <<flight, view, token, audioVars>>

Answer(r, status) ==
    /\ flight[r].status = "sent"
    /\ flight' = [flight EXCEPT ![r].status = status]
    /\ UNCHANGED <<view, token, audioVars>>

\* The handlers of auth.py; /auth/me says whether the user qualifies.
ServesAccount(r) ==
    /\ \/ flight[r].kind \in {"login", "refresh", "logout"} /\ Answer(r, "ok")
       \/ /\ flight[r].kind \in {"first", "me"} /\ flight[r].signed
          /\ Answer(r, IF gate THEN "ok" ELSE "gated")
    /\ UNCHANGED gate

\* The change is made, whether or not its answer arrives.
ServesUpdate(r) ==
    /\ flight[r].kind = "update" /\ flight[r].signed
    /\ gate' \in BOOLEAN
    /\ Answer(r, "ok") \/ Answer(r, "error")

\* The token is missing or has expired (get_current_user); or the request is refused,
\* or lost, or fails.
Refuses(r) ==
    /\ \/ flight[r].kind \notin {"login", "refresh", "logout"} /\ Answer(r, "401")
       \/ Answer(r, "error")
    /\ UNCHANGED gate

----------------------------------------------------------------------------
(* The continuations *)

\* A login goes on with /auth/me, and only then leaves the screen; if that fails, the
\* token stays.
ReceiveLogin(r) ==
    /\ flight[r].kind = "login"
    /\ \/ /\ flight[r].status = "ok"
          /\ token' = TRUE
          /\ Becomes(r, Fetch("first", None, TRUE))
       \/ /\ flight[r].status = "error"
          /\ Done(r)
          /\ UNCHANGED token
    /\ UNCHANGED <<gate, view, audioVars>>

ReceiveFirst(r) ==
    /\ flight[r].kind = "first"
    /\ \/ flight[r].status \in {"ok", "gated"} /\ Route(r, flight[r].status = "ok", token)
       \/ flight[r].status \in {"401", "error"} /\ Done(r) /\ UNCHANGED <<view, audioVars>>
    /\ UNCHANGED <<gate, token>>

\* Fault: the tab stays as it is when there is no session to take up.
ReceiveRefresh_StaysLoading(r) ==
    /\ flight[r].kind = "refresh"
    /\ \/ /\ flight[r].status = "ok"
          /\ token' = TRUE
          /\ Becomes(r, Fetch("me", None, TRUE))
       \/ /\ flight[r].status = "error"
          /\ Done(r)
          /\ UNCHANGED token
    /\ UNCHANGED <<gate, view, audioVars>>

ReceiveRefresh(r) ==
    /\ flight[r].kind = "refresh"
    /\ \/ /\ flight[r].status = "ok"
          /\ token' = TRUE
          /\ Becomes(r, Fetch("me", None, TRUE))
          /\ UNCHANGED <<view, audioVars>>
       \/ /\ flight[r].status = "error"
          /\ Show("auth")
          /\ Done(r)
          /\ UNCHANGED token
    /\ UNCHANGED gate

\* The rest of refreshUserAndRoute.
ReceiveMe(r) ==
    /\ flight[r].kind = "me"
    /\ \/ /\ flight[r].status \in {"ok", "gated"}
          /\ Route(r, flight[r].status = "ok", token)
          /\ UNCHANGED token
       \/ /\ flight[r].status \in {"401", "error"}
          /\ handleSessionExpired
          /\ Done(r)
    /\ UNCHANGED gate

ReceiveLogout(r) ==
    /\ flight[r].kind = "logout" /\ flight[r].status \in {"ok", "error"}
    /\ handleSessionExpired
    /\ Done(r)
    /\ UNCHANGED gate

\* onUserUpdated; an error is only shown.
ReceiveUpdate(r) ==
    /\ flight[r].kind = "update"
    /\ \/ flight[r].status = "ok" /\ Becomes(r, Signed("me", None))
       \/ flight[r].status \in {"401", "error"} /\ Done(r)
    /\ UNCHANGED <<gate, view, token, audioVars>>

AppNext ==
    \/ BackToGate \/ ToggleGate
    \/ \E r \in Request :
        \/ Login(r) \/ Logout(r) \/ BackToApp(r) \/ Update(r)
        \/ ServesAccount(r) \/ ServesUpdate(r) \/ Refuses(r)
        \/ ReceiveLogin(r) \/ ReceiveFirst(r) \/ ReceiveRefresh(r)
        \/ ReceiveMe(r) \/ ReceiveLogout(r) \/ ReceiveUpdate(r)
=============================================================================
