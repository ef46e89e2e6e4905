----------------------------- MODULE RateLimiter -----------------------------
(***************************************************************************)
(* The rate limiter of src/app/core/rate_limiter.py: the middleware that   *)
(* every covered request crosses (dispatch) and the Lua token bucket it    *)
(* runs in Redis.                                                          *)
(*                                                                         *)
(* The clock is read in the application (time.time(), line 174) BEFORE the *)
(* call is handed to the thread pool, and the script runs later: several   *)
(* stamped requests may be in flight and reach Redis in any order.  That   *)
(* gap is the reason for the two steps Arrive and RunScript.               *)
(*                                                                         *)
(* Units.  A level is measured in the time it takes to refill it: one      *)
(* token of tier t is TokenTime[t] ticks (12 s for "sensitive", 1 s for    *)
(* "general"), so every bucket gains one unit per tick and refill_rate     *)
(* never appears.  Float rounding is abstracted away.                      *)
(***************************************************************************)
EXTENDS Integers

CONSTANTS Request,      \* the requests that may be in flight together
          Host,         \* client addresses (request.client.host)
          User,         \* subjects of access tokens
          NoBearer,     \* no Authorization header, or one that does not decode
          Traffic,      \* the endpoints that requests are made to
          Capacity,     \* tier -> capacity, in units
          TokenTime,    \* tier -> units of one token
          MaxDelay,     \* longest wait between the stamp and the script
          Horizon       \* bound on the clock

Tier == {"sensitive", "general"}

\* _SENSITIVE_ENDPOINTS and _IP_ONLY_ENDPOINTS.  "api" stands for every other
\* path under the five covered prefixes, "static" for the paths left alone.
SensitiveEndpoint == {"login", "register", "2fa_setup"}
IpOnlyEndpoint == {"login", "register"}
Endpoint == SensitiveEndpoint \cup {"api", "static"}

ASSUME NamesAssumption ==
    /\ Traffic \subseteq Endpoint
    /\ NoBearer \notin User
    /\ Host # {}
    /\ Host \cap User = {}

ASSUME TierAssumption ==
    /\ Capacity \in [Tier -> Nat]
    /\ TokenTime \in [Tier -> Nat]
    /\ \A t \in Tier : 0 < TokenTime[t] /\ TokenTime[t] <= Capacity[t]

\* The stamp is never older than the time a bucket takes to fill (60 s in both
\* tiers of the code).
ASSUME DelayAssumption ==
    /\ MaxDelay \in Nat
    /\ Horizon \in Nat
    /\ \A t \in Tier : MaxDelay <= Capacity[t]

Message == [endpoint : Endpoint, bearer : User \cup {NoBearer}, host : Host]
Key == Tier \X (User \cup Host)

VARIABLES
    clock,       \* time.time(), in ticks; also the clock Redis expires keys by
    tokens,      \* key -> field `tokens` of the hash
    lastRefill,  \* key -> field `last_refill` of the hash
    expireAt,    \* key -> when the key expires; 0: never written, or lost
    inFlight,    \* the requests stamped and not yet answered
    req,         \* request -> the HTTP request
    stamp,       \* request -> the `now` it carries
    \* An observer (not in the code) watches one key, any of them, and notes what
    \* is admitted on it from the moment it opened its window.
    watched,     \* the key
    spent,       \* units admitted on it
    since,       \* its last_refill when the window was opened
    regress,     \* total distance its last_refill moved back
    attempts     \* units admitted to login and register from the address it names

bucketVars == <<tokens, lastRefill, expireAt>>
requestVars == <<inFlight, req, stamp>>
observerVars == <<watched, spent, since, regress, attempts>>
vars == <<clock, bucketVars, requestVars, observerVars>>

Min2(a, b) == IF a <= b THEN a ELSE b
Elapsed(from, to) == IF to > from THEN to - from ELSE 0

----------------------------------------------------------------------------
(* What the code decides before it calls Redis *)

TierOf(r) == CASE r.endpoint \in SensitiveEndpoint -> "sensitive"
               [] r.endpoint = "static" -> "none"
               [] OTHER -> "general"

\* Fault: the Bearer of a login is believed.
IdentityOf_TrustBearer(r) == IF r.bearer # NoBearer THEN r.bearer ELSE r.host

IdentityOf(r) ==
    IF r.bearer # NoBearer /\ r.endpoint \notin IpOnlyEndpoint
    THEN r.bearer
    ELSE r.host

KeyOf(r) == <<TierOf(r), IdentityOf(r)>>

----------------------------------------------------------------------------
(* The script *)

\* Faults: keys that live for the time of one fill, or of half a fill.
Ttl_OneFill(t) == Capacity[t]
Ttl_HalfFill(t) == Capacity[t] \div 2

\* ceil(capacity / refill_rate * 2)
Ttl(t) == 2 * Capacity[t]
Missing(k) == expireAt[k] <= clock

\* Fault: no min(capacity, ...).
Level_Uncapped(k, s) ==
    IF Missing(k)
    THEN Capacity[k[1]]
    ELSE tokens[k] + Elapsed(lastRefill[k], s)

\* The level a script that runs with stamp s finds on key k.
Level(k, s) ==
    IF Missing(k)
    THEN Capacity[k[1]]
    ELSE Min2(Capacity[k[1]], tokens[k] + Elapsed(lastRefill[k], s))

\* Fault: the level loses its fraction of a token.
Remaining_Truncated(k, s, cost) ==
    LET left == Level(k, s) - cost IN left - (left % TokenTime[k[1]])

\* The level the script writes back when it takes `cost` units.
Remaining(k, s, cost) == Level(k, s) - cost

----------------------------------------------------------------------------
NoRequest == [endpoint |-> "static", bearer |-> NoBearer, host |-> CHOOSE h \in Host : TRUE]

Init ==
    /\ clock = 0
    /\ tokens = [k \in Key |-> 0]
    /\ lastRefill = [k \in Key |-> 0]
    /\ expireAt = [k \in Key |-> 0]
    /\ inFlight = {}
    /\ req = [w \in Request |-> NoRequest]
    /\ stamp = [w \in Request |-> 0]
    /\ watched \in Key
    /\ spent = 0
    /\ since = 0
    /\ regress = 0
    /\ attempts = 0

\* dispatch up to run_in_threadpool: the request is stamped and queued.  (A path
\* without a tier is passed on and never comes near Redis.)
Arrive(w, m) ==
    /\ w \notin inFlight
    /\ TierOf(m) # "none"
    /\ inFlight' = inFlight \cup {w}
    /\ req' = [req EXCEPT ![w] = m]
    /\ stamp' = [stamp EXCEPT ![w] = clock]
    /\ UNCHANGED <<clock, bucketVars, observerVars>>

\* The request leaves the middleware, answered with 429 or handed to its handler.
Leave(w) ==
    /\ inFlight' = inFlight \ {w}
    /\ req' = [req EXCEPT ![w] = NoRequest]
    /\ stamp' = [stamp EXCEPT ![w] = 0]

Allowed(w) == Level(KeyOf(req[w]), stamp[w]) >= TokenTime[KeyOf(req[w])[1]]

\* The script in Redis, atomic.  HMSET writes both fields and EXPIRE restarts the
\* TTL on every run, also on a rejection.
RunScript(w) ==
    LET k == KeyOf(req[w])
        s == stamp[w]
        cost == IF Allowed(w) THEN TokenTime[k[1]] ELSE 0
    IN  /\ w \in inFlight
        /\ tokens' = [tokens EXCEPT ![k] = Remaining(k, s, cost)]
        /\ lastRefill' = [lastRefill EXCEPT ![k] = s]
        /\ expireAt' = [expireAt EXCEPT ![k] = clock + Ttl(k[1])]
        /\ spent' = IF k = watched THEN spent + cost ELSE spent
        /\ regress' = IF k = watched
                      THEN regress + Elapsed(s, lastRefill[k])
                      ELSE regress
        /\ attempts' = IF /\ watched = <<"sensitive", req[w].host>>
                          /\ req[w].endpoint \in IpOnlyEndpoint
                       THEN attempts + cost
                       ELSE attempts
        /\ Leave(w)
        /\ UNCHANGED <<clock, watched, since>>

\* except redis.RedisError: the request goes on to its handler, uncounted.  (An
\* error after the script has run leaves Redis as RunScript does.)
FailOpen(w) ==
    /\ w \in inFlight
    /\ Leave(w)
    /\ UNCHANGED <<clock, bucketVars, observerVars>>

----------------------------------------------------------------------------
(* The environment *)

OpenWindow ==
    /\ spent' = 0
    /\ since' = lastRefill[watched]
    /\ regress' = 0
    /\ attempts' = 0
    /\ UNCHANGED watched

\* The observer may open a new window at any moment.
Observe ==
    /\ OpenWindow
    /\ UNCHANGED <<clock, bucketVars, requestVars>>

Tick ==
    /\ clock < Horizon
    /\ \A w \in inFlight : clock < stamp[w] + MaxDelay
    /\ clock' = clock + 1
    /\ UNCHANGED <<bucketVars, requestVars, observerVars>>

\* Redis restarts without its keys (the service has no volume): the window, too,
\* starts anew.
RedisRestarts ==
    /\ tokens' = [k \in Key |-> 0]
    /\ expireAt' = [k \in Key |-> 0]
    /\ OpenWindow
    /\ UNCHANGED <<clock, lastRefill, requestVars>>

Next ==
    \/ \E w \in Request :
        \/ \E e \in Traffic, b \in User \cup {NoBearer}, h \in Host :
            Arrive(w, [endpoint |-> e, bearer |-> b, host |-> h])
        \/ RunScript(w)
        \/ FailOpen(w)
    \/ Tick
    \/ RedisRestarts
    \/ Observe

Spec == Init /\ [][Next]_vars

----------------------------------------------------------------------------
(* Properties *)

\* Types: the level of a bucket stays between empty and its capacity.
TypeOK ==
    /\ clock \in Nat
    /\ tokens \in [Key -> Nat]
    /\ \A k \in Key : tokens[k] <= Capacity[k[1]]
    /\ lastRefill \in [Key -> Nat]
    /\ expireAt \in [Key -> Nat]
    /\ inFlight \subseteq Request
    /\ req \in [Request -> Message]
    /\ \A w \in inFlight : TierOf(req[w]) \in Tier
    /\ stamp \in [Request -> Nat]
    /\ watched \in Key
    /\ spent \in Nat
    /\ since \in Nat
    /\ regress \in Nat
    /\ attempts \in Nat

\* What the watched key may have been charged since the window was opened.
Allowance == Capacity[watched[1]] + (lastRefill[watched] - since) + regress

\* The limit itself, on every key and over EVERY window: what a key is charged from
\* any moment on never exceeds one burst plus what refilled since - also across the
\* expiry of the key by EXPIRE.  The only slack is the distance last_refill was
\* moved BACK by scripts that ran with an older stamp than their predecessor (the
\* script writes last_refill = now unconditionally: that time is credited twice).
BudgetBound == spent + tokens[watched] <= Allowance

\* The same limit for the login and register attempts of one address, whatever
\* Bearer tokens its requests carry (the reason for _IP_ONLY_ENDPOINTS).
HostLoginBudget == attempts <= Allowance

\* EXPIRE never gives tokens away: a request that finds its key expired would have
\* found the bucket full had the key still been there.
ExpiryInvisible ==
    \A w \in inFlight :
        LET k == KeyOf(req[w])
        IN  expireAt[k] # 0 /\ Missing(k)
                => tokens[k] + Elapsed(lastRefill[k], stamp[w]) >= Capacity[k[1]]

\* Insisting while blocked does not prolong the block: a rejected request leaves
\* the bucket at least as full, for any later stamp, as it found it.
RejectionIsFree ==
    [][\A w \in inFlight :
        RunScript(w) /\ ~Allowed(w)
            => \A k \in Key, s \in clock..Horizon : Level(k, s) <= Level(k, s)']_vars
=============================================================================
