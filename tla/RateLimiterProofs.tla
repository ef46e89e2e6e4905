-------------------------- MODULE RateLimiterProofs --------------------------
(***************************************************************************)
(* The properties of RateLimiter for every set of clients, every capacity  *)
(* and token time, and every horizon.  The argument: the level the script  *)
(* stores plus what has been charged in the window is a potential; it is   *)
(* raised only by time (last_refill moving forward), so it stays below one *)
(* burst plus the time elapsed - plus, when a script carries an older      *)
(* stamp than its predecessor, the time it will credit a second time.  An  *)
(* expired key resets the level to full, which is only harmless because    *)
(* the TTL is twice the time a bucket needs to fill and a stamp is at most *)
(* one such time old (ExpiryInvisible).                                    *)
(***************************************************************************)
EXTENDS RateLimiter, TLAPS

----------------------------------------------------------------------------
(* The constants and the operators *)

\* What the assumptions say of the tier of a key.
LEMMA KeyFacts ==
    ASSUME NEW k \in Key
    PROVE  /\ k[1] \in Tier
           /\ Capacity[k[1]] \in Nat
           /\ TokenTime[k[1]] \in Nat
           /\ 0 < TokenTime[k[1]]
           /\ TokenTime[k[1]] <= Capacity[k[1]]
           /\ MaxDelay <= Capacity[k[1]]
BY TierAssumption, DelayAssumption DEF Key

\* A request that has a tier has a key, in that tier; a login or registration has
\* the key of its address.
LEMMA KeyOfFacts ==
    ASSUME NEW m \in Message, TierOf(m) \in Tier
    PROVE  /\ KeyOf(m) \in Key
           /\ m.endpoint \in IpOnlyEndpoint => KeyOf(m) = <<"sensitive", m.host>>
<1>1. IdentityOf(m) \in User \cup Host
    BY DEF IdentityOf, Message
<1>2. m.endpoint \in IpOnlyEndpoint => IdentityOf(m) = m.host /\ TierOf(m) = "sensitive"
    BY DEF IdentityOf, TierOf, IpOnlyEndpoint, SensitiveEndpoint
<1>3. QED
    BY <1>1, <1>2 DEF KeyOf, Key

LEMMA NoRequestIsMessage == NoRequest \in Message
BY NamesAssumption DEF NoRequest, Message, Endpoint

----------------------------------------------------------------------------
(* The inductive invariant *)

\* A stamp is not in the future and not older than MaxDelay, and last_refill is
\* some stamp.
StampsRecent ==
    /\ \A k \in Key : lastRefill[k] <= clock
    /\ \A w \in inFlight : stamp[w] <= clock /\ clock <= stamp[w] + MaxDelay

\* A key outlives its last write by two fills.
TtlCovers ==
    \A k \in Key : expireAt[k] # 0 => lastRefill[k] + 2 * Capacity[k[1]] <= expireAt[k]

\* Nothing has been charged on a key that was never written.
FreshWindow ==
    expireAt[watched] = 0 =>
        /\ spent = 0
        /\ tokens[watched] = 0
        /\ since = lastRefill[watched]
        /\ regress = 0

IInv ==
    /\ TypeOK
    /\ StampsRecent
    /\ TtlCovers
    /\ FreshWindow
    /\ attempts <= spent
    /\ BudgetBound

\* Initially nothing was charged.
LEMMA InitIInv == Init => IInv
<1> SUFFICES ASSUME Init PROVE IInv
    OBVIOUS
<1>1. TypeOK
    BY NoRequestIsMessage, TierAssumption, KeyFacts DEF Init, TypeOK
<1>2. StampsRecent /\ TtlCovers /\ FreshWindow /\ attempts <= spent
    BY DEF Init, StampsRecent, TtlCovers, FreshWindow
<1>3. BudgetBound
    BY KeyFacts DEF Init, BudgetBound, Allowance
<1>4. QED
    BY <1>1, <1>2, <1>3 DEF IInv

\* The level found by a script is at most a full bucket.
LEMMA LevelFacts ==
    ASSUME TypeOK, NEW k \in Key, NEW s \in Nat
    PROVE  /\ Level(k, s) \in Nat
           /\ Level(k, s) <= Capacity[k[1]]
BY KeyFacts DEF TypeOK, Level, Min2, Elapsed

\* A stamped request that finds its key gone would have found the bucket full.
LEMMA ExpiryFacts ==
    ASSUME IInv
    PROVE  ExpiryInvisible
<1> SUFFICES ASSUME NEW w \in inFlight, NEW k \in Key, k = KeyOf(req[w]),
                    expireAt[k] # 0, Missing(k)
             PROVE  tokens[k] + Elapsed(lastRefill[k], stamp[w]) >= Capacity[k[1]]
    BY KeyOfFacts DEF ExpiryInvisible, IInv, TypeOK
<1>1. lastRefill[k] + 2 * Capacity[k[1]] <= clock
    BY KeyFacts DEF IInv, TypeOK, TtlCovers, Missing
<1>2. clock <= stamp[w] + Capacity[k[1]]
    BY KeyFacts, DelayAssumption DEF IInv, TypeOK, StampsRecent
<1>3. QED
    BY <1>1, <1>2, KeyFacts DEF IInv, TypeOK, Elapsed

\* One run of the script raises the potential by no more than it moves last_refill
\* forward, or will credit again when it moves it back.
LEMMA ScriptPotential ==
    ASSUME IInv, NEW w \in inFlight, NEW k \in Key, k = KeyOf(req[w])
    PROVE  k = watched =>
             spent + Level(k, stamp[w])
               <= Capacity[k[1]] + (stamp[w] - since)
                    + (regress + Elapsed(stamp[w], lastRefill[k]))
<1> SUFFICES ASSUME k = watched
             PROVE  spent + Level(k, stamp[w])
                      <= Capacity[k[1]] + (stamp[w] - since)
                           + (regress + Elapsed(stamp[w], lastRefill[k]))
    OBVIOUS
<1>t. /\ spent \in Nat /\ since \in Nat /\ regress \in Nat /\ stamp[w] \in Nat
      /\ tokens[k] \in Nat /\ lastRefill[k] \in Nat /\ expireAt[k] \in Nat
      /\ Capacity[k[1]] \in Nat
    BY KeyFacts DEF IInv, TypeOK
<1>b. spent + tokens[k] <= Capacity[k[1]] + (lastRefill[k] - since) + regress
    BY DEF IInv, BudgetBound, Allowance
<1>1. CASE ~Missing(k)
    BY <1>1, <1>t, <1>b DEF Level, Min2, Elapsed
<1>2. CASE Missing(k) /\ expireAt[k] = 0
    BY <1>2, <1>t DEF IInv, FreshWindow, Level, Elapsed
<1>3. CASE Missing(k) /\ expireAt[k] # 0
    <2>1. tokens[k] + Elapsed(lastRefill[k], stamp[w]) >= Capacity[k[1]]
        BY <1>3, ExpiryFacts DEF ExpiryInvisible
    <2>2. Level(k, stamp[w]) = Capacity[k[1]]
        BY <1>3 DEF Level
    <2>3. QED
        BY <2>1, <2>2, <1>t, <1>b DEF Elapsed
<1>4. QED
    BY <1>1, <1>2, <1>3

----------------------------------------------------------------------------
(* Every action preserves it *)

LEMMA ArriveIInv ==
    ASSUME IInv, NEW w \in Request, NEW m \in Message, Arrive(w, m)
    PROVE  IInv'
<1>1. TierOf(m) \in Tier
    BY DEF Arrive, TierOf, Tier
<1>2. TypeOK'
    BY <1>1 DEF IInv, TypeOK, Arrive, bucketVars, observerVars
<1>3. StampsRecent'
    BY DelayAssumption DEF IInv, TypeOK, StampsRecent, Arrive, bucketVars
<1>4. (TtlCovers /\ FreshWindow /\ attempts <= spent /\ BudgetBound)'
    BY DEF IInv, TtlCovers, FreshWindow, BudgetBound, Allowance, Arrive, bucketVars,
           observerVars
<1>5. QED
    BY <1>2, <1>3, <1>4 DEF IInv

LEMMA FailOpenIInv ==
    ASSUME IInv, NEW w \in Request, FailOpen(w)
    PROVE  IInv'
<1>1. TypeOK'
    BY NoRequestIsMessage DEF IInv, TypeOK, FailOpen, Leave, bucketVars, observerVars
<1>2. StampsRecent'
    BY DEF IInv, TypeOK, StampsRecent, FailOpen, Leave, bucketVars
<1>3. (TtlCovers /\ FreshWindow /\ attempts <= spent /\ BudgetBound)'
    BY DEF IInv, TtlCovers, FreshWindow, BudgetBound, Allowance, FailOpen, Leave,
           bucketVars, observerVars
<1>4. QED
    BY <1>1, <1>2, <1>3 DEF IInv

LEMMA RunScriptIInv ==
    ASSUME IInv, NEW w \in Request, RunScript(w)
    PROVE  IInv'
<1> DEFINE k == KeyOf(req[w])
           s == stamp[w]
           cost == IF Allowed(w) THEN TokenTime[k[1]] ELSE 0
<1>1. w \in inFlight /\ k \in Key /\ s \in Nat /\ s <= clock
    BY KeyOfFacts DEF IInv, TypeOK, StampsRecent, RunScript
<1>2. /\ Level(k, s) \in Nat /\ Level(k, s) <= Capacity[k[1]]
      /\ cost \in Nat /\ cost <= Level(k, s)
    <2>1. TypeOK
        BY DEF IInv
    <2>2. Level(k, s) \in Nat /\ Level(k, s) <= Capacity[k[1]]
        BY <1>1, <2>1, LevelFacts
    <2>3. TokenTime[k[1]] \in Nat
        BY <1>1, KeyFacts
    <2>4. QED
        BY <2>2, <2>3 DEF Allowed
<1>3. /\ tokens' = [tokens EXCEPT ![k] = Level(k, s) - cost]
      /\ lastRefill' = [lastRefill EXCEPT ![k] = s]
      /\ expireAt' = [expireAt EXCEPT ![k] = clock + 2 * Capacity[k[1]]]
      /\ spent' = IF k = watched THEN spent + cost ELSE spent
      /\ regress' = IF k = watched
                    THEN regress + Elapsed(s, lastRefill[k])
                    ELSE regress
      /\ attempts' = IF /\ watched = <<"sensitive", req[w].host>>
                        /\ req[w].endpoint \in IpOnlyEndpoint
                     THEN attempts + cost
                     ELSE attempts
      /\ inFlight' = inFlight \ {w}
      /\ req' = [req EXCEPT ![w] = NoRequest]
      /\ stamp' = [stamp EXCEPT ![w] = 0]
      /\ UNCHANGED <<clock, watched, since>>
    BY DEF RunScript, Leave, Remaining, Ttl
<1>c. Capacity[k[1]] \in Nat /\ Capacity[k[1]] > 0
    BY <1>1, KeyFacts
<1>t. TypeOK
    BY DEF IInv
<1> HIDE DEF k, s, cost
<1>4. TypeOK'
    <2>1. tokens' \in [Key -> Nat] /\ (\A j \in Key : tokens'[j] <= Capacity[j[1]])
        BY <1>t, <1>1, <1>2, <1>3, KeyFacts DEF TypeOK
    <2>2. lastRefill' \in [Key -> Nat] /\ expireAt' \in [Key -> Nat]
        BY <1>t, <1>1, <1>3, <1>c DEF TypeOK
    <2>3. spent' \in Nat /\ regress' \in Nat /\ attempts' \in Nat
        BY <1>t, <1>1, <1>2, <1>3 DEF TypeOK, Elapsed
    <2>4. /\ inFlight' \subseteq Request /\ req' \in [Request -> Message]
          /\ stamp' \in [Request -> Nat]
          /\ \A v \in inFlight' : TierOf(req'[v]) \in Tier
        BY <1>t, <1>3, NoRequestIsMessage DEF TypeOK
    <2>5. QED
        BY <2>1, <2>2, <2>3, <2>4, <1>t, <1>3 DEF TypeOK, TierOf
<1>5. StampsRecent'
    BY <1>t, <1>1, <1>3 DEF IInv, TypeOK, StampsRecent
<1>6. TtlCovers'
    BY <1>t, <1>1, <1>3, <1>c DEF IInv, TypeOK, TtlCovers
<1>7. FreshWindow'
    <2>1. expireAt'[k] # 0
        BY <1>t, <1>1, <1>3, <1>c DEF TypeOK
    <2>2. k # watched => UNCHANGED <<spent, regress, tokens[watched],
                                     lastRefill[watched], expireAt[watched]>>
        BY <1>t, <1>1, <1>3 DEF TypeOK
    <2>3. QED
        BY <2>1, <2>2, <1>3 DEF IInv, FreshWindow
<1>8. (attempts <= spent)'
    <2>1. watched = <<"sensitive", req[w].host>> /\ req[w].endpoint \in IpOnlyEndpoint
            => k = watched
        BY <1>t, <1>1, KeyOfFacts DEF TypeOK, k
    <2>2. QED
        BY <2>1, <1>t, <1>2, <1>3 DEF IInv, TypeOK
<1>9. BudgetBound'
    <2>1. CASE k = watched
        <3>1. spent + Level(k, s) <= Capacity[k[1]] + (s - since)
                                       + (regress + Elapsed(s, lastRefill[k]))
            BY <1>1, <2>1, ScriptPotential DEF k, s
        <3>2. /\ spent' = spent + cost /\ tokens'[watched] = Level(k, s) - cost
              /\ lastRefill'[watched] = s /\ since' = since /\ watched' = watched
              /\ regress' = regress + Elapsed(s, lastRefill[k])
            BY <2>1, <1>t, <1>1, <1>3 DEF TypeOK
        <3>3. /\ spent \in Nat /\ since \in Nat /\ regress \in Nat
              /\ Elapsed(s, lastRefill[k]) \in Nat
            BY <1>t, <1>1 DEF TypeOK, Elapsed
        <3>4. QED
            BY <3>1, <3>2, <3>3, <2>1, <1>1, <1>2, <1>c DEF BudgetBound, Allowance
    <2>2. CASE k # watched
        BY <2>2, <1>t, <1>1, <1>3 DEF IInv, TypeOK, BudgetBound, Allowance
    <2>3. QED
        BY <2>1, <2>2
<1>10. QED
    BY <1>4, <1>5, <1>6, <1>7, <1>8, <1>9 DEF IInv

LEMMA TickIInv ==
    ASSUME IInv, Tick
    PROVE  IInv'
<1>1. TypeOK'
    BY DEF IInv, TypeOK, Tick, bucketVars, requestVars, observerVars
<1>2. StampsRecent'
    BY DelayAssumption DEF IInv, TypeOK, StampsRecent, Tick, bucketVars, requestVars
<1>3. (TtlCovers /\ FreshWindow /\ attempts <= spent /\ BudgetBound)'
    BY DEF IInv, TtlCovers, FreshWindow, BudgetBound, Allowance, Tick, bucketVars,
           observerVars
<1>4. QED
    BY <1>1, <1>2, <1>3 DEF IInv

LEMMA RestartIInv ==
    ASSUME IInv, RedisRestarts
    PROVE  IInv'
<1>1. TypeOK'
    BY KeyFacts DEF IInv, TypeOK, RedisRestarts, OpenWindow, requestVars
<1>2. StampsRecent'
    BY DEF IInv, TypeOK, StampsRecent, RedisRestarts, requestVars
<1>3. (TtlCovers /\ FreshWindow /\ attempts <= spent)'
    BY DEF IInv, TypeOK, TtlCovers, FreshWindow, RedisRestarts, OpenWindow
<1>4. BudgetBound'
    BY KeyFacts DEF IInv, TypeOK, BudgetBound, Allowance, RedisRestarts, OpenWindow
<1>5. QED
    BY <1>1, <1>2, <1>3, <1>4 DEF IInv

LEMMA ObserveIInv ==
    ASSUME IInv, Observe
    PROVE  IInv'
<1>1. TypeOK'
    BY DEF IInv, TypeOK, Observe, OpenWindow, bucketVars, requestVars
<1>2. (StampsRecent /\ TtlCovers)'
    BY DEF IInv, StampsRecent, TtlCovers, Observe, bucketVars, requestVars
<1>3. (FreshWindow /\ attempts <= spent)'
    BY DEF IInv, TypeOK, FreshWindow, Observe, OpenWindow, bucketVars
<1>4. BudgetBound'
    BY KeyFacts DEF IInv, TypeOK, BudgetBound, Allowance, Observe, OpenWindow, bucketVars
<1>5. QED
    BY <1>1, <1>2, <1>3, <1>4 DEF IInv

LEMMA StutterIInv == IInv /\ UNCHANGED vars => IInv'
BY DEF IInv, TypeOK, StampsRecent, TtlCovers, FreshWindow, BudgetBound, Allowance, vars,
       bucketVars, requestVars, observerVars

LEMMA NextIInv == IInv /\ [Next]_vars => IInv'
<1> SUFFICES ASSUME IInv, [Next]_vars PROVE IInv'
    OBVIOUS
<1>1. ASSUME NEW w \in Request, NEW e \in Traffic, NEW b \in User \cup {NoBearer},
             NEW h \in Host, Arrive(w, [endpoint |-> e, bearer |-> b, host |-> h])
      PROVE  IInv'
    <2>1. [endpoint |-> e, bearer |-> b, host |-> h] \in Message
        BY NamesAssumption DEF Message
    <2>2. QED
        BY <1>1, <2>1, ArriveIInv
<1>2. QED
    BY <1>1, RunScriptIInv, FailOpenIInv, TickIInv, RestartIInv, ObserveIInv, StutterIInv
    DEF Next

LEMMA SpecIInv == Spec => []IInv
BY InitIInv, NextIInv, PTL DEF Spec

----------------------------------------------------------------------------
(* The theorems *)

\* Every variable keeps its type, and a bucket never holds more than its capacity.
THEOREM TypeCorrect == Spec => []TypeOK
<1>1. IInv => TypeOK
    BY DEF IInv
<1>2. QED
    BY <1>1, SpecIInv, PTL

\* Over every window, a key is charged at most one burst plus the time elapsed (plus
\* the time that stale stamps credit twice), whatever the tiers' parameters are.
THEOREM BudgetSafe == Spec => []BudgetBound
<1>1. IInv => BudgetBound
    BY DEF IInv
<1>2. QED
    BY <1>1, SpecIInv, PTL

\* The login and register attempts of one address obey the same bound, with any
\* number of users and Bearer tokens.
THEOREM HostLoginSafe == Spec => []HostLoginBudget
<1>1. IInv => HostLoginBudget
    BY KeyFacts DEF IInv, TypeOK, BudgetBound, HostLoginBudget, Allowance
<1>2. QED
    BY <1>1, SpecIInv, PTL

\* The TTL the script sets is long enough to be invisible.
THEOREM ExpirySafe == Spec => []ExpiryInvisible
BY ExpiryFacts, SpecIInv, PTL

\* A rejection leaves every bucket at least as full, for every later stamp, as it
\* found it.
THEOREM RejectionSafe == Spec => RejectionIsFree
<1> DEFINE Free == \A w \in inFlight :
                      RunScript(w) /\ ~Allowed(w)
                        => \A k \in Key, s \in clock..Horizon : Level(k, s) <= Level(k, s)'
<1>1. IInv => Free
    <2> SUFFICES ASSUME IInv, NEW w \in inFlight, RunScript(w), ~Allowed(w),
                        NEW k \in Key, NEW s \in clock..Horizon
                 PROVE  Level(k, s) <= Level(k, s)'
        OBVIOUS
    <2>0. PICK j \in Key : j = KeyOf(req[w])
        BY KeyOfFacts DEF IInv, TypeOK
    <2>1. TypeOK /\ stamp[w] \in Nat /\ stamp[w] <= clock
        BY DEF IInv, TypeOK, StampsRecent
    <2>2. /\ tokens' = [tokens EXCEPT ![j] = Level(j, stamp[w])]
          /\ lastRefill' = [lastRefill EXCEPT ![j] = stamp[w]]
          /\ expireAt' = [expireAt EXCEPT ![j] = clock + 2 * Capacity[j[1]]]
          /\ clock' = clock
        <3>1. Level(j, stamp[w]) - 0 = Level(j, stamp[w])
            BY <2>1, LevelFacts
        <3>2. QED
            BY <3>1, <2>0 DEF RunScript, Remaining, Ttl
    <2>3. Level(j, stamp[w]) < Capacity[j[1]]
        BY <2>0, <2>1, KeyFacts, LevelFacts DEF Allowed
    <2>4. s \in Int /\ clock \in Nat /\ clock <= s
        BY <2>1, DelayAssumption DEF TypeOK
    <2>5. CASE k # j
        <3>1. Level(k, s)' = Level(k, s)
            BY <2>5, <2>1, <2>2 DEF TypeOK, Level, Missing
        <3>2. QED
            BY <3>1, <2>1, <2>4, LevelFacts
    <2>6. CASE k = j
        <3>1. ~Missing(j)
            BY <2>3, KeyFacts DEF Level
        <3>2. ~Missing(j)'
            BY <2>1, <2>2, KeyFacts DEF TypeOK, Missing
        <3>3. /\ Level(k, s) = Min2(Capacity[j[1]], tokens[j] + Elapsed(lastRefill[j], s))
              /\ Level(k, s)' = Min2(Capacity[j[1]],
                                    Level(j, stamp[w]) + Elapsed(stamp[w], s))
            BY <3>1, <3>2, <2>6, <2>1, <2>2 DEF TypeOK, Level
        <3>4. /\ tokens[j] \in Nat /\ lastRefill[j] \in Nat /\ Capacity[j[1]] \in Nat
              /\ Level(j, stamp[w]) = tokens[j] + Elapsed(lastRefill[j], stamp[w])
            BY <3>1, <2>1, <2>3, KeyFacts DEF TypeOK, Level, Min2
        <3>5. QED
            BY <3>3, <3>4, <2>1, <2>4 DEF Min2, Elapsed
    <2>7. QED
        BY <2>5, <2>6
<1>2. QED
    BY <1>1, SpecIInv, PTL DEF RejectionIsFree
=============================================================================
