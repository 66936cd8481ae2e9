------------------------------ MODULE ApiKeys -------------------------------
(***************************************************************************)
(* API keys: the subscription rows, the Redis cache in front of them, the  *)
(* requests that resolve an X-API-Key header and those that generate a     *)
(* key, while the subscription scanner and the deletion handler change the *)
(* rows.  Nothing removes a cached key but its TTL.                        *)
(*                                                                         *)
(* One step is one statement or one Redis command.  A row's tier is left   *)
(* out: it is paid exactly when grace_until is set (TierMatchesExpiry of   *)
(* SubscriptionScanner), so IsActive is a question about the grace period. *)
(***************************************************************************)
EXTENDS Naturals

CONSTANTS Miners,    \* the miners that have a subscription
          Keys,      \* what rand.Read may produce, each at most once
          NoMiner, NoKey,
          Lookups,   \* requests that resolve a key, at one time
          Requests,  \* requests that generate a key, at one time
          TTL,       \* cacheTTL (30 s), in ticks of the clock
          SetDelay,  \* how long after the SELECT the cache may be written
          Duration,  \* Scanner.durationDays, in ticks
          Grace,     \* Scanner.graceHours, in ticks
          MaxGrace,  \* bound: the last end of a grace period
          MaxTime    \* bound: the last tick of the clock

ASSUME ApiKeysAssumption == /\ NoMiner \notin Miners
                            /\ NoKey \notin Keys
                            /\ {TTL, Duration} \subseteq Nat \ {0}
                            /\ {SetDelay, Grace, MaxGrace, MaxTime} \subseteq Nat

VARIABLES keyOf,     \* subscriptions.api_key_hash
          grace,     \* subscriptions.grace_until, 0 if NULL
          cache,     \* Redis: the values under "apikey:"
          now,       \* the clock
          lookup,    \* CheckTierByAPIKey of each request
          request    \* GenerateAPIKey of each request

\* History variables, which the program does not have.
VARIABLES minted,    \* the keys that were generated
          held,      \* what the rows said in the past, and when last
          lapsed     \* lookups whose key was not a paying miner's at some time

rowVars == <<keyOf, grace>>
vars == <<rowVars, cache, now, lookup, request, minted, held, lapsed>>

Truths  == [key : Keys, addr : Miners, grace : Nat, last : Nat]
Entries == [addr : Miners, grace : Nat, until : Nat]

NoEntry == [addr |-> NoMiner, grace |-> 0, until |-> 0]
Idle    == [pc |-> "idle", key |-> NoKey, addr |-> NoMiner, grace |-> 0,
            paid |-> FALSE, at |-> 0]
IdleRequest == [pc |-> "idle", addr |-> NoMiner, key |-> NoKey]

LookupStates == [pc : {"idle", "select", "set", "answered"}, key : Keys \cup {NoKey},
                 addr : Miners \cup {NoMiner}, grace : Nat, paid : BOOLEAN, at : Nat]

RequestStates == [pc : {"idle", "proof", "update"}, addr : Miners \cup {NoMiner},
                  key : Keys \cup {NoKey}]

TypeOK == /\ keyOf \in [Miners -> Keys \cup {NoKey}]
          /\ grace \in [Miners -> Nat]
          /\ cache \in [Keys -> Entries \cup {NoEntry}]
          /\ now \in 0..MaxTime
          /\ lookup \in [Lookups -> LookupStates]
          /\ request \in [Requests -> RequestStates]
          /\ \A r \in Requests : request[r].pc # "idle" => request[r].addr \in Miners
          /\ minted \subseteq Keys
          /\ held \subseteq Truths
          /\ lapsed \subseteq Lookups
          /\ \A m \in Miners : keyOf[m] # NoKey => keyOf[m] \in minted
          /\ \A l \in Lookups : lookup[l].pc # "idle" => lookup[l].key \in minted
          /\ \A m, n \in Miners : keyOf[m] = keyOf[n] => m = n \/ keyOf[m] = NoKey

Init == /\ keyOf = [m \in Miners |-> NoKey]
        /\ grace = [m \in Miners |-> 0]
        /\ cache = [k \in Keys |-> NoEntry]
        /\ now = 0
        /\ lookup = [l \in Lookups |-> Idle]
        /\ request = [r \in Requests |-> IdleRequest]
        /\ minted = {}
        /\ held = {}
        /\ lapsed = {}

\* Subscription.IsActive of the miner's row.
IsActive(m) == now < grace[m]

\* The rows give the key to a paying miner.
IsPaid(k) == \E m \in Miners : keyOf[m] = k /\ IsActive(m)

\* The history after a step: what m's row said so far, and the lookups in
\* progress that have seen a moment without a paying miner.
Closing(m) == held' = held \cup (IF keyOf[m] = NoKey THEN {}
                                 ELSE {[key |-> keyOf[m], addr |-> m,
                                        grace |-> grace[m], last |-> now]})

Watch == lapsed' = {l \in Lookups : /\ lookup'[l].pc # "idle"
                                    /\ l \in lapsed \/ ~IsPaid(lookup[l].key)'}

-----------------------------------------------------------------------------
\* The subscription scanner extends the miner's subscription.
Extended(m) == IF now + Grace < grace[m] THEN grace[m] + Duration
                                         ELSE now + Duration + Grace

Activate(m) ==
    /\ Extended(m) <= MaxGrace
    /\ grace' = [grace EXCEPT ![m] = Extended(m)]
    /\ Closing(m)
    /\ UNCHANGED <<keyOf, cache, now, lookup, request, minted>>
    /\ Watch

\* The deletion handler resets the row of a miner.
ResetRow(m) ==
    /\ keyOf' = [keyOf EXCEPT ![m] = NoKey]
    /\ grace' = [grace EXCEPT ![m] = 0]
    /\ Closing(m)
    /\ UNCHANGED <<cache, now, lookup, request, minted>>
    /\ Watch

\* Time passes, and Redis drops what has expired (the history, what no answer
\* may rely on any more).  A SELECT that was answered is followed by the write to Redis
\* within the client's timeouts, which SetDelay bounds.  An answer that was
\* given does not wait: "answered" is a record of it for the properties.
Tick ==
    /\ now < MaxTime
    /\ \A l \in Lookups : /\ lookup[l].pc # "answered"
                          /\ lookup[l].pc = "set" => now < lookup[l].at + SetDelay
    /\ now' = now + 1
    /\ cache' = [k \in Keys |-> IF cache[k].until <= now' THEN NoEntry ELSE cache[k]]
    /\ held' = {h \in held : now' <= h.last + TTL + SetDelay}
    /\ UNCHANGED <<rowVars, lookup, request, minted>>
    /\ Watch

-----------------------------------------------------------------------------
Cached(k) == cache[k] # NoEntry

\* Mutant of Hit: a cached free tier is an answer, as it is in CheckTier.
HitAnyTier(k) == Cached(k)

\* A cached value is an answer only while its grace period lasts.
Hit(k) == Cached(k) /\ now < cache[k].grace

\* A request with an X-API-Key header: GET from Redis.  An error is a miss.
GetCached(l) ==
    /\ lookup[l].pc = "idle"
    /\ \E k \in minted :
          \/ /\ Hit(k)
             /\ lookup' = [lookup EXCEPT ![l] = [pc |-> "answered", key |-> k, at |-> now,
                             addr |-> cache[k].addr, grace |-> cache[k].grace,
                             paid |-> now < cache[k].grace]]
          \/ lookup' = [lookup EXCEPT ![l] = [Idle EXCEPT !.pc = "select", !.key = k]]
    /\ UNCHANGED <<rowVars, cache, now, request, minted, held>>
    /\ Watch

\* Mutant of SelectByKey: a key without a row is cached like any other.
SelectByKeyCachesNone(l) ==
    LET k == lookup[l].key IN
    /\ lookup[l].pc = "select"
    /\ \/ /\ \A m \in Miners : keyOf[m] # k
          /\ lookup' = [lookup EXCEPT ![l].pc = "set", ![l].at = now]
       \/ \E m \in Miners :
             /\ keyOf[m] = k
             /\ lookup' = [lookup EXCEPT ![l] = [pc |-> "set", key |-> k, at |-> now,
                             addr |-> m, grace |-> grace[m], paid |-> IsActive(m)]]
    /\ UNCHANGED <<rowVars, cache, now, request, minted, held>>
    /\ Watch

\* SELECT ... WHERE api_key_hash = $1.  A failure leaves the request with the
\* free tier and no address; no row does the same without an error.
SelectByKey(l) ==
    LET k == lookup[l].key IN
    /\ lookup[l].pc = "select"
    /\ \/ lookup' = [lookup EXCEPT ![l] = Idle]
       \/ /\ \A m \in Miners : keyOf[m] # k
          /\ lookup' = [lookup EXCEPT ![l].pc = "answered"]
       \/ \E m \in Miners :
             /\ keyOf[m] = k
             /\ lookup' = [lookup EXCEPT ![l] = [pc |-> "set", key |-> k, at |-> now,
                             addr |-> m, grace |-> grace[m], paid |-> IsActive(m)]]
    /\ UNCHANGED <<rowVars, cache, now, request, minted, held>>
    /\ Watch

\* Mutant of CacheValue: the entry lives until the grace period ends.
CacheValueForGrace(l) ==
    [addr |-> lookup[l].addr, grace |-> lookup[l].grace,
     until |-> lookup[l].grace + TTL]

CacheValue(l) == [addr |-> lookup[l].addr, grace |-> lookup[l].grace, until |-> now + TTL]

\* SET with the TTL, whose failure is logged; then the answer.
SetCached(l) ==
    /\ lookup[l].pc = "set"
    /\ \/ cache' = [cache EXCEPT ![lookup[l].key] = CacheValue(l)]
       \/ UNCHANGED cache
    /\ lookup' = [lookup EXCEPT ![l].pc = "answered"]
    /\ UNCHANGED <<rowVars, now, request, minted, held>>
    /\ Watch

EndLookup(l) ==
    /\ lookup[l].pc = "answered"
    /\ lookup' = [lookup EXCEPT ![l] = Idle]
    /\ UNCHANGED <<rowVars, cache, now, request, minted, held>>
    /\ Watch

-----------------------------------------------------------------------------
Refuse(r) == request' = [request EXCEPT ![r] = IdleRequest]

\* A request for a key, with an existing key or else with a tx_hash.  The
\* subscription must be active; an existing key must be the one presented.
SelectRow(r) ==
    /\ request[r].pc = "idle"
    /\ \E m \in Miners, k \in minted \cup {NoKey} :
          /\ IsActive(m)
          /\ keyOf[m] = k
          /\ request' = [request EXCEPT ![r] =
                [pc |-> IF k = NoKey THEN "proof" ELSE "update", addr |-> m, key |-> k]]
    /\ UNCHANGED <<rowVars, cache, now, lookup, minted, held>>
    /\ Watch

\* A first key needs a confirmed payment of the miner: the SELECT finds the
\* presented one or does not.
CheckPayment(r) ==
    /\ request[r].pc = "proof"
    /\ \/ Refuse(r)
       \/ request' = [request EXCEPT ![r].pc = "update"]
    /\ UNCHANGED <<rowVars, cache, now, lookup, minted, held>>
    /\ Watch

\* The new key replaces whatever the row has.  "sub:" is invalidated, "apikey:"
\* is not.  A statement whose reply is lost has stored a key that nobody gets.
StoreKey(r) ==
    /\ request[r].pc = "update"
    /\ Refuse(r)
    /\ \/ \E k \in Keys \ minted :
             /\ minted' = minted \cup {k}
             /\ keyOf' = [keyOf EXCEPT ![request[r].addr] = k]
             /\ Closing(request[r].addr)
       \/ UNCHANGED <<minted, keyOf, held>>
    /\ UNCHANGED <<grace, cache, now, lookup>>
    /\ Watch

-----------------------------------------------------------------------------
Rows == \E m \in Miners : Activate(m) \/ ResetRow(m)

CheckTierByAPIKey(l) == GetCached(l) \/ SelectByKey(l) \/ SetCached(l) \/ EndLookup(l)

GenerateAPIKey(r) == SelectRow(r) \/ CheckPayment(r) \/ StoreKey(r)

Next == \/ Rows
        \/ Tick
        \/ \E l \in Lookups : CheckTierByAPIKey(l)
        \/ \E r \in Requests : GenerateAPIKey(r)

Spec == Init /\ [][Next]_vars

-----------------------------------------------------------------------------
\* The rows say that k is m's key with grace period g, or said so when an
\* answer at time t may still rely on it.
Said(k, m, g, t) == \/ keyOf[m] = k /\ grace[m] = g
                    \/ \E h \in held : /\ h.key = k /\ h.addr = m /\ h.grace = g
                                       /\ t <= h.last + TTL + SetDelay

\* An answer is never older than the TTL and the delay of its entry: the rows
\* gave the key to that miner, with that grace period, at most so long before
\* the answer.  A key that was replaced or deleted stops working, and a paid
\* answer ends with the grace period that was paid for (CheckTierByAPIKey).
AnswersAreRecent ==
    \A l \in Lookups : LET a == lookup[l] IN
        a.pc = "answered" /\ a.addr # NoMiner =>
            /\ Said(a.key, a.addr, a.grace, now)
            /\ a.paid => now <= a.grace + SetDelay

\* A payment takes effect at once: a lookup that does not fail answers with the
\* paid tier unless, at some time while it ran, the rows did not give its key to
\* a paying miner.  The cache never hides an activation.
PaymentTakesEffect ==
    \A l \in Lookups : lookup[l].pc = "answered" /\ ~lookup[l].paid => l \in lapsed

\* Documented at GenerateAPIKey: a key is replaced only by a request that
\* presented it.
ReplacedKeyWasPresented ==
    [][\A m \in Miners :
          keyOf[m] # NoKey /\ keyOf'[m] \notin {NoKey, keyOf[m]} =>
              \E r \in Requests : /\ request[r].addr = m /\ request[r].key = keyOf[m]
                                  /\ request'[r].pc = "idle"]_vars

=============================================================================
