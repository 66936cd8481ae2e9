---------------------------- MODULE PriceOracle -----------------------------
(***************************************************************************)
(* PriceOracle.GetPrice, which the two scanners and the HTTP handlers call *)
(* at the same time.  The mutex is held for the accesses of the cache and  *)
(* not for the request to CoinGecko, so that several callers ask at once   *)
(* and their answers are stored in any order.                              *)
(*                                                                         *)
(* A price is the time at which CoinGecko quoted it.  The wait for an      *)
(* answer takes time, at most HttpTimeout with the storing of the answer.  *)
(***************************************************************************)
EXTENDS Integers, FiniteSets

CONSTANTS Calls,        \* the callers
          CacheTTL,     \* defaultCacheTTL (120 s)
          Backoff,      \* rateLimitBackoff (5 min)
          HttpTimeout,  \* httpTimeout (10 s)
          MaxClock      \* bound of the clock

\* main.go takes the defaults of NewPriceOracle.
ASSUME OracleAssumption == /\ CacheTTL \in Nat \ {0}
                           /\ Backoff \in Nat /\ CacheTTL <= Backoff
                           /\ HttpTimeout \in Nat \ {0}
                           /\ MaxClock \in Nat

NoPrice == -1   \* a nil *Price

VARIABLES clock,      \* the time
          lastPrice,  \* PriceOracle.lastPrice
          lastFetch,  \* PriceOracle.lastFetch
          cacheTTL,   \* PriceOracle.cacheTTL
          call        \* GetPrice of a caller: where it is, when it sent the
                      \* outstanding request, the price it has, when it got it

oracleVars == <<clock, lastPrice, lastFetch, cacheTTL, call>>
cache == <<lastPrice, lastFetch, cacheTTL>>

Times == 0..MaxClock
Waiting == {"request", "quoted"}   \* the request is outstanding
Idle == [pc |-> "idle", since |-> 0, price |-> NoPrice, at |-> 0]

OracleTypeOK ==
    /\ clock \in Times
    /\ lastPrice \in Times \cup {NoPrice}
    /\ lastFetch \in Times
    /\ cacheTTL \in {CacheTTL, Backoff}
    /\ call \in [Calls -> [pc : Waiting \cup {"idle", "limited", "failed",
                                              "hit", "fetched", "stale", "error"},
                           since : Times, price : Times \cup {NoPrice}, at : Times]]

OracleInit ==
    /\ clock = 0
    /\ lastPrice = NoPrice
    /\ lastFetch = 0
    /\ cacheTTL = CacheTTL
    /\ call = [c \in Calls |-> Idle]

-----------------------------------------------------------------------------
\* GetPrice returns the price: from the fresh cache ("hit"), from CoinGecko
\* ("fetched"), or from the cache of whatever age ("stale").
Answer(c, how, price) ==
    call' = [call EXCEPT ![c] = [pc |-> how, since |-> 0, price |-> price, at |-> clock]]

\* The request is over, without a price.
GiveUp(c, pc) == call' = [call EXCEPT ![c] = [Idle EXCEPT !.pc = pc]]

Fresh == lastPrice # NoPrice /\ clock - lastFetch < cacheTTL

\* The fast path, or the start of the request.
GetPrice(c) ==
    /\ call[c].pc = "idle"
    /\ IF Fresh
       THEN Answer(c, "hit", lastPrice)
       ELSE call' = [call EXCEPT ![c].pc = "request", ![c].since = clock]
    /\ UNCHANGED <<clock, cache>>

\* CoinGecko quotes a price; the answer is on its way.
Quote(c) ==
    /\ call[c].pc = "request"
    /\ call' = [call EXCEPT ![c].pc = "quoted", ![c].price = clock]
    /\ UNCHANGED <<clock, cache>>

\* The answer arrives and is stored.
Store(c) ==
    /\ call[c].pc = "quoted"
    /\ lastPrice' = call[c].price
    /\ lastFetch' = clock
    /\ cacheTTL' = IF cacheTTL > CacheTTL THEN CacheTTL ELSE cacheTTL
    /\ Answer(c, "fetched", call[c].price)
    /\ UNCHANGED clock

\* Mutant of Limited: the back-off counts from now.
LimitedFromNow(c) ==
    /\ call[c].pc = "request"
    /\ cacheTTL' = Backoff
    /\ lastFetch' = clock
    /\ GiveUp(c, "limited")
    /\ UNCHANGED <<clock, lastPrice>>

\* Mutant of Limited: every 429 adds a back-off.
LimitedAgain(c) ==
    /\ call[c].pc = "request"
    /\ cacheTTL' = cacheTTL + Backoff
    /\ GiveUp(c, "limited")
    /\ UNCHANGED <<clock, lastPrice, lastFetch>>

\* HTTP status 429: the TTL grows, the time it counts from stays.
Limited(c) ==
    /\ call[c].pc = "request"
    /\ cacheTTL' = Backoff
    /\ GiveUp(c, "limited")
    /\ UNCHANGED <<clock, lastPrice, lastFetch>>

\* Another status, a broken answer, or the timeout.
Failed(c) ==
    /\ call[c].pc \in Waiting
    /\ GiveUp(c, "failed")
    /\ UNCHANGED <<clock, cache>>

\* The cache after a failure, read by fetch ("limited") or by GetPrice; a nil
\* price of the first read is read once more by the second.
Fallback(c) ==
    /\ call[c].pc \in {"limited", "failed"}
    /\ IF lastPrice # NoPrice
       THEN Answer(c, "stale", lastPrice)
       ELSE GiveUp(c, IF call[c].pc = "limited" THEN "failed" ELSE "error")
    /\ UNCHANGED <<clock, cache>>

HasReturned(c) == call[c].pc \in {"hit", "fetched", "stale", "error"}

\* The caller goes on.
Return(c) ==
    /\ HasReturned(c)
    /\ call' = [call EXCEPT ![c] = Idle]
    /\ UNCHANGED <<clock, cache>>

Fetch(c) == Quote(c) \/ Store(c) \/ Limited(c) \/ Failed(c) \/ Fallback(c)

\* Mutant of Elapse: requests have no timeout.
ElapseUntimed ==
    /\ clock < MaxClock
    /\ clock' = clock + 1
    /\ UNCHANGED <<cache, call>>

\* Time passes; no request is outstanding for longer than the timeout.
Elapse ==
    /\ clock < MaxClock
    /\ \A c \in Calls : call[c].pc \in Waiting => clock - call[c].since < HttpTimeout
    /\ clock' = clock + 1
    /\ UNCHANGED <<cache, call>>

OracleNext == \/ \E c \in Calls : GetPrice(c) \/ Fetch(c) \/ Return(c)
              \/ Elapse

OracleSpec == OracleInit /\ [][OracleNext]_oracleVars

-----------------------------------------------------------------------------
\* A price that is answered without asking CoinGecko was quoted at most a
\* back-off and one request ago, whatever order the answers of concurrent
\* requests and the 429s come in (priceoracle.go: "If the cached price is still
\* fresh, it returns the cached value").
HitsAreFresh ==
    \A c \in Calls :
        call[c].pc = "hit" => call[c].at - call[c].price < Backoff + HttpTimeout

\* A late answer may replace a newer price, but by one that is older by no more
\* than the timeout of a request: the price never falls far back.
PriceFallsBackOneRequest ==
    [][lastPrice # NoPrice => lastPrice' + HttpTimeout >= lastPrice]_oracleVars

\* The cached price and the outstanding requests stay within a timeout of the
\* times they are stored and sent at: why hits are fresh and prices fall back little.
RequestsAreRecent ==
    /\ lastFetch <= clock
    /\ lastPrice # NoPrice => lastPrice <= lastFetch /\ lastFetch <= lastPrice + HttpTimeout
    /\ \A c \in Calls :
          /\ call[c].pc \in Waiting => /\ call[c].since <= clock
                                       /\ clock <= call[c].since + HttpTimeout
          /\ call[c].pc = "quoted" => /\ call[c].since <= call[c].price
                                      /\ call[c].price <= clock

OracleInv == OracleTypeOK /\ RequestsAreRecent /\ HitsAreFresh

\* The constant is "the minimum time between API calls".  It is not: callers that
\* find the cache old ask together, and after a failure the next one asks at once.
OneRequestPerTTL ==
    \A c, d \in Calls : c # d => ~(call[c].pc \in Waiting /\ call[d].pc \in Waiting)
=============================================================================
