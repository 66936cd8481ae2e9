-------------------------- MODULE Services_proofs ---------------------------
(***************************************************************************)
(* Proofs about the smaller services, each for every number of requests,   *)
(* rows, nodes and all time constants: the price oracle answers fresh      *)
(* prices, payment addresses stay their miners', backfills look up what    *)
(* they miss and no more, and the nodes' statistics follow their status.   *)
(* What is proved of a service alone holds of the instance MCServices.     *)
(***************************************************************************)
EXTENDS MCServices, Payouts_proofs

-----------------------------------------------------------------------------
(* The price oracle.                                                       *)

LEMMA OracleInitial == OracleInit => OracleInv
  BY OracleAssumption DEF OracleInit, OracleInv, OracleTypeOK, RequestsAreRecent, HitsAreFresh,
       Idle, NoPrice, Waiting, Times

\* What call[c] may be.
CallRecord == [pc : Waiting \cup {"idle", "limited", "failed", "hit", "fetched", "stale", "error"},
               since : Times, price : Times \cup {NoPrice}, at : Times]

\* The cache and the clock are untouched and one call changes as the invariant
\* allows: the steps of a call that do not store.
LEMMA CallStep ==
  ASSUME OracleInv, NEW c \in Calls, NEW new,
         UNCHANGED <<clock, lastPrice, lastFetch>>,
         cacheTTL' \in {CacheTTL, Backoff},
         call' = [call EXCEPT ![c] = new],
         new \in CallRecord,
         new.pc \in Waiting => new.since <= clock /\ clock <= new.since + HttpTimeout,
         new.pc = "quoted" => new.since <= new.price /\ new.price <= clock,
         new.pc = "hit" => new.at - new.price < Backoff + HttpTimeout
  PROVE  OracleInv'
  <1>1. OracleTypeOK'
    BY DEF OracleInv, OracleTypeOK, CallRecord
  <1>2. \A d \in Calls : call'[d] = IF d = c THEN new ELSE call[d]
    BY DEF OracleInv, OracleTypeOK
  <1>3. RequestsAreRecent'
    BY <1>2 DEF OracleInv, RequestsAreRecent
  <1>4. HitsAreFresh'
    BY <1>2 DEF OracleInv, HitsAreFresh
  <1>. QED  BY <1>1, <1>3, <1>4 DEF OracleInv

LEMMA OracleStep == OracleInv /\ [OracleNext]_oracleVars => OracleInv'
  <1> SUFFICES ASSUME OracleInv, [OracleNext]_oracleVars  PROVE OracleInv'
    OBVIOUS
  <1> USE OracleAssumption
  <1>t. /\ clock \in Times /\ clock \in Nat /\ lastFetch \in Times /\ lastFetch \in Nat
        /\ lastPrice \in Times \cup {NoPrice} /\ lastPrice \in Int
        /\ cacheTTL \in {CacheTTL, Backoff} /\ CacheTTL \in Int /\ Backoff \in Int
        /\ HttpTimeout \in Int
    BY DEF OracleInv, OracleTypeOK, Times, NoPrice
  <1>1. ASSUME NEW c \in Calls, GetPrice(c)  PROVE OracleInv'
    <2>1. call[c].pc = "idle" /\ UNCHANGED <<clock, lastPrice, lastFetch, cacheTTL>>
      BY <1>1 DEF GetPrice, cache
    <2>2. CASE Fresh
      <3> DEFINE hit == [pc |-> "hit", since |-> 0, price |-> lastPrice, at |-> clock]
      <3>1. call' = [call EXCEPT ![c] = hit]
        BY <1>1, <2>2 DEF GetPrice, Answer
      <3>2. hit.at - hit.price < Backoff + HttpTimeout
        BY <1>t, <2>2 DEF Fresh, OracleInv, RequestsAreRecent
      <3>3. hit \in CallRecord /\ hit.pc = "hit"
        BY <1>t DEF Times, CallRecord
      <3> HIDE DEF hit
      <3>4. PICK new \in CallRecord : /\ call' = [call EXCEPT ![c] = new] /\ new.pc = "hit"
                                      /\ new.at - new.price < Backoff + HttpTimeout
        BY <3>1, <3>2, <3>3
      <3>. QED  BY <1>t, <2>1, <3>4, CallStep DEF Waiting
    <2>3. CASE ~Fresh
      <3> DEFINE sent == [call[c] EXCEPT !.pc = "request", !.since = clock]
      <3>1. call' = [call EXCEPT ![c] = sent]
        BY <1>1, <2>3 DEF GetPrice, OracleInv, OracleTypeOK
      <3>2. sent \in CallRecord /\ sent.pc = "request" /\ sent.since = clock
        BY <1>t DEF OracleInv, OracleTypeOK, Waiting, CallRecord
      <3> HIDE DEF sent
      <3>3. PICK new \in CallRecord : /\ call' = [call EXCEPT ![c] = new]
                                      /\ new.pc = "request" /\ new.since = clock
        BY <3>1, <3>2
      <3>4. /\ new.pc \in Waiting => new.since <= clock /\ clock <= new.since + HttpTimeout
            /\ new.pc = "quoted" => new.since <= new.price /\ new.price <= clock
            /\ new.pc = "hit" => new.at - new.price < Backoff + HttpTimeout
        BY <1>t, <3>3
      <3>. QED  BY <1>t, <2>1, <3>3, <3>4, CallStep
    <2>. QED  BY <2>2, <2>3
  <1>2. ASSUME NEW c \in Calls, Quote(c)  PROVE OracleInv'
    <2> DEFINE quoted == [call[c] EXCEPT !.pc = "quoted", !.price = clock]
    <2>1. UNCHANGED <<clock, lastPrice, lastFetch, cacheTTL>> /\ call' = [call EXCEPT ![c] = quoted]
      BY <1>2 DEF Quote, cache, OracleInv, OracleTypeOK
    <2>2. call[c].pc = "request" /\ call[c].since \in Nat
      BY <1>2 DEF Quote, OracleInv, OracleTypeOK, Times
    <2>3. /\ quoted \in CallRecord
          /\ quoted.pc = "quoted" /\ quoted.since = call[c].since /\ quoted.price = clock
      BY <1>t DEF OracleInv, OracleTypeOK, Waiting, CallRecord
    <2>4. call[c].since <= clock /\ clock <= call[c].since + HttpTimeout
      BY <2>2 DEF OracleInv, RequestsAreRecent, Waiting
    <2> HIDE DEF quoted
    <2>5. PICK new \in CallRecord : /\ call' = [call EXCEPT ![c] = new]
                                    /\ new.pc = "quoted" /\ new.price = clock
                                    /\ new.since <= clock /\ clock <= new.since + HttpTimeout
      BY <2>1, <2>3, <2>4
    <2>6. /\ new.pc \in Waiting => new.since <= clock /\ clock <= new.since + HttpTimeout
          /\ new.pc = "quoted" => new.since <= new.price /\ new.price <= clock
          /\ new.pc = "hit" => new.at - new.price < Backoff + HttpTimeout
      BY <1>t, <2>5
    <2>. QED  BY <1>t, <2>1, <2>5, <2>6, CallStep
  <1>3. ASSUME NEW c \in Calls, Store(c)  PROVE OracleInv'
    <2> DEFINE new == [pc |-> "fetched", since |-> 0, price |-> call[c].price, at |-> clock]
    <2>1. /\ call[c].pc = "quoted" /\ call' = [call EXCEPT ![c] = new] /\ clock' = clock
          /\ lastPrice' = call[c].price /\ lastFetch' = clock
          /\ cacheTTL' \in {CacheTTL, Backoff}
      BY <1>3, <1>t DEF Store, Answer
    <2>2. call[c].price \in Times \cup {NoPrice} /\ call[c].price \in Int /\ call[c].since \in Nat
      BY DEF OracleInv, OracleTypeOK, Times, NoPrice
    <2>3. /\ call[c].since <= call[c].price /\ call[c].price <= clock
          /\ clock <= call[c].since + HttpTimeout
      BY <2>1 DEF OracleInv, RequestsAreRecent, Waiting
    <2>4. /\ new \in CallRecord
          /\ new.pc = "fetched"
      BY <1>t, <2>2 DEF Times, CallRecord
    <2> HIDE DEF new
    <2>5. \A d \in Calls : call'[d] = IF d = c THEN new ELSE call[d]
      BY <2>1 DEF OracleInv, OracleTypeOK
    <2>6. OracleTypeOK'
      BY <1>t, <2>1, <2>2, <2>4 DEF OracleInv, OracleTypeOK, CallRecord
    <2>7. RequestsAreRecent'
      BY <1>t, <2>1, <2>2, <2>3, <2>4, <2>5 DEF OracleInv, RequestsAreRecent, Waiting
    <2>8. HitsAreFresh'
      BY <2>4, <2>5 DEF OracleInv, HitsAreFresh
    <2>. QED  BY <2>6, <2>7, <2>8 DEF OracleInv
  <1>4. ASSUME NEW c \in Calls, Limited(c) \/ Failed(c) \/ Fallback(c) \/ Return(c)
        PROVE  OracleInv'
    <2>1. /\ UNCHANGED <<clock, lastPrice, lastFetch>> /\ cacheTTL' \in {CacheTTL, Backoff}
          /\ \E new \in [pc : {"idle", "limited", "failed", "stale", "error"},
                         since : Times, price : Times \cup {NoPrice}, at : Times] :
                call' = [call EXCEPT ![c] = new]
      <3> DEFINE Over(pc) == [pc |-> pc, since |-> 0, price |-> NoPrice, at |-> 0]
      <3>1. /\ \A pc \in {"idle", "limited", "failed", "stale", "error"} :
                  /\ [Idle EXCEPT !.pc = pc] = Over(pc)
                  /\ Over(pc) \in [pc : {"idle", "limited", "failed", "stale", "error"},
                         since : Times, price : Times \cup {NoPrice}, at : Times]
            /\ Idle = Over("idle")
        BY DEF Idle, Times
      <3>2. [pc |-> "stale", since |-> 0, price |-> lastPrice, at |-> clock]
                \in [pc : {"idle", "limited", "failed", "stale", "error"},
                     since : Times, price : Times \cup {NoPrice}, at : Times]
        BY <1>t DEF Times
      <3> HIDE DEF Over
      <3>3. CASE Limited(c)  BY <1>t, <3>1, <3>3 DEF Limited, GiveUp
      <3>4. CASE Failed(c)  BY <1>t, <3>1, <3>4 DEF Failed, GiveUp, cache
      <3>5. CASE Fallback(c)
        <4>1. UNCHANGED <<clock, lastPrice, lastFetch, cacheTTL>>
          BY <3>5 DEF Fallback, cache
        <4>2. CASE lastPrice # NoPrice
          BY <1>t, <3>2, <3>5, <4>1, <4>2 DEF Fallback, Answer
        <4>3. CASE lastPrice = NoPrice
          <5>1. \E pc \in {"failed", "error"} : call' = [call EXCEPT ![c] = [Idle EXCEPT !.pc = pc]]
            BY <3>5, <4>3 DEF Fallback, GiveUp
          <5>. QED  BY <1>t, <3>1, <4>1, <5>1
        <4>. QED  BY <4>2, <4>3
      <3>6. CASE Return(c)  BY <1>t, <3>1, <3>6 DEF Return, cache
      <3>. QED  BY <1>4, <3>3, <3>4, <3>5, <3>6
    <2>2. PICK new \in [pc : {"idle", "limited", "failed", "stale", "error"},
                       since : Times, price : Times \cup {NoPrice}, at : Times] :
             call' = [call EXCEPT ![c] = new]
      BY <2>1
    <2>. QED  BY <1>t, <2>1, <2>2, CallStep DEF Waiting, CallRecord
  <1>5. ASSUME Elapse  PROVE OracleInv'
    <2>1. clock' = clock + 1 /\ clock' \in Times /\ UNCHANGED <<lastPrice, lastFetch, cacheTTL, call>>
      BY <1>5, <1>t DEF Elapse, cache, Times
    <2>2. \A c \in Calls : /\ call[c].since \in Int /\ call[c].price \in Int
                           /\ call[c].pc \in Waiting => clock - call[c].since < HttpTimeout
      BY <1>5 DEF Elapse, OracleInv, OracleTypeOK, Times, NoPrice
    <2>3. OracleTypeOK' /\ HitsAreFresh'
      BY <2>1 DEF OracleInv, OracleTypeOK, HitsAreFresh
    <2>4. \A c \in Calls :
            /\ call[c].pc \in Waiting => /\ call[c].since <= clock'
                                         /\ clock' <= call[c].since + HttpTimeout
            /\ call[c].pc = "quoted" => /\ call[c].since <= call[c].price
                                        /\ call[c].price <= clock'
      <3> TAKE c \in Calls
      <3>1. call[c].pc \in Waiting => /\ call[c].since <= clock
                                      /\ clock - call[c].since < HttpTimeout
        BY <2>2 DEF OracleInv, RequestsAreRecent
      <3>2. call[c].pc = "quoted" => call[c].since <= call[c].price /\ call[c].price <= clock
        BY DEF OracleInv, RequestsAreRecent
      <3>3. call[c].since \in Int /\ call[c].price \in Int
        BY <2>2
      <3>. QED  BY <1>t, <2>1, <3>1, <3>2, <3>3
    <2>5. RequestsAreRecent'
      BY <1>t, <2>1, <2>4 DEF OracleInv, RequestsAreRecent
    <2>. QED  BY <2>3, <2>5, <2>4 DEF OracleInv
  <1>6. CASE UNCHANGED oracleVars
    BY <1>6 DEF oracleVars, OracleInv, OracleTypeOK, RequestsAreRecent, HitsAreFresh
  <1>. QED  BY <1>1, <1>2, <1>3, <1>4, <1>5, <1>6 DEF OracleNext, Fetch

\* What GetPrice answers without asking CoinGecko is at most a back-off and one
\* request old, and the types, whatever the callers do.
THEOREM OracleIsFresh == OracleSpec => [](OracleTypeOK /\ HitsAreFresh)
  <1>1. OracleSpec => []OracleInv
    BY OracleInitial, OracleStep, PTL DEF OracleSpec
  <1>2. OracleInv => OracleTypeOK /\ HitsAreFresh
    BY DEF OracleInv
  <1>. QED  BY <1>1, <1>2, PTL

LEMMA StoreFallsBackOneRequest ==
  ASSUME OracleInv, [OracleNext]_oracleVars, lastPrice # NoPrice
  PROVE  lastPrice' + HttpTimeout >= lastPrice
  <1> USE OracleAssumption
  <1>t. lastPrice \in Int /\ lastFetch \in Int /\ clock \in Int /\ HttpTimeout \in Nat
    BY DEF OracleInv, OracleTypeOK, Times, NoPrice
  <1>1. CASE lastPrice' = lastPrice
    BY <1>t, <1>1
  <1>2. ASSUME NEW c \in Calls, Store(c)  PROVE lastPrice' + HttpTimeout >= lastPrice
    <2>1. call[c].pc = "quoted" /\ lastPrice' = call[c].price
      BY <1>2 DEF Store
    <2>2. call[c].price \in Int /\ call[c].since \in Int
      BY DEF OracleInv, OracleTypeOK, Times, NoPrice
    <2>3. call[c].since <= call[c].price /\ clock <= call[c].since + HttpTimeout
      BY <2>1 DEF OracleInv, RequestsAreRecent, Waiting
    <2>4. lastPrice <= clock
      BY <1>t DEF OracleInv, RequestsAreRecent
    <2>. QED  BY <1>t, <2>1, <2>2, <2>3, <2>4
  <1>3. lastPrice' = lastPrice \/ \E c \in Calls : Store(c)
    BY DEF OracleNext, GetPrice, Fetch, Quote, Limited, Failed, Fallback, Return, Elapse, cache, oracleVars
  <1>. QED  BY <1>1, <1>2, <1>3

\* A late answer of a concurrent request replaces the price by one that is older
\* by no more than the timeout.
THEOREM PriceFallsBackLittle == OracleSpec => PriceFallsBackOneRequest
  <1>1. OracleSpec => []OracleInv
    BY OracleInitial, OracleStep, PTL DEF OracleSpec
  <1>2. OracleInv /\ [OracleNext]_oracleVars
          => [lastPrice # NoPrice => lastPrice' + HttpTimeout >= lastPrice]_oracleVars
    BY StoreFallsBackOneRequest
  <1>. QED  BY <1>1, <1>2, PTL DEF OracleSpec, PriceFallsBackOneRequest

-----------------------------------------------------------------------------
(* The payment addresses.                                                  *)

LEMMA AddressStepIsOracleStep == [AddressNext]_paymentVars => [OracleNext]_oracleVars
  BY DEF AddressNext, OracleNext, Serve, Ask, SelectAddress, CreateAddress, InsertAddress,
         AskPrice, AnswerRequest, paymentVars, oracleVars, Requests

\* The requests' use of the oracle is one the oracle allows.
THEOREM AddressUsesOracle == AddressSpec => OracleSpec
  <1>1. AddressInit => OracleInit
    BY DEF AddressInit
  <1>. QED  BY <1>1, AddressStepIsOracleStep, PTL DEF AddressSpec, OracleSpec

LEMMA AddressInitial == AddressInit => AddressInv
  BY OracleInitial, AddressAssumption
     DEF AddressInit, AddressInv, AddressTypeOK, OracleInv, IndicesAreTracked, HandedOutIsKept,
         AddressesAreDistinct, NoRequest

\* The tables are untouched and one request changes: the invariant is kept when
\* its new record has a miner, and no subaddress but its miner's.
LEMMA RequestStep ==
  ASSUME AddressInv, OracleInv', NEW r \in Requests, NEW new,
         UNCHANGED <<subaddress, lastIndex>>,
         request' = [request EXCEPT ![r] = new],
         handedOut' \subseteq handedOut \cup {<<request[r].miner, request[r].index>>},
         handedOut' # handedOut => request[r].pc = "pricing",
         new \in [pc : {"idle", "selecting", "creating", "pricing"},
                  miner : Payers \cup {NoPayer}, index : 0..MaxIndex],
         new.pc # "idle" => new.miner \in Payers,
         new.pc = "pricing" => new.index # 0 /\ subaddress[new.miner] = new.index
  PROVE  AddressInv'
  <1> USE AddressAssumption
  <1>t. AddressTypeOK /\ OracleTypeOK' /\ IndicesAreTracked
    BY DEF AddressInv, OracleInv
  <1>1. \A s \in Requests : request'[s] = IF s = r THEN new ELSE request[s]
    BY <1>t DEF AddressTypeOK
  <1>2. request[r].pc = "pricing"
           => /\ request[r].miner \in Payers /\ request[r].index \in 1..MaxIndex
              /\ subaddress[request[r].miner] = request[r].index
    BY <1>t DEF IndicesAreTracked, AddressTypeOK
  <1>3. AddressTypeOK'
    <2>1. request' \in [Requests -> [pc : {"idle", "selecting", "creating", "inserting", "pricing"},
                                    miner : Payers \cup {NoPayer}, index : 0..MaxIndex]]
      BY <1>t DEF AddressTypeOK
    <2>2. handedOut' \subseteq Payers \X (1..MaxIndex)
      BY <1>t, <1>2 DEF AddressTypeOK
    <2>. QED  BY <1>t, <2>1, <2>2 DEF AddressTypeOK
  <1>4. IndicesAreTracked'
    BY <1>t, <1>1 DEF IndicesAreTracked
  <1>5. HandedOutIsKept'
    BY <1>2 DEF AddressInv, HandedOutIsKept
  <1>6. AddressesAreDistinct'
    BY DEF AddressInv, AddressesAreDistinct
  <1>. QED  BY <1>3, <1>4, <1>5, <1>6 DEF AddressInv

LEMMA AddressStep == AddressInv /\ [AddressNext]_paymentVars => AddressInv'
  <1> SUFFICES ASSUME AddressInv, [AddressNext]_paymentVars  PROVE AddressInv'
    OBVIOUS
  <1> USE AddressAssumption
  <1>t. AddressTypeOK /\ IndicesAreTracked /\ HandedOutIsKept /\ AddressesAreDistinct
    BY DEF AddressInv
  <1>o. OracleInv' /\ OracleTypeOK'
    BY AddressStepIsOracleStep, OracleStep DEF AddressInv, OracleInv
  <1>i. lastIndex \in Nat /\ MaxIndex \in Nat /\ \A r \in Requests : request[r].index \in Nat
    BY <1>t DEF AddressTypeOK
  <1> DEFINE Quiet == [pc : {"idle", "selecting", "creating", "pricing"},
                       miner : Payers \cup {NoPayer}, index : 0..MaxIndex]
  <1>n. NoRequest \in Quiet /\ NoRequest.pc = "idle"
    BY DEF NoRequest
  <1>1. ASSUME NEW r \in Requests, NEW m \in Payers, Ask(r, m)  PROVE AddressInv'
    <2> DEFINE selecting == [request[r] EXCEPT !.pc = "selecting", !.miner = m]
    <2>1. /\ request' = [request EXCEPT ![r] = selecting]
          /\ selecting \in Quiet /\ selecting.pc = "selecting" /\ selecting.miner = m
      BY <1>1, <1>t DEF Ask, AddressTypeOK
    <2> HIDE DEF selecting
    <2>2. PICK new \in Quiet : /\ request' = [request EXCEPT ![r] = new]
                               /\ new.pc = "selecting" /\ new.miner = m
      BY <2>1
    <2>. QED  BY <1>o, <1>1, <2>2, RequestStep DEF Ask
  <1>2. ASSUME NEW r \in Requests, SelectAddress(r)  PROVE AddressInv'
    <2>1. /\ request[r].pc = "selecting" /\ UNCHANGED <<subaddress, lastIndex, handedOut>>
          /\ request[r].miner \in Payers
      BY <1>2, <1>t DEF SelectAddress, IndicesAreTracked
    <2>2. CASE Goes(r, "creating")
      <3> DEFINE gone == [request[r] EXCEPT !.pc = "creating"]
      <3>1. /\ request' = [request EXCEPT ![r] = gone]
            /\ gone \in Quiet /\ gone.pc = "creating" /\ gone.miner \in Payers
        BY <2>1, <2>2, <1>t DEF Goes, AddressTypeOK
      <3> HIDE DEF gone
      <3>2. PICK new \in Quiet : /\ request' = [request EXCEPT ![r] = new]
                                 /\ new.pc = "creating" /\ new.miner \in Payers
        BY <3>1
      <3>. QED  BY <1>o, <2>1, <3>2, RequestStep
    <2>3. CASE subaddress[request[r].miner] # 0 /\ Learns(r, subaddress[request[r].miner])
      <3> DEFINE found == [request[r] EXCEPT !.pc = "pricing",
                                             !.index = subaddress[request[r].miner]]
      <3>1. request' = [request EXCEPT ![r] = found]
        BY <2>3, <1>t DEF Learns, AddressTypeOK
      <3>2. /\ found \in Quiet /\ found.pc = "pricing" /\ found.miner \in Payers
            /\ found.index # 0 /\ subaddress[found.miner] = found.index
        BY <2>1, <2>3, <1>t DEF AddressTypeOK
      <3> HIDE DEF found
      <3>3. PICK new \in Quiet : /\ request' = [request EXCEPT ![r] = new]
                                 /\ new.pc = "pricing" /\ new.miner \in Payers
                                 /\ new.index # 0 /\ subaddress[new.miner] = new.index
        BY <3>1, <3>2
      <3>. QED  BY <1>o, <2>1, <3>3, RequestStep
    <2>. QED  BY <1>2, <2>2, <2>3 DEF SelectAddress
  <1>3. ASSUME NEW r \in Requests, CreateAddress(r)  PROVE AddressInv'
    <2>1. /\ request[r].pc = "creating" /\ UNCHANGED <<subaddress, handedOut>>
          /\ request[r].miner \in Payers
      BY <1>3, <1>t DEF CreateAddress, IndicesAreTracked
    <2>2. /\ lastIndex' \in {lastIndex, lastIndex + 1} /\ lastIndex' \in 0..MaxIndex
          /\ \/ request' = [request EXCEPT ![r] = NoRequest]
             \/ /\ request' = [request EXCEPT ![r].pc = "inserting", ![r].index = lastIndex']
                /\ lastIndex' = lastIndex + 1
      BY <1>3, <1>t, <1>i DEF CreateAddress, Refuse, AddressTypeOK
    <2>3. PICK new \in [pc : {"idle", "inserting"}, miner : Payers \cup {NoPayer},
                        index : 0..MaxIndex] :
             /\ request' = [request EXCEPT ![r] = new]
             /\ new.pc # "idle" => /\ new.miner \in Payers /\ new.index = lastIndex'
                                   /\ lastIndex' = lastIndex + 1
      <3> DEFINE used == [request[r] EXCEPT !.pc = "inserting", !.index = lastIndex']
      <3>1. CASE request' = [request EXCEPT ![r] = NoRequest]
        <4>1. NoRequest \in [pc : {"idle", "inserting"}, miner : Payers \cup {NoPayer},
                             index : 0..MaxIndex]
          BY DEF NoRequest
        <4>. QED  BY <3>1, <4>1, <1>n
      <3>2. CASE /\ request' = [request EXCEPT ![r].pc = "inserting", ![r].index = lastIndex']
                 /\ lastIndex' = lastIndex + 1
        <4>1. request' = [request EXCEPT ![r] = used]
          BY <3>2, <1>t DEF AddressTypeOK
        <4>2. /\ used \in [pc : {"idle", "inserting"}, miner : Payers \cup {NoPayer},
                              index : 0..MaxIndex]
              /\ used.miner \in Payers /\ used.index = lastIndex'
          BY <2>1, <2>2, <1>t DEF AddressTypeOK
        <4> HIDE DEF used
        <4>. QED  BY <3>2, <4>1, <4>2
      <3>. QED  BY <2>2, <3>1, <3>2
    <2>4. \A s \in Requests : request'[s] = IF s = r THEN new ELSE request[s]
      BY <2>3, <1>t DEF AddressTypeOK
    <2>5. AddressTypeOK'
      BY <1>o, <1>t, <2>1, <2>2, <2>3 DEF AddressTypeOK
    <2>6. IndicesAreTracked'
      <3>1. \A m \in Payers : subaddress[m] \in Nat /\ subaddress[m] <= lastIndex
        BY <1>t DEF IndicesAreTracked, AddressTypeOK
      <3>2. \A m \in Payers : subaddress'[m] <= lastIndex'
        BY <1>i, <2>1, <2>2, <3>1
      <3>3. \A s \in Requests : request[s].pc = "inserting" => request[s].index <= lastIndex
        BY <1>t DEF IndicesAreTracked
      <3>4. /\ new.pc = "inserting" =>
                /\ 0 < new.index /\ new.index <= lastIndex'
                /\ \A m \in Payers : subaddress[m] # new.index
                /\ \A s \in Requests : request[s].pc = "inserting" => request[s].index # new.index
            /\ new.pc # "pricing"
        BY <1>i, <2>2, <2>3, <3>1, <3>3
      <3>5. \A s \in Requests : s # r /\ request[s].pc = "inserting"
                                  => request[s].index <= lastIndex'
        BY <1>i, <2>2, <3>3
      <3>. QED  BY <1>t, <2>1, <2>3, <2>4, <3>2, <3>4, <3>5 DEF IndicesAreTracked
    <2>7. HandedOutIsKept' /\ AddressesAreDistinct'
      BY <1>t, <2>1 DEF HandedOutIsKept, AddressesAreDistinct
    <2>. QED  BY <1>o, <2>5, <2>6, <2>7 DEF AddressInv
  <1>4. ASSUME NEW r \in Requests, InsertAddress(r)  PROVE AddressInv'
    <2> DEFINE m == request[r].miner
               kept == KeptIndex(m, request[r].index)
    <2>1. /\ request[r].pc = "inserting" /\ UNCHANGED <<lastIndex, handedOut>>
          /\ m \in Payers /\ request[r].index \in 1..MaxIndex
          /\ request[r].index <= lastIndex
      BY <1>4, <1>t DEF InsertAddress, IndicesAreTracked, AddressTypeOK
    <2>2. CASE Refuse(r) /\ UNCHANGED subaddress
      BY <1>n, <1>o, <2>1, <2>2, RequestStep DEF Refuse
    <2>3. CASE subaddress' = [subaddress EXCEPT ![m] = kept] /\ (Learns(r, kept) \/ Refuse(r))
      <3>1. /\ kept \in 1..MaxIndex /\ kept <= lastIndex
            /\ subaddress[m] # 0 => kept = subaddress[m]
            /\ subaddress[m] = 0 => kept = request[r].index
        BY <1>i, <1>t, <2>1 DEF KeptIndex, AddressTypeOK, IndicesAreTracked
      <3>2. PICK new \in Quiet :
               /\ request' = [request EXCEPT ![r] = new]
               /\ new.pc \in {"idle", "pricing"}
               /\ new.pc = "pricing" => new.miner = m /\ new.index = kept
        <4> DEFINE learnt == [request[r] EXCEPT !.pc = "pricing", !.index = kept]
        <4>1. CASE Refuse(r)
          BY <1>n, <4>1 DEF Refuse
        <4>2. CASE Learns(r, kept)
          <5>1. request' = [request EXCEPT ![r] = learnt]
            BY <4>2, <1>t DEF Learns, AddressTypeOK
          <5>2. /\ learnt \in Quiet /\ learnt.pc = "pricing"
                /\ learnt.miner = m /\ learnt.index = kept
            BY <2>1, <3>1, <1>t DEF AddressTypeOK
          <5> HIDE DEF learnt
          <5>. QED  BY <5>1, <5>2
        <4>. QED  BY <2>3, <4>1, <4>2
      <3> HIDE DEF m, kept, Quiet
      <3>3. \A s \in Requests : request'[s] = IF s = r THEN new ELSE request[s]
        BY <3>2, <1>t DEF AddressTypeOK
      <3>4. \A n \in Payers : subaddress'[n] = IF n = m THEN kept ELSE subaddress[n]
        BY <2>3, <1>t DEF AddressTypeOK
      <3>5. subaddress' \in [Payers -> 0..MaxIndex]
        BY <2>3, <3>1, <1>t DEF AddressTypeOK
      <3>6. AddressTypeOK'
        BY <1>o, <1>t, <2>1, <3>2, <3>5 DEF AddressTypeOK, Quiet
      <3>7. /\ \A n \in Payers : subaddress[n] <= lastIndex
            /\ \A s \in Requests : s # r /\ request[s].pc = "inserting"
                  => /\ \A n \in Payers : subaddress[n] # request[s].index
                     /\ request[s].index # request[r].index
        BY <1>t, <2>1 DEF IndicesAreTracked
      <3>8. \A n \in Payers : subaddress'[n] <= lastIndex'
        BY <2>1, <3>1, <3>4, <3>7
      <3>9. \A s \in Requests : s # r /\ request[s].pc = "inserting"
                => \A n \in Payers : subaddress'[n] # request[s].index
        BY <2>1, <3>1, <3>4, <3>7
      <3>10. \A s \in Requests : s # r /\ request[s].pc = "pricing"
                => subaddress'[request[s].miner] = request[s].index
        BY <1>t, <2>1, <3>1, <3>4 DEF IndicesAreTracked
      <3>11. new.pc = "pricing" => /\ new.miner \in Payers /\ new.index # 0
                                   /\ subaddress'[new.miner] = new.index
        BY <2>1, <3>1, <3>2, <3>4
      <3>12. IndicesAreTracked'
        BY <1>t, <2>1, <3>2, <3>3, <3>8, <3>9, <3>10, <3>11 DEF IndicesAreTracked
      <3>13. HandedOutIsKept'
        BY <1>t, <2>1, <3>1, <3>4 DEF HandedOutIsKept, AddressTypeOK
      <3>14. AddressesAreDistinct'
        <4>1. \A n \in Payers : n # m => subaddress[n] # kept
          <5>1. subaddress[m] = 0 => kept = request[r].index
            BY <3>1
          <5>2. subaddress[m] # 0 => kept = subaddress[m]
            BY <3>1
          <5>3. \A n \in Payers : subaddress[n] # request[r].index
            BY <1>t, <2>1 DEF IndicesAreTracked
          <5>4. \A n \in Payers : n # m /\ subaddress[m] # 0 => subaddress[n] # subaddress[m]
            BY <1>t, <2>1 DEF AddressesAreDistinct
          <5>. QED  BY <5>1, <5>2, <5>3, <5>4
        <4>. QED  BY <1>t, <2>1, <3>4, <4>1 DEF AddressesAreDistinct
      <3>. QED  BY <1>o, <3>6, <3>12, <3>13, <3>14 DEF AddressInv
    <2>. QED  BY <1>4, <2>2, <2>3 DEF InsertAddress
  <1>5. ASSUME NEW r \in Requests, AnswerRequest(r)  PROVE AddressInv'
    BY <1>n, <1>o, <1>5, RequestStep DEF AnswerRequest, Refuse
  <1>6. CASE UNCHANGED addressVars
    BY <1>o, <1>t, <1>6 DEF addressVars, AddressInv, AddressTypeOK, IndicesAreTracked,
                            HandedOutIsKept, AddressesAreDistinct
  <1>7. \/ UNCHANGED addressVars
        \/ \E r \in Requests : \/ SelectAddress(r) \/ CreateAddress(r) \/ InsertAddress(r)
                               \/ AnswerRequest(r) \/ \E m \in Payers : Ask(r, m)
    BY DEF AddressNext, Serve, AskPrice, paymentVars
  <1>. QED  BY <1>1, <1>2, <1>3, <1>4, <1>5, <1>6, <1>7

THEOREM AddressInvariance == AddressSpec => []AddressInv
  BY AddressInitial, AddressStep, PTL DEF AddressSpec

\* An address a miner was told stays the one in its row, whatever statements fail
\* and however many requests run.
THEOREM AddressesAreKept == AddressSpec => []HandedOutIsKept
  <1>1. AddressInv => HandedOutIsKept
    BY DEF AddressInv
  <1>. QED  BY <1>1, AddressInvariance, PTL

\* No two miners share an address, so that a transfer is credited to one of them.
THEOREM AddressesAreUnshared == AddressSpec => []AddressesAreDistinct
  <1>1. AddressInv => AddressesAreDistinct
    BY DEF AddressInv
  <1>. QED  BY <1>1, AddressInvariance, PTL

-----------------------------------------------------------------------------
(* The price backfills.                                                    *)

\* The values that stand for no price, and the days, are distinct.
LEMMA PriceValues == /\ \A d \in Days : d \in Nat /\ d # 0
                     /\ Null = -1 /\ Live = -2 /\ Zero = 0 /\ NotAsked = -3
                     /\ \A d \in Days : d # Null /\ d # Live /\ d # Zero /\ d # NotAsked
                     /\ Null # Live /\ Null # Zero /\ Null # NotAsked
                     /\ Zero \notin Days /\ Live \notin Days /\ Null \notin Days
  BY BackfillAssumption DEF Null, Live, Zero, NotAsked

\* A request is changed in what it remembers and in the rows it has left.
BackfillRecord == [table : {{}, Payments, Transfers}, todo : SUBSET Rows,
                   priceCache : [Days -> Prices \cup {NotAsked}]]

\* The prices of the rows, and what the requests remember, one by one.
RowPriced(r) == /\ {usd[r], cad[r]} \cap Days \subseteq {created[r]}
                /\ r \in Payments => (usd[r] # Null => cad[r] # Null)
                /\ r \in Transfers => (cad[r] # Null => usd[r] # Null)

BackfillInv == BackfillTypeOK /\ CacheTracked /\ \A r \in Rows : RowPriced(r)

LEMMA BackfillInitial == BackfillInit => BackfillInv
  <1> SUFFICES ASSUME BackfillInit  PROVE BackfillInv
    OBVIOUS
  <1>1. PICK old \in SUBSET Transfers :
           /\ row = [r \in Rows |-> IF r \in old THEN "present" ELSE "new"]
           /\ \E priced \in SUBSET old : usd = [r \in Rows |-> IF r \in priced THEN Live ELSE Null]
    BY DEF BackfillInit
  <1>2. PICK priced \in SUBSET old : usd = [r \in Rows |-> IF r \in priced THEN Live ELSE Null]
    BY <1>1
  <1>3. created \in [Rows -> Days] /\ row \in [Rows -> {"new", "present", "deleted"}]
    BY <1>1 DEF BackfillInit
  <1>4. cad = [r \in Rows |-> Null] /\ usd \in [Rows -> Prices] /\ cad \in [Rows -> Prices]
    BY <1>2 DEF BackfillInit, Prices
  <1>5. /\ backfill \in [Backfills -> BackfillRecord]
        /\ \A b \in Backfills : backfill[b].todo \subseteq backfill[b].table
        /\ asked \in [Backfills -> [Days -> Nat]]
    BY DEF BackfillInit, NoBackfill, NothingAsked, BackfillRecord
  <1>6. CacheTracked
    BY DEF BackfillInit, CacheTracked, NoBackfill, NothingAsked
  <1>7. ASSUME NEW r \in Rows  PROVE RowPriced(r)
    BY <1>2, <1>4, <1>7, PriceValues, BackfillAssumption DEF RowPriced
  <1>. QED  BY <1>3, <1>4, <1>5, <1>6, <1>7 DEF BackfillInv, BackfillTypeOK, BackfillRecord

\* A step that changes the prices of one row.
LEMMA PriceStep ==
  ASSUME BackfillInv, NEW r \in Rows, NEW u \in Prices, NEW c \in Prices,
         usd' = [usd EXCEPT ![r] = u], cad' = [cad EXCEPT ![r] = c],
         UNCHANGED <<created, asked>>,
         row' \in [Rows -> {"new", "present", "deleted"}],
         backfill' \in [Backfills -> BackfillRecord],
         \A b \in Backfills : backfill'[b].todo \subseteq backfill'[b].table,
         \A b \in Backfills : backfill'[b].priceCache = backfill[b].priceCache,
         {u, c} \cap Days \subseteq {created[r]},
         r \in Payments => (u # Null => c # Null),
         r \in Transfers => (c # Null => u # Null)
  PROVE  BackfillInv'
  <1>1. usd \in [Rows -> Prices] /\ cad \in [Rows -> Prices]
    BY DEF BackfillInv, BackfillTypeOK
  <1>2. usd' \in [Rows -> Prices] /\ cad' \in [Rows -> Prices]
    BY <1>1
  <1>3. BackfillTypeOK'
    BY <1>2 DEF BackfillInv, BackfillTypeOK, BackfillRecord
  <1>4. CacheTracked'
    BY DEF BackfillInv, CacheTracked
  <1>5. ASSUME NEW s \in Rows  PROVE RowPriced(s)'
    <2>1. CASE s = r
      <3>1. usd'[s] = u /\ cad'[s] = c
        BY <1>1, <2>1
      <3>. QED  BY <2>1, <3>1 DEF RowPriced
    <2>2. CASE s # r
      <3>1. usd'[s] = usd[s] /\ cad'[s] = cad[s]
        BY <1>1, <2>2
      <3>. QED  BY <3>1 DEF RowPriced, BackfillInv
    <2>. QED  BY <2>1, <2>2
  <1>. QED  BY <1>3, <1>4, <1>5 DEF BackfillInv

\* A step that changes nothing but a request.
LEMMA BackfillStep ==
  ASSUME BackfillInv, UNCHANGED <<created, row, prices>>,
         NEW b \in Backfills, NEW new \in BackfillRecord, NEW count \in [Days -> Nat],
         backfill' = [backfill EXCEPT ![b] = new], asked' = [asked EXCEPT ![b] = count],
         new.todo \subseteq new.table,
         \A d \in Days : /\ new.priceCache[d] \in {d, Zero, Null, NotAsked}
                         /\ count[d] = IF new.priceCache[d] = NotAsked THEN 0 ELSE 1
  PROVE  BackfillInv'
  <1>1. backfill \in [Backfills -> BackfillRecord] /\ asked \in [Backfills -> [Days -> Nat]]
    BY DEF BackfillInv, BackfillTypeOK, BackfillRecord
  <1>2. /\ \A x \in Backfills : backfill'[x] = IF x = b THEN new ELSE backfill[x]
        /\ \A x \in Backfills : asked'[x] = IF x = b THEN count ELSE asked[x]
        /\ backfill' \in [Backfills -> BackfillRecord] /\ asked' \in [Backfills -> [Days -> Nat]]
    BY <1>1
  <1>3. BackfillTypeOK'
    BY <1>2 DEF BackfillInv, BackfillTypeOK, BackfillRecord, prices
  <1>4. CacheTracked'
    BY <1>2 DEF BackfillInv, CacheTracked
  <1>. QED  BY <1>3, <1>4 DEF BackfillInv, RowPriced, prices

LEMMA BackfillNextStep == BackfillInv /\ [BackfillNext]_backfillVars => BackfillInv'
  <1> SUFFICES ASSUME BackfillInv, [BackfillNext]_backfillVars  PROVE BackfillInv'
    OBVIOUS
  <1>t. /\ created \in [Rows -> Days] /\ row \in [Rows -> {"new", "present", "deleted"}]
        /\ usd \in [Rows -> Prices] /\ cad \in [Rows -> Prices]
        /\ backfill \in [Backfills -> BackfillRecord]
        /\ \A b \in Backfills : backfill[b].todo \subseteq backfill[b].table
        /\ asked \in [Backfills -> [Days -> Nat]]
    BY DEF BackfillInv, BackfillTypeOK, BackfillRecord
  <1>v. {Null, Live, Zero} \subseteq Prices /\ Days \subseteq Prices
    BY DEF Prices
  <1>1. CASE UNCHANGED backfillVars
    BY <1>1 DEF BackfillInv, BackfillTypeOK, CacheTracked, RowPriced, backfillVars
  <1>2. ASSUME NEW r \in Payments, WritePayment(r)  PROVE BackfillInv'
    <2>1. PICK price \in {Null, Live} : /\ usd' = [usd EXCEPT ![r] = price]
                                        /\ cad' = [cad EXCEPT ![r] = price]
      BY <1>2 DEF WritePayment
    <2>2. row' \in [Rows -> {"new", "present", "deleted"}] /\ UNCHANGED <<created, backfill, asked>>
      BY <1>2, <1>t DEF WritePayment
    <2>3. r \in Rows /\ price \in Prices /\ {price, price} \cap Days = {}
      BY <1>v, PriceValues DEF Rows
    <2>. QED  BY <1>t, <2>1, <2>2, <2>3, PriceStep
  <1>3. ASSUME NEW r \in Transfers, WriteTransfer(r)  PROVE BackfillInv'
    <2>1. PICK price \in {Null, Live} : /\ usd' = [usd EXCEPT ![r] = Filled(usd[r], price)]
                                        /\ cad' = [cad EXCEPT ![r] = Filled(cad[r], price)]
      BY <1>3 DEF WriteTransfer
    <2>2. row' \in [Rows -> {"new", "present", "deleted"}] /\ UNCHANGED <<created, backfill, asked>>
      BY <1>3, <1>t DEF WriteTransfer
    <2>3. r \in Rows /\ r \notin Payments /\ RowPriced(r)
      BY BackfillAssumption DEF Rows, BackfillInv
    <2>4. /\ Filled(usd[r], price) \in Prices /\ Filled(cad[r], price) \in Prices
          /\ {Filled(usd[r], price), Filled(cad[r], price)} \cap Days \subseteq {created[r]}
      BY <1>t, <1>v, <2>3, PriceValues DEF RowPriced, Filled
    <2>5. Filled(cad[r], price) # Null => Filled(usd[r], price) # Null
      BY <2>3 DEF RowPriced, Filled
    <2>. QED  BY <1>t, <2>1, <2>2, <2>3, <2>4, <2>5, PriceStep
  <1>4. ASSUME NEW r \in Rows, DeleteRow(r)  PROVE BackfillInv'
    <2>1. row' \in [Rows -> {"new", "present", "deleted"}]
      BY <1>4, <1>t DEF DeleteRow
    <2>. QED  BY <1>4, <2>1 DEF DeleteRow, BackfillInv, BackfillTypeOK, CacheTracked, RowPriced, prices
  <1>5. ASSUME NEW b \in Backfills, NEW table \in {Payments, Transfers}, StartBackfill(b, table)
        PROVE  BackfillInv'
    <2>. DEFINE new == [NoBackfill EXCEPT !.table = table, !.todo = Unpriced(table)]
    <2>1. Unpriced(table) \subseteq table /\ Unpriced(table) \subseteq Rows
      BY DEF Unpriced, Rows
    <2>2. /\ new \in BackfillRecord /\ new.todo \subseteq new.table
          /\ new.priceCache = [d \in Days |-> NotAsked]
      BY <2>1 DEF NoBackfill, BackfillRecord
    <2>3. backfill' = [backfill EXCEPT ![b] = new] /\ asked' = [asked EXCEPT ![b] = NothingAsked]
      BY <1>5 DEF StartBackfill
    <2>4. UNCHANGED <<created, row, prices>>
      BY <1>5 DEF StartBackfill
    <2>. HIDE DEF new
    <2>5. NothingAsked \in [Days -> Nat] /\ \A d \in Days : NothingAsked[d] = 0
      BY DEF NothingAsked
    <2>. QED  BY <2>2, <2>3, <2>4, <2>5, BackfillStep
  <1>6. ASSUME NEW b \in Backfills, NEW r \in Rows, FetchHistory(b, r)  PROVE BackfillInv'
    <2>. DEFINE day == created[r]
                count == [asked[b] EXCEPT ![day] = asked[b][day] + 1]
                new(price, left) == [backfill[b] EXCEPT !.priceCache[day] = price, !.todo = left]
    <2>1. /\ day \in Days /\ backfill[b] \in BackfillRecord
          /\ backfill[b].priceCache[day] = NotAsked /\ asked[b] \in [Days -> Nat]
      BY <1>6, <1>t DEF FetchHistory, Cached
    <2>2. asked[b][day] = 0
      BY <2>1 DEF BackfillInv, CacheTracked
    <2>3. /\ count \in [Days -> Nat] /\ count[day] = 1
          /\ \A d \in Days : d # day => count[d] = asked[b][d]
      BY <2>1, <2>2
    <2>4. PICK price \in {day, Zero, Null}, left \in {backfill[b].todo, backfill[b].todo \ {r}} :
             backfill' = [backfill EXCEPT ![b] = new(price, left)]
      <3>1. CASE \E price \in {day, Zero} :
                   backfill' = [backfill EXCEPT ![b].priceCache[day] = price]
        <4>1. PICK price \in {day, Zero} :
                 backfill' = [backfill EXCEPT ![b].priceCache[day] = price]
          BY <3>1
        <4>2. new(price, backfill[b].todo) = [backfill[b] EXCEPT !.priceCache[day] = price]
          BY <2>1 DEF BackfillRecord
        <4>. QED  BY <4>1, <4>2
      <3>2. CASE backfill' = [backfill EXCEPT ![b].priceCache[day] = Null,
                                              ![b].todo = backfill[b].todo \ {r}]
        BY <3>2, <1>t
      <3>. QED  BY <1>6, <3>1, <3>2 DEF FetchHistory
    <2>5. /\ new(price, left).todo = left /\ new(price, left).table = backfill[b].table
          /\ new(price, left).priceCache = [backfill[b].priceCache EXCEPT ![day] = price]
          /\ new(price, left) \in BackfillRecord
      BY <1>v, <2>1, <2>4 DEF BackfillRecord
    <2>6. /\ new(price, left).todo \subseteq new(price, left).table
          /\ \A d \in Days : new(price, left).priceCache[d]
                                = IF d = day THEN price ELSE backfill[b].priceCache[d]
      BY <1>t, <2>1, <2>4, <2>5 DEF BackfillRecord
    <2>7. asked' = [asked EXCEPT ![b] = count] /\ UNCHANGED <<created, row, prices>>
      BY <1>6, <1>t DEF FetchHistory
    <2>8. \A d \in Days : /\ backfill[b].priceCache[d] \in {d, Zero, Null, NotAsked}
                          /\ asked[b][d] = IF backfill[b].priceCache[d] = NotAsked THEN 0 ELSE 1
      BY DEF BackfillInv, CacheTracked
    <2>9. price # NotAsked
      BY <2>1, <2>4, PriceValues
    <2>. HIDE DEF count, new
    <2>10. \A d \in Days : /\ new(price, left).priceCache[d] \in {d, Zero, Null, NotAsked}
                           /\ count[d] = IF new(price, left).priceCache[d] = NotAsked THEN 0 ELSE 1
      BY <2>1, <2>3, <2>4, <2>6, <2>8, <2>9
    <2>11. PICK x \in BackfillRecord, n \in [Days -> Nat] : x = new(price, left) /\ n = count
      BY <2>3, <2>5
    <2>12. backfill' = [backfill EXCEPT ![b] = x] /\ asked' = [asked EXCEPT ![b] = n]
      BY <2>4, <2>7, <2>11
    <2>13. /\ x.todo \subseteq x.table
           /\ \A d \in Days : /\ x.priceCache[d] \in {d, Zero, Null, NotAsked}
                              /\ n[d] = IF x.priceCache[d] = NotAsked THEN 0 ELSE 1
      BY <2>6, <2>10, <2>11
    <2>. QED  BY ZenonT(60), <2>7, <2>12, <2>13, BackfillStep
  <1>7. ASSUME NEW b \in Backfills, NEW r \in Rows, UpdateRow(b, r)  PROVE BackfillInv'
    <2>1. /\ backfill' = [backfill EXCEPT ![b].todo = backfill[b].todo \ {r}]
          /\ UNCHANGED <<created, row, asked>>
      BY <1>7 DEF UpdateRow
    <2>2. /\ backfill' \in [Backfills -> BackfillRecord]
          /\ \A x \in Backfills : /\ backfill'[x].todo \subseteq backfill'[x].table
                                  /\ backfill'[x].priceCache = backfill[x].priceCache
      BY <1>t, <2>1 DEF BackfillRecord
    <2>3. CASE UNCHANGED prices
      <3>1. BackfillTypeOK'
        BY <1>t, <2>1, <2>2, <2>3 DEF BackfillTypeOK, BackfillRecord, prices
      <3>2. CacheTracked'
        BY <2>1, <2>2 DEF BackfillInv, CacheTracked
      <3>. QED  BY <2>1, <2>3, <3>1, <3>2 DEF BackfillInv, RowPriced, prices
    <2>4. CASE Cached(b, r) # Null /\ PutPrice(r, Cached(b, r))
      <3>. DEFINE price == Cached(b, r)
      <3>1. price \in {created[r], Zero}
        BY <1>7, <1>t, <2>4 DEF UpdateRow, BackfillInv, CacheTracked, Cached
      <3>2. RowPriced(r) /\ price # Null /\ price \in Prices /\ {price} \cap Days \subseteq {created[r]}
        BY <1>v, <1>t, <2>4, <3>1, PriceValues DEF BackfillInv
      <3>. DEFINE u == IF r \in Transfers THEN Filled(usd[r], price) ELSE price
      <3>3. /\ usd' = [usd EXCEPT ![r] = u] /\ cad' = [cad EXCEPT ![r] = price]
        BY <2>4 DEF PutPrice
      <3>. HIDE DEF price
      <3>4. u \in Prices /\ {u, price} \cap Days \subseteq {created[r]} /\ u # Null
        BY <1>t, <3>2 DEF Filled, RowPriced
      <3>. HIDE DEF u
      <3>. QED  BY <1>t, <2>1, <2>2, <3>2, <3>3, <3>4, PriceStep
    <2>. QED  BY <1>7, <2>3, <2>4 DEF UpdateRow
  <1>. QED  BY <1>1, <1>2, <1>3, <1>4, <1>5, <1>6, <1>7 DEF BackfillNext

THEOREM BackfillInvariance == BackfillSpec => []BackfillInv
  BY BackfillInitial, BackfillNextStep, PTL DEF BackfillSpec

\* A price that was looked up is that of its own day, and a day is asked for once.
THEOREM BackfillsArePrecise == BackfillSpec => []OneLookupPerDay
  <1>1. BackfillInv => OneLookupPerDay
    <2> SUFFICES ASSUME BackfillInv  PROVE OneLookupPerDay
      OBVIOUS
    <2>1. \A b \in Backfills : \A d \in Days : asked[b][d] <= 1
      BY DEF BackfillInv, CacheTracked
    <2>. QED  BY <2>1 DEF BackfillInv, RowPriced, OneLookupPerDay
  <1>. QED  BY <1>1, BackfillInvariance, PTL

\* No row keeps a price in one currency that no backfill would complete.
THEOREM PricesAreCompletable == BackfillSpec => []NoHalfPriceIsStuck
  <1>1. BackfillInv => NoHalfPriceIsStuck
    BY DEF BackfillInv, RowPriced, NoHalfPriceIsStuck, Rows
  <1>. QED  BY <1>1, BackfillInvariance, PTL

\* Nothing rewrites the price at which a transfer was credited.
THEOREM CreditIsNotRewritten == BackfillSpec => CreditedPriceKept
  <1>1. BackfillInv /\ [BackfillNext]_backfillVars
          => [\A r \in Transfers : usd[r] # Null => usd'[r] = usd[r]]_backfillVars
    <2> SUFFICES ASSUME BackfillInv, BackfillNext, NEW r \in Transfers, usd[r] # Null
                 PROVE  usd'[r] = usd[r]
      OBVIOUS
    <2>1. usd \in [Rows -> Prices] /\ r \in Rows /\ r \notin Payments
      BY BackfillAssumption DEF BackfillInv, BackfillTypeOK, Rows
    <2>2. ASSUME NEW s \in Payments, WritePayment(s)  PROVE usd'[r] = usd[r]
      BY <2>1, <2>2 DEF WritePayment
    <2>3. ASSUME NEW s \in Transfers, WriteTransfer(s)  PROVE usd'[r] = usd[r]
      BY <2>1, <2>3 DEF WriteTransfer, Filled
    <2>4. ASSUME NEW s \in Rows, DeleteRow(s)  PROVE usd'[r] = usd[r]
      BY <2>4 DEF DeleteRow, prices
    <2>5. ASSUME NEW b \in Backfills, NEW table \in {Payments, Transfers}, StartBackfill(b, table)
          PROVE  usd'[r] = usd[r]
      BY <2>5 DEF StartBackfill, prices
    <2>6. ASSUME NEW b \in Backfills, NEW s \in Rows, FetchHistory(b, s)  PROVE usd'[r] = usd[r]
      BY <2>6 DEF FetchHistory, prices
    <2>7. ASSUME NEW b \in Backfills, NEW s \in Rows, UpdateRow(b, s)  PROVE usd'[r] = usd[r]
      BY <2>1, <2>7 DEF UpdateRow, PutPrice, Filled, prices
    <2>. QED  BY <2>2, <2>3, <2>4, <2>5, <2>6, <2>7 DEF BackfillNext
  <1>. QED  BY <1>1, BackfillInitial, BackfillNextStep, PTL DEF BackfillSpec, CreditedPriceKept

\* The payments that a handler has left have no price while no other handler runs.
LEMMA LeftUnpricedStep ==
  ASSUME \A b, c \in Backfills : b = c
  PROVE  BackfillInv /\ LeftUnpriced /\ [BackfillNext]_backfillVars
           => /\ LeftUnpriced'
              /\ \A r \in Payments : usd[r] # Null => usd'[r] = usd[r]
  <1> SUFFICES ASSUME BackfillInv, LeftUnpriced, [BackfillNext]_backfillVars, NEW r \in Payments
               PROVE  /\ row'[r] = "new" => usd'[r] = Null
                      /\ \A b \in Backfills :
                            r \in backfill'[b].todo => row'[r] # "new" /\ usd'[r] = Null
                      /\ usd[r] # Null => usd'[r] = usd[r]
    BY DEF LeftUnpriced
  <1> DEFINE Kept == /\ row'[r] = "new" => usd'[r] = Null
                     /\ \A b \in Backfills :
                           r \in backfill'[b].todo => row'[r] # "new" /\ usd'[r] = Null
                     /\ usd[r] # Null => usd'[r] = usd[r]
  <1>t. /\ usd \in [Rows -> Prices] /\ row \in [Rows -> {"new", "present", "deleted"}]
        /\ backfill \in [Backfills -> BackfillRecord]
        /\ r \in Rows /\ r \notin Transfers
    BY BackfillAssumption DEF BackfillInv, BackfillTypeOK, BackfillRecord, Rows
  <1>l. /\ row[r] = "new" => usd[r] = Null
        /\ \A b \in Backfills : r \in backfill[b].todo => row[r] # "new" /\ usd[r] = Null
    BY DEF LeftUnpriced
  <1>u. ASSUME usd'[r] = usd[r], row[r] # "new" => row'[r] # "new",
               row[r] = "new" => row'[r] = "new",
               \A b \in Backfills : backfill'[b].todo \subseteq backfill[b].todo
        PROVE  Kept
    BY <1>l, <1>u
  <1>1. CASE UNCHANGED backfillVars
    BY <1>1, <1>u DEF backfillVars
  <1>2. ASSUME NEW s \in Payments, WritePayment(s)  PROVE Kept
    <2>1. /\ backfill' = backfill /\ row[s] = "new" /\ row' = [row EXCEPT ![s] = "present"]
          /\ \A x \in Rows : x # s => usd'[x] = usd[x]
      BY <1>2, <1>t DEF WritePayment
    <2>2. CASE r = s
      BY <1>l, <1>t, <2>1, <2>2
    <2>3. CASE r # s
      BY <1>t, <1>u, <2>1, <2>3
    <2>. QED  BY <2>2, <2>3
  <1>3. ASSUME NEW s \in Transfers, WriteTransfer(s)  PROVE Kept
    <2>1. r # s /\ backfill' = backfill
      BY <1>3, <1>t DEF WriteTransfer
    <2>2. row'[r] = row[r] /\ usd'[r] = usd[r]
      BY <1>3, <1>t, <2>1 DEF WriteTransfer
    <2>. QED  BY <1>u, <2>1, <2>2
  <1>4. ASSUME NEW s \in Rows, DeleteRow(s)  PROVE Kept
    <2>1. /\ usd' = usd /\ backfill' = backfill
          /\ row[s] = "present" /\ row' = [row EXCEPT ![s] = "deleted"]
      BY <1>4 DEF DeleteRow, prices
    <2>. QED  BY <1>t, <1>u, <2>1
  <1>5. ASSUME NEW c \in Backfills, NEW table \in {Payments, Transfers}, StartBackfill(c, table)
        PROVE  Kept
    <2>1. UNCHANGED <<row, usd>>
      BY <1>5 DEF StartBackfill, prices
    <2>2. ASSUME NEW b \in Backfills, r \in backfill'[b].todo
          PROVE  row[r] # "new" /\ usd[r] = Null
      <3>1. b = c
        OBVIOUS
      <3>2. r \in Unpriced(table)
        BY <1>5, <1>t, <2>2, <3>1 DEF StartBackfill, NoBackfill
      <3>3. r \in table /\ row[r] = "present" /\ (table = Payments => usd[r] = Null)
        BY <3>2 DEF Unpriced
      <3>. QED  BY <1>t, <3>3
    <2>. QED  BY <1>l, <2>1, <2>2
  <1>6. ASSUME NEW c \in Backfills, NEW s \in Rows, FetchHistory(c, s)  PROVE Kept
    <2>1. UNCHANGED <<row, usd>>
      BY <1>6 DEF FetchHistory, prices
    <2>2. \A b \in Backfills : backfill'[b].todo \subseteq backfill[b].todo
      BY <1>6, <1>t DEF FetchHistory, BackfillRecord
    <2>. QED  BY <1>u, <2>1, <2>2
  <1>7. ASSUME NEW c \in Backfills, NEW s \in Rows, UpdateRow(c, s)  PROVE Kept
    <2>1. /\ row' = row /\ s \in backfill[c].todo
          /\ backfill' = [backfill EXCEPT ![c].todo = backfill[c].todo \ {s}]
      BY <1>7 DEF UpdateRow, Reached
    <2>2. CASE r = s
      <3>1. row[r] # "new" /\ usd[r] = Null
        BY <1>l, <2>1, <2>2
      <3>2. \A b \in Backfills : b = c /\ r \notin backfill'[b].todo
        BY <1>t, <2>1, <2>2 DEF BackfillRecord
      <3>. QED  BY <2>1, <3>1, <3>2
    <2>3. CASE r # s
      <3>1. usd'[r] = usd[r]
        BY <1>7, <1>t, <2>3 DEF UpdateRow, PutPrice, prices
      <3>2. \A b \in Backfills : backfill'[b].todo \subseteq backfill[b].todo
        BY <1>t, <2>1 DEF BackfillRecord
      <3>. QED  BY <1>u, <2>1, <3>1, <3>2
    <2>. QED  BY <2>2, <2>3
  <1>. QED  BY <1>1, <1>2, <1>3, <1>4, <1>5, <1>6, <1>7 DEF BackfillNext

\* A payment's price is only rewritten by a second handler at the same time: one
\* handler, beside the scanners and deletions, fills in what is missing.
THEOREM OneBackfillKeepsPrices ==
  ASSUME \A b, c \in Backfills : b = c
  PROVE  BackfillSpec => PaymentPriceKept
  <1>1. BackfillInit => LeftUnpriced
    <2> SUFFICES ASSUME BackfillInit  PROVE LeftUnpriced
      OBVIOUS
    <2>1. PICK priced \in SUBSET Transfers : usd = [x \in Rows |-> IF x \in priced THEN Live ELSE Null]
      BY DEF BackfillInit
    <2>2. \A r \in Payments : usd[r] = Null
      BY <2>1, BackfillAssumption DEF Rows
    <2>3. \A b \in Backfills : backfill[b].todo = {}
      BY DEF BackfillInit, NoBackfill
    <2>. QED  BY <2>2, <2>3 DEF LeftUnpriced
  <1>2. BackfillInv /\ LeftUnpriced /\ [BackfillNext]_backfillVars
          => LeftUnpriced' /\ [\A r \in Payments : usd[r] # Null => usd'[r] = usd[r]]_backfillVars
    BY LeftUnpricedStep
  <1>. QED  BY <1>1, <1>2, BackfillInitial, BackfillNextStep, PTL DEF BackfillSpec, PaymentPriceKept

-----------------------------------------------------------------------------
(* The shared nodes.                                                       *)

LEMMA NodeInitial == NodeInit => NodeInv
  <1> SUFFICES ASSUME NodeInit  PROVE NodeInv
    OBVIOUS
  <1> USE NodePoolAssumption
  <1>1. 0 \in Checks /\ NoCheck \in Checks /\ 1 \in 1..Len(Statements)
    <2>1. Len(Statements) = 2
      BY DEF Statements
    <2>. QED  BY <2>1 DEF Checks, NoCheck
  <1>2. <<>> \in [{} -> Summaries] /\ DOMAIN <<>> = {}
    OBVIOUS
  <1>3. <<>> \in Answers
    BY <1>2 DEF Answers
  <1>4. /\ NoVisit \in [pc : {"idle", "querying", "reading"}, todo : SUBSET Nodes, answer : Answers]
        /\ NoVisit.todo = {} /\ NoVisit.answer = <<>>
    BY <1>3 DEF NoVisit
  <1>5. /\ visit \in [Visitors -> [pc : {"idle", "querying", "reading"}, todo : SUBSET Nodes,
                                  answer : Answers]]
        /\ \A v \in Visitors : visit[v].todo = {} /\ DOMAIN visit[v].answer = {}
    BY <1>2, <1>4 DEF NodeInit
  <1>6. /\ checker \in [pc : {"waiting", "choosing", "asking", "writing"}, todo : SUBSET Nodes,
                       node : Nodes, check : Checks, next : 1..Len(Statements)]
        /\ checker.pc = "choosing" /\ checker.check = 0
    BY <1>1 DEF NodeInit, NoCheck
  <1>7. NodeTypeOK
    BY <1>1, <1>5, <1>6 DEF NodeInit, NodeTypeOK
  <1>8. LogIsWrittenFirst
    BY <1>5, <1>6 DEF NodeInit, LogIsWrittenFirst, Logged, NoCheck
  <1>9. StatsFollowStatus
    BY <1>5 DEF StatsFollowStatus
  <1>. QED  BY <1>7, <1>8, <1>9 DEF NodeInv

VisitRecord == [pc : {"idle", "querying", "reading"}, todo : SUBSET Nodes, answer : Answers]

\* What a request may hold of a row: not looked up yet, or with statistics that are
\* not from before its status.
RowFollows(n, left, shown) ==
    /\ n \in left => shown.stats = NoCheck /\ Logged(n, shown.status)
    /\ n \notin left /\ shown.stats # NoCheck
          => shown.stats >= shown.status \/ shown.status \in unlogged

\* The steps of a request: the tables and the checker are untouched, and the rows
\* of its new answer follow the log.
LEMMA VisitStep ==
  ASSUME NodeInv, UNCHANGED unread, NEW v \in Visitors, NEW new \in VisitRecord,
         visit' = [visit EXCEPT ![v] = new],
         new.todo \subseteq DOMAIN new.answer,
         \A n \in DOMAIN new.answer : RowFollows(n, new.todo, new.answer[n])
  PROVE  NodeInv'
  <1>1. \A w \in Visitors : visit'[w] = IF w = v THEN new ELSE visit[w]
    BY DEF NodeInv, NodeTypeOK
  <1>2. UNCHANGED <<name, running, health, log, checker, unlogged>>
    BY DEF unread
  <1>3. NodeTypeOK'
    BY <1>1, <1>2 DEF NodeInv, NodeTypeOK, VisitRecord
  <1>4. LogIsWrittenFirst'
    BY <1>1, <1>2 DEF NodeInv, LogIsWrittenFirst, Logged, RowFollows
  <1>5. StatsFollowStatus'
    BY <1>1, <1>2 DEF NodeInv, StatsFollowStatus, RowFollows
  <1>. QED  BY <1>3, <1>4, <1>5 DEF NodeInv

\* The steps of the checker, and of the operator: the requests are untouched, no
\* log is lost, and what is new is logged.
LEMMA CheckStep ==
  ASSUME NodeInv, NodeTypeOK', visit' = visit, unlogged \subseteq unlogged',
         \A n \in Nodes : log[n] <= log'[n] /\ log'[n] <= checker'.check,
         \A n \in Nodes : health'[n] # health[n]
            => health'[n] <= log'[n] \/ health'[n] \in unlogged',
         checker'.pc = "writing" /\ checker'.next > 1 => Logged(checker.node, checker.check)'
  PROVE  NodeInv'
  <1>1. /\ log \in [Nodes -> Checks] /\ log' \in [Nodes -> Checks]
        /\ health \in [Nodes -> Checks] /\ health' \in [Nodes -> Checks]
    BY DEF NodeInv, NodeTypeOK
  <1>2. \A n \in Nodes : \A k \in Checks : Logged(n, k) => Logged(n, k)'
    BY <1>1, NodePoolAssumption DEF Logged, Checks
  <1>3. ASSUME NEW v \in Visitors, NEW n \in DOMAIN visit[v].answer
        PROVE  visit[v].answer[n] \in Summaries /\ n \in Nodes
    BY <1>3 DEF NodeInv, NodeTypeOK, Answers
  <1>4. LogIsWrittenFirst'
    <2>1. \A n \in Nodes : log'[n] <= checker'.check
      OBVIOUS
    <2>2. \A n \in Nodes : health'[n] <= log'[n] \/ health'[n] \in unlogged'
      <3> SUFFICES ASSUME NEW n \in Nodes, health'[n] = health[n]
                   PROVE  health[n] <= log'[n] \/ health[n] \in unlogged'
        OBVIOUS
      <3>1. Logged(n, health[n]) /\ health[n] \in Checks
        BY <1>1 DEF NodeInv, LogIsWrittenFirst
      <3>. QED  BY <1>2, <3>1 DEF Logged
    <2>3. \A v \in Visitors : \A n \in visit[v].todo :
             visit[v].answer[n].stats = NoCheck /\ Logged(n, visit[v].answer[n].status)'
      <3> SUFFICES ASSUME NEW v \in Visitors, NEW n \in visit[v].todo
                   PROVE  visit[v].answer[n].stats = NoCheck
                          /\ Logged(n, visit[v].answer[n].status)'
        OBVIOUS
      <3>1. n \in DOMAIN visit[v].answer
        BY DEF NodeInv, NodeTypeOK
      <3>2. visit[v].answer[n].status \in Checks /\ n \in Nodes
        BY <1>3, <3>1 DEF Summaries
      <3>. QED  BY <1>2, <3>2 DEF NodeInv, LogIsWrittenFirst
    <2>. QED  BY <2>1, <2>2, <2>3 DEF LogIsWrittenFirst, Logged
  <1>5. StatsFollowStatus'
    BY DEF NodeInv, StatsFollowStatus
  <1>. QED  BY <1>4, <1>5 DEF NodeInv

LEMMA VisitsAreTyped ==
  ASSUME NodeInv, NEW v \in Visitors
  PROVE  /\ visit[v] \in VisitRecord /\ visit[v].todo \subseteq DOMAIN visit[v].answer
         /\ DOMAIN visit[v].answer \subseteq Nodes
         /\ visit[v].answer \in [DOMAIN visit[v].answer -> Summaries]
         /\ \A n \in DOMAIN visit[v].answer : RowFollows(n, visit[v].todo, visit[v].answer[n])
  <1>1. visit[v] \in VisitRecord /\ visit[v].todo \subseteq DOMAIN visit[v].answer
    BY DEF NodeInv, NodeTypeOK, VisitRecord
  <1>2. PICK rows \in SUBSET Nodes : visit[v].answer \in [rows -> Summaries]
    BY <1>1 DEF VisitRecord, Answers
  <1>3. \A n \in DOMAIN visit[v].answer : RowFollows(n, visit[v].todo, visit[v].answer[n])
    BY DEF NodeInv, LogIsWrittenFirst, StatsFollowStatus, RowFollows
  <1>. QED  BY <1>1, <1>2, <1>3

LEMMA NoVisitIsTyped == NoVisit \in VisitRecord /\ NoVisit.todo = {} /\ DOMAIN NoVisit.answer = {}
  <1>1. <<>> \in [{} -> Summaries] /\ DOMAIN <<>> = {}
    OBVIOUS
  <1>2. <<>> \in Answers
    BY <1>1 DEF Answers
  <1>. QED  BY <1>1, <1>2 DEF NoVisit, VisitRecord

LEMMA RequestKeepsNodes ==
  ASSUME NodeInv, NEW v \in Visitors, Visit(v) \/ GetNodesStatus(v) \/ Leave(v)
  PROVE  NodeInv'
  <1>t. /\ visit[v] \in VisitRecord /\ visit[v].todo \subseteq DOMAIN visit[v].answer
        /\ DOMAIN visit[v].answer \subseteq Nodes
        /\ visit[v].answer \in [DOMAIN visit[v].answer -> Summaries]
        /\ \A n \in DOMAIN visit[v].answer : RowFollows(n, visit[v].todo, visit[v].answer[n])
    BY SMTT(30), VisitsAreTyped
  <1>u. UNCHANGED unread
    BY DEF Visit, GetNodesStatus, QueryNodes, ReadLog, AnswerVisit, Leave
  <1>1. CASE visit' = [visit EXCEPT ![v] = NoVisit]
    BY <1>1, <1>u, NoVisitIsTyped, VisitStep
  <1>2. CASE Visit(v)
    <2> DEFINE new == [visit[v] EXCEPT !.pc = "querying"]
    <2>1. visit' = [visit EXCEPT ![v] = new]
      BY <1>2 DEF Visit, NodeInv, NodeTypeOK
    <2>2. new \in VisitRecord /\ new.todo = visit[v].todo /\ new.answer = visit[v].answer
      BY <1>t DEF VisitRecord
    <2> HIDE DEF new
    <2>. QED  BY <1>t, <1>u, <2>1, <2>2, VisitStep
  <1>3. CASE QueryNodes(v)
    <2> DEFINE rows == [n \in running |-> [status |-> health[n], stats |-> NoCheck, of |-> n]]
               new == [pc |-> "reading", todo |-> running, answer |-> rows]
    <2>1. /\ running \subseteq Nodes /\ health \in [Nodes -> Checks]
          /\ \A n \in Nodes : Logged(n, health[n])
      BY DEF NodeInv, NodeTypeOK, LogIsWrittenFirst
    <2>2. NoCheck \in Checks
      BY NodePoolAssumption DEF NoCheck, Checks
    <2>3. rows \in [running -> Summaries]
      BY <2>1, <2>2 DEF Summaries
    <2>4. rows \in Answers
      BY <2>1, <2>3 DEF Answers
    <2>5. \A n \in running : RowFollows(n, running, rows[n])
      BY <2>1 DEF RowFollows
    <2> HIDE DEF rows
    <2>6. /\ new \in VisitRecord /\ new.todo \subseteq DOMAIN new.answer
          /\ \A n \in DOMAIN new.answer : RowFollows(n, new.todo, new.answer[n])
      BY <2>1, <2>3, <2>4, <2>5 DEF VisitRecord
    <2>7. CASE visit' = [visit EXCEPT ![v] = new]
      <3> HIDE DEF new
      <3>. QED  BY <1>u, <2>6, <2>7, VisitStep
    <2>. QED  BY <1>1, <1>3, <2>7 DEF QueryNodes, rows
  <1>4. CASE ReadLog(v)
    <2>1. PICK n \in visit[v].todo :
             \/ \E m \in {p \in Nodes : name[p] = name[n]} :
                   /\ \A p \in Nodes : name[p] = name[n] => log[p] <= log[m]
                   /\ visit' = [visit EXCEPT ![v].todo = @ \ {n},
                                             ![v].answer[n] = [@ EXCEPT !.stats = log[m], !.of = m]]
             \/ visit' = [visit EXCEPT ![v].todo = @ \ {n}]
      BY <1>4 DEF ReadLog
    <2>2. /\ n \in DOMAIN visit[v].answer /\ n \in Nodes
          /\ visit[v].answer[n] \in Summaries
          /\ visit[v].answer[n].stats = NoCheck /\ Logged(n, visit[v].answer[n].status)
      BY <1>t DEF RowFollows
    <2> DEFINE left == visit[v].todo \ {n}
    <2>3. CASE visit' = [visit EXCEPT ![v].todo = @ \ {n}]
      <3> DEFINE new == [visit[v] EXCEPT !.todo = left]
      <3>1. visit' = [visit EXCEPT ![v] = new]
        BY <2>3 DEF NodeInv, NodeTypeOK
      <3>2. new \in VisitRecord /\ new.todo = left /\ new.answer = visit[v].answer
        BY <1>t DEF VisitRecord
      <3>3. \A x \in DOMAIN visit[v].answer : RowFollows(x, left, visit[v].answer[x])
        BY <1>t, <2>2 DEF RowFollows
      <3> HIDE DEF new
      <3>. QED  BY <1>t, <1>u, <3>1, <3>2, <3>3, VisitStep
    <2>4. ASSUME NEW m \in Nodes, name[m] = name[n],
                 \A p \in Nodes : name[p] = name[n] => log[p] <= log[m],
                 visit' = [visit EXCEPT ![v].todo = @ \ {n},
                                        ![v].answer[n] = [@ EXCEPT !.stats = log[m], !.of = m]]
          PROVE  NodeInv'
      <3> DEFINE shown == [visit[v].answer[n] EXCEPT !.stats = log[m], !.of = m]
                 rows == [visit[v].answer EXCEPT ![n] = shown]
                 new == [visit[v] EXCEPT !.todo = left, !.answer = rows]
      <3>1. log \in [Nodes -> Checks] /\ log[n] <= log[m]
        BY <2>2, <2>4 DEF NodeInv, NodeTypeOK
      <3>2. /\ shown \in Summaries /\ shown.stats = log[m]
            /\ shown.status = visit[v].answer[n].status
        BY <2>2, <3>1 DEF Summaries
      <3>3. visit' = [visit EXCEPT ![v] = new]
        <4>1. visit \in [Visitors -> VisitRecord]
          BY DEF NodeInv, NodeTypeOK, VisitRecord
        <4> HIDE DEF left, shown
        <4>2. visit' = [visit EXCEPT ![v] = [visit[v] EXCEPT !.todo = left,
                                   !.answer = [visit[v].answer EXCEPT ![n] = shown]]]
          BY <2>4, <4>1 DEF VisitRecord, left, shown
        <4>. QED  BY <4>2
      <3>4. /\ shown.status <= log[m] \/ shown.status \in unlogged
            /\ shown.status \in Nat /\ log[m] \in Nat
        <4>1. /\ shown.status \in Nat /\ log[m] \in Nat /\ log[n] \in Nat
          BY <2>2, <3>1, <3>2, NodePoolAssumption DEF Summaries, Checks
        <4>. QED  BY <2>2, <3>1, <3>2, <4>1 DEF Logged
      <3>5. RowFollows(n, left, shown)
        BY <3>2, <3>4 DEF RowFollows
      <3> HIDE DEF shown
      <3>6. /\ rows \in [DOMAIN visit[v].answer -> Summaries] /\ rows \in Answers
            /\ \A x \in DOMAIN visit[v].answer :
                  rows[x] = IF x = n THEN shown ELSE visit[v].answer[x]
        BY <1>t, <2>2, <3>2 DEF Answers
      <3>7. \A x \in DOMAIN visit[v].answer : RowFollows(x, left, rows[x])
        BY <1>t, <3>5, <3>6 DEF RowFollows
      <3> HIDE DEF rows
      <3>8. new \in VisitRecord /\ new.todo = left /\ new.answer = rows
        BY <1>t, <3>6 DEF VisitRecord
      <3> HIDE DEF new
      <3>. QED  BY <1>t, <1>u, <3>3, <3>6, <3>7, <3>8, VisitStep
    <2>. QED  BY <2>1, <2>3, <2>4
  <1>. QED  BY <1>1, <1>2, <1>3, <1>4 DEF GetNodesStatus, AnswerVisit, Leave

LEMMA CheckKeepsNodes ==
  ASSUME NodeInv, CheckHealth \/ \E n \in Nodes : Operate(n)
  PROVE  NodeInv'
  <1> USE NodePoolAssumption
  <1>t. NodeTypeOK /\ LogIsWrittenFirst
    BY DEF NodeInv
  <1>l. /\ Len(Statements) = 2 /\ Statements[1] = "node_health_log" /\ Statements[2] = "node_pool"
    BY DEF Statements
  <1>v. /\ log \in [Nodes -> Nat] /\ checker.check \in 0..MaxChecks
        /\ checker.next \in 1..2 /\ checker.node \in Nodes
        /\ \A n \in Nodes : log[n] <= log[n] /\ log[n] <= checker.check
    BY <1>t, <1>l DEF NodeTypeOK, LogIsWrittenFirst, Checks
  <1>1. ASSUME NEW n \in Nodes, Operate(n)  PROVE NodeInv'
    <2>1. NodeTypeOK'
      BY <1>1, <1>t DEF Operate, NodeTypeOK
    <2>. QED  BY <1>1, <1>t, <1>v, <2>1, CheckStep DEF Operate, LogIsWrittenFirst, Logged
  <1>2. CASE Tick \/ ChooseNodes \/ SkipNode \/ EndRound
    <2>1. /\ UNCHANGED <<name, running, health, log, visit, unlogged>>
          /\ checker'.check = checker.check /\ checker'.pc # "writing"
          /\ checker' \in [pc : {"waiting", "choosing", "asking", "writing"}, todo : SUBSET Nodes,
                          node : Nodes, check : Checks, next : 1..Len(Statements)]
      BY <1>2, <1>t DEF Tick, ChooseNodes, SkipNode, EndRound, NodeTypeOK
    <2>2. NodeTypeOK'
      BY <1>t, <2>1 DEF NodeTypeOK
    <2>. QED  BY <1>v, <2>1, <2>2, CheckStep
  <1>3. CASE AskNode
    <2>1. /\ UNCHANGED <<name, running, health, log, visit, unlogged>>
          /\ checker'.check = checker.check + 1 /\ checker'.next = 1
          /\ checker' \in [pc : {"waiting", "choosing", "asking", "writing"}, todo : SUBSET Nodes,
                          node : Nodes, check : Checks, next : 1..Len(Statements)]
      <3>1. checker.check + 1 \in Checks /\ 1 \in 1..Len(Statements)
        BY <1>3, <1>l, <1>v DEF AskNode, Checks
      <3>2. checker \in [pc : {"waiting", "choosing", "asking", "writing"}, todo : SUBSET Nodes,
                         node : Nodes, check : Checks, next : 1..Len(Statements)]
        BY <1>t DEF NodeTypeOK
      <3>3. PICK n \in checker.todo :
               checker' = [checker EXCEPT !.pc = "writing", !.todo = @ \ {n}, !.node = n,
                                          !.check = @ + 1, !.next = 1]
        BY <1>3 DEF AskNode
      <3>4. UNCHANGED <<name, running, health, log, visit, unlogged>>
        BY <1>3 DEF AskNode
      <3>5. n \in Nodes /\ checker.todo \ {n} \in SUBSET Nodes
        BY <3>2
      <3>. QED  BY <3>1, <3>2, <3>3, <3>4, <3>5
    <2>2. NodeTypeOK'
      BY <1>t, <2>1 DEF NodeTypeOK
    <2>3. \A n \in Nodes : log'[n] <= checker'.check
      BY <1>v, <2>1
    <2>. QED  BY <1>v, <2>1, <2>2, <2>3, CheckStep
  <1>4. CASE WriteHealth
    <2> DEFINE n == checker.node
               k == checker.check
    <2>1. /\ UNCHANGED <<name, running, visit>> /\ checker'.check = k /\ checker'.node = n
          /\ checker' \in [pc : {"waiting", "choosing", "asking", "writing"}, todo : SUBSET Nodes,
                          node : Nodes, check : Checks, next : 1..Len(Statements)]
          /\ checker'.pc = "writing" => checker.next = 1
      BY <1>4, <1>t, <1>l, <1>v DEF WriteHealth, NodeTypeOK
    <2>2. CASE checker.next = 1
      <3>1. /\ health' = health
            /\ \/ log' = [log EXCEPT ![n] = k] /\ unlogged' = unlogged
               \/ log' = log /\ unlogged' = unlogged \cup {k}
        BY <1>4, <1>l, <2>2 DEF WriteHealth
      <3>2. k \in Checks
        BY <1>v DEF Checks
      <3>3. NodeTypeOK'
        BY <1>t, <2>1, <3>1, <3>2 DEF NodeTypeOK
      <3>4. /\ \A x \in Nodes : log[x] <= log'[x] /\ log'[x] <= checker'.check
            /\ unlogged \subseteq unlogged'
        BY <1>v, <2>1, <3>1
      <3>5. Logged(n, k)'
        BY <1>v, <2>1, <3>1 DEF Logged
      <3>. QED  BY <2>1, <3>1, <3>3, <3>4, <3>5, CheckStep
    <2>3. CASE checker.next = 2
      <3>1. /\ log' = log /\ unlogged' = unlogged
            /\ health' = [health EXCEPT ![n] = k] \/ health' = health
        BY <1>4, <1>l, <2>3 DEF WriteHealth
      <3>2. k \in Checks /\ Logged(n, k)
        BY <1>4, <1>t, <1>v, <2>3 DEF Checks, WriteHealth, LogIsWrittenFirst
      <3>3. NodeTypeOK'
        BY <1>t, <2>1, <3>1, <3>2 DEF NodeTypeOK
      <3>4. \A x \in Nodes : health'[x] # health[x]
               => health'[x] <= log'[x] \/ health'[x] \in unlogged'
        BY <1>t, <3>1, <3>2 DEF NodeTypeOK, Logged
      <3>5. checker'.pc # "writing"
        BY <2>1, <2>3
      <3>. QED  BY <1>v, <2>1, <3>1, <3>3, <3>4, <3>5, CheckStep
    <2>. QED  BY <1>v, <2>2, <2>3
  <1>. QED  BY <1>1, <1>2, <1>3, <1>4 DEF CheckHealth

LEMMA NodeStep == NodeInv /\ [NodeNext]_nodeVars => NodeInv'
  <1> SUFFICES ASSUME NodeInv, [NodeNext]_nodeVars  PROVE NodeInv'
    OBVIOUS
  <1>1. CASE UNCHANGED nodeVars
    BY <1>1 DEF nodeVars, NodeInv, NodeTypeOK, LogIsWrittenFirst, Logged, StatsFollowStatus
  <1>. QED  BY <1>1, RequestKeepsNodes, CheckKeepsNodes DEF NodeNext

THEOREM NodeInvariance == NodeSpec => []NodeInv
  BY NodeInitial, NodeStep, PTL DEF NodeSpec

\* A visitor is shown no statistics from before the check whose status it is shown,
\* except after a failed INSERT.
THEOREM SummariesAreOrdered == NodeSpec => []StatsFollowStatus
  <1>1. NodeInv => StatsFollowStatus
    BY DEF NodeInv
  <1>. QED  BY <1>1, NodeInvariance, PTL

\* A request's rows keep to their names, and no name ever changes.
LEMMA StatsAreOfTheNameStep ==
  NodeInv /\ StatsAreOfTheName /\ [NodeNext]_nodeVars => StatsAreOfTheName'
  <1> SUFFICES ASSUME NodeInv, StatsAreOfTheName, [NodeNext]_nodeVars  PROVE StatsAreOfTheName'
    OBVIOUS
  <1>1. CASE visit' = visit /\ name' = name
    BY <1>1 DEF StatsAreOfTheName
  <1>2. ASSUME NEW v \in Visitors, Visit(v) \/ GetNodesStatus(v) \/ Leave(v)
        PROVE  StatsAreOfTheName'
    <2>t. /\ visit \in [Visitors -> VisitRecord]
          /\ visit[v].todo \subseteq DOMAIN visit[v].answer
          /\ DOMAIN visit[v].answer \subseteq Nodes
          /\ visit[v].answer \in [DOMAIN visit[v].answer -> Summaries]
      BY SMTT(30), VisitsAreTyped DEF NodeInv, NodeTypeOK, VisitRecord
    <2>n. name' = name
      BY <1>2 DEF Visit, GetNodesStatus, QueryNodes, ReadLog, AnswerVisit, Leave, unread
    <2>r. ASSUME NEW new, visit' = [visit EXCEPT ![v] = new],
                 \A n \in DOMAIN new.answer : name[new.answer[n].of] = name[n]
          PROVE  StatsAreOfTheName'
      BY <2>t, <2>n, <2>r DEF StatsAreOfTheName
    <2>o. \A n \in DOMAIN visit[v].answer : name[visit[v].answer[n].of] = name[n]
      BY DEF StatsAreOfTheName
    <2>1. CASE visit' = [visit EXCEPT ![v] = NoVisit]
      BY <2>1, <2>r, NoVisitIsTyped
    <2>2. CASE Visit(v)
      <3> DEFINE new == [visit[v] EXCEPT !.pc = "querying"]
      <3>1. visit' = [visit EXCEPT ![v] = new] /\ new.answer = visit[v].answer
        BY <2>2, <2>t DEF Visit, VisitRecord
      <3> HIDE DEF new
      <3>. QED  BY <2>o, <2>r, <3>1
    <2>3. CASE QueryNodes(v)
      <3> DEFINE rows == [n \in running |-> [status |-> health[n], stats |-> NoCheck, of |-> n]]
                 new == [pc |-> "reading", todo |-> running, answer |-> rows]
      <3>1. visit' = [visit EXCEPT ![v] = new] \/ visit' = [visit EXCEPT ![v] = NoVisit]
        BY <2>3 DEF QueryNodes
      <3>2. new.answer = rows /\ DOMAIN rows = running /\ \A n \in running : rows[n].of = n
        OBVIOUS
      <3> HIDE DEF new, rows
      <3>. QED  BY <2>1, <2>r, <3>1, <3>2
    <2>4. CASE ReadLog(v)
      <3>1. PICK n \in visit[v].todo :
               \/ \E m \in {p \in Nodes : name[p] = name[n]} :
                     visit' = [visit EXCEPT ![v].todo = @ \ {n},
                                            ![v].answer[n] = [@ EXCEPT !.stats = log[m], !.of = m]]
               \/ visit' = [visit EXCEPT ![v].todo = @ \ {n}]
        BY <2>4 DEF ReadLog
      <3> DEFINE left == visit[v].todo \ {n}
      <3>2. CASE visit' = [visit EXCEPT ![v].todo = @ \ {n}]
        <4> DEFINE new == [visit[v] EXCEPT !.todo = left]
        <4>1. visit' = [visit EXCEPT ![v] = new] /\ new.answer = visit[v].answer
          BY <2>t, <3>2 DEF VisitRecord
        <4> HIDE DEF new
        <4>. QED  BY <2>o, <2>r, <4>1
      <3>3. ASSUME NEW m \in Nodes, name[m] = name[n],
                   visit' = [visit EXCEPT ![v].todo = @ \ {n},
                                          ![v].answer[n] = [@ EXCEPT !.stats = log[m], !.of = m]]
            PROVE  StatsAreOfTheName'
        <4> DEFINE shown == [visit[v].answer[n] EXCEPT !.stats = log[m], !.of = m]
                   rows == [visit[v].answer EXCEPT ![n] = shown]
                   new == [visit[v] EXCEPT !.todo = left, !.answer = rows]
        <4>1. shown.of = m
          BY <2>t DEF Summaries
        <4> HIDE DEF left, shown
        <4>2. visit' = [visit EXCEPT ![v] = [visit[v] EXCEPT !.todo = left,
                                   !.answer = [visit[v].answer EXCEPT ![n] = shown]]]
          BY <2>t, <3>3 DEF VisitRecord, left, shown
        <4>3. new.answer = rows
          BY <2>t DEF VisitRecord
        <4>4. DOMAIN rows = DOMAIN visit[v].answer
              /\ \A x \in DOMAIN rows : rows[x] = IF x = n THEN shown ELSE visit[v].answer[x]
          BY <2>t
        <4>5. \A x \in DOMAIN rows : name[rows[x].of] = name[x]
          BY <2>o, <3>3, <4>1, <4>4
        <4>6. visit' = [visit EXCEPT ![v] = new]
          BY <4>2
        <4> HIDE DEF new, rows
        <4>. QED  BY <2>r, <4>3, <4>5, <4>6
      <3>. QED  BY <3>1, <3>2, <3>3
    <2>. QED  BY <1>2, <2>1, <2>2, <2>3, <2>4 DEF GetNodesStatus, AnswerVisit, Leave
  <1>3. CASE CheckHealth \/ (\E n \in Nodes : Operate(n)) \/ UNCHANGED nodeVars
    BY <1>1, <1>3 DEF CheckHealth, Tick, ChooseNodes, AskNode, SkipNode, WriteHealth, EndRound, Operate, nodeVars
  <1>. QED  BY <1>2, <1>3 DEF NodeNext

\* Statistics are another node's only under the same name: where all names differ,
\* a summary's statistics are the node's own.
THEOREM StatsAreOwnUnderOwnName == NodeSpec => [](NamesDiffer => StatsAreOwn)
  <1>1. NodeInit => StatsAreOfTheName
    BY NoVisitIsTyped DEF NodeInit, StatsAreOfTheName
  <1>2. NodeInv /\ StatsAreOfTheName => (NamesDiffer => StatsAreOwn)
    <2> SUFFICES ASSUME NodeInv, StatsAreOfTheName, NamesDiffer,
                        NEW v \in Visitors, NEW n \in DOMAIN visit[v].answer
                 PROVE  visit[v].answer[n].of = n
      BY DEF StatsAreOwn
    <2>1. n \in Nodes /\ visit[v].answer[n] \in Summaries
      BY VisitsAreTyped
    <2>2. visit[v].answer[n].of \in Nodes
      BY <2>1 DEF Summaries
    <2>. QED  BY <2>1, <2>2 DEF NamesDiffer, StatsAreOfTheName
  <1>. QED  BY <1>1, <1>2, StatsAreOfTheNameStep, NodeInvariance, PTL DEF NodeSpec

-----------------------------------------------------------------------------
(* The services in one instance.                                           *)

\* Each service of the instance behaves as it does alone, so that the theorems
\* above hold of it.
THEOREM InstanceIsServices ==
  Spec => PayoutSpec /\ AddressSpec /\ BackfillSpec /\ NodeSpec
  <1>1. Init => PayoutInit /\ AddressInit /\ BackfillInit /\ NodeInit
    BY DEF Init
  <1>2. [Next]_vars => /\ [PayoutNext]_payoutVars /\ [AddressNext]_paymentVars
                       /\ [BackfillNext]_backfillVars /\ [NodeNext]_nodeVars
    BY DEF Next, vars
  <1>. QED  BY <1>1, <1>2, PTL DEF Spec, PayoutSpec, AddressSpec, BackfillSpec, NodeSpec

\* Every variable of the instance keeps its type.
THEOREM TypeCorrect == Spec => []TypeOK
  <1>1. Spec => [](service \in Services)
    <2>1. Init => service \in Services
      BY DEF Init
    <2>2. service \in Services /\ [Next]_vars => (service \in Services)'
      BY DEF Next, vars
    <2>. QED  BY <2>1, <2>2, PTL DEF Spec
  <1>2. /\ PayoutInv => PayoutTypeOK
        /\ AddressInv => AddressTypeOK
        /\ BackfillInv => BackfillTypeOK
        /\ NodeInv => NodeTypeOK
    BY DEF PayoutInv, AddressInv, BackfillInv, NodeInv
  <1>3. (service \in Services) /\ PayoutInv /\ AddressInv /\ BackfillInv /\ NodeInv => TypeOK
    BY <1>2 DEF TypeOK
  <1>. QED
    BY <1>1, <1>3, InstanceIsServices, PayoutInvariance, AddressInvariance,
       BackfillInvariance, NodeInvariance, PTL
=============================================================================
