# TLA+ verification of SideWatch

SideWatch watches a P2Pool (Monero) mining pool. It indexes the pool's shares
and blocks, computes what each miner earns from a block and records it, sells
paid tiers against Monero transfers, and serves all of it over HTTP and
WebSockets. This directory holds TLA+ modules of its concurrent and
failure-prone core (the Go programs `services/manager` and `services/gateway`), TLC configurations that
check them on small instances, and proofs that TLAPS checks for every instance.

    tlc -config pipeline_safety.cfg BlockPipeline      # one run
    tlapm BlockPipeline_proofs.tla                     # one proof module

## 1. The system

Paths are below `src/services/manager` unless they start with `src/`.

| component | state it keeps | operations | talks to |
|---|---|---|---|
| P2Pool indexer, `internal/p2pool/indexer.go` | `lastBlockFound` in memory; `p2pool_blocks`, `pool_stats_snapshots`, worker buckets in PostgreSQL | a 30 s poll of pool/stats and of the stratum statistics | P2Pool's API files, the database |
| Block listener, `internal/events/zmq.go` | connection attempts, last height while polling | `Run`, `runZMQ`, `runPolling`, `fireHandlers` | monerod's ZMQ and RPC; calls the coinbase scanner on its own goroutine |
| Coinbase scanner, `internal/scanner/{scanner,coinbase}.go` | the set of pending heights under a mutex; `p2pool_blocks`, `payments` | `HandleNewBlock`, `RecoverUnprocessed`, `checkConfirmations`, `processBlock`, `ExtractPayments`, `recordPayments` | monerod, the price oracle, the database; runs on two goroutines |
| Subscription scanner, `internal/subscription/scanner.go` | `subscription_payments`, `subscriptions`, `node_fund_months`, `subscription_addresses` | a poll of the wallet; `AssignSubaddress` from HTTP handlers | monero-wallet-rpc, the price oracle, the database |
| Data deletion, `cmd/manager/routes.go` `handleNukeData` | the same tables, `payments`, `miner_hashrate` | one request | the database |
| Tax export, price backfills, payment address (`cmd/manager/routes.go`) | `tax_exports_remaining`; prices of rows; `subscription_addresses` | one request each, any number at once | the database, CoinGecko, the wallet |
| WebSocket hub, `internal/ws/{hub,handler}.go` | connections and counts per address under a mutex | `addClient`, `removeClient`, the handlers' reads, the broadcast | clients, the aggregator |
| Start-up, `cmd/manager/main.go` | none | first recovery, listener, recovery ticker, HTTP server | all of the above |
| Price oracle, `internal/scanner/priceoracle.go` | one cached price and its TTL | `GetPrice` | CoinGecko |
| Subscription service, `internal/subscription/service.go` | tier and API-key caches in Redis | `CheckTier`, `CheckTierByAPIKey`, `GenerateAPIKey` | Redis, the database |
| Retention builder, `internal/aggregator/timeseries.go` | pruned tables | daily pruning; `main.go` never constructs it | the database |
| Aggregator, fund service, the other HTTP handlers | a 15 s cache | queries | the database |
| Node pool, `internal/nodepool/pool.go` | status, health and log of the nodes | health checks, `GetNodesStatus` | the database, nodes |
| Gateway, `src/services/gateway` | rate-limit windows in Redis and in memory; tunnels | rate limit, JWT, HTTP and WebSocket proxy | Redis, the manager |
| Frontend, `src/frontend` | a reconnect timer | `useWebSocket`, pages | the gateway |

What makes it hard, component by component:

* **Block pipeline** (indexer, listener, scanner). A height passes through three
  goroutines and two tables by way of statements of their own, each of which may
  fail; publications get lost; the chain reorganises under heights that were
  already announced; the process may die between any two statements and keeps
  nothing but the tables; since the recovery ticker runs beside the listener, two
  goroutines process heights at once. Correct means: payments are recorded for
  settled blocks only, agree with the block's row, are recorded once, for blocks
  P2Pool mined, and in the end for every indexed block.
* **Payment extraction**. The divisor (pool-wide hashrate) and the rates (local
  bucket) come from different tables; the range over a Go map is in any order
  and the last miner it reaches gets what is left; the product is a 64-bit word.
  Correct means: each miner gets its share of the whole pool, and all together no
  more than the reward.
* **Subscription scanner and deletion**. Crediting one transfer takes four to
  six statements; the wallet lists every transfer again at each poll; a miner may
  delete its data between two of them. Correct means: each deep transfer is
  credited, once, for a whole period after the time that is already paid for;
  tier and expiry agree; the fund counts credited transfers.
* **WebSocket hub**. A connection is removed by its handler and by the broadcast,
  which writes to a snapshot without the lock. Correct means: the counter of an
  address is exact, its limit holds, no entry stays behind.
* **Retention, deletion and exports**. What is kept of a miner is decided by a daily
  pass of eight statements, by two kinds of requests and by when a subscription
  lapses; each statement may fail, and the pass uses the clock of its start next to
  the database's. Correct means: a held year stays until it was downloaded, the
  downloads are bounded although the guard of the counter is not looked at, and
  data that a miner asked to delete is gone and does not come back.
* **Price oracle, payment addresses, price backfills**. Any number of callers share
  one cached price without a lock around the request; a subaddress is created by the
  wallet before the row that keeps it; a backfill works on rows that it read long
  before. Correct means: a price is fresh and never falls back far, an address that
  was told to a miner stays its own, and the USD price of a credit is not replaced.
* **Node pool**. A check writes two tables by two statements and a request reads them
  by two others, while it holds a connection of a pool of 10. Correct means: the
  statistics shown are not older than the status, and every request ends.
* **WebSocket tunnel**. Two copying goroutines per browser, of which one ends the
  tunnel. Correct means: a browser that vanished keeps nothing for good.
* **API keys**. Two requests work on one row by statements of their own; the
  answers are cached for 30 s and nothing invalidates the cache; the cache is
  written after the row was read. Correct means: an answer is never older than the
  TTL and that delay, and a payment shows at once.
* **Rate limiter**. Redis is asked over a network: a command may be late, lost or
  sent twice, and its counter expires while late requests still need it. Correct
  means: at most the burst is admitted in one second, and the keys clean themselves
  up.

`PROJECT.json` lists these hazards at their lines, together with the properties
aimed at them.

## 2. Modules

| module | models | extends |
|---|---|---|
| `MonerodChain` | the chain behind monerod and P2Pool's finds, with reorganisations (external) | |
| `PipelineStore` | `p2pool_blocks`, `payments`, failing calls | `MonerodChain` |
| `P2PoolIndexer` | detection and insertion of a found block | `PipelineStore` |
| `CoinbaseScanner` | the scanner's two goroutines, statement by statement | `PipelineStore` |
| `BlockListener` | ZMQ, its failures, polling, the announcement loop | `CoinbaseScanner` |
| `BlockPipeline` | the composition, crash and restart, the properties | `P2PoolIndexer`, `BlockListener` |
| `PaymentLedger` | abstract: find, settle, pay once, and once more for each time a height is handed out again | |
| `Payouts` | the loop of `ExtractPayments` with machine words | |
| `SubscriptionScanner` | the wallet, the poll cycle, the deletion handler, crashes | |
| `Entitlement` | abstract: each credit buys a whole period, once | |
| `WsHub` | handlers and broadcast over the hub's maps | |
| `WsTunnel` | the gateway's tunnel in front of each connection of the hub | `WsHub` |
| `Retention` | the daily pass, the deletion handler, the tax export, the scanners' writes | |
| `PriceOracle` | `GetPrice` with its cache, TTL and back-off, for concurrent callers | |
| `PaymentAddress` | `AssignSubaddress` and the handler that then asks for the price | `PriceOracle` |
| `PriceBackfill` | the two handlers that look up missing prices, beside the scanners | |
| `NodePool` | the health checker, the nodes' status, the database connections | |
| `ApiKeys` | `CheckTierByAPIKey` and `GenerateAPIKey` over the rows and the cache | |
| `RateLimiter` | the gateway's rate limiter for one address | |
| `MCGateway` | `ApiKeys` and `RateLimiter`: one instance, one of them per behaviour; symmetry | the two modules |
| `MCServices` | `Payouts`, `PaymentAddress`, `PriceBackfill`, `NodePool`: one instance, one service per behaviour | the four modules |
| `*_proofs` | theorems about `BlockPipeline`, `SubscriptionScanner`, `WsTunnel` (`WsHub_proofs`), `ApiKeys`, `RateLimiter`, `Retention`, `Payouts` | the module, `TLAPS` |
| `Services_proofs` | theorems about `PriceOracle`, `PaymentAddress`, `PriceBackfill`, `NodePool` and their instance | `MCServices`, `Payouts_proofs` |

One step of a model is one critical section, one SQL statement or transaction, or
one remote call, because that is where other goroutines, failures and crashes can
come in. Local computation belongs to the step that precedes it.

### The block pipeline

`chain`, `tip` and `lastFound` are what monerod and P2Pool answer. A block is the
branch that put it at its height and whether P2Pool mined it, which is all the
properties tell apart. `Reorg(d)` replaces the last `d` blocks by `d+1` blocks of
others; `get_block` by height answers with the main chain, so `orphanStatus` is
never set, which is how `processBlock` calls it.

`row[h]` is the row of `p2pool_blocks`: absent, inserted by the indexer with an
empty hash and reward, or backfilled with `rowBlock[h]`. `payments[h]` is the
sequence of committed `recordPayments` transactions; the table has no unique key,
so its length may exceed 1. A call of a kind in `FaultKinds` may fail up to
`MaxFaults` times; a failed COMMIT may have committed.

`pc[p]` is where a goroutine is: `query`, `found`, `header` are
`RecoverUnprocessed`; `check` is the critical section of `checkConfirmations`;
`loop`, `fetch`, `backfill`, `extract`, `record` are `processBlock` for the height
`job[p]` of the batch. A batch is a set: the code ranges over a map.
An error adds the height to `pending` again, as lines 150-156 of `scanner.go` do;
a missing row, an orphan or no payments drop it. `unattributed` and `recalls` are
history variables: the heights whose extraction found no payments, which
`ExtractPayments` returns while the pool's hashrate reads 0, and how many times a
height entered the pending set while it was paid or in a goroutine's hands.

The handlers run on the listener's goroutine, so the listener reads nothing while
`pc["listener"]` is not idle. `zmq` holds publications on their way; `Publish` may
lose any. After `MaxRetries` failed connections the listener polls for good;
its initial height is 0 if that request fails.

`Crash` keeps the chain and the tables and puts everything else at its start:
recovery first, then the listener, as `main.go` does.

### Payouts

One behaviour is one call: the answers of the two queries are chosen in `Init`,
each step is one turn of the loop for a miner the map range picks, and arithmetic
is modulo `WordSize` as `uint64` is modulo 2^64. `WordSize = 64` makes products
wrap within the instance.

### Subscriptions

`wallet[t]` is what the wallet knows of a transaction (in the pool, in a block,
deep), `seen` the answer the goroutine is going through. `row[t]` and `rowMiner[t]`
are `subscription_payments`, unique by hash; `tier`, `expires` the miner's
`subscriptions` row. `base` and `earned` are the locals that live across
statements. `credits`, `funded` and `erased` are history variables. The price is
not a variable: a transfer's worth is any of `EarnedTiers` when it is looked up.
The deletion handler interleaves with the scanner through its two statements on
these tables.

### The hub

`handler[c]` is the handler goroutine of connection `c`, `broadcaster` the
broadcast goroutine, `snapshot` the connections it has still to write to. A write
fails because the peer is gone or at its deadline, which closes the connection
under its handler. Both goroutines call `removeClient`.

### The tunnel

`tunnel[c]` is `wsProxy` for connection `c`: not running, copying, or past `<-done`.
The hub's `open[c]` is the connection between gateway and manager, `peer[c]` the
browser. A browser that closes in order is seen by the copy to the manager and by
the hub's `Read`; one that vanishes is seen by nobody, because the goroutine that
copies to the manager ends without a word (`gateway/main.go:189-191`). `unsent[c]`
says that a broadcast waits to be copied to the browser; that copy fails in the end
when the browser is gone. `CloseTunnel` runs the deferred closes of both ends. Every
step is one of the hub or leaves it alone (`TunnelIsHub`).

### Retention, deletion and exports

A table is a set of times per miner: `payments[m]` and `hashrate[m]` hold the
`created_at` of the rows. `grace`, `keyed`, `held`, `left`, `deleted` are columns of
`subscriptions` (`grace_until`, `api_key_hash`, `held_year`,
`tax_exports_remaining`, `data_deleted_at`); 0 stands for NULL and years count
from 1. `pass` is the goroutine of `TimeseriesBuilder`: `pruneNuked` (three
statements per miner that it selected), then holding, clearing, and the deletes of
free and paid miners. `pass.at` is the `now` that the Go code computes once; the
`NOW()` of a statement is the model's `now`. A statement that fails ends the pass.
`export[e]` is a request of the held year: the SELECT that decides, then the guarded
UPDATE, whose number of rows and whose error the handler ignores. `nuke` is
`handleNukeData`: the mark, two deletes, the reset; failures after the mark are only
logged. `ResetRow` leaves `data_deleted_at` set, as the code does. `owed` and
`served` are history variables: the payments that a held year promised, and the
downloads since. A tick is at least as long as a pass, so a pass sees at most one.

### The smaller services

`PriceOracle`: `call[c]` is a caller between the check of the cache and the store of
an answer. `lastPrice` is the time of the quote, which is all the properties compare.
A 429 extends `cacheTTL` from the time of the last fetch; every failure falls back
to the old price, if there is one. A request ends within `HttpTimeout`.

`PaymentAddress`: `AssignSubaddress` is a SELECT, the wallet's `create_address`, which
uses up an index also when its answer is lost, and an upsert that keeps the row of
the first request and returns it. The handler then asks the oracle.

`PriceBackfill`: a price is the day of which it is, `Live` when the oracle quoted it at
the time of the row, or 0 when CoinGecko had no market data. `priceCache` has a day
per entry and remembers failures. `PutPrice` is the SET clause of the two UPDATEs:
that of `payments` replaces, that of `subscription_payments` keeps the USD price and
replaces the CAD price, so `CreditedPriceKept` speaks of USD only.

`NodePool`: an observation is the number of the check that made it. `CanAcquire`
says that the pool has a connection left; a request of the status holds one from
`QueryNodes` until `AnswerVisit` and needs another for each `ReadLog`, the checker
none, since `getRunningNodes` reads its rows to the end first. The checker passes
over a node without an API URL (`SkipNode`). The log is looked up
by the node's name, which no constraint makes unique.

### API keys

`keyOf[m]` and `grace[m]` are `api_key_hash` and `grace_until` of the miner's row;
`cache[k]` is the value under `apikey:` with the time it expires. `lookup[l]` is a
request in `CheckTierByAPIKey`: GET, SELECT and SET are steps. `request[r]` is a
request in `GenerateAPIKey`: the SELECT of the row with its checks, the SELECT of
the payment, the UPDATE, which may also be lost, with or without effect. The
subscription scanner's upsert and the deletion's UPDATE change the rows at any
time. `held` and `lapsed` are history variables: what the rows said and when last,
and which lookups saw a moment at which their key was no paying miner's. The tier is
not a variable: a row has a paid one exactly when it has a grace period, which
`TierMatchesExpiry` of `SubscriptionScanner` says. `TierMiddleware` calls
`CheckTier` for the path's address, but wraps the whole mux (`main.go:183`), so that
no path value is set when it runs: the cache under `sub:` is not in the model.

### The rate limiter

`count[w]` and `expireAt[w]` are the Redis key of the second that begins at tick
`w`; `late[w]` counts INCRs that a client gave up and Redis may execute all the
same. `handler[r]` holds the window and the deadline of its context. An INCR is
answered, or fails: sent again by the client library after it was executed, or given
up, in which case the request turns to `mem`, the entry under `memMu`. `passed`
and `memPassed` are history variables. Time passes only as long as no request
is beyond its deadline. A gateway that dies between INCR and EXPIRE, and a Redis
that restarts or evicts keys, are not modelled.

## 3. Runs

| run | result | what it shows |
|---|---|---|
| `pipeline_safety` | holds | `PaymentsFinal`, `LedgerAgreesWithBlocks`, `OwnedUntilPaid` and the refinement of `PaymentLedger` (`LedgerSpec`) with both goroutines, the recovery ticker, any two failing calls, empty extractions, one crash, one reorganisation of depth up to `ConfirmDepth` |
| `pipeline_live` | holds | `RowsAreBackfilled`; `PaidUnlessCrashed` with lost publications, failed connections and requests for the tip, empty extractions, a crash and a reorganisation |
| `pipeline_twice` | violated | `PaidAtMostOnce`: ticker and listener pay one height each |
| `hub` | holds | exact counts, the limit, no stale entries behind the tunnel; `GoneBrowsersAreForgotten` |
| `subscription_safety` | holds | `CreditedAtMostOnce`, refinement of `Entitlement`, `ActivatedUnlessInterrupted`, without failing SELECTs and deletions |
| `subscription_nuke` | holds | `TierMatchesExpiry`, `FundedWasCredited` with deletions, failing SELECTs and shared transactions |
| `retention` | holds | `HeldPaymentsKept`, `ExportsBounded`, `DeletedForGood` with two exports at once, a deletion, renewals and a failing statement, whether the pass runs or not |
| `retention_unpruned` | violated | `DeletionTakesEffect`: `main.go` never constructs `TimeseriesBuilder`, so nothing finishes what a failing DELETE of the handler left, though `routes.go:569` says that the pruner will |
| `services` | holds | `SharesWithinReward`, `ProportionalWithinWord` of payouts over all orders of the map; `HitsAreFresh`, `PriceFallsBackOneRequest` of the oracle; `HandedOutIsKept`, `AddressesAreDistinct`; `OneLookupPerDay`, `NoHalfPriceIsStuck`, `CreditedPriceKept` of the backfills; `StatsFollowStatus`, `NodeVisitsEnd` of the nodes |
| `payouts_share` | violated | `ShareOfPool`: the miner that the map's range reaches last gets the remainder of the whole pool's reward, though `coinbase_test.go:59-80` and `coinbase.go:124-125` say otherwise |
| `gateway` | holds | `AnswersAreRecent`, `PaymentTakesEffect` with two lookups, a regeneration, activations and deletions; `RedisWithinBurst`, `KeysCleanUpUnlessLost` with late, lost and repeated commands |
| `nodes_stalled` | violated | `VisitsEnd`: as many requests as the pool has connections wait for each other |

The violated properties are statements of a comment, a test or a document; the
findings of `PROJECT.json` quote them. More configurations show disagreements of
the same kinds with other causes; each refutes its one property:

| configuration | module | property it refutes |
|---|---|---|
| `pipeline_orphan` | `BlockPipeline` | `OnlyPoolBlocksPaid`: an orphaned find is paid from the block that replaced it |
| `pipeline_lost` | `BlockPipeline` | `RowsArePaid`: a crash after the backfill loses the payments, since recovery looks for rows without a hash (`scanner.go:48-50`) |
| `subscription_lost` | `SubscriptionScanner` | `TransfersActivate`: an activation that fails after the row is confirmed is not tried again (`docs/subscription-setup.md:14-16`) |
| `subscription_twice` | `SubscriptionScanner` | `CreditedAtMostOnce`: a SELECT error counts as "not processed" |
| `subscription_erased` | `SubscriptionScanner` | `ErasureIsFinal`: the next poll brings deleted transfers back |
| `retention_again` | `Retention` | `PaidDataKept`: `data_deleted_at` is never cleared, so the daily pass erases a miner again who pays after a deletion (`src/frontend/app/subscribe/page.tsx:240-241`) |
| `hub_unfed` | `WsTunnel` | `GoneBrowsersAreForgotten` when the statistics cannot be fetched: nothing is written, so a vanished browser keeps its slot |
| `oracle_requests` | `PriceOracle` | `OneRequestPerTTL`: callers that find the price expired all ask CoinGecko ("minimum time between API calls") |
| `backfill_replaced` | `PriceBackfill` | `PaymentPriceKept`: of two backfills at once, the second replaces the price of the first |
| `nodes_same_name` | `NodePool` | `StatsAreOwn`: two nodes of one name share their statistics |
| `api_keys_replaced` | `ApiKeys` | `ReplacedKeyWasPresented`: of two first requests, the second replaces the key the first was given (`service.go:118-120`) |
| `rate_limit_memory` | `RateLimiter` | `MemoryWithinBurst`: requests of two seconds reset each other's count (`ratelimit.go:37-39`) |

Three more hold: `hub_alone` is the hub without the tunnel, with `SlotsAreFreed`,
`backfill_two` has two backfills at once, and `pipeline_ledger` checks what
`pipeline_safety` does with two blocks of P2Pool instead of one, one failing call
and no crash.

### Bounds, and why they are enough

* `ConfirmDepth = 2` (10 in `main.go`) is the least depth at which a confirmed
  block, an unconfirmed one and the tip are all different. `MaxHeight = 4` lets two
  heights be confirmed, one by an announcement and one by recovery, with a block
  to spare for the retry of a failed height; the liveness run uses 3 and one
  P2Pool height, so that its graph stays small: a height, the blocks that confirm
  it and nothing after, where only recovery helps.
* `MaxReorgs = 1` with depth up to `ConfirmDepth` covers a replaced block before,
  while and after it is announced. `MaxReorgDepth <= ConfirmDepth` is an assumption
  of the model: it is what a confirmation depth means.
* `pipeline_safety` has one height of P2Pool, two faults of any kind and a crash.
  The liveness run has faults of the first request for the tip only: its chain ends,
  and a height whose statement failed waits in the pending set for a block that never
  comes, which says something of the bound and nothing of the code.
* `MaxFaults = 1` or 2 and `MaxCrashes = 1`: after a failure the state is one that
  a run without it reaches later or not at all; the retry itself then meets
  everything a first try meets. The theorems of section 5 have no such bound.
* `MaxRetries = 1` in the safety runs reaches polling after the first failure;
  the liveness run uses 2 so that a second connection is tried.
* Retention: a year of 2 ticks and a clock of 4, so that the previous year exists,
  is held and is followed by another one; a free age of 1 tick, so that payments of
  the held year are old enough to be deleted; two exports at once and a fault, so
  that the counter is passed by; two grants, so that a miner lapses, renews and
  lapses again; one miner, since no statement relates two. `MaxRows = 1` and
  `LastPayment = 1` suffice for a payment in the held year.
* Price oracle and addresses: two requests of two miners, TTL 1, back-off 2 and a
  timeout of 1 in a clock of 3, so that a late answer meets a newer one and a TTL is
  extended and runs out. Backfills: two payments and a transfer on two days, one
  request in `services` and two in `backfill_two`.
* Nodes: one node, two visitors, three checks; `MaxConns = 3` is one connection more
  than the visitors, which is what `NodeVisitsEnd` needs, and `nodes_stalled` has as
  many visitors as connections.
* Payouts: up to three miners, so that there is a first, a middle and a last one
  of the range; rates that divide the pool's rate and ones that do not; pool rates
  below, at and above the bucket's sum; products that exceed the word of 64 values
  and ones that do not.
* Hub: two connections, two addresses, limit 1: one address reaches its limit and is
  refused while the other is not; `hub_alone` has a third connection and a limit of 2. The liveness rules symmetry out.
* Subscriptions: two transactions and two miners, one of each for the deletions;
  a period of 2 ticks and a clock of 1 or 2, so that a second payment comes before,
  and with `MaxTime = 2` at, the end of the first.
* API keys: two keys, so that one replaces the other; two lookups of them, so that
  one caches what the other reads; one miner, since a lookup touches one row; a TTL
  and a delay of one tick each in a clock of 3, so that an entry outlives a change
  of the row and is dropped; periods that a clock of 3 sees begin, extended and end.
* Rate limiter: a burst of 2, three requests at one time and four in all, so that
  a second goes over its limit and the next one begins; a second of 2 ticks, a
  timeout of 1 and an expiry of 4 in a clock of 5, so that counters expire. The real
  ratios (1 s, 0.5 s, 2 s) are the same. Two faults: one loses an EXPIRE or repeats
  an INCR, another makes a request late. The two parts of `gateway` share no
  variable: a behaviour exercises one of them, and the run checks the sum of their
  states instead of the product.

`CHECK_DEADLOCK FALSE` is set where the system may stop: the payout loop, the
backfills' rows and the clocks end, the pipeline without its ticker has nothing to do after the last block of the
bounded chain, and the rate limiter's clock and arrivals end. The other runs check deadlock.

### Fairness

`BlockPipeline!Fairness` is weak fairness of the chain's growth, of the indexer's
and the listener's steps, of each scanner goroutine and of the recovery ticker: Go
schedules every runnable goroutine, tickers keep firing, RPCs and statements
return. Nothing is assumed of failures, lost publications, reorganisations or
crashes, and strong fairness is not needed, because a call that may fail is
also a step of the goroutine; `MaxFaults` keeps it from failing for ever.
`WsHub!FairSpec` is weak fairness of the broadcast and of each handler: `Read`
returns once the connection is closed, `Write` and `Close` have deadlines.
`SubscriptionScanner!FairSpec` is weak fairness of the poll cycle; transactions
need not be mined and deletions need not be requested.
`Retention!FairSpec` is weak fairness of the deletion handler only: `main.go` starts no
daily pass, so none is owed.
`WsTunnel!TunnelFairness` adds the gateway's goroutines, and strong fairness of
`CopyFails`: writes to a browser that is gone fail in the end (TCP gives up), though
single ones may succeed. `TunnelFairSpec` further assumes strong fairness of a
successful query of the statistics (`Feeds`): the property needs it, as `hub_unfed`
shows. `NodePool!NodeFairness` is weak fairness of the checker and strong fairness
of each request, because `pgxpool` hands connections out in the order in which they
are asked for; even so the requests of `nodes_stalled` do not end.

## 4. What the runs say about the code

The mutex of the scanner, its confirmation rule and the guarded UPDATE of the
backfill do protect what is recorded: no stale announcement, reorganisation,
retry or interleaving records a payment for a block that can still change, or
one that disagrees with its row. What they do not protect is how often: a row
remains "unprocessed" for the other goroutine's query until the backfill, and
nothing in `payments` tells a second insert from the first. The pipeline
implements `PaymentLedger` all the same, because the ledger allows one more payment
for each time a height is handed out again while it is paid or being paid, and for
nothing else. Four things hand one out again: the query of `RecoverUnprocessed`,
which does not see what the other goroutine has in hand (`pipeline_twice`); a retry
after a COMMIT whose answer was lost; polling whose first request for the tip
failed, which starts from height 0; and an announcement that comes after the
ticker's goroutine took the height.

Since recovery looks for rows without a hash, a row that is filled and not paid is
known to memory only. Two things forget it for good: a crash (`pipeline_lost`), and
an extraction that succeeds and finds nothing, which is what `ExtractPayments`
returns while the pool's hashrate reads 0 (`coinbase.go:52-57`, `scanner.go:259-264`).
`OwnedUntilPaid` says that nothing else does.

The payment of the miner that the range reaches last is what is left of the whole
pool's reward. What the code keeps of its comments is `SharesWithinReward`: no miner
gets less than its share of the pool, to the unit below, and together they get no
more than the reward; the exact share (`ShareOfPool`) is refuted. Both assume that
the bucket's rates sum to no more than the snapshot's, which come from different
steps of the indexer: where they do not, the remainder wraps. That every miner gets
its share further assumes that no product of a rate and the reward exceeds 64 bits,
which takes a local miner of about 30 MH/s at a reward of 0.6 XMR. Outside these two
conditions nothing is claimed.

The subscription scanner confirms the row before it writes the subscription, so
that no crash or failed write credits a transfer twice, at the price of losing a
credit whose later statement fails.

The hub's counters are exact because `removeClient` looks the connection up under
the lock, and every entry is removed because the handler does so whatever the
broadcast did before.

Retention holds what it promises while downloads are left: between holding a year and
deleting its payments nothing but the miner's own wish removes them. The number of
downloads is bounded by the counter only up to the requests that are under way,
since the row count of the guarded UPDATE is ignored. A year whose downloads are used
up is cleared, and the next pass holds it again. Phase 6 has no statement for
`payments`. All of it depends on a builder that `main.go` does not start. A deletion
request does its work by itself as long as its statements succeed, and nothing it
erased comes back (`DeletedForGood`); where one fails, nothing finishes it.

A request of the nodes' status asks the pool for a connection while it holds one.
With the pool of 10, ten such requests at one time stop every user of the database
until clients give up.

The oracle has no lock around its request, but a late answer sets the price back by no
more than a request's timeout, and a payment address survives every interleaving
because the upsert keeps the first row and returns it.

The cache of API keys is never invalidated, and need not be for what it promises:
every hit asks the clock again, a free answer is never one, and an entry leaves
after the TTL. The rate limiter's Redis side keeps its limit whatever happens to
single commands, because every failure counts too much and never too little, and
because a counter lives longer than a second and the timeout together
(`Second + Timeout <= Expiry`, 1.5 s and 2 s); `ExpireWithWindow` shows that a
shorter expiry breaks it.

## 5. Proofs

For all values of the constants that satisfy the named assumptions. Bounds such
as `MaxFaults` or `MaxHeight` are constants too, so the theorems hold for any number
of failures, crashes, reorganisations and blocks.

| theorem | states | argument |
|---|---|---|
| `TypeCorrect`, `PaymentsAreFinal`, `LedgerAgrees` (`BlockPipeline_proofs`) | `TypeOK`, `PaymentsFinal`, `LedgerAgreesWithBlocks` always hold | `IInv` is inductive |
| `CountersAreExact`, `LimitIsEnforced`, `NoStaleClients` (`WsHub_proofs`) | the hub's three invariants | their conjunction with `TypeOK` is inductive |
| `FundIsCovered`, `TiersMatchExpiries` (`SubscriptionScanner_proofs`) | `FundedWasCredited`, `TierMatchesExpiry`, with failures, crashes and deletions | `IInv` is inductive |
| `HeldYearStays`, `DownloadsAreBounded` (`Retention_proofs`) | `HeldPaymentsKept`, `ExportsBounded` | `HeldInv` with `OnlyDeletedAreErased`, and `ExportsTracked`, are inductive |
| `OwnedIsPaid` (`BlockPipeline_proofs`) | `OwnedUntilPaid` | `HandsInv`, then `OwnedUntilPaid` itself, are inductive |
| `BlocksPaidOnce`, `LedgerIsKept` (`BlockPipeline_proofs`) | `OncePerHandout`; `Spec => LedgerSpec` | `ClaimsInv` is inductive; step simulation |
| `OnlyOrphansArePaid` (`BlockPipeline_proofs`) | `OnlyOrphansMispaid` | `FindsAreReplaced` is inductive |
| `SharesAreWithinReward`, `OnlyDustDependsOnOrder` (`Payouts_proofs`) | `SharesWithinReward`, `ProportionalWithinWord` | `PayoutInv` is inductive, with lemmas on sums |
| `OracleIsFresh`, `PriceFallsBackLittle` (`Services_proofs`) | `HitsAreFresh`, `PriceFallsBackOneRequest` | `OracleInv` is inductive |
| `AddressUsesOracle`, `AddressesAreKept`, `AddressesAreUnshared` (`Services_proofs`) | `AddressSpec => OracleSpec`, `HandedOutIsKept`, `AddressesAreDistinct` | step simulation; `AddressInv` is inductive |
| `BackfillsArePrecise`, `PricesAreCompletable`, `CreditIsNotRewritten` (`Services_proofs`) | `OneLookupPerDay`, `NoHalfPriceIsStuck`, `CreditedPriceKept` | `BackfillInv` is inductive |
| `OneBackfillKeepsPrices` (`Services_proofs`) | `PaymentPriceKept` with at most one backfill | `LeftUnpriced` is inductive |
| `SummariesAreOrdered` (`Services_proofs`) | `StatsFollowStatus` | `NodeInv` is inductive |
| `StatsAreOwnUnderOwnName` (`Services_proofs`) | `NamesDiffer => StatsAreOwn` | `StatsAreOfTheName` is inductive |
| `InstanceIsServices` (`Services_proofs`) | each service of `MCServices` behaves as its own specification says | step simulation |
| `TunnelIsHub` (`WsHub_proofs`) | `TunnelSpec => Spec`: the hub's theorems hold behind the tunnel | step simulation, under `TypeOK` |
| `TypeCorrect` (each proof module), `TunnelTypeCorrect` | the type invariants | part of the invariants |
| `KeysExpire`, `PaymentsShow` (`ApiKeys_proofs`) | `AnswersAreRecent`, `PaymentTakesEffect` | an invariant on rows, cache, lookups and history is inductive |
| `LimitHolds`, `KeysExpireUnlessLost` (`RateLimiter_proofs`) | `RedisWithinBurst`, `KeysCleanUpUnlessLost` | `IInv` is inductive |
| `CreditsAreUnique`, `ScannerKeepsPromise` | `CreditedAtMostOnce`; `Spec => EntitlementSpec` | `CreditIInv` is inductive; step simulation |

**Pipeline.** `PaymentsFinal` is not inductive: nothing in it says that the block
a goroutine is about to insert is settled. `IInv` follows the height through the
program. `AnnouncedInv`: no publication, polled height or `currentHeight` lies
above the tip. Hence what `checkConfirmations` takes from the set is settled
(`GoroutineInv`: the batch, the job, and the fetched block equals the chain's, and
at `record` the row is filled), hence a filled row holds the chain's block
(`StoreInv`). `SettledStable` is the lemma that carries all of it over a new
block: a reorganisation of at most `ConfirmDepth` blocks does not reach a settled
height. It is the only place where `DepthAssumption` is used. That a second
goroutine may fill the row in between does no harm, because both fetched the same
settled block.

`OwnedUntilPaid` is inductive once `HandsInv` says that a goroutine's fields are
empty where it does not use them, so that a height that enters the batch is not
taken out by a return. Recovery itself adds nothing here: its query sees unfilled
rows only.

`BlocksPaidOnce` and `LedgerIsKept` hold in every setting, with the recovery ticker
that every run of the program has. `Claims(h)` counts what may still pay height `h`
or has paid it: its payments, the pending set, the hands of each goroutine.
`ClaimsInv` says that there is at most one claim more than the height was handed
out again: taking a height from the set, a retry and a payment move a claim or drop
it, and only an addition to the set while there is another claim makes one, which
is what `recalls` counts. `LedgerIsKept` maps each step: a new block settles a
height, the indexer's INSERT finds one, `RecordPayments` pays one, what adds to the
pending set recalls, and everything else, crashes included, changes nothing that the
ledger sees.

`SafeSettingHandsOutOnce` adds when there is no recall at all: `SafeSetting ==
~PeriodicRecovery /\ FaultKinds \subseteq {"db", "block"}`. Then one goroutine is
active at a time (`OneAtATime`: the recovery at start-up ends before the listener
begins), and announcements follow each other up to a reorganisation
(`AnnouncedInOrder`), so that a height which was taken from the set is behind
everything still to be announced (`Passed`). This is not the program's setting, since
`main.go` starts the ticker in any case; it says what the double payment takes.

`OnlyOrphansArePaid` is what remains of `OnlyPoolBlocksPaid`, which
`pipeline_orphan` refutes: processBlock goes by the height alone, and a height
that P2Pool reported has its block unless a branch replaced it.

**Payouts.** `PaidSoFar` says that before the last turn `distributed` is the sum of the
payments, no more than what the rates of their miners earn of the reward and, within
a word, at most one unit per miner less; so the remainder does not wrap, is no less
than the last miner's share, and is that share up to dust when the rates are the whole
pool's. The sums are the community modules' fold over a
function. Induction over finite sets takes an operator as a parameter; instead a set
that violates a lemma has a minimal subset that violates it (`MinimalSubset`, from the
well-foundedness of the strict subset order on finite sets), and taking an element out
of it gives the contradiction. The rest is arithmetic of quotients and remainders
modulo the word, isolated in lemmas on naturals.

**Hub.** `CountsAreExact` needs `OnlyLiveHandlersRegistered` (a connection is
registered with the address of its own handler, so the decrement hits the right
counter) and `LimitHolds` needs `CountsAreExact`. Sets of registered connections
are finite subsets of `Conns`; cardinalities change by one through two lemmas.

**Subscriptions.** `FundInv` adds that at `fund` the current entry has one credit
more than the fund has counted; `TierInv` that a tier worth writing is not "free".
`CreditInv` says that a credit implies a confirmed row, and what the goroutine
knows of the entry at each statement; `BaseInv` that `base` is still the end of the
paid time, or a moment since. Both are theorems under
`Quiet == MaxNukes = 0 /\ "select" \notin FaultKinds`, and false without it: a
deletion removes the confirmed row, and a failing SELECT is taken for its absence
(`subscription_twice`, `subscription_erased`).

**Retention.** `HeldPaymentsKept` is not inductive: phase 5 spares what is of the held
year, so `HoldsAreLinked` says that what is owed is of that year, and the erasing
statements work on a miner that was selected before, so `OnlyDeletedAreErased` says
that it is still marked (the mark is never taken back). `ExportsBounded` needs two
cases: while downloads are left, those served and left make 2, and one more per failed
UPDATE; when none is left, the requests between SELECT and UPDATE may each still
serve one, of which the one that took the last download is not one any more.

**Smaller services.** The oracle's invariant bounds the age of the quote of every call
by its start, hence that of the cache by TTL, back-off and timeout. `AddressInv`
follows an index from the wallet to the row: an index that is not in a row belongs to
one request. `CacheTracked` says that what a backfill remembers of a day was
answered for that day, and that it asked once for the days it remembers. Payments'
prices are replaced where a handler updates a row it read before another one filled
it; with one handler, what it has left has no price (`LeftUnpriced`).

**Nodes.** `LogIsWrittenFirst`: a status is never newer than the log of its node, in the
tables or in a row that a request has read and not looked up, unless the INSERT of
that check failed; the INSERT comes first in checkNode and the lookup last in
GetNodesStatus. The lookup takes the latest log of any node of the name, which is not
older than the node's own.

**API keys.** An answer's age is bounded by where it came from: the row (now), a
lookup that read the row at most `SetDelay` ago, or an entry that was written then
and lives for `TTL`. The invariant says so of every lookup and every entry, and
that the row's present value, or a record in `held`, backs it; a step that changes
a row first puts its value into `held`. For `PaymentsShow` it says that a lookup on
its way with an answer that is not paid has lapsed.

**Rate limiter.** `RedisWithinBurst` needs that Redis has counted what it let pass,
which is true until the counter expires. `CountedInv` therefore says: counted, or
`w + Expiry <= clock`. `DeadlineInv` says that a request waiting for Redis is within
`Second + Timeout` of its window, so that by `RateAssumption` the second case is
over when its INCR is answered. `LateInv` (an INCR is late only after a fault)
is what `KeysCleanUpUnlessLost` lacks.

Every safety property that a passing run checks is a theorem. Only model-checked are
the liveness properties, which are out of the prover's reach as fairness and ENABLED
are (`RowsAreBackfilled`, `PaidUnlessCrashed`, `GoneBrowsersAreForgotten`,
`ActivatedUnlessInterrupted`, `DeletedForGood`, `NodeVisitsEnd`), and the
violations.

## 6. What is not modelled

* The amounts inside rows. Prices are modelled where rows without one are completed
  (`PriceBackfill`); the block pipeline records a payment with or without it.
* Of the indexer: the snapshot and the worker buckets, which `Payouts` takes as
  arbitrary values and `Retention` as rows with a time.
* Of the subscription row, in `SubscriptionScanner`: `grace_until`, `retention_since`
  and the contribution counters, which nothing in the poll cycle reads.
* `p2pool_shares`: no statement of the repository fills it, so the rollup of shares,
  the deletes on it and the gauges are left out of `Retention`.
* The browser's reconnect (`src/frontend/lib/useWebSocket.ts`): one timer of one
  component; what it does to the services is a new connection.
* `AssignNode`, which no service calls, and the start-up of `wsProxy` before both
  connections exist.
* Graceful shutdown: contexts are cancelled and every loop returns; what a
  cancelled statement leaves behind is what a crash leaves behind.
* `GetOrCreateSubscription`, whose row reads like none, and `CheckTier` (see above).
* Addresses of the rate limiter other than one: they share nothing but the map,
  whose entries are never removed. Request ids, logging and the JWT check.
* The components of section 1 that have no module; `PROJECT.json` says why for each.
  Read-only queries, formatting, metrics and scripts are left out for good.

## 7. Plan

1. Done: the block pipeline, subscriptions, payouts, the hub with its tunnel,
   retention with deletions and exports, the price oracle with addresses and
   backfills, the node pool, API keys and the rate limiter; their main invariants
   proved.
2. Done: a theorem for every safety property of a passing run, the refinement of
   `PaymentLedger` in every setting, and what remains of the refuted properties
   `OnlyPoolBlocksPaid`, `PaymentPriceKept` and `StatsAreOwn`.
3. Proofs left: the conditions of `RedisWithinBurst`'s counterpart in memory and of
   `ReplacedKeyWasPresented`; that the tunnel frees what it took, which is liveness.
4. The frontend's reconnect timer, and the 15 s cache of the aggregator together with
   the tables behind it, once a document says what its answers promise.
