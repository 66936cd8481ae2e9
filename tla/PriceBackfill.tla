--------------------------- MODULE PriceBackfill ----------------------------
(***************************************************************************)
(* handleBackfillPrices and handleBackfillSubPrices: an administrator's    *)
(* request reads the rows without a price and then, row by row, asks       *)
(* CoinGecko for the price of the row's day, once for each day, and        *)
(* updates the row.  Meanwhile other requests do the same, the two         *)
(* scanners record payments and transfers, and rows are deleted.           *)
(*                                                                         *)
(* A price is the day it is of, Live when the oracle quoted it as the row  *)
(* was written, or Zero when CoinGecko's answer has no market data.        *)
(***************************************************************************)
EXTENDS Integers, FiniteSets

CONSTANTS Payments,   \* ids of rows of payments
          Transfers,  \* ids of rows of subscription_payments
          Days,       \* the days on which they are created
          Backfills   \* requests

ASSUME BackfillAssumption == /\ Payments \cap Transfers = {}
                             /\ Days \subseteq Nat \ {0}

Null == -1       \* a NULL price; in priceCache, a day whose request failed
Live == -2
Zero == 0
NotAsked == -3   \* not in priceCache

Rows == Payments \cup Transfers
Prices == Days \cup {Null, Live, Zero}

VARIABLES created,   \* created_at of a row
          row,       \* is it not yet written, in its table, or deleted?
          usd,       \* xmr_usd_price
          cad,       \* xmr_cad_price
          backfill,  \* a request: its table, the rows it has left, priceCache
          asked      \* how often a request asked CoinGecko for a day

backfillVars == <<created, row, usd, cad, backfill, asked>>
prices == <<usd, cad>>

NoBackfill == [table |-> {}, todo |-> {}, priceCache |-> [d \in Days |-> NotAsked]]
NothingAsked == [d \in Days |-> 0]

BackfillTypeOK ==
    /\ created \in [Rows -> Days]
    /\ row \in [Rows -> {"new", "present", "deleted"}]
    /\ usd \in [Rows -> Prices]
    /\ cad \in [Rows -> Prices]
    /\ backfill \in [Backfills -> [table : {{}, Payments, Transfers}, todo : SUBSET Rows,
                                   priceCache : [Days -> Prices \cup {NotAsked}]]]
    /\ \A b \in Backfills : backfill[b].todo \subseteq backfill[b].table
    /\ asked \in [Backfills -> [Days -> Nat]]

\* Transfers recorded before migration 006 may have a price in USD only.
BackfillInit ==
    /\ created \in [Rows -> Days]
    /\ \E old \in SUBSET Transfers :
          /\ row = [r \in Rows |-> IF r \in old THEN "present" ELSE "new"]
          /\ \E priced \in SUBSET old : usd = [r \in Rows |-> IF r \in priced THEN Live ELSE Null]
    /\ cad = [r \in Rows |-> Null]
    /\ backfill = [b \in Backfills |-> NoBackfill]
    /\ asked = [b \in Backfills |-> NothingAsked]

-----------------------------------------------------------------------------
Filled(old, new) == IF old = Null THEN new ELSE old   \* COALESCE

\* The coinbase scanner inserts a payment with both prices or with none.
WritePayment(r) ==
    /\ row[r] = "new"
    /\ row' = [row EXCEPT ![r] = "present"]
    /\ \E price \in {Null, Live} : /\ usd' = [usd EXCEPT ![r] = price]
                                   /\ cad' = [cad EXCEPT ![r] = price]
    /\ UNCHANGED <<created, backfill, asked>>

\* The subscription scanner inserts or confirms a transfer.
WriteTransfer(r) ==
    /\ row[r] # "deleted"
    /\ row' = [row EXCEPT ![r] = "present"]
    /\ \E price \in {Null, Live} : /\ usd' = [usd EXCEPT ![r] = Filled(@, price)]
                                   /\ cad' = [cad EXCEPT ![r] = Filled(@, price)]
    /\ UNCHANGED <<created, backfill, asked>>

\* A miner's deletion; the row's id is not used again.
DeleteRow(r) == /\ row[r] = "present"
                /\ row' = [row EXCEPT ![r] = "deleted"]
                /\ UNCHANGED <<created, prices, backfill, asked>>

-----------------------------------------------------------------------------
\* The SELECT of a handler: its table's rows without the price it goes by.
Unpriced(table) ==
    {r \in table : row[r] = "present" /\ (IF table = Payments THEN usd[r] ELSE cad[r]) = Null}

StartBackfill(b, table) ==
    /\ backfill[b].todo = {}
    /\ backfill' = [backfill EXCEPT ![b] = [NoBackfill EXCEPT !.table = table,
                                                              !.todo = Unpriced(table)]]
    /\ asked' = [asked EXCEPT ![b] = NothingAsked]
    /\ UNCHANGED <<created, row, prices>>

\* The range over the rows by created_at has reached row r.
Reached(b, r) == /\ r \in backfill[b].todo
                 /\ \A s \in backfill[b].todo : created[r] <= created[s]

Cached(b, r) == backfill[b].priceCache[created[r]]

\* Mutant of FetchHistory: the first price is used for all days.
FetchHistoryOnce(b, r) ==
    /\ Reached(b, r) /\ Cached(b, r) = NotAsked
    /\ asked' = [asked EXCEPT ![b][created[r]] = @ + 1]
    /\ \E price \in {created[r], Zero} :
          backfill' = [backfill EXCEPT ![b].priceCache = [d \in Days |-> price]]
    /\ UNCHANGED <<created, row, prices>>

\* GetHistoricalPrice for a day that was not asked for yet; when it fails the
\* row is skipped and the day remembered.
FetchHistory(b, r) ==
    /\ Reached(b, r) /\ Cached(b, r) = NotAsked
    /\ asked' = [asked EXCEPT ![b][created[r]] = @ + 1]
    /\ \/ \E price \in {created[r], Zero} :
             backfill' = [backfill EXCEPT ![b].priceCache[created[r]] = price]
       \/ backfill' = [backfill EXCEPT ![b].priceCache[created[r]] = Null,
                                       ![b].todo = @ \ {r}]
    /\ UNCHANGED <<created, row, prices>>

\* Mutants of PutPrice: the price in USD is replaced, or left alone.
PutPriceUncoalesced(r, price) == /\ usd' = [usd EXCEPT ![r] = price]
                                 /\ cad' = [cad EXCEPT ![r] = price]
PutPriceCadOnly(r, price) == /\ usd' = [usd EXCEPT ![r] = IF r \in Transfers THEN @ ELSE price]
                             /\ cad' = [cad EXCEPT ![r] = price]

\* The SET clause of the two UPDATEs.
PutPrice(r, price) ==
    /\ usd' = [usd EXCEPT ![r] = IF r \in Transfers THEN Filled(@, price) ELSE price]
    /\ cad' = [cad EXCEPT ![r] = price]

\* The row is updated if it is still there; or skipped, because its day has no
\* price or the UPDATE fails.
UpdateRow(b, r) ==
    /\ Reached(b, r) /\ Cached(b, r) # NotAsked
    /\ \/ /\ Cached(b, r) # Null
          /\ row[r] = "present"
          /\ PutPrice(r, Cached(b, r))
       \/ UNCHANGED prices
    /\ backfill' = [backfill EXCEPT ![b].todo = @ \ {r}]
    /\ UNCHANGED <<created, row, asked>>

BackfillNext ==
    \/ \E r \in Payments : WritePayment(r)
    \/ \E r \in Transfers : WriteTransfer(r)
    \/ \E r \in Rows : DeleteRow(r)
    \/ \E b \in Backfills : \/ \E table \in {Payments, Transfers} : StartBackfill(b, table)
                            \/ \E r \in Rows : FetchHistory(b, r) \/ UpdateRow(b, r)

BackfillSpec == BackfillInit /\ [][BackfillNext]_backfillVars

-----------------------------------------------------------------------------
\* A price that was looked up is that of the row's own day, in both currencies,
\* and a handler asks for a day once, also when the answer was a failure
\* (routes.go: "Payments are grouped by date to minimize API calls").
OneLookupPerDay ==
    /\ \A r \in Rows : {usd[r], cad[r]} \cap Days \subseteq {created[r]}
    /\ \A b \in Backfills : \A d \in Days : asked[b][d] <= 1

\* Why: what a handler remembers of a day is an answer for that day, and it has
\* asked for the days of which it remembers something.
CacheTracked ==
    \A b \in Backfills : \A d \in Days :
        /\ backfill[b].priceCache[d] \in {d, Zero, Null, NotAsked}
        /\ asked[b][d] = IF backfill[b].priceCache[d] = NotAsked THEN 0 ELSE 1

\* No row is left with a price in one currency that no backfill would complete:
\* that of payments looks at USD only, that of transfers at CAD only.
NoHalfPriceIsStuck ==
    /\ \A r \in Payments : usd[r] # Null => cad[r] # Null
    /\ \A r \in Transfers : cad[r] # Null => usd[r] # Null

\* The USD price at which a transfer was credited is not rewritten: not by a
\* backfill that read the row before, nor by the next poll of the scanner.  The
\* CAD price is not protected: the backfill's UPDATE sets it whatever the row holds.
CreditedPriceKept ==
    [][\A r \in Transfers : usd[r] # Null => usd'[r] = usd[r]]_backfillVars

\* The same of payments, which a handler only "fills in" (routes.go): two handlers
\* at once, and the price of the first is replaced by the second's.
PaymentPriceKept ==
    [][\A r \in Payments : usd[r] # Null => usd'[r] = usd[r]]_backfillVars

\* Why one handler at a time keeps it: the payments it has left have no price.
LeftUnpriced ==
    \A r \in Payments :
        /\ row[r] = "new" => usd[r] = Null
        /\ \A b \in Backfills : r \in backfill[b].todo => row[r] # "new" /\ usd[r] = Null
=============================================================================
