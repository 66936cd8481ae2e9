------------------------ MODULE SubscriptionScanner -------------------------
(***************************************************************************)
(* Paid subscriptions: the scanner goroutine that turns the transfers      *)
(* monero-wallet-rpc lists into rows of subscription_payments and paid     *)
(* time in subscriptions, next to the HTTP handler that deletes a miner's  *)
(* data.  Each statement is a transaction of its own, so the steps of the  *)
(* two interleave, fail and are cut short by a crash one by one.           *)
(*                                                                         *)
(* The wallet is external.  It lists every transfer since height 0 on each *)
(* call, one entry per transaction and subaddress.                         *)
(***************************************************************************)
EXTENDS Naturals

CONSTANTS Txs,           \* transactions
          Miners,        \* the miners that have a subaddress
          NoMiner,       \* no miner: the transaction has no row
          Payees,        \* which sets of miners one transaction may pay
          EarnedTiers,   \* the tiers that payments are worth
          DurationDays,  \* Scanner.durationDays, in ticks of the clock
          MaxTime,       \* bound: the last tick of the clock
          MaxFaults,     \* bound: how many calls fail
          FaultKinds,    \* which calls may fail
          MaxNukes,      \* bound: how many deletions are requested
          MaxCrashes     \* bound: how many times the manager crashes

Tiers == {"free", "supporter", "champion"}

\* "wallet"  get_transfers fails
\* "select"  one of the two SELECTs whose error is taken for "no row" fails
\* "db"      another statement fails and has no effect
AllFaultKinds == {"wallet", "select", "db"}

ASSUME SubscriptionAssumption ==
    /\ NoMiner \notin Miners
    /\ Payees \subseteq SUBSET Miners
    /\ EarnedTiers \subseteq Tiers
    /\ DurationDays \in Nat \ {0}
    /\ {MaxTime, MaxFaults, MaxNukes, MaxCrashes} \subseteq Nat
    /\ FaultKinds \subseteq AllFaultKinds

VARIABLES wallet,     \* what the wallet knows of each transaction
          payees,     \* whose subaddresses it pays
          row,        \* subscription_payments: unique by tx_hash
          rowMiner,   \* ... and its miner_address
          tier,       \* subscriptions.tier
          expires,    \* subscriptions.expires_at, 0 if NULL
          now,        \* the clock
          pc,         \* where the scanner goroutine is
          seen,       \* wallet as get_transfers answered
          todo,       \* the entries of the answer it has not reached
          cur,        \* the entry it processes
          base,       \* activateSubscription's baseTime
          earned,     \* the tier the entry is worth
          nuke,       \* where the deletion of each miner's data is
          nukes, faults, crashes

\* History variables, which the program does not have.
VARIABLES credits,    \* how often each entry extended its miner's subscription
          funded,     \* how often it was added to node_fund_months
          erased      \* miners told that their data is gone, and not paying since

walletVars == <<wallet, payees>>
rowVars    == <<row, rowMiner>>
subVars    == <<tier, expires, credits>>
scanVars   == <<pc, seen, todo, cur, base, earned>>
nukeVars   == <<nuke, nukes, erased>>
vars == <<walletVars, rowVars, subVars, funded, now, scanVars, nukeVars, faults, crashes>>

Entries == Txs \X Miners
Tx(e) == e[1]
Payee(e) == e[2]

TypeOK == /\ wallet \in [Txs -> {"none", "pool", "in", "deep"}]
          /\ payees \in [Txs -> SUBSET Miners]
          /\ row \in [Txs -> {"none", "unconfirmed", "confirmed"}]
          /\ rowMiner \in [Txs -> Miners \cup {NoMiner}]
          /\ tier \in [Miners -> Tiers]
          /\ expires \in [Miners -> Nat]
          /\ now \in 0..MaxTime
          /\ pc \in {"idle", "next", "record", "check", "upsert", "expiry", "activate", "fund"}
          /\ seen \in [Txs -> {"none", "pool", "in", "deep"}]
          /\ todo \subseteq Entries
          /\ pc \notin {"idle", "next"} => cur \in Entries
          /\ base \in Nat
          /\ earned \in Tiers
          /\ nuke \in [Miners -> {"none", "deleting", "resetting"}]
          /\ nukes \in 0..MaxNukes
          /\ faults \in 0..MaxFaults
          /\ crashes \in 0..MaxCrashes
          /\ credits \in [Entries -> Nat]
          /\ funded \in [Entries -> Nat]
          /\ erased \subseteq Miners
          /\ \A t \in Txs : row[t] = "none" <=> rowMiner[t] = NoMiner

ScanInit == /\ pc = "idle"
            /\ seen = [t \in Txs |-> "none"]
            /\ todo = {}
            /\ cur = NoMiner
            /\ base = 0
            /\ earned = "free"

Init == /\ wallet = [t \in Txs |-> "none"]
        /\ payees = [t \in Txs |-> {}]
        /\ row = [t \in Txs |-> "none"]
        /\ rowMiner = [t \in Txs |-> NoMiner]
        /\ tier = [m \in Miners |-> "free"]
        /\ expires = [m \in Miners |-> 0]
        /\ now = 0
        /\ ScanInit
        /\ nuke = [m \in Miners |-> "none"]
        /\ nukes = 0 /\ faults = 0 /\ crashes = 0
        /\ credits = [e \in Entries |-> 0]
        /\ funded = [e \in Entries |-> 0]
        /\ erased = {}

Fails(kind) == /\ kind \in FaultKinds
               /\ faults < MaxFaults
               /\ faults' = faults + 1

Succeeds == UNCHANGED faults

-----------------------------------------------------------------------------
worldVars == <<walletVars, now>>

\* A transaction is sent to the subaddresses of some miners; it is mined, may
\* return to the pool in a reorganisation, and is final below confirmDepth.
Pay(t) ==
    /\ wallet[t] = "none"
    /\ \E miners \in Payees : /\ payees' = [payees EXCEPT ![t] = miners]
                              /\ erased' = erased \ miners
    /\ wallet' = [wallet EXCEPT ![t] = "pool"]
    /\ UNCHANGED <<rowVars, subVars, funded, now, scanVars, nuke, nukes, faults, crashes>>

Mined(t) ==
    /\ \/ wallet[t] = "pool" /\ wallet' = [wallet EXCEPT ![t] = "in"]
       \/ wallet[t] = "in" /\ wallet' = [wallet EXCEPT ![t] = "deep"]
       \/ wallet[t] = "in" /\ wallet' = [wallet EXCEPT ![t] = "pool"]
    /\ UNCHANGED <<payees, rowVars, subVars, funded, now, scanVars, nukeVars, faults, crashes>>

Tick ==
    /\ now < MaxTime
    /\ now' = now + 1
    /\ UNCHANGED <<walletVars, rowVars, subVars, funded, scanVars, nukeVars, faults, crashes>>

-----------------------------------------------------------------------------
\* On to the next entry of the answer, or to the next poll.
Continue(rest) ==
    /\ todo' = rest
    /\ pc' = IF rest = {} THEN "idle" ELSE "next"
    /\ seen' = IF rest = {} THEN [t \in Txs |-> "none"] ELSE seen
    /\ cur' = NoMiner
    /\ base' = 0
    /\ earned' = "free"

Return == Continue(todo)

Goto(l) == /\ pc' = l
           /\ UNCHANGED <<seen, todo, cur>>

\* scan: get_transfers.
GetTransfers ==
    /\ pc = "idle"
    /\ \/ /\ Succeeds
          /\ todo' = {e \in Entries : wallet[Tx(e)] # "none" /\ Payee(e) \in payees[Tx(e)]}
          /\ todo' # {}
          /\ seen' = wallet
          /\ pc' = "next"
          /\ UNCHANGED <<cur, base, earned>>
       \/ Fails("wallet") /\ UNCHANGED scanVars
    /\ UNCHANGED <<rowVars, subVars, funded>>

\* scan's loops, over `in' and then over `pool' and `pending'; processTransfer's
\* test of the depth and lookupMiner, which every branch calls first.
NextTransfer ==
    /\ pc = "next"
    /\ \E e \in todo :
          /\ seen[Tx(e)] = "pool" => \A f \in todo : seen[Tx(f)] = "pool"
          /\ \/ /\ Succeeds
                /\ cur' = e
                /\ todo' = todo \ {e}
                /\ pc' = IF seen[Tx(e)] = "deep" THEN "check" ELSE "record"
                /\ UNCHANGED <<seen, base, earned>>
             \/ Fails("db") /\ Continue(todo \ {e})
    /\ UNCHANGED <<rowVars, subVars, funded>>

\* recordUnconfirmed: INSERT ... ON CONFLICT (tx_hash) DO NOTHING
RecordUnconfirmed ==
    /\ pc = "record"
    /\ \/ /\ Succeeds
          /\ IF row[Tx(cur)] = "none"
             THEN /\ row' = [row EXCEPT ![Tx(cur)] = "unconfirmed"]
                  /\ rowMiner' = [rowMiner EXCEPT ![Tx(cur)] = Payee(cur)]
             ELSE UNCHANGED rowVars
       \/ Fails("db") /\ UNCHANGED rowVars
    /\ Return
    /\ UNCHANGED <<subVars, funded>>

\* Mutant of CheckConfirmed: any row counts as processed.
CheckAnyRow ==
    /\ pc = "check"
    /\ \/ Succeeds /\ row[Tx(cur)] # "none" /\ Return
       \/ Succeeds /\ row[Tx(cur)] = "none" /\ Goto("upsert") /\ UNCHANGED <<base, earned>>
    /\ UNCHANGED <<rowVars, subVars, funded>>

\* processTransfer: is the row confirmed already?  An error counts as a no.
CheckConfirmed ==
    /\ pc = "check"
    /\ \/ Succeeds /\ row[Tx(cur)] = "confirmed" /\ Return
       \/ /\ \/ Succeeds /\ row[Tx(cur)] # "confirmed"
             \/ Fails("select")
          /\ Goto("upsert")
          /\ UNCHANGED <<base, earned>>
    /\ UNCHANGED <<rowVars, subVars, funded>>

\* Mutants of UpsertConfirmed: a row that exists keeps its confirmed = FALSE; a new
\* row gets no miner.
UpsertKeepsRow ==
    /\ pc = "upsert"
    /\ IF row[Tx(cur)] = "none"
       THEN /\ row' = [row EXCEPT ![Tx(cur)] = "confirmed"]
            /\ rowMiner' = [rowMiner EXCEPT ![Tx(cur)] = Payee(cur)]
       ELSE UNCHANGED rowVars
    /\ Succeeds
    /\ \E worth \in EarnedTiers : earned' = worth /\ Goto("expiry") /\ UNCHANGED base
    /\ UNCHANGED <<subVars, funded>>

UpsertWithoutMiner ==
    /\ pc = "upsert"
    /\ row' = [row EXCEPT ![Tx(cur)] = "confirmed"]
    /\ Succeeds
    /\ \E worth \in EarnedTiers : earned' = worth /\ Goto("expiry") /\ UNCHANGED base
    /\ UNCHANGED <<rowMiner, subVars, funded>>

\* processTransfer: the row becomes confirmed (the miner of an existing one is
\* kept).  What the payment is worth depends on the price at this moment; an
\* unknown price makes it a supporter's.
UpsertConfirmed ==
    /\ pc = "upsert"
    /\ \/ /\ Succeeds
          /\ row' = [row EXCEPT ![Tx(cur)] = "confirmed"]
          /\ rowMiner' = [rowMiner EXCEPT ![Tx(cur)] = IF @ = NoMiner THEN Payee(cur) ELSE @]
          /\ \E worth \in EarnedTiers :
                IF worth = "free"
                THEN Return
                ELSE earned' = worth /\ Goto("expiry") /\ UNCHANGED base
       \/ Fails("db") /\ Return /\ UNCHANGED rowVars
    /\ UNCHANGED <<subVars, funded>>

Later(t1, t2) == IF t1 > t2 THEN t1 ELSE t2

\* Mutant of ReadExpiry: the time that is already paid for is ignored.
ReadExpiryNow ==
    /\ pc = "expiry"
    /\ Goto("activate")
    /\ base' = now
    /\ Succeeds
    /\ UNCHANGED <<rowVars, subVars, funded, earned>>

\* activateSubscription: the time the new period starts at, now if there is no
\* paid time left or the SELECT fails.
ReadExpiry ==
    /\ pc = "expiry"
    /\ Goto("activate")
    /\ \/ Succeeds /\ base' = IF tier[Payee(cur)] = "free" THEN now
                              ELSE Later(expires[Payee(cur)], now)
       \/ Fails("select") /\ base' = now
    /\ UNCHANGED <<rowVars, subVars, funded, earned>>

\* Mutant of Activate: its error is ignored.
ActivateIgnoresError ==
    /\ pc = "activate"
    /\ \/ /\ Succeeds
          /\ tier' = [tier EXCEPT ![Payee(cur)] =
                         IF "champion" \in {earned, @} THEN "champion" ELSE earned]
          /\ expires' = [expires EXCEPT ![Payee(cur)] = base + DurationDays]
          /\ credits' = [credits EXCEPT ![cur] = @ + 1]
       \/ Fails("db") /\ UNCHANGED subVars
    /\ Goto("fund")
    /\ UNCHANGED <<base, earned, rowVars, funded>>

\* activateSubscription: the upsert.
Activate ==
    /\ pc = "activate"
    /\ \/ /\ Succeeds
          /\ tier' = [tier EXCEPT ![Payee(cur)] =
                         IF "champion" \in {earned, @} THEN "champion" ELSE earned]
          /\ expires' = [expires EXCEPT ![Payee(cur)] = base + DurationDays]
          /\ credits' = [credits EXCEPT ![cur] = @ + 1]
          /\ Goto("fund")
          /\ UNCHANGED <<base, earned>>
       \/ Fails("db") /\ Return /\ UNCHANGED subVars
    /\ UNCHANGED <<rowVars, funded>>

\* updateFundMonth, whose error is logged only.
UpdateFundMonth ==
    /\ pc = "fund"
    /\ \/ Succeeds /\ funded' = [funded EXCEPT ![cur] = @ + 1]
       \/ Fails("db") /\ UNCHANGED funded
    /\ Return
    /\ UNCHANGED <<rowVars, subVars>>

Scan == /\ \/ GetTransfers \/ NextTransfer \/ RecordUnconfirmed \/ CheckConfirmed
           \/ UpsertConfirmed \/ ReadExpiry \/ Activate \/ UpdateFundMonth
        /\ UNCHANGED <<worldVars, nukeVars, crashes>>

-----------------------------------------------------------------------------
\* handleNukeData: the row is marked, or the request is refused.
RequestNuke(m) ==
    /\ nuke[m] = "none"
    /\ nukes < MaxNukes
    /\ nukes' = nukes + 1
    /\ \/ Succeeds /\ nuke' = [nuke EXCEPT ![m] = "deleting"]
       \/ Fails("db") /\ UNCHANGED nuke
    /\ UNCHANGED <<worldVars, rowVars, subVars, funded, scanVars, erased, crashes>>

\* handleNukeData: DELETE FROM subscription_payments WHERE miner_address = m
DeletePayments(m) ==
    /\ nuke[m] = "deleting"
    /\ \/ /\ Succeeds
          /\ row' = [t \in Txs |-> IF rowMiner[t] = m THEN "none" ELSE row[t]]
          /\ rowMiner' = [t \in Txs |-> IF rowMiner[t] = m THEN NoMiner ELSE rowMiner[t]]
       \/ Fails("db") /\ UNCHANGED rowVars
    /\ nuke' = [nuke EXCEPT ![m] = "resetting"]
    /\ UNCHANGED <<worldVars, subVars, funded, scanVars, nukes, erased, crashes>>

\* Mutant of ResetSubscription: the tier stays.
ResetKeepsTier(m) ==
    /\ nuke[m] = "resetting"
    /\ Succeeds
    /\ expires' = [expires EXCEPT ![m] = 0]
    /\ nuke' = [nuke EXCEPT ![m] = "none"]
    /\ erased' = erased \cup {m}
    /\ UNCHANGED <<worldVars, rowVars, tier, credits, funded, scanVars, nukes, crashes>>

\* handleNukeData: the subscription is reset and the miner told it is done.
ResetSubscription(m) ==
    /\ nuke[m] = "resetting"
    /\ \/ /\ Succeeds
          /\ tier' = [tier EXCEPT ![m] = "free"]
          /\ expires' = [expires EXCEPT ![m] = 0]
          /\ UNCHANGED credits
       \/ Fails("db") /\ UNCHANGED subVars
    /\ nuke' = [nuke EXCEPT ![m] = "none"]
    /\ erased' = erased \cup {m}
    /\ UNCHANGED <<worldVars, rowVars, funded, scanVars, nukes, crashes>>

Crash ==
    /\ crashes < MaxCrashes
    /\ crashes' = crashes + 1
    /\ Continue({})
    /\ nuke' = [m \in Miners |-> "none"]
    /\ UNCHANGED <<worldVars, rowVars, subVars, funded, nukes, erased, faults>>

Next == \/ \E t \in Txs : Pay(t) \/ Mined(t)
        \/ Tick
        \/ Scan
        \/ \E m \in Miners : RequestNuke(m) \/ DeletePayments(m) \/ ResetSubscription(m)
        \/ Crash

Spec == Init /\ [][Next]_vars

\* The scanner's ticker keeps firing and its calls return.
FairSpec == Spec /\ WF_vars(Scan)

-----------------------------------------------------------------------------
\* A transfer pays for one period: whatever crashes, it never extends the
\* subscription twice, because the row is confirmed before the subscription.
CreditedAtMostOnce == \A e \in Entries : credits[e] <= 1

\* The fund of the month counts a transfer no more often than it was credited,
\* whichever statement fails.
FundedWasCredited == \A e \in Entries : funded[e] <= credits[e]

\* A miner has paid time exactly when it has a paid tier, although the scanner and
\* the deletion both write the row.
TierMatchesExpiry == \A m \in Miners : tier[m] = "free" <=> expires[m] = 0

\* docs/subscription-setup.md: once a transfer has its confirmations and is worth
\* a tier, the subscription is activated.
TransfersActivate ==
    \A e \in Entries :
        wallet[Tx(e)] = "deep" /\ Payee(e) \in payees[Tx(e)] ~> credits[e] > 0

\* What holds of it while no transaction pays two miners: the row becomes confirmed
\* whatever fails, and the subscription is activated unless a call failed or the
\* manager crashed.
ActivatedUnlessInterrupted ==
    \A e \in Entries :
        wallet[Tx(e)] = "deep" /\ Payee(e) \in payees[Tx(e)] ~>
            row[Tx(e)] = "confirmed" /\ (credits[e] > 0 \/ faults + crashes > 0)

\* routes.go: the deletion is irreversible; nothing of the miner comes back
\* unless the miner pays again.
ErasureIsFinal ==
    \A m \in erased : tier[m] = "free" /\ \A t \in Txs : rowMiner[t] # m

-----------------------------------------------------------------------------
\* The same in inductive form.  What the scanner knows at each of its steps:
FundInv == /\ FundedWasCredited
           /\ pc = "fund" => funded[cur] < credits[cur]

TierInv == /\ TierMatchesExpiry
           /\ pc \in {"expiry", "activate"} => earned # "free"

CreditInv == /\ \A e \in Entries : /\ credits[e] <= 1
                                   /\ credits[e] > 0 => row[Tx(e)] = "confirmed"
             /\ pc = "upsert" => row[Tx(cur)] # "confirmed"
             /\ pc \in {"expiry", "activate"} => /\ row[Tx(cur)] = "confirmed"
                                                 /\ credits[cur] = 0

\* ... base is still the end of the paid time, or a moment after it.
BaseInv == pc = "activate" => \E moment \in 0..now : base = Later(expires[Payee(cur)], moment)

NoDeletion == nuke = [m \in Miners |-> "none"]

IInv == TypeOK /\ FundInv /\ TierInv
CreditIInv == IInv /\ CreditInv /\ BaseInv /\ NoDeletion

-----------------------------------------------------------------------------
Promise == INSTANCE Entitlement WITH
    Transfers <- Entries,
    Subscribers <- Miners,
    MinerOf <- [e \in Entries |-> Payee(e)],
    Period <- DurationDays,
    credited <- {e \in Entries : credits[e] > 0},
    paidUntil <- expires,
    clock <- now

\* While no deletion is requested and no SELECT fails, the scanner implements the
\* promise across crashes and failing statements.
EntitlementSpec == Promise!Spec
=============================================================================
