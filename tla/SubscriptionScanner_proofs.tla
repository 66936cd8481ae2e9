--------------------- MODULE SubscriptionScanner_proofs ---------------------
(***************************************************************************)
(* For every set of transactions and miners: the scanner credits a         *)
(* transfer at most once and implements the promise of Entitlement, as     *)
(* long as no deletion is requested and no SELECT fails; and, without any  *)
(* such condition, the invariants that relate the tier, the expiry and the *)
(* fund.                                                                   *)
(***************************************************************************)
EXTENDS SubscriptionScanner, TLAPS

USE SubscriptionAssumption

\* An entry of get_transfers is a transaction and a miner it pays.
LEMMA EntryType ==
    ASSUME NEW e \in Entries
    PROVE  Tx(e) \in Txs /\ Payee(e) \in Miners
BY DEF Entries, Tx, Payee

\* A call that fails is counted within the bound.
LEMMA FaultsType ==
    ASSUME TypeOK, NEW kind, Fails(kind) \/ Succeeds
    PROVE  faults' \in 0..MaxFaults
BY DEF TypeOK, Fails, Succeeds

\* Going on to the next entry leaves the scanner's variables in their types.
LEMMA ContinueType ==
    ASSUME TypeOK, NEW rest \in SUBSET todo, Continue(rest)
    PROVE  /\ pc' \in {"idle", "next"}
           /\ seen' \in [Txs -> {"none", "pool", "in", "deep"}]
           /\ todo' \subseteq Entries
           /\ base' = 0
           /\ earned' = "free"
BY DEF TypeOK, Continue

\* The types of the variables the scanner's steps may change.
ScanTyped == /\ row \in [Txs -> {"none", "unconfirmed", "confirmed"}]
             /\ rowMiner \in [Txs -> Miners \cup {NoMiner}]
             /\ tier \in [Miners -> Tiers]
             /\ expires \in [Miners -> Nat]
             /\ pc \in {"idle", "next", "record", "check", "upsert", "expiry", "activate", "fund"}
             /\ seen \in [Txs -> {"none", "pool", "in", "deep"}]
             /\ todo \subseteq Entries
             /\ pc \notin {"idle", "next"} => cur \in Entries
             /\ base \in Nat
             /\ earned \in Tiers
             /\ faults \in 0..MaxFaults
             /\ credits \in [Entries -> Nat]
             /\ funded \in [Entries -> Nat]
             /\ \A t \in Txs : row[t] = "none" <=> rowMiner[t] = NoMiner

\* ... are all that TypeOK says of them.
LEMMA ScanTypes ==
    ASSUME TypeOK, UNCHANGED <<worldVars, nukeVars, crashes>>, ScanTyped'
    PROVE  TypeOK'
BY DEF TypeOK, ScanTyped, worldVars, walletVars, nukeVars

\* The scanner's steps before an entry is credited.
LEMMA GetTransfersInv ==
    ASSUME IInv, GetTransfers
    PROVE  ScanTyped' /\ FundInv' /\ TierInv'
<1>1. faults' \in 0..MaxFaults
  BY FaultsType DEF GetTransfers, IInv
<1>2. ScanTyped'
  BY <1>1 DEF GetTransfers, IInv, TypeOK, ScanTyped, rowVars, subVars, scanVars, Entries
<1>3. FundInv'
  BY DEF GetTransfers, IInv, FundInv, FundedWasCredited, subVars, scanVars
<1>4. TierInv'
  BY DEF GetTransfers, IInv, TierInv, TierMatchesExpiry, subVars, scanVars
<1> QED
  BY <1>2, <1>3, <1>4

\* Taking the next entry of the answer keeps the invariant.
LEMMA NextTransferInv ==
    ASSUME IInv, NextTransfer
    PROVE  ScanTyped' /\ FundInv' /\ TierInv'
<1>0. PICK e \in todo :
         \/ /\ Succeeds
            /\ cur' = e
            /\ todo' = todo \ {e}
            /\ pc' = IF seen[Tx(e)] = "deep" THEN "check" ELSE "record"
            /\ UNCHANGED <<seen, base, earned>>
         \/ Fails("db") /\ Continue(todo \ {e})
  BY DEF NextTransfer
<1>1. faults' \in 0..MaxFaults /\ UNCHANGED <<rowVars, subVars, funded>>
  BY <1>0, FaultsType DEF NextTransfer, IInv
<1>2. e \in Entries
  BY DEF IInv, TypeOK
<1>3. ScanTyped' /\ pc' \notin {"fund", "expiry", "activate"}
  BY <1>0, <1>1, <1>2, ContinueType DEF IInv, TypeOK, ScanTyped, rowVars, subVars, Tiers
<1>4. FundInv'
  BY <1>1, <1>3 DEF IInv, FundInv, FundedWasCredited, subVars
<1>5. TierInv'
  BY <1>1, <1>3 DEF IInv, TierInv, TierMatchesExpiry, subVars
<1> QED
  BY <1>3, <1>4, <1>5

\* So does the insert of an unconfirmed payment,
LEMMA RecordUnconfirmedInv ==
    ASSUME IInv, RecordUnconfirmed
    PROVE  ScanTyped' /\ FundInv' /\ TierInv'
<1>1. faults' \in 0..MaxFaults /\ UNCHANGED <<subVars, funded>>
  BY FaultsType DEF RecordUnconfirmed, IInv
<1>2. cur \in Entries /\ Tx(cur) \in Txs /\ Payee(cur) \in Miners
  BY EntryType DEF RecordUnconfirmed, IInv, TypeOK
<1>3. /\ pc' \in {"idle", "next"}
      /\ seen' \in [Txs -> {"none", "pool", "in", "deep"}]
      /\ todo' \subseteq Entries
      /\ base' = 0
      /\ earned' = "free"
  BY ContinueType DEF RecordUnconfirmed, Return, IInv
<1>4. ScanTyped'
  BY <1>1, <1>2, <1>3
  DEF RecordUnconfirmed, IInv, TypeOK, ScanTyped, rowVars, subVars, Tiers
<1>5. FundInv' /\ TierInv'
  BY <1>1, <1>3 DEF IInv, FundInv, FundedWasCredited, TierInv, TierMatchesExpiry, subVars
<1> QED
  BY <1>4, <1>5

\* ... the SELECT of the confirmed flag,
LEMMA CheckConfirmedInv ==
    ASSUME IInv, CheckConfirmed
    PROVE  ScanTyped' /\ FundInv' /\ TierInv'
<1>1. faults' \in 0..MaxFaults /\ UNCHANGED <<rowVars, subVars, funded>>
  BY FaultsType DEF CheckConfirmed, IInv
<1>2. CASE Return
  <2>1. /\ pc' \in {"idle", "next"}
        /\ seen' \in [Txs -> {"none", "pool", "in", "deep"}]
        /\ todo' \subseteq Entries
        /\ base' = 0
        /\ earned' = "free"
    BY <1>2, ContinueType DEF Return, IInv
  <2> QED
    BY <1>1, <2>1 DEF IInv, TypeOK, ScanTyped, FundInv, FundedWasCredited, TierInv,
                      TierMatchesExpiry, rowVars, subVars, Tiers
<1>3. CASE Goto("upsert") /\ UNCHANGED <<base, earned>>
  BY <1>1, <1>3 DEF CheckConfirmed, Goto, IInv, TypeOK, ScanTyped, FundInv,
                    FundedWasCredited, TierInv, TierMatchesExpiry, rowVars, subVars
<1> QED
  BY <1>2, <1>3 DEF CheckConfirmed

\* ... the upsert of the confirmed payment, which fixes what it is worth,
LEMMA UpsertConfirmedInv ==
    ASSUME IInv, UpsertConfirmed
    PROVE  ScanTyped' /\ FundInv' /\ TierInv'
<1>1. faults' \in 0..MaxFaults /\ UNCHANGED <<subVars, funded>>
  BY FaultsType DEF UpsertConfirmed, IInv
<1>2. cur \in Entries /\ Tx(cur) \in Txs /\ Payee(cur) \in Miners
  BY EntryType DEF UpsertConfirmed, IInv, TypeOK
<1>3. /\ row' \in [Txs -> {"none", "unconfirmed", "confirmed"}]
      /\ rowMiner' \in [Txs -> Miners \cup {NoMiner}]
      /\ \A t \in Txs : row'[t] = "none" <=> rowMiner'[t] = NoMiner
  BY <1>2 DEF UpsertConfirmed, IInv, TypeOK, rowVars
<1>4. CASE Return
  <2>1. /\ pc' \in {"idle", "next"}
        /\ seen' \in [Txs -> {"none", "pool", "in", "deep"}]
        /\ todo' \subseteq Entries
        /\ base' = 0
        /\ earned' = "free"
    BY <1>4, ContinueType DEF Return, IInv
  <2> QED
    BY <1>1, <1>3, <2>1 DEF IInv, TypeOK, ScanTyped, FundInv, FundedWasCredited, TierInv,
                            TierMatchesExpiry, subVars, Tiers
<1>5. ASSUME NEW worth \in EarnedTiers, worth # "free", earned' = worth,
             Goto("expiry"), UNCHANGED base
      PROVE  ScanTyped' /\ FundInv' /\ TierInv'
  BY <1>1, <1>2, <1>3, <1>5 DEF Goto, IInv, TypeOK, ScanTyped, FundInv,
                    FundedWasCredited, TierInv, TierMatchesExpiry, subVars
<1> QED
  BY <1>4, <1>5 DEF UpsertConfirmed

\* ... the SELECT of the expiry,
LEMMA ReadExpiryInv ==
    ASSUME IInv, ReadExpiry
    PROVE  ScanTyped' /\ FundInv' /\ TierInv'
<1>1. faults' \in 0..MaxFaults /\ UNCHANGED <<rowVars, subVars, funded>>
  BY FaultsType DEF ReadExpiry, IInv
<1>2. cur \in Entries /\ Payee(cur) \in Miners
  BY EntryType DEF ReadExpiry, IInv, TypeOK
<1>3. base' \in Nat
  BY <1>2 DEF ReadExpiry, IInv, TypeOK, Later
<1> QED
  BY <1>1, <1>2, <1>3 DEF ReadExpiry, Goto, IInv, TypeOK, ScanTyped, FundInv,
                    FundedWasCredited, TierInv, TierMatchesExpiry, rowVars, subVars

\* ... the credit itself, after which the fund may count the transfer once,
LEMMA ActivateInv ==
    ASSUME IInv, Activate
    PROVE  ScanTyped' /\ FundInv' /\ TierInv'
<1>1. faults' \in 0..MaxFaults /\ UNCHANGED <<rowVars, funded>>
  BY FaultsType DEF Activate, IInv
<1>2. cur \in Entries /\ Payee(cur) \in Miners /\ earned # "free"
  BY EntryType DEF Activate, IInv, TypeOK, TierInv
<1>3. CASE Return /\ UNCHANGED subVars
  <2>1. /\ pc' \in {"idle", "next"}
        /\ seen' \in [Txs -> {"none", "pool", "in", "deep"}]
        /\ todo' \subseteq Entries
        /\ base' = 0
        /\ earned' = "free"
    BY <1>3, ContinueType DEF Return, IInv
  <2> QED
    BY <1>1, <1>3, <2>1 DEF IInv, TypeOK, ScanTyped, FundInv, FundedWasCredited, TierInv,
                      TierMatchesExpiry, rowVars, subVars, Tiers
<1>4. CASE /\ tier' = [tier EXCEPT ![Payee(cur)] =
                         IF "champion" \in {earned, @} THEN "champion" ELSE earned]
           /\ expires' = [expires EXCEPT ![Payee(cur)] = base + DurationDays]
           /\ credits' = [credits EXCEPT ![cur] = @ + 1]
           /\ Goto("fund")
           /\ UNCHANGED <<base, earned>>
  <2>1. ScanTyped'
    BY <1>1, <1>2, <1>4 DEF Goto, IInv, TypeOK, ScanTyped, rowVars, Tiers
  <2>2. FundInv'
    BY <1>1, <1>2, <1>4 DEF Goto, IInv, TypeOK, FundInv, FundedWasCredited
  <2>3. TierInv'
    BY <1>2, <1>4 DEF Goto, IInv, TypeOK, TierInv, TierMatchesExpiry
  <2> QED
    BY <2>1, <2>2, <2>3
<1> QED
  BY <1>3, <1>4 DEF Activate

\* ... and the statement that counts it.
LEMMA UpdateFundMonthInv ==
    ASSUME IInv, UpdateFundMonth
    PROVE  ScanTyped' /\ FundInv' /\ TierInv'
<1>1. faults' \in 0..MaxFaults /\ UNCHANGED <<rowVars, subVars>>
  BY FaultsType DEF UpdateFundMonth, IInv
<1>2. cur \in Entries /\ funded[cur] < credits[cur]
  BY DEF UpdateFundMonth, IInv, TypeOK, FundInv
<1>3. /\ pc' \in {"idle", "next"}
      /\ seen' \in [Txs -> {"none", "pool", "in", "deep"}]
      /\ todo' \subseteq Entries
      /\ base' = 0
      /\ earned' = "free"
  BY ContinueType DEF UpdateFundMonth, Return, IInv
<1>4. \/ funded' = [funded EXCEPT ![cur] = @ + 1]
      \/ funded' = funded
  BY DEF UpdateFundMonth
<1>5. ScanTyped'
  BY <1>1, <1>2, <1>3, <1>4 DEF IInv, TypeOK, ScanTyped, rowVars, subVars, Tiers
<1>6. FundInv'
  BY <1>1, <1>2, <1>3, <1>4 DEF IInv, TypeOK, FundInv, FundedWasCredited, subVars
<1>7. TierInv'
  BY <1>1, <1>3 DEF IInv, TierInv, TierMatchesExpiry, subVars
<1> QED
  BY <1>5, <1>6, <1>7

\* Every step of the scanner keeps the invariant.
LEMMA ScanInv ==
    ASSUME IInv, Scan
    PROVE  IInv'
<1>1. ScanTyped' /\ FundInv' /\ TierInv'
  BY GetTransfersInv, NextTransferInv, RecordUnconfirmedInv, CheckConfirmedInv,
     UpsertConfirmedInv, ReadExpiryInv, ActivateInv, UpdateFundMonthInv DEF Scan
<1> QED
  BY <1>1, ScanTypes DEF Scan, IInv

-----------------------------------------------------------------------------
\* So do the steps of the network and the clock,
LEMMA WorldInv ==
    ASSUME IInv, Tick \/ \E t \in Txs : Pay(t) \/ Mined(t)
    PROVE  IInv'
<1> USE DEF IInv, FundInv, FundedWasCredited, TierInv, TierMatchesExpiry, walletVars,
            rowVars, subVars, scanVars, nukeVars
<1>1. CASE Tick
  BY <1>1 DEF Tick, TypeOK
<1>2. ASSUME NEW t \in Txs, Pay(t) PROVE IInv'
  <2>1. PICK miners \in Payees : /\ payees' = [payees EXCEPT ![t] = miners]
                                 /\ erased' = erased \ miners
    BY <1>2 DEF Pay
  <2>2. TypeOK'
    BY <1>2, <2>1 DEF Pay, TypeOK
  <2> QED
    BY <1>2, <2>2 DEF Pay
<1>3. ASSUME NEW t \in Txs, Mined(t) PROVE IInv'
  BY <1>3 DEF Mined, TypeOK
<1> QED
  BY <1>1, <1>2, <1>3

\* ... of a deletion,
LEMMA NukeInv ==
    ASSUME IInv, NEW m \in Miners,
           RequestNuke(m) \/ DeletePayments(m) \/ ResetSubscription(m)
    PROVE  IInv'
<1> USE DEF IInv, FundInv, FundedWasCredited, TierInv, TierMatchesExpiry, worldVars,
            walletVars, rowVars, subVars, scanVars
<1>0. faults' \in 0..MaxFaults
  BY FaultsType DEF RequestNuke, DeletePayments, ResetSubscription
<1>1. CASE RequestNuke(m)
  BY <1>0, <1>1 DEF RequestNuke, TypeOK
<1>2. CASE DeletePayments(m)
  <2>1. TypeOK'
    BY <1>0, <1>2 DEF DeletePayments, TypeOK
  <2> QED
    BY <1>2, <2>1 DEF DeletePayments
<1>3. CASE ResetSubscription(m)
  <2>1. TypeOK'
    BY <1>0, <1>3 DEF ResetSubscription, TypeOK, Tiers
  <2>2. TierInv'
    BY <1>3 DEF ResetSubscription, TypeOK
  <2> QED
    BY <1>3, <2>1, <2>2 DEF ResetSubscription
<1> QED
  BY <1>1, <1>2, <1>3

\* ... and a crash.
LEMMA CrashInv ==
    ASSUME IInv, Crash
    PROVE  IInv'
BY DEF Crash, Continue, IInv, TypeOK, Tiers, FundInv, FundedWasCredited, TierInv,
       TierMatchesExpiry, worldVars, walletVars, rowVars, subVars

\* The invariant holds at the start.
LEMMA InitInv == Init => IInv
BY DEF Init, ScanInit, IInv, TypeOK, Tiers, Entries, FundInv, FundedWasCredited,
       TierInv, TierMatchesExpiry

\* The invariant that needs no condition.
THEOREM Invariance == Spec => []IInv
<1>1. IInv /\ UNCHANGED vars => IInv'
  BY DEF IInv, TypeOK, FundInv, FundedWasCredited, TierInv, TierMatchesExpiry, vars,
         walletVars, rowVars, subVars, scanVars, nukeVars
<1>2. IInv /\ [Next]_vars => IInv'
  BY <1>1, ScanInv, WorldInv, NukeInv, CrashInv DEF Next
<1> QED
  BY <1>2, InitInv, PTL DEF Spec

\* The fund of the month never counts a transfer more often than it was credited,
\* whatever fails, crashes or is deleted in between.
THEOREM FundIsCovered == Spec => []FundedWasCredited
<1>1. IInv => FundedWasCredited
  BY DEF IInv, FundInv
<1> QED
  BY <1>1, Invariance, PTL

\* A miner has paid time exactly when it has a paid tier, whatever fails, crashes
\* or is deleted in between.
THEOREM TiersMatchExpiries == Spec => []TierMatchesExpiry
<1>1. IInv => TierMatchesExpiry
  BY DEF IInv, TierInv
<1> QED
  BY <1>1, Invariance, PTL

-----------------------------------------------------------------------------
\* What the credit relies on, while no deletion is requested and no SELECT fails.
Quiet == MaxNukes = 0 /\ "select" \notin FaultKinds

\* Going on to the next entry drops what the scanner knew of the last one.
LEMMA DropEntry ==
    ASSUME CreditIInv, UNCHANGED <<rowVars, credits, nuke>>, pc' \in {"idle", "next", "record", "check"}
    PROVE  CreditInv' /\ BaseInv' /\ NoDeletion'
BY DEF CreditIInv, CreditInv, BaseInv, NoDeletion, rowVars

\* A row that becomes or stays confirmed does not take a credit's row away.
LEMMA RecordCredit ==
    ASSUME CreditIInv, RecordUnconfirmed, UNCHANGED nuke
    PROVE  CreditInv' /\ BaseInv' /\ NoDeletion'
<1>1. cur \in Entries /\ Tx(cur) \in Txs /\ pc' \in {"idle", "next"} /\ UNCHANGED credits
  BY EntryType DEF RecordUnconfirmed, Return, Continue, CreditIInv, IInv, TypeOK, subVars
<1>2. \A t \in Txs : row[t] = "confirmed" => row'[t] = "confirmed"
  BY <1>1 DEF RecordUnconfirmed, CreditIInv, IInv, TypeOK, rowVars
<1>3. CreditInv'
  BY <1>1, <1>2, EntryType DEF CreditIInv, CreditInv
<1> QED
  BY <1>1, <1>3 DEF CreditIInv, BaseInv, NoDeletion

\* The SELECT that does not fail lets only an unconfirmed transfer through.
LEMMA CheckCredit ==
    ASSUME Quiet, CreditIInv, CheckConfirmed, UNCHANGED nuke
    PROVE  CreditInv' /\ BaseInv' /\ NoDeletion'
<1>1. UNCHANGED <<rowVars, credits>>
  BY DEF CheckConfirmed, subVars
<1>2. CASE Return
  BY <1>1, <1>2, DropEntry DEF Return, Continue
<1>3. CASE row[Tx(cur)] # "confirmed" /\ Goto("upsert")
  BY <1>1, <1>3 DEF Goto, CreditIInv, CreditInv, BaseInv, NoDeletion, rowVars
<1> QED
  BY <1>2, <1>3 DEF CheckConfirmed, Fails, Quiet

\* The upsert confirms the row of a transfer that no credit was given for.
LEMMA UpsertCredit ==
    ASSUME CreditIInv, UpsertConfirmed, UNCHANGED nuke
    PROVE  CreditInv' /\ BaseInv' /\ NoDeletion'
<1>1. /\ cur \in Entries /\ Tx(cur) \in Txs /\ UNCHANGED credits
      /\ row[Tx(cur)] # "confirmed"
  BY EntryType DEF UpsertConfirmed, CreditIInv, CreditInv, IInv, TypeOK, subVars
<1>2. credits[cur] = 0
  BY <1>1 DEF CreditIInv, CreditInv, IInv, TypeOK
<1>3. \/ UNCHANGED row /\ Return
      \/ /\ row' = [row EXCEPT ![Tx(cur)] = "confirmed"]
         /\ Return \/ Goto("expiry")
  BY DEF UpsertConfirmed, rowVars
<1>4. \A t \in Txs : row[t] = "confirmed" => row'[t] = "confirmed"
  BY <1>3 DEF CreditIInv, IInv, TypeOK
<1>5. pc' \in {"expiry", "activate"} =>
          pc' = "expiry" /\ cur' = cur /\ row'[Tx(cur)] = "confirmed"
  BY <1>1, <1>3 DEF CreditIInv, IInv, TypeOK, Return, Continue, Goto
<1>6. pc' # "upsert"
  BY <1>3 DEF Return, Continue, Goto
<1>7. CreditInv'
  BY <1>1, <1>2, <1>4, <1>5, <1>6, EntryType DEF CreditIInv, CreditInv
<1> QED
  BY <1>5, <1>7 DEF CreditIInv, BaseInv, NoDeletion

\* The expiry that is read is the end of the paid time, and a free miner has none.
LEMMA ReadCredit ==
    ASSUME Quiet, CreditIInv, ReadExpiry, UNCHANGED <<nuke, now>>
    PROVE  CreditInv' /\ BaseInv' /\ NoDeletion'
<1>1. /\ cur \in Entries /\ Payee(cur) \in Miners /\ UNCHANGED <<rowVars, subVars>>
      /\ cur' = cur /\ pc = "expiry" /\ pc' = "activate" /\ now \in Nat
  BY EntryType DEF ReadExpiry, Goto, CreditIInv, IInv, TypeOK
<1>2. base' = IF tier[Payee(cur)] = "free" THEN now ELSE Later(expires[Payee(cur)], now)
  BY DEF ReadExpiry, Fails, Quiet
<1>3. tier[Payee(cur)] = "free" => expires[Payee(cur)] = 0
  BY <1>1 DEF CreditIInv, IInv, TierInv, TierMatchesExpiry
<1>4. base' = Later(expires[Payee(cur)], now)
  BY <1>1, <1>2, <1>3 DEF Later
<1>5. BaseInv'
  BY <1>1, <1>4 DEF BaseInv, subVars, Later
<1> QED
  BY <1>1, <1>5 DEF CreditIInv, CreditInv, NoDeletion, rowVars, subVars

\* The credit is the transfer's first.
LEMMA ActivateCredit ==
    ASSUME CreditIInv, Activate, UNCHANGED nuke
    PROVE  CreditInv' /\ BaseInv' /\ NoDeletion'
<1>1. /\ cur \in Entries /\ UNCHANGED rowVars
      /\ row[Tx(cur)] = "confirmed" /\ credits[cur] = 0
  BY DEF Activate, CreditIInv, CreditInv, IInv, TypeOK
<1>2. pc' \in {"idle", "next", "fund"}
  BY DEF Activate, Return, Continue, Goto
<1>3. \A e \in Entries : /\ credits'[e] <= 1
                         /\ credits'[e] > 0 => row[Tx(e)] = "confirmed"
  BY <1>1 DEF Activate, CreditIInv, CreditInv, IInv, TypeOK, subVars
<1> QED
  BY <1>1, <1>2, <1>3 DEF CreditIInv, CreditInv, BaseInv, NoDeletion, rowVars

\* Every step keeps what the credit relies on.
LEMMA CreditStep ==
    ASSUME Quiet, CreditIInv, [Next]_vars
    PROVE  CreditIInv'
<1>0. IInv'
  <2>1. IInv /\ UNCHANGED vars => IInv'
    BY DEF IInv, TypeOK, FundInv, FundedWasCredited, TierInv, TierMatchesExpiry, vars,
           walletVars, rowVars, subVars, scanVars, nukeVars
  <2> QED
    BY <2>1, ScanInv, WorldInv, NukeInv, CrashInv DEF Next, CreditIInv
<1>1. ASSUME Scan PROVE CreditInv' /\ BaseInv' /\ NoDeletion'
  <2>0. UNCHANGED <<nuke, now>>
    BY <1>1 DEF Scan, nukeVars, worldVars
  <2>1. CASE GetTransfers
    BY <2>0, <2>1, DropEntry DEF GetTransfers, scanVars, subVars
  <2>2. CASE NextTransfer
    BY <2>0, <2>2, DropEntry DEF NextTransfer, Continue, subVars
  <2>3. CASE UpdateFundMonth
    BY <2>0, <2>3, DropEntry DEF UpdateFundMonth, Return, Continue, subVars
  <2> QED
    BY <1>1, <2>0, <2>1, <2>2, <2>3, RecordCredit, CheckCredit, UpsertCredit, ReadCredit,
       ActivateCredit DEF Scan
<1>2. ASSUME NEW t \in Txs, Pay(t) \/ Mined(t) PROVE CreditInv' /\ BaseInv' /\ NoDeletion'
  BY <1>2 DEF Pay, Mined, CreditIInv, CreditInv, BaseInv, NoDeletion, rowVars, subVars,
              scanVars, nukeVars
<1>3. ASSUME Tick PROVE CreditInv' /\ BaseInv' /\ NoDeletion'
  BY <1>3 DEF Tick, CreditIInv, IInv, TypeOK, CreditInv, BaseInv, NoDeletion, rowVars, subVars,
              scanVars, nukeVars
<1>4. ASSUME NEW m \in Miners, RequestNuke(m) \/ DeletePayments(m) \/ ResetSubscription(m)
      PROVE FALSE
  BY <1>4 DEF RequestNuke, DeletePayments, ResetSubscription, CreditIInv, IInv, TypeOK,
              NoDeletion, Quiet
<1>5. ASSUME Crash PROVE CreditInv' /\ BaseInv' /\ NoDeletion'
  BY <1>5 DEF Crash, Continue, CreditIInv, CreditInv, BaseInv, NoDeletion, rowVars, subVars,
              worldVars
<1>6. ASSUME UNCHANGED vars PROVE CreditInv' /\ BaseInv' /\ NoDeletion'
  BY <1>6 DEF CreditIInv, CreditInv, BaseInv, NoDeletion, vars, rowVars, subVars,
              scanVars, nukeVars
<1> QED
  BY <1>0, <1>1, <1>2, <1>3, <1>4, <1>5, <1>6 DEF CreditIInv, Next

\* ... and it holds at the start.
LEMMA CreditInit == Init => CreditIInv
BY InitInv DEF Init, ScanInit, CreditIInv, CreditInv, BaseInv, NoDeletion, Entries

\* So it holds of every behaviour without deletions and failing SELECTs.
THEOREM CreditInvariance ==
    ASSUME Quiet
    PROVE  Spec => []CreditIInv
<1>1. CreditIInv /\ [Next]_vars => CreditIInv'
  BY CreditStep
<1> QED
  BY <1>1, CreditInit, PTL DEF Spec

\* A transfer extends a subscription at most once, whatever statement fails and
\* whenever the manager crashes, while no deletion is requested and no SELECT fails.
THEOREM CreditsAreUnique ==
    ASSUME Quiet
    PROVE  Spec => []CreditedAtMostOnce
<1>1. CreditIInv => CreditedAtMostOnce
  BY DEF CreditIInv, CreditInv, CreditedAtMostOnce
<1> QED
  BY <1>1, CreditInvariance, PTL

-----------------------------------------------------------------------------
Unseen == UNCHANGED <<credits, expires, now>>

\* A step that leaves credits, expiries and clock alone is no step of the promise.
LEMMA UnseenStep ==
    ASSUME Unseen
    PROVE  UNCHANGED Promise!entitlement
BY DEF Unseen, Promise!entitlement

\* The write of a subscription is a credit of the promise: it is the transfer's
\* first, and its period starts where the paid time ends.
LEMMA ActivateIsCredit ==
    ASSUME CreditIInv, Activate, UNCHANGED now
    PROVE  Unseen \/ Promise!Credit(cur)
<1>1. /\ cur \in Entries /\ Payee(cur) \in Miners /\ credits[cur] = 0
      /\ pc = "activate" /\ expires \in [Miners -> Nat] /\ now \in Nat
      /\ credits \in [Entries -> Nat]
  BY EntryType DEF Activate, CreditIInv, CreditInv, IInv, TypeOK
<1>2. PICK moment \in 0..now : base = Later(expires[Payee(cur)], moment)
  BY <1>1 DEF CreditIInv, BaseInv
<1>3. CASE UNCHANGED subVars
  BY <1>3 DEF Unseen, subVars
<1>4. CASE /\ expires' = [expires EXCEPT ![Payee(cur)] = base + DurationDays]
           /\ credits' = [credits EXCEPT ![cur] = @ + 1]
  <2>1. cur \notin {e \in Entries : credits[e] > 0}
    BY <1>1
  <2>2. {e \in Entries : credits'[e] > 0} = {e \in Entries : credits[e] > 0} \cup {cur}
    BY <1>1, <1>4
  <2>3. base = Promise!Start(Payee(cur), moment)
    BY <1>2 DEF Promise!Start, Later
  <2>4. [e \in Entries |-> Payee(e)][cur] = Payee(cur)
    BY <1>1
  <2> QED
    BY <1>4, <2>1, <2>2, <2>3, <2>4 DEF Promise!Credit
<1> QED
  BY <1>3, <1>4 DEF Activate

\* Every step of the system is a step of the promise or invisible to it.
LEMMA PromiseStep ==
    ASSUME Quiet, CreditIInv, [Next]_vars
    PROVE  [Promise!Next]_(Promise!entitlement)
<1>1. CASE Tick
  BY <1>1 DEF Tick, subVars, Promise!Next, Promise!Advance
<1>2. ASSUME Scan PROVE Unseen \/ Promise!Next
  <2>1. UNCHANGED now
    BY <1>2 DEF Scan, worldVars
  <2>2. CASE Activate
    <3>1. cur \in Entries
      BY <2>2 DEF Activate, CreditIInv, IInv, TypeOK
    <3>2. Unseen \/ Promise!Credit(cur)
      BY <2>1, <2>2, ActivateIsCredit
    <3> QED
      BY <3>1, <3>2 DEF Promise!Next, Promise!Credit
  <2>3. CASE ~Activate
    BY <1>2, <2>1, <2>3 DEF Scan, GetTransfers, NextTransfer, RecordUnconfirmed,
       CheckConfirmed, UpsertConfirmed, ReadExpiry, UpdateFundMonth, subVars, Unseen
  <2> QED
    BY <2>2, <2>3
<1>3. ASSUME NEW t \in Txs, Pay(t) \/ Mined(t) PROVE Unseen
  BY <1>3 DEF Pay, Mined, Unseen, subVars
<1>4. ASSUME NEW m \in Miners, RequestNuke(m) \/ DeletePayments(m) \/ ResetSubscription(m)
      PROVE FALSE
  BY <1>4 DEF RequestNuke, DeletePayments, ResetSubscription, CreditIInv, IInv, TypeOK,
              NoDeletion, Quiet
<1>5. Crash \/ UNCHANGED vars => Unseen
  BY DEF Crash, Unseen, subVars, worldVars, vars
<1> QED
  BY <1>1, <1>2, <1>3, <1>4, <1>5, UnseenStep DEF Next

\* Nothing is credited or paid for at the start of either.
LEMMA PromiseInit == Init => Promise!Init
BY DEF Init, Promise!Init, Entries

\* The scanner implements the promise: every transfer is credited at most once and
\* every credit adds a whole period to the paid time, across failing statements and
\* crashes, while no deletion is requested and no SELECT fails.
THEOREM ScannerKeepsPromise ==
    ASSUME Quiet
    PROVE  Spec => EntitlementSpec
<1>1. CreditIInv /\ [Next]_vars => [Promise!Next]_(Promise!entitlement)
  BY PromiseStep
<1>2. Spec => []CreditIInv
  BY CreditInvariance
<1> QED
  BY <1>1, <1>2, PromiseInit, PTL DEF Spec, EntitlementSpec, Promise!Spec

\* Every variable keeps its type, with failures, crashes and deletions.
THEOREM TypeCorrect == Spec => []TypeOK
<1>1. IInv => TypeOK
  BY DEF IInv
<1> QED
  BY <1>1, Invariance, PTL
=============================================================================
