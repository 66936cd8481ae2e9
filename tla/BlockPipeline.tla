--------------------------- MODULE BlockPipeline ----------------------------
(***************************************************************************)
(* From a block on the Monero chain to recorded payments: monerod and      *)
(* P2Pool, the indexer, the block listener and the coinbase scanner's two  *)
(* goroutines over one database, with failing calls and crashes of the     *)
(* manager.                                                                *)
(***************************************************************************)
EXTENDS P2PoolIndexer, BlockListener

CONSTANTS PeriodicRecovery,  \* does the 5 minute recovery ticker fire?
          MaxCrashes         \* bound: how many times the manager crashes

ASSUME PipelineAssumption == /\ PeriodicRecovery \in BOOLEAN
                             /\ MaxCrashes \in Nat

\* What makes ConfirmDepth a confirmation depth: no reorganisation is deeper.
ASSUME DepthAssumption == MaxReorgDepth <= ConfirmDepth

VARIABLE crashes

\* History variables, which the program does not have.
VARIABLES unattributed,  \* heights of filled rows whose extraction found no payments
          recalls        \* how many times each height was handed out again

historyVars == <<unattributed, recalls>>
vars == <<chainVars, storeVars, faults, indexerVars, scannerVars, listenerVars,
          crashes, historyVars>>

TypeOK == /\ ChainTypeOK
          /\ StoreTypeOK
          /\ IndexerTypeOK
          /\ ScannerTypeOK
          /\ ListenerTypeOK
          /\ crashes \in 0..MaxCrashes
          /\ unattributed \subseteq Heights
          /\ recalls \in [Heights -> Nat]

Init == /\ ChainInit
        /\ StoreInit
        /\ IndexerInit
        /\ ScannerInit
        /\ ListenerInit
        /\ crashes = 0
        /\ unattributed = {}
        /\ recalls = [h \in Heights |-> 0]

-----------------------------------------------------------------------------
\* The heights a goroutine is processing, the one in its processBlock included.
InHand(p) == (IF pc[p] = "found" THEN {} ELSE batch[p]) \cup ({job[p]} \ {0})

\* The history of a step that puts heights into the pending set: those that are
\* paid or in a goroutine's hands are handed out again.
Recalled == {h \in pending' \ pending :
                payments'[h] # <<>> \/ \E p \in Goroutines : h \in InHand(p)'}

CountRecalls == recalls' = [h \in Heights |-> IF h \in Recalled THEN recalls[h] + 1
                                                               ELSE recalls[h]]

NewBlock ==
    /\ \/ \E byPool \in BOOLEAN : Mine(byPool) /\ Publish(tip + 1, 1)
       \/ \E d \in 1..MaxReorgDepth : Reorg(d) /\ Publish(tip - d + 1, d + 1)
    /\ UNCHANGED <<storeVars, faults, indexerVars, scannerVars, crashes,
                   historyVars>>

IndexerStep ==
    /\ \/ FetchStats /\ UNCHANGED <<storeVars, faults>>
       \/ InsertFound
    /\ UNCHANGED <<chainVars, scannerVars, listenerVars, crashes, historyVars>>

ListenerStep ==
    /\ \/ /\ \/ StartListener
             \/ ZmqRecv
             \/ PollTick
          /\ UNCHANGED <<faults, scannerVars>>
       \/ PollInit /\ UNCHANGED scannerVars
       \/ FireHandlers /\ UNCHANGED faults
    /\ UNCHANGED <<chainVars, storeVars, indexerVars, crashes, unattributed>>
    /\ CountRecalls

ConnectionLost ==
    /\ ZmqFail
    /\ UNCHANGED <<chainVars, storeVars, faults, indexerVars, scannerVars, crashes,
                   historyVars>>

\* ExtractPayments returned no payments for a backfilled block, so processBlock
\* returns nil without having paid.
FindsNoPayments(p) ==
    /\ pc[p] = "extract" /\ row[job[p]] = "filled"
    /\ Succeeds
    /\ pc'[p] # "record"

Process(p) ==
    /\ ScannerStep(p)
    /\ unattributed' = IF FindsNoPayments(p) THEN unattributed \cup {job[p]}
                                             ELSE unattributed
    /\ CountRecalls
    /\ UNCHANGED <<chainVars, indexerVars, listenerVars, crashes>>

\* main's ticker goroutine, which runs next to the listener.
RecoveryTick ==
    /\ PeriodicRecovery
    /\ mode # "off"
    /\ pc["recovery"] = "idle"
    /\ Goto("recovery", "query")
    /\ UNCHANGED <<pending, cur, batch, job, blk, chainVars, storeVars, faults,
                   indexerVars, listenerVars, crashes, historyVars>>

\* The manager crashes and starts again: only the database is kept.
Crash ==
    /\ crashes < MaxCrashes
    /\ crashes' = crashes + 1
    /\ IndexerRestart
    /\ ScannerRestart
    /\ ListenerRestart
    /\ UNCHANGED <<chainVars, storeVars, faults, historyVars>>

Next == \/ NewBlock
        \/ IndexerStep
        \/ ListenerStep
        \/ ConnectionLost
        \/ \E p \in Goroutines : Process(p)
        \/ RecoveryTick
        \/ Crash

Spec == Init /\ [][Next]_vars

\* The Go runtime schedules every runnable goroutine, tickers keep firing and
\* the network keeps finding blocks.  Failures, losses and crashes are not
\* owed; that a call does not always fail follows from MaxFaults.
Fairness == /\ WF_vars(NewBlock)
            /\ WF_vars(IndexerStep)
            /\ WF_vars(ListenerStep)
            /\ \A p \in Goroutines : WF_vars(Process(p))
            /\ WF_vars(RecoveryTick)

FairSpec == Spec /\ Fairness

-----------------------------------------------------------------------------
\* Payments are recorded only for blocks that are ConfirmDepth below the tip,
\* and no reorganisation has replaced such a block: scanner.go's "confirmation
\* depth buffer", in the face of stale announcements, delayed goroutines and
\* retries.
PaymentsFinal ==
    \A h \in Heights : \A i \in DOMAIN payments[h] :
        /\ h + ConfirmDepth <= tip
        /\ payments[h][i] = chain[h]

\* The hash on the payments of a block is the one in its p2pool_blocks row,
\* although the two are written by different statements, perhaps of different
\* goroutines that fetched the block at different times.
LedgerAgreesWithBlocks ==
    \A h \in Heights : \A i \in DOMAIN payments[h] :
        row[h] = "filled" /\ payments[h][i] = rowBlock[h]

\* PaymentsFinal and LedgerAgreesWithBlocks in inductive form.  Everything that
\* was announced or polled is at most the tip, so what a goroutine takes from the
\* pending set is settled, and so is all it derives from it.
Settled(h) == h + ConfirmDepth <= tip

AnnouncedInv ==
    /\ \A i \in DOMAIN zmq : zmq[i].first + zmq[i].n <= tip + 1
    /\ lastHeight <= tip
    /\ fireLast <= tip
    /\ \A p \in Goroutines : cur[p] <= tip

GoroutineOK(p) ==
    /\ pc[p] # "found" => \A h \in batch[p] : Settled(h)
    /\ pc[p] \in Processing => Settled(job[p])
    /\ pc[p] \in {"backfill", "extract", "record"} => blk[p] = chain[job[p]]
    /\ pc[p] = "record" => row[job[p]] = "filled"

GoroutineInv == \A p \in Goroutines : GoroutineOK(p)

RowOK(h) ==
    /\ row[h] = "filled" => Settled(h) /\ rowBlock[h] = chain[h]
    /\ \A i \in DOMAIN payments[h] : row[h] = "filled" /\ payments[h][i] = chain[h]

StoreInv == \A h \in Heights : RowOK(h)

IInv == TypeOK /\ AnnouncedInv /\ GoroutineInv /\ StoreInv

\* What a goroutine does not use is empty: a call has a current height only until
\* it has compared it, a batch only while it goes through it.
HandsInv ==
    \A p \in Goroutines :
        /\ pc[p] # "check" => cur[p] = 0
        /\ pc[p] \notin {"found", "loop"} \cup Processing => batch[p] = {}
        /\ pc[p] \notin Processing => job[p] = 0

\* A backfilled block that is not paid waits in the pending set or a goroutine has
\* it in hand.  Only two things make the manager forget it for good (the query of
\* RecoverUnprocessed no longer sees it): a crash, and an extraction that found
\* no payments, as ExtractPayments does while the pool's hashrate reads 0.  A
\* call that fails does not.
OwnedUntilPaid ==
    \A h \in Heights : row[h] = "filled" =>
        \/ payments[h] # <<>>
        \/ crashes > 0
        \/ h \in unattributed
        \/ h \in pending
        \/ \E p \in Goroutines : h \in batch[p] \cup {job[p]}

\* A block's payments are recorded once: their sum is the block's reward.
PaidAtMostOnce == \A h \in Heights : Len(payments[h]) <= 1

\* What holds of it, for every setting: each time a height is handed out, its
\* payments are recorded at most once.
OncePerHandout == \A h \in Heights : Len(payments[h]) <= 1 + recalls[h]

\* Why: what may still be paid of a height waits in the pending set or is in the
\* hands of one goroutine, and with what was paid that makes one claim, and one
\* more each time the height is handed out again.
Count(h, heights) == IF h \in heights THEN 1 ELSE 0

Claims(h) == Len(payments[h]) + Count(h, pending)
             + Count(h, InHand("listener")) + Count(h, InHand("recovery"))

ClaimsInv == /\ \A h \in Heights : Claims(h) <= 1 + recalls[h]
             /\ \A p \in Goroutines : job[p] \notin batch[p]

\* No height is handed out again, so each is paid at most once.
NeverRecalled == \A h \in Heights : recalls[h] = 0

\* That holds while the recovery ticker does not fire next to the listener and
\* neither a COMMIT nor the first request for the tip is lost: one goroutine is
\* active at a time, and only one recovers, ...
OneAtATime ==
    /\ IF mode = "off" THEN pc["listener"] = "idle" /\ fireNext > fireLast
                       ELSE pc["recovery"] = "idle"
    /\ pc["listener"] \notin {"query", "found", "header"}
    /\ mode # "zmq" => zmq = <<>>

\* ... what is announced is never ConfirmDepth below what was announced before, ...
AnnouncedInOrder ==
    /\ \A i \in DOMAIN zmq :
          /\ fireLast < zmq[i].first + ConfirmDepth
          /\ cur["listener"] < zmq[i].first + ConfirmDepth
          /\ \A j \in DOMAIN zmq :
                i < j => zmq[i].first + zmq[i].n <= zmq[j].first + ConfirmDepth
    /\ fireNext <= fireLast => cur["listener"] < fireNext
    /\ mode = "polling" => cur["listener"] <= lastHeight /\ fireLast <= lastHeight

\* ... so a height that a goroutine took or paid is behind all announcements ...
Passed(h) == /\ \A i \in DOMAIN zmq : h < zmq[i].first
             /\ fireNext <= fireLast => h < fireNext
             /\ mode = "polling" => h <= lastHeight

\* ... and is waiting, in hand or paid, never two of them.
OnceInv ==
    /\ \A h \in Heights : payments[h] # <<>> =>
          Passed(h) /\ h \notin pending /\ Len(payments[h]) = 1
    /\ \A p \in Goroutines :
          /\ \A h \in InHand(p) : Passed(h) /\ h \notin pending /\ payments[h] = <<>>
          /\ pc[p] = "found" => \A h \in batch[p] : payments[h] = <<>>
          /\ job[p] \notin batch[p]

LedgerInv == IInv /\ HandsInv /\ OneAtATime /\ AnnouncedInOrder /\ OnceInv

\* Payments are recorded only for blocks that P2Pool mined.
OnlyPoolBlocksPaid ==
    \A h \in Heights : \A i \in DOMAIN payments[h] : payments[h][i].pool

\* What remains of it: a payment for another miner's block is for one of a branch
\* that replaced P2Pool's find, never for one that was there from the start.
OnlyOrphansMispaid ==
    \A h \in Heights : \A i \in DOMAIN payments[h] :
        payments[h][i].pool \/ payments[h][i].ver > 0

\* Why: a height that P2Pool reported has its block, unless a branch replaced it.
FindsAreReplaced ==
    \A h \in Heights : row[h] # "none" \/ h \in {lastFound, stats} =>
        h <= tip /\ (chain[h].pool \/ chain[h].ver > 0)

\* Every row the indexer inserts for a block that gets confirmed is backfilled
\* in the end, whatever ZMQ loses and whenever the manager crashes: the claim
\* of RecoverUnprocessed.
RowsAreBackfilled ==
    \A h \in Heights : h + ConfirmDepth <= MaxHeight =>
        (row[h] = "unfilled" ~> row[h] = "filled")

\* ... and its payments are recorded.
RowsArePaid ==
    \A h \in Heights : h + ConfirmDepth <= MaxHeight =>
        (row[h] = "unfilled" ~> payments[h] # <<>>)

\* What holds of RowsArePaid: only a crash, or an extraction that finds no
\* payments, loses the payments of a row.  Lost publications, failed connections,
\* reorganisations and requests for the tip that fail do not.
PaidUnlessCrashed ==
    \A h \in Heights : h + ConfirmDepth <= MaxHeight =>
        (row[h] = "unfilled" ~>
            payments[h] # <<>> \/ crashes > 0 \/ h \in unattributed)

-----------------------------------------------------------------------------
\* A height is settled once ConfirmDepth blocks are on top of it.
Ledger == INSTANCE PaymentLedger WITH
    BlockHeights <- Heights,
    found <- {h \in Heights : row[h] # "none"},
    settled <- IF tip < ConfirmDepth THEN 0 ELSE tip - ConfirmDepth,
    paid <- [h \in Heights |-> Len(payments[h])],
    recalls <- recalls

\* The pipeline implements the ledger, with the recovery ticker next to the
\* listener and across failures, retries and crashes: a payment is recorded for a
\* known block on the settled chain, and no second time unless the height was put
\* into the pending set again while it was paid or in a goroutine's hands.  (Four
\* things do that: the query of RecoverUnprocessed, which does not see the hands;
\* a retry after a COMMIT whose answer was lost; announcements that start again at
\* height 1; one that comes after the ticker's goroutine took the height.)
LedgerSpec == Ledger!Spec
=============================================================================
