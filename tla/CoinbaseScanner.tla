-------------------------- MODULE CoinbaseScanner ---------------------------
(***************************************************************************)
(* The coinbase scanner: the set of heights that wait for confirmations,   *)
(* shared by the two goroutines that process blocks (the block listener's, *)
(* through HandleNewBlock, and the recovery ticker's, through              *)
(* RecoverUnprocessed).  Scanner.mu protects the set, not what is done     *)
(* with the heights taken from it.                                         *)
(*                                                                         *)
(* One step is one critical section, one statement or one RPC.             *)
(***************************************************************************)
EXTENDS PipelineStore

CONSTANTS ConfirmDepth,     \* Scanner.confirmDepth (10 in main.go)
          ExtractOutcomes   \* what ExtractPayments may find on a filled row

ASSUME ScannerAssumption == /\ ConfirmDepth \in Nat \ {0}
                            /\ ExtractOutcomes \subseteq {"none", "some"}

Goroutines == {"listener", "recovery"}
PC == {"idle", "query", "found", "header", "check", "loop",
       "fetch", "backfill", "extract", "record"}
Processing == {"fetch", "backfill", "extract", "record"}

VARIABLES pending,  \* Scanner.pendingBlocks
          pc,       \* where each goroutine is
          cur,      \* the currentHeight of its checkConfirmations
          batch,    \* the heights it still has to go through
          job,      \* the height of its processBlock
          blk       \* the block its processBlock fetched

scannerVars == <<pending, pc, cur, batch, job, blk>>

ScannerTypeOK == /\ pending \subseteq Heights
                 /\ pc \in [Goroutines -> PC]
                 /\ cur \in [Goroutines -> 0..MaxHeight]
                 /\ batch \in [Goroutines -> SUBSET Heights]
                 /\ job \in [Goroutines -> 0..MaxHeight]
                 /\ blk \in [Goroutines -> Block]
                 /\ \A p \in Goroutines : pc[p] \in Processing => job[p] \in Heights

\* A process that has just started: main calls RecoverUnprocessed first.
StartPC == [p \in Goroutines |-> IF p = "recovery" THEN "query" ELSE "idle"]

ScannerInit == /\ pending = {}
               /\ pc = StartPC
               /\ cur = [p \in Goroutines |-> 0]
               /\ batch = [p \in Goroutines |-> {}]
               /\ job = [p \in Goroutines |-> 0]
               /\ blk = [p \in Goroutines |-> NoBlock]

ScannerRestart == /\ pending' = {}
                  /\ pc' = StartPC
                  /\ cur' = [p \in Goroutines |-> 0]
                  /\ batch' = [p \in Goroutines |-> {}]
                  /\ job' = [p \in Goroutines |-> 0]
                  /\ blk' = [p \in Goroutines |-> NoBlock]

Goto(p, l) == pc' = [pc EXCEPT ![p] = l]

\* The call returned, its fields are dead.
Return(p) == /\ Goto(p, "idle")
             /\ batch' = [batch EXCEPT ![p] = {}]
             /\ cur' = [cur EXCEPT ![p] = 0]
             /\ job' = [job EXCEPT ![p] = 0]
             /\ blk' = [blk EXCEPT ![p] = NoBlock]

\* processBlock returned nil for a height: on to the next one of the batch.
Finish(p, rest) == /\ Goto(p, IF rest = {} THEN "idle" ELSE "loop")
                   /\ batch' = [batch EXCEPT ![p] = rest]
                   /\ cur' = [cur EXCEPT ![p] = 0]
                   /\ job' = [job EXCEPT ![p] = 0]
                   /\ blk' = [blk EXCEPT ![p] = NoBlock]

Done(p, rest) == Finish(p, rest) /\ UNCHANGED pending

\* Mutant of Retry: the failed height is not added again.
RetryForgets(p, h, rest) == Finish(p, rest) /\ UNCHANGED pending

\* processBlock returned an error: the height is added to the set again.
Retry(p, h, rest) == Finish(p, rest) /\ pending' = pending \cup {h}

-----------------------------------------------------------------------------
\* RecoverUnprocessed: the query for rows without a hash.
QueryUnprocessed(p) ==
    /\ pc[p] = "query"
    /\ \/ /\ Unprocessed # {}
          /\ Succeeds
          /\ Goto(p, "found")
          /\ batch' = [batch EXCEPT ![p] = Unprocessed]
          /\ UNCHANGED <<cur, job, blk>>
       \/ Unprocessed = {} /\ Succeeds /\ Return(p)
       \/ Fails("db") /\ Return(p)
    /\ UNCHANGED <<pending, storeVars>>

\* Mutant of AddRecovered: the heights it found do not reach the set.
AddRecoveredLoses(p) ==
    /\ pc[p] = "found"
    /\ batch' = [batch EXCEPT ![p] = {}]
    /\ Goto(p, "header")
    /\ Succeeds
    /\ UNCHANGED <<pending, cur, job, blk, storeVars>>

\* RecoverUnprocessed: its first critical section.
AddRecovered(p) ==
    /\ pc[p] = "found"
    /\ pending' = pending \cup batch[p]
    /\ batch' = [batch EXCEPT ![p] = {}]
    /\ Goto(p, "header")
    /\ Succeeds
    /\ UNCHANGED <<cur, job, blk, storeVars>>

\* Mutant of FetchTip: height 0 is passed on as the current height.
FetchTipZero(p) ==
    /\ pc[p] = "header"
    /\ \/ /\ Succeeds
          /\ Goto(p, "check")
          /\ cur' = [cur EXCEPT ![p] = 0]
          /\ UNCHANGED <<batch, job, blk>>
       \/ Fails("header") /\ Return(p)
    /\ UNCHANGED <<pending, storeVars>>

\* RecoverUnprocessed: the tip to count confirmations from.
FetchTip(p) ==
    /\ pc[p] = "header"
    /\ \/ /\ Succeeds
          /\ Goto(p, "check")
          /\ cur' = [cur EXCEPT ![p] = LastHeader]
          /\ UNCHANGED <<batch, job, blk>>
       \/ Fails("header") /\ Return(p)
    /\ UNCHANGED <<pending, storeVars>>

\* HandleNewBlock's critical section; the call is the listener's.
HandleNewBlock(p, height) ==
    /\ pc[p] = "idle"
    /\ pending' = pending \cup {height}
    /\ Goto(p, "check")
    /\ cur' = [cur EXCEPT ![p] = height]
    /\ UNCHANGED <<batch, job, blk>>

\* Mutant of Confirmed: one confirmation short.
ConfirmedEarly(current) ==
    {h \in pending : h <= current /\ current - h + 1 >= ConfirmDepth}

Confirmed(current) == {h \in pending : h <= current /\ current - h >= ConfirmDepth}

\* Mutant of CheckConfirmations: the confirmed heights stay in the set.
CheckConfirmationsKeeps(p) ==
    /\ pc[p] = "check"
    /\ Finish(p, Confirmed(cur[p]))
    /\ Succeeds
    /\ UNCHANGED <<pending, storeVars>>

\* checkConfirmations' critical section: the confirmed heights leave the set.
CheckConfirmations(p) ==
    /\ pc[p] = "check"
    /\ pending' = pending \ Confirmed(cur[p])
    /\ Finish(p, Confirmed(cur[p]))
    /\ Succeeds
    /\ UNCHANGED storeVars

\* processBlock: is there a p2pool_blocks row?  The batch is in map order.
CheckExists(p) ==
    /\ pc[p] = "loop"
    /\ \E h \in batch[p] :
          LET rest == batch[p] \ {h} IN
          \/ /\ row[h] # "none"
             /\ Succeeds
             /\ Goto(p, "fetch")
             /\ batch' = [batch EXCEPT ![p] = rest]
             /\ job' = [job EXCEPT ![p] = h]
             /\ UNCHANGED <<pending, cur, blk>>
          \/ row[h] = "none" /\ Succeeds /\ Done(p, rest)
          \/ Fails("db") /\ Retry(p, h, rest)
    /\ UNCHANGED storeVars

\* processBlock: get_block and the orphan check.
FetchBlock(p) ==
    /\ pc[p] = "fetch"
    /\ \/ /\ Succeeds
          /\ IF GetBlock(job[p]).orphanStatus
             THEN Done(p, batch[p])
             ELSE /\ Goto(p, "backfill")
                  /\ blk' = [blk EXCEPT ![p] = GetBlock(job[p]).block]
                  /\ UNCHANGED <<pending, cur, batch, job>>
       \/ Fails("block") /\ Retry(p, job[p], batch[p])
    /\ UNCHANGED storeVars

\* processBlock: the backfill, whose failure is logged and ignored.
Backfill(p) ==
    /\ pc[p] = "backfill"
    /\ \/ FillRow(job[p], blk[p]) /\ Succeeds
       \/ Fails("db") /\ UNCHANGED storeVars
    /\ Goto(p, "extract")
    /\ UNCHANGED <<pending, cur, batch, job, blk>>

\* Mutant of ExtractPayments: the reward is not read from the row.
ExtractPaymentsUnfilled(p) ==
    /\ pc[p] = "extract"
    /\ \/ /\ Succeeds
          /\ "some" \in ExtractOutcomes
          /\ Goto(p, "record")
          /\ UNCHANGED <<pending, cur, batch, job, blk>>
       \/ /\ Succeeds
          /\ "none" \in ExtractOutcomes
          /\ Done(p, batch[p])
       \/ /\ Fails("db") \/ Fails("block")
          /\ Retry(p, job[p], batch[p])
    /\ UNCHANGED storeVars

\* processBlock: get_transactions and ExtractPayments.  A row whose reward is
\* still 0 gives every miner 0, so no payments.
ExtractPayments(p) ==
    /\ pc[p] = "extract"
    /\ \/ /\ Succeeds
          /\ row[job[p]] = "filled"
          /\ "some" \in ExtractOutcomes
          /\ Goto(p, "record")
          /\ UNCHANGED <<pending, cur, batch, job, blk>>
       \/ /\ Succeeds
          /\ row[job[p]] = "filled" => "none" \in ExtractOutcomes
          /\ Done(p, batch[p])
       \/ /\ Fails("db") \/ Fails("block")
          /\ Retry(p, job[p], batch[p])
    /\ UNCHANGED storeVars

\* processBlock: recordPayments.  A failed COMMIT may have committed.
RecordPayments(p) ==
    /\ pc[p] = "record"
    /\ \/ InsertPayments(job[p], blk[p]) /\ Succeeds /\ Done(p, batch[p])
       \/ /\ Fails("db") \/ Fails("commit")
          /\ UNCHANGED storeVars
          /\ Retry(p, job[p], batch[p])
       \/ /\ Fails("commit")
          /\ InsertPayments(job[p], blk[p])
          /\ Retry(p, job[p], batch[p])

ScannerStep(p) ==
    \/ QueryUnprocessed(p)
    \/ AddRecovered(p)
    \/ FetchTip(p)
    \/ CheckConfirmations(p)
    \/ CheckExists(p)
    \/ FetchBlock(p)
    \/ Backfill(p)
    \/ ExtractPayments(p)
    \/ RecordPayments(p)
=============================================================================
