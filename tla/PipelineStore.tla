--------------------------- MODULE PipelineStore ----------------------------
(***************************************************************************)
(* The two PostgreSQL tables that the indexer and the scanner share, and   *)
(* the failures their calls may meet.                                      *)
(*                                                                         *)
(*   p2pool_blocks   main_height is unique; a row is "unfilled" while its  *)
(*                   main_hash is '' and its coinbase_reward 0.            *)
(*   payments        no unique key: the inserts of one block are a         *)
(*                   transaction, and each committed transaction for       *)
(*                   height h is one element of payments[h], the block     *)
(*                   whose hash its rows carry.                            *)
(***************************************************************************)
EXTENDS MonerodChain, Sequences

CONSTANTS MaxFaults,   \* bound: how many calls fail
          FaultKinds   \* which calls may fail

\* "db"     a statement fails and has no effect
\* "commit" COMMIT fails, after the server committed or without committing
\* "block"  get_block or get_transactions fails
\* "header" get_last_block_header fails
AllFaultKinds == {"db", "commit", "block", "header"}

ASSUME StoreAssumption == /\ MaxFaults \in Nat
                          /\ FaultKinds \subseteq AllFaultKinds

VARIABLES row,        \* p2pool_blocks: what is known of the height's row
          rowBlock,   \* the block whose hash and reward a filled row holds
          payments,   \* the committed payment transactions of each height
          faults      \* how many calls have failed

storeVars == <<row, rowBlock, payments>>

StoreTypeOK == /\ row \in [Heights -> {"none", "unfilled", "filled"}]
               /\ rowBlock \in [Heights -> Block]
               /\ payments \in [Heights -> Seq(Block)]
               /\ faults \in 0..MaxFaults

StoreInit == /\ row = [h \in Heights |-> "none"]
             /\ rowBlock = [h \in Heights |-> NoBlock]
             /\ payments = [h \in Heights |-> <<>>]
             /\ faults = 0

Fails(kind) == /\ kind \in FaultKinds
               /\ faults < MaxFaults
               /\ faults' = faults + 1

Succeeds == UNCHANGED faults

\* INSERT INTO p2pool_blocks ... ON CONFLICT (main_height) DO NOTHING
InsertRow(h) ==
    /\ row' = [row EXCEPT ![h] = IF row[h] = "none" THEN "unfilled" ELSE row[h]]
    /\ UNCHANGED <<rowBlock, payments>>

\* UPDATE p2pool_blocks SET main_hash, coinbase_reward
\* WHERE main_height = h AND (main_hash = '' OR coinbase_reward = 0)
FillRow(h, b) ==
    /\ IF row[h] = "unfilled"
       THEN /\ row' = [row EXCEPT ![h] = "filled"]
            /\ rowBlock' = [rowBlock EXCEPT ![h] = b]
       ELSE UNCHANGED <<row, rowBlock>>
    /\ UNCHANGED payments

\* The transaction of recordPayments commits.
InsertPayments(h, b) ==
    /\ payments' = [payments EXCEPT ![h] = Append(@, b)]
    /\ UNCHANGED <<row, rowBlock>>

\* SELECT main_height FROM p2pool_blocks WHERE main_hash = '' OR coinbase_reward = 0
Unprocessed == {h \in Heights : row[h] = "unfilled"}
=============================================================================
