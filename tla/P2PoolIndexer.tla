--------------------------- MODULE P2PoolIndexer ----------------------------
(***************************************************************************)
(* The indexer goroutine: every 30 s it reads pool/stats and, when the     *)
(* last block P2Pool found is not the one it remembers, inserts an empty   *)
(* p2pool_blocks row for it.  What it remembers is in memory only.         *)
(***************************************************************************)
EXTENDS PipelineStore

VARIABLES lastBlockFound,  \* Indexer.lastBlockFound
          stats            \* the lastBlockFound of the answer being handled, 0 if none

indexerVars == <<lastBlockFound, stats>>

IndexerTypeOK == /\ lastBlockFound \in 0..MaxHeight
                 /\ stats \in 0..MaxHeight

IndexerInit == /\ lastBlockFound = 0
               /\ stats = 0

IndexerRestart == /\ lastBlockFound' = 0
                  /\ stats' = 0

\* indexPoolStats up to the comparison with the remembered block.
FetchStats ==
    /\ stats = 0
    /\ lastFound > 0
    /\ lastFound # lastBlockFound
    /\ stats' = lastFound
    /\ UNCHANGED lastBlockFound

\* The insert, and the assignment that follows it whether or not it failed.
InsertFound ==
    /\ stats > 0
    /\ \/ InsertRow(stats) /\ Succeeds
       \/ Fails("db") /\ UNCHANGED storeVars
    /\ lastBlockFound' = stats
    /\ stats' = 0
=============================================================================
