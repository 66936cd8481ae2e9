---------------------------- MODULE MonerodChain ----------------------------
(***************************************************************************)
(* The Monero main chain as the manager sees it through monerod, and the   *)
(* part of it that P2Pool mined.  Both programs are external: what they    *)
(* answer is modelled from how services/manager uses the answers.          *)
(*                                                                         *)
(* A block is identified by its height and by the branch that put it       *)
(* there; `pool' says whether P2Pool mined it.  A reorganisation replaces  *)
(* the last d blocks by d+1 blocks of other miners.                        *)
(***************************************************************************)
EXTENDS Naturals

CONSTANTS MaxHeight,      \* bound: the last height the chain reaches
          MaxReorgs,      \* bound: how many reorganisations happen
          MaxReorgDepth,  \* how many blocks one reorganisation replaces at most
          PoolHeights     \* the heights at which P2Pool may find the block

ASSUME ChainAssumption == /\ MaxHeight \in Nat
                          /\ MaxReorgs \in Nat
                          /\ MaxReorgDepth \in Nat
                          /\ PoolHeights \subseteq 1..MaxHeight

VARIABLES chain,      \* the block at each height; of use up to tip only
          tip,        \* height of the last block
          reorgs,     \* how many reorganisations happened
          lastFound   \* pool/stats' lastBlockFound: P2Pool's last find, 0 if none

chainVars == <<chain, tip, reorgs, lastFound>>

Heights == 1..MaxHeight
Block   == [ver: 0..MaxReorgs, pool: BOOLEAN]
NoBlock == [ver |-> 0, pool |-> FALSE]

ChainTypeOK == /\ chain \in [Heights -> Block]
               /\ tip \in 0..MaxHeight
               /\ reorgs \in 0..MaxReorgs
               /\ lastFound \in 0..MaxHeight

ChainInit == /\ chain = [h \in Heights |-> NoBlock]
             /\ tip = 0
             /\ reorgs = 0
             /\ lastFound = 0

-----------------------------------------------------------------------------
\* The next block is found, by P2Pool (which then reports it) or by others.
Mine(byPool) ==
    /\ tip < MaxHeight
    /\ byPool => tip + 1 \in PoolHeights
    /\ chain' = [chain EXCEPT ![tip + 1] = [ver |-> reorgs, pool |-> byPool]]
    /\ tip' = tip + 1
    /\ lastFound' = IF byPool THEN tip + 1 ELSE lastFound
    /\ UNCHANGED reorgs

\* A longer branch of other miners replaces the last d blocks.
Reorg(d) ==
    /\ d \in 1..MaxReorgDepth
    /\ d <= tip
    /\ tip < MaxHeight
    /\ reorgs < MaxReorgs
    /\ reorgs' = reorgs + 1
    /\ tip' = tip + 1
    /\ chain' = [h \in Heights |-> IF h \in (tip - d + 1)..(tip + 1)
                                   THEN [ver |-> reorgs + 1, pool |-> FALSE]
                                   ELSE chain[h]]
    /\ UNCHANGED lastFound

\* get_block by height answers with the block of the main chain, so it never
\* has orphan_status set.
GetBlock(h) == [block |-> chain[h], orphanStatus |-> FALSE]

\* Mutant of LastHeader: the number of blocks taken for the last height.
LastHeaderAsCount == tip + 1

\* get_last_block_header
LastHeader == tip
=============================================================================
