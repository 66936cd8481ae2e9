--------------------------- MODULE PaymentLedger ----------------------------
(***************************************************************************)
(* What the manager promises about payments, without the indexer, the      *)
(* listener, the goroutines or the database: once P2Pool's block at a      *)
(* height is known and the chain up to it is settled, its payments are     *)
(* recorded, once.  A height that is handed out for processing again,      *)
(* although it is paid or being paid, may be paid once more.               *)
(***************************************************************************)
EXTENDS Naturals

CONSTANT BlockHeights   \* the heights of the chain

VARIABLES found,    \* heights known to be P2Pool blocks
          settled,  \* the chain does not change up to this height
          paid,     \* how many times the payments of each height were recorded
          recalls   \* how many times each height was handed out again

ledger == <<found, settled, paid, recalls>>

Init == /\ found = {}
        /\ settled = 0
        /\ paid = [h \in BlockHeights |-> 0]
        /\ recalls = [h \in BlockHeights |-> 0]

Find(h) == /\ found' = found \cup {h}
           /\ UNCHANGED <<settled, paid>>

Settle == /\ settled' = settled + 1
          /\ UNCHANGED <<found, paid>>

Pay(h) == /\ h \in found
          /\ h <= settled
          /\ paid[h] <= recalls[h]
          /\ paid' = [paid EXCEPT ![h] = paid[h] + 1]
          /\ UNCHANGED <<found, settled>>

\* Heights of the settled chain are handed out again, perhaps none.
Recall == \E again \in SUBSET {h \in BlockHeights : h <= settled} :
             recalls' = [h \in BlockHeights |-> IF h \in again THEN recalls[h] + 1
                                                               ELSE recalls[h]]

Next == /\ \/ Settle
           \/ \E h \in BlockHeights : Find(h) \/ Pay(h)
           \/ UNCHANGED <<found, settled, paid>>
        /\ Recall

Spec == Init /\ [][Next]_ledger
=============================================================================
