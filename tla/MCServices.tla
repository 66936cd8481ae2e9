----------------------------- MODULE MCServices -----------------------------
(***************************************************************************)
(* The manager's smaller services in one instance.  They share no variable *)
(* and none waits for another, so a behaviour exercises one of them and    *)
(* the others keep one initial state: the sum of their state spaces is     *)
(* checked instead of the product.                                         *)
(***************************************************************************)
EXTENDS Payouts, PaymentAddress, PriceBackfill, NodePool

VARIABLE service   \* the one this behaviour exercises

Services == {"payouts", "address", "backfill", "nodes"}

vars == <<service, payoutVars, paymentVars, backfillVars, nodeVars>>

Init ==
    /\ service \in Services
    /\ PayoutInit
    /\ service # "payouts" => /\ rate = <<>>
                              /\ poolRate = CHOOSE p \in PoolRates : TRUE
                              /\ reward = CHOOSE a \in Rewards : TRUE
    /\ AddressInit
    /\ BackfillInit
    /\ service # "backfill" => /\ \E d \in Days : created = [r \in Rows |-> d]
                               /\ \A r \in Rows : row[r] = "new"
    /\ NodeInit

Next ==
    /\ UNCHANGED service
    /\ \/ /\ service = "payouts" /\ PayoutNext
          /\ UNCHANGED <<paymentVars, backfillVars, nodeVars>>
       \/ /\ service = "address" /\ AddressNext
          /\ UNCHANGED <<payoutVars, backfillVars, nodeVars>>
       \/ /\ service = "backfill" /\ BackfillNext
          /\ UNCHANGED <<payoutVars, paymentVars, nodeVars>>
       \/ /\ service = "nodes" /\ NodeNext
          /\ UNCHANGED <<payoutVars, paymentVars, backfillVars>>

Spec == Init /\ [][Next]_vars
FairSpec == Spec /\ (service = "nodes" => NodeFairness)

-----------------------------------------------------------------------------
TypeOK == /\ service \in Services
          /\ PayoutTypeOK /\ AddressTypeOK /\ BackfillTypeOK /\ NodeTypeOK

\* VisitsEnd of the behaviours that exercise the nodes.
NodeVisitsEnd == service = "nodes" => VisitsEnd
=============================================================================
