---------------------------- MODULE Entitlement -----------------------------
(***************************************************************************)
(* What a paying miner is promised, without the wallet, the tables or the  *)
(* scanner: every transfer is credited at most once, and each credit adds  *)
(* a whole period to the time that is already paid for.                    *)
(***************************************************************************)
EXTENDS Naturals

CONSTANTS Transfers,    \* transfers to miners' subaddresses
          Subscribers,  \* the miners
          MinerOf,      \* whose subaddress each transfer pays
          Period        \* what one credit buys

VARIABLES credited,   \* the transfers that have been credited
          paidUntil,  \* the end of each miner's paid time, 0 if it has none
          clock

entitlement == <<credited, paidUntil, clock>>

Init == /\ credited = {}
        /\ paidUntil = [m \in Subscribers |-> 0]
        /\ clock = 0

Start(m, moment) == IF paidUntil[m] > moment THEN paidUntil[m] ELSE moment

\* The new period starts where the paid time ends, or at a moment that may have
\* passed when the credit is given.
Credit(e) ==
    /\ e \notin credited
    /\ credited' = credited \cup {e}
    /\ \E moment \in 0..clock :
          paidUntil' = [paidUntil EXCEPT ![MinerOf[e]] = Start(MinerOf[e], moment) + Period]
    /\ UNCHANGED clock

Advance == /\ clock' = clock + 1
           /\ UNCHANGED <<credited, paidUntil>>

Next == Advance \/ \E e \in Transfers : Credit(e)

Spec == Init /\ [][Next]_entitlement
=============================================================================
