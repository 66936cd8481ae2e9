--------------------------- MODULE PaymentAddress ---------------------------
(***************************************************************************)
(* handleSubscriptionAddress: a miner asks where to pay.  AssignSubaddress *)
(* reads the miner's row, lets the wallet create a subaddress when there   *)
(* is none, and inserts it: three calls, each of which may fail, and two   *)
(* requests of one miner may both create.  The amount comes from the price *)
(* oracle, which other requests use at the same time; the scanners, which  *)
(* use it too, do so no differently.                                       *)
(*                                                                         *)
(* The subscription scanner finds the miner of a transfer by the index of  *)
(* the subaddress, so an address that was handed out must stay the         *)
(* miner's.                                                                *)
(***************************************************************************)
EXTENDS PriceOracle

CONSTANTS Payers,    \* the miners that ask
          NoPayer,   \* no miner: the request does not run
          MaxIndex   \* bound of the subaddresses the wallet creates

ASSUME AddressAssumption == NoPayer \notin Payers /\ MaxIndex \in Nat

Requests == Calls   \* the callers of GetPrice

VARIABLES subaddress,  \* subscription_addresses: a miner's index, 0 without a row
          lastIndex,   \* the wallet's last subaddress
          request,     \* where a request is, its miner and its subaddress
          handedOut    \* the answers so far, as pairs of a miner and an index

addressVars == <<subaddress, lastIndex, request, handedOut>>
paymentVars == <<oracleVars, addressVars>>

NoRequest == [pc |-> "idle", miner |-> NoPayer, index |-> 0]

AddressTypeOK ==
    /\ OracleTypeOK
    /\ subaddress \in [Payers -> 0..MaxIndex]
    /\ lastIndex \in 0..MaxIndex
    /\ request \in [Requests -> [pc : {"idle", "selecting", "creating", "inserting", "pricing"},
                                 miner : Payers \cup {NoPayer}, index : 0..MaxIndex]]
    /\ handedOut \subseteq Payers \X (1..MaxIndex)

AddressInit == /\ OracleInit
               /\ subaddress = [m \in Payers |-> 0]
               /\ lastIndex = 0
               /\ request = [r \in Requests |-> NoRequest]
               /\ handedOut = {}

-----------------------------------------------------------------------------
Goes(r, pc) == request' = [request EXCEPT ![r].pc = pc]
Learns(r, index) == request' = [request EXCEPT ![r].pc = "pricing", ![r].index = index]
Refuse(r) == request' = [request EXCEPT ![r] = NoRequest]   \* status 500

Ask(r, m) ==
    /\ request[r].pc = "idle"
    /\ request' = [request EXCEPT ![r].pc = "selecting", ![r].miner = m]
    /\ UNCHANGED <<oracleVars, subaddress, lastIndex, handedOut>>

\* A SELECT that fails counts as one that finds no row.
SelectAddress(r) ==
    /\ request[r].pc = "selecting"
    /\ \/ subaddress[request[r].miner] # 0 /\ Learns(r, subaddress[request[r].miner])
       \/ Goes(r, "creating")
    /\ UNCHANGED <<oracleVars, subaddress, lastIndex, handedOut>>

\* Mutant of CreateAddress: the next index is counted in the table.
CreateAddressFromTable(r) ==
    /\ request[r].pc = "creating"
    /\ \E i \in 1..MaxIndex :
          /\ i - 1 = Cardinality({m \in Payers : subaddress[m] # 0})
          /\ request' = [request EXCEPT ![r].pc = "inserting", ![r].index = i]
    /\ UNCHANGED <<oracleVars, subaddress, lastIndex, handedOut>>

\* The wallet creates its next subaddress and answers; or its answer is lost; or
\* the call does not reach it.
CreateAddress(r) ==
    /\ request[r].pc = "creating"
    /\ \/ /\ lastIndex < MaxIndex
          /\ lastIndex' = lastIndex + 1
          /\ \/ request' = [request EXCEPT ![r].pc = "inserting", ![r].index = lastIndex']
             \/ Refuse(r)
       \/ Refuse(r) /\ UNCHANGED lastIndex
    /\ UNCHANGED <<oracleVars, subaddress, handedOut>>

\* Mutant of KeptIndex: the conflict takes the new subaddress.
KeptIndexReplaced(m, new) == new

\* ON CONFLICT (miner_address) keeps the row, whose index RETURNING answers.
KeptIndex(m, new) == IF subaddress[m] = 0 THEN new ELSE subaddress[m]

\* The INSERT is executed and answered; or its answer is lost; or it fails.
InsertAddress(r) ==
    LET m    == request[r].miner
        kept == KeptIndex(m, request[r].index)
    IN  /\ request[r].pc = "inserting"
        /\ \/ /\ subaddress' = [subaddress EXCEPT ![m] = kept]
              /\ Learns(r, kept) \/ Refuse(r)
           \/ Refuse(r) /\ UNCHANGED subaddress
        /\ UNCHANGED <<oracleVars, lastIndex, handedOut>>

\* The handler asks for the price and answers whatever comes of it.
AskPrice(r) == request[r].pc = "pricing" /\ GetPrice(r) /\ UNCHANGED addressVars

AnswerRequest(r) ==
    /\ request[r].pc = "pricing"
    /\ Return(r)
    /\ handedOut' = handedOut \cup {<<request[r].miner, request[r].index>>}
    /\ Refuse(r)
    /\ UNCHANGED <<subaddress, lastIndex>>

\* What the handler of a request does.
Serve(r) == \/ SelectAddress(r) \/ CreateAddress(r) \/ InsertAddress(r)
            \/ AskPrice(r) \/ (Fetch(r) /\ UNCHANGED addressVars) \/ AnswerRequest(r)

AddressNext == \/ \E r \in Requests : Serve(r) \/ \E m \in Payers : Ask(r, m)
               \/ Elapse /\ UNCHANGED addressVars

AddressSpec == AddressInit /\ [][AddressNext]_paymentVars

-----------------------------------------------------------------------------
\* Every subaddress a miner was ever told is the one in its row, by which the
\* scanner credits a transfer, although requests of one miner create several.
HandedOutIsKept == \A given \in handedOut : subaddress[given[1]] = given[2]

\* No subaddress is given to two miners: the indices in the table come from
\* different calls of the wallet.
AddressesAreDistinct ==
    \A m, n \in Payers : m # n /\ subaddress[m] # 0 => subaddress[m] # subaddress[n]

\* Why both hold: the indices in flight are the wallet's own, each with one
\* request, and in no row; a request that is priced has its miner's row.
IndicesAreTracked ==
    /\ \A m \in Payers : subaddress[m] <= lastIndex
    /\ \A r \in Requests :
          /\ request[r].pc # "idle" => request[r].miner \in Payers
          /\ request[r].pc = "inserting" =>
                /\ 0 < request[r].index /\ request[r].index <= lastIndex
                /\ \A m \in Payers : subaddress[m] # request[r].index
                /\ \A s \in Requests : s # r /\ request[s].pc = "inserting"
                                          => request[s].index # request[r].index
          /\ request[r].pc = "pricing" =>
                /\ request[r].index # 0
                /\ subaddress[request[r].miner] = request[r].index

AddressInv == /\ OracleInv /\ AddressTypeOK
              /\ IndicesAreTracked /\ HandedOutIsKept /\ AddressesAreDistinct
=============================================================================
