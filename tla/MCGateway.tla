----------------------------- MODULE MCGateway -----------------------------
(***************************************************************************)
(* The manager's API keys and the gateway's rate limiter in one instance.  *)
(* They share no variable and neither waits for the other, so a behaviour  *)
(* exercises one of them and the other keeps its initial state: the sum of *)
(* their state spaces is checked instead of the product.  Lookups and keys *)
(* have no order, and no liveness property is checked.                     *)
(***************************************************************************)
EXTENDS ApiKeys, RateLimiter, TLC

VARIABLE service   \* the one this behaviour exercises

Symmetry == Permutations(Lookups) \cup Permutations(Keys)

GatewayInit == /\ service \in {"keys", "limiter"}
               /\ Init
               /\ LimiterInit

GatewayNext == /\ UNCHANGED service
               /\ \/ service = "keys" /\ Next /\ UNCHANGED limiterVars
                  \/ service = "limiter" /\ LimiterNext /\ UNCHANGED vars

GatewaySpec == GatewayInit /\ [][GatewayNext]_<<service, vars, limiterVars>>

=============================================================================
