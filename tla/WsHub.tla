------------------------------- MODULE WsHub --------------------------------
(***************************************************************************)
(* The WebSocket hub: the handler goroutine of every connection and the    *)
(* one broadcast goroutine, over the hub's two maps.  Hub.mu protects the  *)
(* maps; the broadcast writes to a snapshot of them, without the lock, so  *)
(* a connection may be removed by either goroutine, or by both, while the  *)
(* other still uses it.                                                    *)
(*                                                                         *)
(* One step is one critical section or one blocking call.  A value of      *)
(* Conns stands for a *websocket.Conn and is used again when no goroutine  *)
(* refers to the connection any more.                                      *)
(***************************************************************************)
EXTENDS Naturals, FiniteSets

CONSTANTS Conns,          \* connections
          IPs,            \* client addresses
          NoIP,           \* no address: the connection is not in Hub.clients
          MaxConnsPerIP   \* maxConnsPerIP (5)

ASSUME HubAssumption == /\ IsFiniteSet(Conns)
                        /\ NoIP \notin IPs
                        /\ MaxConnsPerIP \in Nat \ {0}

VARIABLES clients,      \* Hub.clients: the address of a registered connection
          ipConnCount,  \* Hub.ipConnCount, 0 when the map has no entry
          handler,      \* where the handler of the connection is
          ip,           \* the handler's ip, NoIP when it does not run
          open,         \* is the connection open?
          broadcaster,  \* where the broadcast goroutine is
          snapshot,     \* the connections it still has to write to
          failed        \* the set of the connection its last write failed on

vars == <<clients, ipConnCount, handler, ip, open, broadcaster, snapshot, failed>>

TypeOK == /\ clients \in [Conns -> IPs \cup {NoIP}]
          /\ ipConnCount \in [IPs -> Nat]
          /\ handler \in [Conns -> {"none", "accepted", "refused", "reading",
                                    "removing", "closing"}]
          /\ ip \in [Conns -> IPs \cup {NoIP}]
          /\ open \in [Conns -> BOOLEAN]
          /\ broadcaster \in {"waiting", "fetching", "writing", "removing", "closing"}
          /\ snapshot \subseteq Conns
          /\ failed \subseteq Conns
          /\ \A c \in Conns : handler[c] # "none" => ip[c] # NoIP

Registered == {c \in Conns : clients[c] # NoIP}
RegisteredFrom(i) == {c \in Conns : clients[c] = i}

Init == /\ clients = [c \in Conns |-> NoIP]
        /\ ipConnCount = [i \in IPs |-> 0]
        /\ handler = [c \in Conns |-> "none"]
        /\ ip = [c \in Conns |-> NoIP]
        /\ open = [c \in Conns |-> FALSE]
        /\ broadcaster = "waiting"
        /\ snapshot = {}
        /\ failed = {}

-----------------------------------------------------------------------------
\* The upgrade of a new request.
Accept(c, i) ==
    /\ handler[c] = "none"
    /\ c \notin Registered \cup snapshot \cup failed
    /\ handler' = [handler EXCEPT ![c] = "accepted"]
    /\ ip' = [ip EXCEPT ![c] = i]
    /\ open' = [open EXCEPT ![c] = TRUE]
    /\ UNCHANGED <<clients, ipConnCount, broadcaster, snapshot, failed>>

\* Mutant of AddClient: the limit is off by one.
AddClientOneMore(c) ==
    /\ handler[c] = "accepted"
    /\ IF ipConnCount[ip[c]] > MaxConnsPerIP
       THEN /\ handler' = [handler EXCEPT ![c] = "refused"]
            /\ UNCHANGED <<clients, ipConnCount>>
       ELSE /\ handler' = [handler EXCEPT ![c] = "reading"]
            /\ clients' = [clients EXCEPT ![c] = ip[c]]
            /\ ipConnCount' = [ipConnCount EXCEPT ![ip[c]] = @ + 1]
    /\ UNCHANGED <<ip, open, broadcaster, snapshot, failed>>

AddClient(c) ==
    /\ handler[c] = "accepted"
    /\ IF ipConnCount[ip[c]] >= MaxConnsPerIP
       THEN /\ handler' = [handler EXCEPT ![c] = "refused"]
            /\ UNCHANGED <<clients, ipConnCount>>
       ELSE /\ handler' = [handler EXCEPT ![c] = "reading"]
            /\ clients' = [clients EXCEPT ![c] = ip[c]]
            /\ ipConnCount' = [ipConnCount EXCEPT ![ip[c]] = @ + 1]
    /\ UNCHANGED <<ip, open, broadcaster, snapshot, failed>>

\* Mutants of RemoveClient: the count goes down without looking at the map, and
\* without stopping at 0.
RemoveClientTwice(c) ==
    /\ clients' = [clients EXCEPT ![c] = NoIP]
    /\ ipConnCount' = [ipConnCount EXCEPT ![ip[c]] = IF @ > 0 THEN @ - 1 ELSE 0]

RemoveClientBelowZero(c) ==
    /\ clients' = [clients EXCEPT ![c] = NoIP]
    /\ ipConnCount' = [ipConnCount EXCEPT ![ip[c]] = @ - 1]

\* removeClient, of both goroutines.
RemoveClient(c) ==
    IF c \in Registered
    THEN /\ clients' = [clients EXCEPT ![c] = NoIP]
         /\ ipConnCount' = [ipConnCount EXCEPT ![clients[c]] = IF @ > 0 THEN @ - 1 ELSE 0]
    ELSE UNCHANGED <<clients, ipConnCount>>

\* The peer goes away, or sends a frame above the read limit.
Disconnect(c) ==
    /\ open[c]
    /\ open' = [open EXCEPT ![c] = FALSE]
    /\ UNCHANGED <<clients, ipConnCount, handler, ip, broadcaster, snapshot, failed>>

\* Mutant of ReadFails: it leaves the removal to the broadcast.
ReadFailsReturns(c) ==
    /\ handler[c] = "reading"
    /\ ~open[c]
    /\ handler' = [handler EXCEPT ![c] = "closing"]
    /\ UNCHANGED <<clients, ipConnCount, ip, open, broadcaster, snapshot, failed>>

\* The handler's Read returns an error.
ReadFails(c) ==
    /\ handler[c] = "reading"
    /\ ~open[c]
    /\ handler' = [handler EXCEPT ![c] = "removing"]
    /\ UNCHANGED <<clients, ipConnCount, ip, open, broadcaster, snapshot, failed>>

\* The two calls of the deferred function.
DeferredRemove(c) ==
    /\ handler[c] = "removing"
    /\ RemoveClient(c)
    /\ handler' = [handler EXCEPT ![c] = "closing"]
    /\ UNCHANGED <<ip, open, broadcaster, snapshot, failed>>

\* Close, deferred or of a refused connection; the handler returns.
CloseAndReturn(c) ==
    /\ handler[c] \in {"closing", "refused"}
    /\ open' = [open EXCEPT ![c] = FALSE]
    /\ handler' = [handler EXCEPT ![c] = "none"]
    /\ ip' = [ip EXCEPT ![c] = NoIP]
    /\ UNCHANGED <<clients, ipConnCount, broadcaster, snapshot, failed>>

Handle(c) == AddClient(c) \/ ReadFails(c) \/ DeferredRemove(c) \/ CloseAndReturn(c)

-----------------------------------------------------------------------------
hubVars == <<clients, ipConnCount, handler, ip>>

\* A tick: the snapshot, unless there is no client.
TakeSnapshot ==
    /\ broadcaster = "waiting"
    /\ Registered # {}
    /\ snapshot' = Registered
    /\ broadcaster' = "fetching"
    /\ UNCHANGED <<hubVars, open, failed>>

\* The pool stats are fetched, or this broadcast is given up.
FetchStats ==
    /\ broadcaster = "fetching"
    /\ \/ broadcaster' = "writing" /\ UNCHANGED snapshot
       \/ broadcaster' = "waiting" /\ snapshot' = {}
    /\ UNCHANGED <<hubVars, open, failed>>

\* A write succeeds, or fails because the connection is closed, or reaches its
\* deadline, which closes the connection.
Write(c) ==
    /\ broadcaster = "writing"
    /\ c \in snapshot
    /\ snapshot' = snapshot \ {c}
    /\ \/ /\ open[c]
          /\ broadcaster' = IF snapshot' = {} THEN "waiting" ELSE "writing"
          /\ UNCHANGED <<open, failed>>
       \/ /\ broadcaster' = "removing"
          /\ open' = [open EXCEPT ![c] = FALSE]
          /\ failed' = {c}
    /\ UNCHANGED hubVars

RemoveFailed ==
    /\ broadcaster = "removing"
    /\ \E c \in failed : RemoveClient(c)
    /\ broadcaster' = "closing"
    /\ UNCHANGED <<handler, ip, open, snapshot, failed>>

CloseFailed ==
    /\ broadcaster = "closing"
    /\ open' = [c \in Conns |-> open[c] /\ c \notin failed]
    /\ failed' = {}
    /\ broadcaster' = IF snapshot = {} THEN "waiting" ELSE "writing"
    /\ UNCHANGED <<hubVars, snapshot>>

Broadcast == \/ TakeSnapshot
             \/ FetchStats
             \/ \E c \in Conns : Write(c)
             \/ RemoveFailed
             \/ CloseFailed

Next == \/ \E c \in Conns : Handle(c) \/ Disconnect(c) \/ \E i \in IPs : Accept(c, i)
        \/ Broadcast

Spec == Init /\ [][Next]_vars

\* Go schedules every runnable goroutine.  The blocking calls end: Read once the
\* connection is closed, Write and Close at their deadlines, the query of the
\* pool stats when the database answers.
FairSpec == Spec /\ WF_vars(Broadcast) /\ \A c \in Conns : WF_vars(Handle(c))

-----------------------------------------------------------------------------
\* The per-address counter, which only addClient and removeClient maintain, is
\* the number of that address's registered connections although both goroutines
\* may remove one connection.
CountsAreExact == \A i \in IPs : ipConnCount[i] = Cardinality(RegisteredFrom(i))

\* No address has more than the limit registered, counted in Hub.clients.
LimitHolds == \A i \in IPs : Cardinality(RegisteredFrom(i)) <= MaxConnsPerIP

\* Only connections whose handler is still going to remove them are registered:
\* no interleaving with the broadcast leaves an entry behind for good.
OnlyLiveHandlersRegistered ==
    \A c \in Registered : /\ handler[c] \in {"reading", "removing"}
                          /\ clients[c] = ip[c]

IInv == TypeOK /\ CountsAreExact /\ LimitHolds /\ OnlyLiveHandlersRegistered

\* The slot of a connection that went away is not lost to its address: one of
\* the goroutines removes the entry.
SlotsAreFreed ==
    \A c \in Conns : c \in Registered /\ ~open[c] ~> c \notin Registered
=============================================================================
