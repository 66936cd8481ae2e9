---------------------------- MODULE WsHub_proofs ----------------------------
(***************************************************************************)
(* The per-address limit of the WebSocket hub, for every set of            *)
(* connections and addresses: the counter that addClient compares with the *)
(* limit is the number of registered connections, whichever of the two     *)
(* goroutines removes a connection first.                                  *)
(***************************************************************************)
EXTENDS WsTunnel, FiniteSetTheorems, TLAPS

USE HubAssumption

\* Every set of connections is finite, so it has a size.
LEMMA ConnsFinite ==
    ASSUME NEW S \in SUBSET Conns
    PROVE  IsFiniteSet(S) /\ Cardinality(S) \in Nat
BY FS_Subset, FS_CardinalityType

\* The registered connections of one address have a size.
LEMMA RegisteredFinite ==
    ASSUME NEW i \in IPs
    PROVE  IsFiniteSet(RegisteredFrom(i)) /\ Cardinality(RegisteredFrom(i)) \in Nat
BY ConnsFinite DEF RegisteredFrom

\* addClient: one more connection of the address, no other one changes.
LEMMA Registering ==
    ASSUME TypeOK, NEW c \in Conns, clients[c] = NoIP, NEW i \in IPs,
           clients' = [clients EXCEPT ![c] = i]
    PROVE  /\ Cardinality(RegisteredFrom(i)') = Cardinality(RegisteredFrom(i)) + 1
           /\ \A j \in IPs \ {i} : RegisteredFrom(j)' = RegisteredFrom(j)
<1>1. RegisteredFrom(i)' = RegisteredFrom(i) \cup {c}
  BY DEF TypeOK, RegisteredFrom
<1>2. c \notin RegisteredFrom(i)
  BY DEF RegisteredFrom
<1>3. \A j \in IPs \ {i} : RegisteredFrom(j)' = RegisteredFrom(j)
  BY DEF TypeOK, RegisteredFrom
<1> QED
  BY <1>1, <1>2, <1>3, RegisteredFinite, FS_AddElement

\* removeClient of a registered connection: one connection less of its address.
LEMMA Unregistering ==
    ASSUME TypeOK, NEW c \in Conns, NEW i \in IPs, clients[c] = i,
           clients' = [clients EXCEPT ![c] = NoIP]
    PROVE  /\ Cardinality(RegisteredFrom(i)') = Cardinality(RegisteredFrom(i)) - 1
           /\ Cardinality(RegisteredFrom(i)) > 0
           /\ \A j \in IPs \ {i} : RegisteredFrom(j)' = RegisteredFrom(j)
<1>1. RegisteredFrom(i)' = RegisteredFrom(i) \ {c}
  BY DEF TypeOK, RegisteredFrom
<1>2. c \in RegisteredFrom(i)
  BY DEF RegisteredFrom
<1>3. \A j \in IPs \ {i} : RegisteredFrom(j)' = RegisteredFrom(j)
  BY DEF TypeOK, RegisteredFrom
<1>4. Cardinality(RegisteredFrom(i) \ {c}) = Cardinality(RegisteredFrom(i)) - 1
  BY <1>2, RegisteredFinite, FS_RemoveElement
<1>5. Cardinality(RegisteredFrom(i) \ {c}) \in Nat
  BY ConnsFinite DEF RegisteredFrom
<1> QED
  BY <1>1, <1>3, <1>4, <1>5, RegisteredFinite

Counted == CountsAreExact /\ LimitHolds

\* addClient, when it registers the connection, keeps the counter exact and the
\* limit.
LEMMA AddCounts ==
    ASSUME TypeOK, Counted, NEW c \in Conns, clients[c] = NoIP, NEW i \in IPs,
           ipConnCount[i] < MaxConnsPerIP,
           clients' = [clients EXCEPT ![c] = i],
           ipConnCount' = [ipConnCount EXCEPT ![i] = @ + 1]
    PROVE  Counted'
<1>1. \A j \in IPs \ {i} : /\ RegisteredFrom(j)' = RegisteredFrom(j)
                           /\ ipConnCount'[j] = ipConnCount[j]
  BY Registering DEF TypeOK
<1>2. /\ Cardinality(RegisteredFrom(i)') = Cardinality(RegisteredFrom(i)) + 1
      /\ ipConnCount'[i] = ipConnCount[i] + 1
  BY Registering DEF TypeOK
<1>3. ipConnCount[i] = Cardinality(RegisteredFrom(i)) /\ ipConnCount[i] \in Nat
  BY DEF Counted, CountsAreExact, TypeOK
<1>4. \A j \in IPs : /\ ipConnCount'[j] = Cardinality(RegisteredFrom(j)')
                     /\ Cardinality(RegisteredFrom(j)') <= MaxConnsPerIP
  <2> SUFFICES ASSUME NEW j \in IPs
               PROVE  /\ ipConnCount'[j] = Cardinality(RegisteredFrom(j)')
                      /\ Cardinality(RegisteredFrom(j)') <= MaxConnsPerIP
    OBVIOUS
  <2>1. CASE j = i
    BY <2>1, <1>2, <1>3
  <2>2. CASE j # i
    BY <2>2, <1>1 DEF Counted, CountsAreExact, LimitHolds
  <2> QED
    BY <2>1, <2>2
<1> QED
  BY <1>4 DEF Counted, CountsAreExact, LimitHolds

\* removeClient keeps both, whether or not the connection was still registered,
\* and unregisters only its connection.
LEMMA RemoveCounts ==
    ASSUME TypeOK, Counted, NEW c \in Conns, RemoveClient(c)
    PROVE  /\ Counted'
           /\ clients' = [clients EXCEPT ![c] = NoIP]
           /\ ipConnCount' \in [IPs -> Nat]
<1>1. CASE c \in Registered
  <2>1. PICK i \in IPs : clients[c] = i
    BY <1>1 DEF TypeOK, Registered
  <2>2. /\ clients' = [clients EXCEPT ![c] = NoIP]
        /\ ipConnCount' = [ipConnCount EXCEPT ![i] = IF @ > 0 THEN @ - 1 ELSE 0]
    BY <1>1, <2>1 DEF RemoveClient
  <2>3. ipConnCount[i] = Cardinality(RegisteredFrom(i)) /\ ipConnCount[i] \in Nat
    BY DEF Counted, CountsAreExact, TypeOK
  <2>4. /\ Cardinality(RegisteredFrom(i)') = ipConnCount[i] - 1
        /\ ipConnCount[i] > 0
        /\ \A j \in IPs \ {i} : RegisteredFrom(j)' = RegisteredFrom(j)
    BY <2>1, <2>2, <2>3, Unregistering
  <2>5. /\ ipConnCount'[i] = ipConnCount[i] - 1
        /\ \A j \in IPs \ {i} : ipConnCount'[j] = ipConnCount[j]
        /\ ipConnCount' \in [IPs -> Nat]
    BY <2>2, <2>4 DEF TypeOK
  <2>6. \A j \in IPs : /\ ipConnCount'[j] = Cardinality(RegisteredFrom(j)')
                       /\ Cardinality(RegisteredFrom(j)') <= MaxConnsPerIP
    <3> SUFFICES ASSUME NEW j \in IPs
                 PROVE  /\ ipConnCount'[j] = Cardinality(RegisteredFrom(j)')
                        /\ Cardinality(RegisteredFrom(j)') <= MaxConnsPerIP
      OBVIOUS
    <3>1. CASE j = i
      BY <3>1, <2>3, <2>4, <2>5 DEF Counted, LimitHolds
    <3>2. CASE j # i
      BY <3>2, <2>4, <2>5 DEF Counted, CountsAreExact, LimitHolds
    <3> QED
      BY <3>1, <3>2
  <2> QED
    BY <2>2, <2>5, <2>6 DEF Counted, CountsAreExact, LimitHolds
<1>2. CASE c \notin Registered
  <2>1. UNCHANGED <<clients, ipConnCount>> /\ clients[c] = NoIP
    BY <1>2 DEF RemoveClient, Registered
  <2> QED
    BY <2>1 DEF TypeOK, Counted, CountsAreExact, LimitHolds, RegisteredFrom
<1> QED
  BY <1>1, <1>2

-----------------------------------------------------------------------------
\* The invariant holds in the empty hub.
LEMMA InitIInv == Init => IInv
<1> SUFFICES ASSUME Init PROVE IInv
  OBVIOUS
<1>1. \A i \in IPs : RegisteredFrom(i) = {}
  BY DEF Init, RegisteredFrom
<1>2. CountsAreExact /\ LimitHolds
  BY <1>1, FS_EmptySet DEF Init, CountsAreExact, LimitHolds
<1>3. TypeOK
  BY DEF Init, TypeOK
<1>4. OnlyLiveHandlersRegistered
  BY DEF Init, OnlyLiveHandlersRegistered, Registered
<1> QED
  BY <1>2, <1>3, <1>4 DEF IInv

\* A step that leaves the two maps alone keeps what is said of them.
LEMMA CountsUnchanged ==
    ASSUME Counted, UNCHANGED <<clients, ipConnCount>>
    PROVE  Counted'
BY DEF Counted, CountsAreExact, LimitHolds, RegisteredFrom

\* The steps of a handler goroutine keep the invariant.
LEMMA HandlerStep ==
    ASSUME IInv, NEW c \in Conns, Handle(c)
    PROVE  IInv'
<1> USE DEF IInv
<1>0. Counted
  BY DEF Counted
<1>1. CASE AddClient(c)
  <2>1. clients[c] = NoIP /\ ip[c] \in IPs
    BY <1>1 DEF AddClient, TypeOK, OnlyLiveHandlersRegistered, Registered
  <2>2. CASE ipConnCount[ip[c]] >= MaxConnsPerIP
    <3>1. UNCHANGED <<clients, ipConnCount, ip>> /\ handler' = [handler EXCEPT ![c] = "refused"]
      BY <1>1, <2>2 DEF AddClient
    <3>2. TypeOK'
      BY <1>1, <3>1 DEF AddClient, TypeOK
    <3>3. OnlyLiveHandlersRegistered'
      BY <3>1, <2>1 DEF TypeOK, OnlyLiveHandlersRegistered, Registered
    <3> QED
      BY <1>0, <3>1, <3>2, <3>3, CountsUnchanged DEF Counted
  <2>3. CASE ~(ipConnCount[ip[c]] >= MaxConnsPerIP)
    <3>1. /\ handler' = [handler EXCEPT ![c] = "reading"]
          /\ clients' = [clients EXCEPT ![c] = ip[c]]
          /\ ipConnCount' = [ipConnCount EXCEPT ![ip[c]] = @ + 1]
          /\ UNCHANGED ip
      BY <1>1, <2>3 DEF AddClient
    <3>2. ipConnCount[ip[c]] < MaxConnsPerIP
      BY <2>1, <2>3 DEF TypeOK
    <3>3. Counted'
      BY <1>0, <2>1, <3>1, <3>2, AddCounts
    <3>4. TypeOK'
      BY <1>1, <2>1, <3>1 DEF AddClient, TypeOK
    <3>5. OnlyLiveHandlersRegistered'
      BY <3>1, <2>1 DEF TypeOK, OnlyLiveHandlersRegistered, Registered
    <3> QED
      BY <3>3, <3>4, <3>5 DEF Counted
  <2> QED
    BY <2>2, <2>3
<1>2. CASE ReadFails(c)
  <2>1. TypeOK'
    BY <1>2 DEF ReadFails, TypeOK
  <2>2. OnlyLiveHandlersRegistered'
    BY <1>2 DEF ReadFails, TypeOK, OnlyLiveHandlersRegistered, Registered
  <2> QED
    BY <1>0, <1>2, <2>1, <2>2, CountsUnchanged DEF ReadFails, Counted
<1>3. CASE DeferredRemove(c)
  <2>1. /\ Counted'
        /\ clients' = [clients EXCEPT ![c] = NoIP]
        /\ ipConnCount' \in [IPs -> Nat]
    BY <1>0, <1>3, RemoveCounts DEF DeferredRemove
  <2>2. TypeOK'
    BY <1>3, <2>1 DEF DeferredRemove, TypeOK
  <2>3. OnlyLiveHandlersRegistered'
    BY <1>3, <2>1 DEF DeferredRemove, TypeOK, OnlyLiveHandlersRegistered, Registered
  <2> QED
    BY <2>1, <2>2, <2>3 DEF Counted
<1>4. CASE CloseAndReturn(c)
  <2>1. TypeOK'
    BY <1>4 DEF CloseAndReturn, TypeOK
  <2>2. OnlyLiveHandlersRegistered'
    BY <1>4 DEF CloseAndReturn, TypeOK, OnlyLiveHandlersRegistered, Registered
  <2> QED
    BY <1>0, <1>4, <2>1, <2>2, CountsUnchanged DEF CloseAndReturn, Counted
<1> QED
  BY <1>1, <1>2, <1>3, <1>4 DEF Handle

\* New and lost connections keep the invariant.
LEMMA ClientStep ==
    ASSUME IInv, NEW c \in Conns, Disconnect(c) \/ \E i \in IPs : Accept(c, i)
    PROVE  IInv'
<1> USE DEF IInv
<1>0. Counted
  BY DEF Counted
<1>1. CASE Disconnect(c)
  <2>1. TypeOK'
    BY <1>1 DEF Disconnect, TypeOK
  <2>2. OnlyLiveHandlersRegistered'
    BY <1>1 DEF Disconnect, OnlyLiveHandlersRegistered, Registered
  <2> QED
    BY <1>0, <1>1, <2>1, <2>2, CountsUnchanged DEF Disconnect, Counted
<1>2. ASSUME NEW i \in IPs, Accept(c, i) PROVE IInv'
  <2>1. TypeOK'
    BY <1>2 DEF Accept, TypeOK
  <2>2. OnlyLiveHandlersRegistered'
    BY <1>2 DEF Accept, TypeOK, OnlyLiveHandlersRegistered, Registered
  <2> QED
    BY <1>0, <1>2, <2>1, <2>2, CountsUnchanged DEF Accept, Counted
<1> QED
  BY <1>1, <1>2

\* The steps of the broadcast goroutine keep the invariant.
LEMMA BroadcastStep ==
    ASSUME IInv, Broadcast
    PROVE  IInv'
<1> USE DEF IInv
<1>0. Counted
  BY DEF Counted
<1>1. CASE RemoveFailed
  <2>1. PICK c \in failed : RemoveClient(c)
    BY <1>1 DEF RemoveFailed
  <2>2. c \in Conns
    BY DEF TypeOK
  <2>3. /\ Counted'
        /\ clients' = [clients EXCEPT ![c] = NoIP]
        /\ ipConnCount' \in [IPs -> Nat]
    BY <1>0, <2>1, <2>2, RemoveCounts
  <2>4. TypeOK'
    BY <1>1, <2>2, <2>3 DEF RemoveFailed, TypeOK
  <2>5. OnlyLiveHandlersRegistered'
    BY <1>1, <2>2, <2>3 DEF RemoveFailed, TypeOK, OnlyLiveHandlersRegistered, Registered
  <2> QED
    BY <2>3, <2>4, <2>5 DEF Counted
<1>2. ASSUME UNCHANGED hubVars, TypeOK' PROVE IInv'
  <2>1. OnlyLiveHandlersRegistered'
    BY <1>2 DEF hubVars, OnlyLiveHandlersRegistered, Registered
  <2> QED
    BY <1>0, <1>2, <2>1, CountsUnchanged DEF hubVars, Counted
<1>3. CASE TakeSnapshot
  BY <1>2, <1>3 DEF TakeSnapshot, TypeOK, hubVars, Registered
<1>4. CASE FetchStats
  BY <1>2, <1>4 DEF FetchStats, TypeOK, hubVars
<1>5. ASSUME NEW c \in Conns, Write(c) PROVE IInv'
  BY <1>2, <1>5 DEF Write, TypeOK, hubVars
<1>6. CASE CloseFailed
  BY <1>2, <1>6 DEF CloseFailed, TypeOK, hubVars
<1> QED
  BY <1>1, <1>3, <1>4, <1>5, <1>6 DEF Broadcast

\* The inductive invariant of the hub.
THEOREM HubInvariance == Spec => []IInv
<1>1. IInv /\ UNCHANGED vars => IInv'
  BY DEF IInv, TypeOK, CountsAreExact, LimitHolds, OnlyLiveHandlersRegistered,
         Registered, RegisteredFrom, vars
<1>2. IInv /\ [Next]_vars => IInv'
  BY <1>1, HandlerStep, ClientStep, BroadcastStep DEF Next
<1> QED
  BY <1>2, InitIInv, PTL DEF Spec

\* addClient's test is enough: no address ever has more than maxConnsPerIP
\* registered connections.
THEOREM LimitIsEnforced == Spec => []LimitHolds
BY HubInvariance, PTL DEF IInv

\* The counter is the number of registered connections, so an address that has
\* no connection left can always connect again.
THEOREM CountersAreExact == Spec => []CountsAreExact
BY HubInvariance, PTL DEF IInv

\* A connection is registered only while its handler is going to remove it.
THEOREM NoStaleClients == Spec => []OnlyLiveHandlersRegistered
BY HubInvariance, PTL DEF IInv

-----------------------------------------------------------------------------
(* The hub behind the gateway's tunnel.                                    *)

\* Every step of the tunnel is one of the hub, or none: the tunnel delivers what
\* a browser does, and closing the gateway's end is a client that goes away.
LEMMA TunnelStepIsHubStep ==
  ASSUME TypeOK, [TunnelNext]_wsVars  PROVE [Next]_vars
<1>1. CASE UNCHANGED wsVars
  BY <1>1 DEF wsVars
<1>2. ASSUME NEW c \in Conns, SayGoodbye(c)  PROVE [Next]_vars
  BY <1>2 DEF SayGoodbye, Next
<1>3. ASSUME NEW c \in Conns, Vanish(c) \/ CopyToBrowser(c) \/ CopyFails(c) \/ CopyEnds(c)
      PROVE  [Next]_vars
  BY <1>3 DEF Vanish, CopyToBrowser, CopyFails, CopyEnds
<1>4. ASSUME NEW c \in Conns, CloseTunnel(c)  PROVE [Next]_vars
  <2>1. /\ open \in [Conns -> BOOLEAN] /\ open' = [open EXCEPT ![c] = FALSE]
        /\ UNCHANGED <<clients, ipConnCount, handler, ip, broadcaster, snapshot, failed>>
    BY <1>4 DEF TypeOK, CloseTunnel
  <2>2. CASE open[c]
    BY <2>1, <2>2 DEF Disconnect, Next
  <2>3. CASE ~open[c]
    <3>1. open' = open
      BY <2>1, <2>3
    <3> QED
      BY <2>1, <3>1 DEF vars
  <2> QED
    BY <2>2, <2>3
<1>5. ASSUME NEW c \in Conns, NEW i \in IPs, Connect(c, i)  PROVE [Next]_vars
  BY <1>5 DEF Connect, Next
<1>6. ASSUME NEW c \in Conns, Serve(c)  PROVE [Next]_vars
  BY <1>6 DEF Serve, Next
<1>7. CASE Push
  BY <1>7 DEF Push, Next
<1> QED
  BY <1>1, <1>2, <1>3, <1>4, <1>5, <1>6, <1>7 DEF TunnelNext, Proxy

LEMMA TunnelInvariance == TunnelSpec => []IInv
<1>1. TunnelInit => IInv
  BY InitIInv DEF TunnelInit
<1>2. IInv /\ [TunnelNext]_wsVars => IInv'
  <2>1. IInv => TypeOK
    BY DEF IInv
  <2>2. IInv /\ [Next]_vars => IInv'
    <3>1. IInv /\ UNCHANGED vars => IInv'
      BY DEF IInv, TypeOK, CountsAreExact, LimitHolds, OnlyLiveHandlersRegistered,
             Registered, RegisteredFrom, vars
    <3> QED
      BY <3>1, HandlerStep, ClientStep, BroadcastStep DEF Next
  <2> QED
    BY <2>1, <2>2, TunnelStepIsHubStep
<1> QED
  BY <1>1, <1>2, PTL DEF TunnelSpec

\* The hub behind the tunnel is a hub: what is proved of it above holds there.
THEOREM TunnelIsHub == TunnelSpec => Spec
<1>1. TunnelInit => Init
  BY DEF TunnelInit
<1>2. IInv /\ [TunnelNext]_wsVars => [Next]_vars
  BY TunnelStepIsHubStep DEF IInv
<1> QED
  BY <1>1, <1>2, TunnelInvariance, PTL DEF TunnelSpec, Spec

\* Every variable of the hub and of the tunnel keeps its type.
THEOREM TunnelTypeCorrect == TunnelSpec => []TunnelTypeOK
<1>1. TunnelInit => TunnelTypeOK
  BY InitIInv DEF TunnelInit, TunnelTypeOK, IInv
<1>2. TypeOK' /\ TunnelTypeOK /\ [TunnelNext]_wsVars => TunnelTypeOK'
  BY DEF TunnelTypeOK, TunnelNext, wsVars, tunnelVars, SayGoodbye, Vanish, Connect, Proxy,
         CopyToBrowser, CopyFails, CopyEnds, CloseTunnel, Serve, Push
<1>3. IInv => TypeOK
  BY DEF IInv
<1> QED
  BY <1>1, <1>2, <1>3, TunnelInvariance, PTL DEF TunnelSpec
=============================================================================
