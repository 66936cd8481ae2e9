------------------------------ MODULE WsTunnel ------------------------------
(***************************************************************************)
(* The WebSocket hub behind the gateway.  wsProxy tunnels a browser's      *)
(* connection to the manager by two copying goroutines, and the end of the *)
(* copy from the manager to the browser alone closes the tunnel.  The hub  *)
(* sees only the tunnel: a browser that vanishes without a close frame is  *)
(* noticed when the copy of a broadcast to it fails.                       *)
(***************************************************************************)
EXTENDS WsHub

VARIABLES tunnel,  \* wsProxy of a connection: not running, copying, or past <-done
          peer,    \* is the browser there?
          unsent   \* has the tunnel a broadcast for the browser?

tunnelVars == <<tunnel, peer, unsent>>
wsVars == <<vars, tunnelVars>>

TunnelTypeOK == /\ TypeOK
                /\ tunnel \in [Conns -> {"none", "copying", "done"}]
                /\ peer \in [Conns -> BOOLEAN]
                /\ unsent \in [Conns -> BOOLEAN]

TunnelInit == /\ Init
              /\ tunnel = [c \in Conns |-> "none"]
              /\ peer = [c \in Conns |-> FALSE]
              /\ unsent = [c \in Conns |-> FALSE]

-----------------------------------------------------------------------------
\* The gateway dials the manager, hijacks the browser's connection and forwards
\* the upgrade.  When one of these fails nothing is left of the attempt.
Connect(c, i) ==
    /\ tunnel[c] = "none"
    /\ Accept(c, i)
    /\ tunnel' = [tunnel EXCEPT ![c] = "copying"]
    /\ peer' = [peer EXCEPT ![c] = TRUE]
    /\ UNCHANGED unsent

\* The browser sends a close frame, or one above the read limit, which the copy
\* to the manager delivers.
SayGoodbye(c) == peer[c] /\ tunnel[c] = "copying" /\ Disconnect(c) /\ UNCHANGED tunnelVars

\* The browser is gone.  The copy to the manager ends, and tells nobody.
Vanish(c) == /\ peer[c]
             /\ peer' = [peer EXCEPT ![c] = FALSE]
             /\ UNCHANGED <<vars, tunnel, unsent>>

\* A broadcast that was written to the tunnel is copied to the browser.
CopyToBrowser(c) == /\ tunnel[c] = "copying" /\ unsent[c]
                    /\ unsent' = [unsent EXCEPT ![c] = FALSE]
                    /\ UNCHANGED <<vars, tunnel, peer>>

\* ... which fails in the end when the browser is gone.
CopyFails(c) == /\ tunnel[c] = "copying" /\ unsent[c] /\ ~peer[c]
                /\ unsent' = [unsent EXCEPT ![c] = FALSE]
                /\ tunnel' = [tunnel EXCEPT ![c] = "done"]
                /\ UNCHANGED <<vars, peer>>

\* The manager has closed its end.
CopyEnds(c) == /\ tunnel[c] = "copying" /\ ~open[c]
               /\ tunnel' = [tunnel EXCEPT ![c] = "done"]
               /\ UNCHANGED <<vars, peer, unsent>>

\* Mutant of CloseTunnel: only the browser's connection is closed.
CloseTunnelHalf(c) ==
    /\ tunnel[c] = "done"
    /\ tunnel' = [tunnel EXCEPT ![c] = "none"]
    /\ peer' = [peer EXCEPT ![c] = FALSE]
    /\ unsent' = [unsent EXCEPT ![c] = FALSE]
    /\ UNCHANGED vars

\* Both connections are closed.
CloseTunnel(c) ==
    /\ tunnel[c] = "done"
    /\ tunnel' = [tunnel EXCEPT ![c] = "none"]
    /\ peer' = [peer EXCEPT ![c] = FALSE]
    /\ unsent' = [unsent EXCEPT ![c] = FALSE]
    /\ open' = [open EXCEPT ![c] = FALSE]
    /\ UNCHANGED <<clients, ipConnCount, handler, ip, broadcaster, snapshot, failed>>

Proxy(c) == CopyToBrowser(c) \/ CopyFails(c) \/ CopyEnds(c) \/ CloseTunnel(c)

\* The hub's goroutines; what a broadcast has written is the tunnel's to copy.
Serve(c) == Handle(c) /\ UNCHANGED tunnelVars

Push == /\ Broadcast
        /\ unsent' = [c \in Conns |->
              \/ unsent[c]
              \/ broadcaster = "writing" /\ c \in snapshot \ (snapshot' \cup failed')]
        /\ UNCHANGED <<tunnel, peer>>

TunnelNext == \/ \E c \in Conns : \/ SayGoodbye(c) \/ Vanish(c) \/ Proxy(c)
                                  \/ \E i \in IPs : Connect(c, i)
                                  \/ Serve(c)
              \/ Push

TunnelSpec == TunnelInit /\ [][TunnelNext]_wsVars

\* As FairSpec of the hub; the gateway's goroutines run; the statistics are there
\* again and again; repeated writes to a browser that is gone fail in the end.
Feeds == FetchStats /\ broadcaster' = "writing" /\ UNCHANGED tunnelVars

TunnelFairness == /\ WF_wsVars(Push)
                  /\ \A c \in Conns : /\ WF_wsVars(Serve(c))
                                      /\ WF_wsVars(Proxy(c))
                                      /\ SF_wsVars(CopyFails(c))

UnfedSpec == TunnelSpec /\ TunnelFairness
TunnelFairSpec == UnfedSpec /\ SF_wsVars(Feeds)

-----------------------------------------------------------------------------
\* A browser that went away, in whatever way, keeps neither its slot at the hub
\* nor the gateway's handler and two connections.
GoneBrowsersAreForgotten ==
    \A c \in Conns :
        ~peer[c] /\ (c \in Registered \/ tunnel[c] # "none")
            ~> c \notin Registered /\ tunnel[c] = "none"
=============================================================================
