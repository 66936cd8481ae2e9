------------------------------ MODULE NodePool ------------------------------
(***************************************************************************)
(* The shared nodes: the health checker, which writes what it observed of  *)
(* a node to two tables by two statements, the requests of the nodes'      *)
(* status, which read the two tables by two statements, and the pool of    *)
(* database connections that all of them share.  A request keeps the       *)
(* connection of its first query while it reads the health log through     *)
(* another one, for every row.                                             *)
(*                                                                         *)
(* An observation is the number of the check that made it.                 *)
(***************************************************************************)
EXTENDS Naturals, FiniteSets, Sequences

CONSTANTS Nodes,      \* rows of node_pool
          NodeNames,  \* what their name column may hold
          Visitors,   \* concurrent requests of GET /api/nodes/status
          MaxConns,   \* connections of the pool (10)
          MaxChecks   \* bound of the checks

ASSUME NodePoolAssumption == /\ IsFiniteSet(Nodes) /\ IsFiniteSet(Visitors)
                             /\ MaxConns \in Nat \ {0}
                             /\ MaxChecks \in Nat

NoCheck == 0   \* health_status 'unknown'; no row of the log

VARIABLES name,      \* node_pool.name
          running,   \* the nodes whose status is 'running'; the others' is 'stopped'
          health,    \* node_pool.health_status
          log,       \* the node's latest row of node_health_log
          checker,   \* RunHealthChecker: where it is, the nodes it has left, the
                     \* node and number of its check, and its next statement
          visit,     \* GetNodesStatus: where it is, the rows it has left, its answer
          unlogged   \* the checks whose INSERT failed

nodeVars == <<name, running, health, log, checker, visit, unlogged>>

Checks == 0..MaxChecks
Summaries == [status : Checks, stats : Checks, of : Nodes]
Answers == UNION {[rows -> Summaries] : rows \in SUBSET Nodes}
NoVisit == [pc |-> "idle", todo |-> {}, answer |-> <<>>]

\* Mutant of Statements: the row is updated before the log.
StatementsSwapped == <<"node_pool", "node_health_log">>

\* What checkNode writes, in this order.
Statements == <<"node_health_log", "node_pool">>

NodeTypeOK ==
    /\ name \in [Nodes -> NodeNames]
    /\ running \subseteq Nodes
    /\ health \in [Nodes -> Checks]
    /\ log \in [Nodes -> Checks]
    /\ checker \in [pc : {"waiting", "choosing", "asking", "writing"}, todo : SUBSET Nodes,
                    node : Nodes, check : Checks, next : 1..Len(Statements)]
    /\ visit \in [Visitors -> [pc : {"idle", "querying", "reading"}, todo : SUBSET Nodes,
                              answer : Answers]]
    /\ \A v \in Visitors : visit[v].todo \subseteq DOMAIN visit[v].answer
    /\ unlogged \subseteq Checks

NodeInit ==
    /\ name \in [Nodes -> NodeNames]
    /\ running = Nodes
    /\ health = [n \in Nodes |-> NoCheck]
    /\ log = [n \in Nodes |-> NoCheck]
    /\ checker \in [pc : {"choosing"}, todo : {{}}, node : Nodes, check : {NoCheck}, next : {1}]
    /\ visit = [v \in Visitors |-> NoVisit]
    /\ unlogged = {}

-----------------------------------------------------------------------------
\* Mutant of CheckerHolds: the nodes are checked while their rows are read.
CheckerHoldsRows == IF checker.pc \in {"asking", "writing"} THEN 1 ELSE 0

\* getRunningNodes reads its rows to the end, which gives the connection back.
CheckerHolds == 0

Reading == {v \in Visitors : visit[v].pc = "reading"}   \* those that hold a connection

\* A statement finds a free connection.
CanAcquire == Cardinality(Reading) + CheckerHolds < MaxConns

\* An operator starts or stops a node, by hand.
Operate(n) ==
    /\ running' = IF n \in running THEN running \ {n} ELSE running \cup {n}
    /\ UNCHANGED <<name, health, log, checker, visit, unlogged>>

-----------------------------------------------------------------------------
Tick == /\ checker.pc = "waiting"
        /\ checker.check < MaxChecks
        /\ checker' = [checker EXCEPT !.pc = "choosing"]
        /\ UNCHANGED <<name, running, health, log, visit, unlogged>>

\* checkAllNodes takes the running nodes, or gives up this round.
ChooseNodes ==
    /\ checker.pc = "choosing"
    /\ CanAcquire
    /\ \/ checker' = [checker EXCEPT !.pc = "asking", !.todo = running]
       \/ checker' = [checker EXCEPT !.pc = "waiting"]
    /\ UNCHANGED <<name, running, health, log, visit, unlogged>>

\* The node answers or does not, either of which is an observation.
AskNode ==
    /\ checker.pc = "asking"
    /\ checker.check < MaxChecks
    /\ \E n \in checker.todo :
          checker' = [checker EXCEPT !.pc = "writing", !.todo = @ \ {n}, !.node = n,
                                     !.check = @ + 1, !.next = 1]
    /\ UNCHANGED <<name, running, health, log, visit, unlogged>>

\* A node without an API URL is passed over, and nothing is written of it.
SkipNode ==
    /\ checker.pc = "asking"
    /\ \E n \in checker.todo : checker' = [checker EXCEPT !.todo = @ \ {n}]
    /\ UNCHANGED <<name, running, health, log, visit, unlogged>>

\* A statement of checkNode is executed, or fails, which the next one ignores.
WriteHealth ==
    LET n == checker.node
        k == checker.check
    IN  /\ checker.pc = "writing"
        /\ CanAcquire
        /\ CASE Statements[checker.next] = "node_health_log" ->
                  /\ \/ log' = [log EXCEPT ![n] = k] /\ UNCHANGED unlogged
                     \/ unlogged' = unlogged \cup {k} /\ UNCHANGED log
                  /\ UNCHANGED health
             [] Statements[checker.next] = "node_pool" ->
                  /\ health' = [health EXCEPT ![n] = k] \/ UNCHANGED health
                  /\ UNCHANGED <<log, unlogged>>
        /\ checker' = IF checker.next < Len(Statements)
                      THEN [checker EXCEPT !.next = @ + 1]
                      ELSE [checker EXCEPT !.pc = "asking"]
        /\ UNCHANGED <<name, running, visit>>

\* The round is over (or the bound of the checks is reached).
EndRound == /\ checker.pc = "asking"
            /\ checker.todo = {} \/ checker.check = MaxChecks
            /\ checker' = [checker EXCEPT !.pc = "waiting", !.todo = {}]
            /\ UNCHANGED <<name, running, health, log, visit, unlogged>>

CheckHealth == Tick \/ ChooseNodes \/ AskNode \/ SkipNode \/ WriteHealth \/ EndRound

-----------------------------------------------------------------------------
unread == <<name, running, health, log, checker, unlogged>>

Visit(v) == /\ visit[v].pc = "idle"
            /\ visit' = [visit EXCEPT ![v].pc = "querying"]
            /\ UNCHANGED unread

\* The first query, whose rows stay open; or it fails.
QueryNodes(v) ==
    /\ visit[v].pc = "querying"
    /\ CanAcquire
    /\ \/ visit' = [visit EXCEPT ![v] =
              [pc |-> "reading", todo |-> running,
               answer |-> [n \in running |->
                              [status |-> health[n], stats |-> NoCheck, of |-> n]]]]
       \/ visit' = [visit EXCEPT ![v] = NoVisit]
    /\ UNCHANGED unread

\* The latest log of the nodes of that name; a query that fails finds none.
ReadLog(v) ==
    /\ visit[v].pc = "reading"
    /\ CanAcquire
    /\ \E n \in visit[v].todo :
          \/ \E m \in {p \in Nodes : name[p] = name[n]} :
                /\ \A p \in Nodes : name[p] = name[n] => log[p] <= log[m]
                /\ visit' = [visit EXCEPT ![v].todo = @ \ {n},
                                          ![v].answer[n] = [@ EXCEPT !.stats = log[m], !.of = m]]
          \/ visit' = [visit EXCEPT ![v].todo = @ \ {n}]
    /\ UNCHANGED unread

\* The end of the rows gives the connection back.
AnswerVisit(v) == /\ visit[v].pc = "reading"
                  /\ visit[v].todo = {}
                  /\ visit' = [visit EXCEPT ![v] = NoVisit]
                  /\ UNCHANGED unread

\* The visitor goes away, which cancels the request.
Leave(v) == /\ visit[v].pc # "idle"
            /\ visit' = [visit EXCEPT ![v] = NoVisit]
            /\ UNCHANGED unread

GetNodesStatus(v) == QueryNodes(v) \/ ReadLog(v) \/ AnswerVisit(v)

NodeNext == \/ CheckHealth
            \/ \E n \in Nodes : Operate(n)
            \/ \E v \in Visitors : Visit(v) \/ GetNodesStatus(v) \/ Leave(v)

NodeSpec == NodeInit /\ [][NodeNext]_nodeVars

\* Go schedules every goroutine and the pool hands connections out in the order
\* they are asked for; nobody has to go away.
NodeFairness == /\ WF_nodeVars(CheckHealth)
                /\ \A v \in Visitors : SF_nodeVars(GetNodesStatus(v))

NodeFairSpec == NodeSpec /\ NodeFairness

-----------------------------------------------------------------------------
\* The statistics a summary shows are not from before the check whose status it
\* shows: the log is written first and read last, and only a failed INSERT leaves
\* older statistics below a newer status.
StatsFollowStatus ==
    \A v \in Visitors : \A n \in DOMAIN visit[v].answer :
        LET shown == visit[v].answer[n]
        IN  n \notin visit[v].todo /\ shown.stats # NoCheck
                => shown.stats >= shown.status \/ shown.status \in unlogged

\* Why: a status is never newer than the log, but for a failed INSERT, neither in
\* the tables nor in a row that a request has yet to look up.
Logged(n, check) == check <= log[n] \/ check \in unlogged

LogIsWrittenFirst ==
    /\ \A n \in Nodes : log[n] <= checker.check /\ Logged(n, health[n])
    /\ checker.pc = "writing" /\ checker.next > 1 => Logged(checker.node, checker.check)
    /\ \A v \in Visitors : \A n \in visit[v].todo :
          /\ visit[v].answer[n].stats = NoCheck
          /\ Logged(n, visit[v].answer[n].status)

NodeInv == NodeTypeOK /\ LogIsWrittenFirst /\ StatsFollowStatus

\* Every request of the status ends, whether or not its visitor waits, although
\* it asks the pool for a connection while it holds one (routes.go:
\* "handleNodesStatus returns the health status of all shared nodes").
VisitsEnd == \A v \in Visitors : visit[v].pc # "idle" ~> visit[v].pc = "idle"

\* The statistics of a summary are the node's own (pool.go: "Fetch latest health
\* log for this node"); the query takes those of any node of the same name.
StatsAreOwn ==
    \A v \in Visitors : \A n \in DOMAIN visit[v].answer : visit[v].answer[n].of = n

\* What holds of them: they are those of a node of the same name.
StatsAreOfTheName ==
    \A v \in Visitors : \A n \in DOMAIN visit[v].answer :
        name[visit[v].answer[n].of] = name[n]

NamesDiffer == \A n, m \in Nodes : name[n] = name[m] => n = m
=============================================================================
