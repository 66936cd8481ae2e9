--------------------------- MODULE BlockListener ----------------------------
(***************************************************************************)
(* The block listener goroutine: it announces new heights to the scanner,  *)
(* from monerod's ZMQ publications while it can, and after MaxRetries      *)
(* failed connections from polling get_last_block_header, for good.        *)
(***************************************************************************)
EXTENDS CoinbaseScanner

CONSTANT MaxRetries   \* Run's maxRetries (3)

ASSUME ListenerAssumption == MaxRetries \in Nat \ {0}

VARIABLES mode,        \* what Run is doing; "off" until main starts it
          attempt,     \* Run's attempt counter, which a success does not reset
          zmq,         \* publications on their way: first height, number of blocks
          lastHeight,  \* runPolling's lastHeight
          fireNext,    \* the loop over the heights to announce:
          fireLast     \*   fireNext..fireLast are still to come

listenerVars == <<mode, attempt, zmq, lastHeight, fireNext, fireLast>>

ListenerTypeOK == /\ mode \in {"off", "zmq", "pollInit", "polling"}
                  /\ attempt \in 1..MaxRetries
                  /\ zmq \in Seq([first: Heights, n: Heights])
                  /\ lastHeight \in 0..MaxHeight
                  /\ fireNext \in 1..(MaxHeight + 1)
                  /\ fireLast \in 0..MaxHeight

ListenerInit == /\ mode = "off"
                /\ attempt = 1
                /\ zmq = <<>>
                /\ lastHeight = 0
                /\ fireNext = 1
                /\ fireLast = 0

ListenerRestart == /\ mode' = "off"
                   /\ attempt' = 1
                   /\ zmq' = <<>>
                   /\ lastHeight' = 0
                   /\ fireNext' = 1
                   /\ fireLast' = 0

\* Handlers run on the listener's own goroutine, so it reads nothing new while
\* one runs or while a range of heights is not all announced.
Reading == fireNext > fireLast /\ pc["listener"] = "idle"

-----------------------------------------------------------------------------
\* monerod publishes json-minimal-chain_main; a PUB socket keeps nothing for a
\* subscriber that is not connected and may drop what it sends.
Publish(first, n) ==
    /\ \/ mode = "zmq" /\ zmq' = Append(zmq, [first |-> first, n |-> n])
       \/ UNCHANGED zmq
    /\ UNCHANGED <<mode, attempt, lastHeight, fireNext, fireLast>>

\* main starts the listener once the first RecoverUnprocessed has returned.
StartListener ==
    /\ mode = "off"
    /\ pc["recovery"] = "idle"
    /\ mode' = "zmq"
    /\ UNCHANGED <<attempt, zmq, lastHeight, fireNext, fireLast>>

\* runZMQ: a message is received; its heights are announced one by one.
ZmqRecv ==
    /\ mode = "zmq"
    /\ Reading
    /\ zmq # <<>>
    /\ fireNext' = Head(zmq).first
    /\ fireLast' = Head(zmq).first + Head(zmq).n - 1
    /\ zmq' = Tail(zmq)
    /\ UNCHANGED <<mode, attempt, lastHeight>>

\* runZMQ returns an error: the next attempt, or polling.
ZmqFail ==
    /\ mode = "zmq"
    /\ Reading
    /\ zmq' = <<>>
    /\ IF attempt < MaxRetries
       THEN attempt' = attempt + 1 /\ UNCHANGED mode
       ELSE mode' = "pollInit" /\ UNCHANGED attempt
    /\ UNCHANGED <<lastHeight, fireNext, fireLast>>

\* runPolling: the initial height, left at 0 when the request fails.
PollInit ==
    /\ mode = "pollInit"
    /\ mode' = "polling"
    /\ \/ lastHeight' = LastHeader /\ Succeeds
       \/ Fails("header") /\ UNCHANGED lastHeight
    /\ UNCHANGED <<attempt, zmq, fireNext, fireLast>>

\* runPolling: a tick that finds a higher tip (others change nothing).
PollTick ==
    /\ mode = "polling"
    /\ Reading
    /\ LastHeader > lastHeight
    /\ fireNext' = lastHeight + 1
    /\ fireLast' = LastHeader
    /\ lastHeight' = LastHeader
    /\ UNCHANGED <<mode, attempt, zmq>>

\* fireHandlers with the next height; the scanner's handler is the only one.
FireHandlers ==
    /\ fireNext <= fireLast
    /\ HandleNewBlock("listener", fireNext)
    /\ IF fireNext < fireLast
       THEN fireNext' = fireNext + 1 /\ UNCHANGED fireLast
       ELSE fireNext' = 1 /\ fireLast' = 0
    /\ UNCHANGED <<mode, attempt, zmq, lastHeight>>
=============================================================================
