------------------------- MODULE RateLimiter_proofs -------------------------
(***************************************************************************)
(* The limit that Redis enforces, for any burst, number of requests and    *)
(* failures, and any timings that satisfy RateAssumption.  A counter is    *)
(* exact until it expires, and when it expires no request of its second    *)
(* can still reach Redis in time.                                          *)
(***************************************************************************)
EXTENDS RateLimiter, TLAPS

\* A request reaches Redis, if at all, within Second + Timeout of its window.
DeadlineInv ==
    \A r \in Handlers : handler[r].pc \in {"incr", "expire"} =>
        /\ handler[r].window <= clock
        /\ clock <= handler[r].deadline
        /\ handler[r].deadline < handler[r].window + Second + Timeout

\* A key does not expire earlier.
ExpiryInv == \A w \in Windows : expireAt[w] # 0 => w + Expiry <= expireAt[w]

\* What Redis let pass is counted, until the window is long over.
CountedInv == \A w \in Windows : passed[w] <= count[w] \/ w + Expiry <= clock

\* An INCR executes late only after a fault.
LateInv == \A w \in Windows : late[w] > 0 => faults > 0

IInv == /\ LimiterTypeOK /\ DeadlineInv /\ ExpiryInv /\ CountedInv /\ LateInv
        /\ RedisWithinBurst /\ KeysCleanUpUnlessLost

-----------------------------------------------------------------------------
\* The types of the parts.
LEMMA Types ==
  ASSUME LimiterTypeOK
  PROVE  /\ clock \in Nat /\ second \in Nat /\ arrivals \in Nat /\ faults \in Nat
         /\ \A r \in Handlers : /\ handler[r] \in HandlerStates
                               /\ handler[r].window \in Windows /\ handler[r].window \in Nat
                               /\ handler[r].deadline \in Nat
         /\ \A w \in Windows : /\ w \in Nat /\ count[w] \in Nat /\ expireAt[w] \in Nat
                              /\ late[w] \in Nat /\ passed[w] \in Nat /\ memPassed[w] \in Nat
         /\ mem.count \in Nat /\ mem.window \in Nat
<1>1. clock \in Nat /\ second \in Nat /\ arrivals \in Nat /\ faults \in Nat
  BY DEF LimiterTypeOK, Windows
<1>2. ASSUME NEW r \in Handlers
      PROVE  /\ handler[r] \in HandlerStates
             /\ handler[r].window \in Windows /\ handler[r].window \in Nat
             /\ handler[r].deadline \in Nat
  <2>1. handler[r] \in HandlerStates
    BY DEF LimiterTypeOK
  <2> QED
    BY <2>1 DEF HandlerStates, Windows
<1>3. \A w \in Windows : /\ w \in Nat /\ count[w] \in Nat /\ expireAt[w] \in Nat
                        /\ late[w] \in Nat /\ passed[w] \in Nat /\ memPassed[w] \in Nat
  <2>1. \A w \in Windows : w \in Nat
    BY DEF Windows
  <2> QED
    BY <2>1 DEF LimiterTypeOK
<1>4. mem.count \in Nat /\ mem.window \in Nat
  BY DEF LimiterTypeOK, Windows
<1> QED
  BY <1>1, <1>2, <1>3, <1>4

\* ... and of the constants.
LEMMA Constants == /\ Second \in Nat /\ Timeout \in Nat /\ Expiry \in Nat /\ Burst \in Nat
                   /\ Second > 0 /\ Timeout > 0 /\ Expiry > 0 /\ Burst > 0
                   /\ Second + Timeout <= Expiry
BY RateAssumption

\* Time passes.
LEMMA TickStep == IInv /\ LimiterTick => IInv'
<1> SUFFICES ASSUME IInv, LimiterTick PROVE IInv'
  OBVIOUS
<1> USE RateAssumption DEF IInv, Windows
<1>1. /\ clock \in Nat /\ clock' = clock + 1 /\ clock' \in 0..MaxClock
      /\ UNCHANGED <<late, mem, handler, arrivals, faults, passed, memPassed>>
  BY DEF LimiterTick, LimiterTypeOK
<1>2. \A w \in Windows :
         \/ count'[w] = count[w] /\ expireAt'[w] = expireAt[w]
         \/ /\ expireAt[w] # 0 /\ expireAt[w] <= clock'
            /\ count'[w] = 0 /\ expireAt'[w] = 0
  BY DEF LimiterTick
<1>3. LimiterTypeOK'
  <2>1. /\ second' \in Windows /\ second' <= clock' /\ clock' < second' + Second
        /\ second <= second' /\ second \in Nat /\ second' \in Nat
    <3>1. /\ second \in Nat /\ Second \in Nat /\ Second > 0
          /\ second <= clock /\ clock < second + Second
          /\ second \in 0..MaxClock
      BY DEF LimiterTypeOK
    <3>2. second' = IF clock' = second + Second THEN clock' ELSE second
      BY DEF LimiterTick
    <3>3. CASE clock' = second + Second
      BY <1>1, <3>1, <3>2, <3>3
    <3>4. CASE clock' # second + Second
      BY <1>1, <3>1, <3>2, <3>4
    <3> QED
      BY <3>3, <3>4
  <2>2. count' \in [Windows -> Nat] /\ expireAt' \in [Windows -> Nat]
    BY DEF LimiterTick, LimiterTypeOK
  <2>3. mem'.window <= second'
    <3>1. mem.window \in Nat /\ mem.window <= second
      BY DEF LimiterTypeOK
    <3> QED
      BY <1>1, <2>1, <3>1
  <2>4. ASSUME NEW r \in Handlers PROVE handler'[r].window <= second'
    <3>1. handler[r].window \in Nat /\ handler[r].window <= second
      BY DEF LimiterTypeOK, HandlerStates
    <3> QED
      BY <1>1, <2>1, <3>1
  <2> QED
    BY <1>1, <2>1, <2>2, <2>3, <2>4 DEF LimiterTypeOK
<1>4. DeadlineInv'
  <2> SUFFICES ASSUME NEW r \in Handlers, handler[r].pc \in {"incr", "expire"}
               PROVE /\ handler[r].window <= clock'
                     /\ clock' <= handler[r].deadline
                     /\ handler[r].deadline < handler[r].window + Second + Timeout
    BY <1>1 DEF DeadlineInv
  <2>1. handler[r].window \in Nat /\ handler[r].deadline \in Nat
    BY Types
  <2>2. clock < handler[r].deadline
    BY DEF LimiterTick
  <2>3. /\ handler[r].window <= clock
        /\ handler[r].deadline < handler[r].window + Second + Timeout
    BY DEF DeadlineInv
  <2> QED
    BY <1>1, <2>1, <2>2, <2>3
<1>5. ExpiryInv'
  BY <1>2 DEF ExpiryInv, LimiterTypeOK
<1>6. CountedInv'
  <2> SUFFICES ASSUME NEW w \in Windows
               PROVE passed[w] <= count'[w] \/ w + Expiry <= clock'
    BY <1>1 DEF CountedInv
  <2>1. /\ w \in Nat /\ Expiry \in Nat /\ expireAt[w] \in Nat
        /\ passed[w] \in Nat /\ count[w] \in Nat
    BY Types, Constants
  <2>2. passed[w] <= count[w] \/ w + Expiry <= clock
    BY DEF CountedInv
  <2>3. expireAt[w] # 0 => w + Expiry <= expireAt[w]
    BY DEF ExpiryInv
  <2> QED
    BY <1>1, <1>2, <2>1, <2>2, <2>3
<1>7. LateInv' /\ RedisWithinBurst'
  BY <1>1 DEF LateInv, RedisWithinBurst
<1>8. KeysCleanUpUnlessLost'
  <2> SUFFICES ASSUME faults = 0, NEW w \in Windows, count'[w] > 0
               PROVE \/ expireAt'[w] # 0
                     \/ \E r \in Handlers : handler[r].pc = "expire" /\ handler[r].window = w
    BY <1>1 DEF KeysCleanUpUnlessLost, KeysCleanUp
  <2>1. count'[w] = count[w] /\ expireAt'[w] = expireAt[w]
    BY <1>2
  <2> QED
    BY <2>1 DEF KeysCleanUpUnlessLost, KeysCleanUp
<1> QED
  BY <1>3, <1>4, <1>5, <1>6, <1>7, <1>8

\* Redis executes a forgotten INCR.
LEMMA LateStep == ASSUME IInv, NEW v \in Windows, LateIncr(v) PROVE IInv'
<1> USE RateAssumption DEF IInv
<1>1. /\ late[v] > 0 /\ count' = [count EXCEPT ![v] = @ + 1]
      /\ late' = [late EXCEPT ![v] = @ - 1]
      /\ UNCHANGED <<clock, second, expireAt, mem, handler, arrivals, faults, passed, memPassed>>
  BY DEF LateIncr
<1>2. LimiterTypeOK'
  BY <1>1 DEF LimiterTypeOK
<1>3. DeadlineInv' /\ ExpiryInv' /\ RedisWithinBurst'
  BY <1>1 DEF DeadlineInv, ExpiryInv, RedisWithinBurst
<1>4. CountedInv'
  BY <1>1 DEF CountedInv, LimiterTypeOK
<1>5. faults > 0 /\ faults \in Nat
  BY <1>1 DEF LateInv, LimiterTypeOK
<1>6. LateInv' /\ KeysCleanUpUnlessLost'
  BY <1>1, <1>5 DEF LateInv, KeysCleanUpUnlessLost
<1> QED
  BY <1>2, <1>3, <1>4, <1>6

\* A request arrives.
LEMMA ArriveStep == ASSUME IInv, NEW q \in Handlers, Arrive(q) PROVE IInv'
<1> USE RateAssumption DEF IInv, Windows
<1>1. /\ handler[q].pc = "idle" /\ arrivals' = arrivals + 1 /\ arrivals < MaxArrivals
      /\ handler' = [handler EXCEPT ![q] = [pc |-> "incr", window |-> second,
                                            deadline |-> clock + Timeout]]
      /\ UNCHANGED <<clock, second, count, expireAt, late, mem, faults, passed, memPassed>>
  BY DEF Arrive, redisVars
<1>2. /\ clock \in Nat /\ second \in Nat /\ second <= clock /\ clock < second + Second
  BY DEF LimiterTypeOK
<1>3. \A r \in Handlers : r # q => handler'[r] = handler[r]
  BY <1>1 DEF LimiterTypeOK
<1>4. handler'[q] = [pc |-> "incr", window |-> second, deadline |-> clock + Timeout]
  BY <1>1 DEF LimiterTypeOK
<1>5. LimiterTypeOK'
  <2>1. handler' \in [Handlers -> HandlerStates]
    <3>1. clock + Timeout \in Nat
      BY Types, Constants
    <3>2. handler'[q] \in HandlerStates
      BY <1>4, <3>1 DEF LimiterTypeOK, HandlerStates
    <3> QED
      BY <1>1, <1>4, <3>2 DEF LimiterTypeOK
  <2>2. \A r \in Handlers : handler'[r].window <= second'
    BY <1>1, <1>2, <1>3, <1>4 DEF LimiterTypeOK
  <2>3. arrivals' \in 0..MaxArrivals
    BY <1>1 DEF LimiterTypeOK
  <2> QED
    BY <1>1, <2>1, <2>2, <2>3 DEF LimiterTypeOK
<1>6. DeadlineInv'
  <2> SUFFICES ASSUME NEW r \in Handlers, handler'[r].pc \in {"incr", "expire"}
               PROVE /\ handler'[r].window <= clock
                     /\ clock <= handler'[r].deadline
                     /\ handler'[r].deadline < handler'[r].window + Second + Timeout
    BY <1>1 DEF DeadlineInv
  <2>1. CASE r = q
    BY <1>2, <1>4, <2>1
  <2>2. CASE r # q
    BY <1>3, <2>2 DEF DeadlineInv
  <2> QED
    BY <2>1, <2>2
<1>7. ExpiryInv' /\ CountedInv' /\ LateInv' /\ RedisWithinBurst'
  BY <1>1 DEF ExpiryInv, CountedInv, LateInv, RedisWithinBurst
<1>8. KeysCleanUpUnlessLost'
  BY <1>1, <1>3 DEF KeysCleanUpUnlessLost, KeysCleanUp
<1> QED
  BY <1>5, <1>6, <1>7, <1>8

\* A request whose window and deadline stay as they are, or that ends.
LEMMA RequestKept ==
  ASSUME LimiterTypeOK, DeadlineInv, NEW q \in Handlers, NEW s \in HandlerStates,
         handler' = [handler EXCEPT ![q] = s],
         s = IdleHandler \/ (s.window = handler[q].window /\ s.deadline = handler[q].deadline),
         handler[q].pc \in {"incr", "expire"} \/ s = IdleHandler,
         UNCHANGED <<clock, second>>
  PROVE  /\ handler' \in [Handlers -> HandlerStates]
         /\ \A r \in Handlers : handler'[r].window <= second'
         /\ DeadlineInv'
<1> USE RateAssumption DEF Windows
<1>1. /\ \A r \in Handlers : r # q => handler'[r] = handler[r]
      /\ handler'[q] = s
      /\ handler' \in [Handlers -> HandlerStates]
  BY DEF LimiterTypeOK
<1>2. \A r \in Handlers : handler'[r].window <= second'
  <2>1. \A r \in Handlers : handler[r].window <= second
    BY DEF LimiterTypeOK
  <2>2. s.window <= second
    BY <2>1, Types DEF IdleHandler
  <2> QED
    BY <1>1, <2>1, <2>2
<1>3. DeadlineInv'
  <2> SUFFICES ASSUME NEW r \in Handlers, handler'[r].pc \in {"incr", "expire"}
               PROVE /\ handler'[r].window <= clock
                     /\ clock <= handler'[r].deadline
                     /\ handler'[r].deadline < handler'[r].window + Second + Timeout
    BY DEF DeadlineInv
  <2>1. CASE r = q
    BY <1>1, <2>1 DEF DeadlineInv, IdleHandler
  <2>2. CASE r # q
    BY <1>1, <2>2 DEF DeadlineInv
  <2> QED
    BY <2>1, <2>2
<1> QED
  BY <1>1, <1>2, <1>3

\* A request ends.
LEMMA EndedRequest ==
  ASSUME LimiterTypeOK, DeadlineInv, NEW q \in Handlers, IdleHandler \in HandlerStates,
         handler' = [handler EXCEPT ![q] = IdleHandler], UNCHANGED <<clock, second>>
  PROVE  /\ handler' \in [Handlers -> HandlerStates]
         /\ \A r \in Handlers : handler'[r].window <= second'
         /\ DeadlineInv'
<1>1. /\ \A r \in Handlers : r # q => handler'[r] = handler[r]
      /\ handler'[q] = IdleHandler
      /\ handler' \in [Handlers -> HandlerStates]
  BY DEF LimiterTypeOK
<1>2. \A r \in Handlers : handler'[r].window <= second'
  <2>1. \A r \in Handlers : handler[r].window <= second
    BY DEF LimiterTypeOK
  <2>2. IdleHandler.window <= second
    BY Types DEF IdleHandler
  <2> QED
    BY <1>1, <2>1, <2>2
<1>3. IdleHandler.pc \notin {"incr", "expire"}
  BY DEF IdleHandler
<1>4. DeadlineInv'
  BY <1>1, <1>3 DEF DeadlineInv
<1> QED
  BY <1>1, <1>2, <1>4

\* INCR is answered.  The counter it answers from has not expired, so that it
\* has counted every request of its second that passed before.
LEMMA IncrStep == ASSUME IInv, NEW q \in Handlers, Incr(q) PROVE IInv'
<1> USE RateAssumption DEF IInv, Windows
<1> DEFINE w == handler[q].window
           n == count[w] + 1
           s == AfterIncr(q, n)
<1>1. /\ handler[q].pc = "incr" /\ count' = [count EXCEPT ![w] = n]
      /\ passed' = IF Admitted(n) THEN [passed EXCEPT ![w] = @ + 1] ELSE passed
      /\ handler' = [handler EXCEPT ![q] = s]
      /\ UNCHANGED <<clock, second, expireAt, late, mem, arrivals, faults, memPassed>>
  BY DEF Incr
<1>2. /\ handler[q] \in HandlerStates /\ w \in 0..MaxClock /\ w \in Nat
      /\ handler[q].deadline \in Nat
      /\ clock \in Nat /\ count[w] \in Nat /\ passed[w] \in Nat /\ n \in Nat /\ n > 0
  BY Types
<1>3. /\ s \in HandlerStates
      /\ s = IdleHandler \/ (s.window = handler[q].window /\ s.deadline = handler[q].deadline)
      /\ n = 1 => s.pc = "expire" /\ s.window = w
  <2>1. IdleHandler \in HandlerStates
    BY <1>2 DEF HandlerStates, IdleHandler
  <2> DEFINE e == [handler[q] EXCEPT !.pc = "expire"]
  <2>2. /\ e \in HandlerStates /\ e.pc = "expire"
        /\ e.window = handler[q].window /\ e.deadline = handler[q].deadline
    BY <1>2 DEF HandlerStates
  <2>3. s = IF n = 1 THEN e ELSE IdleHandler
    BY DEF AfterIncr
  <2> HIDE DEF e, s, n
  <2>4. CASE n = 1
    <3>1. s = e
      BY <2>3, <2>4
    <3> QED
      BY <2>2, <3>1
  <2>5. CASE n # 1
    <3>1. s = IdleHandler
      BY <2>3, <2>5
    <3> QED
      BY <2>1, <2>5, <3>1
  <2> QED
    BY <2>4, <2>5
<1>4. passed[w] <= count[w]
  <2>1. clock <= handler[q].deadline /\ handler[q].deadline < w + Second + Timeout
    BY <1>1 DEF DeadlineInv
  <2>2. passed[w] <= count[w] \/ w + Expiry <= clock
    BY <1>2 DEF CountedInv
  <2> QED
    BY <1>2, <2>1, <2>2
<1>5. /\ handler' \in [Handlers -> HandlerStates]
      /\ \A r \in Handlers : handler'[r].window <= second'
      /\ DeadlineInv'
  <2> HIDE DEF s
  <2> QED
    BY <1>1, <1>3, RequestKept
<1>6. /\ count' \in [Windows -> Nat] /\ count'[w] = n
      /\ \A x \in Windows : x # w => count'[x] = count[x]
  BY <1>1, <1>2 DEF LimiterTypeOK
<1>7. /\ passed' \in [Windows -> Nat]
      /\ passed'[w] = passed[w] \/ (passed'[w] = passed[w] + 1 /\ n <= Burst)
      /\ \A x \in Windows : x # w => passed'[x] = passed[x]
  <2>1. passed \in [Windows -> Nat]
    BY DEF LimiterTypeOK
  <2>2. CASE n <= Burst
    <3>1. passed' = [passed EXCEPT ![w] = passed[w] + 1]
      BY <1>1, <2>2 DEF Admitted
    <3> HIDE DEF w, n
    <3> QED
      BY <1>2, <2>1, <2>2, <3>1
  <2>3. CASE ~(n <= Burst)
    <3>1. passed' = passed
      BY <1>1, <2>3 DEF Admitted
    <3> HIDE DEF w, n
    <3> QED
      BY <2>1, <3>1
  <2> QED
    BY <2>2, <2>3
<1> HIDE DEF w, n, s
<1>8. LimiterTypeOK'
  BY <1>1, <1>5, <1>6, <1>7 DEF LimiterTypeOK
<1>9. ExpiryInv' /\ LateInv'
  BY <1>1 DEF ExpiryInv, LateInv
<1>10. CountedInv'
  <2> SUFFICES ASSUME NEW x \in Windows
               PROVE passed'[x] <= count'[x] \/ x + Expiry <= clock
    BY <1>1 DEF CountedInv
  <2>1. CASE x = w
    <3>1. count'[w] = count[w] + 1
      BY <1>6 DEF n
    <3>2. passed'[w] <= passed[w] + 1
      BY <1>2, <1>7
    <3>3. passed'[w] \in Nat /\ passed[w] \in Nat /\ count[w] \in Nat
      BY <1>2, <1>7
    <3>4. passed'[w] <= count'[w]
      BY <1>4, <3>1, <3>2, <3>3
    <3> QED
      BY <2>1, <3>4
  <2>2. CASE x # w
    BY <1>6, <1>7, <2>2 DEF CountedInv
  <2> QED
    BY <2>1, <2>2
<1>11. RedisWithinBurst'
  <2> SUFFICES ASSUME NEW x \in Windows PROVE passed'[x] <= Burst
    BY DEF RedisWithinBurst
  <2>1. CASE x = w
    BY <1>2, <1>4, <1>7, <2>1 DEF n, RedisWithinBurst
  <2>2. CASE x # w
    BY <1>7, <2>2 DEF RedisWithinBurst
  <2> QED
    BY <2>1, <2>2
<1>12. KeysCleanUpUnlessLost'
  <2> SUFFICES ASSUME faults = 0, NEW x \in Windows, count'[x] > 0, expireAt[x] = 0
               PROVE \E r \in Handlers : handler'[r].pc = "expire" /\ handler'[r].window = x
    BY <1>1 DEF KeysCleanUpUnlessLost, KeysCleanUp
  <2>1. CASE x = w /\ n = 1
    <3>1. handler'[q] = s
      BY <1>1 DEF LimiterTypeOK
    <3> QED
      BY <1>3, <2>1, <3>1
  <2>2. CASE ~(x = w /\ n = 1)
    <3>1. count[x] > 0
      BY SMTT(30), <1>2, <1>6, <2>2 DEF n
    <3>2. PICK r \in Handlers : handler[r].pc = "expire" /\ handler[r].window = x
      BY <3>1 DEF KeysCleanUpUnlessLost, KeysCleanUp
    <3>3. r # q /\ handler'[r] = handler[r]
      BY <1>1, <3>2 DEF LimiterTypeOK
    <3> QED
      BY <3>2, <3>3
  <2> QED
    BY <2>1, <2>2
<1> QED
  BY <1>5, <1>8, <1>9, <1>10, <1>11, <1>12

\* An INCR fails: it is sent again, or the request turns to the memory.
LEMMA IncrFailsStep == ASSUME IInv, NEW q \in Handlers, IncrFails(q) PROVE IInv'
<1> USE RateAssumption DEF IInv, Windows
<1> DEFINE w == handler[q].window
<1>1. /\ handler[q].pc = "incr" /\ faults' = faults + 1 /\ faults < MaxFaults
      /\ UNCHANGED <<clock, second, expireAt, mem, arrivals, passed, memPassed>>
  BY DEF IncrFails
<1>2. /\ count' = count \/ count' = [count EXCEPT ![w] = @ + 1]
      /\ late' = late \/ late' = [late EXCEPT ![w] = @ + 1]
      /\ handler' = handler \/ handler' = [handler EXCEPT ![q].pc = "fallback"]
  BY DEF IncrFails
<1>3. /\ handler[q] \in HandlerStates /\ w \in 0..MaxClock /\ faults \in Nat
  BY DEF LimiterTypeOK, HandlerStates
<1>4. /\ count' \in [Windows -> Nat] /\ late' \in [Windows -> Nat]
      /\ \A x \in Windows : count[x] <= count'[x]
  <2>1. /\ count \in [Windows -> Nat] /\ late \in [Windows -> Nat]
        /\ \A x \in Windows : count[x] \in Nat
    BY Types DEF LimiterTypeOK
  <2>2. w \in Windows
    BY <1>3
  <2> HIDE DEF w, Windows
  <2>3. count' \in [Windows -> Nat] /\ \A x \in Windows : count[x] <= count'[x]
    <3>1. CASE count' = count
      BY <2>1, <3>1
    <3>2. CASE count' = [count EXCEPT ![w] = @ + 1]
      BY <2>1, <2>2, <3>2
    <3> QED
      BY <1>2, <3>1, <3>2
  <2>4. late' \in [Windows -> Nat]
    <3>1. CASE late' = late
      BY <2>1, <3>1
    <3>2. CASE late' = [late EXCEPT ![w] = @ + 1]
      BY <2>1, <2>2, <3>2
    <3> QED
      BY <1>2, <3>1, <3>2
  <2> QED
    BY <2>3, <2>4
<1>5. /\ handler' \in [Handlers -> HandlerStates]
      /\ \A r \in Handlers : handler'[r].window <= second'
      /\ DeadlineInv'
  <2>1. CASE handler' = handler
    BY <1>1, <2>1 DEF LimiterTypeOK, DeadlineInv
  <2>2. CASE handler' = [handler EXCEPT ![q].pc = "fallback"]
    <3> DEFINE s == [handler[q] EXCEPT !.pc = "fallback"]
    <3>1. /\ s \in HandlerStates
          /\ s.window = handler[q].window /\ s.deadline = handler[q].deadline
      BY <1>3 DEF HandlerStates
    <3>2. handler' = [handler EXCEPT ![q] = s]
      BY <2>2 DEF LimiterTypeOK
    <3> HIDE DEF s
    <3> QED
      BY <1>1, <3>1, <3>2, RequestKept
  <2> QED
    BY <1>2, <2>1, <2>2
<1>6. LimiterTypeOK'
  <2>1. faults' \in 0..MaxFaults
    BY <1>1 DEF LimiterTypeOK
  <2> QED
    BY <1>1, <1>4, <1>5, <2>1 DEF LimiterTypeOK
<1>7. ExpiryInv' /\ RedisWithinBurst' /\ LateInv' /\ KeysCleanUpUnlessLost'
  BY <1>1, <1>3 DEF ExpiryInv, RedisWithinBurst, LateInv, KeysCleanUpUnlessLost
<1>8. CountedInv'
  <2> SUFFICES ASSUME NEW x \in Windows
               PROVE passed[x] <= count'[x] \/ x + Expiry <= clock
    BY <1>1 DEF CountedInv
  <2>1. passed[x] \in Nat /\ count[x] \in Nat /\ count'[x] \in Nat /\ count[x] <= count'[x]
    BY <1>4, Types
  <2> QED
    BY <2>1 DEF CountedInv
<1> QED
  BY <1>5, <1>6, <1>7, <1>8

\* EXPIRE, if it is executed, lets the key live longer than its window.
LEMMA ExpireStep == ASSUME IInv, NEW q \in Handlers, Expire(q) PROVE IInv'
<1> USE RateAssumption DEF IInv, Windows
<1> DEFINE w == handler[q].window
<1>1. /\ handler[q].pc = "expire" /\ handler' = [handler EXCEPT ![q] = IdleHandler]
      /\ UNCHANGED <<clock, second, count, late, mem, arrivals, passed, memPassed>>
  BY DEF Expire
<1>2. \/ /\ expireAt' = [expireAt EXCEPT ![w] = IF count[w] = 0 THEN 0 ELSE clock + Expiry]
         /\ faults' = faults
      \/ faults < MaxFaults /\ faults' = faults + 1 /\ expireAt' = expireAt
  BY DEF Expire
<1>3. /\ w \in 0..MaxClock /\ w \in Nat /\ faults \in Nat /\ clock \in Nat /\ w <= clock
      /\ count[w] \in Nat
  BY <1>1, Types DEF DeadlineInv
<1>4. /\ handler' \in [Handlers -> HandlerStates]
      /\ \A r \in Handlers : handler'[r].window <= second'
      /\ DeadlineInv'
  <2>1. IdleHandler \in HandlerStates
    BY <1>1, <1>3 DEF HandlerStates, IdleHandler
  <2> QED
    BY <1>1, <2>1, EndedRequest
<1>5. expireAt' \in [Windows -> Nat] /\ faults' \in 0..MaxFaults
  <2>1. expireAt \in [Windows -> Nat] /\ faults \in 0..MaxFaults
    BY DEF LimiterTypeOK
  <2>2. w \in Windows /\ (IF count[w] = 0 THEN 0 ELSE clock + Expiry) \in Nat
    BY <1>3, Constants
  <2> HIDE DEF w, Windows
  <2>3. expireAt' \in [Windows -> Nat]
    BY <1>2, <2>1, <2>2
  <2>4. faults' \in 0..MaxFaults
    BY <1>2, <1>3, <2>1
  <2> QED
    BY <2>3, <2>4
<1>6. LimiterTypeOK'
  BY <1>1, <1>4, <1>5 DEF LimiterTypeOK
<1>7. ExpiryInv'
  <2> SUFFICES ASSUME NEW x \in Windows, expireAt'[x] # 0
               PROVE x + Expiry <= expireAt'[x]
    BY DEF ExpiryInv
  <2>1. CASE expireAt'[x] = expireAt[x]
    BY <2>1 DEF ExpiryInv
  <2>2. CASE expireAt'[x] # expireAt[x]
    <3>1. x = w /\ expireAt'[x] = clock + Expiry
      BY <1>2, <2>2 DEF LimiterTypeOK
    <3> QED
      BY <1>3, <3>1, Constants
  <2> QED
    BY <2>1, <2>2
<1>8. CountedInv' /\ RedisWithinBurst'
  BY <1>1 DEF CountedInv, RedisWithinBurst
<1>9. LateInv'
  BY <1>1, <1>2, <1>3 DEF LateInv
<1>10. KeysCleanUpUnlessLost'
  <2> SUFFICES ASSUME faults' = 0, NEW x \in Windows, count[x] > 0, expireAt'[x] = 0
               PROVE \E r \in Handlers : handler'[r].pc = "expire" /\ handler'[r].window = x
    BY <1>1 DEF KeysCleanUpUnlessLost, KeysCleanUp
  <2>1. /\ faults = 0
        /\ expireAt' = [expireAt EXCEPT ![w] = IF count[w] = 0 THEN 0 ELSE clock + Expiry]
    BY <1>2, <1>3
  <2>2. x # w /\ expireAt[x] = 0
    <3>1. expireAt \in [Windows -> Nat]
      BY DEF LimiterTypeOK
    <3>2. x # w
      <4>1. clock + Expiry # 0
        BY <1>3, Constants
      <4>2. count[x] # 0
        BY Types
      <4> QED
        BY <1>3, <2>1, <3>1, <4>1, <4>2
    <3> QED
      BY <2>1, <3>1, <3>2
  <2>3. PICK r \in Handlers : handler[r].pc = "expire" /\ handler[r].window = x
    BY <2>1, <2>2 DEF KeysCleanUpUnlessLost, KeysCleanUp
  <2>4. handler'[r] = handler[r]
    BY <1>1, <2>2, <2>3 DEF LimiterTypeOK
  <2> QED
    BY <2>3, <2>4
<1> QED
  BY <1>4, <1>6, <1>7, <1>8, <1>9, <1>10

\* The counter in memory answers.
LEMMA MemoryStep == ASSUME IInv, NEW q \in Handlers, InMemoryCheck(q) PROVE IInv'
<1> USE RateAssumption DEF IInv, Windows
<1> DEFINE w == handler[q].window
           n == IF mem.count > 0 /\ mem.window = w THEN mem.count + 1 ELSE 1
<1>1. /\ handler[q].pc = "fallback" /\ handler' = [handler EXCEPT ![q] = IdleHandler]
      /\ mem' = [count |-> n, window |-> w]
      /\ memPassed' = IF Admitted(n) THEN [memPassed EXCEPT ![w] = @ + 1] ELSE memPassed
      /\ UNCHANGED <<clock, second, count, expireAt, late, arrivals, faults, passed>>
  BY DEF InMemoryCheck, redisVars
<1>2. w \in 0..MaxClock /\ w <= second /\ n \in Nat
  <2>1. w <= second
    BY DEF LimiterTypeOK
  <2> QED
    BY <2>1, Types
<1>3. /\ handler' \in [Handlers -> HandlerStates]
      /\ \A r \in Handlers : handler'[r].window <= second'
      /\ DeadlineInv'
  <2>1. IdleHandler \in HandlerStates
    BY <1>1, <1>2 DEF HandlerStates, IdleHandler
  <2> QED
    BY <1>1, <2>1, EndedRequest
<1>4. mem' \in [count : Nat, window : Windows] /\ mem'.window <= second
  BY <1>1, <1>2
<1>5. memPassed' \in [Windows -> Nat]
  <2>1. memPassed \in [Windows -> Nat] /\ memPassed[w] + 1 \in Nat
    <3>1. memPassed[w] \in Nat
      BY <1>2, Types
    <3>2. memPassed \in [Windows -> Nat]
      BY DEF LimiterTypeOK
    <3> HIDE DEF w
    <3> QED
      BY <3>1, <3>2
  <2> HIDE DEF w, n
  <2> QED
    BY <1>1, <1>2, <2>1
<1>6. LimiterTypeOK'
  BY <1>1, <1>3, <1>4, <1>5 DEF LimiterTypeOK
<1>7. ExpiryInv' /\ CountedInv' /\ LateInv' /\ RedisWithinBurst'
  BY <1>1 DEF ExpiryInv, CountedInv, LateInv, RedisWithinBurst
<1>8. \A r \in Handlers : handler[r].pc = "expire" => handler'[r] = handler[r]
  BY <1>1 DEF LimiterTypeOK
<1>9. KeysCleanUpUnlessLost'
  BY <1>1, <1>8 DEF KeysCleanUpUnlessLost, KeysCleanUp
<1> QED
  BY <1>3, <1>6, <1>7, <1>9

-----------------------------------------------------------------------------
\* The invariant is inductive.
THEOREM Inductive == LimiterSpec => []IInv
<1>1. LimiterInit => IInv
  <2> SUFFICES ASSUME LimiterInit PROVE IInv
    OBVIOUS
  <2> USE RateAssumption DEF Windows
  <2>1. LimiterTypeOK
    BY DEF LimiterInit, LimiterTypeOK, IdleHandler, HandlerStates
  <2>2. DeadlineInv /\ ExpiryInv /\ CountedInv /\ LateInv
    BY DEF LimiterInit, DeadlineInv, ExpiryInv, CountedInv, LateInv, IdleHandler
  <2>3. RedisWithinBurst /\ KeysCleanUpUnlessLost
    BY DEF LimiterInit, RedisWithinBurst, KeysCleanUpUnlessLost, KeysCleanUp
  <2> QED
    BY <2>1, <2>2, <2>3 DEF IInv
<1>2. IInv /\ [LimiterNext]_limiterVars => IInv'
  <2> SUFFICES ASSUME IInv, [LimiterNext]_limiterVars PROVE IInv'
    OBVIOUS
  <2>1. CASE LimiterTick
    BY <2>1, TickStep
  <2>2. ASSUME NEW w \in Windows, LateIncr(w) PROVE IInv'
    BY <2>2, LateStep
  <2>3. ASSUME NEW r \in Handlers, Middleware(r) PROVE IInv'
    BY <2>3, ArriveStep, IncrStep, IncrFailsStep, ExpireStep, MemoryStep DEF Middleware
  <2>4. CASE UNCHANGED limiterVars
    BY <2>4 DEF IInv, LimiterTypeOK, DeadlineInv, ExpiryInv, CountedInv, LateInv, RedisWithinBurst,
                KeysCleanUpUnlessLost, KeysCleanUp, limiterVars, redisVars
  <2> QED
    BY <2>1, <2>2, <2>3, <2>4 DEF LimiterNext
<1> QED
  BY <1>1, <1>2, PTL DEF LimiterSpec

\* However late, lost or repeated the commands are, Redis lets no more than
\* Burst requests of one second pass.
THEOREM LimitHolds == LimiterSpec => []RedisWithinBurst
BY Inductive, PTL DEF IInv

\* A key of Redis that will never expire is there only if a command failed.
THEOREM KeysExpireUnlessLost == LimiterSpec => []KeysCleanUpUnlessLost
BY Inductive, PTL DEF IInv

\* Every variable keeps its type, for all requests, seconds and time constants.
THEOREM TypeCorrect == LimiterSpec => []LimiterTypeOK
BY Inductive, PTL DEF IInv
=============================================================================
