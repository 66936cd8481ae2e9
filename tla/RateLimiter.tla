---------------------------- MODULE RateLimiter -----------------------------
(***************************************************************************)
(* The gateway's rate limiter for one client address: a Redis counter per  *)
(* second, and a counter in memory for requests that get no answer from    *)
(* Redis.  A request may reach Redis after its second is over, Redis may   *)
(* execute a command whose answer is lost, and go-redis may send it again. *)
(*                                                                         *)
(* A second ("window") is named by the tick it starts at, so that times    *)
(* and windows compare without division.                                   *)
(***************************************************************************)
EXTENDS Naturals

CONSTANTS Handlers,    \* requests of the address, at one time
          Burst,       \* burstSize (20)
          Second,      \* ticks per second
          Timeout,     \* the context's timeout (500 ms)
          Expiry,      \* what EXPIRE is given (2 s)
          MaxArrivals, \* bound: how many requests arrive
          MaxFaults,   \* bound: how many commands fail
          MaxClock     \* bound: the last tick of the clock

\* A counter must outlive every request of its second.
ASSUME RateAssumption == /\ {Burst, Second, Timeout, Expiry} \subseteq Nat \ {0}
                         /\ {MaxArrivals, MaxFaults, MaxClock} \subseteq Nat
                         /\ Second + Timeout <= Expiry

VARIABLES clock,     \* the clock
          second,    \* the tick at which the current second began
          count,     \* Redis: the counter of a window, 0 without a key
          expireAt,  \* Redis: when the key expires, 0 if never
          late,      \* Redis: INCRs that were given up and may still execute
          mem,       \* RateLimiter.memStore's entry of the address
          handler,   \* the middleware of each request
          arrivals, faults

\* History variables, which the program does not have.
VARIABLES passed,    \* requests of a window that Redis let pass
          memPassed  \* ... and that the counter in memory let pass

redisVars == <<count, expireAt, late>>
limiterVars == <<clock, second, redisVars, mem, handler, arrivals, faults, passed, memPassed>>

Windows == 0..MaxClock

IdleHandler == [pc |-> "idle", window |-> 0, deadline |-> 0]

HandlerStates == [pc : {"idle", "incr", "expire", "fallback"}, window : Windows, deadline : Nat]

LimiterTypeOK ==
    /\ clock \in 0..MaxClock
    /\ second \in Windows
    /\ count \in [Windows -> Nat]
    /\ expireAt \in [Windows -> Nat]
    /\ late \in [Windows -> Nat]
    /\ mem \in [count : Nat, window : Windows]
    /\ handler \in [Handlers -> HandlerStates]
    /\ arrivals \in 0..MaxArrivals
    /\ faults \in 0..MaxFaults
    /\ passed \in [Windows -> Nat]
    /\ memPassed \in [Windows -> Nat]
    /\ second <= clock /\ clock < second + Second
    /\ mem.window <= second
    /\ \A r \in Handlers : handler[r].window <= second

LimiterInit ==
    /\ clock = 0 /\ second = 0
    /\ count = [w \in Windows |-> 0]
    /\ expireAt = [w \in Windows |-> 0]
    /\ late = [w \in Windows |-> 0]
    /\ mem = [count |-> 0, window |-> 0]
    /\ handler = [r \in Handlers |-> IdleHandler]
    /\ arrivals = 0 /\ faults = 0
    /\ passed = [w \in Windows |-> 0]
    /\ memPassed = [w \in Windows |-> 0]

-----------------------------------------------------------------------------
\* Time passes; Redis drops what has expired.  A request that waits for Redis
\* gives up at its deadline.
LimiterTick ==
    /\ clock < MaxClock
    /\ \A r \in Handlers : handler[r].pc \in {"incr", "expire"} => clock < handler[r].deadline
    /\ clock' = clock + 1
    /\ second' = IF clock' = second + Second THEN clock' ELSE second
    /\ LET Gone(w) == expireAt[w] # 0 /\ expireAt[w] <= clock' IN
       /\ count' = [w \in Windows |-> IF Gone(w) THEN 0 ELSE count[w]]
       /\ expireAt' = [w \in Windows |-> IF Gone(w) THEN 0 ELSE expireAt[w]]
    /\ UNCHANGED <<late, mem, handler, arrivals, faults, passed, memPassed>>

\* Redis executes an INCR that its client has given up.
LateIncr(w) ==
    /\ late[w] > 0
    /\ late' = [late EXCEPT ![w] = @ - 1]
    /\ count' = [count EXCEPT ![w] = @ + 1]
    /\ UNCHANGED <<clock, second, expireAt, mem, handler, arrivals, faults, passed, memPassed>>

\* The middleware reads the clock and sends an INCR.
Arrive(r) ==
    /\ handler[r].pc = "idle"
    /\ arrivals < MaxArrivals
    /\ arrivals' = arrivals + 1
    /\ handler' = [handler EXCEPT ![r] = [pc |-> "incr", window |-> second,
                                          deadline |-> clock + Timeout]]
    /\ UNCHANGED <<clock, second, redisVars, mem, faults, passed, memPassed>>

\* The count that INCR answered is within the limit.
Admitted(n) == n <= Burst

\* Mutant of AfterIncr: INCR is taken to answer what was there before.
AfterIncrZero(r, n) == IF n = 0 THEN [handler[r] EXCEPT !.pc = "expire"] ELSE IdleHandler

\* The first request of a key sets its expiry before it goes on.
AfterIncr(r, n) == IF n = 1 THEN [handler[r] EXCEPT !.pc = "expire"] ELSE IdleHandler

\* INCR is executed and answered.
Incr(r) ==
    LET w == handler[r].window
        n == count[w] + 1
    IN /\ handler[r].pc = "incr"
       /\ count' = [count EXCEPT ![w] = n]
       /\ passed' = IF Admitted(n) THEN [passed EXCEPT ![w] = @ + 1] ELSE passed
       /\ handler' = [handler EXCEPT ![r] = AfterIncr(r, n)]
       /\ UNCHANGED <<clock, second, expireAt, late, mem, arrivals, faults, memPassed>>

\* The answer is lost and go-redis sends the command again, or it is not
\* executed in time (it may be later) and the middleware turns to its memory.
IncrFails(r) ==
    LET w == handler[r].window IN
    /\ handler[r].pc = "incr"
    /\ faults < MaxFaults
    /\ faults' = faults + 1
    /\ \/ /\ count' = [count EXCEPT ![w] = @ + 1]
          /\ UNCHANGED <<late, handler>>
       \/ /\ handler' = [handler EXCEPT ![r].pc = "fallback"]
          /\ \/ late' = [late EXCEPT ![w] = @ + 1]
             \/ UNCHANGED late
          /\ UNCHANGED count
    /\ UNCHANGED <<clock, second, expireAt, mem, arrivals, passed, memPassed>>

\* Mutant of Expire: the key lives as long as its window.
ExpireWithWindow(r) ==
    LET w == handler[r].window IN
    /\ handler[r].pc = "expire"
    /\ handler' = [handler EXCEPT ![r] = IdleHandler]
    /\ expireAt' = [expireAt EXCEPT ![w] = IF count[w] = 0 THEN 0 ELSE clock + Second]
    /\ UNCHANGED <<clock, second, count, late, mem, arrivals, faults, passed, memPassed>>

\* EXPIRE, whose error nobody looks at.
Expire(r) ==
    LET w == handler[r].window IN
    /\ handler[r].pc = "expire"
    /\ handler' = [handler EXCEPT ![r] = IdleHandler]
    /\ \/ /\ expireAt' = [expireAt EXCEPT ![w] = IF count[w] = 0 THEN 0 ELSE clock + Expiry]
          /\ UNCHANGED faults
       \/ /\ faults < MaxFaults
          /\ faults' = faults + 1
          /\ UNCHANGED expireAt
    /\ UNCHANGED <<clock, second, count, late, mem, arrivals, passed, memPassed>>

\* Mutant of InMemoryCheck: the entry holds the end of its window.
InMemoryCheckUntil(r) ==
    LET w == handler[r].window + Second
        n == IF mem.count > 0 /\ mem.window = w THEN mem.count + 1 ELSE 1
    IN /\ handler[r].pc = "fallback"
       /\ mem' = [count |-> n, window |-> w]
       /\ handler' = [handler EXCEPT ![r] = IdleHandler]
       /\ UNCHANGED <<clock, second, redisVars, arrivals, faults, passed, memPassed>>

\* inMemoryCheck, under memMu.
InMemoryCheck(r) ==
    LET w == handler[r].window
        n == IF mem.count > 0 /\ mem.window = w THEN mem.count + 1 ELSE 1
    IN /\ handler[r].pc = "fallback"
       /\ mem' = [count |-> n, window |-> w]
       /\ memPassed' = IF Admitted(n) THEN [memPassed EXCEPT ![w] = @ + 1] ELSE memPassed
       /\ handler' = [handler EXCEPT ![r] = IdleHandler]
       /\ UNCHANGED <<clock, second, redisVars, arrivals, faults, passed>>

-----------------------------------------------------------------------------
Middleware(r) == Arrive(r) \/ Incr(r) \/ IncrFails(r) \/ Expire(r) \/ InMemoryCheck(r)

LimiterNext == \/ LimiterTick
        \/ \E w \in Windows : LateIncr(w)
        \/ \E r \in Handlers : Middleware(r)

LimiterSpec == LimiterInit /\ [][LimiterNext]_limiterVars

-----------------------------------------------------------------------------
\* Redis lets at most Burst requests of one second pass, however late they
\* reach it, whatever is lost or sent twice, and although the counter expires.
RedisWithinBurst == \A w \in Windows : passed[w] <= Burst

\* Documented at the EXPIRE: keys clean themselves up.
KeysCleanUp == \A w \in Windows : count[w] > 0 =>
                   \/ expireAt[w] # 0
                   \/ \E r \in Handlers : handler[r].pc = "expire" /\ handler[r].window = w

\* While no command fails, every key has its EXPIRE or a request about to send it.
\* A gateway that dies between INCR and EXPIRE is not modelled.
KeysCleanUpUnlessLost == faults = 0 => KeysCleanUp

\* Documented at NewRateLimiter: the limit holds per address, in memory too.
MemoryWithinBurst == \A w \in Windows : memPassed[w] <= Burst

=============================================================================
