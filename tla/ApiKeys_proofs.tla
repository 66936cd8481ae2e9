--------------------------- MODULE ApiKeys_proofs ---------------------------
(***************************************************************************)
(* The invariants of ApiKeys, for any number of miners, keys and requests  *)
(* and any TTL and delay.  The argument follows one saying of the rows:    *)
(* it is read, cached and answered, and what the rows stop saying in       *)
(* between stays in the history as long as an answer may rely on it.       *)
(***************************************************************************)
EXTENDS ApiKeys, TLAPS

\* A cached value has not expired, is at most a TTL old and was said when a
\* lookup read it.
CacheInv ==
    \A k \in Keys : cache[k] # NoEntry =>
        /\ now < cache[k].until
        /\ cache[k].until <= now + TTL
        /\ Said(k, cache[k].addr, cache[k].grace, cache[k].until)

\* What a lookup knows at each statement.
LookupInv ==
    \A l \in Lookups : LET a == lookup[l] IN
        /\ a.pc = "idle" => a = Idle
        /\ a.pc = "select" => a.addr = NoMiner /\ ~a.paid
        /\ a.pc = "set" => /\ a.addr \in Miners
                           /\ a.at <= now /\ now <= a.at + SetDelay
                           /\ Said(a.key, a.addr, a.grace, a.at + TTL + SetDelay)
                           /\ a.paid => a.at < a.grace

\* A lookup whose key has no paying miner, or had none when it was read.
LapsedInv ==
    \A l \in Lookups : LET a == lookup[l] IN
        /\ a.pc = "select" /\ ~IsPaid(a.key) => l \in lapsed
        /\ a.pc = "set" /\ ~a.paid => l \in lapsed

IInv == TypeOK /\ CacheInv /\ LookupInv /\ LapsedInv /\ AnswersAreRecent /\ PaymentTakesEffect

-----------------------------------------------------------------------------
\* Every step keeps the types of all variables.
LEMMA TypeStep == TypeOK /\ LookupInv /\ [Next]_vars => TypeOK'
<1> SUFFICES ASSUME TypeOK, LookupInv, [Next]_vars PROVE TypeOK'
  OBVIOUS
<1> USE ApiKeysAssumption DEF TypeOK
<1>1. ASSUME NEW m \in Miners, Activate(m) PROVE TypeOK'
  <2>1. Extended(m) \in Nat
    BY DEF Extended
  <2>2. held' \subseteq Truths
    BY <1>1 DEF Activate, Closing, Truths
  <2> QED
    BY <1>1, <2>1, <2>2 DEF Activate, Watch
<1>2. ASSUME NEW m \in Miners, ResetRow(m) PROVE TypeOK'
  <2>1. held' \subseteq Truths
    BY <1>2 DEF ResetRow, Closing, Truths
  <2> QED
    BY <1>2, <2>1 DEF ResetRow, Watch
<1>3. CASE Tick
  <2>1. cache' \in [Keys -> Entries \cup {NoEntry}]
    BY <1>3 DEF Tick
  <2>2. now' \in 0..MaxTime
    BY <1>3 DEF Tick
  <2>3. held' \subseteq Truths
    BY <1>3 DEF Tick
  <2>4. lapsed' \subseteq Lookups
    BY <1>3 DEF Tick, Watch
  <2> QED
    BY <1>3, <2>1, <2>2, <2>3, <2>4 DEF Tick, rowVars
<1>4. ASSUME NEW l \in Lookups, GetCached(l) PROVE TypeOK'
  <2>1. PICK k \in minted :
          \/ lookup' = [lookup EXCEPT ![l] = [pc |-> "answered", key |-> k, at |-> now,
                          addr |-> cache[k].addr, grace |-> cache[k].grace,
                          paid |-> now < cache[k].grace]]
          \/ lookup' = [lookup EXCEPT ![l] = [Idle EXCEPT !.pc = "select", !.key = k]]
    BY <1>4 DEF GetCached
  <2> DEFINE p == now < cache[k].grace
  <2>2. cache[k].addr \in Miners \cup {NoMiner} /\ cache[k].grace \in Nat /\ p \in BOOLEAN
    BY DEF Entries, NoEntry
  <2> HIDE DEF p
  <2>3. CASE lookup' = [lookup EXCEPT ![l] = [pc |-> "answered", key |-> k, at |-> now,
                          addr |-> cache[k].addr, grace |-> cache[k].grace, paid |-> p]]
    <3>1. lookup' \in [Lookups -> LookupStates]
      BY <2>2, <2>3 DEF LookupStates
    <3> QED
      BY <1>4, <2>3, <3>1 DEF GetCached, Watch, rowVars
  <2>4. CASE lookup' = [lookup EXCEPT ![l] = [Idle EXCEPT !.pc = "select", !.key = k]]
    <3>1. lookup' \in [Lookups -> LookupStates]
      BY <2>4 DEF LookupStates, Idle
    <3>2. \A x \in Lookups : lookup'[x].pc # "idle" => lookup'[x].key \in minted
      BY <2>4 DEF LookupStates, Idle
    <3> QED
      BY <1>4, <3>1, <3>2 DEF GetCached, Watch, rowVars
  <2> QED
    BY <2>1, <2>3, <2>4 DEF p
<1>5. ASSUME NEW l \in Lookups, SelectByKey(l) PROVE TypeOK'
  <2> SUFFICES /\ lookup' \in [Lookups -> LookupStates]
               /\ \A x \in Lookups : lookup'[x].pc # "idle" => lookup'[x].key \in minted
    BY <1>5 DEF SelectByKey, Watch, rowVars
  <2>1. CASE lookup' = [lookup EXCEPT ![l] = Idle]
    BY <1>5, <2>1 DEF Idle, LookupStates
  <2>2. CASE lookup' = [lookup EXCEPT ![l].pc = "answered"]
    BY <1>5, <2>2 DEF SelectByKey, LookupStates
  <2>3. ASSUME NEW m \in Miners,
               lookup' = [lookup EXCEPT ![l] = [pc |-> "set", key |-> lookup[l].key, at |-> now,
                            addr |-> m, grace |-> grace[m], paid |-> IsActive(m)]]
        PROVE  /\ lookup' \in [Lookups -> LookupStates]
               /\ \A x \in Lookups : lookup'[x].pc # "idle" => lookup'[x].key \in minted
    <3>1. IsActive(m) \in BOOLEAN
      BY DEF IsActive
    <3>2. lookup[l].key \in minted
      BY <1>5 DEF SelectByKey
    <3> QED
      BY <2>3, <3>1, <3>2 DEF LookupStates
  <2> QED
    BY <1>5, <2>1, <2>2, <2>3 DEF SelectByKey
<1>6. ASSUME NEW l \in Lookups, SetCached(l) PROVE TypeOK'
  <2>1. CacheValue(l) \in Entries
    BY <1>6 DEF SetCached, CacheValue, Entries, LookupInv, LookupStates
  <2>2. cache' \in [Keys -> Entries \cup {NoEntry}]
    BY <1>6, <2>1 DEF SetCached
  <2>3. lookup' \in [Lookups -> LookupStates]
    BY <1>6 DEF SetCached, LookupStates
  <2>4. \A x \in Lookups : lookup'[x].pc # "idle" => lookup'[x].key \in minted
    BY <1>6 DEF SetCached, LookupStates
  <2> QED
    BY <1>6, <2>2, <2>3, <2>4 DEF SetCached, Watch, rowVars
<1>7. ASSUME NEW l \in Lookups, EndLookup(l) PROVE TypeOK'
  <2>1. lookup' \in [Lookups -> LookupStates]
    BY <1>7 DEF EndLookup, Idle, LookupStates
  <2>2. \A x \in Lookups : lookup'[x].pc # "idle" => lookup'[x].key \in minted
    BY <1>7 DEF EndLookup, Idle
  <2> QED
    BY <1>7, <2>1, <2>2 DEF EndLookup, Watch, rowVars
<1>8. ASSUME NEW r \in Requests, SelectRow(r) PROVE TypeOK'
  <2>1. request' \in [Requests -> RequestStates]
    BY <1>8 DEF SelectRow, RequestStates
  <2>2. \A q \in Requests : request'[q].pc # "idle" => request'[q].addr \in Miners
    BY <1>8 DEF SelectRow, RequestStates
  <2> QED
    BY <1>8, <2>1, <2>2 DEF SelectRow, Watch, rowVars
<1>9. ASSUME NEW r \in Requests, CheckPayment(r) PROVE TypeOK'
  <2>1. request' \in [Requests -> RequestStates]
    BY <1>9 DEF CheckPayment, Refuse, IdleRequest, RequestStates
  <2>2. \A q \in Requests : request'[q].pc # "idle" => request'[q].addr \in Miners
    BY <1>9 DEF CheckPayment, Refuse, IdleRequest, RequestStates
  <2> QED
    BY <1>9, <2>1, <2>2 DEF CheckPayment, Watch, rowVars
<1>10. ASSUME NEW r \in Requests, StoreKey(r) PROVE TypeOK'
  <2>1. request' \in [Requests -> RequestStates] /\ request[r].addr \in Miners
    BY <1>10 DEF StoreKey, Refuse, IdleRequest, RequestStates
  <2>2. \A q \in Requests : request'[q].pc # "idle" => request'[q].addr \in Miners
    BY <1>10 DEF StoreKey, Refuse, IdleRequest, RequestStates
  <2>3. CASE UNCHANGED <<minted, keyOf, held>>
    BY <1>10, <2>1, <2>2, <2>3 DEF StoreKey, Watch
  <2>4. CASE \E k \in Keys \ minted :
               /\ minted' = minted \cup {k}
               /\ keyOf' = [keyOf EXCEPT ![request[r].addr] = k]
               /\ Closing(request[r].addr)
    <3>1. held' \subseteq Truths
      BY <2>1, <2>4 DEF Closing, Truths
    <3>2. PICK k \in Keys \ minted : /\ minted' = minted \cup {k}
                                     /\ keyOf' = [keyOf EXCEPT ![request[r].addr] = k]
      BY <2>4
    <3> QED
      BY <1>10, <2>1, <2>2, <3>1, <3>2 DEF StoreKey, Watch
  <2> QED
    BY <1>10, <2>3, <2>4 DEF StoreKey
<1>11. CASE UNCHANGED vars
  BY <1>11 DEF vars, rowVars
<1> QED
  BY <1>1, <1>2, <1>3, <1>4, <1>5, <1>6, <1>7, <1>8, <1>9, <1>10, <1>11
     DEF Next, Rows, CheckTierByAPIKey, GenerateAPIKey

\* What the rows said stays said while an answer may rely on it.
LEMMA SaidKept ==
    ASSUME TypeOK, Next,
           NEW k \in Keys, NEW m \in Miners, NEW g \in Nat, NEW t \in Nat,
           Said(k, m, g, t), t <= now + TTL + SetDelay, now' <= t
    PROVE  Said(k, m, g, t)'
<1> USE ApiKeysAssumption DEF TypeOK
<1>1. ASSUME NEW n \in Miners, Closing(n),
             \A o \in Miners \ {n} : keyOf'[o] = keyOf[o] /\ grace'[o] = grace[o]
      PROVE  Said(k, m, g, t)'
  <2>1. held \subseteq held'
    BY <1>1 DEF Closing
  <2>2. CASE keyOf[m] = k /\ grace[m] = g /\ m = n
    <3> DEFINE h == [key |-> k, addr |-> m, grace |-> g, last |-> now]
    <3>1. h \in held'
      BY <1>1, <2>2 DEF Closing
    <3>2. t <= h.last + TTL + SetDelay
      OBVIOUS
    <3> QED
      BY <3>1, <3>2 DEF Said
  <2>3. CASE keyOf[m] = k /\ grace[m] = g /\ m # n
    BY <1>1, <2>3 DEF Said
  <2>4. CASE \E h \in held : /\ h.key = k /\ h.addr = m /\ h.grace = g
                             /\ t <= h.last + TTL + SetDelay
    BY <2>1, <2>4 DEF Said
  <2> QED
    BY <2>2, <2>3, <2>4 DEF Said
<1>2. CASE \E n \in Miners : Activate(n) \/ ResetRow(n)
  BY <1>1, <1>2 DEF Activate, ResetRow
<1>3. CASE Tick
  <2>1. CASE keyOf[m] = k /\ grace[m] = g
    BY <1>3, <2>1 DEF Tick, rowVars, Said
  <2>2. ASSUME NEW h \in held, h.key = k, h.addr = m, h.grace = g,
               t <= h.last + TTL + SetDelay
        PROVE  Said(k, m, g, t)'
    <3>1. h \in held'
      BY <1>3, <2>2 DEF Tick, Truths
    <3> QED
      BY <2>2, <3>1 DEF Said
  <2> QED
    BY <2>1, <2>2 DEF Said
<1>4. ASSUME NEW r \in Requests, StoreKey(r) PROVE Said(k, m, g, t)'
  <2>1. CASE UNCHANGED <<minted, keyOf, held>>
    BY <1>4, <2>1 DEF StoreKey, Said
  <2>2. ASSUME NEW x \in Keys, keyOf' = [keyOf EXCEPT ![request[r].addr] = x],
               Closing(request[r].addr)
        PROVE  Said(k, m, g, t)'
    <3>1. request[r].addr \in Miners
      BY <1>4 DEF StoreKey
    <3> QED
      BY <1>1, <1>4, <2>2, <3>1 DEF StoreKey
  <2> QED
    BY <1>4, <2>1, <2>2 DEF StoreKey
<1>5. CASE UNCHANGED <<keyOf, grace, held>>
  BY <1>5 DEF Said
<1> QED
  BY <1>2, <1>3, <1>4, <1>5
     DEF Next, Rows, CheckTierByAPIKey, GenerateAPIKey, GetCached, SelectByKey, SetCached,
         EndLookup, SelectRow, CheckPayment, rowVars

\* A step that leaves cache, clock and lookups alone may change the rows.
LEMMA RowsStep ==
    IInv /\ TypeOK' /\ Next /\ UNCHANGED <<cache, now, lookup>> => IInv'
<1> SUFFICES ASSUME IInv, TypeOK', Next, Watch, UNCHANGED <<cache, now, lookup>> PROVE IInv'
  BY DEF Next, Rows, CheckTierByAPIKey, GenerateAPIKey, Activate, ResetRow, Tick, GetCached,
         SelectByKey, SetCached, EndLookup, SelectRow, CheckPayment, StoreKey
<1> USE ApiKeysAssumption
<1>1. CacheInv'
  <2> SUFFICES ASSUME NEW k \in Keys, cache[k] # NoEntry
               PROVE  Said(k, cache[k].addr, cache[k].grace, cache[k].until)'
    BY DEF CacheInv, IInv
  <2>1. cache[k] \in Entries
    BY DEF IInv, TypeOK
  <2>2. /\ Said(k, cache[k].addr, cache[k].grace, cache[k].until)
        /\ now < cache[k].until /\ cache[k].until <= now + TTL
    BY DEF IInv, CacheInv
  <2> DEFINE m == cache[k].addr  g == cache[k].grace  t == cache[k].until
  <2>3. m \in Miners /\ g \in Nat /\ t \in Nat /\ now \in Nat
    BY <2>1 DEF Entries, IInv, TypeOK
  <2>4. m' = m /\ g' = g /\ t' = t
    OBVIOUS
  <2>5. t <= now + TTL + SetDelay /\ now' <= t
    BY <2>2, <2>3
  <2>6. TypeOK /\ Said(k, m, g, t)
    BY <2>2 DEF IInv
  <2> HIDE DEF m, g, t
  <2>7. Said(k, m, g, t)'
    BY <2>3, <2>4, <2>5, <2>6, SaidKept DEF Said
  <2> QED
    BY <2>7 DEF m, g, t
<1>2. LookupInv'
  <2> SUFFICES ASSUME NEW l \in Lookups, lookup[l].pc = "set"
               PROVE  Said(lookup[l].key, lookup[l].addr, lookup[l].grace,
                           lookup[l].at + TTL + SetDelay)'
    BY DEF LookupInv, IInv
  <2> DEFINE k == lookup[l].key  m == lookup[l].addr  g == lookup[l].grace
             t == lookup[l].at + TTL + SetDelay
  <2>1. k \in Keys /\ m \in Miners /\ g \in Nat /\ t \in Nat /\ now \in Nat
    BY DEF IInv, TypeOK, LookupStates, LookupInv
  <2>2. /\ Said(k, m, g, t) /\ TypeOK
        /\ t <= now + TTL + SetDelay /\ now' <= t
    BY DEF IInv, LookupInv, TypeOK, LookupStates
  <2>3. k' = k /\ m' = m /\ g' = g /\ t' = t
    OBVIOUS
  <2> HIDE DEF k, m, g, t
  <2>4. Said(k, m, g, t)'
    BY <2>1, <2>2, <2>3, SaidKept DEF Said
  <2> QED
    BY <2>4 DEF k, m, g, t
<1>3. AnswersAreRecent'
  <2> SUFFICES ASSUME NEW l \in Lookups, lookup[l].pc = "answered", lookup[l].addr # NoMiner
               PROVE  Said(lookup[l].key, lookup[l].addr, lookup[l].grace, now)'
    BY DEF AnswersAreRecent, IInv
  <2> DEFINE k == lookup[l].key  m == lookup[l].addr  g == lookup[l].grace
  <2>1. k \in Keys /\ m \in Miners /\ g \in Nat /\ now \in Nat
    BY DEF IInv, TypeOK, LookupStates
  <2>2. Said(k, m, g, now) /\ TypeOK
    BY DEF IInv, AnswersAreRecent
  <2>3. k' = k /\ m' = m /\ g' = g /\ now' = now
    OBVIOUS
  <2> HIDE DEF k, m, g
  <2>4. Said(k, m, g, now)'
    BY <2>1, <2>2, <2>3, SaidKept DEF Said
  <2> QED
    BY <2>4 DEF k, m, g
<1>4. LapsedInv' /\ PaymentTakesEffect'
  BY DEF Watch, LapsedInv, PaymentTakesEffect, IInv
<1> QED
  BY <1>1, <1>2, <1>3, <1>4 DEF IInv

\* A step of one lookup leaves the rows and the clock alone.
LEMMA LookupStep ==
    ASSUME IInv, TypeOK', Next, NEW l \in Lookups,
           GetCached(l) \/ SelectByKey(l) \/ SetCached(l) \/ EndLookup(l)
    PROVE  IInv'
<1> USE ApiKeysAssumption DEF IInv
<1>1. /\ UNCHANGED <<keyOf, grace, now, minted, held>> /\ Watch
      /\ \A x \in Lookups \ {l} : lookup'[x] = lookup[x]
      /\ lookup' \in [Lookups -> LookupStates] /\ lookup \in [Lookups -> LookupStates]
  BY DEF GetCached, SelectByKey, SetCached, EndLookup, rowVars, TypeOK
<1>2. \A k \in Keys, m \in Miners, g \in Nat, t \in Nat : Said(k, m, g, t)' <=> Said(k, m, g, t)
  BY <1>1 DEF Said
<1>3. LapsedInv /\ \A k \in Keys : IsPaid(k)' <=> IsPaid(k)
  BY <1>1 DEF IsPaid, IsActive
<1>4. ASSUME GetCached(l) PROVE IInv'
  <2>1. CacheInv'
    BY <1>1, <1>4 DEF GetCached, CacheInv, Said
  <2>2. PICK k \in minted :
          \/ /\ Hit(k)
             /\ lookup'[l] = [pc |-> "answered", key |-> k, at |-> now,
                             addr |-> cache[k].addr, grace |-> cache[k].grace,
                             paid |-> now < cache[k].grace]
          \/ lookup'[l] = [Idle EXCEPT !.pc = "select", !.key = k]
    BY <1>4 DEF GetCached, TypeOK
  <2>3. CASE /\ Hit(k)
             /\ lookup'[l] = [pc |-> "answered", key |-> k, at |-> now,
                             addr |-> cache[k].addr, grace |-> cache[k].grace,
                             paid |-> now < cache[k].grace]
    <3>1. k \in Keys /\ cache[k] \in Entries /\ now < cache[k].grace
      BY <2>3 DEF Hit, Cached, TypeOK
    <3>2. /\ now < cache[k].until
          /\ Said(k, cache[k].addr, cache[k].grace, cache[k].until)
      BY <2>3, <3>1 DEF Hit, Cached, CacheInv
    <3>3. Said(k, cache[k].addr, cache[k].grace, now)
      BY <3>1, <3>2 DEF Said, Entries, TypeOK, Truths
    <3> DEFINE p == now < cache[k].grace
    <3>0. lookup'[l] = [pc |-> "answered", key |-> k, at |-> now, addr |-> cache[k].addr,
                         grace |-> cache[k].grace, paid |-> p] /\ p
      BY <2>3, <3>1
    <3> HIDE DEF p
    <3>4. /\ lookup'[l].pc = "answered" /\ lookup'[l].key = k /\ lookup'[l].addr = cache[k].addr
          /\ lookup'[l].grace = cache[k].grace /\ lookup'[l].paid
      BY <3>0
    <3>5. Said(lookup[l].key, lookup[l].addr, lookup[l].grace, now)'
      BY <1>1, <3>3, <3>4 DEF Said
    <3>6. now' <= lookup'[l].grace + SetDelay
      BY <1>1, <3>1, <3>4 DEF Entries, TypeOK
    <3>7. AnswersAreRecent' /\ PaymentTakesEffect'
      BY <1>1, <3>4, <3>5, <3>6 DEF AnswersAreRecent, PaymentTakesEffect, Watch, Said
    <3>8. LookupInv' /\ LapsedInv'
      BY <1>1, <3>4 DEF LookupInv, LapsedInv, Watch, Said
    <3> QED
      BY <2>1, <3>7, <3>8
  <2>4. CASE lookup'[l] = [Idle EXCEPT !.pc = "select", !.key = k]
    <3>1. lookup'[l].pc = "select" /\ lookup'[l].addr = NoMiner /\ ~lookup'[l].paid
      BY <2>4 DEF Idle
    <3>2. LookupInv' /\ AnswersAreRecent'
      BY <1>1, <3>1 DEF LookupInv, AnswersAreRecent, Said
    <3>3. LapsedInv' /\ PaymentTakesEffect'
      BY <1>1, <1>3, <3>1 DEF LapsedInv, PaymentTakesEffect, Watch
    <3> QED
      BY <2>1, <3>2, <3>3
  <2> QED
    BY <2>2, <2>3, <2>4
<1>5. ASSUME SelectByKey(l) PROVE IInv'
  <2>1. CacheInv' /\ lookup[l].pc = "select" /\ lookup[l].key \in Keys
    BY <1>1, <1>5 DEF SelectByKey, CacheInv, Said, TypeOK
  <2>2. ASSUME NEW m \in Miners, keyOf[m] = lookup[l].key,
               lookup'[l] = [pc |-> "set", key |-> lookup[l].key, at |-> now,
                             addr |-> m, grace |-> grace[m], paid |-> IsActive(m)]
        PROVE  IInv'
    <3>1. /\ lookup'[l].pc = "set" /\ lookup'[l].key = lookup[l].key /\ lookup'[l].at = now
          /\ lookup'[l].addr = m /\ lookup'[l].grace = grace[m]
          /\ lookup'[l].paid = IsActive(m)
      BY <2>2
    <3>2. now \in Nat /\ grace[m] \in Nat
      BY DEF TypeOK
    <3>3. lookup'[l].paid => now < grace[m]
      BY <3>1 DEF IsActive
    <3>4. LookupInv'
      BY <1>1, <2>2, <3>1, <3>2, <3>3 DEF LookupInv, Said
    <3>5. ~lookup'[l].paid => l \in lapsed'
      <4> SUFFICES ASSUME ~lookup'[l].paid PROVE l \in lapsed'
        OBVIOUS
      <4>1. ~IsActive(m)
        BY <3>1
      <4>2. ~IsPaid(lookup[l].key)
        BY <2>1, <2>2, <4>1 DEF IsPaid, TypeOK
      <4>3. l \in lapsed
        BY <2>1, <4>2 DEF LapsedInv
      <4> QED
        BY <1>1, <3>1, <4>3 DEF Watch
    <3>6. LapsedInv' /\ AnswersAreRecent' /\ PaymentTakesEffect'
      BY <1>1, <3>1, <3>5 DEF LapsedInv, AnswersAreRecent, PaymentTakesEffect, Watch, Said
    <3> QED
      BY <2>1, <3>4, <3>6
  <2>3. CASE lookup'[l] = Idle
    BY <1>1, <2>1, <2>3
       DEF Idle, AnswersAreRecent, PaymentTakesEffect, LookupInv, LapsedInv, Watch, Said
  <2>4. CASE /\ \A m \in Miners : keyOf[m] # lookup[l].key
             /\ lookup'[l] = [lookup[l] EXCEPT !.pc = "answered"]
    <3>1. lookup[l].addr = NoMiner /\ ~IsPaid(lookup[l].key) /\ l \in lapsed
      BY <2>1, <2>4 DEF LookupInv, LapsedInv, IsPaid
    <3>2. lookup'[l].pc = "answered" /\ lookup'[l].addr = NoMiner
      BY <1>1, <2>4, <3>1 DEF LookupStates
    <3>3. l \in lapsed'
      BY <1>1, <3>1, <3>2 DEF Watch
    <3> QED
      BY <1>1, <2>1, <3>2, <3>3
         DEF AnswersAreRecent, PaymentTakesEffect, LookupInv, LapsedInv, Watch, Said
  <2> QED
    BY <1>5, <2>2, <2>3, <2>4 DEF SelectByKey, TypeOK
<1>6. ASSUME SetCached(l) PROVE IInv'
  <2>1. /\ lookup[l].pc = "set" /\ lookup[l].key \in Keys
        /\ lookup'[l] = [lookup[l] EXCEPT !.pc = "answered"]
        /\ \/ cache' = [cache EXCEPT ![lookup[l].key] = CacheValue(l)]
           \/ cache' = cache
    BY <1>6 DEF SetCached, TypeOK
  <2> DEFINE m == lookup[l].addr  g == lookup[l].grace
             t == lookup[l].at + TTL + SetDelay
  <2>2. /\ m \in Miners /\ g \in Nat /\ now \in Nat /\ lookup[l].at \in Nat
        /\ Said(lookup[l].key, m, g, t)
        /\ lookup[l].at <= now /\ now <= lookup[l].at + SetDelay
        /\ lookup[l].paid => lookup[l].at < g
    BY <1>1, <2>1 DEF LookupInv, LookupStates, TypeOK
  <2>3. \A u \in Nat : u <= t => Said(lookup[l].key, m, g, u)
    BY <2>2 DEF Said, TypeOK, Truths
  <2>4. CacheInv'
    <3> SUFFICES ASSUME NEW k \in Keys, cache'[k] # NoEntry
                 PROVE  /\ now < cache'[k].until /\ cache'[k].until <= now + TTL
                        /\ Said(k, cache[k].addr, cache[k].grace, cache[k].until)'
      BY <1>1 DEF CacheInv
    <3>1. CASE cache'[k] = cache[k]
      BY <1>1, <3>1 DEF CacheInv, Said
    <3>2. CASE k = lookup[l].key /\ cache'[k] = CacheValue(l)
      <4>1. cache'[k].addr = m /\ cache'[k].grace = g /\ cache'[k].until = now + TTL
        BY <3>2 DEF CacheValue
      <4>2. now + TTL \in Nat /\ now + TTL <= t
        BY <2>2
      <4>3. Said(k, m, g, now + TTL)
        BY <2>3, <3>2, <4>2
      <4>4. now < cache'[k].until /\ cache'[k].until <= now + TTL
        BY <2>2, <4>1
      <4> QED
        BY <1>1, <4>1, <4>3, <4>4 DEF Said
    <3> QED
      BY <2>1, <3>1, <3>2 DEF TypeOK
  <2>5. /\ lookup'[l].pc = "answered" /\ lookup'[l].key = lookup[l].key
        /\ lookup'[l].addr = m /\ lookup'[l].grace = g /\ lookup'[l].paid = lookup[l].paid
    BY <1>1, <2>1 DEF LookupStates
  <2>6. Said(lookup[l].key, m, g, now)
    BY <2>2, <2>3
  <2>7. Said(lookup[l].key, lookup[l].addr, lookup[l].grace, now)'
    BY <1>1, <2>5, <2>6 DEF Said
  <2>8. lookup'[l].paid => now' <= lookup'[l].grace + SetDelay
    BY <1>1, <2>2, <2>5
  <2>9. AnswersAreRecent'
    BY <1>1, <2>5, <2>7, <2>8 DEF AnswersAreRecent, Said
  <2>10. LookupInv'
    BY <1>1, <2>5 DEF LookupInv, Said
  <2>11. ~lookup'[l].paid => l \in lapsed'
    BY <1>1, <2>1, <2>5 DEF LapsedInv, Watch
  <2>12. LapsedInv' /\ PaymentTakesEffect'
    BY <1>1, <2>5, <2>11 DEF LapsedInv, PaymentTakesEffect, Watch
  <2> QED
    BY <2>4, <2>9, <2>10, <2>12
<1>7. ASSUME EndLookup(l) PROVE IInv'
  <2>1. CacheInv' /\ lookup'[l] = Idle
    BY <1>1, <1>7 DEF EndLookup, CacheInv, Said, TypeOK
  <2> QED
    BY <1>1, <2>1
       DEF Idle, AnswersAreRecent, PaymentTakesEffect, LookupInv, LapsedInv, Watch, Said
<1> QED
  BY <1>4, <1>5, <1>6, <1>7

\* Time passes.
LEMMA TickStep == IInv /\ TypeOK' /\ Tick => IInv'
<1> SUFFICES ASSUME IInv, TypeOK', Tick PROVE IInv'
  OBVIOUS
<1> USE ApiKeysAssumption DEF IInv
<1>1. /\ now \in Nat /\ now' = now + 1 /\ lookup' = lookup /\ Watch /\ Next
      /\ \A l \in Lookups : /\ lookup[l].pc # "answered"
                            /\ lookup[l].pc = "set" => now < lookup[l].at + SetDelay
  BY DEF Tick, TypeOK, Next
<1>2. CacheInv'
  <2> SUFFICES ASSUME NEW k \in Keys, cache'[k] # NoEntry
               PROVE  /\ now' < cache'[k].until /\ cache'[k].until <= now' + TTL
                      /\ Said(k, cache[k].addr, cache[k].grace, cache[k].until)'
    BY DEF CacheInv
  <2>1. cache'[k] = cache[k] /\ cache[k] \in Entries /\ now' < cache[k].until
    BY <1>1 DEF Tick, TypeOK, Entries, NoEntry
  <2> DEFINE m == cache[k].addr  g == cache[k].grace  t == cache[k].until
  <2>2. /\ m \in Miners /\ g \in Nat /\ t \in Nat /\ m' = m /\ g' = g /\ t' = t
        /\ Said(k, m, g, t) /\ t <= now + TTL /\ TypeOK
    BY <2>1 DEF CacheInv, Entries
  <2>3. t <= now + TTL + SetDelay /\ now' <= t /\ t <= now' + TTL
    BY <1>1, <2>1, <2>2
  <2> HIDE DEF m, g, t
  <2>4. Said(k, m, g, t)'
    BY <1>1, <2>2, <2>3, SaidKept DEF Said
  <2> QED
    BY <2>1, <2>3, <2>4 DEF m, g, t
<1>3. LookupInv'
  <2> SUFFICES ASSUME NEW l \in Lookups, lookup[l].pc = "set"
               PROVE  /\ lookup[l].at <= now' /\ now' <= lookup[l].at + SetDelay
                      /\ Said(lookup[l].key, lookup[l].addr, lookup[l].grace,
                              lookup[l].at + TTL + SetDelay)'
    BY <1>1 DEF LookupInv
  <2> DEFINE k == lookup[l].key  m == lookup[l].addr  g == lookup[l].grace
             t == lookup[l].at + TTL + SetDelay
  <2>1. k \in Keys /\ m \in Miners /\ g \in Nat /\ lookup[l].at \in Nat
    BY DEF TypeOK, LookupStates, LookupInv
  <2>2. /\ Said(k, m, g, t) /\ TypeOK /\ lookup[l].at <= now
    BY DEF LookupInv
  <2>3. lookup[l].at <= now' /\ now' <= lookup[l].at + SetDelay
    BY <1>1, <2>1, <2>2
  <2>4. t \in Nat /\ t <= now + TTL + SetDelay /\ now' <= t
    BY <1>1, <2>1, <2>2, <2>3
  <2>5. k' = k /\ m' = m /\ g' = g /\ t' = t
    BY <1>1
  <2> HIDE DEF k, m, g, t
  <2>6. Said(k, m, g, t)'
    BY <1>1, <2>1, <2>2, <2>4, <2>5, SaidKept DEF Said
  <2> QED
    BY <2>3, <2>6 DEF k, m, g, t
<1>4. AnswersAreRecent' /\ PaymentTakesEffect'
  BY <1>1 DEF AnswersAreRecent, PaymentTakesEffect
<1>5. LapsedInv'
  BY <1>1 DEF Watch, LapsedInv
<1> QED
  BY <1>2, <1>3, <1>4, <1>5

\* IInv holds of every behaviour.
THEOREM Inductive == Spec => []IInv
<1>1. Init => IInv
  BY ApiKeysAssumption
     DEF Init, IInv, TypeOK, CacheInv, LookupInv, LapsedInv, AnswersAreRecent,
         PaymentTakesEffect, Idle, IdleRequest, NoEntry, Entries, LookupStates, RequestStates
<1>2. IInv /\ [Next]_vars => IInv'
  <2> SUFFICES ASSUME IInv, [Next]_vars PROVE IInv'
    OBVIOUS
  <2>1. TypeOK'
    BY TypeStep DEF IInv
  <2>2. CASE Tick
    BY <2>1, <2>2, TickStep
  <2>3. ASSUME Next, NEW l \in Lookups, CheckTierByAPIKey(l) PROVE IInv'
    BY <2>1, <2>3, LookupStep DEF CheckTierByAPIKey
  <2>4. CASE Next /\ UNCHANGED <<cache, now, lookup>>
    BY <2>1, <2>4, RowsStep
  <2>5. CASE UNCHANGED vars
    BY <2>5 DEF vars, rowVars, IInv, TypeOK, CacheInv, LookupInv, LapsedInv, AnswersAreRecent,
                PaymentTakesEffect, Said, IsPaid, IsActive
  <2> QED
    BY <2>2, <2>3, <2>4, <2>5
       DEF Next, Rows, GenerateAPIKey, Activate, ResetRow, SelectRow, CheckPayment, StoreKey
<1> QED
  BY <1>1, <1>2, PTL DEF Spec

\* An API key and what it was worth are accepted for at most a TTL and the
\* delay of the cache write after the rows stopped saying so.
THEOREM KeysExpire == Spec => []AnswersAreRecent
<1> QED
  BY Inductive, PTL DEF IInv

\* A lookup never misses a subscription that was paid for all of its time.
THEOREM PaymentsShow == Spec => []PaymentTakesEffect
<1> QED
  BY Inductive, PTL DEF IInv

\* Every variable keeps its type, for all keys, lookups and time constants.
THEOREM TypeCorrect == Spec => []TypeOK
<1> QED
  BY Inductive, PTL DEF IInv
=============================================================================
