--------------------------- MODULE Payouts_proofs ---------------------------
(***************************************************************************)
(* The payments of a block are within its reward, and each is its miner's  *)
(* share at least, for every number of miners, all rates and every word    *)
(* size.  The loop needs induction over the finite set of miners, which is *)
(* had from minimal counterexamples: a nonempty set of subsets of a finite *)
(* set has a minimal member.                                               *)
(***************************************************************************)
EXTENDS Payouts, FiniteSetTheorems, WellFoundedInduction, TLAPS

-----------------------------------------------------------------------------
(* Sums over finite sets.                                                  *)

LEMMA MinimalSubset ==
    ASSUME NEW W, IsFiniteSet(W), NEW T, T \subseteq SUBSET W, T # {}
    PROVE  \E s \in T : \A t \in T : t \subseteq s => t = s
<1>1. IsWellFoundedOn(StrictSubsetOrdering(W), SUBSET W)
  BY FS_StrictSubsetOrderingWellFounded, FS_FiniteSubsetsOfFinite
<1>2. PICK s \in T : \A t \in T : ~ (<<t, s>> \in StrictSubsetOrdering(W))
  BY <1>1, WFMin
<1>3. ASSUME NEW t \in T, t \subseteq s  PROVE t = s
  BY <1>2, <1>3 DEF StrictSubsetOrdering
<1> QED
  BY <1>3

\* The member of a nonempty set that the sum takes out first, and a function that
\* assigns its sum to every subset of W.
One(s) == CHOOSE x \in s : TRUE
Sums(f, W, g) ==
    g = [s \in SUBSET W |-> IF s = {} THEN 0 ELSE f[One(s)] + g[s \ {One(s)}]]

LEMMA OneIsIn == ASSUME NEW s, s # {} PROVE One(s) \in s
  BY DEF One

LEMMA SumDefinition ==
    ASSUME NEW f, NEW W
    PROVE  SumFunctionOnSet(f, W) = (CHOOSE g : Sums(f, W, g))[W]
  BY DEF SumFunctionOnSet, FoldFunctionOnSet, MapThenFoldSet, Sums, One

LEMMA SumsAgree ==
    ASSUME NEW f, NEW V, NEW W, IsFiniteSet(W), NEW g, NEW h,
           Sums(f, V, g), Sums(f, W, h), NEW s, s \subseteq V, s \subseteq W
    PROVE  g[s] = h[s]
<1> DEFINE T == {t \in SUBSET W : t \subseteq V /\ g[t] # h[t]}
<1> SUFFICES ASSUME T # {} PROVE FALSE
  BY DEF T
<1>1. T \subseteq SUBSET W
  OBVIOUS
<1> HIDE DEF T
<1>2. PICK t \in T : \A u \in T : u \subseteq t => u = t
  BY <1>1, MinimalSubset
<1>3. t \in SUBSET W /\ t \in SUBSET V /\ g[t] # h[t]
  BY DEF T
<1>4. CASE t = {}
  <2>1. g[t] = 0 /\ h[t] = 0
    BY <1>3, <1>4 DEF Sums
  <2> QED
    BY <1>3, <2>1
<1>5. CASE t # {}
  <2> DEFINE u == t \ {One(t)}
  <2>1. g[t] = f[One(t)] + g[u] /\ h[t] = f[One(t)] + h[u]
    BY <1>3, <1>5 DEF Sums
  <2>2. u \subseteq t /\ u # t
    BY <1>5, OneIsIn
  <2>3. u \notin T
    BY <1>2, <2>2
  <2>4. g[u] = h[u]
    BY <1>3, <2>2, <2>3 DEF T
  <2> QED
    BY <1>3, <2>1, <2>4
<1> QED
  BY <1>4, <1>5

LEMMA SumsExist ==
    ASSUME NEW f, NEW W, IsFiniteSet(W)
    PROVE  \E g : Sums(f, W, g)
<1> DEFINE T == {s \in SUBSET W : ~ \E g : Sums(f, s, g)}
<1> SUFFICES ASSUME T # {} PROVE FALSE
  BY DEF T
<1>1. T \subseteq SUBSET W
  OBVIOUS
<1> HIDE DEF T
<1>2. PICK s \in T : \A t \in T : t \subseteq s => t = s
  BY <1>1, MinimalSubset
<1>3. s \in SUBSET W /\ ~ \E g : Sums(f, s, g)
  BY DEF T
<1> DEFINE G(t) == CHOOSE g : Sums(f, t, g)
           Less(t) == t \ {One(t)}
           g == [t \in SUBSET s |-> IF t = {} THEN 0 ELSE f[One(t)] + G(Less(t))[Less(t)]]
<1>4. ASSUME NEW t \in SUBSET s, t # s  PROVE Sums(f, t, G(t)) /\ IsFiniteSet(t)
  <2>1. t \in SUBSET W /\ t \notin T
    BY <1>2, <1>3, <1>4
  <2>2. \E h : Sums(f, t, h)
    BY <2>1 DEF T
  <2> QED
    BY <2>1, <2>2, FS_Subset
<1>5. ASSUME NEW t \in SUBSET s, t # {}  PROVE g[Less(t)] = G(Less(t))[Less(t)]
  <2> DEFINE u == Less(t)
  <2>1. u \in SUBSET s /\ u # s
    BY <1>5, OneIsIn
  <2>2. Sums(f, u, G(u)) /\ IsFiniteSet(u)
    BY <1>4, <2>1
  <2>3. CASE u = {}
    <3>1. G(u)[u] = 0
      BY <2>2, <2>3 DEF Sums
    <3> QED
      BY <2>1, <2>3, <3>1
  <2>4. CASE u # {}
    <3>1. G(u)[u] = f[One(u)] + G(u)[Less(u)]
      BY <2>2, <2>4 DEF Sums
    <3>2. Less(u) \in SUBSET s /\ Less(u) # s /\ Less(u) \subseteq u
      BY <2>1
    <3>3. Sums(f, Less(u), G(Less(u))) /\ IsFiniteSet(Less(u))
      BY <1>4, <3>2
    <3> HIDE DEF G, Less
    <3>4. G(u)[Less(u)] = G(Less(u))[Less(u)]
      BY <2>2, <3>2, <3>3, SumsAgree
    <3>5. g[u] = f[One(u)] + G(Less(u))[Less(u)]
      BY <2>1, <2>4
    <3> QED
      BY <3>1, <3>4, <3>5
  <2> QED
    BY <2>3, <2>4
<1>6. ASSUME NEW t \in SUBSET s, t # {}  PROVE g[t] = f[One(t)] + g[Less(t)]
  <2> HIDE DEF G, Less
  <2> QED
    BY <1>5, <1>6
<1>7. ASSUME NEW t \in SUBSET s, t = {}  PROVE g[t] = 0
  BY <1>7
<1>8. g = [t \in SUBSET s |-> IF t = {} THEN 0 ELSE f[One(t)] + g[Less(t)]]
  <2>1. g = [t \in SUBSET s |-> g[t]]
    OBVIOUS
  <2> HIDE DEF g, Less
  <2> QED
    BY <1>6, <1>7, <2>1
<1> HIDE DEF g
<1> QED
  BY <1>3, <1>8 DEF Sums

\* A sum is that of its first member and the rest.
LEMMA SumUnfolds ==
    ASSUME NEW f, NEW W, IsFiniteSet(W)
    PROVE  /\ SumFunctionOnSet(f, {}) = 0
           /\ W # {} => SumFunctionOnSet(f, W)
                            = f[One(W)] + SumFunctionOnSet(f, W \ {One(W)})
<1> DEFINE G(V) == CHOOSE g : Sums(f, V, g)
<1>1. ASSUME NEW V, IsFiniteSet(V)
      PROVE  Sums(f, V, G(V)) /\ SumFunctionOnSet(f, V) = G(V)[V]
  <2>1. \E g : Sums(f, V, g)
    BY <1>1, SumsExist
  <2>2. SumFunctionOnSet(f, V) = G(V)[V]
    BY SumDefinition
  <2> QED
    BY <2>1, <2>2
<1> HIDE DEF G
<1>2. SumFunctionOnSet(f, {}) = 0
  BY <1>1, FS_EmptySet DEF Sums
<1>3. ASSUME W # {}
      PROVE  SumFunctionOnSet(f, W) = f[One(W)] + SumFunctionOnSet(f, W \ {One(W)})
  <2> DEFINE V == W \ {One(W)}
  <2>1. V \subseteq W /\ IsFiniteSet(V)
    BY FS_Subset
  <2>2. G(W)[W] = f[One(W)] + G(W)[V]
    BY <1>1, <1>3 DEF Sums
  <2>3. Sums(f, V, G(V)) /\ Sums(f, W, G(W))
    BY <1>1, <2>1
  <2>4. G(W)[V] = G(V)[V]
    BY <2>1, <2>3, SumsAgree
  <2> QED
    BY <1>1, <2>1, <2>2, <2>4
<1> QED
  BY <1>2, <1>3

LEMMA SumIsNatural ==
    ASSUME NEW f, NEW W, IsFiniteSet(W), \A x \in W : f[x] \in Nat
    PROVE  SumFunctionOnSet(f, W) \in Nat
<1> DEFINE T == {s \in SUBSET W : SumFunctionOnSet(f, s) \notin Nat}
<1> SUFFICES ASSUME T # {} PROVE FALSE
  BY DEF T
<1>1. T \subseteq SUBSET W
  OBVIOUS
<1> HIDE DEF T
<1>2. PICK s \in T : \A t \in T : t \subseteq s => t = s
  BY <1>1, MinimalSubset
<1>3. s \in SUBSET W /\ IsFiniteSet(s) /\ SumFunctionOnSet(f, s) \notin Nat
  BY FS_Subset DEF T
<1>4. s # {}
  <2>1. SumFunctionOnSet(f, {}) = 0
    BY SumUnfolds
  <2> QED
    BY <1>3, <2>1
<1> DEFINE t == s \ {One(s)}
<1>5. One(s) \in s /\ t \in SUBSET W /\ t \subseteq s /\ t # s
  BY <1>3, <1>4, OneIsIn
<1>6. SumFunctionOnSet(f, t) \in Nat
  BY <1>2, <1>5 DEF T
<1>7. SumFunctionOnSet(f, s) = f[One(s)] + SumFunctionOnSet(f, t)
  BY <1>3, <1>4, SumUnfolds
<1>8. f[One(s)] \in Nat
  BY <1>3, <1>5
<1> QED
  BY <1>3, <1>6, <1>7, <1>8

\* ... and of any other member and the rest: the order does not matter.
LEMMA SumTakesOut ==
    ASSUME NEW f, NEW W, IsFiniteSet(W), \A x \in W : f[x] \in Nat, NEW x \in W
    PROVE  SumFunctionOnSet(f, W) = f[x] + SumFunctionOnSet(f, W \ {x})
<1> DEFINE Sum(s) == SumFunctionOnSet(f, s)
           T == {s \in SUBSET W : \E y \in s : Sum(s) # f[y] + Sum(s \ {y})}
<1> SUFFICES ASSUME T # {} PROVE FALSE
  BY DEF T
<1>1. T \subseteq SUBSET W
  OBVIOUS
<1> HIDE DEF T, Sum
<1>2. PICK s \in T : \A t \in T : t \subseteq s => t = s
  BY <1>1, MinimalSubset
<1>3. PICK y \in s : Sum(s) # f[y] + Sum(s \ {y})
  BY DEF T
<1> DEFINE z == One(s)
<1>4. s \in SUBSET W /\ s # {} /\ z \in s
  BY <1>3, OneIsIn DEF T
<1>5. IsFiniteSet(s)
  BY <1>4, FS_Subset
<1>6. Sum(s) = f[z] + Sum(s \ {z})
  BY <1>4, <1>5, SumUnfolds DEF Sum
<1> HIDE DEF z
<1>7. y # z
  BY <1>3, <1>6
<1> DEFINE rest == (s \ {y}) \ {z}
<1>8. s \ {z} \in SUBSET W /\ s \ {z} # s /\ s \ {y} \in SUBSET W /\ s \ {y} # s
  BY <1>3, <1>4
<1>9. Sum(s \ {z}) = f[y] + Sum(rest)
  <2>1. s \ {z} \notin T
    BY <1>2, <1>8
  <2>2. y \in s \ {z} /\ (s \ {z}) \ {y} = rest
    BY <1>7
  <2> QED
    BY <1>8, <2>1, <2>2 DEF T
<1>10. Sum(s \ {y}) = f[z] + Sum(rest)
  <2>1. s \ {y} \notin T
    BY <1>2, <1>8
  <2>2. z \in s \ {y}
    BY <1>4, <1>7
  <2> QED
    BY <1>8, <2>1, <2>2 DEF T
<1>11. Sum(rest) \in Nat
  <2>1. rest \subseteq W /\ IsFiniteSet(rest)
    BY <1>4, FS_Subset
  <2> QED
    BY <2>1, SumIsNatural DEF Sum
<1>12. f[y] \in Nat /\ f[z] \in Nat
  BY <1>3, <1>4
<1> QED
  BY <1>3, <1>6, <1>9, <1>10, <1>11, <1>12

\* Only the values at the members matter.
LEMMA SumIsOfValues ==
    ASSUME NEW f, NEW g, NEW W, IsFiniteSet(W), \A x \in W : f[x] = g[x]
    PROVE  SumFunctionOnSet(f, W) = SumFunctionOnSet(g, W)
<1> DEFINE T == {s \in SUBSET W : SumFunctionOnSet(f, s) # SumFunctionOnSet(g, s)}
<1> SUFFICES ASSUME T # {} PROVE FALSE
  BY DEF T
<1>1. T \subseteq SUBSET W
  OBVIOUS
<1> HIDE DEF T
<1>2. PICK s \in T : \A t \in T : t \subseteq s => t = s
  BY <1>1, MinimalSubset
<1>3. s \in SUBSET W /\ IsFiniteSet(s) /\ SumFunctionOnSet(f, s) # SumFunctionOnSet(g, s)
  BY FS_Subset DEF T
<1>4. s # {}
  BY <1>3, SumUnfolds
<1> DEFINE t == s \ {One(s)}
<1>5. One(s) \in s /\ t \in SUBSET W /\ t \subseteq s /\ t # s
  BY <1>3, <1>4, OneIsIn
<1>6. SumFunctionOnSet(f, t) = SumFunctionOnSet(g, t)
  BY <1>2, <1>5 DEF T
<1>7. /\ SumFunctionOnSet(f, s) = f[One(s)] + SumFunctionOnSet(f, t)
      /\ SumFunctionOnSet(g, s) = g[One(s)] + SumFunctionOnSet(g, t)
  BY <1>3, <1>4, SumUnfolds
<1> QED
  BY <1>3, <1>5, <1>6, <1>7

\* A part sums to no more than the whole.
LEMMA SumGrows ==
    ASSUME NEW f, NEW W, IsFiniteSet(W), \A x \in W : f[x] \in Nat, NEW V, V \subseteq W
    PROVE  SumFunctionOnSet(f, V) <= SumFunctionOnSet(f, W)
<1> DEFINE T == {s \in SUBSET W : /\ V \subseteq s
                                  /\ ~ (SumFunctionOnSet(f, V) <= SumFunctionOnSet(f, s))}
<1> SUFFICES ASSUME T # {} PROVE FALSE
  BY DEF T
<1>1. T \subseteq SUBSET W
  OBVIOUS
<1> HIDE DEF T
<1>2. PICK s \in T : \A t \in T : t \subseteq s => t = s
  BY <1>1, MinimalSubset
<1>3. /\ s \in SUBSET W /\ V \subseteq s /\ IsFiniteSet(s) /\ IsFiniteSet(V)
      /\ ~ (SumFunctionOnSet(f, V) <= SumFunctionOnSet(f, s))
  BY FS_Subset DEF T
<1>4. SumFunctionOnSet(f, V) \in Nat
  BY <1>3, SumIsNatural
<1>5. PICK x \in s : x \notin V
  BY <1>3, <1>4
<1> DEFINE t == s \ {x}
<1>6. t \in SUBSET W /\ V \subseteq t /\ t \subseteq s /\ t # s /\ IsFiniteSet(t)
  BY <1>3, <1>5, FS_Subset
<1>7. SumFunctionOnSet(f, V) <= SumFunctionOnSet(f, t)
  BY <1>2, <1>6 DEF T
<1>8. SumFunctionOnSet(f, s) = f[x] + SumFunctionOnSet(f, t)
  BY <1>3, SumTakesOut
<1>9. SumFunctionOnSet(f, t) \in Nat /\ f[x] \in Nat
  BY <1>3, <1>5, <1>6, SumIsNatural
<1> QED
  BY <1>3, <1>4, <1>7, <1>8, <1>9

-----------------------------------------------------------------------------
(* The arithmetic of a share and of the remainder.                         *)

LEMMA WordOf ==
    ASSUME NEW x \in Nat, NEW w \in Nat \ {0}
    PROVE  x % w \in 0..(w - 1) /\ x % w <= x
  BY SMT

LEMMA WordKeeps ==
    ASSUME NEW w \in Nat \ {0}, NEW x \in 0..(w - 1)
    PROVE  x % w = x /\ (x + w) % w = x
<1>1. x % w = x
  BY SMT
<1>2. (x + w) % w = x
  BY SMT
<1> QED
  BY <1>1, <1>2

LEMMA QuotientOf ==
    ASSUME NEW x \in Nat, NEW p \in Nat \ {0}
    PROVE  x \div p \in Nat /\ (x \div p) * p <= x /\ x < (x \div p) * p + p
  BY SMT

LEMMA QuotientIsWord ==
    ASSUME NEW w \in Nat \ {0}, NEW x \in 0..(w - 1), NEW p \in Nat \ {0}
    PROVE  x \div p \in 0..(w - 1)
  BY SMT

LEMMA ProductGrows ==
    ASSUME NEW x \in Nat, NEW y \in Nat, NEW z \in Nat, x <= y
    PROVE  x * z <= y * z
  BY SMT

LEMMA FactorOf ==
    ASSUME NEW x \in Nat, NEW y \in Nat, NEW z \in Nat \ {0}, x * z <= y * z
    PROVE  x <= y
  BY SMT

LEMMA Distributes ==
    ASSUME NEW x \in Nat, NEW y \in Nat, NEW z \in Nat
    PROVE  (x + y) * z = x * z + y * z /\ x * z \in Nat /\ x * z = z * x
  BY SMT

-----------------------------------------------------------------------------
(* The loop.                                                               *)

\* The values of a state of the right types.
LEMMA PayoutValues ==
    ASSUME PayoutTypeOK
    PROVE  /\ IsFiniteSet(Local) /\ IsFiniteSet(todo) /\ IsFiniteSet(Done)
           /\ WordSize \in Nat \ {0} /\ poolRate \in Nat
           /\ reward \in Nat /\ reward \in 0..(WordSize - 1)
           /\ distributed \in Nat /\ distributed \in 0..(WordSize - 1)
           /\ \A m \in Local : rate[m] \in Nat
           /\ \A m \in Done : payment[m] \in Nat
           /\ DOMAIN payment = Done
<1>1. IsFiniteSet(Local) /\ IsFiniteSet(todo) /\ IsFiniteSet(Done)
  BY PayoutAssumption, FS_Subset DEF PayoutTypeOK, Done
<1>2. \A x \in Rates \cup PoolRates \cup Rewards : x \in Nat /\ x \in 0..(WordSize - 1)
  BY PayoutAssumption
<1>3. WordSize \in Nat \ {0}
  BY PayoutAssumption
<1>4. \A m \in Local : rate[m] \in Nat
  BY <1>2 DEF PayoutTypeOK
<1>5. \A m \in Done : payment[m] \in Nat
  BY <1>3 DEF PayoutTypeOK, Done
<1>6. poolRate \in Nat /\ reward \in Nat /\ reward \in 0..(WordSize - 1)
  BY <1>2 DEF PayoutTypeOK
<1>7. distributed \in Nat /\ distributed \in 0..(WordSize - 1) /\ DOMAIN payment = Done
  BY <1>3 DEF PayoutTypeOK, Done
<1> QED
  BY <1>1, <1>3, <1>4, <1>5, <1>6, <1>7

LEMMA NothingIsPaidYet == SumFunction(<<>>) = 0
<1>1. DOMAIN <<>> = {}
  OBVIOUS
<1> QED
  BY <1>1, FS_EmptySet, SumUnfolds DEF SumFunction

LEMMA PayoutInitial == PayoutInit => PayoutInv
<1> SUFFICES ASSUME PayoutInit PROVE PayoutInv
  OBVIOUS
<1>1. PayoutTypeOK
  <2>1. rate \in [Local -> Rates] /\ Local \subseteq Miners
    BY DEF PayoutInit, Local
  <2>2. payment \in [Local \ todo -> 0..(WordSize - 1)]
    <3>1. Local \ todo = {} /\ payment = <<>>
      BY DEF PayoutInit
    <3>2. <<>> \in [{} -> 0..(WordSize - 1)]
      OBVIOUS
    <3> QED
      BY <3>1, <3>2
  <2>3. distributed \in 0..(WordSize - 1)
    BY PayoutAssumption DEF PayoutInit
  <2> QED
    BY <2>1, <2>2, <2>3 DEF PayoutInit, PayoutTypeOK
<1>2. Done = {} /\ distributed = 0 /\ SumFunction(payment) = 0
  BY NothingIsPaidYet DEF PayoutInit, Done
<1>3. SumFunctionOnSet(rate, Done) = 0 /\ Cardinality(Done) = 0
  BY <1>2, FS_EmptySet, SumUnfolds
<1>4. PaidSoFar
  BY <1>1, <1>2, <1>3, PayoutValues DEF PaidSoFar, PayoutInit
<1>5. ~ Returned
  BY DEF PayoutInit, Returned
<1> QED
  BY <1>1, <1>4, <1>5
  DEF PayoutInv, SharesWithinReward, ProportionalWithinWord, Proportional

LEMMA AmountIsWord ==
    ASSUME PayoutTypeOK, poolRate > 0, NEW m \in Local
    PROVE  Amount(m) \in 0..(WordSize - 1)
<1>1. /\ WordSize \in Nat \ {0} /\ poolRate \in Nat \ {0}
      /\ reward + WordSize - distributed \in Nat /\ rate[m] * reward \in Nat
  BY PayoutValues, Distributes
<1>2. Remainder \in 0..(WordSize - 1)
  BY <1>1, WordOf DEF Remainder
<1>3. (rate[m] * reward) % WordSize \in 0..(WordSize - 1)
  BY <1>1, WordOf
<1>4. Share(m) \in 0..(WordSize - 1)
  BY <1>1, <1>3, QuotientIsWord DEF Share
<1> QED
  BY <1>2, <1>4 DEF Amount

LEMMA PayoutTypeStep ==
    ASSUME PayoutTypeOK, NEW m, PayMiner(m)
    PROVE  PayoutTypeOK'
<1>1. m \in Local /\ UNCHANGED <<rate, poolRate, reward, Local>> /\ todo' \subseteq Local
  BY DEF PayMiner, PayoutTypeOK, Local
<1>2. Amount(m) \in 0..(WordSize - 1)
  BY <1>1, AmountIsWord DEF PayMiner
<1>3. payment' \in [Local \ todo' -> 0..(WordSize - 1)]
  <2>1. \A n \in Local \ todo' : n # m => n \in Local \ todo
    BY DEF PayMiner
  <2> QED
    BY <1>2, <2>1 DEF PayMiner, PayoutTypeOK
<1>4. distributed' \in 0..(WordSize - 1)
  <2>1. distributed + Amount(m) \in Nat /\ WordSize \in Nat \ {0}
    BY <1>2, PayoutValues
  <2> QED
    BY <2>1, WordOf DEF PayMiner
<1> QED
  BY <1>1, <1>3, <1>4 DEF PayoutTypeOK

\* A turn moves one miner, its rate and its amount to what is done.
LEMMA TurnAdds ==
    ASSUME PayoutTypeOK, NEW m, PayMiner(m)
    PROVE  /\ m \in Local /\ m \notin Done /\ Done' = Done \cup {m}
           /\ UNCHANGED <<rate, poolRate, reward, Local, LocalRate>> /\ poolRate \in Nat \ {0}
           /\ SumFunctionOnSet(rate, Done') = SumFunctionOnSet(rate, Done) + rate[m]
           /\ SumFunctionOnSet(rate, Done') <= LocalRate
           /\ SumFunctionOnSet(rate, Done) \in Nat /\ LocalRate \in Nat
           /\ SumFunction(payment') = SumFunction(payment) + Amount(m)
           /\ payment'[m] = Amount(m) /\ \A n \in Done : payment'[n] = payment[n]
           /\ Cardinality(Done') = Cardinality(Done) + 1 /\ Cardinality(Done) \in Nat
           /\ Cardinality(Done') <= Cardinality(Local) /\ Cardinality(Local) \in Nat
<1>1. /\ m \in Local /\ m \notin Done /\ Done' = Done \cup {m}
      /\ UNCHANGED <<rate, poolRate, reward, Local>> /\ poolRate \in Nat \ {0}
  BY PayoutValues DEF PayMiner, PayoutTypeOK, Local, Done
<1>2. UNCHANGED LocalRate
  BY <1>1 DEF LocalRate
<1>3. Done \subseteq Local /\ Done' \subseteq Local /\ Done' \ {m} = Done
  BY <1>1 DEF Done
<1>4. IsFiniteSet(Local) /\ IsFiniteSet(Done) /\ IsFiniteSet(Done')
  BY <1>3, PayoutValues, FS_Subset
<1>5. /\ \A n \in Local : rate[n] \in Nat
      /\ \A n \in Done : rate[n] \in Nat
      /\ \A n \in Done' : rate[n] \in Nat
  BY <1>3, PayoutValues
<1>6. /\ SumFunctionOnSet(rate, Done) \in Nat /\ SumFunctionOnSet(rate, Local) \in Nat
      /\ SumFunctionOnSet(rate, Done') <= SumFunctionOnSet(rate, Local)
  BY <1>3, <1>4, <1>5, SumIsNatural, SumGrows
<1>7. SumFunctionOnSet(rate, Done') = rate[m] + SumFunctionOnSet(rate, Done)
  <2>1. m \in Done'
    BY <1>1
  <2> QED
    BY <1>3, <1>4, <1>5, <2>1, SumTakesOut
<1>8. LocalRate = SumFunctionOnSet(rate, Local)
  BY DEF LocalRate, SumFunction, Local
<1>9. payment'[m] = Amount(m) /\ \A n \in Done : payment'[n] = payment[n]
  BY <1>1 DEF PayMiner, Done
<1>10. SumFunction(payment') = SumFunction(payment) + Amount(m)
  <2>1. DOMAIN payment' = Done' /\ DOMAIN payment = Done
    BY PayoutTypeStep, PayoutValues DEF PayoutTypeOK, Done
  <2>2. Amount(m) \in Nat
    BY <1>1, AmountIsWord, PayoutValues
  <2>3. \A n \in Done' : payment'[n] \in Nat
    BY <1>1, <1>9, <2>2, PayoutValues
  <2>4. SumFunctionOnSet(payment', Done') = payment'[m] + SumFunctionOnSet(payment', Done)
    <3>1. m \in Done'
      BY <1>1
    <3> QED
      BY <1>3, <1>4, <2>3, <3>1, SumTakesOut
  <2>5. SumFunctionOnSet(payment', Done) = SumFunctionOnSet(payment, Done)
    BY <1>4, <1>9, SumIsOfValues
  <2>6. SumFunctionOnSet(payment, Done) \in Nat
    BY <1>4, PayoutValues, SumIsNatural
  <2> QED
    BY <1>9, <2>1, <2>2, <2>4, <2>5, <2>6 DEF SumFunction
<1>11. /\ Cardinality(Done') = Cardinality(Done) + 1 /\ Cardinality(Done) \in Nat
       /\ Cardinality(Done') <= Cardinality(Local) /\ Cardinality(Local) \in Nat
  BY <1>1, <1>3, <1>4, FS_AddElement, FS_CardinalityType, FS_Subset
<1> QED
  BY <1>1, <1>2, <1>5, <1>6, <1>7, <1>8, <1>9, <1>10, <1>11

\* A share is rounded down from what the rate earns, unless the product wraps.
LEMMA ShareIsRoundedDown ==
    ASSUME PayoutTypeOK, poolRate \in Nat \ {0}, NEW m \in Local
    PROVE  /\ Share(m) \in Nat /\ Share(m) * poolRate <= rate[m] * reward
           /\ WithinWord => rate[m] * reward < Share(m) * poolRate + poolRate
<1> DEFINE product == rate[m] * reward
           word == product % WordSize
<1>1. product \in Nat /\ WordSize \in Nat \ {0}
  BY PayoutValues, Distributes
<1>2. WithinWord => product < WordSize
  BY DEF WithinWord
<1> HIDE DEF product
<1>3. word \in Nat /\ word <= product /\ (WithinWord => word = product)
  BY <1>1, <1>2, WordOf, WordKeeps
<1>4. Share(m) = word \div poolRate
  BY DEF Share, product
<1> HIDE DEF word
<1>5. /\ Share(m) \in Nat /\ Share(m) * poolRate <= word
      /\ word < Share(m) * poolRate + poolRate
  BY <1>3, <1>4, QuotientOf
<1>6. Share(m) * poolRate \in Nat
  BY <1>5, Distributes
<1> QED
  BY <1>1, <1>3, <1>5, <1>6 DEF product

\* What is done earns no more than the reward as long as the pool-wide rate is not
\* below the sum.
LEMMA EarnedIsInReward ==
    ASSUME PayoutTypeOK, poolRate \in Nat \ {0}, NEW paid \in Nat, NEW sum \in Nat,
           sum <= poolRate, paid * poolRate <= sum * reward
    PROVE  paid <= reward
<1>1. sum * reward <= poolRate * reward
  BY PayoutValues, ProductGrows
<1>2. poolRate * reward = reward * poolRate /\ reward * poolRate \in Nat
      /\ paid * poolRate \in Nat /\ sum * reward \in Nat
  BY PayoutValues, Distributes
<1>3. paid * poolRate <= reward * poolRate
  BY <1>1, <1>2
<1> QED
  BY <1>3, PayoutValues, FactorOf

\* A turn that is not the last pays a share.
LEMMA EarlyTurn ==
    ASSUME PayoutInv, NEW m, PayMiner(m), todo # {m}, LocalRate <= poolRate
    PROVE  /\ distributed' = SumFunction(payment')
           /\ distributed' * poolRate <= SumFunctionOnSet(rate, Done') * reward
           /\ WithinWord =>
                 /\ SumFunctionOnSet(rate, Done') * reward
                       <= (distributed' + Cardinality(Done')) * poolRate
                 /\ \A n \in Done' : WithinDust(n)' /\ AtLeastShare(n)'
<1> DEFINE sum == SumFunctionOnSet(rate, Done)
           card == Cardinality(Done)
           p == poolRate
           paid == distributed + Share(m)
<1>1. PayoutTypeOK /\ m \in todo /\ todo # {}
  BY DEF PayoutInv, PayMiner
<1>2. /\ distributed = SumFunction(payment) /\ distributed * p <= sum * reward
      /\ WithinWord => /\ sum * reward <= (distributed + card) * p
                       /\ \A n \in Done : WithinDust(n) /\ AtLeastShare(n)
  BY <1>1 DEF PayoutInv, PaidSoFar
<1>3. /\ m \in Local /\ m \notin Done /\ Done' = Done \cup {m}
      /\ UNCHANGED <<rate, poolRate, reward, Local, LocalRate>> /\ p \in Nat \ {0}
      /\ SumFunctionOnSet(rate, Done') = sum + rate[m]
      /\ SumFunctionOnSet(rate, Done') <= LocalRate
      /\ sum \in Nat /\ LocalRate \in Nat
      /\ SumFunction(payment') = SumFunction(payment) + Amount(m)
      /\ payment'[m] = Amount(m) /\ \A n \in Done : payment'[n] = payment[n]
      /\ Cardinality(Done') = card + 1 /\ card \in Nat
      /\ Cardinality(Done') <= Cardinality(Local) /\ Cardinality(Local) \in Nat
  BY <1>1, TurnAdds
<1>4. Amount(m) = Share(m)
  BY DEF Amount, PayoutInv
<1>5. /\ distributed \in Nat /\ reward \in Nat /\ reward \in 0..(WordSize - 1)
      /\ WordSize \in Nat \ {0} /\ rate[m] \in Nat
  BY <1>1, <1>3, PayoutValues
<1>6. /\ Share(m) \in Nat /\ Share(m) * p <= rate[m] * reward
      /\ WithinWord => rate[m] * reward < Share(m) * p + p
  BY <1>1, <1>3, ShareIsRoundedDown
<1>7. /\ distributed * p \in Nat /\ Share(m) * p \in Nat /\ paid * p = distributed * p + Share(m) * p
      /\ sum * reward \in Nat /\ rate[m] * reward \in Nat
      /\ (sum + rate[m]) * reward = sum * reward + rate[m] * reward
  BY <1>3, <1>5, <1>6, Distributes
<1>8. paid * p <= (sum + rate[m]) * reward
  BY <1>2, <1>6, <1>7
<1>9. paid <= reward
  <2>1. paid \in Nat /\ sum + rate[m] \in Nat /\ sum + rate[m] <= p
    BY <1>3, <1>5, <1>6
  <2> HIDE DEF sum, paid
  <2> QED
    BY <1>1, <1>3, <1>8, <2>1, EarnedIsInReward
<1>10. distributed' = paid
  <2>1. paid \in 0..(WordSize - 1)
    BY <1>5, <1>6, <1>9
  <2>2. distributed' = paid % WordSize
    BY <1>4 DEF PayMiner
  <2> HIDE DEF paid
  <2> QED
    BY <1>5, <2>1, <2>2, WordKeeps
<1>11. distributed' = SumFunction(payment')
  BY <1>2, <1>3, <1>4, <1>10
<1>12. distributed' * p <= SumFunctionOnSet(rate, Done') * reward
  BY <1>3, <1>8, <1>10
<1>13. ASSUME WithinWord
       PROVE  /\ SumFunctionOnSet(rate, Done') * reward <= (distributed' + Cardinality(Done')) * p
              /\ \A n \in Done' : WithinDust(n)' /\ AtLeastShare(n)'
  <2>1. SumFunctionOnSet(rate, Done') * reward <= (distributed' + Cardinality(Done')) * p
    <3>1. /\ (distributed + card) * p = distributed * p + card * p
          /\ (paid + (card + 1)) * p = paid * p + (card + 1) * p
          /\ (card + 1) * p = card * p + 1 * p
          /\ card * p \in Nat /\ 1 * p = p
      BY <1>3, <1>5, <1>6, Distributes
    <3>2. sum * reward <= distributed * p + card * p /\ rate[m] * reward < Share(m) * p + p
      BY <1>2, <1>6, <1>13, <3>1
    <3>3. (paid + (card + 1)) * p = (distributed * p + Share(m) * p) + (card * p + p)
      BY <1>7, <3>1
    <3>4. sum * reward + rate[m] * reward
            <= (distributed * p + Share(m) * p) + (card * p + p)
      <4>1. \A a, b, c, d, e, f \in Nat :
              a <= c + e /\ b < d + f => a + b <= (c + d) + (e + f)
        OBVIOUS
      <4> QED
        BY <1>3, <1>7, <3>1, <3>2, <4>1
    <3> QED
      BY <1>3, <1>7, <1>10, <3>3, <3>4
  <2>2. ASSUME NEW n \in Done  PROVE WithinDust(n)'
    BY <1>2, <1>3, <1>13 DEF WithinDust
  <2>3. WithinDust(m)'
    <3> DEFINE dust == Cardinality(Local) * p
    <3>1. dust \in Nat /\ p <= dust
      <4>1. 1 <= Cardinality(Local) /\ 1 * p = p
        BY <1>3
      <4>2. 1 * p <= Cardinality(Local) * p
        BY <1>3, <4>1, ProductGrows
      <4>3. Cardinality(Local) * p \in Nat
        BY <1>3, Distributes
      <4> QED
        BY <4>1, <4>2, <4>3
    <3>2. rate[m] * reward < Share(m) * p + dust /\ Share(m) * p < rate[m] * reward + dust
      <4>1. \A a, b, c, d \in Nat : b <= a /\ a < b + c /\ c <= d /\ 0 < c
                => a < b + d /\ b < a + d
        OBVIOUS
      <4>2. p \in Nat /\ 0 < p
        BY <1>3
      <4>3. rate[m] * reward < Share(m) * p + p
        BY <1>6, <1>13
      <4> HIDE DEF dust, p
      <4> QED
        BY <1>6, <1>7, <3>1, <4>1, <4>2, <4>3
    <3> QED
      BY <1>3, <1>4, <3>2 DEF WithinDust
  <2>4. ASSUME NEW n \in Done  PROVE AtLeastShare(n)'
    BY <1>2, <1>3, <1>13 DEF AtLeastShare
  <2>5. AtLeastShare(m)'
    <3>1. (Share(m) + 1) * p = Share(m) * p + 1 * p /\ 1 * p = p
      BY <1>3, <1>6, Distributes
    <3>2. rate[m] * reward < (Share(m) + 1) * p
      BY <1>6, <1>13, <3>1
    <3> QED
      BY <1>3, <1>4, <3>2 DEF AtLeastShare
  <2> QED
    BY <1>3, <2>1, <2>2, <2>3, <2>4, <2>5
<1> QED
  BY <1>11, <1>12, <1>13

\* The last turn pays the rest.
LEMMA LastTurn ==
    ASSUME PayoutInv, NEW m, PayMiner(m), todo = {m}, LocalRate <= poolRate
    PROVE  /\ SumFunction(payment') = reward
           /\ WithinWord => \A n \in Local : AtLeastShare(n)'
           /\ WithinWord /\ LocalRate = poolRate => \A n \in Local : WithinDust(n)'
<1> DEFINE sum == SumFunctionOnSet(rate, Done)
           card == Cardinality(Done)
           p == poolRate
           rest == reward - distributed
<1>1. PayoutTypeOK /\ todo # {}
  BY DEF PayoutInv, PayMiner
<1>2. /\ distributed = SumFunction(payment) /\ distributed * p <= sum * reward
      /\ WithinWord => /\ sum * reward <= (distributed + card) * p
                       /\ \A n \in Done : WithinDust(n) /\ AtLeastShare(n)
  BY <1>1 DEF PayoutInv, PaidSoFar
<1>3. /\ m \in Local /\ m \notin Done /\ Done' = Done \cup {m}
      /\ UNCHANGED <<rate, poolRate, reward, Local, LocalRate>> /\ p \in Nat \ {0}
      /\ SumFunctionOnSet(rate, Done') = sum + rate[m]
      /\ SumFunctionOnSet(rate, Done') <= LocalRate
      /\ sum \in Nat /\ LocalRate \in Nat
      /\ SumFunction(payment') = SumFunction(payment) + Amount(m)
      /\ payment'[m] = Amount(m) /\ \A n \in Done : payment'[n] = payment[n]
      /\ Cardinality(Done') = card + 1 /\ card \in Nat
  BY <1>1, TurnAdds
<1>4. Done' = Local
  BY <1>1, <1>3 DEF PayMiner, PayoutTypeOK, Done
<1>5. /\ distributed \in Nat /\ reward \in Nat /\ reward \in 0..(WordSize - 1)
      /\ WordSize \in Nat \ {0} /\ rate[m] \in Nat
  BY <1>1, <1>3, PayoutValues
<1>6. distributed <= reward
  <2>1. sum <= p
    BY <1>3, <1>5
  <2> HIDE DEF sum
  <2> QED
    BY <1>1, <1>2, <1>3, <1>5, <2>1, EarnedIsInReward
<1>7. Amount(m) = rest /\ rest \in Nat
  <2>1. rest \in 0..(WordSize - 1) /\ reward + WordSize - distributed = rest + WordSize
    BY <1>5, <1>6
  <2>2. (rest + WordSize) % WordSize = rest
    <3> HIDE DEF rest
    <3> QED
      BY <1>5, <2>1, WordKeeps
  <2> QED
    BY <1>5, <1>6, <2>1, <2>2 DEF Amount, Remainder
<1>8. SumFunction(payment') = reward
  BY <1>2, <1>3, <1>5, <1>7
<1>9. ASSUME WithinWord  PROVE \A n \in Local : AtLeastShare(n)'
  <2>1. ASSUME NEW n \in Done  PROVE AtLeastShare(n)'
    BY <1>2, <1>3, <1>9 DEF AtLeastShare
  <2>2. AtLeastShare(m)'
    <3>1. /\ (sum + rate[m]) * reward = sum * reward + rate[m] * reward
          /\ (rest + distributed) * p = rest * p + distributed * p
          /\ (rest + 1) * p = rest * p + 1 * p /\ 1 * p = p
          /\ rest + distributed = reward /\ p * reward = reward * p
          /\ sum * reward \in Nat /\ rate[m] * reward \in Nat /\ rest * p \in Nat
          /\ distributed * p \in Nat
      <4> HIDE DEF sum, p
      <4>1. rest + distributed = reward
        BY <1>5, <1>7
      <4> HIDE DEF rest
      <4> QED
        BY <1>3, <1>5, <1>7, <4>1, Distributes
    <3>2. (sum + rate[m]) * reward <= p * reward
      <4>1. sum + rate[m] <= p /\ sum + rate[m] \in Nat
        BY <1>3, <1>5
      <4> HIDE DEF sum, p
      <4> QED
        BY <1>3, <1>5, <4>1, ProductGrows
    <3>3. rate[m] * reward <= rest * p
      <4>1. \A a, b, c, d \in Nat : a + b <= c + d /\ d <= a => b <= c
        OBVIOUS
      <4> HIDE DEF sum, p, rest
      <4> QED
        BY <1>2, <3>1, <3>2, <4>1
    <3>4. rate[m] * reward < (rest + 1) * p
      <4> HIDE DEF sum, p, rest
      <4> QED
        BY <1>3, <3>1, <3>3
    <3> QED
      BY <1>3, <1>7, <3>4 DEF AtLeastShare
  <2> QED
    BY <1>3, <1>4, <2>1, <2>2
<1>10. ASSUME WithinWord, LocalRate = poolRate
      PROVE  \A n \in Local : WithinDust(n)'
  <2>1. ASSUME NEW n \in Done  PROVE WithinDust(n)'
    BY <1>2, <1>3, <1>10 DEF WithinDust
  <2>2. WithinDust(m)'
    <3> DEFINE dust == (card + 1) * p
    <3>1. sum + rate[m] = p
      <4>1. SumFunctionOnSet(rate, Local) = LocalRate
        BY DEF LocalRate, SumFunction, Local
      <4> QED
        BY <1>3, <1>4, <1>10, <4>1
    <3>2. sum * reward + rate[m] * reward = rest * p + distributed * p
      <4>1. (sum + rate[m]) * reward = sum * reward + rate[m] * reward
        BY <1>3, <1>5, Distributes
      <4>2. (rest + distributed) * p = rest * p + distributed * p
        BY <1>3, <1>5, <1>7, Distributes
      <4>3. rest + distributed = reward /\ p * reward = reward * p
        BY <1>3, <1>5, Distributes
      <4> QED
        BY <3>1, <4>1, <4>2, <4>3
    <3>3. /\ sum * reward <= distributed * p + card * p /\ dust = card * p + p
          /\ sum * reward \in Nat /\ rate[m] * reward \in Nat /\ rest * p \in Nat
          /\ distributed * p \in Nat /\ card * p \in Nat
      <4>1. (distributed + card) * p = distributed * p + card * p
        BY <1>3, <1>5, Distributes
      <4>2. (card + 1) * p = card * p + 1 * p /\ 1 * p = p
        BY <1>3, Distributes
      <4>3. /\ sum * reward \in Nat /\ rate[m] * reward \in Nat /\ rest * p \in Nat
            /\ distributed * p \in Nat /\ card * p \in Nat
        BY <1>3, <1>5, <1>7, Distributes
      <4> QED
        BY <1>2, <1>10, <4>1, <4>2, <4>3
    <3>4. rate[m] * reward < rest * p + dust /\ rest * p < rate[m] * reward + dust
      <4>1. \A a, b, c, d, e, f \in Nat :
              a + b = c + d /\ d <= a /\ a <= d + e /\ 0 < f
                => b < c + (e + f) /\ c < b + (e + f)
        OBVIOUS
      <4>2. p \in Nat /\ 0 < p
        BY <1>3
      <4> HIDE DEF dust, p, sum, rest, card
      <4> QED
        BY <1>2, <3>2, <3>3, <4>1, <4>2
    <3> QED
      BY <1>3, <1>4, <1>7, <3>4 DEF WithinDust
  <2> QED
    BY <1>3, <1>4, <2>1, <2>2
<1> QED
  BY <1>8, <1>9, <1>10

LEMMA PayoutStep == PayoutInv /\ [PayoutNext]_payoutVars => PayoutInv'
<1> SUFFICES ASSUME PayoutInv, [PayoutNext]_payoutVars PROVE PayoutInv'
  OBVIOUS
<1>1. CASE UNCHANGED payoutVars
  BY <1>1 DEF payoutVars, PayoutInv, PayoutTypeOK, PaidSoFar, SharesWithinReward,
    ProportionalWithinWord, Proportional, WithinWord, WithinDust, AtLeastShare, Returned, LocalRate, Local, Done
<1>2. ASSUME NEW m \in Miners, PayMiner(m)  PROVE PayoutInv'
  <2>1. PayoutTypeOK /\ PayoutTypeOK'
    BY <1>2, PayoutTypeStep DEF PayoutInv
  <2>2. /\ m \in Local /\ Done' = Done \cup {m} /\ todo' = todo \ {m}
        /\ UNCHANGED <<rate, poolRate, reward, Local, LocalRate>> /\ poolRate \in Nat \ {0}
    BY <1>2, <2>1, TurnAdds DEF PayMiner
  <2>3. UNCHANGED WithinWord
    BY <2>2 DEF WithinWord
  <2>4. CASE todo # {m}
    <3>1. todo' # {}
      BY <1>2, <2>2, <2>4 DEF PayMiner
    <3>2. PaidSoFar'
      BY <1>2, <2>2, <2>3, <2>4, EarlyTurn DEF PaidSoFar
    <3>3. SharesWithinReward' /\ ProportionalWithinWord'
      BY <3>1 DEF SharesWithinReward, ProportionalWithinWord, Proportional, Returned
    <3> QED
      BY <2>1, <3>2, <3>3 DEF PayoutInv
  <2>5. CASE todo = {m}
    <3>1. todo' = {}
      BY <2>2, <2>5
    <3>2. PaidSoFar'
      BY <2>2, <3>1 DEF PaidSoFar
    <3>3. LocalRate <= poolRate =>
             /\ SumFunction(payment') <= reward
             /\ WithinWord => \A n \in Local : AtLeastShare(n)'
      <4>1. reward <= reward
        BY <2>1, PayoutValues
      <4> QED
        BY <1>2, <2>5, <4>1, LastTurn
    <3>4. SharesWithinReward'
      BY <2>2, <2>3, <3>3 DEF SharesWithinReward
    <3>5. WithinWord /\ LocalRate = poolRate => \A n \in Local : WithinDust(n)'
      BY <1>2, <2>2, <2>5, LastTurn
    <3>6. ProportionalWithinWord'
      BY <2>2, <2>3, <3>5 DEF ProportionalWithinWord, Proportional
    <3> QED
      BY <2>1, <3>2, <3>4, <3>6 DEF PayoutInv
  <2> QED
    BY <2>4, <2>5
<1> QED
  BY <1>1, <1>2 DEF PayoutNext

THEOREM PayoutInvariance == PayoutSpec => []PayoutInv
  BY PayoutInitial, PayoutStep, PTL DEF PayoutSpec

\* No more than the reward is paid, and no miner less than its share of the whole
\* pool, in whatever order the range over the map visits the miners.
THEOREM SharesAreWithinReward == PayoutSpec => []SharesWithinReward
<1>1. PayoutInv => SharesWithinReward
  BY DEF PayoutInv
<1> QED
  BY <1>1, PayoutInvariance, PTL

\* When the node's miners are the whole pool, each gets its proportional share up
\* to one unit per miner.
THEOREM OnlyDustDependsOnOrder == PayoutSpec => []ProportionalWithinWord
<1>1. PayoutInv => ProportionalWithinWord
  BY DEF PayoutInv
<1> QED
  BY <1>1, PayoutInvariance, PTL
=============================================================================
