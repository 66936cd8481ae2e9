------------------------------ MODULE Payouts -------------------------------
(***************************************************************************)
(* ExtractPayments: the loop that divides the reward of a block among the  *)
(* miners of the local node's latest hashrate bucket.  The divisor is the  *)
(* pool-wide hashrate of the latest snapshot, so it is read from another   *)
(* table, written by another step of the indexer, than the rates; the      *)
(* range over the Go map is in any order; numbers are machine words.       *)
(***************************************************************************)
EXTENDS Naturals, FiniteSets, Functions

CONSTANTS Miners,      \* the miner addresses
          Rates,       \* the hashrates a bucket may hold
          PoolRates,   \* the pool-wide hashrates a snapshot may hold
          Rewards,     \* the rewards a block may have
          WordSize     \* one more than the greatest uint64

ASSUME PayoutAssumption == /\ IsFiniteSet(Miners)
                           /\ WordSize \in Nat \ {0}
                           /\ Rates \cup PoolRates \cup Rewards \subseteq 0..(WordSize - 1)

VARIABLES rate,         \* minerDifficulties: its domain is the bucket's miners
          poolRate,     \* totalDifficulty
          reward,       \* coinbaseReward
          todo,         \* the miners the range has not reached
          distributed,  \* distributedTotal
          payment       \* the payments made so far, those of 0 included

payoutVars == <<rate, poolRate, reward, todo, distributed, payment>>

Local == DOMAIN rate   \* the miners of the bucket

PayoutTypeOK ==
    /\ Local \subseteq Miners
    /\ rate \in [Local -> Rates]
    /\ poolRate \in PoolRates
    /\ reward \in Rewards
    /\ todo \subseteq Local
    /\ distributed \in 0..(WordSize - 1)
    /\ payment \in [Local \ todo -> 0..(WordSize - 1)]

\* The two queries have answered.
PayoutInit ==
    /\ \E miners \in SUBSET Miners : rate \in [miners -> Rates]
    /\ poolRate \in PoolRates
    /\ reward \in Rewards
    /\ todo = Local
    /\ distributed = 0
    /\ payment = <<>>

\* Mutants of Share: rounded up; divided before multiplying.
ShareRoundedUp(m) == (((rate[m] * reward) % WordSize) + poolRate - 1) \div poolRate
ShareDividedFirst(m) == (rate[m] \div poolRate) * reward

Share(m) == ((rate[m] * reward) % WordSize) \div poolRate

Remainder == (reward + WordSize - distributed) % WordSize

Amount(m) == IF todo = {m} THEN Remainder ELSE Share(m)

\* One turn of the loop, which is not entered when the pool-wide rate is 0.
PayMiner(m) ==
    /\ poolRate > 0
    /\ m \in todo
    /\ todo' = todo \ {m}
    /\ distributed' = (distributed + Amount(m)) % WordSize
    /\ payment' = [n \in Local \ todo' |-> IF n = m THEN Amount(m) ELSE payment[n]]
    /\ UNCHANGED <<rate, poolRate, reward>>

PayoutNext == \E m \in Miners : PayMiner(m)

PayoutSpec == PayoutInit /\ [][PayoutNext]_payoutVars

-----------------------------------------------------------------------------
LocalRate == SumFunction(rate)

Returned == todo = {} /\ Local # {}

\* Documented at fetchMinerDifficulties and in coinbase_test.go, "each miner's share
\* is calculated against the entire P2Pool sidechain": what of it the code keeps.
\* Each miner gets its share of the whole pool's rate at least, to the unit below,
\* and together they get no more than the reward, in every order of the range, as
\* long as the snapshot's rate is not below the sum of the bucket's.
AtLeastShare(m) == rate[m] * reward < (payment[m] + 1) * poolRate

WithinWord == \A m \in Local : rate[m] * reward < WordSize

SharesWithinReward ==
    Returned /\ LocalRate <= poolRate =>
        /\ SumFunction(payment) <= reward
        /\ WithinWord => \A m \in Local : AtLeastShare(m)

\* The miner's payment is less than one unit per miner away from its exact share.
WithinDust(m) ==
    LET exact == rate[m] * reward
        paid  == payment[m] * poolRate
        dust  == Cardinality(Local) * poolRate
    IN  exact < paid + dust /\ paid < exact + dust

\* coinbase.go's header: the reward is distributed proportionally, so that when
\* the node's miners are the whole pool only dust depends on the order of the range.
Proportional ==
    Returned /\ LocalRate = poolRate => \A m \in Local : WithinDust(m)

\* ... which holds while no product of a rate and the reward exceeds a word.
ProportionalWithinWord == WithinWord => Proportional

\* Why both hold: until the last turn, which pays the remainder, the payments add
\* up to distributed, which is no more than what the rates of their miners earn
\* and, within a word, at most one unit per miner less.
Done == Local \ todo

PaidSoFar ==
    LET earned == SumFunctionOnSet(rate, Done) * reward
    IN  /\ poolRate = 0 => todo = Local
        /\ todo # {} /\ LocalRate <= poolRate =>
              /\ distributed = SumFunction(payment)
              /\ distributed * poolRate <= earned
              /\ WithinWord =>
                    /\ earned <= (distributed + Cardinality(Done)) * poolRate
                    /\ \A m \in Done : WithinDust(m) /\ AtLeastShare(m)

PayoutInv == PayoutTypeOK /\ PaidSoFar /\ SharesWithinReward /\ ProportionalWithinWord

\* coinbase_test.go and fetchMinerDifficulties: a payment is the miner's share of the
\* whole pool's rate, not just of the local node's, and dust is not attributed.
ShareOfPool ==
    Returned => \A m \in Local : payment[m] * poolRate <= rate[m] * reward
=============================================================================
