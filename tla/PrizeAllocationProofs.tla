----------------------- MODULE PrizeAllocationProofs -----------------------
(***************************************************************************)
(* Proofs about the arithmetic of finalize(), for every deposit, every     *)
(* result of the oracle, every prize distribution and every membership of  *)
(* stables: the prizes never exceed what the sponsor put up, and the       *)
(* deposit and the fees are credited to the last wei.                      *)
(***************************************************************************)
EXTENDS PrizeAllocation, SumTheorems

(* A share of at most 10000 basis points is a natural number and at most   *)
(* the whole.                                                              *)
LEMMA ShareIsPart ==
  ASSUME NEW a \in Nat, NEW b \in 0 .. BPS
  PROVE  Bps(a, b) \in Nat /\ Bps(a, b) <= a
<1> DEFINE p == a * b
<1>1. p \in Nat /\ p <= a * 10000
  BY DEF BPS
<1> HIDE DEF p
<1>2. p \div 10000 \in Nat /\ p \div 10000 <= a
  BY <1>1
<1> QED BY <1>2 DEF p, Bps, BPS

(* What is at most 10000 is a share.                                       *)
LEMMA AtMostTheWhole ==
  ASSUME NEW n \in Nat, n <= 10000
  PROVE  n \in 0 .. BPS
<1>1. n <= BPS /\ BPS \in Nat
  BY DEF BPS
<1> QED BY <1>1

(* The whole is a natural number.                                          *)
LEMMA BpsIsNat == BPS \in Nat /\ BPS = 10000
BY DEF BPS

(* Truncation never gains: BPS times the share is at most the product.     *)
LEMMA ShareTruncates ==
  ASSUME NEW a \in Nat, NEW b \in Nat
  PROVE  Bps(a, b) \in Nat /\ BPS * Bps(a, b) <= a * b
<1> DEFINE p == a * b
<1>1. p \in Nat
  OBVIOUS
<1> HIDE DEF p
<1>2. p \div 10000 \in Nat /\ 10000 * (p \div 10000) <= p
  BY <1>1
<1> QED BY <1>2 DEF p, Bps, BPS

----------------------------------------------------------------------------
(* Every prize slot is a share of the bounty.                              *)
LEMMA SlotIsShare ==
  ASSUME NEW k \in DOMAIN PrizeDistribution
  PROVE  PrizeDistribution[k] \in 0 .. BPS
<1>1. IsFiniteSet(DOMAIN PrizeDistribution)
  <2>1. DOMAIN PrizeDistribution = 1 .. Len(PrizeDistribution)
    BY AllocationAssumption
  <2> QED BY <2>1, FS_Interval, AllocationAssumption
<1>2. \A n \in DOMAIN PrizeDistribution : PrizeDistribution[n] \in Nat
  BY AllocationAssumption
<1>4. SumFunctionOnSet(PrizeDistribution, DOMAIN PrizeDistribution) = 10000
  BY AllocationAssumption DEF BPS
<1>3. PrizeDistribution[k]
        <= SumFunctionOnSet(PrizeDistribution, DOMAIN PrizeDistribution)
  BY <1>1, <1>2, SumNat
<1>5. PrizeDistribution[k] \in Nat
  BY <1>2
<1>6. PrizeDistribution[k] <= 10000
  BY <1>3, <1>4
<1> DEFINE v == PrizeDistribution[k]
<1>7. v \in Nat /\ v <= 10000
  BY <1>5, <1>6
<1> HIDE DEF v
<1>8. v \in 0 .. BPS
  BY <1>7, AtMostTheWhole
<1> QED BY Zenon, <1>8 DEF v

(* The entries that the sort puts before entry i.                          *)
Before(res, i) ==
  {j \in DOMAIN res : \/ res[j].score > res[i].score
                      \/ res[j].score = res[i].score /\ j < i}

(* Ranks are places of the sequence and no two entries share one.          *)
LEMMA RankIsInjective ==
  ASSUME NEW res, res \in Seq(ScoreEntry)
  PROVE  /\ IsFiniteSet(DOMAIN res)
         /\ \A i \in DOMAIN res : Rank(res, i) \in Nat /\ Rank(res, i) >= 1
         /\ \A i, j \in DOMAIN res : Rank(res, i) = Rank(res, j) => i = j
<1>1. IsFiniteSet(DOMAIN res) /\ DOMAIN res \subseteq Nat
  <2>1. DOMAIN res = 1 .. Len(res) /\ Len(res) \in Nat
    OBVIOUS
  <2> QED BY <2>1, FS_Interval
<1>2. \A i \in DOMAIN res : res[i].score \in Nat
  <2>1. \A i \in DOMAIN res : res[i] \in ScoreEntry
    OBVIOUS
  <2> QED BY <2>1 DEF ScoreEntry
<1>3. ASSUME NEW i \in DOMAIN res
      PROVE  /\ IsFiniteSet(Before(res, i))
             /\ Cardinality(Before(res, i)) \in Nat
             /\ Rank(res, i) = 1 + Cardinality(Before(res, i))
  <2>1. Before(res, i) \subseteq DOMAIN res
    BY DEF Before
  <2>2. IsFiniteSet(Before(res, i))
    BY <1>1, <2>1, FS_Subset
  <2> QED BY <2>2, FS_CardinalityType DEF Before, Rank
<1>4. ASSUME NEW i \in DOMAIN res, NEW j \in DOMAIN res, i \in Before(res, j)
      PROVE  Rank(res, i) < Rank(res, j)
  <2>1. Before(res, i) \subseteq Before(res, j)
    BY <1>1, <1>2, <1>4 DEF Before
  <2>2. i \notin Before(res, i)
    BY <1>1, <1>2 DEF Before
  <2>3. Before(res, i) # Before(res, j)
    BY <1>4, <2>2
  <2>4. Cardinality(Before(res, i)) < Cardinality(Before(res, j))
    BY <1>3, <2>1, <2>3, FS_Subset
  <2> QED BY <1>3, <2>4
<1>5. ASSUME NEW i \in DOMAIN res, NEW j \in DOMAIN res, i # j
      PROVE  i \in Before(res, j) \/ j \in Before(res, i)
  BY <1>1, <1>2, <1>5 DEF Before
<1>6. ASSUME NEW i \in DOMAIN res, NEW j \in DOMAIN res,
             Rank(res, i) = Rank(res, j)
      PROVE  i = j
  BY <1>3, <1>4, <1>5, <1>6
<1> QED BY <1>1, <1>3, <1>6

----------------------------------------------------------------------------
(* The amounts that a single winner's prize is split into.                 *)

(* The payout is a share of the deposit, the effective bounty a part.      *)
LEMMA EffectiveIsPart ==
  ASSUME NEW deposit \in Nat, NEW res
  PROVE  /\ EffectiveBounty(deposit, res) \in Nat
         /\ EffectiveBounty(deposit, res) <= deposit
<1>1. PayoutBps(res) \in 0 .. BPS
  BY DEF PayoutBps, BPS
<1> QED BY <1>1, ShareIsPart DEF EffectiveBounty

(* A winner's place is a prize slot.                                       *)
LEMMA WinnersHaveSlots ==
  ASSUME NEW res, res \in Seq(ScoreEntry)
  PROVE  /\ IsFiniteSet(Winners(res))
         /\ \A i \in Winners(res) :
              /\ i \in DOMAIN res
              /\ res[i].agent \in Agents
              /\ Rank(res, i) \in DOMAIN PrizeDistribution
<1>1. /\ IsFiniteSet(DOMAIN res)
      /\ \A i \in DOMAIN res : Rank(res, i) \in Nat /\ Rank(res, i) >= 1
  BY RankIsInjective
<1>2. IsFiniteSet(Winners(res))
  <2>1. Winners(res) \subseteq DOMAIN res
    BY DEF Winners
  <2> QED BY <1>1, <2>1, FS_Subset
<1>3. /\ DOMAIN PrizeDistribution = 1 .. Len(PrizeDistribution)
      /\ Len(PrizeDistribution) \in Nat
  BY AllocationAssumption
<1>4. \A i \in DOMAIN res : res[i].agent \in Agents
  <2>1. \A i \in DOMAIN res : res[i] \in ScoreEntry
    OBVIOUS
  <2> QED BY <2>1 DEF ScoreEntry
<1>5. ASSUME NEW i \in Winners(res)
      PROVE  /\ i \in DOMAIN res
             /\ res[i].agent \in Agents
             /\ Rank(res, i) \in DOMAIN PrizeDistribution
  <2>1. i \in DOMAIN res /\ Rank(res, i) <= Len(PrizeDistribution)
    BY DEF Winners
  <2> QED BY <1>1, <1>3, <1>4, <2>1
<1> QED BY <1>2, <1>5

(* The gross prize of a winner is a part of the effective bounty, even     *)
(* before truncation.                                                      *)
LEMMA GrossIsPart ==
  ASSUME NEW deposit \in Nat, NEW res, res \in Seq(ScoreEntry),
         NEW i \in Winners(res)
  PROVE  /\ GrossPrize(deposit, res, i) \in Nat
         /\ BPS * GrossPrize(deposit, res, i)
              <= EffectiveBounty(deposit, res)
                   * PrizeDistribution[Rank(res, i)]
<1>1. PrizeDistribution[Rank(res, i)] \in 0 .. BPS
  BY WinnersHaveSlots, SlotIsShare
<1>2. PrizeDistribution[Rank(res, i)] \in Nat
  <2> DEFINE v == PrizeDistribution[Rank(res, i)]
  <2>1. v \in 0 .. BPS
    BY <1>1
  <2> HIDE DEF v
  <2>2. v \in Nat
    BY <2>1, BpsIsNat
  <2> QED BY <2>2 DEF v
<1> QED BY <1>2, EffectiveIsPart, ShareTruncates DEF GrossPrize

(* Memberships as StableRegistry answers: an existing stable or none.      *)
StableAnswers == [Agents -> Stables \cup {NoStable}]

(* A gross prize splits exactly into the protocol fee, the stable's cut    *)
(* and the agent's cut, none of them negative: the two checked             *)
(* subtractions of the winners loop never underflow.                       *)
LEMMA PrizeSplits ==
  ASSUME NEW gross \in Nat, NEW stable \in Stables \cup {NoStable}
  PROVE  /\ ProtocolFee(gross) \in Nat
         /\ StableCut(gross, stable) \in Nat
         /\ AgentCut(gross, stable) \in Nat
         /\ ProtocolFee(gross) + StableCut(gross, stable)
              + AgentCut(gross, stable) = gross
<1>1. ProtocolFeeBps \in 0 .. BPS
  BY AllocationAssumption DEF BPS, MaxProtocolFeeBps
<1>2. ProtocolFee(gross) \in Nat /\ ProtocolFee(gross) <= gross
  BY <1>1, ShareIsPart DEF ProtocolFee
<1> DEFINE afterFee == gross - ProtocolFee(gross)
<1>3. afterFee \in Nat
  BY <1>2
<1> HIDE DEF afterFee
<1>4. StableCut(gross, stable) \in Nat /\ StableCut(gross, stable) <= afterFee
  <2>1. CASE stable = NoStable
    BY <1>3, <2>1 DEF StableCut
  <2>2. CASE stable # NoStable
    <3>1. RevenueShareBps[stable] \in 0 .. BPS
      <4> DEFINE share == RevenueShareBps[stable]
      <4>1. share \in 0 .. MaxRevenueShareBps
        BY <2>2, AllocationAssumption
      <4> HIDE DEF share
      <4>2. share \in Nat /\ share <= 10000
        <5>1. MaxRevenueShareBps \in Nat /\ MaxRevenueShareBps <= 10000
          BY DEF MaxRevenueShareBps
        <5> QED BY <4>1, <5>1
      <4>3. share \in 0 .. BPS
        BY <4>2, AtMostTheWhole
      <4> QED BY Zenon, <4>3 DEF share
    <3>2. StableCut(gross, stable) = Bps(afterFee, RevenueShareBps[stable])
      BY <2>2 DEF StableCut, afterFee
    <3> QED BY <1>3, <3>1, <3>2, ShareIsPart
  <2> QED BY <2>1, <2>2
<1> QED BY <1>2, <1>3, <1>4 DEF afterFee, AgentCut

----------------------------------------------------------------------------
(* Each entry of a function of the winners in finalize().                  *)
Gross(deposit, res)  == [i \in Winners(res) |-> GrossPrize(deposit, res, i)]
SlotOf(res)          == [i \in Winners(res) |-> Rank(res, i)]
ShareOf(res)         == [i \in Winners(res) |-> PrizeDistribution[Rank(res, i)]]

(* The prizes never exceed the effective bounty: the checked subtraction   *)
(* effectiveBounty - totalDistributed cannot make finalize() revert, for   *)
(* any prize distribution, any number of entries and any rounding.         *)
THEOREM PrizesFitTheBounty ==
  ASSUME NEW deposit \in Nat, NEW res, res \in Seq(ScoreEntry)
  PROVE  /\ TotalDistributed(deposit, res) \in Nat
         /\ TotalDistributed(deposit, res) <= EffectiveBounty(deposit, res)
<1> DEFINE W == Winners(res)
           gross == Gross(deposit, res)
           share == ShareOf(res)
           slot  == SlotOf(res)
           eff   == EffectiveBounty(deposit, res)
           slots == DOMAIN PrizeDistribution
<1>1. /\ IsFiniteSet(W)
      /\ \A i \in W : i \in DOMAIN res /\ Rank(res, i) \in slots
  BY WinnersHaveSlots
<1>2. eff \in Nat
  BY EffectiveIsPart
<1>3. ASSUME NEW i \in W
      PROVE  /\ gross[i] \in Nat /\ share[i] \in Nat
             /\ BPS * gross[i] <= eff * share[i]
  <2>1. share[i] = PrizeDistribution[Rank(res, i)]
    BY DEF ShareOf
  <2>2. share[i] \in Nat
    <3>1. share[i] \in 0 .. BPS
      BY <1>1, <2>1, SlotIsShare
    <3> DEFINE v == share[i]
    <3>2. v \in 0 .. BPS
      BY <3>1
    <3> HIDE DEF v
    <3>3. v \in Nat
      BY <3>2, BpsIsNat
    <3> QED BY <3>3 DEF v
  <2>3. gross[i] = GrossPrize(deposit, res, i)
    BY DEF Gross
  <2> QED BY <2>1, <2>2, <2>3, GrossIsPart
<1>4. \A i \in W : share[i] = PrizeDistribution[slot[i]] /\ slot[i] \in slots
  BY <1>1 DEF ShareOf, SlotOf
<1>5. \A i, k \in W : slot[i] = slot[k] => i = k
  BY <1>1, RankIsInjective DEF SlotOf
<1>6. /\ IsFiniteSet(slots)
      /\ \A k \in slots : PrizeDistribution[k] \in Nat
  <2>1. slots = 1 .. Len(PrizeDistribution) /\ Len(PrizeDistribution) \in Nat
    BY AllocationAssumption
  <2>2. \A k \in slots : PrizeDistribution[k] \in Nat
    BY AllocationAssumption
  <2>3. IsFiniteSet(slots)
    BY <2>1, FS_Interval
  <2> QED BY <2>2, <2>3
<1>7. SumFunctionOnSet(gross, W) = TotalDistributed(deposit, res)
  BY DEF Gross, TotalDistributed
<1>8. SumFunctionOnSet(PrizeDistribution, slots) = BPS
  BY AllocationAssumption
<1> HIDE DEF W, gross, share, slot, eff, slots
<1> DEFINE filled == {slot[i] : i \in W}
<1>9. filled \in SUBSET slots /\ IsFiniteSet(filled)
  <2>1. filled \in SUBSET slots
    BY <1>4
  <2> QED BY <1>6, <2>1, FS_Subset
<1>10. SumFunctionOnSet(share, W) <= BPS
  <2>1. /\ \A i \in W : slot[i] \in filled
        /\ \A k \in filled : \E i \in W : k = slot[i]
    OBVIOUS
  <2>2. \A i \in W : share[i] \in Int /\ share[i] = PrizeDistribution[slot[i]]
    BY <1>3, <1>4
  <2> HIDE DEF filled
  <2>3. Reindexes(slot, share, W, PrizeDistribution, filled)
    BY <1>5, <2>1, <2>2 DEF Reindexes
  <2>4. SumFunctionOnSet(share, W) = SumFunctionOnSet(PrizeDistribution, filled)
    BY <1>1, <1>9, <2>3, SumImage
  <2> QED BY <1>6, <1>8, <1>9, <2>4, SumSubset
<1>11. BPS * SumFunctionOnSet(gross, W) <= eff * SumFunctionOnSet(share, W)
  BY <1>1, <1>2, <1>3, BpsIsNat, SumScaled
<1> DEFINE total  == SumFunctionOnSet(gross, W)
           shares == SumFunctionOnSet(share, W)
<1>12. total \in Nat /\ shares \in Nat
  BY <1>1, <1>3, SumNat
<1>13. shares <= 10000 /\ 10000 * total <= eff * shares
  BY <1>10, <1>11, BpsIsNat
<1> HIDE DEF total, shares
<1>14. eff * shares <= eff * 10000
  BY <1>2, <1>12, <1>13
<1>15. total <= eff
  <2> DEFINE p == eff * shares
  <2>1. p \in Int
    BY <1>2, <1>12
  <2>2. 10000 * total <= p /\ p <= eff * 10000
    BY <1>13, <1>14
  <2> HIDE DEF p
  <2> QED BY <1>2, <1>12, <2>1, <2>2
<1> QED BY <1>7, <1>12, <1>15 DEF total, eff

(* What the sponsor gets back is what the winners did not get.             *)
LEMMA RefundIsRest ==
  ASSUME NEW deposit \in Nat, NEW res, res \in Seq(ScoreEntry)
  PROVE  /\ RefundAmount(deposit, res) \in Nat
         /\ RefundAmount(deposit, res) + TotalDistributed(deposit, res)
              = deposit
<1> DEFINE eff   == EffectiveBounty(deposit, res)
           total == TotalDistributed(deposit, res)
<1>1. eff \in Nat /\ eff <= deposit
  BY EffectiveIsPart
<1>2. total \in Nat /\ total <= eff
  BY PrizesFitTheBounty
<1>3. RefundAmount(deposit, res) = (deposit - eff) + (eff - total)
  BY DEF RefundAmount
<1> HIDE DEF eff, total
<1> QED BY <1>1, <1>2, <1>3 DEF total

(* A winner's gross prize and the answer of the stable registry.           *)
LEMMA WinnerFacts ==
  ASSUME NEW deposit \in Nat, NEW res, res \in Seq(ScoreEntry),
         NEW stableOf \in StableAnswers, NEW i \in Winners(res)
  PROVE  /\ GrossPrize(deposit, res, i) \in Nat
         /\ stableOf[res[i].agent] \in Stables \cup {NoStable}
         /\ Wallet[res[i].agent] \in Addresses
<1>1. res[i].agent \in Agents
  BY WinnersHaveSlots
<1>2. stableOf[res[i].agent] \in Stables \cup {NoStable}
  BY <1>1 DEF StableAnswers
<1>3. Wallet[res[i].agent] \in Addresses
  BY <1>1, AllocationAssumption
<1> QED BY <1>2, <1>3, GrossIsPart

(* What finalize() stores in totalClaimable is the sponsor's deposit and   *)
(* the entry fees, to the wei.                                             *)
THEOREM AllocatedIsEverything ==
  ASSUME NEW deposit \in Nat, NEW fees \in Nat,
         NEW res, res \in Seq(ScoreEntry), NEW stableOf \in StableAnswers
  PROVE  Allocated(deposit, fees, res, stableOf) = deposit + fees
<1> DEFINE W == Winners(res)
           gross == Gross(deposit, res)
           split == [i \in W |->
                       LET g      == GrossPrize(deposit, res, i)
                           stable == stableOf[res[i].agent]
                       IN  ProtocolFee(g) + StableCut(g, stable)
                             + AgentCut(g, stable)]
<1>1. IsFiniteSet(W)
  BY WinnersHaveSlots
<1>2. ASSUME NEW i \in W PROVE split[i] = gross[i]
  <2> DEFINE g      == GrossPrize(deposit, res, i)
             stable == stableOf[res[i].agent]
  <2>1. g \in Nat /\ stable \in Stables \cup {NoStable}
    BY WinnerFacts
  <2>2. ProtocolFee(g) + StableCut(g, stable) + AgentCut(g, stable) = g
    <3> HIDE DEF g, stable
    <3> QED BY <2>1, PrizeSplits
  <2>3. gross[i] = g
    BY DEF Gross
  <2>4. split[i] = ProtocolFee(g) + StableCut(g, stable) + AgentCut(g, stable)
    OBVIOUS
  <2> QED BY <2>2, <2>3, <2>4
<1>3. SumFunctionOnSet(split, W) = SumFunctionOnSet(gross, W)
  <2> HIDE DEF split, gross, W
  <2> QED BY <1>1, <1>2, SumEqual
<1>4. SumFunctionOnSet(gross, W) = TotalDistributed(deposit, res)
  BY DEF Gross, TotalDistributed
<1>5. Allocated(deposit, fees, res, stableOf)
        = SumFunctionOnSet(split, W) + fees + RefundAmount(deposit, res)
  BY DEF Allocated
<1> HIDE DEF split, gross, W
<1> DEFINE total  == TotalDistributed(deposit, res)
           refund == RefundAmount(deposit, res)
<1>6. total \in Nat /\ refund \in Nat /\ refund + total = deposit
  BY RefundIsRest, PrizesFitTheBounty
<1>7. Allocated(deposit, fees, res, stableOf) = total + fees + refund
  BY <1>3, <1>4, <1>5
<1> HIDE DEF total, refund
<1> QED BY <1>6, <1>7

(* A winner's prize reaches the accounts in full: over all accounts, the   *)
(* credits for entry i add up to its gross prize.                          *)
LEMMA WinnerCreditsAddUp ==
  ASSUME NEW deposit \in Nat, NEW res, res \in Seq(ScoreEntry),
         NEW stableOf \in StableAnswers, NEW i \in Winners(res)
  PROVE  /\ \A x \in Addresses :
              WinnerCredit(deposit, res, stableOf, x, i) \in Nat
         /\ SumFunctionOnSet(
              [x \in Addresses |->
                 WinnerCredit(deposit, res, stableOf, x, i)], Addresses)
              = GrossPrize(deposit, res, i)
<1> DEFINE g      == GrossPrize(deposit, res, i)
           stable == stableOf[res[i].agent]
           wallet == Wallet[res[i].agent]
           fee    == ProtocolFee(g)
           cut    == StableCut(g, stable)
           net    == AgentCut(g, stable)
           feeTo  == [x \in Addresses |-> IF x = Treasury THEN fee ELSE 0]
           cutTo  == [x \in Addresses |->
                        IF stable # NoStable /\ x = StableOwner[stable]
                        THEN cut ELSE 0]
           netTo  == [x \in Addresses |-> IF x = wallet THEN net ELSE 0]
           two    == [x \in Addresses |-> feeTo[x] + cutTo[x]]
           all    == [x \in Addresses |->
                        WinnerCredit(deposit, res, stableOf, x, i)]
<1>1. g \in Nat /\ stable \in Stables \cup {NoStable} /\ wallet \in Addresses
  BY WinnerFacts
<1>2. /\ fee \in Nat /\ cut \in Nat /\ net \in Nat
      /\ fee + cut + net = g
  <2> HIDE DEF g, stable
  <2> QED BY <1>1, PrizeSplits
<1>3. ASSUME NEW x \in Addresses
      PROVE  all[x] = two[x] + netTo[x] /\ two[x] = feeTo[x] + cutTo[x]
  BY DEF WinnerCredit
<1>4. IsFiniteSet(Addresses) /\ Treasury \in Addresses
  BY AllocationAssumption
<1> HIDE DEF g, stable, wallet, fee, cut, net, two, all
<1>5. SumFunctionOnSet(feeTo, Addresses) = fee
  <2>1. feeTo[Treasury] = fee /\ \A x \in Addresses \ {Treasury} : feeTo[x] = 0
    BY <1>4
  <2> HIDE DEF feeTo
  <2> QED BY <1>2, <1>4, <2>1, SumSingle
<1>6. SumFunctionOnSet(netTo, Addresses) = net
  <2>1. netTo[wallet] = net /\ \A x \in Addresses \ {wallet} : netTo[x] = 0
    BY <1>1
  <2> HIDE DEF netTo
  <2> QED BY <1>1, <1>2, <1>4, <2>1, SumSingle
<1>7. SumFunctionOnSet(cutTo, Addresses) = cut
  <2>1. CASE stable = NoStable
    <3>1. cut = 0
      BY <2>1 DEF cut, StableCut
    <3>2. \A x \in Addresses : cutTo[x] = 0
      BY <2>1
    <3> HIDE DEF cutTo
    <3> QED BY <1>4, <3>1, <3>2, SumZero
  <2>2. CASE stable # NoStable
    <3> DEFINE owner == StableOwner[stable]
    <3>1. owner \in Addresses
      BY <1>1, <2>2, AllocationAssumption
    <3>2. cutTo[owner] = cut /\ \A x \in Addresses \ {owner} : cutTo[x] = 0
      BY <2>2, <3>1
    <3> HIDE DEF cutTo, owner
    <3> QED BY <1>2, <1>4, <3>1, <3>2, SumSingle
  <2> QED BY <2>1, <2>2
<1>8. \A x \in Addresses : feeTo[x] \in Nat /\ cutTo[x] \in Nat /\ netTo[x] \in Nat
  BY <1>2
<1> HIDE DEF feeTo, cutTo, netTo
<1>9. SumFunctionOnSet(two, Addresses) = fee + cut
  <2>1. \A x \in Addresses : feeTo[x] \in Int /\ cutTo[x] \in Int
    BY <1>8
  <2> QED BY <1>3, <1>4, <1>5, <1>7, <2>1, SumPlus
<1>10. SumFunctionOnSet(all, Addresses) = (fee + cut) + net
  <2>1. \A x \in Addresses : two[x] \in Int /\ netTo[x] \in Int
    BY <1>3, <1>8
  <2> QED BY <1>3, <1>4, <1>6, <1>9, <2>1, SumPlus
<1>11. \A x \in Addresses : all[x] \in Nat
  BY <1>3, <1>8
<1> QED BY <1>2, <1>10, <1>11 DEF all, g

(* No account loses and no wei is created: what finalize() adds to the     *)
(* claim balances is never negative and adds up to the deposit and the     *)
(* fees.                                                                   *)
THEOREM CreditsAddUp ==
  ASSUME NEW deposit \in Nat, NEW fees \in Nat,
         NEW res, res \in Seq(ScoreEntry), NEW stableOf \in StableAnswers
  PROVE  /\ \A x \in Addresses :
              Credit(deposit, fees, res, stableOf, x) \in Nat
         /\ SumFunctionOnSet(
              [x \in Addresses |-> Credit(deposit, fees, res, stableOf, x)],
              Addresses) = deposit + fees
<1> DEFINE W == Winners(res)
           wc(x, i) == WinnerCredit(deposit, res, stableOf, x, i)
           m   == [x \in Addresses |-> [i \in W |-> wc(x, i)]]
           n   == [i \in W |-> [x \in Addresses |-> wc(x, i)]]
           row == [x \in Addresses |-> SumFunctionOnSet(m[x], W)]
           col == Gross(deposit, res)
           refund == RefundAmount(deposit, res)
           feeTo  == [x \in Addresses |-> IF x = Treasury THEN fees ELSE 0]
           restTo == [x \in Addresses |-> IF x = Sponsor THEN refund ELSE 0]
           two == [x \in Addresses |-> row[x] + feeTo[x]]
           all == [x \in Addresses |-> Credit(deposit, fees, res, stableOf, x)]
<1>1. IsFiniteSet(W)
  BY WinnersHaveSlots
<1>2. IsFiniteSet(Addresses) /\ Treasury \in Addresses /\ Sponsor \in Addresses
  BY AllocationAssumption
<1>3. refund \in Nat /\ refund + TotalDistributed(deposit, res) = deposit
  BY RefundIsRest
<1>4. \A x \in Addresses, i \in W : wc(x, i) \in Nat
  BY WinnerCreditsAddUp
<1>5. \A i \in W : SumFunctionOnSet(n[i], Addresses) = col[i]
  <2> SUFFICES ASSUME NEW i \in W
               PROVE  SumFunctionOnSet(n[i], Addresses) = col[i]
    OBVIOUS
  <2>1. n[i] = [x \in Addresses |-> wc(x, i)]
    OBVIOUS
  <2>2. col[i] = GrossPrize(deposit, res, i)
    BY DEF Gross
  <2> QED BY <2>1, <2>2, WinnerCreditsAddUp
<1>6. MatrixSums(m, n, Addresses, W, row, col)
  <2>1. \A x \in Addresses, i \in W : m[x][i] \in Int /\ n[i][x] = m[x][i]
    BY <1>4
  <2>2. \A x \in Addresses : row[x] = SumFunctionOnSet(m[x], W)
    OBVIOUS
  <2>3. \A i \in W : col[i] = SumFunctionOnSet(n[i], Addresses)
    BY <1>5
  <2> HIDE DEF m, n, row, col, W
  <2> QED BY <2>1, <2>2, <2>3 DEF MatrixSums
<1>7. \A x \in Addresses : row[x] \in Nat
  <2>1. \A x \in Addresses : \A i \in W : m[x][i] \in Nat
    BY <1>4
  <2>2. \A x \in Addresses : row[x] = SumFunctionOnSet(m[x], W)
    OBVIOUS
  <2> HIDE DEF m, row, W
  <2> QED BY <1>1, <2>1, <2>2, SumNat
<1>8. SumFunctionOnSet(row, Addresses) = TotalDistributed(deposit, res)
  <2>1. SumFunctionOnSet(col, W) = TotalDistributed(deposit, res)
    BY DEF Gross, TotalDistributed
  <2>2. SumFunctionOnSet(row, Addresses) = SumFunctionOnSet(col, W)
    <3> HIDE DEF m, n, row, col, W
    <3> QED BY <1>1, <1>2, <1>6, SumSwap
  <2> QED BY <2>1, <2>2
<1>9. \A x \in Addresses : /\ all[x] = two[x] + restTo[x]
                           /\ two[x] = row[x] + feeTo[x]
  BY DEF Credit
<1>10. SumFunctionOnSet(feeTo, Addresses) = fees
  <2>1. /\ feeTo[Treasury] = fees
        /\ \A x \in Addresses \ {Treasury} : feeTo[x] = 0
    BY <1>2
  <2> HIDE DEF feeTo
  <2> QED BY <1>2, <2>1, SumSingle
<1>11. SumFunctionOnSet(restTo, Addresses) = refund
  <2>1. /\ restTo[Sponsor] = refund
        /\ \A x \in Addresses \ {Sponsor} : restTo[x] = 0
    BY <1>2
  <2> HIDE DEF restTo, refund
  <2> QED BY <1>2, <1>3, <2>1, SumSingle
<1>12. \A x \in Addresses : feeTo[x] \in Nat /\ restTo[x] \in Nat
  BY <1>3
<1> HIDE DEF m, n, row, col, feeTo, restTo, two, all, refund, W
<1>13. SumFunctionOnSet(two, Addresses) = TotalDistributed(deposit, res) + fees
  <2>1. \A x \in Addresses : row[x] \in Int /\ feeTo[x] \in Int
    BY <1>7, <1>12
  <2> QED BY <1>2, <1>8, <1>9, <1>10, <2>1, SumPlus
<1>14. SumFunctionOnSet(all, Addresses)
         = (TotalDistributed(deposit, res) + fees) + refund
  <2>1. \A x \in Addresses : two[x] \in Int /\ restTo[x] \in Int
    BY <1>7, <1>9, <1>12
  <2> QED BY <1>2, <1>9, <1>11, <1>13, <2>1, SumPlus
<1>15. SumFunctionOnSet(all, Addresses) = deposit + fees
  <2> DEFINE total == TotalDistributed(deposit, res)
  <2>1. total \in Nat
    BY PrizesFitTheBounty
  <2>2. SumFunctionOnSet(all, Addresses) = (total + fees) + refund
    BY <1>14
  <2>3. refund \in Nat /\ refund + total = deposit
    BY <1>3
  <2> HIDE DEF total
  <2> QED BY <2>1, <2>2, <2>3
<1>16. \A x \in Addresses : all[x] \in Nat
  BY <1>7, <1>9, <1>12
<1> QED BY <1>15, <1>16 DEF all
=============================================================================
