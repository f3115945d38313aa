-------------------------- MODULE PrizeAllocation --------------------------
(***************************************************************************)
(* The arithmetic of BountyRound.finalize(): how a verified result of the  *)
(* ScoringOracle turns the sponsor's deposit and the entry fees into claim *)
(* balances.  There is no state here: module BountyRound applies these     *)
(* operators in its Finalize action, FinalizeLoop compares them with the   *)
(* loops of the source, and PrizeAllocationProofs proves that every wei of *)
(* the deposit and of the fees is credited exactly once.                   *)
(*                                                                         *)
(* Divisions of naturals truncate in Solidity and in TLA+ alike.           *)
(***************************************************************************)
EXTENDS Integers, Sequences, FiniteSets, Functions

CONSTANTS
  Agents,               \* registry ids of the agents
  Addresses,            \* accounts that can hold a claim balance
  Wallet,               \* arenaRegistry.getAgent(id).wallet, never changes
  Sponsor, Treasury,
  Stables,              \* ids of StableRegistry, each with
  StableOwner,          \*   an owner and
  RevenueShareBps,      \*   an immutable revenue share
  NoStable,             \* stable id 0: the agent belongs to no stable
  PrizeDistribution,    \* BPS of the effective bounty for each prize slot
  ProtocolFeeBps,
  AcceptanceThreshold,  \* minimum best score for the full payout
  GraduatedPayouts      \* whether partial payouts are enabled

BPS == 10000            \* Constants.BPS_DENOMINATOR
MaxProtocolFeeBps == 500
MaxRevenueShareBps == 5000

(* What BountyFactory._validateConfig, StableRegistry.createStable and the *)
(* fee constants guarantee of a round's configuration.                     *)
ASSUME AllocationAssumption ==
  /\ IsFiniteSet(Agents) /\ IsFiniteSet(Addresses)
  /\ Wallet \in [Agents -> Addresses]
  /\ Sponsor \in Addresses /\ Treasury \in Addresses
  /\ StableOwner \in [Stables -> Addresses]
  /\ RevenueShareBps \in [Stables -> 0 .. MaxRevenueShareBps]
  /\ NoStable \notin Stables
  /\ PrizeDistribution \in Seq(Nat)
  /\ SumFunctionOnSet(PrizeDistribution, DOMAIN PrizeDistribution) = BPS
  /\ ProtocolFeeBps \in 0 .. MaxProtocolFeeBps
  /\ AcceptanceThreshold \in Nat
  /\ GraduatedPayouts \in BOOLEAN

(* A result is the pair of arrays the oracle stores, entry by entry.       *)
ScoreEntry == [agent : Agents, score : Nat]

Bps(amount, bps) == (amount * bps) \div BPS

----------------------------------------------------------------------------
(* The place of entry i after the stable descending insertion sort: one    *)
(* plus the number of entries that end up before it.                       *)
Rank(res, i) ==
  1 + Cardinality({j \in DOMAIN res : \/ res[j].score > res[i].score
                                      \/ res[j].score = res[i].score /\ j < i})

Winners(res) == {i \in DOMAIN res : Rank(res, i) <= Len(PrizeDistribution)}

(* Some entry reaches the score s: the best score is at least s.           *)
BestReaches(res, s) == \E i \in DOMAIN res : res[i].score >= s

PayoutBps(res) ==
  IF BestReaches(res, AcceptanceThreshold) THEN BPS
  ELSE IF GraduatedPayouts /\ BestReaches(res, Bps(AcceptanceThreshold, 8000)) THEN 5000
  ELSE IF GraduatedPayouts /\ BestReaches(res, Bps(AcceptanceThreshold, 5000)) THEN 2500
  ELSE 0

EffectiveBounty(deposit, res) == Bps(deposit, PayoutBps(res))

GrossPrize(deposit, res, i) ==
  Bps(EffectiveBounty(deposit, res), PrizeDistribution[Rank(res, i)])

ProtocolFee(gross) == Bps(gross, ProtocolFeeBps)

(* stableOf[a] is stableRegistry.getAgentStable(a) when finalize() reads   *)
(* it.                                                                     *)
StableCut(gross, stable) ==
  IF stable = NoStable THEN 0
  ELSE Bps(gross - ProtocolFee(gross), RevenueShareBps[stable])

AgentCut(gross, stable) ==
  gross - ProtocolFee(gross) - StableCut(gross, stable)

(* The part of winner i's gross prize that is credited to address x.       *)
WinnerCredit(deposit, res, stableOf, x, i) ==
  LET gross  == GrossPrize(deposit, res, i)
      stable == stableOf[res[i].agent]
  IN  (IF x = Treasury THEN ProtocolFee(gross) ELSE 0)
      + (IF stable # NoStable /\ x = StableOwner[stable]
         THEN StableCut(gross, stable) ELSE 0)
      + (IF x = Wallet[res[i].agent] THEN AgentCut(gross, stable) ELSE 0)

TotalDistributed(deposit, res) ==
  SumFunctionOnSet([i \in Winners(res) |-> GrossPrize(deposit, res, i)],
                   Winners(res))

(* Mutant of RefundAmount: prize slots without a winner stay behind.       *)
RefundWithoutEmptySlots(deposit, res) == deposit - EffectiveBounty(deposit, res)

(* deposit - effectiveBounty, plus the prize slots nobody filled and the   *)
(* dust the divisions leave.                                               *)
RefundAmount(deposit, res) ==
  (deposit - EffectiveBounty(deposit, res))
    + (EffectiveBounty(deposit, res) - TotalDistributed(deposit, res))

(* What finalize() adds to claimable[x].                                   *)
Credit(deposit, fees, res, stableOf, x) ==
  SumFunctionOnSet([i \in Winners(res) |->
                      WinnerCredit(deposit, res, stableOf, x, i)],
                   Winners(res))
  + (IF x = Treasury THEN fees ELSE 0)
  + (IF x = Sponsor THEN RefundAmount(deposit, res) ELSE 0)

(* Mutant of Allocated: the entry fees are not counted.                    *)
AllocatedWithoutFees(deposit, fees, res, stableOf) ==
  TotalDistributed(deposit, res) + RefundAmount(deposit, res)

(* The running total `allocated` that finalize() stores in totalClaimable. *)
Allocated(deposit, fees, res, stableOf) ==
  SumFunctionOnSet(
    [i \in Winners(res) |->
       LET gross  == GrossPrize(deposit, res, i)
           stable == stableOf[res[i].agent]
       IN  ProtocolFee(gross) + StableCut(gross, stable)
             + AgentCut(gross, stable)],
    Winners(res))
  + fees + RefundAmount(deposit, res)
=============================================================================
