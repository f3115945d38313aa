---------------------------- MODULE FinalizeLoop ----------------------------
(***************************************************************************)
(* The body of BountyRound.finalize() as the machine executes it: the      *)
(* insertion sort, the choice of the payout, and the loop that credits the *)
(* winners while it accumulates totalDistributed, refundAmount and         *)
(* allocated.  Every action is one turn of a loop or one straight stretch  *)
(* of code.  BountyRound takes the whole call as one step and computes its *)
(* outcome with the closed forms of PrizeAllocation; this module shows     *)
(* that the loops arrive at the same outcome, and that no checked          *)
(* subtraction on the way can underflow.                                   *)
(***************************************************************************)
EXTENDS PrizeAllocation

CONSTANTS
  LoopDeposits, Fees, LoopResults,   \* the calls to examine
  RegistryAnswers                    \* what getAgentStable may answer

(* The oracle stores no empty result (EmptyResult); the registry answers   *)
(* with a stable or with none.                                             *)
ASSUME LoopAssumption ==
  /\ LoopDeposits \subseteq Nat /\ Fees \subseteq Nat
  /\ LoopResults \subseteq Seq(ScoreEntry) \ {<<>>}
  /\ RegistryAnswers \subseteq [Agents -> Stables \cup {NoStable}]

VARIABLES
  deposit, fees, res, stableOf,   \* what the call reads
  pc,
  i, j,                           \* loop counters, from 1
  key,                            \* keyScore and keyAgent
  ranked,                         \* _ranked and _scores, zipped
  effectiveBounty,
  credited,                       \* what was added to claimable
  allocated, totalDistributed, refundAmount

call      == <<deposit, fees, res, stableOf>>
money     == <<effectiveBounty, credited, allocated, totalDistributed, refundAmount>>
loop_vars == <<call, pc, i, j, key, ranked, money>>

LoopInit ==
  /\ deposit \in LoopDeposits /\ fees \in Fees
  /\ res \in LoopResults /\ stableOf \in RegistryAnswers
  /\ pc = "sort" /\ i = 2 /\ j = 1
  /\ key = res[1] /\ ranked = res
  /\ effectiveBounty = 0
  /\ credited = [x \in Addresses |-> 0]
  /\ allocated = 0 /\ totalDistributed = 0 /\ refundAmount = 0

----------------------------------------------------------------------------
(* for (i = 1; i < len; ++i): take the next entry out.                     *)
PickKey ==
  /\ pc = "sort" /\ i <= Len(ranked)
  /\ key' = ranked[i]
  /\ j' = i
  /\ pc' = "shift"
  /\ UNCHANGED <<call, i, ranked, money>>

(* Mutant of MustShift: ties are moved too, so the sort is not stable.     *)
MustShiftTies == j > 1 /\ ranked[j - 1].score <= key.score

MustShift == j > 1 /\ ranked[j - 1].score < key.score

(* while (j > 0 && _scores[j - 1] < keyScore)                              *)
Shift ==
  /\ pc = "shift" /\ MustShift
  /\ ranked' = [ranked EXCEPT ![j] = ranked[j - 1]]
  /\ j' = j - 1
  /\ UNCHANGED <<call, pc, i, key, money>>

Place ==
  /\ pc = "shift" /\ ~MustShift
  /\ ranked' = [ranked EXCEPT ![j] = key]
  /\ i' = i + 1
  /\ pc' = "sort"
  /\ UNCHANGED <<call, j, key, money>>

ChoosePayout ==
  /\ pc = "sort" /\ i > Len(ranked)
  /\ effectiveBounty' =
       LET best == ranked[1].score
       IN  Bps(deposit,
             IF best >= AcceptanceThreshold THEN BPS
             ELSE IF ~GraduatedPayouts THEN 0
             ELSE IF best >= (AcceptanceThreshold * 8000) \div BPS THEN 5000
             ELSE IF best >= (AcceptanceThreshold * 5000) \div BPS THEN 2500
             ELSE 0)
  /\ refundAmount' = deposit - effectiveBounty'
  /\ i' = 1
  /\ pc' = IF effectiveBounty' > 0 THEN "prizes" ELSE "close"
  /\ UNCHANGED <<call, j, key, ranked, credited, allocated, totalDistributed>>

WinnersCount ==
  IF Len(ranked) < Len(PrizeDistribution) THEN Len(ranked)
  ELSE Len(PrizeDistribution)

(* Mutant of AddAll: the balances are read before they are written, which  *)
(* shows when one account is credited twice.                               *)
AddAllStale(balances, x1, v1, x2, v2, x3, v3) ==
  [[[balances EXCEPT ![x1] = @ + v1]
      EXCEPT ![x2] = balances[x2] + v2]
      EXCEPT ![x3] = balances[x3] + v3]

(* claimable[x] += v for each of the three in turn.                        *)
AddAll(balances, x1, v1, x2, v2, x3, v3) ==
  LET once  == [balances EXCEPT ![x1] = @ + v1]
      twice == [once EXCEPT ![x2] = @ + v2]
  IN  [twice EXCEPT ![x3] = @ + v3]

(* Mutant of SlotPrize: the slot is paid from the whole deposit, partial   *)
(* payout or not.                                                          *)
SlotPrizeOfDeposit == (deposit * PrizeDistribution[i]) \div BPS

SlotPrize == (effectiveBounty * PrizeDistribution[i]) \div BPS

(* Mutant of StableShare: the share is taken before the protocol fee.      *)
StableShareBeforeFee(gross, fee, stable) ==
  IF stable = NoStable THEN 0 ELSE (gross * RevenueShareBps[stable]) \div BPS

StableShare(gross, fee, stable) ==
  IF stable = NoStable THEN 0
  ELSE ((gross - fee) * RevenueShareBps[stable]) \div BPS

(* Credit the winner of prize slot i.                                      *)
Award ==
  /\ pc = "prizes" /\ i <= WinnersCount
  /\ LET agent     == ranked[i].agent
         gross     == SlotPrize
         fee       == (gross * ProtocolFeeBps) \div BPS
         stable    == stableOf[agent]
         stableCut == StableShare(gross, fee, stable)
         owner     == IF stable = NoStable THEN Treasury ELSE StableOwner[stable]
         agentCut  == (gross - fee) - stableCut
     IN  IF gross = 0
         THEN UNCHANGED <<credited, allocated, totalDistributed>>
         ELSE /\ totalDistributed' = totalDistributed + gross
              /\ credited' = AddAll(credited, Treasury, fee, owner, stableCut,
                                    Wallet[agent], agentCut)
              /\ allocated' = allocated + fee + stableCut + agentCut
  /\ i' = i + 1
  /\ UNCHANGED <<call, pc, j, key, ranked, effectiveBounty, refundAmount>>

(* What no winner took goes back to the sponsor.  The subtraction is       *)
(* checked; that it never underflows is part of NothingLost.               *)
ReturnUndistributed ==
  /\ pc = "prizes" /\ i > WinnersCount
  /\ refundAmount' = refundAmount + (effectiveBounty - totalDistributed)
  /\ pc' = "close"
  /\ UNCHANGED <<call, i, j, key, ranked, effectiveBounty, credited,
                 allocated, totalDistributed>>

(* Entry fees to the treasury, refund to the sponsor.                      *)
Close ==
  /\ pc = "close"
  /\ credited' = AddAll(credited, Treasury, fees, Sponsor, refundAmount,
                        Sponsor, 0)
  /\ allocated' = allocated + fees + refundAmount
  /\ pc' = "done"
  /\ UNCHANGED <<call, i, j, key, ranked, effectiveBounty,
                 totalDistributed, refundAmount>>

LoopNext == \/ PickKey \/ Shift \/ Place
            \/ ChoosePayout \/ Award \/ ReturnUndistributed \/ Close

LoopSpec == LoopInit /\ [][LoopNext]_loop_vars

----------------------------------------------------------------------------
(* After the sort the entry at place Rank(res, k) is entry k: descending   *)
(* by score, ties in the order the scorer listed them, no entry lost.      *)
SortedByRank ==
  pc \in {"prizes", "close", "done"} =>
    /\ Len(ranked) = Len(res)
    /\ \A k \in DOMAIN res : ranked[Rank(res, k)] = res[k]

(* At every turn of the loop the wei credited are the wei allocated, and   *)
(* while prizes are awarded they are the wei distributed: a fee, a cut or  *)
(* a refund is never counted on one side only.  No more is distributed     *)
(* than there is, so no checked subtraction makes finalize() revert.       *)
NothingLost ==
  /\ totalDistributed <= effectiveBounty /\ effectiveBounty <= deposit
  /\ SumFunctionOnSet(credited, Addresses) = allocated
  /\ pc # "done" => allocated = totalDistributed
  /\ pc = "done" => allocated = deposit + fees

(* The loops sort by rank and compute what PrizeAllocation states in       *)
(* closed form (BountyRound.sol, finalize).                                *)
ClosedForm ==
  /\ SortedByRank
  /\ pc = "done" =>
    /\ effectiveBounty = EffectiveBounty(deposit, res)
    /\ totalDistributed = TotalDistributed(deposit, res)
    /\ refundAmount = RefundAmount(deposit, res)
    /\ allocated = Allocated(deposit, fees, res, stableOf)
    /\ \A x \in Addresses :
         credited[x] = Credit(deposit, fees, res, stableOf, x)
=============================================================================
