----------------------------- MODULE MCContracts -----------------------------
(* Small instances of one round, of the loops of its finalize(), of the      *)
(* contracts around it that share no state with it, and of the service that  *)
(* scores it.  As in MCServices each behaviour is one of the component its   *)
(* initial state names, the others stay as they start.                       *)
EXTENDS BountyRound, FinalizeLoop, StableRegistry, BountyMarketplace, ArbitrationDAO,
        SeasonManager, TLC

CONSTANTS a1, a2, a3, w1, w2, sp, tr, s1, r1, NoPayload

VARIABLES
  focus,      \* the component whose behaviour it is
  chainPhase, entered, committed, oracle, stray, relay, mem, disk, diskSolutions, vault,
  slots, tasks, accepted, restarts

-----------------------------------------------------------------------------
(* finalize(): every result of up to three entries with scores around the    *)
(* threshold of 7000, full payout, both partial tiers and none, for agents   *)
(* in and out of a stable.  The stable belongs to a stranger, which the      *)
(* registry rules out and the loop does not rely on.  One slot is too small  *)
(* to pay a wei.                                                             *)

MCAgents    == {a1, a2, a3}
MCAddresses == {w1, w2, sp, tr}
MCWallet    == [a \in MCAgents |-> IF a = a2 THEN w2 ELSE w1]
MCStables   == {s1}
MCStableOwner     == [s \in MCStables |-> w2]
MCRevenueShareBps == [s \in MCStables |-> 3333]
MCMemberships     == {[a \in MCAgents |-> IF a = a1 THEN s ELSE NoStable] :
                        s \in {s1, NoStable}}

Entry(a, s) == [agent |-> a, score |-> s]
LoopEntries == [agent : {a1, a2}, score : {7000, 5600, 3500, 3499}]
LoopCalls   == UNION {[1 .. n -> LoopEntries] : n \in 1 .. 3}
UnevenSlots == <<4999, 5000, 1>>

-----------------------------------------------------------------------------
(* One round in the deployed configuration, where the factory never cancels; *)
(* the agent a2 has a wallet that refuses ETH.  Its result may be above the  *)
(* threshold, a tie, between the payout tiers, below every tier, and may     *)
(* name an agent twice.                                                      *)
MCResults ==
  { <<Entry(a1, 9000)>>,
    <<Entry(a1, 5000), Entry(a2, 8000)>>,
    <<Entry(a1, 5600), Entry(a2, 5600)>>,
    <<Entry(a2, 3500)>>,
    <<Entry(a2, 100), Entry(a1, 100)>>,
    <<Entry(a1, 7000), Entry(a1, 7000)>> }

-----------------------------------------------------------------------------
(* The season: a board of two for three agents, rounds with one to three.    *)
MCRankings == {<<a1>>, <<a2, a1>>, <<a3, a1, a2>>, <<a2, a2>>}

(* Two proposals, two contributors; a proposer refuses ETH.  The third terms *)
(* may miss their goal with both contributions or meet it.                   *)
MCProposers    == {sp, w2}
MCContributors == {w1, a1}
MCTerms ==
  {[duration |-> 1, fundingGoal |-> 50, fundingCap |-> 0, maxContributors |-> 1,
    minContribution |-> 50, suits |-> TRUE],
   [duration |-> 1, fundingGoal |-> 100, fundingCap |-> 110, maxContributors |-> 0,
    minContribution |-> 50, suits |-> TRUE],
   [duration |-> 2, fundingGoal |-> 115, fundingCap |-> 0, maxContributors |-> 0,
    minContribution |-> 50, suits |-> FALSE]}

(* Of the three arbitrators one refuses ETH; two judge a dispute.  The       *)
(* disputes of the two rounds may overlap, and time out as soon as they are  *)
(* open.                                                                     *)
MCArbitrators   == {a1, a2, a3}
MCDisputeRounds == {s1, w2}

-----------------------------------------------------------------------------
(* One agent, one round and one scoring slot of a service that is not        *)
(* restarted: after a restart ScoringEnds promises nothing.                  *)
Service == INSTANCE ScoringService WITH
  Rounds <- {r1}, Agents <- {a1}, PublicRounds <- {}, Scores <- {0},
  MaxConcurrentScoring <- 1, OperatorWaits <- FALSE, TaskIds <- 1 .. 2,
  MaxRequests <- 1, MaxGenerations <- 2, MaxRestarts <- 0

-----------------------------------------------------------------------------
scoring_vars  == <<chainPhase, entered, committed, oracle, stray, relay, mem, disk,
                   diskSolutions, vault, slots, tasks, accepted, restarts>>
contract_vars == <<focus, vars, loop_vars, stable_vars, season_vars, market_vars, dao_vars,
                   scoring_vars>>

\* The loops that are not looked at start with one call only.
ContractsInit ==
  /\ focus \in {"round", "finalize", "stables", "season", "market", "dao", "service"}
  /\ Init
  /\ LoopInit
  /\ focus # "finalize" => deposit = 7 /\ res = <<Entry(a1, 7000)>> /\ stableOf[a1] = s1
  /\ StableInit /\ SeasonInit /\ MarketInit /\ DaoInit /\ Service!Init

ContractsNext ==
  /\ UNCHANGED focus
  /\ \/ focus = "round" /\ Next
     \/ focus # "round" /\ UNCHANGED vars
  /\ \/ focus = "finalize" /\ LoopNext
     \/ focus # "finalize" /\ UNCHANGED loop_vars
  /\ \/ focus = "stables" /\ StableNext
     \/ focus # "stables" /\ UNCHANGED stable_vars
  /\ \/ focus = "season" /\ SeasonNext
     \/ focus # "season" /\ UNCHANGED season_vars
  /\ \/ focus = "market" /\ MarketNext
     \/ focus # "market" /\ UNCHANGED market_vars
  /\ \/ focus = "dao" /\ DaoNext
     \/ focus # "dao" /\ UNCHANGED dao_vars
  /\ \/ focus = "service" /\ Service!Next
     \/ focus # "service" /\ UNCHANGED scoring_vars

\* The steps of the round that somebody is sure to make and the threads of the
\* service, see Fairness in BountyRound and FairSpec in ScoringService.
ContractsFairness ==
  /\ WF_vars(focus = "round" /\ Tick)
  /\ WF_vars(focus = "round" /\ (StartScoringPhase \/ CancelExpired))
  /\ WF_vars(focus = "round" /\ CancelScoringTimeout)
  /\ WF_vars(focus = "round" /\ SweepExpiredClaims)
  /\ \A a \in MCAgents : WF_vars(focus = "round" /\ EmergencyWithdraw(a))
  /\ WF_vars(focus = "round" /\ SponsorWithdraw)
  /\ \A k \in 1 .. 2 : WF_scoring_vars(focus = "service" /\ Service!TaskStep(k))

ContractsSpec == ContractsInit /\ [][ContractsNext]_contract_vars /\ ContractsFairness

-----------------------------------------------------------------------------
\* As long as the service is not restarted, a scoring ends (_run_scoring_v2).
ScoringEnds == Service!ScoringEnds
=============================================================================
