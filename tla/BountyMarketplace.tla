-------------------------- MODULE BountyMarketplace --------------------------
(***************************************************************************)
(* contracts/src/BountyMarketplace.sol: proposals that many contributors   *)
(* fund, the activation that turns one into a bounty round, and the ways   *)
(* back out of one that is not funded.  What BountyFactory and BountyRound *)
(* check when the marketplace calls them is in RoundOpens.  One action is  *)
(* one transaction that does not revert.                                   *)
(***************************************************************************)
EXTENDS Integers, FiniteSets, Functions

CONSTANTS
  Proposers, Contributors,
  RefusesEth,            \* the proposers and contributors that refuse ETH
  NoProposer,            \* address(0)
  Terms,                 \* what a proposal may ask for, see TermsType
  Contributions,         \* amounts a contributor may send
  PROPOSAL_DEPOSIT, MIN_BOUNTY_DEPOSIT, PROTOCOL_FEE_BPS,
  MIN_FUNDING_DURATION, MAX_FUNDING_DURATION,
  MaxProposals, MaxTime  \* bounds

BPS_DENOMINATOR == 10000

\* suits: whether createBounty() takes the tier and the number of agents.
TermsType == [duration : Nat, fundingGoal : Nat, fundingCap : Nat, maxContributors : Nat,
              minContribution : Nat, suits : BOOLEAN]

ASSUME MarketAssumption ==
  /\ IsFiniteSet(Contributors) /\ MaxProposals \in Nat
  /\ PROPOSAL_DEPOSIT \in Nat /\ MIN_BOUNTY_DEPOSIT \in Nat \ {0}
  /\ Contributions \subseteq Nat /\ Terms \subseteq TermsType

VARIABLES
  block_time,
  proposals,
  nextProposalId,
  contributions,
  cash           \* address(this).balance

market_vars == <<block_time, proposals, nextProposalId, contributions, cash>>

ProposalIds == 1 .. MaxProposals
NoProposal == [proposer |-> NoProposer, fundingDeadline |-> 0, terms |-> {}, status |-> "none",
               totalFunded |-> 0, contributorCount |-> 0]

MarketInit ==
  /\ block_time = 0
  /\ proposals = [p \in ProposalIds |-> NoProposal]
  /\ nextProposalId = 1
  /\ contributions = [p \in ProposalIds |-> [c \in Contributors |-> 0]]
  /\ cash = 0

-----------------------------------------------------------------------------
(* The checks of the terms are the contract's own; those of the factory    *)
(* are not made here.                                                      *)
ProposeBounty(who, t) ==
  /\ nextProposalId <= MaxProposals
  /\ t.duration \in MIN_FUNDING_DURATION .. MAX_FUNDING_DURATION
  /\ t.fundingGoal >= MIN_BOUNTY_DEPOSIT
  /\ t.minContribution >= MIN_BOUNTY_DEPOSIT
  /\ t.fundingCap > 0 => t.fundingCap >= t.fundingGoal
  /\ proposals' = [proposals EXCEPT ![nextProposalId] =
                     [proposer |-> who, fundingDeadline |-> block_time + t.duration, terms |-> t,
                      status |-> "FUNDING", totalFunded |-> 0, contributorCount |-> 0]]
  /\ nextProposalId' = nextProposalId + 1
  /\ cash' = cash + PROPOSAL_DEPOSIT
  /\ UNCHANGED <<block_time, contributions>>

prizePool(total) == total - (total * PROTOCOL_FEE_BPS) \div BPS_DENOMINATOR

\* _activateBounty() reverts when the proposer refuses the deposit, when
\* createBounty() refuses the configuration, and when depositBounty() of the
\* new round gets too little.
RoundOpens(p, total) ==
  /\ proposals[p].proposer \notin RefusesEth
  /\ proposals[p].terms.suits
  /\ prizePool(total) >= MIN_BOUNTY_DEPOSIT

\* The fee, the prize pool and the deposit leave the contract, which held
\* that much.
_activateBounty(p, total, held) ==
  /\ RoundOpens(p, total)
  /\ cash' = held - total - PROPOSAL_DEPOSIT

\* The contribution that reaches the cap activates the proposal at once, or
\* is refused with it.
Contribute(c, p, amount) ==
  LET prop  == proposals[p]
      t     == prop.terms
      total == prop.totalFunded + amount
  IN  /\ prop.status = "FUNDING"
      /\ block_time <= prop.fundingDeadline
      /\ amount >= t.minContribution
      /\ t.maxContributors > 0 => prop.contributorCount < t.maxContributors
      /\ contributions[p][c] = 0
      /\ t.fundingCap > 0 => total <= t.fundingCap
      /\ contributions' = [contributions EXCEPT ![p][c] = amount]
      /\ LET full == t.fundingCap > 0 /\ total >= t.fundingCap
         IN  /\ proposals' = [proposals EXCEPT
                  ![p].totalFunded = total,
                  ![p].contributorCount = @ + 1,
                  ![p].status = IF full THEN "ACTIVE" ELSE @]
             /\ IF full THEN _activateBounty(p, total, cash + amount)
                ELSE cash' = cash + amount
      /\ UNCHANGED <<block_time, nextProposalId>>

\* Anybody's call.
ActivateBounty(p) ==
  /\ proposals[p].status = "FUNDING"
  /\ block_time > proposals[p].fundingDeadline
  /\ proposals[p].totalFunded >= proposals[p].terms.fundingGoal
  /\ _activateBounty(p, proposals[p].totalFunded, cash)
  /\ proposals' = [proposals EXCEPT ![p].status = "ACTIVE"]
  /\ UNCHANGED <<block_time, nextProposalId, contributions>>

(* Mutant of Forfeit: the deposit is sent with every refund.               *)
ForfeitAgain(p) == IF proposals[p].status # "none" THEN PROPOSAL_DEPOSIT ELSE 0

\* The first refund of a proposal sends its deposit to the treasury.
Forfeit(p) == IF proposals[p].status = "FUNDING" THEN PROPOSAL_DEPOSIT ELSE 0

\* A call by somebody who has nothing to claim reverts, its expiry too.
ClaimRefund(c, p) ==
  /\ \/ /\ proposals[p].status = "FUNDING"
        /\ block_time > proposals[p].fundingDeadline
        /\ proposals[p].totalFunded < proposals[p].terms.fundingGoal
     \/ proposals[p].status = "EXPIRED"
  /\ contributions[p][c] # 0
  /\ c \notin RefusesEth
  /\ proposals' = [proposals EXCEPT ![p].status = "EXPIRED"]
  /\ contributions' = [contributions EXCEPT ![p][c] = 0]
  /\ cash' = cash - Forfeit(p) - contributions[p][c]
  /\ UNCHANGED <<block_time, nextProposalId>>

CancelProposal(who, p) ==
  /\ proposals[p].status = "FUNDING"
  /\ proposals[p].proposer = who
  /\ proposals[p].contributorCount = 0
  /\ who \notin RefusesEth
  /\ proposals' = [proposals EXCEPT ![p].status = "CANCELLED"]
  /\ cash' = cash - PROPOSAL_DEPOSIT
  /\ UNCHANGED <<block_time, nextProposalId, contributions>>

BlockTime ==
  /\ block_time < MaxTime
  /\ block_time' = block_time + 1
  /\ UNCHANGED <<proposals, nextProposalId, contributions, cash>>

MarketNext ==
  \/ BlockTime
  \/ \E who \in Proposers :
       \/ \E t \in Terms : ProposeBounty(who, t)
       \/ \E p \in ProposalIds : CancelProposal(who, p)
  \/ \E p \in ProposalIds :
       \/ ActivateBounty(p)
       \/ \E c \in Contributors :
            ClaimRefund(c, p) \/ \E amount \in Contributions : Contribute(c, p, amount)

\* Time passes, keepers activate what can be activated, and contributors ask
\* for refunds.
MarketFairness ==
  /\ WF_market_vars(BlockTime)
  /\ \A p \in ProposalIds :
       /\ WF_market_vars(ActivateBounty(p))
       /\ \A c \in Contributors : WF_market_vars(ClaimRefund(c, p))

MarketSpec == MarketInit /\ [][MarketNext]_market_vars /\ MarketFairness

-----------------------------------------------------------------------------
(* What the contract owes for a proposal: the deposit and the              *)
(* contributions while it is funded, the claims that are left afterwards.  *)
Owed(p) ==
  CASE proposals[p].status = "FUNDING" -> PROPOSAL_DEPOSIT + proposals[p].totalFunded
    [] proposals[p].status = "EXPIRED" -> SumFunction(contributions[p])
    [] OTHER -> 0

(* After any order of contributions, activation, lazy expiry, refunds and  *)
(* cancellation of several proposals, the contract holds to the wei what   *)
(* it owes: no deposit or contribution leaves twice, none is paid with the *)
(* money of another proposal, and the running total of a proposal is what  *)
(* its contributors may claim (BountyMarketplace.sol, claimRefund).        *)
MarketBacked ==
  /\ cash = SumFunction([p \in ProposalIds |-> Owed(p)])
  /\ \A p \in ProposalIds : proposals[p].status = "FUNDING" =>
       /\ proposals[p].totalFunded = SumFunction(contributions[p])
       /\ proposals[p].contributorCount
            = Cardinality({c \in Contributors : contributions[p][c] > 0})

(* A contribution to a proposal whose terms the factory takes never stays  *)
(* in the contract: the proposal is activated or the contributor gets its  *)
(* money back (BountyMarketplace.sol, activateBounty and claimRefund).     *)
NoFundLockup ==
  \A p \in ProposalIds, c \in Contributors :
    (/\ proposals[p].status = "FUNDING" /\ contributions[p][c] > 0
     /\ proposals[p].terms.suits /\ {c, proposals[p].proposer} \cap RefusesEth = {})
      ~> (proposals[p].status = "ACTIVE" \/ contributions[p][c] = 0)
=============================================================================
