------------------------- MODULE MCBountyMarketplace -------------------------
(* One proposer, two contributors who take ETH, and proposals whose terms    *)
(* the factory takes: what becomes of a goal that is just met.               *)
EXTENDS BountyMarketplace

CONSTANTS p1, c1, c2

MCProposers    == {p1}
MCContributors == {c1, c2}

\* MIN_BOUNTY_DEPOSIT is the smallest goal and the smallest contribution.
Asks(goal, cap) ==
  [duration |-> 1, fundingGoal |-> goal, fundingCap |-> cap, maxContributors |-> 0,
   minContribution |-> MIN_BOUNTY_DEPOSIT, suits |-> TRUE]

MCTerms == {Asks(50, 0), Asks(100, 110), Asks(110, 0)}
=============================================================================
