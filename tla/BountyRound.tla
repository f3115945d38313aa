---------------------------- MODULE BountyRound ----------------------------
(***************************************************************************)
(* One clone of contracts/src/BountyRound.sol: the sponsor's escrow, the   *)
(* entry fees, the phases, the allocation of prizes to claim balances and  *)
(* every way in which ETH leaves the contract, together with what the      *)
(* round reads from other contracts while strangers act on them: the       *)
(* write-once result of ScoringOracle and the activity of agents in        *)
(* ArenaRegistry.                                                          *)
(*                                                                         *)
(* One action stands for one transaction that does not revert; a           *)
(* transaction that reverts changes nothing.  Everybody may interleave     *)
(* with everybody, which is what a public mempool allows.                  *)
(***************************************************************************)
EXTENDS PrizeAllocation

CONSTANTS
  Factory,          \* the BountyFactory; it holds no money in a round
  Rejecting,        \* addresses whose code refuses a transfer of ETH
  Eligible,         \* agents whose registry tier is requiredTier
  Results,          \* results the holder of SCORER_ROLE may submit
  NoResult,
  Deposits,         \* amounts the sponsor may send
  MinBountyDeposit,
  EntryFee,
  MaxAgents,        \* 0 = unlimited
  CommitDuration, ScoringTimeout, ClaimExpiry,
  MaxElapsed,       \* where the clock stops counting
  FactoryCancels    \* whether the factory ever uses its right to cancel

(* A number of ticks beyond every duration cannot be told from a larger    *)
(* one, because the code only compares with `>`.                           *)
ASSUME RoundAssumption ==
  /\ Factory \notin Addresses
  /\ Rejecting \subseteq Addresses
  /\ Eligible \subseteq Agents
  /\ Results \subseteq {res \in Seq(ScoreEntry) : res # <<>>}
  /\ NoResult \notin Results
  /\ Deposits \subseteq Nat
  /\ {MinBountyDeposit, EntryFee, MaxAgents} \subseteq Nat
  /\ {CommitDuration, ScoringTimeout, ClaimExpiry} \subseteq Nat
  /\ MaxElapsed \in Nat
  /\ MaxElapsed > CommitDuration
  /\ MaxElapsed > ScoringTimeout
  /\ MaxElapsed > ClaimExpiry
  /\ FactoryCancels \in BOOLEAN

VARIABLES
  phase,
  sponsorDeposit,
  totalEntryFees,
  participants,     \* participants[] and _isParticipant: pushed once per agent
  commitments,      \* the participants that have committed a hash
  hasWithdrawn,
  claimable,
  totalClaimable,
  fundsAllocated,
  elapsed,          \* block.timestamp minus the timestamp the phase compares
                    \* with: the deposit, scoringStartedAt, claimsAllocatedAt
  balance,          \* address(this).balance
  deposited,        \* history: what the sponsor sent
  paid,             \* history: what the round has sent to each address
  result,           \* ScoringOracle._results[this]
  active            \* agents with deregisteredAt = 0 in ArenaRegistry

escrowVars == <<sponsorDeposit, totalEntryFees, participants, commitments,
                hasWithdrawn, deposited>>
claimVars  == <<claimable, totalClaimable, fundsAllocated>>
cashVars   == <<balance, paid>>
outside    == <<result, active>>
vars == <<phase, escrowVars, claimVars, elapsed, cashVars, outside>>

Phases == {"OPEN", "COMMIT", "SCORING", "SETTLED", "CANCELLED", "DISPUTED"}

Init ==
  /\ phase = "OPEN"
  /\ sponsorDeposit = 0
  /\ totalEntryFees = 0
  /\ participants = {}
  /\ commitments = {}
  /\ hasWithdrawn = {}
  /\ claimable = [x \in Addresses |-> 0]
  /\ totalClaimable = 0
  /\ fundsAllocated = FALSE
  /\ elapsed = 0
  /\ balance = 0
  /\ deposited = 0
  /\ paid = [x \in Addresses |-> 0]
  /\ result = NoResult
  /\ active = Agents

----------------------------------------------------------------------------
(* The sponsor pays the prize pool in; the commit clock starts at once.    *)
DepositBounty(value) ==
  /\ phase = "OPEN"
  /\ value > 0 /\ value >= MinBountyDeposit
  /\ sponsorDeposit' = value
  /\ deposited' = value
  /\ balance' = balance + value
  /\ elapsed' = 0
  /\ phase' = "COMMIT"
  /\ UNCHANGED <<totalEntryFees, participants, commitments, hasWithdrawn,
                 claimVars, paid, outside>>

(* Mutant of Enter: the fee is booked but never checked against msg.value. *)
EnterUnpaid(a) ==
  /\ phase = "COMMIT"
  /\ elapsed <= CommitDuration
  /\ a \in active \cap Eligible
  /\ MaxAgents > 0 => Cardinality(participants) < MaxAgents
  /\ a \notin participants
  /\ participants' = participants \cup {a}
  /\ totalEntryFees' = totalEntryFees + EntryFee
  /\ UNCHANGED <<phase, sponsorDeposit, commitments, hasWithdrawn, deposited,
                 claimVars, elapsed, cashVars, outside>>

(* The wallet of agent a pays the entry fee.                               *)
Enter(a) ==
  /\ phase = "COMMIT"
  /\ elapsed <= CommitDuration
  /\ a \in active
  /\ a \in Eligible
  /\ MaxAgents > 0 => Cardinality(participants) < MaxAgents
  /\ a \notin participants
  /\ participants' = participants \cup {a}
  /\ totalEntryFees' = totalEntryFees + EntryFee
  /\ balance' = balance + EntryFee
  /\ UNCHANGED <<phase, sponsorDeposit, commitments, hasWithdrawn, deposited,
                 claimVars, elapsed, paid, outside>>

(* A participant records the hash of its solution, or replaces it.         *)
CommitSolution(a) ==
  /\ phase = "COMMIT"
  /\ elapsed <= CommitDuration
  /\ a \in participants
  /\ commitments' = commitments \cup {a}
  /\ UNCHANGED <<phase, sponsorDeposit, totalEntryFees, participants,
                 hasWithdrawn, deposited, claimVars, elapsed, cashVars, outside>>

StartScoringPhase ==
  /\ phase = "COMMIT"
  /\ elapsed > CommitDuration
  /\ participants # {}
  /\ phase' = "SCORING"
  /\ elapsed' = 0
  /\ UNCHANGED <<escrowVars, claimVars, cashVars, outside>>

(* The code does not ask whether anybody entered or committed.             *)
CancelExpired ==
  /\ phase = "COMMIT"
  /\ elapsed > CommitDuration
  /\ phase' = "CANCELLED"
  /\ UNCHANGED <<escrowVars, claimVars, elapsed, cashVars, outside>>

(* Mutants of CancelScoringTimeout: the inPhase modifier is forgotten; a   *)
(* round that has a result can no longer time out.                         *)
CancelAnyTimeout ==
  /\ elapsed > ScoringTimeout
  /\ phase' = "CANCELLED"
  /\ UNCHANGED <<escrowVars, claimVars, elapsed, cashVars, outside>>

CancelUnscoredTimeout ==
  /\ phase = "SCORING"
  /\ result = NoResult
  /\ elapsed > ScoringTimeout
  /\ phase' = "CANCELLED"
  /\ UNCHANGED <<escrowVars, claimVars, elapsed, cashVars, outside>>

CancelScoringTimeout ==
  /\ phase = "SCORING"
  /\ elapsed > ScoringTimeout
  /\ phase' = "CANCELLED"
  /\ UNCHANGED <<escrowVars, claimVars, elapsed, cashVars, outside>>

Dispute(sender) ==
  /\ phase = "SCORING"
  /\ \/ sender = Sponsor
     \/ \E a \in participants : sender = Wallet[a]
  /\ phase' = "DISPUTED"
  /\ UNCHANGED <<escrowVars, claimVars, elapsed, cashVars, outside>>

----------------------------------------------------------------------------
(* Stable membership as StableRegistry can have it: linkAgent demands that *)
(* the caller owns the stable and is the wallet of the agent.              *)
Memberships ==
  {m \in [Agents -> Stables \cup {NoStable}] :
     \A a \in Agents : m[a] # NoStable => StableOwner[m[a]] = Wallet[a]}

(* Anyone settles the round from the verified result.  Agents may join or  *)
(* leave their stables until this transaction, so stableOf is whatever the *)
(* registry holds at that moment.  The subtraction that computes the       *)
(* refund is checked, and recordRoundResult reverts for an agent that has  *)
(* been deregistered: both are guards.                                     *)
Finalize(stableOf) ==
  /\ phase = "SCORING"
  /\ ~fundsAllocated
  /\ result # NoResult
  /\ \A i \in DOMAIN result : result[i].agent \in participants
  /\ TotalDistributed(sponsorDeposit, result)
       <= EffectiveBounty(sponsorDeposit, result)
  /\ \A i \in DOMAIN result : result[i].agent \in active
  /\ claimable' =
       [x \in Addresses |->
          claimable[x] + Credit(sponsorDeposit, totalEntryFees, result,
                                stableOf, x)]
  /\ totalClaimable' =
       Allocated(sponsorDeposit, totalEntryFees, result, stableOf)
  /\ fundsAllocated' = TRUE
  /\ elapsed' = 0
  /\ phase' = "SETTLED"
  /\ UNCHANGED <<escrowVars, cashVars, outside>>

(* _safeTransferEth: the call fails when the recipient refuses it or the   *)
(* balance is too small, and a transfer of nothing is skipped.             *)
Transfer(to, amount) ==
  /\ amount > 0 => to \notin Rejecting /\ amount <= balance
  /\ balance' = balance - amount
  /\ paid' = [paid EXCEPT ![to] = @ + amount]

(* Mutant of Claim: the claim balance is not zeroed.                       *)
ClaimWithoutReset(recipient) ==
  /\ claimable[recipient] > 0
  /\ fundsAllocated /\ elapsed <= ClaimExpiry
  /\ claimable[recipient] <= totalClaimable
  /\ totalClaimable' = totalClaimable - claimable[recipient]
  /\ Transfer(recipient, claimable[recipient])
  /\ UNCHANGED <<phase, escrowVars, claimable, fundsAllocated, elapsed, outside>>

(* Anyone may claim on behalf of a recipient.                              *)
Claim(recipient) ==
  /\ claimable[recipient] > 0
  /\ fundsAllocated /\ elapsed <= ClaimExpiry
  /\ claimable[recipient] <= totalClaimable
  /\ claimable' = [claimable EXCEPT ![recipient] = 0]
  /\ totalClaimable' = totalClaimable - claimable[recipient]
  /\ Transfer(recipient, claimable[recipient])
  /\ UNCHANGED <<phase, escrowVars, fundsAllocated, elapsed, outside>>

(* Mutant of ClaimBatch: a failed transfer restores the claim balance but  *)
(* not the total.                                                          *)
ClaimBatchHalfRestored(recipients, served) ==
  LET total  == SumFunctionOnSet(claimable, served)
      failed == recipients \ served
  IN  /\ fundsAllocated /\ elapsed <= ClaimExpiry
      /\ served = recipients \ Rejecting
      /\ total <= balance
      /\ SumFunctionOnSet(claimable, recipients) <= totalClaimable
      /\ claimable' = [x \in Addresses |->
                         IF x \in served THEN 0 ELSE claimable[x]]
      /\ totalClaimable' =
           totalClaimable - total - SumFunctionOnSet(claimable, failed)
      /\ balance' = balance - total
      /\ paid' = [x \in Addresses |->
                    IF x \in served THEN paid[x] + claimable[x] ELSE paid[x]]
      /\ UNCHANGED <<phase, escrowVars, fundsAllocated, elapsed, outside>>

(* One transaction claims for several recipients.  A transfer that fails   *)
(* is credited back and does not stop the others; since the transfers are  *)
(* made in the order given, those that fail for want of balance are those  *)
(* too large for what the paid ones leave.                                 *)
ClaimBatch(recipients, served) ==
  LET total == SumFunctionOnSet(claimable, served)
  IN  /\ fundsAllocated /\ elapsed <= ClaimExpiry
      /\ served \subseteq recipients \ Rejecting
      /\ total <= balance /\ total <= totalClaimable
      /\ \A x \in recipients \ (served \cup Rejecting) :
           claimable[x] > balance - total
      /\ claimable' = [x \in Addresses |->
                         IF x \in served THEN 0 ELSE claimable[x]]
      /\ totalClaimable' = totalClaimable - total
      /\ balance' = balance - total
      /\ paid' = [x \in Addresses |->
                    IF x \in served THEN paid[x] + claimable[x] ELSE paid[x]]
      /\ UNCHANGED <<phase, escrowVars, fundsAllocated, elapsed, outside>>

(* After the expiry anyone sends what is left to the treasury.  The claim  *)
(* balances keep their values; only their total is reset.                  *)
SweepExpiredClaims ==
  /\ fundsAllocated
  /\ elapsed > ClaimExpiry
  /\ totalClaimable > 0
  /\ totalClaimable' = 0
  /\ Transfer(Treasury, totalClaimable)
  /\ UNCHANGED <<phase, escrowVars, claimable, fundsAllocated, elapsed, outside>>

----------------------------------------------------------------------------
(* Mutant of Cancel: the sponsor may cancel although agents have entered.  *)
CancelDespiteAgents(sender) ==
  /\ \/ sender = Factory /\ FactoryCancels
     \/ sender = Sponsor /\ phase \in {"OPEN", "COMMIT"}
  /\ phase' = "CANCELLED"
  /\ UNCHANGED <<escrowVars, claimVars, elapsed, cashVars, outside>>

(* The factory may cancel in every phase; the sponsor, in every phase too, *)
(* as long as nobody has entered.                                          *)
Cancel(sender) ==
  /\ \/ sender = Factory /\ FactoryCancels
     \/ sender = Sponsor /\ participants = {}
  /\ phase' = "CANCELLED"
  /\ UNCHANGED <<escrowVars, claimVars, elapsed, cashVars, outside>>

(* Mutants of EmergencyWithdraw: the NotParticipant and the                *)
(* AlreadyWithdrawn checks are forgotten.                                  *)
WithdrawStranger(a) ==
  /\ phase = "CANCELLED"
  /\ a \notin hasWithdrawn
  /\ hasWithdrawn' = hasWithdrawn \cup {a}
  /\ Transfer(Wallet[a], EntryFee)
  /\ UNCHANGED <<phase, sponsorDeposit, totalEntryFees, participants,
                 commitments, deposited, claimVars, elapsed, outside>>

WithdrawTwice(a) ==
  /\ phase = "CANCELLED"
  /\ a \in participants
  /\ hasWithdrawn' = hasWithdrawn \cup {a}
  /\ Transfer(Wallet[a], EntryFee)
  /\ UNCHANGED <<phase, sponsorDeposit, totalEntryFees, participants,
                 commitments, deposited, claimVars, elapsed, outside>>

(* The wallet of a takes its entry fee back after a cancellation.          *)
EmergencyWithdraw(a) ==
  /\ phase = "CANCELLED"
  /\ a \in participants
  /\ a \notin hasWithdrawn
  /\ hasWithdrawn' = hasWithdrawn \cup {a}
  /\ Transfer(Wallet[a], EntryFee)
  /\ UNCHANGED <<phase, sponsorDeposit, totalEntryFees, participants,
                 commitments, deposited, claimVars, elapsed, outside>>

(* Mutant of SponsorWithdraw: the deposit is not zeroed.                   *)
SponsorWithdrawAgain ==
  /\ phase = "CANCELLED"
  /\ sponsorDeposit > 0
  /\ Transfer(Sponsor, sponsorDeposit)
  /\ UNCHANGED <<phase, escrowVars, claimVars, elapsed, outside>>

(* The sponsor takes its deposit back after a cancellation.                *)
SponsorWithdraw ==
  /\ phase = "CANCELLED"
  /\ sponsorDeposit > 0
  /\ sponsorDeposit' = 0
  /\ Transfer(Sponsor, sponsorDeposit)
  /\ UNCHANGED <<phase, totalEntryFees, participants, commitments,
                 hasWithdrawn, deposited, claimVars, elapsed, outside>>

----------------------------------------------------------------------------
(* ScoringOracle.submitScores: once per round, whatever the round's phase. *)
SubmitScores(res) ==
  /\ result = NoResult
  /\ result' = res
  /\ UNCHANGED <<phase, escrowVars, claimVars, elapsed, cashVars, active>>

(* ArenaRegistry.deregister: the owner retires an agent, for good.         *)
Deregister(a) ==
  /\ a \in active
  /\ active' = active \ {a}
  /\ UNCHANGED <<phase, escrowVars, claimVars, elapsed, cashVars, result>>

(* Time passes.  Outside the commit window, the scoring window and the     *)
(* claim window no guard reads the clock.                                  *)
Tick ==
  /\ phase \in {"COMMIT", "SCORING"} \/ fundsAllocated
  /\ elapsed < MaxElapsed
  /\ elapsed' = elapsed + 1
  /\ UNCHANGED <<phase, escrowVars, claimVars, cashVars, outside>>

Next ==
  \/ \E value \in Deposits : DepositBounty(value)
  \/ \E a \in Agents : Enter(a)
  \/ \E a \in Agents : CommitSolution(a)
  \/ StartScoringPhase
  \/ CancelExpired
  \/ CancelScoringTimeout
  \/ \E sender \in Addresses : Dispute(sender)
  \/ \E stableOf \in Memberships : Finalize(stableOf)
  \/ \E recipient \in Addresses : Claim(recipient)
  \/ \E recipients \in SUBSET Addresses :
       \E served \in SUBSET recipients : ClaimBatch(recipients, served)
  \/ SweepExpiredClaims
  \/ \E sender \in {Sponsor, Factory} : Cancel(sender)
  \/ \E a \in Agents : EmergencyWithdraw(a)
  \/ SponsorWithdraw
  \/ \E res \in Results : SubmitScores(res)
  \/ \E a \in Agents : Deregister(a)
  \/ Tick

Spec == Init /\ [][Next]_vars

(* Time passes, and whoever may make a transaction that moves a stuck      *)
(* round or returns money eventually does: the deadlines and the sweep are *)
(* open to anyone, and a refund is in the interest of the only account     *)
(* that may ask for it.  Nobody is obliged to enter, to commit, to submit  *)
(* scores, to finalize, to claim or to dispute.                            *)
Fairness ==
  /\ WF_vars(Tick)
  /\ WF_vars(StartScoringPhase \/ CancelExpired)
  /\ WF_vars(CancelScoringTimeout)
  /\ WF_vars(SweepExpiredClaims)
  /\ \A a \in Agents : WF_vars(EmergencyWithdraw(a))
  /\ WF_vars(SponsorWithdraw)

FairSpec == Spec /\ Fairness

----------------------------------------------------------------------------
(* Every variable stays in its type; the subtractions of the contract are  *)
(* checked, so no amount is ever negative.                                 *)
TypeOK ==
  /\ phase \in Phases
  /\ sponsorDeposit \in Nat /\ totalEntryFees \in Nat /\ deposited \in Nat
  /\ participants \subseteq Agents
  /\ commitments \subseteq participants
  /\ hasWithdrawn \subseteq participants
  /\ claimable \in [Addresses -> Nat]
  /\ totalClaimable \in Nat
  /\ fundsAllocated \in BOOLEAN
  /\ elapsed \in 0 .. MaxElapsed
  /\ balance \in Nat
  /\ paid \in [Addresses -> Nat]
  /\ result \in Results \cup {NoResult}
  /\ active \subseteq Agents

(* What the round still owes: the whole escrow while it is undecided, the  *)
(* claims once it is settled, the refunds not yet taken once cancelled.    *)
RefundsDue ==
  sponsorDeposit + EntryFee * Cardinality(participants \ hasWithdrawn)

Obligations ==
  CASE phase = "SETTLED"   -> totalClaimable
    [] phase = "CANCELLED" -> RefundsDue
    [] OTHER               -> sponsorDeposit + totalEntryFees

(* The contract holds exactly what it owes, to the wei, after any sequence *)
(* of transactions: no payment can fail for want of funds and no rounding  *)
(* leaves ETH behind.  The one exception is a factory that cancels a round *)
(* already settled, when claims and refunds compete for what is left.      *)
Solvent == (phase = "SETTLED" \/ ~fundsAllocated) => balance = Obligations

(* While claims can be made, the claim balances add up to totalClaimable,  *)
(* the scalar that finalize(), claim(), claimBatch() with its re-credits   *)
(* and the sweep keep beside the mapping.                                  *)
ClaimsBacked ==
  fundsAllocated /\ elapsed <= ClaimExpiry =>
    SumFunctionOnSet(claimable, Addresses) = totalClaimable

(* What came in from the sponsor and the agents is either still in the     *)
(* contract or has been sent to somebody.                                  *)
CashBook ==
  balance + SumFunctionOnSet(paid, Addresses) = deposited + totalEntryFees

EntriesOf(x, agents) == EntryFee * Cardinality({a \in agents : Wallet[a] = x})

Contribution(x) ==
  EntriesOf(x, participants) + (IF x = Sponsor THEN deposited ELSE 0)

StillDue(x) ==
  EntriesOf(x, participants \ hasWithdrawn)
    + (IF x = Sponsor THEN sponsorDeposit ELSE 0)

(* A cancelled round gives every account its own money back, no more and   *)
(* no less, in whatever order and however often the refunds are asked for. *)
RefundsExact ==
  phase = "CANCELLED" /\ ~fundsAllocated =>
    \A x \in Addresses : paid[x] + StillDue(x) = Contribution(x)

(* Once prizes are allocated, nobody but the treasury, which sweeps what   *)
(* has expired, gains or loses anything: whatever a transaction pays out   *)
(* it takes from that account's own claim balance.                         *)
EntitlementsFrozen ==
  [][fundsAllocated =>
       \A x \in Addresses \ {Treasury} :
         claimable'[x] + paid'[x] = claimable[x] + paid[x]]_vars

(* The two ways out exclude each other: a round that ever allocated prizes *)
(* is never cancelled, one that refunded a fee never settles, and neither  *)
(* end is left again.                                                      *)
OneWayOut ==
  [][/\ phase \in {"SETTLED", "CANCELLED"} => phase' = phase
     /\ fundsAllocated' => hasWithdrawn' = {} /\ sponsorDeposit' = deposited']_vars

(* Once an agent has paid to compete, the round is only called off when a  *)
(* deadline has passed: the sponsor cannot withdraw the prize in mid       *)
(* competition (INVARIANTS.md INV-4.4).  After the commit deadline it can, *)
(* by cancelExpired(), whatever has been committed: see                    *)
(* OnlyEmptyRoundsExpire.                                                  *)
NoRugPull ==
  [][phase # "CANCELLED" /\ phase' = "CANCELLED" /\ participants # {} =>
       \/ phase = "COMMIT"  /\ elapsed > CommitDuration
       \/ phase = "SCORING" /\ elapsed > ScoringTimeout]_vars

(* A funded round is decided: settled, cancelled or disputed.              *)
RoundIsDecided ==
  phase = "COMMIT" ~> phase \in {"SETTLED", "CANCELLED", "DISPUTED"}

(* Refunds that only their owners could take and whose owners refuse ETH.  *)
Unreturnable ==
  EntryFee * Cardinality({a \in participants : Wallet[a] \in Rejecting})
    + (IF Sponsor \in Rejecting THEN sponsorDeposit ELSE 0)

(* No ETH is stranded: a settled round is emptied, at the latest by the    *)
(* sweep, and a cancelled one down to what rejecting accounts refuse.      *)
MoneyLeaves ==
  /\ phase = "SETTLED" ~> balance = 0
  /\ phase = "CANCELLED" ~> balance = Unreturnable

----------------------------------------------------------------------------
(* The round as an escrow, the abstraction that RoundEscrow specifies.  A  *)
(* round that is swept, or fully claimed, owes nothing although the        *)
(* expired claim balances keep their values.                               *)
Escrow == INSTANCE RoundEscrow WITH
  stage <- CASE phase = "SETTLED"   -> "sharing"
             [] phase = "CANCELLED" -> "refunding"
             [] OTHER               -> "collecting",
  contributed <- [x \in Addresses |-> Contribution(x)],
  owed <- [x \in Addresses |->
             CASE phase = "SETTLED" ->
                    IF totalClaimable = 0 THEN 0 ELSE claimable[x]
               [] phase = "CANCELLED" -> StillDue(x)
               [] OTHER -> 0]

(* The round implements the escrow: every transaction collects, shares the *)
(* whole pot, gives every contribution back, pays an account out of what   *)
(* it is owed, forfeits expired shares, or moves no money at all.          *)
ImplementsEscrow == Escrow!Spec

----------------------------------------------------------------------------
(* Statements of the repository that the code does not keep.               *)

(* BountyRound.sol:413, of cancelExpired(): "Cancel an expired bounty with *)
(* no submissions"; it is logged as "no qualifying submissions" (:420).    *)
OnlyEmptyRoundsExpire ==
  [][phase = "COMMIT" /\ phase' = "CANCELLED" => commitments = {}]_vars

(* BountyRound.sol:438, of dispute(): "Resolution handled by               *)
(* ArbitrationDAO".                                                        *)
DisputesAreResolved == phase = "DISPUTED" ~> phase # "DISPUTED"

(* ArenaRegistry.sol:416, of deregister(): "A deregistered agent cannot    *)
(* participate in future rounds but its historical data is preserved"; a   *)
(* round it has already been scored in should settle all the same.         *)
ScoredRoundCanSettle ==
  /\ phase = "SCORING"
  /\ result # NoResult
  /\ \A i \in DOMAIN result : result[i].agent \in participants
  => ENABLED (\E stableOf \in Memberships : Finalize(stableOf))
=============================================================================
