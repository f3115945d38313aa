------------------------- MODULE BountyRoundProofs -------------------------
(***************************************************************************)
(* Safety of the round's money, for every set of agents and accounts, every*)
(* prize distribution, every result of the oracle and every number of      *)
(* transactions.  Solvent, ClaimsBacked and CashBook are invariants of     *)
(* BountyRound; none is inductive alone, and IInv below is what has to be  *)
(* known besides: which amounts are still untouched in which phase, and    *)
(* that totalEntryFees counts the participants.                            *)
(***************************************************************************)
EXTENDS BountyRound, PrizeAllocationProofs

(* What the phase says about the bookkeeping.                              *)
Bookkeeping ==
  /\ totalEntryFees = EntryFee * Cardinality(participants)
  /\ phase = "OPEN" => participants = {} /\ deposited = 0
  /\ phase # "CANCELLED" => hasWithdrawn = {} /\ sponsorDeposit = deposited
  /\ phase = "SETTLED" => fundsAllocated
  /\ fundsAllocated => phase \in {"SETTLED", "CANCELLED"}
  /\ ~fundsAllocated =>
       totalClaimable = 0 /\ \A x \in Addresses : claimable[x] = 0

IInv == TypeOK /\ Bookkeeping /\ Solvent /\ ClaimsBacked /\ CashBook

----------------------------------------------------------------------------
(* Facts about the constants, one by one.                                  *)
LEMMA ConstantFacts ==
  /\ IsFiniteSet(Agents) /\ IsFiniteSet(Addresses)
  /\ Sponsor \in Addresses /\ Treasury \in Addresses
  /\ \A a \in Agents : Wallet[a] \in Addresses
  /\ EntryFee \in Nat /\ MaxElapsed \in Nat /\ ClaimExpiry \in Nat
  /\ CommitDuration \in Nat /\ ScoringTimeout \in Nat
  /\ Deposits \subseteq Nat
  /\ Memberships \subseteq StableAnswers
  /\ \A res \in Results : res \in Seq(ScoreEntry)
<1>1. \A a \in Agents : Wallet[a] \in Addresses
  BY AllocationAssumption
<1>2. Memberships \subseteq StableAnswers
  BY DEF Memberships, StableAnswers
<1>3. IsFiniteSet(Agents) /\ IsFiniteSet(Addresses)
  BY AllocationAssumption
<1>4. Sponsor \in Addresses /\ Treasury \in Addresses
  BY AllocationAssumption
<1>5. \A res \in Results : res \in Seq(ScoreEntry)
  BY RoundAssumption
<1>6. /\ EntryFee \in Nat /\ MaxElapsed \in Nat /\ ClaimExpiry \in Nat
      /\ CommitDuration \in Nat /\ ScoringTimeout \in Nat
      /\ Deposits \subseteq Nat
  BY RoundAssumption
<1> QED BY <1>1, <1>2, <1>3, <1>4, <1>5, <1>6

(* A transfer moves exactly its amount from the balance to one account.    *)
LEMMA TransferFacts ==
  ASSUME TypeOK, NEW to \in Addresses, NEW amount \in Nat,
         Transfer(to, amount)
  PROVE  /\ balance' \in Nat /\ balance' = balance - amount
         /\ paid' \in [Addresses -> Nat]
         /\ SumFunctionOnSet(paid', Addresses)
              = SumFunctionOnSet(paid, Addresses) + amount
<1>1. balance \in Nat /\ paid \in [Addresses -> Nat]
  BY DEF TypeOK
<1>2. balance' = balance - amount /\ balance' \in Nat
  BY <1>1 DEF Transfer
<1>3. paid' = [paid EXCEPT ![to] = @ + amount]
  BY DEF Transfer
<1>4. /\ paid' \in [Addresses -> Nat]
      /\ paid'[to] = paid[to] + amount
      /\ \A x \in Addresses \ {to} : paid'[x] = paid[x]
  BY <1>1, <1>3
<1>5. /\ \A x \in Addresses : paid[x] \in Int
      /\ \A x \in Addresses : paid'[x] \in Int
      /\ paid[to] \in Nat
  BY <1>1, <1>4
<1>6. SumFunctionOnSet(paid', Addresses)
        = SumFunctionOnSet(paid, Addresses) - paid[to] + paid'[to]
  BY <1>4, <1>5, ConstantFacts, SumUpdate
<1>7. SumFunctionOnSet(paid, Addresses) \in Int
  BY <1>5, ConstantFacts, SumRemove
<1> QED BY <1>2, <1>4, <1>5, <1>6, <1>7

(* Sets of agents are finite and have natural cardinalities.               *)
LEMMA AgentSets ==
  ASSUME NEW S, S \subseteq Agents
  PROVE  IsFiniteSet(S) /\ Cardinality(S) \in Nat
<1>1. IsFiniteSet(S)
  BY ConstantFacts, FS_Subset
<1> QED BY <1>1, FS_CardinalityType

(* The sums of the two mappings are natural numbers.                       *)
LEMMA MappingSums ==
  ASSUME TypeOK
  PROVE  /\ SumFunctionOnSet(claimable, Addresses) \in Nat
         /\ SumFunctionOnSet(paid, Addresses) \in Nat
<1>1. /\ \A x \in Addresses : claimable[x] \in Nat
      /\ \A x \in Addresses : paid[x] \in Nat
  BY DEF TypeOK
<1> QED BY <1>1, ConstantFacts, SumNat

(* Initially nothing is owed and nothing has been paid.                    *)
LEMMA InitIInv == Init => IInv
<1> SUFFICES ASSUME Init PROVE IInv
  OBVIOUS
<1>1. TypeOK
  <2>1. claimable \in [Addresses -> Nat] /\ paid \in [Addresses -> Nat]
    BY DEF Init
  <2>2. elapsed \in 0 .. MaxElapsed
    BY ConstantFacts DEF Init
  <2> QED BY <2>1, <2>2 DEF Init, TypeOK, Phases
<1>2. Cardinality(participants) = 0 /\ Cardinality(participants \ hasWithdrawn) = 0
  BY FS_EmptySet DEF Init
<1>3. Bookkeeping
  BY <1>2, ConstantFacts DEF Init, Bookkeeping
<1>4. Solvent
  BY DEF Init, Solvent, Obligations
<1>5. ClaimsBacked
  BY DEF Init, ClaimsBacked
<1>6. CashBook
  <2>1. \A x \in Addresses : paid[x] = 0
    BY DEF Init
  <2>2. SumFunctionOnSet(paid, Addresses) = 0
    BY <2>1, ConstantFacts, SumZero
  <2> QED BY <2>2 DEF Init, CashBook
<1> QED BY <1>1, <1>3, <1>4, <1>5, <1>6 DEF IInv

----------------------------------------------------------------------------
(* One lemma per transaction.                                              *)

(* The deposit is the first money in the round.                            *)
LEMMA DepositBountyKeeps ==
  ASSUME IInv, NEW value \in Deposits, DepositBounty(value)
  PROVE  IInv'
<1> USE DEF IInv
<1>1. value \in Nat
  BY ConstantFacts
<1>2. TypeOK'
  BY <1>1, ConstantFacts DEF TypeOK, DepositBounty, claimVars, outside, Phases
<1>3. Bookkeeping'
  BY DEF Bookkeeping, DepositBounty, claimVars
<1>4. balance = 0 /\ totalEntryFees = 0 /\ ~fundsAllocated
  <2>1. participants = {} /\ ~fundsAllocated /\ deposited = 0 /\ sponsorDeposit = 0
    BY DEF Bookkeeping, DepositBounty
  <2>2. totalEntryFees = 0
    BY <2>1, FS_EmptySet, ConstantFacts DEF Bookkeeping
  <2>3. balance = 0
    BY <2>1, <2>2 DEF Solvent, Obligations, DepositBounty
  <2> QED BY <2>1, <2>2, <2>3
<1>5. Solvent'
  BY <1>1, <1>4 DEF Solvent, Obligations, DepositBounty
<1>6. ClaimsBacked'
  BY <1>4 DEF ClaimsBacked, DepositBounty, claimVars
<1>7. CashBook'
  <2>1. deposited = 0
    BY DEF Bookkeeping, DepositBounty
  <2>2. paid' = paid /\ balance' = value /\ deposited' = value /\ totalEntryFees' = 0
    BY <1>1, <1>4 DEF DepositBounty
  <2> QED BY <1>1, <1>4, <2>1, <2>2, MappingSums DEF CashBook
<1> QED BY <1>2, <1>3, <1>5, <1>6, <1>7

(* One more participant, one more fee.                                     *)
LEMMA EnterKeeps ==
  ASSUME IInv, NEW a \in Agents, Enter(a)
  PROVE  IInv'
<1> USE DEF IInv
<1>1. /\ totalEntryFees \in Nat /\ balance \in Nat /\ EntryFee \in Nat
      /\ sponsorDeposit \in Nat /\ deposited \in Nat
  BY ConstantFacts DEF TypeOK
<1>2. TypeOK'
  BY <1>1 DEF TypeOK, Enter, claimVars, outside, Phases
<1>3. /\ totalEntryFees' = EntryFee * Cardinality(participants')
  <2>1. /\ IsFiniteSet(participants) /\ Cardinality(participants) \in Nat
    BY AgentSets DEF TypeOK
  <2>2. Cardinality(participants') = Cardinality(participants) + 1
    BY <2>1, FS_AddElement DEF Enter
  <2>3. totalEntryFees = EntryFee * Cardinality(participants)
    BY DEF Bookkeeping
  <2> DEFINE n == Cardinality(participants)
  <2>4. EntryFee * (n + 1) = EntryFee * n + EntryFee
    BY <1>1, <2>1
  <2> QED BY <2>2, <2>3, <2>4 DEF Enter
<1>4. Bookkeeping'
  BY <1>3 DEF Bookkeeping, Enter, claimVars
<1>5. ~fundsAllocated /\ phase = "COMMIT"
  BY DEF Bookkeeping, Enter
<1>6. Solvent'
  BY <1>1, <1>5 DEF Solvent, Obligations, Enter, claimVars
<1>7. ClaimsBacked'
  BY <1>5 DEF ClaimsBacked, Enter, claimVars
<1>8. CashBook'
  BY <1>1, MappingSums DEF CashBook, Enter
<1> QED BY <1>2, <1>4, <1>6, <1>7, <1>8

(* Transactions that move no money and start or end no claims.             *)
Quiet == UNCHANGED <<sponsorDeposit, totalEntryFees, participants, deposited,
                     hasWithdrawn, claimVars, cashVars>>

(* Quiet transactions within a phase keep the accounts as they are.        *)
LEMMA QuietKeeps ==
  ASSUME IInv, Quiet, TypeOK', UNCHANGED phase,
         fundsAllocated /\ elapsed' <= ClaimExpiry => elapsed <= ClaimExpiry
  PROVE  IInv'
<1> USE DEF IInv, Quiet, claimVars, cashVars
<1>1. Bookkeeping'
  BY DEF Bookkeeping
<1>2. Solvent'
  BY DEF Solvent, Obligations, RefundsDue
<1>3. ClaimsBacked'
  BY DEF ClaimsBacked
<1>4. CashBook'
  BY DEF CashBook
<1> QED BY <1>1, <1>2, <1>3, <1>4

(* Before any refund, what a cancelled round owes is what it collected.    *)
LEMMA NothingWithdrawn ==
  ASSUME IInv, phase # "CANCELLED"
  PROVE  RefundsDue = sponsorDeposit + totalEntryFees
<1>1. participants \ hasWithdrawn = participants
  BY DEF IInv, Bookkeeping
<1> QED BY <1>1 DEF RefundsDue, IInv, Bookkeeping

(* Quiet transactions that change the phase of a round without prizes, or  *)
(* cancel it.                                                              *)
LEMMA PhaseChangeKeeps ==
  ASSUME IInv, Quiet, TypeOK', elapsed' = elapsed \/ ~fundsAllocated,
         \/ phase' = "CANCELLED"
         \/ phase = "COMMIT" /\ phase' = "SCORING"
         \/ phase = "SCORING" /\ phase' = "DISPUTED"
  PROVE  IInv'
<1> USE DEF IInv, Quiet, claimVars, cashVars
<1>1. Bookkeeping'
  BY DEF Bookkeeping
<1>2. Solvent'
  <2>1. CASE fundsAllocated
    BY <2>1 DEF Solvent, Bookkeeping
  <2>2. CASE ~fundsAllocated /\ phase' # "CANCELLED"
    BY <2>2 DEF Solvent, Obligations
  <2>3. CASE ~fundsAllocated /\ phase' = "CANCELLED"
    <3>1. RefundsDue' = RefundsDue
      BY DEF RefundsDue
    <3>2. CASE phase = "CANCELLED"
      BY <2>3, <3>1, <3>2 DEF Solvent, Obligations
    <3>3. CASE phase # "CANCELLED"
      <4>1. balance = sponsorDeposit + totalEntryFees
        BY <2>3, <3>3 DEF Solvent, Obligations, Bookkeeping
      <4> QED BY <2>3, <3>1, <3>3, <4>1, NothingWithdrawn
                 DEF Solvent, Obligations
    <3> QED BY <3>2, <3>3
  <2> QED BY <2>1, <2>2, <2>3
<1>3. ClaimsBacked'
  BY DEF ClaimsBacked
<1>4. CashBook'
  BY DEF CashBook
<1> QED BY <1>1, <1>2, <1>3, <1>4

(* A payment leaves the cash book balanced.                                *)
LEMMA PaymentKeepsCash ==
  ASSUME IInv, NEW to \in Addresses, NEW amount \in Nat, Transfer(to, amount),
         UNCHANGED <<deposited, totalEntryFees>>
  PROVE  CashBook'
<1> DEFINE sum == SumFunctionOnSet(paid, Addresses)
<1>1. sum \in Nat /\ balance \in Nat
  BY MappingSums DEF IInv, TypeOK
<1>2. balance + sum = deposited + totalEntryFees
  BY DEF IInv, CashBook
<1>3. /\ balance' = balance - amount
      /\ SumFunctionOnSet(paid', Addresses) = sum + amount
  BY TransferFacts DEF IInv
<1> HIDE DEF sum
<1>4. (balance - amount) + (sum + amount) = balance + sum
  BY <1>1
<1> QED BY <1>2, <1>3, <1>4 DEF CashBook

(* Settling turns the whole escrow into claims.                            *)
LEMMA FinalizeKeeps ==
  ASSUME IInv, NEW stableOf \in Memberships, Finalize(stableOf)
  PROVE  IInv'
<1> USE DEF IInv
<1>1. /\ sponsorDeposit \in Nat /\ totalEntryFees \in Nat
      /\ result \in Seq(ScoreEntry) /\ stableOf \in StableAnswers
  BY ConstantFacts DEF TypeOK, Finalize
<1> DEFINE credit(x) == Credit(sponsorDeposit, totalEntryFees, result,
                               stableOf, x)
           credits == [x \in Addresses |-> credit(x)]
<1>2. /\ \A x \in Addresses : credit(x) \in Nat
      /\ SumFunctionOnSet(credits, Addresses) = sponsorDeposit + totalEntryFees
  BY <1>1, CreditsAddUp
<1>3. totalClaimable' = sponsorDeposit + totalEntryFees
  BY <1>1, AllocatedIsEverything DEF Finalize
<1>4. \A x \in Addresses : claimable[x] = 0
  BY DEF Bookkeeping, Finalize
<1>5. claimable' \in [Addresses -> Nat] /\ \A x \in Addresses : claimable'[x] = credits[x]
  <2>1. claimable' = [x \in Addresses |-> claimable[x] + credit(x)]
    BY DEF Finalize
  <2> HIDE DEF credit
  <2> QED BY <1>2, <1>4, <2>1
<1>6. TypeOK'
  <2>1. elapsed' \in 0 .. MaxElapsed
    BY ConstantFacts DEF Finalize
  <2>2. totalClaimable' \in Nat
    BY <1>1, <1>3
  <2> QED BY <1>5, <2>1, <2>2
         DEF TypeOK, Finalize, escrowVars, cashVars, outside, Phases
<1>7. Bookkeeping'
  BY DEF Bookkeeping, Finalize, escrowVars
<1>8. Solvent'
  BY <1>3 DEF Solvent, Obligations, Finalize, cashVars
<1>9. ClaimsBacked'
  <2>1. SumFunctionOnSet(claimable', Addresses)
          = SumFunctionOnSet(credits, Addresses)
    <3> HIDE DEF credits
    <3> QED BY <1>5, ConstantFacts, SumEqual
  <2> QED BY <1>2, <1>3, <2>1 DEF ClaimsBacked
<1>10. CashBook'
  BY DEF CashBook, Finalize, escrowVars, cashVars
<1> QED BY <1>6, <1>7, <1>8, <1>9, <1>10

(* What a claim takes from the balances it takes from their total.         *)
LEMMA ClaimKeeps ==
  ASSUME IInv, NEW recipient \in Addresses, Claim(recipient)
  PROVE  IInv'
<1> USE DEF IInv
<1> DEFINE amount == claimable[recipient]
<1>1. amount \in Nat /\ totalClaimable \in Nat /\ balance \in Nat
      /\ amount <= totalClaimable
  BY DEF TypeOK, Claim
<1>2. /\ balance' \in Nat /\ balance' = balance - amount
      /\ paid' \in [Addresses -> Nat]
      /\ SumFunctionOnSet(paid', Addresses)
           = SumFunctionOnSet(paid, Addresses) + amount
  <2>1. Transfer(recipient, amount)
    BY DEF Claim
  <2> HIDE DEF amount
  <2> QED BY <1>1, <2>1, TransferFacts
<1>3. /\ claimable' \in [Addresses -> Nat] /\ claimable'[recipient] = 0
      /\ \A x \in Addresses \ {recipient} : claimable'[x] = claimable[x]
  BY DEF TypeOK, Claim
<1>4. totalClaimable' = totalClaimable - amount /\ fundsAllocated
      /\ elapsed <= ClaimExpiry
  BY DEF Claim
<1>5. TypeOK'
  BY <1>1, <1>2, <1>3, <1>4 DEF TypeOK, Claim, escrowVars, outside
<1>6. Bookkeeping'
  BY <1>4 DEF Bookkeeping, Claim, escrowVars
<1>7. Solvent'
  <2>1. phase' = phase /\ fundsAllocated' = fundsAllocated
    BY DEF Claim
  <2>2. CASE phase = "SETTLED"
    <3>1. balance = totalClaimable
      BY <2>2 DEF Solvent, Obligations
    <3> QED BY <1>2, <1>4, <2>1, <2>2, <3>1 DEF Solvent, Obligations
  <2>3. CASE phase # "SETTLED"
    BY <1>4, <2>1, <2>3 DEF Solvent
  <2> QED BY <2>2, <2>3
<1>8. ClaimsBacked'
  <2>1. /\ \A x \in Addresses : claimable[x] \in Int
        /\ \A x \in Addresses : claimable'[x] \in Int
    BY <1>3 DEF TypeOK
  <2>2. SumFunctionOnSet(claimable', Addresses)
          = SumFunctionOnSet(claimable, Addresses) - amount + 0
    BY <1>3, <2>1, ConstantFacts, SumUpdate
  <2>3. SumFunctionOnSet(claimable, Addresses) = totalClaimable
    BY <1>4 DEF ClaimsBacked
  <2> QED BY <1>1, <1>4, <2>2, <2>3 DEF ClaimsBacked
<1>9. CashBook'
  <2>1. Transfer(recipient, amount) /\ UNCHANGED <<deposited, totalEntryFees>>
    BY DEF Claim, escrowVars
  <2> HIDE DEF amount
  <2> QED BY <1>1, <2>1, PaymentKeepsCash
<1> QED BY <1>5, <1>6, <1>7, <1>8, <1>9

(* The same for a batch: the recipients whose transfer failed are left out *)
(* of the balances, of the total and of the payments alike.                *)
LEMMA ClaimBatchKeeps ==
  ASSUME IInv, NEW recipients \in SUBSET Addresses,
         NEW served \in SUBSET recipients, ClaimBatch(recipients, served)
  PROVE  IInv'
<1> USE DEF IInv
<1> DEFINE total == SumFunctionOnSet(claimable, served)
<1>1. /\ \A x \in Addresses : claimable[x] \in Nat
      /\ \A x \in Addresses : paid[x] \in Nat
      /\ totalClaimable \in Nat /\ balance \in Nat
  BY DEF TypeOK
<1>2. total \in Nat
  <2>1. IsFiniteSet(served)
    BY ConstantFacts, FS_Subset
  <2> QED BY <1>1, <2>1, SumNat
<1>3. /\ fundsAllocated /\ elapsed <= ClaimExpiry
      /\ total <= balance /\ total <= totalClaimable
      /\ totalClaimable' = totalClaimable - total
      /\ balance' = balance - total
      /\ claimable' = [x \in Addresses |->
                         IF x \in served THEN 0 ELSE claimable[x]]
      /\ paid' = [x \in Addresses |->
                    IF x \in served THEN paid[x] + claimable[x] ELSE paid[x]]
      /\ UNCHANGED <<phase, escrowVars, fundsAllocated, elapsed, outside>>
  BY DEF ClaimBatch
<1>4. /\ SumFunctionOnSet(claimable, Addresses)
           = SumFunctionOnSet(claimable', Addresses) + total
      /\ SumFunctionOnSet(claimable', Addresses) \in Nat
  <2>1. served \in SUBSET Addresses
    OBVIOUS
  <2>2. /\ \A x \in Addresses : claimable[x] \in Int
        /\ \A x \in Addresses : claimable'[x] =
             IF x \in served THEN 0 ELSE claimable[x]
        /\ \A x \in Addresses : claimable'[x] \in Nat
    BY <1>1, <1>3
  <2>3. SumFunctionOnSet(claimable, Addresses)
          = SumFunctionOnSet(claimable', Addresses) + total
    BY <2>1, <2>2, ConstantFacts, SumClear
  <2>4. SumFunctionOnSet(claimable', Addresses) \in Nat
    BY <2>2, ConstantFacts, SumNat
  <2> QED BY <2>3, <2>4
<1>5. SumFunctionOnSet(paid', Addresses)
        = SumFunctionOnSet(paid, Addresses) + total
  <2> DEFINE both == [x \in Addresses |-> claimable[x] + paid[x]]
  <2>1. \A x \in Addresses : /\ both[x] = claimable[x] + paid[x]
                             /\ both[x] = claimable'[x] + paid'[x]
                             /\ claimable'[x] \in Nat /\ paid'[x] \in Nat
    BY <1>1, <1>3
  <2>2. /\ \A x \in Addresses : claimable[x] \in Int /\ paid[x] \in Int
        /\ \A x \in Addresses : claimable'[x] \in Int /\ paid'[x] \in Int
        /\ \A x \in Addresses : both[x] = claimable[x] + paid[x]
        /\ \A x \in Addresses : both[x] = claimable'[x] + paid'[x]
    BY <1>1, <2>1
  <2> HIDE DEF both
  <2>3. SumFunctionOnSet(both, Addresses)
          = SumFunctionOnSet(claimable, Addresses)
              + SumFunctionOnSet(paid, Addresses)
    BY <2>2, ConstantFacts, SumPlus
  <2>4. SumFunctionOnSet(both, Addresses)
          = SumFunctionOnSet(claimable', Addresses)
              + SumFunctionOnSet(paid', Addresses)
    BY <2>2, ConstantFacts, SumPlus
  <2>5. SumFunctionOnSet(paid', Addresses) \in Nat
    <3>1. \A x \in Addresses : paid'[x] \in Nat
      BY <2>1
    <3> QED BY <3>1, ConstantFacts, SumNat
  <2>6. SumFunctionOnSet(paid, Addresses) \in Nat
    BY MappingSums
  <2> HIDE DEF total
  <2> QED BY <1>2, <1>4, <2>3, <2>4, <2>5, <2>6
<1> HIDE DEF total
<1>6. TypeOK'
  <2>1. claimable' \in [Addresses -> Nat] /\ paid' \in [Addresses -> Nat]
    BY <1>1, <1>3
  <2>2. totalClaimable' \in Nat /\ balance' \in Nat
    BY <1>1, <1>2, <1>3
  <2> QED BY <1>3, <2>1, <2>2 DEF TypeOK, escrowVars, outside
<1>7. Bookkeeping'
  BY <1>3 DEF Bookkeeping, escrowVars
<1>8. Solvent'
  <2>1. CASE phase = "SETTLED"
    <3>1. balance = totalClaimable
      BY <2>1 DEF Solvent, Obligations
    <3> QED BY <1>3, <2>1, <3>1 DEF Solvent, Obligations
  <2>2. CASE phase # "SETTLED"
    BY <1>3, <2>2 DEF Solvent
  <2> QED BY <2>1, <2>2
<1>9. ClaimsBacked'
  <2>1. SumFunctionOnSet(claimable, Addresses) = totalClaimable
    BY <1>3 DEF ClaimsBacked
  <2> QED BY <1>2, <1>3, <1>4, <2>1 DEF ClaimsBacked
<1>10. CashBook'
  <2> DEFINE sum == SumFunctionOnSet(paid, Addresses)
  <2>1. sum \in Nat
    BY MappingSums
  <2>2. balance + sum = deposited + totalEntryFees
    BY DEF CashBook
  <2>3. deposited' = deposited /\ totalEntryFees' = totalEntryFees
    BY <1>3 DEF escrowVars
  <2>4. SumFunctionOnSet(paid', Addresses) = sum + total
    BY <1>5
  <2> HIDE DEF sum
  <2>5. (balance - total) + (sum + total) = balance + sum
    BY <1>1, <1>2, <2>1
  <2> QED BY <1>3, <2>2, <2>3, <2>4, <2>5 DEF CashBook
<1> QED BY <1>6, <1>7, <1>8, <1>9, <1>10

(* The sweep empties a settled round.                                      *)
LEMMA SweepExpiredClaimsKeeps ==
  ASSUME IInv, SweepExpiredClaims
  PROVE  IInv'
<1> USE DEF IInv
<1>1. /\ totalClaimable \in Nat /\ balance \in Nat /\ Treasury \in Addresses
      /\ Transfer(Treasury, totalClaimable)
      /\ UNCHANGED <<phase, escrowVars, claimable, fundsAllocated, elapsed,
                     outside>>
      /\ totalClaimable' = 0 /\ fundsAllocated /\ elapsed > ClaimExpiry
  BY ConstantFacts DEF TypeOK, SweepExpiredClaims
<1>2. /\ balance' \in Nat /\ balance' = balance - totalClaimable
      /\ paid' \in [Addresses -> Nat]
  BY <1>1, TransferFacts
<1>3. TypeOK'
  BY <1>1, <1>2 DEF TypeOK, escrowVars, outside
<1>4. Bookkeeping'
  BY <1>1 DEF Bookkeeping, escrowVars
<1>5. Solvent'
  <2>1. CASE phase = "SETTLED"
    <3>1. balance = totalClaimable
      BY <2>1 DEF Solvent, Obligations
    <3> QED BY <1>1, <1>2, <2>1, <3>1 DEF Solvent, Obligations
  <2>2. CASE phase # "SETTLED"
    BY <1>1, <2>2 DEF Solvent
  <2> QED BY <2>1, <2>2
<1>6. ClaimsBacked'
  <2>1. elapsed \in Int /\ ClaimExpiry \in Int
    BY ConstantFacts DEF TypeOK
  <2> QED BY <1>1, <2>1 DEF ClaimsBacked
<1>7. CashBook'
  BY <1>1, PaymentKeepsCash DEF escrowVars
<1> QED BY <1>3, <1>4, <1>5, <1>6, <1>7

(* A refunded fee is due no more.                                          *)
LEMMA EmergencyWithdrawKeeps ==
  ASSUME IInv, NEW a \in Agents, EmergencyWithdraw(a)
  PROVE  IInv'
<1> USE DEF IInv
<1>1. /\ phase = "CANCELLED" /\ a \in participants /\ a \notin hasWithdrawn
      /\ hasWithdrawn' = hasWithdrawn \cup {a}
      /\ Transfer(Wallet[a], EntryFee)
      /\ UNCHANGED <<phase, sponsorDeposit, totalEntryFees, participants,
                     commitments, deposited, claimVars, elapsed, outside>>
  BY DEF EmergencyWithdraw
<1>2. EntryFee \in Nat /\ Wallet[a] \in Addresses /\ balance \in Nat
      /\ sponsorDeposit \in Nat
  BY ConstantFacts DEF TypeOK
<1>3. /\ balance' \in Nat /\ balance' = balance - EntryFee
      /\ paid' \in [Addresses -> Nat]
  BY <1>1, <1>2, TransferFacts
<1>4. TypeOK'
  BY <1>1, <1>3 DEF TypeOK, claimVars, outside
<1>5. Bookkeeping'
  BY <1>1 DEF Bookkeeping, claimVars
<1>6. RefundsDue' = RefundsDue - EntryFee
  <2> DEFINE due == participants \ hasWithdrawn
             n   == Cardinality(due)
  <2>1. due \subseteq Agents
    BY DEF TypeOK
  <2>2. IsFiniteSet(due) /\ n \in Nat
    <3> HIDE DEF due
    <3> QED BY <2>1, AgentSets
  <2>3. a \in due
    BY <1>1
  <2>4. participants' \ hasWithdrawn' = due \ {a}
    BY <1>1
  <2>5. Cardinality(due \ {a}) = n - 1
    <3> HIDE DEF due
    <3> QED BY <2>2, <2>3, FS_RemoveElement
  <2>6. EntryFee * (n - 1) = EntryFee * n - EntryFee
    <3> HIDE DEF n
    <3> QED BY <1>2, <2>2
  <2>7. EntryFee * n \in Int
    <3> HIDE DEF n
    <3> QED BY <1>2, <2>2
  <2>8. RefundsDue = sponsorDeposit + EntryFee * n
    BY DEF RefundsDue
  <2>9. RefundsDue' = sponsorDeposit + EntryFee * (n - 1)
    <3>1. RefundsDue' = sponsorDeposit' + EntryFee * Cardinality(participants' \ hasWithdrawn')
      BY DEF RefundsDue
    <3> QED BY <1>1, <2>4, <2>5, <3>1
  <2> HIDE DEF n
  <2> DEFINE p == EntryFee * n
  <2>10. p \in Int /\ RefundsDue = sponsorDeposit + p
         /\ RefundsDue' = sponsorDeposit + (p - EntryFee)
    BY <2>6, <2>7, <2>8, <2>9
  <2> HIDE DEF p
  <2> QED BY <1>2, <2>10
<1>7. Solvent'
  <2>1. CASE fundsAllocated
    BY <1>1, <2>1 DEF Solvent, claimVars
  <2>2. CASE ~fundsAllocated
    <3>1. balance = RefundsDue
      BY <1>1, <2>2 DEF Solvent, Obligations
    <3> QED BY <1>1, <1>3, <1>6, <3>1 DEF Solvent, Obligations
  <2> QED BY <2>1, <2>2
<1>8. ClaimsBacked'
  BY <1>1 DEF ClaimsBacked, claimVars
<1>9. CashBook'
  BY <1>1, <1>2, PaymentKeepsCash
<1> QED BY <1>4, <1>5, <1>7, <1>8, <1>9

(* A refunded deposit is due no more.                                      *)
LEMMA SponsorWithdrawKeeps ==
  ASSUME IInv, SponsorWithdraw
  PROVE  IInv'
<1> USE DEF IInv
<1>1. /\ phase = "CANCELLED" /\ sponsorDeposit' = 0
      /\ Transfer(Sponsor, sponsorDeposit)
      /\ UNCHANGED <<phase, totalEntryFees, participants, commitments,
                     hasWithdrawn, deposited, claimVars, elapsed, outside>>
  BY DEF SponsorWithdraw
<1>2. Sponsor \in Addresses /\ balance \in Nat /\ sponsorDeposit \in Nat
  BY ConstantFacts DEF TypeOK
<1>3. /\ balance' \in Nat /\ balance' = balance - sponsorDeposit
      /\ paid' \in [Addresses -> Nat]
  BY <1>1, <1>2, TransferFacts
<1>4. TypeOK'
  BY <1>1, <1>3 DEF TypeOK, claimVars, outside
<1>5. Bookkeeping'
  BY <1>1 DEF Bookkeeping, claimVars
<1>6. Solvent'
  <2>1. CASE fundsAllocated
    BY <1>1, <2>1 DEF Solvent, claimVars
  <2>2. CASE ~fundsAllocated
    <3> DEFINE due == EntryFee * Cardinality(participants \ hasWithdrawn)
    <3>1. due \in Int
      <4>1. Cardinality(participants \ hasWithdrawn) \in Nat
        <5>1. participants \ hasWithdrawn \subseteq Agents
          BY DEF TypeOK
        <5> QED BY <5>1, AgentSets
      <4> QED BY <4>1, ConstantFacts
    <3>2. balance = sponsorDeposit + due
      BY <1>1, <2>2 DEF Solvent, Obligations, RefundsDue
    <3>3. RefundsDue' = 0 + due
      BY <1>1 DEF RefundsDue
    <3> HIDE DEF due
    <3>4. balance' = RefundsDue'
      BY <1>2, <1>3, <3>1, <3>2, <3>3
    <3> QED BY <1>1, <3>4 DEF Solvent, Obligations
  <2> QED BY <2>1, <2>2
<1>7. ClaimsBacked'
  BY <1>1 DEF ClaimsBacked, claimVars
<1>8. CashBook'
  BY <1>1, <1>2, PaymentKeepsCash
<1> QED BY <1>4, <1>5, <1>6, <1>7, <1>8

----------------------------------------------------------------------------
(* Every step preserves the inductive invariant.                           *)
LEMMA NextIInv == IInv /\ [Next]_vars => IInv'
<1> SUFFICES ASSUME IInv, [Next]_vars PROVE IInv'
  OBVIOUS
<1> USE DEF IInv, escrowVars, claimVars, cashVars, outside
<1>1. ASSUME NEW value \in Deposits, DepositBounty(value) PROVE IInv'
  BY <1>1, DepositBountyKeeps
<1>2. ASSUME NEW a \in Agents, Enter(a) PROVE IInv'
  BY <1>2, EnterKeeps
<1>3. ASSUME NEW a \in Agents, CommitSolution(a) PROVE IInv'
  <2>1. TypeOK'
    BY <1>3 DEF TypeOK, CommitSolution
  <2>2. Quiet /\ UNCHANGED <<phase, elapsed>>
    BY <1>3 DEF Quiet, CommitSolution
  <2> QED BY <2>1, <2>2, QuietKeeps
<1>4. CASE StartScoringPhase
  <2>1. TypeOK'
    BY <1>4, ConstantFacts DEF TypeOK, StartScoringPhase, Phases
  <2>2. Quiet /\ phase = "COMMIT" /\ phase' = "SCORING" /\ ~fundsAllocated
    BY <1>4 DEF Quiet, StartScoringPhase, Bookkeeping
  <2> QED BY <2>1, <2>2, PhaseChangeKeeps
<1>5. CASE CancelExpired
  <2>1. TypeOK'
    BY <1>5 DEF TypeOK, CancelExpired, Phases
  <2>2. Quiet /\ phase' = "CANCELLED" /\ elapsed' = elapsed
    BY <1>5 DEF Quiet, CancelExpired
  <2> QED BY <2>1, <2>2, PhaseChangeKeeps
<1>6. CASE CancelScoringTimeout
  <2>1. TypeOK'
    BY <1>6 DEF TypeOK, CancelScoringTimeout, Phases
  <2>2. Quiet /\ phase' = "CANCELLED" /\ elapsed' = elapsed
    BY <1>6 DEF Quiet, CancelScoringTimeout
  <2> QED BY <2>1, <2>2, PhaseChangeKeeps
<1>7. ASSUME NEW sender \in Addresses, Dispute(sender) PROVE IInv'
  <2>1. TypeOK'
    BY <1>7 DEF TypeOK, Dispute, Phases
  <2>2. Quiet /\ phase = "SCORING" /\ phase' = "DISPUTED" /\ elapsed' = elapsed
    BY <1>7 DEF Quiet, Dispute
  <2> QED BY <2>1, <2>2, PhaseChangeKeeps
<1>8. ASSUME NEW stableOf \in Memberships, Finalize(stableOf) PROVE IInv'
  BY <1>8, FinalizeKeeps
<1>9. ASSUME NEW recipient \in Addresses, Claim(recipient) PROVE IInv'
  BY <1>9, ClaimKeeps
<1>10. ASSUME NEW recipients \in SUBSET Addresses,
              NEW served \in SUBSET recipients, ClaimBatch(recipients, served)
       PROVE  IInv'
  BY <1>10, ClaimBatchKeeps
<1>11. CASE SweepExpiredClaims
  BY <1>11, SweepExpiredClaimsKeeps
<1>12. ASSUME NEW sender \in {Sponsor, Factory}, Cancel(sender) PROVE IInv'
  <2>1. TypeOK'
    BY <1>12 DEF TypeOK, Cancel, Phases
  <2>2. Quiet /\ phase' = "CANCELLED" /\ elapsed' = elapsed
    BY <1>12 DEF Quiet, Cancel
  <2> QED BY <2>1, <2>2, PhaseChangeKeeps
<1>13. ASSUME NEW a \in Agents, EmergencyWithdraw(a) PROVE IInv'
  BY <1>13, EmergencyWithdrawKeeps
<1>14. CASE SponsorWithdraw
  BY <1>14, SponsorWithdrawKeeps
<1>15. ASSUME NEW res \in Results, SubmitScores(res) PROVE IInv'
  <2>1. TypeOK'
    BY <1>15 DEF TypeOK, SubmitScores
  <2>2. Quiet /\ UNCHANGED <<phase, elapsed>>
    BY <1>15 DEF Quiet, SubmitScores
  <2> QED BY <2>1, <2>2, QuietKeeps
<1>16. ASSUME NEW a \in Agents, Deregister(a) PROVE IInv'
  <2>1. TypeOK'
    BY <1>16 DEF TypeOK, Deregister
  <2>2. Quiet /\ UNCHANGED <<phase, elapsed>>
    BY <1>16 DEF Quiet, Deregister
  <2> QED BY <2>1, <2>2, QuietKeeps
<1>17. CASE Tick
  <2>1. elapsed \in 0 .. MaxElapsed /\ elapsed' = elapsed + 1
        /\ elapsed < MaxElapsed
    BY <1>17 DEF TypeOK, Tick
  <2>2. TypeOK'
    <3>1. elapsed' \in 0 .. MaxElapsed
      BY <2>1, ConstantFacts
    <3> QED BY <1>17, <3>1 DEF TypeOK, Tick
  <2>3. elapsed' <= ClaimExpiry => elapsed <= ClaimExpiry
    BY <2>1, ConstantFacts
  <2>4. Quiet /\ UNCHANGED phase
    BY <1>17 DEF Quiet, Tick
  <2> QED BY <2>2, <2>3, <2>4, QuietKeeps
<1>18. CASE UNCHANGED vars
  <2>1. TypeOK'
    BY <1>18 DEF TypeOK, vars
  <2>2. Quiet /\ UNCHANGED <<phase, elapsed>>
    BY <1>18 DEF Quiet, vars
  <2> QED BY <2>1, <2>2, QuietKeeps
<1> QED
  BY <1>1, <1>2, <1>3, <1>4, <1>5, <1>6, <1>7, <1>8, <1>9, <1>10, <1>11,
     <1>12, <1>13, <1>14, <1>15, <1>16, <1>17, <1>18 DEF Next

(* The inductive invariant holds in every reachable state.                 *)
THEOREM Invariance == Spec => []IInv
<1>1. Init => IInv
  BY InitIInv
<1>2. IInv /\ [Next]_vars => IInv'
  BY NextIInv
<1> QED BY <1>1, <1>2, PTL DEF Spec

(* Amounts never go negative and every variable keeps its type, in rounds  *)
(* of any size: no checked subtraction of the contract underflows.         *)
THEOREM TypeCorrect == Spec => []TypeOK
<1>1. IInv => TypeOK
  BY DEF IInv
<1> QED BY <1>1, Invariance, PTL

(* The contract holds exactly what it owes until a settled round is        *)
(* cancelled by the factory.                                               *)
THEOREM AlwaysSolvent == Spec => []Solvent
<1>1. IInv => Solvent
  BY DEF IInv
<1> QED BY <1>1, Invariance, PTL

(* The claim balances add up to totalClaimable while claims are open.      *)
THEOREM ClaimsAlwaysBacked == Spec => []ClaimsBacked
<1>1. IInv => ClaimsBacked
  BY DEF IInv
<1> QED BY <1>1, Invariance, PTL

(* Every wei received is still there or has been paid out.                 *)
THEOREM CashBookBalances == Spec => []CashBook
<1>1. IInv => CashBook
  BY DEF IInv
<1> QED BY <1>1, Invariance, PTL

----------------------------------------------------------------------------
(***************************************************************************)
(* What a deployed round does over time, from the same invariant: it never *)
(* takes both ways out, the sponsor cannot call a running competition off, *)
(* allocated prizes are not touched, a cancelled round returns exactly     *)
(* what came in, and the round implements the escrow of RoundEscrow.  All  *)
(* but the exact refunds hold because no function of BountyFactory calls   *)
(* cancel(); their theorems assume just that.                              *)
(***************************************************************************)

(* Prizes are only ever allocated in a settled round, and then somebody    *)
(* has competed, so that the sponsor's right to cancel is gone.            *)
AllocatedIsSettled ==
  fundsAllocated => phase = "SETTLED" /\ participants # {}

(* Until prizes are allocated, every account is still due, or has been     *)
(* paid back, what it contributed.                                         *)
RefundBook ==
  ~fundsAllocated =>
    \A x \in Addresses : paid[x] + StillDue(x) = Contribution(x)

RInv == IInv /\ RefundBook
DInv == IInv /\ AllocatedIsSettled

----------------------------------------------------------------------------
(* Facts about one account's entry fees.                                   *)
LEMMA EntriesFacts ==
  ASSUME NEW x, NEW S, S \subseteq Agents
  PROVE  EntriesOf(x, S) \in Nat
<1> DEFINE T == {a \in S : Wallet[a] = x}
<1>1. T \subseteq Agents
  OBVIOUS
<1>2. Cardinality(T) \in Nat
  <2> HIDE DEF T
  <2> QED BY <1>1, AgentSets
<1>3. EntryFee \in Nat
  BY ConstantFacts
<1> HIDE DEF T
<1>4. EntryFee * Cardinality(T) \in Nat
  BY <1>2, <1>3
<1> QED BY <1>4 DEF EntriesOf, T

(* Taking one agent out of a set costs its wallet one fee, and no other.   *)
LEMMA EntriesRemove ==
  ASSUME NEW x, NEW S, S \subseteq Agents, NEW a \in S
  PROVE  EntriesOf(x, S \ {a}) =
           IF Wallet[a] = x THEN EntriesOf(x, S) - EntryFee
                            ELSE EntriesOf(x, S)
<1> DEFINE T == {b \in S : Wallet[b] = x}
           U == {b \in S \ {a} : Wallet[b] = x}
<1>1. IsFiniteSet(T) /\ Cardinality(T) \in Nat
  <2>1. T \subseteq Agents
    OBVIOUS
  <2> HIDE DEF T
  <2> QED BY <2>1, AgentSets
<1>2. EntryFee \in Nat
  BY ConstantFacts
<1>3. CASE Wallet[a] = x
  <2>1. a \in T /\ U = T \ {a}
    BY <1>3
  <2> HIDE DEF T, U
  <2>2. Cardinality(U) = Cardinality(T) - 1
    BY <1>1, <2>1, FS_RemoveElement
  <2> DEFINE n == Cardinality(T)
  <2>3. Cardinality(U) = n - 1 /\ n \in Nat
    BY <1>1, <2>2
  <2> HIDE DEF n
  <2>4. EntryFee * (n - 1) = EntryFee * n - EntryFee
    BY <1>2, <2>3
  <2>5. EntryFee * Cardinality(U) = EntryFee * Cardinality(T) - EntryFee
    BY <2>3, <2>4 DEF n
  <2> QED BY <1>3, <2>5 DEF EntriesOf, T, U
<1>4. CASE Wallet[a] # x
  <2>1. U = T
    BY <1>4
  <2> QED BY <1>4, <2>1 DEF EntriesOf
<1> QED BY <1>3, <1>4

(* Steps that move no money leave the refund book alone.                   *)
LEMMA RefundBookQuiet ==
  ASSUME RefundBook,
         UNCHANGED <<fundsAllocated, participants, hasWithdrawn, deposited,
                     sponsorDeposit, paid>>
  PROVE  RefundBook'
BY DEF RefundBook, StillDue, Contribution, EntriesOf

(* Initially nobody has paid or been paid anything.                        *)
LEMMA InitRInv == Init => RInv
<1> SUFFICES ASSUME Init PROVE RInv
  OBVIOUS
<1>1. IInv
  BY InitIInv
<1>2. ASSUME NEW x \in Addresses
      PROVE  paid[x] + StillDue(x) = Contribution(x)
  <2>1. participants \ hasWithdrawn = participants
        /\ paid[x] = 0 /\ sponsorDeposit = 0 /\ deposited = 0
    BY DEF Init
  <2>2. EntriesOf(x, participants) \in Nat
    BY <1>1, EntriesFacts DEF IInv, TypeOK
  <2>3. StillDue(x) = EntriesOf(x, participants)
        /\ Contribution(x) = EntriesOf(x, participants)
    BY <2>1, <2>2 DEF StillDue, Contribution
  <2> QED BY <2>1, <2>2, <2>3
<1> QED BY <1>1, <1>2 DEF RInv, RefundBook

(* Outside a cancelled round, no refund has been taken yet.                *)
LEMMA BookBeforeRefunds ==
  ASSUME TypeOK, Bookkeeping, phase # "CANCELLED", NEW x \in Addresses
  PROVE  StillDue(x) = Contribution(x)
<1>1. participants \ hasWithdrawn = participants /\ sponsorDeposit = deposited
  BY DEF Bookkeeping
<1> QED BY <1>1 DEF StillDue, Contribution

(* The deposit and the entry of an agent add to both sides.                *)
LEMMA CollectKeepsBook ==
  ASSUME RInv, IInv', ~fundsAllocated,
         phase # "CANCELLED", phase' # "CANCELLED", UNCHANGED paid
  PROVE  RefundBook'
<1> SUFFICES ASSUME NEW x \in Addresses
             PROVE  paid'[x] + StillDue(x)' = Contribution(x)'
  BY DEF RefundBook
<1>1. paid[x] + StillDue(x) = Contribution(x)
  BY DEF RInv, RefundBook
<1>2. StillDue(x) = Contribution(x)
  BY BookBeforeRefunds DEF RInv, IInv
<1>3. StillDue(x)' = Contribution(x)'
  <2>1. /\ (participants \ hasWithdrawn)' = participants'
        /\ sponsorDeposit' = deposited'
    BY DEF IInv, Bookkeeping
  <2> QED BY <2>1 DEF StillDue, Contribution
<1>4. paid[x] \in Nat /\ EntriesOf(x, participants) \in Nat
      /\ deposited \in Nat
  BY EntriesFacts DEF RInv, IInv, TypeOK
<1>5. Contribution(x) \in Nat
  BY <1>4 DEF Contribution
<1>6. paid[x] = 0
  BY <1>1, <1>2, <1>4, <1>5
<1>7. EntriesOf(x, participants)' \in Nat
  <2>1. participants' \subseteq Agents
    BY DEF IInv, TypeOK
  <2>2. EntriesOf(x, participants') \in Nat
    BY <2>1, EntriesFacts
  <2> QED BY <2>2 DEF EntriesOf
<1>8. Contribution(x)' \in Nat
  BY <1>7 DEF Contribution, IInv, TypeOK
<1> QED BY <1>3, <1>6, <1>8

(* An agent that takes its fee back is due that fee no more.               *)
LEMMA EmergencyWithdrawKeepsBook ==
  ASSUME RInv, NEW a \in Agents, EmergencyWithdraw(a)
  PROVE  RefundBook'
<1>1. CASE fundsAllocated
  BY <1>1 DEF RefundBook, EmergencyWithdraw, claimVars
<1>2. CASE ~fundsAllocated
  <2> SUFFICES ASSUME NEW x \in Addresses
               PROVE  paid'[x] + StillDue(x)' = Contribution(x)'
    BY DEF RefundBook
  <2> DEFINE S == participants \ hasWithdrawn
  <2>1. /\ a \in S /\ S \subseteq Agents
        /\ (participants \ hasWithdrawn)' = S \ {a}
        /\ UNCHANGED <<participants, sponsorDeposit, deposited>>
    BY DEF EmergencyWithdraw, RInv, IInv, TypeOK
  <2>2. /\ paid \in [Addresses -> Nat] /\ sponsorDeposit \in Nat
        /\ deposited \in Nat /\ EntryFee \in Nat /\ Wallet[a] \in Addresses
    BY ConstantFacts DEF RInv, IInv, TypeOK
  <2>3. paid' = [paid EXCEPT ![Wallet[a]] = @ + EntryFee]
    BY DEF EmergencyWithdraw, Transfer
  <2>4. paid'[x] = IF Wallet[a] = x THEN paid[x] + EntryFee ELSE paid[x]
    BY <2>2, <2>3
  <2>5. paid[x] + StillDue(x) = Contribution(x)
    BY <1>2 DEF RInv, RefundBook
  <2>6. Contribution(x)' = Contribution(x)
    BY <2>1 DEF Contribution, EntriesOf
  <2>7. EntriesOf(x, S) \in Nat
    <3> HIDE DEF S
    <3> QED BY <2>1, EntriesFacts
  <2>8. EntriesOf(x, S \ {a}) =
          IF Wallet[a] = x THEN EntriesOf(x, S) - EntryFee ELSE EntriesOf(x, S)
    <3> HIDE DEF S
    <3> QED BY <2>1, EntriesRemove
  <2>9. StillDue(x)' = EntriesOf(x, S \ {a})
                        + (IF x = Sponsor THEN sponsorDeposit ELSE 0)
    BY <2>1 DEF StillDue, EntriesOf
  <2>10. StillDue(x) = EntriesOf(x, S)
                        + (IF x = Sponsor THEN sponsorDeposit ELSE 0)
    BY DEF StillDue
  <2>11. paid[x] \in Nat
    BY <2>2
  <2> HIDE DEF S
  <2>12. paid'[x] + StillDue(x)' = paid[x] + StillDue(x)
    BY <2>2, <2>4, <2>7, <2>8, <2>9, <2>10, <2>11
  <2> QED BY <2>5, <2>6, <2>12
<1> QED BY <1>1, <1>2

(* The same for the sponsor and its deposit.                               *)
LEMMA SponsorWithdrawKeepsBook ==
  ASSUME RInv, SponsorWithdraw
  PROVE  RefundBook'
<1>1. CASE fundsAllocated
  BY <1>1 DEF RefundBook, SponsorWithdraw, claimVars
<1>2. CASE ~fundsAllocated
  <2> SUFFICES ASSUME NEW x \in Addresses
               PROVE  paid'[x] + StillDue(x)' = Contribution(x)'
    BY DEF RefundBook
  <2> DEFINE S == participants \ hasWithdrawn
             n == EntriesOf(x, S)
  <2>1. /\ S \subseteq Agents /\ sponsorDeposit' = 0
        /\ UNCHANGED <<participants, hasWithdrawn, deposited>>
    BY DEF SponsorWithdraw, RInv, IInv, TypeOK
  <2>2. /\ paid \in [Addresses -> Nat] /\ sponsorDeposit \in Nat
        /\ Sponsor \in Addresses
    BY ConstantFacts DEF RInv, IInv, TypeOK
  <2>3. paid' = [paid EXCEPT ![Sponsor] = @ + sponsorDeposit]
    BY DEF SponsorWithdraw, Transfer
  <2>4. paid'[x] = IF x = Sponsor THEN paid[x] + sponsorDeposit ELSE paid[x]
    BY <2>2, <2>3
  <2>5. paid[x] + StillDue(x) = Contribution(x)
    BY <1>2 DEF RInv, RefundBook
  <2>6. Contribution(x)' = Contribution(x)
    BY <2>1 DEF Contribution, EntriesOf
  <2>7. n \in Nat
    <3> HIDE DEF S
    <3> QED BY <2>1, EntriesFacts
  <2>8. StillDue(x)' = n + 0
    BY <2>1 DEF StillDue, EntriesOf
  <2>9. StillDue(x) = n + (IF x = Sponsor THEN sponsorDeposit ELSE 0)
    BY DEF StillDue
  <2>10. paid[x] \in Nat
    BY <2>2
  <2> HIDE DEF n
  <2>11. paid'[x] + StillDue(x)' = paid[x] + StillDue(x)
    BY <2>2, <2>4, <2>7, <2>8, <2>9, <2>10
  <2> QED BY <2>5, <2>6, <2>11
<1> QED BY <1>1, <1>2

----------------------------------------------------------------------------
(* A settlement needs a result, a result names somebody, and everybody it  *)
(* names has entered.                                                      *)
LEMMA FinalizeHasParticipants ==
  ASSUME TypeOK, NEW stableOf, Finalize(stableOf)
  PROVE  participants # {}
<1>1. result # <<>> /\ result \in Seq(ScoreEntry)
  BY RoundAssumption DEF TypeOK, Finalize
<1>2. 1 \in DOMAIN result
  BY <1>1
<1> QED BY <1>2 DEF Finalize

(* A round whose prizes are allocated stays settled as long as the factory *)
(* does not cancel it.                                                     *)
LEMMA NextAllocatedIsSettled ==
  ASSUME ~FactoryCancels, DInv, [Next]_vars
  PROVE  AllocatedIsSettled'
<1> USE DEF DInv, IInv, AllocatedIsSettled, escrowVars, claimVars, cashVars,
            outside
<1>2. ASSUME NEW value \in Deposits, DepositBounty(value)
      PROVE  AllocatedIsSettled'
  BY <1>2 DEF DepositBounty
<1>3. ASSUME NEW a \in Agents, Enter(a) PROVE AllocatedIsSettled'
  BY <1>3 DEF Enter
<1>4. ASSUME NEW a \in Agents, CommitSolution(a) PROVE AllocatedIsSettled'
  BY <1>4 DEF CommitSolution
<1>5. CASE StartScoringPhase \/ CancelExpired \/ CancelScoringTimeout
  BY <1>5 DEF StartScoringPhase, CancelExpired, CancelScoringTimeout
<1>6. ASSUME NEW sender \in Addresses, Dispute(sender)
      PROVE  AllocatedIsSettled'
  BY <1>6 DEF Dispute
<1>7. ASSUME NEW stableOf \in Memberships, Finalize(stableOf)
      PROVE  AllocatedIsSettled'
  BY <1>7, FinalizeHasParticipants DEF Finalize
<1>8. ASSUME NEW recipient \in Addresses, Claim(recipient)
      PROVE  AllocatedIsSettled'
  BY <1>8 DEF Claim
<1>9. ASSUME NEW recipients \in SUBSET Addresses,
             NEW served \in SUBSET recipients, ClaimBatch(recipients, served)
      PROVE  AllocatedIsSettled'
  BY <1>9 DEF ClaimBatch
<1>10. CASE SweepExpiredClaims
  BY <1>10 DEF SweepExpiredClaims
<1>11. ASSUME NEW sender \in {Sponsor, Factory}, Cancel(sender)
       PROVE  AllocatedIsSettled'
  BY <1>11 DEF Cancel
<1>12. ASSUME NEW a \in Agents, EmergencyWithdraw(a) PROVE AllocatedIsSettled'
  BY <1>12 DEF EmergencyWithdraw
<1>13. CASE SponsorWithdraw
  BY <1>13 DEF SponsorWithdraw
<1>14. ASSUME NEW res \in Results, SubmitScores(res)
       PROVE  AllocatedIsSettled'
  BY <1>14 DEF SubmitScores
<1>15. ASSUME NEW a \in Agents, Deregister(a) PROVE AllocatedIsSettled'
  BY <1>15 DEF Deregister
<1>16. CASE Tick \/ UNCHANGED vars
  BY <1>16 DEF Tick, vars
<1> QED
  BY <1>2, <1>3, <1>4, <1>5, <1>6, <1>7, <1>8, <1>9, <1>10, <1>11, <1>12,
     <1>13, <1>14, <1>15, <1>16 DEF Next

(* Every step keeps the refund book.                                       *)
LEMMA NextRefundBook ==
  ASSUME RInv, [Next]_vars
  PROVE  RefundBook'
<1> USE DEF escrowVars, claimVars, cashVars, outside
<1>1. IInv'
  BY NextIInv DEF RInv
<1>2. RefundBook
  BY DEF RInv
<1>3. ASSUME fundsAllocated' PROVE RefundBook'
  BY <1>3 DEF RefundBook
<1>4. ASSUME NEW value \in Deposits, DepositBounty(value) PROVE RefundBook'
  <2>1. ~fundsAllocated
    BY <1>4 DEF DepositBounty, RInv, IInv, Bookkeeping
  <2> QED BY <1>1, <1>4, <2>1, CollectKeepsBook DEF DepositBounty
<1>5. ASSUME NEW a \in Agents, Enter(a) PROVE RefundBook'
  <2>1. ~fundsAllocated
    BY <1>5 DEF Enter, RInv, IInv, Bookkeeping
  <2> QED BY <1>1, <1>5, <2>1, CollectKeepsBook DEF Enter
<1>6. ASSUME NEW a \in Agents, CommitSolution(a) PROVE RefundBook'
  BY <1>2, <1>6, RefundBookQuiet DEF CommitSolution
<1>7. CASE StartScoringPhase \/ CancelExpired \/ CancelScoringTimeout
  BY <1>2, <1>7, RefundBookQuiet
     DEF StartScoringPhase, CancelExpired, CancelScoringTimeout
<1>8. ASSUME NEW sender \in Addresses, Dispute(sender) PROVE RefundBook'
  BY <1>2, <1>8, RefundBookQuiet DEF Dispute
<1>9. ASSUME NEW stableOf \in Memberships, Finalize(stableOf)
      PROVE  RefundBook'
  BY <1>3, <1>9 DEF Finalize
<1>10. ASSUME NEW recipient \in Addresses, Claim(recipient) PROVE RefundBook'
  BY <1>3, <1>10 DEF Claim
<1>11. ASSUME NEW recipients \in SUBSET Addresses,
              NEW served \in SUBSET recipients, ClaimBatch(recipients, served)
       PROVE  RefundBook'
  BY <1>3, <1>11 DEF ClaimBatch
<1>12. CASE SweepExpiredClaims
  BY <1>3, <1>12 DEF SweepExpiredClaims
<1>13. ASSUME NEW sender \in {Sponsor, Factory}, Cancel(sender)
       PROVE  RefundBook'
  BY <1>2, <1>13, RefundBookQuiet DEF Cancel
<1>14. ASSUME NEW a \in Agents, EmergencyWithdraw(a) PROVE RefundBook'
  BY <1>14, EmergencyWithdrawKeepsBook
<1>15. CASE SponsorWithdraw
  BY <1>15, SponsorWithdrawKeepsBook
<1>16. ASSUME NEW res \in Results, SubmitScores(res) PROVE RefundBook'
  BY <1>2, <1>16, RefundBookQuiet DEF SubmitScores
<1>17. ASSUME NEW a \in Agents, Deregister(a) PROVE RefundBook'
  BY <1>2, <1>17, RefundBookQuiet DEF Deregister
<1>18. CASE Tick \/ UNCHANGED vars
  BY <1>2, <1>18, RefundBookQuiet DEF Tick, vars
<1> QED
  BY <1>4, <1>5, <1>6, <1>7, <1>8, <1>9, <1>10, <1>11, <1>12, <1>13, <1>14,
     <1>15, <1>16, <1>17, <1>18 DEF Next

(* A cancelled round returns to every account what that account paid in,   *)
(* in whatever order and however often the refunds are asked for           *)
(* (emergencyWithdraw() and sponsorWithdraw()).                            *)
THEOREM RefundsAreExact == Spec => []RefundsExact
<1>1. Init => RInv
  BY InitRInv
<1>2. RInv /\ [Next]_vars => RInv'
  BY NextIInv, NextRefundBook DEF RInv
<1>3. RInv => RefundsExact
  BY DEF RInv, RefundBook, RefundsExact
<1> QED BY <1>1, <1>2, <1>3, PTL DEF Spec

----------------------------------------------------------------------------
(* The strengthened invariant of a round that the factory leaves alone:    *)
(* whatever was allocated is being claimed, not refunded.                  *)
THEOREM DeployedInvariance ==
  ASSUME ~FactoryCancels
  PROVE  Spec => []DInv
<1>1. Init => DInv
  BY InitIInv DEF Init, DInv, AllocatedIsSettled
<1>2. DInv /\ [Next]_vars => DInv'
  BY NextIInv, NextAllocatedIsSettled DEF DInv
<1> QED BY <1>1, <1>2, PTL DEF Spec

(* Each step of OneWayOut.                                                 *)
LEMMA NextOneWayOut ==
  ASSUME ~FactoryCancels, DInv, [Next]_vars
  PROVE  /\ phase \in {"SETTLED", "CANCELLED"} => phase' = phase
         /\ fundsAllocated' => hasWithdrawn' = {} /\ sponsorDeposit' = deposited'
<1>1. DInv'
  BY NextIInv, NextAllocatedIsSettled DEF DInv
<1>2. fundsAllocated' => hasWithdrawn' = {} /\ sponsorDeposit' = deposited'
  BY <1>1 DEF DInv, IInv, Bookkeeping, AllocatedIsSettled
<1>3. phase = "SETTLED" => fundsAllocated /\ participants # {}
  BY DEF DInv, IInv, Bookkeeping, AllocatedIsSettled
<1>4. ASSUME phase \in {"SETTLED", "CANCELLED"} PROVE phase' = phase
  BY <1>3, <1>4 DEF Next, DepositBounty, Enter, CommitSolution,
     StartScoringPhase, CancelExpired, CancelScoringTimeout, Dispute, Finalize,
     Claim, ClaimBatch, SweepExpiredClaims, Cancel, EmergencyWithdraw,
     SponsorWithdraw, SubmitScores, Deregister, Tick, vars
<1> QED BY <1>2, <1>4

(* A round never settles after a refund nor refunds after it has settled,  *)
(* and neither end is left again (the phases of finalize(), the            *)
(* cancellations and both refunds).                                        *)
THEOREM OneWayOutHolds ==
  ASSUME ~FactoryCancels
  PROVE  Spec => OneWayOut
<1>1. DInv /\ [Next]_vars =>
        [/\ phase \in {"SETTLED", "CANCELLED"} => phase' = phase
         /\ fundsAllocated' => hasWithdrawn' = {} /\ sponsorDeposit' = deposited']_vars
  BY NextOneWayOut
<1> QED BY <1>1, DeployedInvariance, PTL DEF Spec, OneWayOut

(* Once somebody has entered, a round is called off only behind a deadline *)
(* (cancel(), cancelExpired(), cancelScoringTimeout()).                    *)
THEOREM NoRugPullHolds ==
  ASSUME ~FactoryCancels
  PROVE  Spec => NoRugPull
<1>1. [Next]_vars =>
        [phase # "CANCELLED" /\ phase' = "CANCELLED" /\ participants # {} =>
           \/ phase = "COMMIT"  /\ elapsed > CommitDuration
           \/ phase = "SCORING" /\ elapsed > ScoringTimeout]_vars
  BY DEF Next, DepositBounty, Enter, CommitSolution, StartScoringPhase,
     CancelExpired, CancelScoringTimeout, Dispute, Finalize, Claim, ClaimBatch,
     SweepExpiredClaims, Cancel, EmergencyWithdraw, SponsorWithdraw,
     SubmitScores, Deregister, Tick, vars
<1> QED BY <1>1, PTL DEF Spec, NoRugPull

(* What a payment takes from a claim balance it adds to what was paid.     *)
LEMMA NextEntitlements ==
  ASSUME ~FactoryCancels, DInv, [Next]_vars, fundsAllocated,
         NEW x \in Addresses \ {Treasury}
  PROVE  claimable'[x] + paid'[x] = claimable[x] + paid[x]
<1> USE DEF escrowVars, claimVars, cashVars, outside
<1>1. phase = "SETTLED" /\ participants # {}
  BY DEF DInv, AllocatedIsSettled
<1>2. /\ claimable \in [Addresses -> Nat] /\ paid \in [Addresses -> Nat]
      /\ totalClaimable \in Nat
  BY DEF DInv, IInv, TypeOK
<1>3. claimable[x] \in Nat /\ paid[x] \in Nat
  BY <1>2
<1>4. CASE UNCHANGED <<claimable, paid>>
  BY <1>4
<1>5. ASSUME NEW recipient \in Addresses, Claim(recipient)
      PROVE  claimable'[x] + paid'[x] = claimable[x] + paid[x]
  <2>1. /\ claimable' = [claimable EXCEPT ![recipient] = 0]
        /\ paid' = [paid EXCEPT ![recipient] = @ + claimable[recipient]]
    BY <1>5 DEF Claim, Transfer
  <2>2. CASE x = recipient
    BY <1>2, <1>3, <2>1, <2>2
  <2>3. CASE x # recipient
    BY <1>2, <2>1, <2>3
  <2> QED BY <2>2, <2>3
<1>6. ASSUME NEW recipients \in SUBSET Addresses,
             NEW served \in SUBSET recipients, ClaimBatch(recipients, served)
      PROVE  claimable'[x] + paid'[x] = claimable[x] + paid[x]
  <2>1. /\ claimable'[x] = IF x \in served THEN 0 ELSE claimable[x]
        /\ paid'[x] = IF x \in served THEN paid[x] + claimable[x] ELSE paid[x]
    BY <1>6 DEF ClaimBatch
  <2> QED BY <1>3, <2>1
<1>7. CASE SweepExpiredClaims
  <2>1. claimable' = claimable
        /\ paid' = [paid EXCEPT ![Treasury] = @ + totalClaimable]
    BY <1>7 DEF SweepExpiredClaims, Transfer
  <2>2. paid'[x] = paid[x]
    BY <1>2, <2>1
  <2> QED BY <2>1, <2>2
<1> QED
  BY <1>1, <1>4, <1>5, <1>6, <1>7 DEF Next, DepositBounty, Enter,
     CommitSolution, StartScoringPhase, CancelExpired, CancelScoringTimeout,
     Dispute, Finalize, Cancel, EmergencyWithdraw, SponsorWithdraw,
     SubmitScores, Deregister, Tick, vars

(* Allocated prizes cannot be raised, lowered or redirected: claim(),      *)
(* claimBatch() and the sweep pay every account but the treasury out of    *)
(* its own claim balance.                                                  *)
THEOREM EntitlementsAreFrozen ==
  ASSUME ~FactoryCancels
  PROVE  Spec => EntitlementsFrozen
<1>1. DInv /\ [Next]_vars =>
        [fundsAllocated =>
           \A x \in Addresses \ {Treasury} :
             claimable'[x] + paid'[x] = claimable[x] + paid[x]]_vars
  BY NextEntitlements
<1> QED BY <1>1, DeployedInvariance, PTL DEF Spec, EntitlementsFrozen

----------------------------------------------------------------------------
(* The round as an escrow.  The abstract state, with the values that the   *)
(* instance Escrow gives it.                                               *)
Stage ==
  CASE phase = "SETTLED"   -> "sharing"
    [] phase = "CANCELLED" -> "refunding"
    [] OTHER               -> "collecting"

Contributed == [x \in Addresses |-> Contribution(x)]

Owed ==
  [x \in Addresses |->
     CASE phase = "SETTLED" -> IF totalClaimable = 0 THEN 0 ELSE claimable[x]
       [] phase = "CANCELLED" -> StillDue(x)
       [] OTHER -> 0]

(* What the accounts contributed is what the two scalars say, and the sweep*)
(* finds the claim balances as large as their total.                       *)
PotBook == SumFunctionOnSet(Contributed, Addresses) = deposited + totalEntryFees

TotalStands ==
  fundsAllocated /\ totalClaimable > 0 =>
    SumFunctionOnSet(claimable, Addresses) = totalClaimable

EInv == IInv /\ AllocatedIsSettled /\ RefundBook /\ PotBook /\ TotalStands

(* The abstract stage of each phase.                                       *)
LEMMA StageFacts ==
  /\ phase = "SETTLED" => Stage = "sharing"
  /\ phase = "CANCELLED" => Stage = "refunding"
  /\ phase \notin {"SETTLED", "CANCELLED"} => Stage = "collecting"
BY DEF Stage

(* What an account is owed in each phase.                                  *)
LEMMA OwedFacts ==
  ASSUME NEW x \in Addresses
  PROVE  /\ phase = "SETTLED" => Owed[x] = IF totalClaimable = 0 THEN 0 ELSE claimable[x]
         /\ phase = "CANCELLED" => Owed[x] = StillDue(x)
         /\ phase \notin {"SETTLED", "CANCELLED"} => Owed[x] = 0
BY DEF Owed

(* Contributions are amounts.                                              *)
LEMMA ContributionIsNat ==
  ASSUME IInv, NEW x \in Addresses
  PROVE  Contribution(x) \in Nat /\ Contributed[x] = Contribution(x)
<1>1. EntriesOf(x, participants) \in Nat /\ deposited \in Nat
  BY EntriesFacts DEF IInv, TypeOK
<1> QED
  BY <1>1 DEF Contribution, Contributed

(* How the steps of the abstract specification read for the round.         *)
LEMMA StutterMaps ==
  ASSUME Stage' = Stage, Contributed' = Contributed, Owed' = Owed, paid' = paid
  PROVE  UNCHANGED Escrow!vars
BY DEF Escrow!vars, Stage, Contributed, Owed

(* Money comes in while nothing is decided.                                *)
LEMMA ContributeMaps ==
  ASSUME Stage = "collecting", Stage' = Stage, Owed' = Owed, paid' = paid,
         \A x \in Addresses : Contributed'[x] >= Contributed[x]
  PROVE  Escrow!Next
BY DEF Escrow!Next, Escrow!Contribute, Stage, Contributed, Owed

(* The sum that RoundEscrow names is the one used here.                    *)
LEMMA EscrowTotal ==
  ASSUME NEW money
  PROVE  Escrow!Total(money) = SumFunctionOnSet(money, Addresses)
BY DEF Escrow!Total, Escrow!SumFunctionOnSet, Escrow!FoldFunctionOnSet, Escrow!MapThenFoldSet,
       SumFunctionOnSet, FoldFunctionOnSet, MapThenFoldSet

(* The pot is shared out.                                                  *)
LEMMA ShareMaps ==
  ASSUME Stage = "collecting", Stage' = "sharing", Contributed' = Contributed, paid' = paid,
         SumFunctionOnSet(Owed', Addresses) = SumFunctionOnSet(Contributed, Addresses)
  PROVE  Escrow!Next
BY EscrowTotal DEF Escrow!Next, Escrow!Share, Stage, Contributed, Owed

(* Every contribution is given back.                                       *)
LEMMA GiveBackMaps ==
  ASSUME Stage = "collecting", Stage' = "refunding", Contributed' = Contributed, paid' = paid,
         Owed' = Contributed
  PROVE  Escrow!Next
BY DEF Escrow!Next, Escrow!GiveBack, Stage, Contributed, Owed

(* An account is paid out of what it is owed.                              *)
LEMMA PayMaps ==
  ASSUME Stage # "collecting", Stage' = Stage, Contributed' = Contributed,
         \A x \in Addresses : paid'[x] >= paid[x] /\ paid'[x] + Owed'[x] = paid[x] + Owed[x]
  PROVE  Escrow!Next
BY DEF Escrow!Next, Escrow!Pay, Stage, Contributed, Owed

(* The treasury takes what nobody claimed.                                 *)
LEMMA ForfeitMaps ==
  ASSUME Stage = "sharing", Stage' = Stage, Contributed' = Contributed,
         Owed' = [x \in Addresses |-> 0],
         paid' = [paid EXCEPT ![Treasury] = @ + SumFunctionOnSet(Owed, Addresses)]
  PROVE  Escrow!Next
BY EscrowTotal DEF Escrow!Next, Escrow!Forfeit, Escrow!Nothing, Stage, Contributed, Owed

----------------------------------------------------------------------------
(* The abstract state of a round before its decision.                      *)
LEMMA Undecided ==
  ASSUME phase \notin {"SETTLED", "CANCELLED"}
  PROVE  Stage = "collecting" /\ Owed = [x \in Addresses |-> 0]
BY DEF Stage, Owed

(* Whatever touches neither the phase, nor the contributions, nor what is  *)
(* still due, nor payments is a stutter.                                   *)
LEMMA QuietIsStutter ==
  ASSUME UNCHANGED <<phase, participants, hasWithdrawn, deposited, sponsorDeposit,
                     claimable, totalClaimable, paid>>
  PROVE  UNCHANGED Escrow!vars
<1>1. Stage' = Stage /\ Contributed' = Contributed /\ Owed' = Owed
  BY DEF Stage, Contributed, Owed, Contribution, StillDue, EntriesOf
<1> QED
  BY <1>1, StutterMaps

(* A step from one undecided phase to another, too, unless somebody pays.  *)
LEMMA QuietWhileUndecided ==
  ASSUME phase \notin {"SETTLED", "CANCELLED"}, phase' \notin {"SETTLED", "CANCELLED"},
         UNCHANGED <<participants, deposited, paid>>
  PROVE  UNCHANGED Escrow!vars
<1>1. Stage' = Stage /\ Owed' = Owed
  <2>1. Stage' = "collecting" /\ Owed' = [x \in Addresses |-> 0]
    BY DEF Stage, Owed
  <2> QED
    BY <2>1, Undecided
<1>2. Contributed' = Contributed
  BY DEF Contributed, Contribution, EntriesOf
<1> QED
  BY <1>1, <1>2, StutterMaps

(* One more entry never lowers anybody's contribution.                     *)
LEMMA EntriesGrow ==
  ASSUME NEW x, NEW S, S \subseteq Agents, NEW a \in Agents \ S
  PROVE  EntriesOf(x, S \cup {a}) =
           EntriesOf(x, S) + (IF Wallet[a] = x THEN EntryFee ELSE 0)
<1> DEFINE T == S \cup {a}
<1>1. T \subseteq Agents /\ a \in T /\ T \ {a} = S
  OBVIOUS
<1>2. EntriesOf(x, T) \in Nat /\ EntryFee \in Nat
  BY <1>1, EntriesFacts, ConstantFacts
<1>3. EntriesOf(x, T \ {a}) = IF Wallet[a] = x THEN EntriesOf(x, T) - EntryFee
                              ELSE EntriesOf(x, T)
  BY <1>1, EntriesRemove
<1> HIDE DEF T
<1>4. EntriesOf(x, S) = IF Wallet[a] = x THEN EntriesOf(x, T) - EntryFee
                        ELSE EntriesOf(x, T)
  BY <1>1, <1>3
<1>5. EntriesOf(x, T) = EntriesOf(x, S) + (IF Wallet[a] = x THEN EntryFee ELSE 0)
  BY <1>2, <1>4
<1> QED
  BY <1>5 DEF T

(* depositBounty() is a contribution of the sponsor.                       *)
LEMMA DepositMaps ==
  ASSUME IInv, NEW value \in Deposits, DepositBounty(value)
  PROVE  Escrow!Next
<1>1. /\ phase = "OPEN" /\ phase' = "COMMIT" /\ deposited = 0 /\ deposited' = value
      /\ value \in Nat /\ UNCHANGED <<participants, paid>>
  BY ConstantFacts DEF DepositBounty, IInv, Bookkeeping
<1>2. Stage = "collecting" /\ Stage' = Stage /\ Owed' = Owed
  <2>1. Stage' = "collecting" /\ Owed' = [x \in Addresses |-> 0]
    BY <1>1 DEF Stage, Owed
  <2> QED
    BY <1>1, <2>1, Undecided
<1>3. ASSUME NEW x \in Addresses
      PROVE  Contributed'[x] >= Contributed[x]
  <2>1. /\ EntriesOf(x, participants) \in Nat
        /\ EntriesOf(x, participants)' = EntriesOf(x, participants)
    BY <1>1, EntriesFacts DEF IInv, TypeOK, EntriesOf
  <2> QED
    BY <1>1, <2>1 DEF Contributed, Contribution
<1> QED
  BY <1>1, <1>2, <1>3, ContributeMaps

(* enter() is a contribution of the agent's wallet.                        *)
LEMMA EnterMaps ==
  ASSUME IInv, NEW a \in Agents, Enter(a)
  PROVE  Escrow!Next
<1>1. /\ phase = "COMMIT" /\ phase' = "COMMIT" /\ a \notin participants
      /\ participants' = participants \cup {a} /\ participants \subseteq Agents
      /\ UNCHANGED <<deposited, paid>> /\ deposited \in Nat
  BY DEF Enter, IInv, TypeOK
<1>2. Stage = "collecting" /\ Stage' = Stage /\ Owed' = Owed
  <2>1. Stage' = "collecting" /\ Owed' = [x \in Addresses |-> 0]
    BY <1>1 DEF Stage, Owed
  <2> QED
    BY <1>1, <2>1, Undecided
<1>3. ASSUME NEW x \in Addresses
      PROVE  Contributed'[x] >= Contributed[x]
  <2>1. EntriesOf(x, participants) \in Nat /\ EntryFee \in Nat
    BY <1>1, EntriesFacts, ConstantFacts
  <2>2. EntriesOf(x, participants') =
          EntriesOf(x, participants) + (IF Wallet[a] = x THEN EntryFee ELSE 0)
    BY <1>1, EntriesGrow
  <2>3. EntriesOf(x, participants)' = EntriesOf(x, participants')
    BY DEF EntriesOf
  <2> QED
    BY <1>1, <2>1, <2>2, <2>3 DEF Contributed, Contribution
<1> QED
  BY <1>1, <1>2, <1>3, ContributeMaps

(* A cancellation gives everybody back what it contributed, and another    *)
(* one changes nothing.                                                    *)
LEMMA CancellationMaps ==
  ASSUME IInv, phase # "SETTLED", phase' = "CANCELLED",
         UNCHANGED <<escrowVars, claimVars, cashVars>>
  PROVE  [Escrow!Next]_(Escrow!vars)
<1>1. CASE phase = "CANCELLED"
  BY <1>1, QuietIsStutter DEF escrowVars, claimVars, cashVars
<1>2. CASE phase # "CANCELLED"
  <2>1. Stage = "collecting" /\ Stage' = "refunding"
    BY <1>2, Undecided DEF Stage
  <2>2. Contributed' = Contributed /\ paid' = paid
    BY DEF Contributed, Contribution, EntriesOf, escrowVars, cashVars
  <2>3. Owed' = [x \in Addresses |-> StillDue(x)']
    BY DEF Owed
  <2>4. \A x \in Addresses : StillDue(x)' = Contribution(x)
    <3>1. \A x \in Addresses : StillDue(x)' = StillDue(x)
      BY DEF StillDue, EntriesOf, escrowVars
    <3> QED
      BY <1>2, <3>1, BookBeforeRefunds DEF IInv
  <2>5. Owed' = Contributed
    BY <2>3, <2>4 DEF Contributed
  <2> QED
    BY <2>1, <2>2, <2>5, GiveBackMaps
<1> QED
  BY <1>1, <1>2

(* While claims can be made, an account is owed its claim balance.         *)
LEMMA OwedIsClaimable ==
  ASSUME IInv, phase = "SETTLED", fundsAllocated,
         SumFunctionOnSet(claimable, Addresses) = totalClaimable
  PROVE  /\ \A x \in Addresses : Owed[x] = claimable[x]
         /\ SumFunctionOnSet(Owed, Addresses) = totalClaimable
<1>1. \A x \in Addresses : claimable[x] \in Nat
  BY DEF IInv, TypeOK
<1>2. \A x \in Addresses : claimable[x] <= totalClaimable
  BY <1>1, ConstantFacts, SumNat
<1>3. \A x \in Addresses : Owed[x] = claimable[x]
  BY <1>1, <1>2 DEF Owed
<1> QED
  BY <1>3, ConstantFacts, SumEqual

(* The same of the state after a step.                                     *)
LEMMA OwedIsClaimableNext ==
  ASSUME IInv', phase' = "SETTLED", fundsAllocated',
         SumFunctionOnSet(claimable', Addresses) = totalClaimable'
  PROVE  /\ \A x \in Addresses : Owed'[x] = claimable'[x]
         /\ SumFunctionOnSet(Owed', Addresses) = totalClaimable'
<1>1. \A x \in Addresses : claimable'[x] \in Nat
  BY DEF IInv, TypeOK
<1>2. \A x \in Addresses : claimable'[x] <= totalClaimable'
  BY <1>1, ConstantFacts, SumNat
<1>3. \A x \in Addresses : Owed'[x] = claimable'[x]
  BY <1>1, <1>2 DEF Owed
<1> QED
  BY <1>3, ConstantFacts, SumEqual

(* finalize() shares out the deposit and the entry fees.                   *)
LEMMA FinalizeMaps ==
  ASSUME IInv, IInv', PotBook, RefundBook, NEW stableOf \in Memberships, Finalize(stableOf)
  PROVE  Escrow!Next
<1>1. /\ phase = "SCORING" /\ phase' = "SETTLED" /\ ~fundsAllocated /\ fundsAllocated'
      /\ elapsed' = 0 /\ UNCHANGED <<escrowVars, cashVars>>
  BY DEF Finalize
<1>2. Stage = "collecting" /\ Stage' = "sharing"
  BY <1>1, Undecided DEF Stage
<1>3. Contributed' = Contributed /\ paid' = paid
  BY <1>1 DEF Contributed, Contribution, EntriesOf, escrowVars, cashVars
<1>4. SumFunctionOnSet(claimable', Addresses) = totalClaimable'
  BY <1>1, ConstantFacts DEF IInv, ClaimsBacked
<1>5. SumFunctionOnSet(Owed', Addresses) = totalClaimable'
  BY <1>1, <1>4, OwedIsClaimableNext
<1>6. totalClaimable' = sponsorDeposit + totalEntryFees
  <2>1. balance = sponsorDeposit + totalEntryFees
    BY <1>1 DEF IInv, Solvent, Obligations
  <2>2. balance' = totalClaimable'
    BY <1>1 DEF IInv, Solvent, Obligations
  <2> QED
    BY <1>1, <2>1, <2>2 DEF cashVars
<1>7. sponsorDeposit = deposited
  BY <1>1 DEF IInv, Bookkeeping
<1>8. SumFunctionOnSet(Owed', Addresses) = SumFunctionOnSet(Contributed, Addresses)
  BY <1>5, <1>6, <1>7 DEF PotBook
<1> QED
  BY <1>2, <1>3, <1>8, ShareMaps

(* A payment of a claim takes from the same account's claim balance.       *)
LEMMA ClaimMaps ==
  ASSUME IInv, IInv', AllocatedIsSettled, NEW recipient \in Addresses, Claim(recipient)
  PROVE  Escrow!Next
<1>1. /\ phase = "SETTLED" /\ phase' = "SETTLED" /\ fundsAllocated /\ fundsAllocated'
      /\ elapsed <= ClaimExpiry /\ elapsed' = elapsed /\ UNCHANGED escrowVars
  BY DEF Claim, AllocatedIsSettled
<1>2. Stage # "collecting" /\ Stage' = Stage
  BY <1>1 DEF Stage
<1>3. Contributed' = Contributed
  BY <1>1 DEF Contributed, Contribution, EntriesOf, escrowVars
<1>4. \A x \in Addresses : Owed[x] = claimable[x]
  BY <1>1, OwedIsClaimable DEF IInv, ClaimsBacked
<1>5. \A x \in Addresses : Owed'[x] = claimable'[x]
  BY <1>1, OwedIsClaimableNext DEF IInv, ClaimsBacked
<1>6. ASSUME NEW x \in Addresses
      PROVE  paid'[x] >= paid[x] /\ paid'[x] + Owed'[x] = paid[x] + Owed[x]
  <2>1. /\ claimable \in [Addresses -> Nat] /\ paid \in [Addresses -> Nat]
    BY DEF IInv, TypeOK
  <2>2. /\ claimable'[x] = IF x = recipient THEN 0 ELSE claimable[x]
        /\ paid'[x] = IF x = recipient THEN paid[x] + claimable[recipient] ELSE paid[x]
    BY <2>1 DEF Claim, Transfer
  <2>3. claimable[x] \in Nat /\ paid[x] \in Nat
    BY <2>1
  <2>4. CASE x = recipient
    BY <1>4, <1>5, <2>2, <2>3, <2>4
  <2>5. CASE x # recipient
    BY <1>4, <1>5, <2>2, <2>3, <2>5
  <2> QED
    BY <2>4, <2>5
<1> QED
  BY <1>2, <1>3, <1>6, PayMaps

(* So does every payment of a batch.                                       *)
LEMMA ClaimBatchMaps ==
  ASSUME IInv, IInv', AllocatedIsSettled, NEW recipients \in SUBSET Addresses,
         NEW served \in SUBSET recipients, ClaimBatch(recipients, served)
  PROVE  Escrow!Next
<1>1. /\ phase = "SETTLED" /\ phase' = "SETTLED" /\ fundsAllocated /\ fundsAllocated'
      /\ elapsed <= ClaimExpiry /\ elapsed' = elapsed /\ UNCHANGED escrowVars
  BY DEF ClaimBatch, AllocatedIsSettled
<1>2. Stage # "collecting" /\ Stage' = Stage
  BY <1>1 DEF Stage
<1>3. Contributed' = Contributed
  BY <1>1 DEF Contributed, Contribution, EntriesOf, escrowVars
<1>4. \A x \in Addresses : Owed[x] = claimable[x]
  BY <1>1, OwedIsClaimable DEF IInv, ClaimsBacked
<1>5. \A x \in Addresses : Owed'[x] = claimable'[x]
  BY <1>1, OwedIsClaimableNext DEF IInv, ClaimsBacked
<1>6. ASSUME NEW x \in Addresses
      PROVE  paid'[x] >= paid[x] /\ paid'[x] + Owed'[x] = paid[x] + Owed[x]
  <2>1. claimable[x] \in Nat /\ paid[x] \in Nat
    BY DEF IInv, TypeOK
  <2>2. /\ claimable'[x] = IF x \in served THEN 0 ELSE claimable[x]
        /\ paid'[x] = IF x \in served THEN paid[x] + claimable[x] ELSE paid[x]
    BY DEF ClaimBatch
  <2>3. CASE x \in served
    BY <1>4, <1>5, <2>1, <2>2, <2>3
  <2>4. CASE x \notin served
    BY <1>4, <1>5, <2>1, <2>2, <2>4
  <2> QED
    BY <2>3, <2>4
<1> QED
  BY <1>2, <1>3, <1>6, PayMaps

(* The sweep takes what all accounts are owed, and nobody is owed a thing  *)
(* afterwards.                                                             *)
LEMMA SweepMaps ==
  ASSUME IInv, AllocatedIsSettled, TotalStands, SweepExpiredClaims
  PROVE  Escrow!Next
<1>1. /\ phase = "SETTLED" /\ phase' = "SETTLED" /\ fundsAllocated
      /\ totalClaimable > 0 /\ totalClaimable' = 0 /\ UNCHANGED escrowVars
      /\ paid' = [paid EXCEPT ![Treasury] = @ + totalClaimable]
  BY DEF SweepExpiredClaims, AllocatedIsSettled, Transfer
<1>2. Stage = "sharing" /\ Stage' = Stage
  BY <1>1 DEF Stage
<1>3. Contributed' = Contributed
  BY <1>1 DEF Contributed, Contribution, EntriesOf, escrowVars
<1>4. SumFunctionOnSet(Owed, Addresses) = totalClaimable
  BY <1>1, OwedIsClaimable DEF TotalStands
<1>5. Owed' = [x \in Addresses |-> 0]
  BY <1>1 DEF Owed
<1>6. paid' = [paid EXCEPT ![Treasury] = @ + SumFunctionOnSet(Owed, Addresses)]
  BY <1>1, <1>4
<1> QED
  BY <1>2, <1>3, <1>5, <1>6, ForfeitMaps

(* A refund takes from what the same account is still due.                 *)
LEMMA RefundMaps ==
  ASSUME IInv, RefundBook, RefundBook', ~fundsAllocated, ~fundsAllocated',
         phase = "CANCELLED", phase' = "CANCELLED", UNCHANGED <<participants, deposited>>,
         \A x \in Addresses : paid'[x] >= paid[x]
  PROVE  Escrow!Next
<1>1. Stage # "collecting" /\ Stage' = Stage
  BY DEF Stage
<1>2. Contributed' = Contributed
  BY DEF Contributed, Contribution, EntriesOf
<1>3. ASSUME NEW x \in Addresses
      PROVE  paid'[x] + Owed'[x] = paid[x] + Owed[x]
  <2>1. Owed[x] = StillDue(x) /\ Owed'[x] = StillDue(x)'
    BY DEF Owed
  <2>2. Contribution(x)' = Contribution(x)
    BY DEF Contribution, EntriesOf
  <2>3. paid[x] + StillDue(x) = Contribution(x)
    BY DEF RefundBook
  <2>4. paid'[x] + StillDue(x)' = Contribution(x)'
    BY DEF RefundBook
  <2> QED
    BY <2>1, <2>2, <2>3, <2>4
<1> QED
  BY <1>1, <1>2, <1>3, PayMaps

(* emergencyWithdraw() and sponsorWithdraw() are such refunds.             *)
LEMMA WithdrawalMaps ==
  ASSUME IInv, IInv', AllocatedIsSettled, RefundBook, RefundBook',
         SponsorWithdraw \/ \E a \in Agents : EmergencyWithdraw(a)
  PROVE  Escrow!Next
<1>1. paid \in [Addresses -> Nat] /\ sponsorDeposit \in Nat /\ EntryFee \in Nat
  BY ConstantFacts DEF IInv, TypeOK
<1>2. CASE SponsorWithdraw
  <2>1. /\ phase = "CANCELLED" /\ phase' = "CANCELLED" /\ ~fundsAllocated
        /\ ~fundsAllocated' /\ UNCHANGED <<participants, deposited>>
    BY <1>2 DEF SponsorWithdraw, AllocatedIsSettled, claimVars
  <2>2. paid' = [paid EXCEPT ![Sponsor] = @ + sponsorDeposit]
    BY <1>2 DEF SponsorWithdraw, Transfer
  <2>3. ASSUME NEW x \in Addresses PROVE paid'[x] >= paid[x]
    BY <1>1, <2>2
  <2> QED
    BY <2>1, <2>3, RefundMaps
<1>3. ASSUME NEW a \in Agents, EmergencyWithdraw(a)
      PROVE  Escrow!Next
  <2>1. /\ phase = "CANCELLED" /\ phase' = "CANCELLED" /\ ~fundsAllocated
        /\ ~fundsAllocated' /\ UNCHANGED <<participants, deposited>>
    BY <1>3 DEF EmergencyWithdraw, AllocatedIsSettled, claimVars
  <2>2. paid' = [paid EXCEPT ![Wallet[a]] = @ + EntryFee]
    BY <1>3 DEF EmergencyWithdraw, Transfer
  <2>3. ASSUME NEW x \in Addresses PROVE paid'[x] >= paid[x]
    BY <1>1, <2>2
  <2> QED
    BY <2>1, <2>3, RefundMaps
<1> QED
  BY <1>2, <1>3

----------------------------------------------------------------------------
(* The sums that the mapping rests on are kept.                            *)
LEMMA DepositKeepsPot ==
  ASSUME IInv, PotBook, NEW value \in Deposits, DepositBounty(value)
  PROVE  PotBook'
<1>1. /\ deposited = 0 /\ deposited' = value /\ value \in Nat
      /\ UNCHANGED <<participants, totalEntryFees>> /\ totalEntryFees \in Nat
  BY ConstantFacts DEF DepositBounty, IInv, Bookkeeping, TypeOK
<1>2. \A x \in Addresses : /\ EntriesOf(x, participants) \in Nat
                           /\ EntriesOf(x, participants)' = EntriesOf(x, participants)
  BY <1>1, EntriesFacts DEF IInv, TypeOK, EntriesOf
<1>3. \A x \in Addresses :
        /\ Contributed[x] = EntriesOf(x, participants) + (IF x = Sponsor THEN 0 ELSE 0)
        /\ Contributed'[x] = EntriesOf(x, participants) + (IF x = Sponsor THEN value ELSE 0)
  BY <1>1, <1>2 DEF Contributed, Contribution
<1>4. /\ \A x \in Addresses : Contributed[x] \in Int /\ Contributed'[x] \in Int
      /\ \A x \in Addresses \ {Sponsor} : Contributed'[x] = Contributed[x]
      /\ Contributed'[Sponsor] = Contributed[Sponsor] + value
  BY <1>1, <1>2, <1>3, ConstantFacts
<1>5. SumFunctionOnSet(Contributed', Addresses) =
        SumFunctionOnSet(Contributed, Addresses) - Contributed[Sponsor] + Contributed'[Sponsor]
  BY <1>4, ConstantFacts, SumUpdate
<1>6. Contributed[Sponsor] \in Int
  BY <1>4, ConstantFacts
<1> QED
  BY <1>1, <1>4, <1>5, <1>6 DEF PotBook

(* An entry raises one account's contribution by the entry fee.            *)
LEMMA EnterKeepsPot ==
  ASSUME IInv, PotBook, NEW a \in Agents, Enter(a)
  PROVE  PotBook'
<1>1. /\ a \in Agents \ participants /\ participants' = participants \cup {a}
      /\ participants \subseteq Agents /\ UNCHANGED deposited
      /\ totalEntryFees' = totalEntryFees + EntryFee
      /\ deposited \in Nat /\ totalEntryFees \in Nat /\ EntryFee \in Nat
      /\ Wallet[a] \in Addresses
  BY ConstantFacts DEF Enter, IInv, TypeOK
<1>2. \A x \in Addresses :
        /\ EntriesOf(x, participants) \in Nat
        /\ EntriesOf(x, participants)' =
             EntriesOf(x, participants) + (IF Wallet[a] = x THEN EntryFee ELSE 0)
  BY <1>1, EntriesFacts, EntriesGrow DEF EntriesOf
<1>3. \A x \in Addresses :
        /\ Contributed[x] = EntriesOf(x, participants) + (IF x = Sponsor THEN deposited ELSE 0)
        /\ Contributed'[x] = EntriesOf(x, participants)
             + (IF Wallet[a] = x THEN EntryFee ELSE 0) + (IF x = Sponsor THEN deposited ELSE 0)
  BY <1>1, <1>2 DEF Contributed, Contribution
<1>4. /\ \A x \in Addresses : Contributed[x] \in Int /\ Contributed'[x] \in Int
      /\ \A x \in Addresses \ {Wallet[a]} : Contributed'[x] = Contributed[x]
      /\ Contributed'[Wallet[a]] = Contributed[Wallet[a]] + EntryFee
  BY <1>1, <1>2, <1>3
<1>5. SumFunctionOnSet(Contributed', Addresses) =
        SumFunctionOnSet(Contributed, Addresses)
          - Contributed[Wallet[a]] + Contributed'[Wallet[a]]
  BY <1>1, <1>4, ConstantFacts, SumUpdate
<1>6. Contributed[Wallet[a]] \in Int
  BY <1>1, <1>4
<1>7. SumFunctionOnSet(Contributed', Addresses) =
        SumFunctionOnSet(Contributed, Addresses) + EntryFee
  <2>1. SumFunctionOnSet(Contributed, Addresses) \in Int
    BY <1>1 DEF PotBook
  <2> QED
    BY <1>1, <1>4, <1>5, <1>6, <2>1
<1> QED
  BY <1>1, <1>7 DEF PotBook

(* What takes no money in leaves the contributions alone.                  *)
LEMMA QuietKeepsPot ==
  ASSUME PotBook, UNCHANGED <<participants, deposited, totalEntryFees>>
  PROVE  PotBook'
<1>1. Contributed' = Contributed
  BY DEF Contributed, Contribution, EntriesOf
<1> QED
  BY <1>1 DEF PotBook

(* What touches no claim leaves the claims alone.                          *)
LEMMA QuietKeepsTotal ==
  ASSUME TotalStands, UNCHANGED claimVars
  PROVE  TotalStands'
BY DEF TotalStands, claimVars

(* While claims are open the invariant says as much.                       *)
LEMMA OpenClaimsStand ==
  ASSUME IInv', elapsed' <= ClaimExpiry
  PROVE  TotalStands'
BY DEF IInv, ClaimsBacked, TotalStands

(* Every transaction keeps the two sums.                                   *)
LEMMA NextSums ==
  ASSUME EInv, IInv', [Next]_vars
  PROVE  PotBook' /\ TotalStands'
<1> USE DEF escrowVars
<1>1. IInv /\ PotBook /\ TotalStands
  BY DEF EInv
<1>2. ASSUME NEW value \in Deposits, DepositBounty(value) PROVE PotBook' /\ TotalStands'
  BY <1>1, <1>2, DepositKeepsPot, QuietKeepsTotal DEF DepositBounty
<1>3. ASSUME NEW a \in Agents, Enter(a) PROVE PotBook' /\ TotalStands'
  BY <1>1, <1>3, EnterKeepsPot, QuietKeepsTotal DEF Enter
<1>4. ASSUME NEW a \in Agents, CommitSolution(a) PROVE PotBook' /\ TotalStands'
  BY <1>1, <1>4, QuietKeepsPot, QuietKeepsTotal DEF CommitSolution
<1>5. CASE StartScoringPhase \/ CancelExpired \/ CancelScoringTimeout
  BY <1>1, <1>5, QuietKeepsPot, QuietKeepsTotal
     DEF StartScoringPhase, CancelExpired, CancelScoringTimeout
<1>6. ASSUME NEW sender \in Addresses, Dispute(sender) PROVE PotBook' /\ TotalStands'
  BY <1>1, <1>6, QuietKeepsPot, QuietKeepsTotal DEF Dispute
<1>7. ASSUME NEW stableOf \in Memberships, Finalize(stableOf) PROVE PotBook' /\ TotalStands'
  <2>1. elapsed' = 0 /\ UNCHANGED escrowVars
    BY <1>7 DEF Finalize
  <2>2. elapsed' <= ClaimExpiry
    BY <2>1, ConstantFacts
  <2> QED
    BY <1>1, <2>1, <2>2, QuietKeepsPot, OpenClaimsStand
<1>8. ASSUME NEW recipient \in Addresses, Claim(recipient) PROVE PotBook' /\ TotalStands'
  <2>1. elapsed' <= ClaimExpiry /\ UNCHANGED escrowVars
    BY <1>8 DEF Claim
  <2> QED
    BY <1>1, <2>1, QuietKeepsPot, OpenClaimsStand
<1>9. ASSUME NEW recipients \in SUBSET Addresses,
             NEW served \in SUBSET recipients, ClaimBatch(recipients, served)
      PROVE  PotBook' /\ TotalStands'
  <2>1. elapsed' <= ClaimExpiry /\ UNCHANGED escrowVars
    BY <1>9 DEF ClaimBatch
  <2> QED
    BY <1>1, <2>1, QuietKeepsPot, OpenClaimsStand
<1>10. CASE SweepExpiredClaims
  BY <1>1, <1>10, QuietKeepsPot DEF SweepExpiredClaims, TotalStands
<1>11. ASSUME NEW sender \in {Sponsor, Factory}, Cancel(sender) PROVE PotBook' /\ TotalStands'
  BY <1>1, <1>11, QuietKeepsPot, QuietKeepsTotal DEF Cancel
<1>12. ASSUME NEW a \in Agents, EmergencyWithdraw(a) PROVE PotBook' /\ TotalStands'
  BY <1>1, <1>12, QuietKeepsPot, QuietKeepsTotal DEF EmergencyWithdraw
<1>13. CASE SponsorWithdraw
  BY <1>1, <1>13, QuietKeepsPot, QuietKeepsTotal DEF SponsorWithdraw
<1>14. ASSUME NEW res \in Results, SubmitScores(res) PROVE PotBook' /\ TotalStands'
  BY <1>1, <1>14, QuietKeepsPot, QuietKeepsTotal DEF SubmitScores
<1>15. ASSUME NEW a \in Agents, Deregister(a) PROVE PotBook' /\ TotalStands'
  BY <1>1, <1>15, QuietKeepsPot, QuietKeepsTotal DEF Deregister
<1>16. CASE Tick \/ UNCHANGED vars
  BY <1>1, <1>16, QuietKeepsPot, QuietKeepsTotal DEF Tick, vars
<1> QED
  BY <1>2, <1>3, <1>4, <1>5, <1>6, <1>7, <1>8, <1>9, <1>10, <1>11, <1>12,
     <1>13, <1>14, <1>15, <1>16 DEF Next

(* Initially nobody has put anything in, nor is owed or paid anything.     *)
LEMMA InitMaps == Init => EInv /\ Escrow!Init
<1> SUFFICES ASSUME Init PROVE EInv /\ Escrow!Init
  OBVIOUS
<1>1. RInv /\ IInv
  BY InitRInv DEF RInv
<1>2. phase = "OPEN" /\ ~fundsAllocated /\ participants = {} /\ deposited = 0
      /\ totalEntryFees = 0 /\ paid = [x \in Addresses |-> 0]
  BY DEF Init
<1>3. \A x \in Addresses : Contribution(x) = 0
  <2>1. \A x \in Addresses : {a \in {} : Wallet[a] = x} = {}
    OBVIOUS
  <2>2. Cardinality({}) = 0 /\ EntryFee * 0 = 0
    BY FS_EmptySet, ConstantFacts
  <2> QED
    BY <1>2, <2>1, <2>2 DEF Contribution, EntriesOf
<1>4. Contributed = [x \in Addresses |-> 0]
  BY <1>3 DEF Contributed
<1>5. PotBook
  <2>1. SumFunctionOnSet(Contributed, Addresses) = 0
    BY <1>4, SumZero, ConstantFacts
  <2> QED
    BY <1>2, <2>1 DEF PotBook
<1>6. Stage = "collecting" /\ Owed = [x \in Addresses |-> 0]
  BY <1>2, Undecided
<1>7. Escrow!Init
  BY <1>2, <1>4, <1>6 DEF Escrow!Init, Escrow!Nothing, Stage, Contributed, Owed
<1> QED
  BY <1>1, <1>2, <1>5, <1>7 DEF EInv, RInv, AllocatedIsSettled, TotalStands

(* Every transaction is a step of the escrow or moves no money.            *)
LEMMA NextMaps ==
  ASSUME ~FactoryCancels, EInv, EInv', [Next]_vars
  PROVE  [Escrow!Next]_(Escrow!vars)
<1> USE DEF escrowVars, claimVars, cashVars, outside
<1>1. /\ IInv /\ IInv' /\ AllocatedIsSettled /\ RefundBook /\ RefundBook'
      /\ PotBook /\ TotalStands
  BY DEF EInv
<1>2. ASSUME NEW value \in Deposits, DepositBounty(value) PROVE Escrow!Next
  BY <1>1, <1>2, DepositMaps
<1>3. ASSUME NEW a \in Agents, Enter(a) PROVE Escrow!Next
  BY <1>1, <1>3, EnterMaps
<1>4. ASSUME NEW a \in Agents, CommitSolution(a) PROVE UNCHANGED Escrow!vars
  BY <1>4, QuietIsStutter DEF CommitSolution
<1>5. CASE StartScoringPhase
  BY <1>5, QuietWhileUndecided DEF StartScoringPhase
<1>6. CASE CancelExpired \/ CancelScoringTimeout
  BY <1>1, <1>6, CancellationMaps DEF CancelExpired, CancelScoringTimeout
<1>7. ASSUME NEW sender \in Addresses, Dispute(sender) PROVE UNCHANGED Escrow!vars
  BY <1>7, QuietWhileUndecided DEF Dispute
<1>8. ASSUME NEW stableOf \in Memberships, Finalize(stableOf) PROVE Escrow!Next
  BY <1>1, <1>8, FinalizeMaps
<1>9. ASSUME NEW recipient \in Addresses, Claim(recipient) PROVE Escrow!Next
  BY <1>1, <1>9, ClaimMaps
<1>10. ASSUME NEW recipients \in SUBSET Addresses,
              NEW served \in SUBSET recipients, ClaimBatch(recipients, served)
       PROVE  Escrow!Next
  BY <1>1, <1>10, ClaimBatchMaps
<1>11. CASE SweepExpiredClaims
  BY <1>1, <1>11, SweepMaps
<1>12. ASSUME NEW sender \in {Sponsor, Factory}, Cancel(sender)
       PROVE  [Escrow!Next]_(Escrow!vars)
  <2>1. participants = {} /\ phase' = "CANCELLED"
        /\ UNCHANGED <<escrowVars, claimVars, cashVars>>
    BY <1>12 DEF Cancel
  <2>2. phase # "SETTLED"
    BY <1>1, <2>1 DEF AllocatedIsSettled, IInv, Bookkeeping
  <2> QED
    BY <1>1, <2>1, <2>2, CancellationMaps
<1>13. CASE SponsorWithdraw \/ \E a \in Agents : EmergencyWithdraw(a)
  BY <1>1, <1>13, WithdrawalMaps
<1>14. ASSUME NEW res \in Results, SubmitScores(res) PROVE UNCHANGED Escrow!vars
  BY <1>14, QuietIsStutter DEF SubmitScores
<1>15. ASSUME NEW a \in Agents, Deregister(a) PROVE UNCHANGED Escrow!vars
  BY <1>15, QuietIsStutter DEF Deregister
<1>16. CASE Tick \/ UNCHANGED vars
  BY <1>16, QuietIsStutter DEF Tick, vars
<1> QED
  BY <1>2, <1>3, <1>4, <1>5, <1>6, <1>7, <1>8, <1>9, <1>10, <1>11, <1>12,
     <1>13, <1>14, <1>15, <1>16 DEF Next

(* A round implements the escrow of RoundEscrow: however entries, results, *)
(* deadlines, claims, batches, refunds and the sweep interleave, the pot   *)
(* is shared out or given back once and to the last wei, payments come out *)
(* of what the very account is owed, and refunds are never forfeited.      *)
THEOREM RoundImplementsEscrow ==
  ASSUME ~FactoryCancels
  PROVE  Spec => ImplementsEscrow
<1>1. Init => EInv /\ Escrow!Init
  BY InitMaps
<1>2. EInv /\ [Next]_vars => EInv'
  <2> SUFFICES ASSUME EInv, [Next]_vars PROVE EInv'
    OBVIOUS
  <2>1. IInv'
    BY NextIInv DEF EInv
  <2>2. AllocatedIsSettled' /\ RefundBook'
    BY NextAllocatedIsSettled, NextRefundBook DEF EInv, DInv, RInv
  <2> QED
    BY <2>1, <2>2, NextSums DEF EInv
<1>3. EInv /\ EInv' /\ [Next]_vars => [Escrow!Next]_(Escrow!vars)
  BY NextMaps
<1> QED
  BY <1>1, <1>2, <1>3, PTL DEF Spec, ImplementsEscrow, Escrow!Spec
=============================================================================
