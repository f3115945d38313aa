--------------------------- MODULE ArbitrationDAO ---------------------------
(***************************************************************************)
(* contracts/src/ArbitrationDAO.sol: the pool of staked arbitrators, the   *)
(* two steps that open a dispute, the votes and the resolution.  The seed  *)
(* and the block hash choose any arbitrators of the eligible ones; the     *)
(* phase and the value of a round are its own affair, so a dispute may be  *)
(* committed at any time with a bond that suffices.  One action is one     *)
(* transaction that does not revert.                                       *)
(***************************************************************************)
EXTENDS Integers, Sequences, FiniteSets, Functions, FiniteSetsExt, SequencesExt

CONSTANTS
  Arbitrators, Openers, Rounds,
  Refusing,              \* arbitrators and openers that refuse ETH
  Nobody,                \* address(0)
  ARBITRATOR_COUNT,
  Stakes, Bonds,         \* amounts that meet the minimum
  MIN_STAKE_AGE, REVEAL_WINDOW, ARBITRATION_WINDOW,
  MaxPending, MaxDisputes, MaxTimestamp   \* bounds

ASSUME DaoAssumption ==
  /\ IsFiniteSet(Arbitrators)
  /\ Nobody \notin Openers \cup Rounds
  /\ ARBITRATOR_COUNT \in Nat \ {0}
  /\ Stakes \subseteq Nat \ {0} /\ Bonds \subseteq Nat
  /\ REVEAL_WINDOW \in Nat /\ ARBITRATION_WINDOW \in Nat
  /\ MaxPending \in Nat /\ MaxDisputes \in Nat

VARIABLES
  timestamp,
  arbitratorList, arbitratorIndex,   \* the array, and the place in it from 1
  arbitratorStake, stakedAt,
  activeDisputeCount,
  roundDisputed, roundToDisputeId,
  pendingDisputes, nextPendingId,
  disputes, nextDisputeId,
  treasure               \* address(this).balance

pool_vars    == <<arbitratorList, arbitratorIndex, arbitratorStake, stakedAt>>
pending_vars == <<pendingDisputes, nextPendingId>>
dispute_vars == <<disputes, nextDisputeId, roundToDisputeId>>
dao_vars     == <<timestamp, pool_vars, activeDisputeCount, roundDisputed, pending_vars,
                  dispute_vars, treasure>>

\* The zero value of a mapping: what a number not given out yet holds.
NoPending == [opener |-> Nobody, round |-> Nobody, bond |-> 0, revealDeadline |-> 0]
NoDispute == [opener |-> Nobody, round |-> Nobody, bond |-> 0, deadline |-> 0,
              status |-> "OPEN",
              arbitrators |-> {}, votes |-> [j \in {} |-> TRUE]]

DaoInit ==
  /\ timestamp = 0
  /\ arbitratorList = <<>>
  /\ arbitratorIndex = [j \in Arbitrators |-> 0]
  /\ arbitratorStake = [j \in Arbitrators |-> 0]
  /\ stakedAt = [j \in Arbitrators |-> 0]
  /\ activeDisputeCount = [j \in Arbitrators |-> 0]
  /\ roundDisputed = [r \in Rounds |-> FALSE]
  /\ roundToDisputeId = [r \in Rounds |-> 0]
  /\ pendingDisputes = [p \in 0 .. MaxPending - 1 |-> NoPending] /\ nextPendingId = 0
  /\ disputes = [d \in 1 .. MaxDisputes |-> NoDispute] /\ nextDisputeId = 1
  /\ treasure = 0

-----------------------------------------------------------------------------
(* The pool                                                                *)

RegisterArbitrator(j, stake) ==
  /\ arbitratorIndex[j] = 0
  /\ arbitratorList' = Append(arbitratorList, j)
  /\ arbitratorIndex' = [arbitratorIndex EXCEPT ![j] = Len(arbitratorList) + 1]
  /\ arbitratorStake' = [arbitratorStake EXCEPT ![j] = stake]
  /\ stakedAt' = [stakedAt EXCEPT ![j] = timestamp]
  /\ treasure' = treasure + stake
  /\ UNCHANGED <<timestamp, activeDisputeCount, roundDisputed, pending_vars, dispute_vars>>

(* Mutant of MayLeave: an arbitrator leaves in the middle of a dispute.    *)
MayLeaveAnytime(j) == arbitratorIndex[j] # 0

MayLeave(j) == arbitratorIndex[j] # 0 /\ activeDisputeCount[j] = 0

\* The last of the list takes the place of the one that leaves.
UnregisterArbitrator(j) ==
  LET last == Last(arbitratorList) IN
  /\ MayLeave(j)
  /\ j \notin Refusing
  /\ arbitratorList' = Front([arbitratorList EXCEPT ![arbitratorIndex[j]] = last])
  /\ arbitratorIndex' = [arbitratorIndex EXCEPT ![last] = arbitratorIndex[j], ![j] = 0]
  /\ arbitratorStake' = [arbitratorStake EXCEPT ![j] = 0]
  /\ treasure' = treasure - arbitratorStake[j]
  /\ UNCHANGED <<timestamp, stakedAt, activeDisputeCount, roundDisputed, pending_vars,
                 dispute_vars>>

-----------------------------------------------------------------------------
(* A dispute: commit, reveal or reclaim, votes, resolution                 *)

CommitDispute(who, r, bond) ==
  /\ nextPendingId < MaxPending
  /\ ~roundDisputed[r]
  /\ Len(arbitratorList) >= ARBITRATOR_COUNT
  /\ pendingDisputes' = [pendingDisputes EXCEPT ![nextPendingId] =
                           [opener |-> who, round |-> r, bond |-> bond,
                            revealDeadline |-> timestamp + REVEAL_WINDOW]]
  /\ nextPendingId' = nextPendingId + 1
  /\ roundDisputed' = [roundDisputed EXCEPT ![r] = TRUE]
  /\ treasure' = treasure + bond
  /\ UNCHANGED <<timestamp, pool_vars, activeDisputeCount, dispute_vars>>

\* Those whose stake is old enough.
OldEnough == {j \in Range(arbitratorList) : timestamp >= stakedAt[j] + MIN_STAKE_AGE}

\* The fields of the dispute's record are set one by one: votes stay.
RevealDispute(p) ==
  LET pd == pendingDisputes[p] IN
  /\ pd.opener # Nobody
  /\ timestamp <= pd.revealDeadline
  /\ nextDisputeId <= MaxDisputes
  /\ \E chosen \in kSubset(ARBITRATOR_COUNT, OldEnough) :
       /\ disputes' = [disputes EXCEPT ![nextDisputeId] =
            [opener |-> pd.opener, round |-> pd.round, bond |-> pd.bond,
             deadline |-> timestamp + ARBITRATION_WINDOW, status |-> "OPEN",
             arbitrators |-> chosen, votes |-> @.votes]]
       /\ activeDisputeCount' = [j \in Arbitrators |->
            activeDisputeCount[j] + (IF j \in chosen THEN 1 ELSE 0)]
  /\ nextDisputeId' = nextDisputeId + 1
  /\ roundToDisputeId' = [roundToDisputeId EXCEPT ![pd.round] = nextDisputeId]
  /\ pendingDisputes' = [pendingDisputes EXCEPT ![p] = NoPending]
  /\ UNCHANGED <<timestamp, pool_vars, roundDisputed, nextPendingId, treasure>>

\* Anybody's call.
ReclaimExpiredCommit(p) ==
  LET pd == pendingDisputes[p] IN
  /\ pd.opener # Nobody /\ pd.opener \notin Refusing
  /\ timestamp > pd.revealDeadline
  /\ roundDisputed' = [roundDisputed EXCEPT ![pd.round] = FALSE]
  /\ pendingDisputes' = [pendingDisputes EXCEPT ![p] = NoPending]
  /\ treasure' = treasure - pd.bond
  /\ UNCHANGED <<timestamp, pool_vars, activeDisputeCount, nextPendingId, dispute_vars>>

Cast(votes, j, supportDispute) ==
  [k \in DOMAIN votes \cup {j} |-> IF k = j THEN supportDispute ELSE votes[k]]

Vote(d, j, supportDispute) ==
  /\ disputes[d].status = "OPEN"
  /\ j \in disputes[d].arbitrators \ DOMAIN disputes[d].votes
  /\ disputes' = [disputes EXCEPT ![d].votes = Cast(@, j, supportDispute)]
  /\ UNCHANGED <<timestamp, pool_vars, activeDisputeCount, roundDisputed, pending_vars,
                 nextDisputeId, roundToDisputeId, treasure>>

VotesOf(d, opinion) ==
  Cardinality({j \in DOMAIN disputes[d].votes : disputes[d].votes[j] = opinion})

majority == ARBITRATOR_COUNT \div 2 + 1

Outcome(d) ==
  CASE VotesOf(d, TRUE) >= majority -> "UPHELD"
    [] VotesOf(d, FALSE) >= majority -> "REJECTED"
    [] OTHER -> "NO_MAJORITY"

\* What leaves the contract: the bond to its opener, or an equal share of it
\* to each arbitrator; the remainder of the division stays.
Released(d) ==
  IF Outcome(d) = "REJECTED"
  THEN ARBITRATOR_COUNT * (disputes[d].bond \div ARBITRATOR_COUNT)
  ELSE disputes[d].bond

\* One recipient that refuses makes the whole call revert, if it is to get
\* anything.
PaymentsArrive(d) ==
  Released(d) > 0 =>
    IF Outcome(d) = "REJECTED" THEN disputes[d].arbitrators \cap Refusing = {}
    ELSE disputes[d].opener \notin Refusing

\* Also of a dispute that was never opened: its deadline 0 has passed.
ResolveDispute(d) ==
  /\ disputes[d].status = "OPEN"
  /\ Outcome(d) # "NO_MAJORITY" \/ timestamp >= disputes[d].deadline
  /\ PaymentsArrive(d)
  /\ activeDisputeCount' = [j \in Arbitrators |->
       IF j \in disputes[d].arbitrators /\ activeDisputeCount[j] > 0
       THEN activeDisputeCount[j] - 1 ELSE activeDisputeCount[j]]
  /\ disputes' = [disputes EXCEPT ![d].status = Outcome(d)]
  /\ treasure' = treasure - Released(d)
  /\ UNCHANGED <<timestamp, pool_vars, roundDisputed, pending_vars, nextDisputeId,
                 roundToDisputeId>>

Timestamp ==
  /\ timestamp < MaxTimestamp
  /\ timestamp' = timestamp + 1
  /\ UNCHANGED <<pool_vars, activeDisputeCount, roundDisputed, pending_vars, dispute_vars,
                 treasure>>

DaoNext ==
  \/ Timestamp
  \/ \E j \in Arbitrators :
       \/ \E stake \in Stakes : RegisterArbitrator(j, stake)
       \/ UnregisterArbitrator(j)
       \/ \E d \in DOMAIN disputes, opinion \in BOOLEAN : Vote(d, j, opinion)
  \/ \E who \in Openers, r \in Rounds, bond \in Bonds : CommitDispute(who, r, bond)
  \/ \E p \in DOMAIN pendingDisputes : RevealDispute(p) \/ ReclaimExpiredCommit(p)
  \/ \E d \in DOMAIN disputes : ResolveDispute(d)

DaoSpec == DaoInit /\ [][DaoNext]_dao_vars

-----------------------------------------------------------------------------
Pending == {p \in DOMAIN pendingDisputes : pendingDisputes[p].opener # Nobody}
Open    == {d \in DOMAIN disputes : disputes[d].arbitrators # {} /\ disputes[d].status = "OPEN"}

(* The list and the places in it are inverse to each other, and whoever    *)
(* has to judge an open dispute is still in the list, with its stake.      *)
JudgesStay ==
  /\ \A i \in DOMAIN arbitratorList : arbitratorIndex[arbitratorList[i]] = i
  /\ \A j \in Arbitrators :
       /\ arbitratorIndex[j] # 0 => arbitratorList[arbitratorIndex[j]] = j
       /\ activeDisputeCount[j] = Cardinality({d \in Open : j \in disputes[d].arbitrators})
       /\ activeDisputeCount[j] > 0 => arbitratorIndex[j] # 0 /\ arbitratorStake[j] > 0

(* A round has one dispute at most, in one stage, and is marked.           *)
OneDisputePerRound ==
  \A r \in Rounds :
    LET stages == {p \in Pending : pendingDisputes[p].round = r}
        known  == {d \in DOMAIN disputes : disputes[d].round = r}
    IN  /\ Cardinality(stages) + Cardinality(known) <= 1
        /\ roundDisputed[r] <=> stages \cup known # {}

(* What the contract keeps of a dispute's bond: all of it while the dispute *)
(* is open, and what the division left of it if it was rejected.           *)
Kept(dispute) ==
  CASE dispute.status = "OPEN"     -> dispute.bond
    [] dispute.status = "REJECTED" -> dispute.bond % ARBITRATOR_COUNT
    [] OTHER                       -> 0

bonds    == [p \in DOMAIN pendingDisputes |-> pendingDisputes[p].bond]
keepings == [d \in DOMAIN disputes |-> Kept(disputes[d])]

(* The contract holds the stakes, the bonds of the commitments and of the  *)
(* open disputes, and the remainders of the rejected ones.                 *)
StakesAndBondsHeld ==
  treasure = SumFunctionOnSet(arbitratorStake, Arbitrators)
             + SumFunctionOnSet(bonds, DOMAIN bonds)
             + SumFunctionOnSet(keepings, DOMAIN keepings)

(* Whatever the order of registrations, departures, commitments, reveals,  *)
(* votes and resolutions, also of disputes that do not exist: no dispute   *)
(* loses its judges, no round is disputed twice and the contract can pay   *)
(* every stake and bond (ArbitrationDAO.sol).                              *)
DisputesStand == JudgesStay /\ OneDisputePerRound /\ StakesAndBondsHeld
=============================================================================
