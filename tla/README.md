# Formal models of the Agonaut bounty arena

Agonaut lets a sponsor put up ETH for a problem, lets registered agents
compete for it, has an off-chain service in a trusted execution environment
(TEE) score the solutions, and pays the winners from an escrow on Base. This
directory holds TLA+ models of the contracts, of the scoring service and of
the backend, TLC runs on small instances of them, and TLAPS proofs of the
properties that matter most for all instances.

Line numbers refer to the revision this project was written against; the `map`
in `PROJECT.json` gives, for every definition that models code, the lines it
stands for, `hazards` what is hard to test in this code and which property
looks at it, and `findings` what the violated runs show.

## 1. Inventory

| component | source | state | operations | status |
|---|---|---|---|---|
| BountyRound | `contracts/src/BountyRound.sol` | phase, escrow, entry fees, participants, claim balances, clocks | deposit, enter, commit, phase changes, finalize, claim, claimBatch, sweep, cancel, refunds | modelled |
| ScoringOracle | `contracts/src/ScoringOracle.sol` | one write-once result per round | submitScores | partly: as rounds and the service see it |
| ArenaRegistry | `contracts/src/ArenaRegistry.sol` | agents, wallets, deregistration, statistics | register, deregister, setStable, recordRoundResult | partly: without fees, metadata, statistics |
| StableRegistry | `contracts/src/StableRegistry.sol` | stables, membership arrays with places | create, deactivate, link, unlink | partly: without distributeRevenue |
| BountyFactory | `contracts/src/BountyFactory.sol` | bounty configurations, rounds, pause | createBounty, spawnRound | partly: validation, creation |
| SeasonManager | `contracts/src/SeasonManager.sol` | seasons, points, leaderboard, prize pool | start, end, record, fund, championship | modelled |
| BountyMarketplace | `contracts/src/BountyMarketplace.sol` | proposals, contributions | propose, contribute, activate, expire, refund, cancel | modelled |
| ArbitrationDAO | `contracts/src/ArbitrationDAO.sol` | pool of arbitrators, commitments, disputes, bonds | stake, leave, commit, reveal, reclaim, vote, resolve | modelled |
| EloSystem; Treasury; Timelock, Guardian; AgonToken, phase 2 | `contracts/src/` | - | - | not modelled, see 5 |
| Scoring service | `scoring-service/api.py`, `onchain.py`, `tee_vault.py`, `tee_keypair.py`, `ecies_encrypt.py` | rounds in memory and SQLite, scoring slots, problem and key pair of the TEE | init, receive, score (V1, V2), submit, recover, results, problem | partly: without attestation, `POST /score/solution` |
| Scorer | `scoring-service/scorer.py` | answers of two passes over each solution | rubric, weighing, caps, second pass, ranking | modelled |
| Solution relay | `backend/api/solutions.py` | none of its own | read chain, initialise, forward, retry | modelled |
| Bounty creation and index | `backend/api/bounties.py`, `services/chain.py`, `bounty_index.py`, `storage.py`, `ipfs.py` | operator's nonce, rubric files, index rows | create, list, get (also by `api/agent_data.py`) | partly: without searches and pins of solutions |
| Delivery of solutions | `backend/api/solutions.py`, `services/solution_vault.py`, `sponsor_keys.py` | pullers, vault, sponsors' keys | trigger, pull, store, access | modelled |
| Private problems | `backend/api/private_bounties.py`, `tee_proxy.py`, `services/problem_vault.py` | problem vault | store, release, proxy | partly: without metadata and access log |
| Compliance and KYC | `backend/services/compliance_monitor.py`, `kyc.py`, `api/kyc.py`, `services/sumsub.py` | transactions, risk profile, alerts, submissions | record, review, submit, webhook | modelled |
| Admin sessions and agent keys | `backend/api/admin_dashboard.py`, `services/agent_keys.py`, `middleware/agent_auth.py` | form tokens, sessions, lockouts, keys | login, logout, expiry, restart, create, revoke | partly: without the pages |
| Rate limits | `backend/middleware/security.py`, `api/tee_proxy.py` | sliding windows | admit, clean | modelled |
| Activity | `backend/api/activity.py` | log and row of a wallet | track | modelled |
| Sanctions screening | `compliance/sanctions.py`, `backend/middleware/sanctions_middleware.py` | screening log | layers, combination, middleware | modelled |
| KYC tiers; email, feedback, agent pages; SDK, frontend, scripts | `backend/`, `sdk/`, `frontend/`, `scripts/` | - | - | not modelled, see 5 |

### How the parts interact

The factory clones a round and initialises it with the addresses of the
registries. From then on the round is alone: sponsor, agents and strangers call
it directly, it *reads* the registry of agents (activity at entry, wallets
everywhere), the registry of stables and the oracle (at settlement), and it
*calls* the rating system and the agents' statistics inside `finalize()`, so
that a revert in either undoes the settlement. The marketplace asks the factory
for a bounty and becomes the sponsor of its round. The arbitration reads the
phase of rounds; no round ever calls it, nor does it call one.

Off chain, the backend holds the operator's account: it creates bounties for
sponsors, takes solutions from agents, checks them against the chain and
forwards them to the scoring service, which is the only writer of the oracle.
A task of the backend then polls that service for the winners' solutions and
puts them into the vault from which the sponsor reads. Private problems travel
from the sponsor to the backend's vault and to the TEE, and from either to
agents that have entered.

### What is hard, and what makes each part correct

* **BountyRound.** Anybody may call most functions in any order; deadlines race
  with scores; transfers may fail; two scalars (`totalClaimable`,
  `totalEntryFees`) shadow mappings. It must hold exactly what it owes, give
  every account its due once, take one of two exclusive ways out, and neither
  a round nor a wei may be stuck for ever. `finalize()` divides by slot, fee
  and share with truncation, for ties, duplicate agents and empty slots: every
  wei must be credited once and no checked subtraction may underflow.
* **StableRegistry, ArbitrationDAO's pool.** Arrays with swap-and-pop and
  one-based places that must stay inverse; copies of members elsewhere.
* **SeasonManager.** A bounded leaderboard that one moving entry keeps sorted.
* **BountyMarketplace.** Money of many contributors through expiry,
  cancellation, activation and refunds, lazily applied, with a factory that
  may refuse and accounts that refuse ETH.
* **ArbitrationDAO.** Stakes and bonds through commit, reveal, vote,
  resolution and reclaim; judges may not leave.
* **Scoring service.** Status kept in memory and only partly in SQLite;
  restarts; two scoring paths; duplicate triggers; a receipt that comes late.
* **Scorer.** Models that answer anything, gates that must cap whatever bonus
  comes later, a second pass that may only lower, integer truncation.
* **Bounty creation.** One nonce for many requests, replacement, timeouts, an
  identifier inferred from a counter, three stores written one after another.
* **Delivery, private problems.** Polling races with sealing; several objects
  of one round; restarts that lose keys and problems; cached phases.
* **Compliance, sessions, limits, activity.** Two copies of one fact, in memory
  and in a table, or a log and a summary, that must agree after any order of
  requests and restarts.

## 2. Modules and how they correspond to the code

```
   PrizeAllocation  (arithmetic)        RoundEscrow  (abstract)
     |          |                            :
   FinalizeLoop |                        BountyRound ...: refinement, proved
     |          |                            |
     |   PrizeAllocationProofs ----- BountyRoundProofs
     |          |
   FinalizeLoopProofs              SumTheorems  (under all proofs but one)

   StableRegistry  BountyMarketplace  ArbitrationDAO  SeasonManager
     `------------------ ContractsProofs ------------------'

   ScoreLedger  (abstract)
     :  refinement, proved
   ScoringService  (relay + scoring service + the oracle)
     `-- ScoringServiceProofs

   Scorer (what a scoring thread computes)  ConfidentialProblem  Credentials
     `------------------ ServicesProofs ------------------'

   BountyCreation   (backend + operator's account + factory)
   SolutionDelivery (scoring service + puller + vault + the oracle)
   Compliance   Screening   RateLimiter   Activity
     `------------------ BackendProofs ------------------'

   MCContracts (6 components and an instance of ScoringService)
   MCServices (9 components)   MCScoringService   MCBountyRound
   MCBountyCreation   MCSolutionDelivery   MCBountyMarketplace   MCScreening
```

In the modules of contracts a transaction that succeeds is one action named
after the function; its guards are the modifiers, the `revert`s and the
requirements of the calls it makes, and a transaction that reverts changes
nothing and has no action. In the modules of services a handler without an
`await` is one action, and a handler, thread or task that waits is split where
others can come in between. Each module also contains, named as such, mutated
forms of some operations. They are no part of the specification;
`PROJECT.json` lists which property fails when one takes its original's place.

### Contracts

**PrizeAllocation** holds the arithmetic of `finalize()` as operators on the
result, in closed form: `Rank` (insertion sort), `PayoutBps` (tiers), `Winners`,
`GrossPrize`, `ProtocolFee`, `StableCut`, `AgentCut`, `RefundAmount`, `Credit`
(what one address is credited) and `Allocated` (the value of
`totalClaimable`). Its assumptions are what `BountyFactory._validateConfig` and
`StableRegistry.createStable` enforce: at least one prize slot, slots that add
up to 10000, a protocol fee and stable shares below their maxima.

**FinalizeLoop** is `finalize()` as the code computes it, one step per turn of
the sort's inner loop and of the award loop, with the accumulators.
`ClosedForm` says that it ends in the closed form, which BountyRound then uses
in a single step.

**BountyRound** is one clone of the contract, with its variables except that
`participants` and `_isParticipant` are one set, `commitments` is the set of
those who committed, and `elapsed` is the distance of `block.timestamp` from
the timestamp the current phase compares with; it stops at `MaxElapsed`, beyond
every duration, since all comparisons are `>`. `deposited` and `paid` are
history. `result` and `active` belong to other contracts and move by
`SubmitScores` and `Deregister`; `Finalize` takes the stable membership it
reads as a parameter that ranges over everything `linkAgent` permits.

**RoundEscrow** is what a round promises about money: a pot is collected, then
shared or given back, then paid out of each account's own due.
`ImplementsEscrow` in BountyRound is that specification under a refinement
mapping.

**StableRegistry** is the registry of stables together with the calls of
ArenaRegistry that change the same agents. Who belongs to a stable is stored
four times, and `MembershipAgrees` says that the four agree.

**SeasonManager** has the seasons, the points, the board as an array with the
moves of `_updateLeaderboard`, the pool and the championship flag.

**BountyMarketplace** has proposals and contributions, with the deadline
applied lazily as in the code, activation at the cap or by a keeper, and
`RoundOpens`, the conditions under which factory and new round accept what the
marketplace sends. `MarketBacked` relates the balance to every proposal's due.

**ArbitrationDAO** has the pool, the two steps that open a dispute, votes and
resolution with its payments. The seed and the block hash choose any of the
eligible arbitrators; phase and value of a round are inputs. It includes
`resolveDispute()` of a dispute number that was never given out, which the
code accepts.

### Scoring service and backend

**ScoringService.** `mem` keeps for each round all the dictionaries made for it
by the running process, the last being the one `_rounds` points to: a thread
keeps a reference to the object it fetched, and `score_round_v2()` replaces the
object rather than changing it. `disk` and `diskSolutions` are the two SQLite
tables, written where the code calls `_persist_round` and `_persist_solution`
and nowhere else. A thread is a record in `tasks` whose `pc` moves past each
point where another thread, a handler, the chain or a restart can come in:
start, waiting for a slot, scoring, before sending, sent, clean-up.
`submit_onchain()` waits for its receipt inside the event loop, so while it
runs no handler does (`LoopFree`). The backend's relay is `RelayReads`,
`RelayVerifies`, `Receive`, `InitRound`, `Receive` again, with the chain moving
in between.

**ScoreLedger** is what all this promises to those outside: agents commit on
chain; only who has committed is told "received"; a round gets scores once, of
agents that have committed; and what the service says of the scores on chain is
so. `ImplementsLedger` in ScoringService is that specification, with the status
of a round as its answer and threads, objects, tables, slots and restarts
hidden.

**Scorer.** `compute_score`, `_verification_pass`, `score_solution` and
`score_round` over arbitrary, also malformed, answers of both models.
Truncation of `int()` towards zero is kept, and a weight may be any integer
or be missing, as `parse_sponsor_rubric()` takes it.

**BountyCreation.** A worker's `job` goes through nonce, send, wait, read-back,
rubric file and index row; the node's pool, the blocks and the receipts move in
between, and a worker may crash anywhere. The routes that read are `Served`:
those that leave out what is confidential (`Filtered`), the rubric, and those
that give out raw rows of the index (`ListedRow`).

**SolutionDelivery.** The round's objects and threads in the scoring service,
`winning_solutions` in the vault, and pullers with their count of polls; both
services restart, replies are lost, the deprecated V1 trigger interferes. What
the scoring service does here is the part of it that delivery depends on: which
object is polled, its status and when the winners are sealed.

**ConfidentialProblem.** Both ways to a private problem (vault and TEE), the
cached phase of the index, failing reads of the chain, restarts of the TEE with
or without its key file, the expiry of the window, the deletion after scoring.
A request has a caller and names a wallet, and the two need not be the same:
the vault asks for a message the wallet signed, which may have come into other
hands and may carry no time, and the proxy of the TEE asks for none.

**Compliance** is the log, profile, alerts and KYC of one wallet; **Screening**
the layers of the sanctions check, how they are combined, and how the
middleware finds a wallet in the query, a header or the body of a request;
**Credentials** form tokens and sessions in memory and in SQLite, lockouts and
API keys; **RateLimiter** both sliding windows with the cleaning of their
tables, where a list of times is kept as how many there are of each second;
**Activity** the log and the row of one wallet.

## 3. Runs

| run | question | outcome |
|---|---|---|
| `contracts` | the books of a round under every order of transactions, refinement of RoundEscrow, whether every funded round ends with no ETH in it; loops of `finalize()`; the four contracts around a round; whether each scoring of the service ends, through exceptions and timeouts | holds |
| `scoring` | both scoring paths racing, with two requests at a time or a restart between any two steps: solutions and slots are kept, refinement of ScoreLedger | holds |
| `services` | nine components of backend and scoring service through every order of requests, retries, restarts and failing steps | holds |
| `disputed`, `deregister`, `expired` | statements of comments about rounds | violated |
| `scoring_recovered`, `scoring_early` | statements about recovery and the start of scoring | violated |
| `creation_workers` | is the answer about the request's own bounty, with two workers | violated |
| `results_race` | do the winners' solutions reach the vault if nothing fails | violated |
| `marketplace` | does every contribution become a round or come back | violated |
| `screening` | does the most restrictive of all findings decide | violated |

What the violated runs show, with the lines quoted, is in `findings`. In short:
a disputed round has no exit; deregistration of one scored agent blocks the
settlement of all; a round whose agents have committed solutions can be
cancelled as expired; a round recovered in status `scoring` stays so for ever;
scoring starts, with the wrong key, as soon as the agents entered so far have
sent their solutions; with several workers two requests can get the same
bounty; the puller takes `completed` for final although the solutions are
sealed later; a goal that is just met can be neither activated nor refunded;
and a milder finding of TRM hides a worse one that is listed after it.

### Components side by side

`contracts` and `services` check components that share no state. A variable
`focus` names the one that moves in a behaviour; the others stay at one initial
state. Both MC modules extend the components they check, so that the runs and
the theorems speak of the same definitions; only ScoringService, whose names
those of BountyRound would meet, is instantiated in MCContracts, as `Service`,
with values written there. The state space is
thus the sum, not the product, of the components' spaces, each is explored
completely, and each keeps its own properties. Components that do interact are
one module instead (the relay with the scoring service and the oracle, delivery
with both services, creation with pool and factory, the two registries).

### Bounds, and why they are enough

* `contracts`. *Round*: three agents, two of them on one wallet, so that refunds and
  prizes of one account add up; one wallet refuses ETH, so that batch claims
  are restored and refunds stay; entry is capped at two agents, which reaches
  the limit; deposits of 0 (refused), 6 (below the minimum) and 107, whose
  slots, fee and stable share all truncate; six results: above the threshold,
  a tie, between the tiers, below every tier, an agent scored twice; every
  duration is one tick and the clock stops at two, before and after each
  deadline. *finalize()*: all results of one to three entries over two
  agents and the scores 7000, 5600, 3500 and 3499, the two sides of each tier;
  three slots of which one is too small to pay a wei; deposits 7 and 1003; an
  agent in and out of a stable. Three entries are the least with which an
  element is shifted twice. *Registry*: three agents on two wallets and two
  stables, the least with which a removal moves another agent. *Season*: a
  board of two for three agents, rankings of one to three entries and one that
  names an agent twice. *Marketplace*: two proposals, two contributors, a
  proposer that refuses ETH, and terms for one contributor whose goal is just
  met, for a cap, and for a goal that two contributions may miss or meet, with a
  configuration the factory refuses. *Arbitration*: three arbitrators of whom
  one refuses ETH, two of them judge, two rounds and two disputes, and a window
  of 0, so that a dispute may also time out without votes. *Scoring service*:
  one agent, one slot, two tasks; no restart, after which `ScoringEnds`
  promises nothing.
* `scoring`: one round, two agents, two relay requests at a time, two
  background tasks, one scoring slot (so that a second task waits), two round
  objects; the operator may trigger at any time. One restart, between any two
  steps; a second one starts from a state of the same kind, since the process
  keeps nothing but the tables. Requests of the relay overlap in the behaviours
  without a restart, around one they come one at a time
  (`RequestsAroundRestarts` of MCScoringService). Rounds share only the slots
  and the scorer's wallet, and two tasks of one round already compete for both.
  All readable scores are 0: no guard depends on a score.
* `services`. *Scorer*: two solutions; the default rubric, one with two gates
  and weights that truncate, and one with a missing and a negative weight, which
  the backend takes for 10000 and the service for 10400; all answers to the small rubric, four to the
  default one. *Creation*: one process, two requests, one private. *Delivery*:
  one agent, two triggers, one poll per puller, a V1 trigger when the round is
  in error, a bounty that is public, private or missing from the index.
  *Problem*: one wallet that may enter and another caller, two texts, two key
  pairs. *Compliance*: volumes
  and counts scaled so that three transactions cross every threshold.
  *Screening*: a listed and an unlisted wallet, each in any of the three places
  of a request, reports in both orders; the run `screening` is the same alone.
  *Credentials*: ages of one and two hours, so that either copy may expire
  first. *Limits*: two requests in three seconds, a table that is full with one
  key. *Activity*: three days, three events, a sum beyond the largest
  `INTEGER`.
* `creation_workers`: two processes; `results_race`: two agents, two polls,
  no faults; `marketplace`: nobody refuses ETH and the factory takes every
  configuration, goals start at the minimum.

### Fairness

* Rounds (`Fairness` of BountyRound, `ContractsFairness`): time passes; the
  calls that are open to anybody and free a stuck round (start of scoring or
  expiry, scoring timeout, sweep) and the refunds, which are in the interest of
  their only possible caller, eventually happen if they stay possible.
  Entering, committing, scoring, settling, claiming, disputing are never
  assumed.
* ScoringService: a thread that can go on does, since each wait in it has a
  time limit (120 s for a slot and for a receipt) and the calls to the model
  and the chain return or raise.
* BountyCreation: a running handler goes on, each of its waits having a limit;
  that transactions are mined is not assumed.
* SolutionDelivery: a puller wakes up every 15 seconds.
* Marketplace (only for the violated run): time passes, keepers activate and
  contributors ask for refunds.

Requests and operators are never fair. `CHECK_DEADLOCK FALSE` is set
throughout: an emptied round, a finished loop, an idle service and a clock at
its bound really stop.

## 4. Proofs

All proofs are checked by TLAPS for every value of the constants that meets the
named assumptions. Every invariant and every action property of the passing
runs is stated by a theorem, about the very definition the run checks; each
section of a proof module ends in the theorem, preceded by `Init => IInv` and
by one lemma per action for `IInv /\ Next => IInv'`.

### Foundations

* **SumTheorems**: sums of a function over a finite set, which the community
  modules define by a fold: the sum equation is shown to have exactly one
  solution, and the rest (update of a point, splitting, support, images,
  scaling) follows from it.
* **PrizeAllocationProofs** (`AllocationAssumption`): `PrizesFitTheBounty`, so
  the checked subtraction in `finalize()` never underflows;
  `AllocatedIsEverything` and `CreditsAddUp`, so that the claim balances add up
  to deposit plus fees, to the wei, whoever the recipients coincide with. A
  winner's gross prize splits without rest into fee, stable cut and agent cut;
  gross prizes are bounded slot by slot; the refund is defined as the rest.
* **Loops.** Neither induction over data nor recursion can be cited, since the
  library's rules take an operator as a parameter. Where the model itself takes
  a step per turn (FinalizeLoop) the loop needs none. The sums and the one
  recursive function that is reasoned about, the loop of `recordRoundResult`,
  are reached by induction over the subsets of a finite set or over an
  interval, with the property given as a *set* of what has it
  (`SubsetInduction`, `IntervalInduction`).

### Contracts

* **BountyRoundProofs** (`RoundAssumption` too): `Invariance` of `IInv ==
  TypeOK /\ Bookkeeping /\ Solvent /\ ClaimsBacked /\ CashBook`. Solvency alone
  is not inductive: one has to know that `totalEntryFees` is the entry fee
  times the number of participants (else a refund could exceed what is left),
  that nobody has withdrawn before the cancellation, and that nothing is
  allocated before the settlement. That is `Bookkeeping`. From it follow
  `TypeCorrect` (no checked subtraction underflows), `AlwaysSolvent`,
  `ClaimsAlwaysBacked` and `CashBookBalances`, also for a factory that cancels.
  `RefundsAreExact` adds the refund book, which says in every phase before the
  allocation what `RefundsExact` says of a cancelled round. `OneWayOutHolds`,
  `NoRugPullHolds`, `EntitlementsAreFrozen` and `RoundImplementsEscrow` assume
  `~FactoryCancels`, the deployed system in which no function of the factory
  calls `cancel()`; they need that allocated prizes occur only in a settled
  round with participants (`DeployedInvariance`), which takes the right to
  cancel from the sponsor. `RoundImplementsEscrow` is the refinement: `EInv`
  adds that all contributions sum up to deposit plus fees (`PotBook`) and that
  until the sweep the claim balances sum up to their total (`TotalStands`), and
  then each action maps to a contribution, the sharing, the giving back, a
  payment, the forfeiture or a stutter.
* **FinalizeLoopProofs** (`LoopAssumption`; the oracle stores no empty result,
  `ScoringOracle.sol:73`): `LoopsComputeClosedForm` is what lets BountyRound
  take `finalize()` as one step. `SortInv` says where the entries sorted so far
  are (at their place *among those*), and, inside the inner loop, which have
  moved up by one. `MoneyInv` says that what is credited is what the closed
  form says of the winners whose rank has been passed. `LoopsLoseNothing`, that
  no wei is lost at any turn, follows.
* **ContractsProofs.** *Registry* (`RegistryAssumption`):
  `MembershipsAlwaysAgree` for any number of wallets, agents and stables. The
  invariant adds the types and that numbers not given out yet are not
  mentioned; the heart is what swap-and-pop leaves in an array
  (`SwapAndPopElements`). *Marketplace* (`MarketAssumption`): `AlwaysBacked`.
  `MarketInv` adds that terms of a live proposal are those `proposeBounty()`
  checked, that proposals not made yet are empty, and for each proposal that
  seeks funds that its contributions sum up to `totalFunded`; every action then
  changes the due of one proposal (`OnlyOneMoves`) and the cash by the same
  amount. *Arbitration* (`DaoAssumption`): `DisputesAlwaysStand`. `DaoInv` adds
  that array and places of the pool are inverse (`PoolAgrees`), that
  `activeDisputeCount` is the number of open disputes somebody judges, which is
  what keeps a judge from leaving (`JudgesAreThere`), and that a round is
  marked as disputed if and only if one commitment or one dispute, be it
  decided or not, is about it (`RoundsAreMarked`). A rejected bond that does
  not divide by the number of judges leaves its rest in the contract for ever,
  which the books must count (`Kept`). *Seasons* (`SeasonAssumption`):
  `BoardIsAlwaysTop`. `SeasonInv` is BoardIsTop with its numbers of agents
  unfolded into who is in and who is out, for *every* point of the loop over
  the ranked agents. `BubbleUp` is the lemma that does the work: a board that
  is in order but for one entry that is too low is in order after the entry
  moved up.

### Scoring service and scorer

* **ScoringServiceProofs** (`ServiceAssumption`). `SlotsAlwaysConserved` needs
  the types (`ServiceTyped`) and that the holders are finitely many.
  `NoSolutionEverLost`: `SolutionsInv` says where an accepted solution is:
  always in the table, and in the object `_rounds` points to whenever there is
  one; the row without which a restart forgets the round must exist whenever
  the object does. `OnlyCommittedEverScored` and `SubmittedAlwaysOnChain` come
  from `ScoresInv`, which follows a commitment along its way: through the
  relay, the table, every object that any thread still holds, the thread's own
  copy and the payload, also that of a transaction whose sender was restarted.
  `ServiceImplementsLedger` is the refinement: with these invariants each step
  is a commitment, a receipt, a posting, a change of answers or a stutter.
* **ServicesProofs.** *Scorer* (`RubricAssumption`, `PassAssumption`): the
  rubric is any sequence of items with an integer weight or none, negative and
  zero ones included, and any number of gates. `GatesAlwaysHold`,
  `PayloadAlwaysComplete`, `ScoringIsFair` (no check that passes in addition
  lowers a score, unless its own weight is negative; whatever the other weights
  are), `DualPassAlwaysConservative` (an action property). The invariant adds what a finished pass looks like. That
  the default weights and the caps truncate makes these statements about
  integers, for which the proofs use the bounds of a truncated quotient and its
  monotony. *Problems*: `ProblemAlwaysNeedsEntry` (needs that requests already
  past the proxy name entrants) and `ScoredAlwaysAsServed` (needs that what was served is what the
  TEE holds, or held when it scored; assumes that the value for "no text" is no
  problem). *Credentials*: `EndedAlwaysStaysEnded`: a spent form token is in
  neither copy, a session that was logged out in neither copy, and what memory
  admits is also stored with the same time.

### Backend

**BackendProofs**, one section per component:

* *Screening*: `NoObjectionIsEverLost`, for any wallets, lists and reports in
  any order. What the strictest of all findings would do is refuted by a run.
* *Compliance* (`ComplianceAssumption`, one worker): `OneIsEverOpen` needs that
  a handler that has read the status may still submit when it writes;
  `RiskIsAlwaysQueued` that the review's time is never ahead of the clock, is
  before any record in progress, and, as long as something is not reviewed,
  before the last activity.
* *Creation*: `OneBountyAtMost` and `RubricAlwaysStaysPrivate`, with any
  number of processes. The first needs that a request that was not taken has
  nothing anywhere (pool, chain, jobs), that one process at most works on it,
  and that one about to send it has sent nothing; replaced transactions count
  as pending.
* *Index* (`Processes = {one}`): `IndexIsAlwaysTrue`, the longest of the
  proofs. Three stores are written one after the other, so `IndexInv` speaks of
  the steps in between: which blocks, counters and identifiers a job has seen
  (`JobOK`), that files and rows are about bounties that exist (`FilesOK`,
  `RowsOK`), and, for a request that was taken while nothing was pending, that
  the next number is its own (`AloneOK`, `AloneTaken`).
* *Delivery* (`DeliveryAssumption`): `VaultAlwaysMatchesChain`. Every object of
  a round, also one that was replaced while a thread or a puller holds it, has
  results that are the chain's as soon as it is sealed (`SoundObjects`).
* *Rate limits* (`RateAssumption`): `NoWindowOverflows`. Entries are dropped by
  two different cleanings; the invariant says that nothing is dropped that a
  window including the present could count (`NothingRecentIsDropped`).
* *Activity* (`ActivityAssumption`: no negative deposit, although `int()` would
  take one): `RowAlwaysMatches`. The streak is only right because the days of
  connection are known to lie in `1 .. last_active_date`; the role, because the
  row remembers nothing that the log does not say. The role was first stated by
  a `CASE` with overlapping arms, which TLC reads in order and the logic does
  not; the attempt at a proof showed it.

### Only model-checked

`RoundIsDecided`, `MoneyLeaves`, `ScoringEnds`, `EveryRequestAnswers` and
`PullersEnd` are liveness properties under fairness, out of reach of the prover
(so is `ENABLED`). Statements that a run refutes have no theorem.

## 5. What the models leave out

### Abstractions

* `startCommitPhase()` needs the phase `FUNDED`, which no code assigns.
  `rankedAgents`, `payoutsComplete` and the derived prize pool are written for
  readers only. ETH forced into a contract without a call, gas, roles and
  upgrades are left out. The code relies on roles that `Deploy.s.sol` does not
  grant (`BOUNTY_CREATOR_ROLE` to the marketplace, `STABLE_REGISTRY_ROLE` to
  StableRegistry); the models assume that they are granted.
* The rating update and the statistics inside `finalize()` are not modelled,
  except for the check of activity that can make them revert.
* What a language model answers, what TRM and the identity provider report and
  which arbitrators are drawn are inputs over everything the code accepts, up
  to the bounds. Cryptography is symbolic: a blob opens with its key.
* V2 requests that bring solutions of their own, and failing writes to SQLite.
* The properties of Compliance hold for one worker; several interleave between
  a handler's read and its write.

### Not modelled

* **EloSystem**: a sequential function of one call. Its streaks are `uint8`:
  after 255 losses in a row of an agent of the lowest tier (or wins in the
  highest) `updateAfterRound()` reverts, and with it `finalize()`;
  ARCHITECTURE-V2.md:586 plans `uint16`.
* **Treasury**, **TimelockGovernor**, **EmergencyGuardian**: one guarded
  subtraction, and wrappers of library contracts. **AgonToken** and the
  contracts of phase 2 are not deployed and not called.
* **KYC tiers** (only its tests use it), `tee_key_escrow.py` and `ecies_v2.py`
  (no route uses them), email, feedback and agent pages, attestation reports,
  the pages of the dashboards, `POST /score/solution`: no state that another
  part depends on. **SDK, frontend and scripts** are clients.

### Read off the code while modelling

The following are worth a look. Unless one is named, no run is about them:
there is no statement of the repository to refute, no step of the models, or,
where a property was weakened to what holds, the difference is described here.

* A crowdfunded round has the marketplace as its sponsor. The marketplace has
  no `receive()` and calls neither `cancel()` nor `sponsorWithdraw()`: a refund
  of such a round cannot reach the contributors; the sweep sends a settled
  round's rest to the treasury, a cancelled one's deposit stays. The protocol
  fee is taken at the activation and again in `finalize()`.
* An expired proposal without contributors keeps its deposit unless its
  proposer cancels it.
* A season's prize pool has no way out of SeasonManager. Rounds of the factory
  carry `seasonId` 0, so none reports to it.
* `resolveDispute()` accepts numbers of disputes never opened (without effect
  on money); `roundDisputed` stays set after a resolution; an arbitrator that
  refuses ETH keeps a rejected dispute, and the other judges' departure, open
  for ever.
* `cancelExpired()` also cancels a round with commitments, if it comes before
  `startScoringPhase()` (run `expired`); `NoRugPull` therefore lets a passed
  deadline cancel. The factory's unrestricted right to cancel would break
  refunds of a settled round if any function of the factory used it.
* If the operator triggers V2 after V1 was scheduled and before its thread
  runs, both threads score the same object: the status may become `submitted`
  through one while the results shown are the other's. The agents are the same,
  which `SubmittedIsOnChain` states; the scores need not be. Likewise
  `bounty_won` is recorded from results in status `completed`, which may not be
  the chain's (`solutions.py:408`).
* `tee_proxy.py:158` accepts the cached phases `CREATED` and `FUNDED` although
  the chain's names are `OPEN` and `COMMIT`; an index that was refreshed refuses
  the sponsor's problem.
* With several workers an older phase can overwrite a newer one in the index
  (`bounties.py:291`); with one, `IndexIsTrue` only asks for a phase reached.
* For a round that is not in the index the sponsor is never resolved:
  `trigger_scoring()` uses `get_chain_service`, which only another function
  imports (`solutions.py:162`), and swallows the error (`solutions.py:318-325`,
  "Fallback: get sponsor from chain"). Rows of the vault then keep an empty
  sponsor, which nobody matches; `WinnersDelivered` is about rounds in the index.
* Nothing checks the sign of a weight. The backend counts a missing one as 0
  and asks for a sum of 10000 (`bounties.py:101-106`); the service counts it as
  400 (`scorer.py:914`) and only logs another sum, although `scorer.py:902` says
  "Validates that total weight = 10000 BPS."; the frontend allows 0 to 10000
  (`validation.ts:30`). With a weight above 10000 beside a negative one, passing
  the latter lowers a score, and a missing weight takes the scores of a round
  above 10000. `BetterNeverScoresLess` excepts checks of negative weight.
* `bounties.py:491` says "SECURITY: Strip sensitive fields from private
  bounties", and the routes for one bounty do; `GET /bounties/debug-list`
  (`bounties.py:329-357`) and the routes of `agent_data.py:46-92` give out the
  row of the index with its description. `RubricStaysPrivate` says what holds of
  all routes, which is that the rubric is not given out, and of the filtering
  ones, which is that nothing confidential is.
* The proxy of the TEE (`tee_proxy.py:188-240`) reads from the chain that the
  named wallet has entered and has no proof that the caller is that wallet, and
  the TEE encrypts for the public key in the request (`tee_vault.py:112`; its
  docstring says "Returns ECIES blob that only this agent can decrypt").
  The vault verifies a signature, but a message without a line `Timestamp:`
  never expires (`private_bounties.py:123`) and no message is bound to a round.
  `ProblemNeedsEntry` claims only what the code ensures.
* A webhook overwrites an administrator's KYC decision.
* The middleware screens the first wallet it finds in the query, the header and
  the body, while handlers work with the body (`sanctions_middleware.py:76-98`;
  line 4 says "Screens every request that includes a wallet address"): a request
  with two wallets is screened for one. A request in whose three places no
  wallet is found under the names looked for goes on unscreened, its country
  included.
* `security.py:172` selects columns that the table of sessions lacks. The
  rubric that the backend stores has the key `required` (`bounties.py:34`), the
  scorer reads `unskippable` (`scorer.py:915`).

## 6. Plan

Done: the contracts around a round, marketplace, arbitration, season, the
services of the backend, two refinements, and a proof of every safety property
that a passing run checks. Left, in this order:

1. Composition of ScoringService with BountyRound, so that a round's deadlines
   race with the service's retries in one model.
2. Several workers in Compliance, with the statements that survive.
3. EloSystem with counters of width 8, if its types change.
