--------------------------- MODULE ScoringService ---------------------------
(***************************************************************************)
(* The way of a solution from the agent to the ScoringOracle: the relay in *)
(* backend/api/solutions.py, the scoring service in scoring-service/api.py *)
(* with its SQLite file, its two scoring paths and its transactions to the *)
(* oracle (onchain.py), and as much of the round on chain as they read.    *)
(*                                                                         *)
(* The service runs one event loop, in which a handler is one step, and a  *)
(* pool of threads that score: a thread holds a reference to the round     *)
(* object that was current when it started, whatever _rounds points to     *)
(* later.  A restart loses the memory, the threads and the TEE's problems, *)
(* never the SQLite file or what was sent to the chain.  Writes to SQLite  *)
(* succeed here.                                                           *)
(***************************************************************************)
EXTENDS Integers, Sequences, FiniteSets, SequencesExt

CONSTANTS
  Rounds, Agents,
  PublicRounds,          \* their problem text comes with the request
  Scores,                \* what the model may give a solution it can read
  NoPayload,
  MaxConcurrentScoring,
  OperatorWaits,         \* the operator triggers only after the commit phase
  TaskIds,               \* bound: background tasks alive at a time
  MaxRequests,           \* bound: relay requests under way at a time
  MaxGenerations,        \* bound: round objects made by one process
  MaxRestarts            \* bound: restarts of the service

ASSUME ServiceAssumption ==
  /\ PublicRounds \subseteq Rounds
  /\ IsFiniteSet(Agents)
  /\ Scores \subseteq Nat /\ 0 \in Scores
  /\ NoPayload \notin UNION {[agents -> Scores] : agents \in SUBSET Agents}
  /\ MaxConcurrentScoring \in Nat \ {0}
  /\ OperatorWaits \in BOOLEAN
  /\ TaskIds \subseteq Nat
  /\ {MaxRequests, MaxGenerations, MaxRestarts} \subseteq Nat

VARIABLES
  chainPhase, entered, committed, \* of the BountyRound contracts
  oracle,                         \* ScoringOracle._results, or NoPayload
  stray,                          \* transactions nobody waits for any more
  relay,                          \* the backend's request for each agent
  mem,                            \* _rounds: every object made for a round;
                                  \* the last one is the dictionary's
  disk,                           \* table round_state
  diskSolutions,                  \* table round_solutions
  vault,                          \* rounds whose problem the TEE holds
  slots,                          \* free places of _scoring_semaphore
  tasks,                          \* background tasks, in threads
  accepted,                       \* history: solutions answered "received"
  restarts

chain   == <<chainPhase, entered, committed>>
service == <<mem, disk, diskSolutions, vault, slots, tasks>>
vars    == <<chain, oracle, stray, relay, service, accepted, restarts>>

----------------------------------------------------------------------------
NoRow  == [status |-> "none", expected |-> 0]
NoTask == [path |-> "none"]
Idle   == [pc |-> "idle", expected |-> 0]

Known(r)    == mem[r] # <<>>
Current(r)  == Last(mem[r])
Status(r)   == IF Known(r) THEN Current(r).status ELSE "unknown"

(* What an agent is told: a round the service does not know, or a service  *)
(* that does not answer, has no scores submitted.                          *)
ScoresSubmitted(r) == Status(r) = "submitted"

Init ==
  /\ chainPhase = [r \in Rounds |-> "COMMIT"]
  /\ entered = [r \in Rounds |-> {}]
  /\ committed = [r \in Rounds |-> {}]
  /\ oracle = [r \in Rounds |-> NoPayload]
  /\ stray = {}
  /\ relay = [r \in Rounds |-> [a \in Agents |-> Idle]]
  /\ mem = [r \in Rounds |-> <<>>]
  /\ disk = [r \in Rounds |-> NoRow]
  /\ diskSolutions = [r \in Rounds |-> {}]
  /\ vault = {}
  /\ slots = MaxConcurrentScoring
  /\ tasks = [i \in TaskIds |-> NoTask]
  /\ accepted = [r \in Rounds |-> {}]
  /\ restarts = 0

----------------------------------------------------------------------------
(* The round on chain.                                                     *)
ChainEnter(r, a) ==
  /\ chainPhase[r] = "COMMIT"
  /\ a \notin entered[r]
  /\ entered' = [entered EXCEPT ![r] = @ \cup {a}]
  /\ UNCHANGED <<chainPhase, committed, oracle, stray, relay, service,
                 accepted, restarts>>

ChainCommit(r, a) ==
  /\ chainPhase[r] = "COMMIT"
  /\ a \in entered[r] \ committed[r]
  /\ committed' = [committed EXCEPT ![r] = @ \cup {a}]
  /\ UNCHANGED <<chainPhase, entered, oracle, stray, relay, service,
                 accepted, restarts>>

ChainStartScoring(r) ==
  /\ chainPhase[r] = "COMMIT"
  /\ entered[r] # {}
  /\ chainPhase' = [chainPhase EXCEPT ![r] = "SCORING"]
  /\ UNCHANGED <<entered, committed, oracle, stray, relay, service,
                 accepted, restarts>>

----------------------------------------------------------------------------
(* Background tasks: the lowest free identifier is used.                   *)
FreeIds == {i \in TaskIds : tasks[i] = NoTask}
Spawned(task) ==
  [tasks EXCEPT ![CHOOSE i \in FreeIds : \A k \in FreeIds : i <= k] = task]

Task(path, r) ==
  [path |-> path, round |-> r, gen |-> 0, pc |-> "queued", taken |-> {},
   key |-> FALSE, payload |-> NoPayload, tx |-> "none"]

(* What a scoring thread fetches from its object before it scores.         *)
Fetched(t, object) ==
  [t EXCEPT !.pc = "scoring", !.taken = object.solutions, !.key = object.key]

(* submit_onchain() waits for its receipt inside the event loop, so no     *)
(* other handler runs meanwhile.                                           *)
LoopFree == \A i \in TaskIds : tasks[i].path # "manual"

(* Replace the current object of a round.                                  *)
SetCurrent(r, object) == [mem EXCEPT ![r][Len(mem[r])] = object]

NewObject(status, expected, solutions, key) ==
  [status |-> status, expected |-> expected, solutions |-> solutions,
   results |-> NoPayload, key |-> key]

----------------------------------------------------------------------------
(* The SQLite file.                                                        *)
_persist_round(r, status, expected) ==
  disk' = [disk EXCEPT ![r] = [status |-> status, expected |-> expected]]

_persist_solution(r, a) ==
  diskSolutions' = [diskSolutions EXCEPT ![r] = @ \cup {a}]

(* submit_solution() reads the phase and the number of entrants, then the  *)
(* commitment, and goes on with those answers while the chain moves.  An   *)
(* agent asks for itself.                                                  *)
Asking == {ra \in Rounds \X Agents : relay[ra[1]][ra[2]] # Idle}

RelayReads(r, a) ==
  /\ relay[r][a] = Idle
  /\ Cardinality(Asking) < MaxRequests
  /\ chainPhase[r] = "COMMIT"
  /\ LET expected == IF entered[r] = {} THEN 1 ELSE Cardinality(entered[r])
     IN  relay' = [relay EXCEPT ![r][a] = [pc |-> "verify", expected |-> expected]]
  /\ UNCHANGED <<chain, oracle, stray, service, accepted, restarts>>

(* Mutant of RelayVerifies: the commitment is not looked up.               *)
RelayVerifiesNothing(r, a) ==
  /\ relay[r][a].pc = "verify"
  /\ relay' = [relay EXCEPT ![r][a].pc = "forward"]
  /\ UNCHANGED <<chain, oracle, stray, service, accepted, restarts>>

(* One of the wallet's agents has made the commitment; a failing read says *)
(* no, as RelayFails does.                                                 *)
verify_commitment(r, a) == a \in committed[r]

RelayVerifies(r, a) ==
  /\ relay[r][a].pc = "verify"
  /\ relay' = [relay EXCEPT ![r][a] =
                 IF verify_commitment(r, a) THEN [@ EXCEPT !.pc = "forward"] ELSE Idle]
  /\ UNCHANGED <<chain, oracle, stray, service, accepted, restarts>>

(* receive_solution(): 404 for an unknown round, which makes the relay     *)
(* initialise it and try once more; 400 unless the round is receiving.     *)
(* With as many solutions as expected the V1 scoring is scheduled.         *)
Receive(r, a) ==
  /\ relay[r][a].pc \in {"forward", "retry"}
  /\ LoopFree
  /\ \/ /\ ~Known(r)
        /\ relay' = [relay EXCEPT ![r][a] =
                       IF @.pc = "forward" THEN [@ EXCEPT !.pc = "init"] ELSE Idle]
        /\ UNCHANGED <<service, accepted>>
     \/ /\ Known(r) /\ Current(r).status # "receiving"
        /\ relay' = [relay EXCEPT ![r][a] = Idle]
        /\ UNCHANGED <<service, accepted>>
     \/ LET got == Current(r).solutions \cup {a}
        IN  /\ Known(r) /\ Current(r).status = "receiving"
            /\ mem' = SetCurrent(r, [Current(r) EXCEPT !.solutions = got])
            /\ _persist_solution(r, a)
            /\ accepted' = [accepted EXCEPT ![r] = @ \cup {a}]
            /\ IF Cardinality(got) >= Current(r).expected
               THEN FreeIds # {} /\ tasks' = Spawned(Task("v1", r))
               ELSE UNCHANGED tasks
            /\ relay' = [relay EXCEPT ![r][a] = Idle]
            /\ UNCHANGED <<disk, vault, slots>>
  /\ UNCHANGED <<chain, oracle, stray, restarts>>

(* A round it knows is refused.                                            *)
init_round(r, expected) ==
  IF Known(r) THEN UNCHANGED <<mem, disk>>
  ELSE /\ mem' = [mem EXCEPT ![r] = <<NewObject("receiving", expected, {}, FALSE)>>]
       /\ _persist_round(r, "receiving", expected)

(* _auto_init_round(): the relay goes on whatever init_round() answers.    *)
InitRound(r, a) ==
  /\ relay[r][a].pc = "init"
  /\ LoopFree
  /\ relay' = [relay EXCEPT ![r][a].pc = "retry"]
  /\ init_round(r, relay[r][a].expected)
  /\ UNCHANGED <<chain, oracle, stray, diskSolutions, vault, slots, tasks,
                 accepted, restarts>>

(* A timeout or a broken connection ends the request where it stands; the  *)
(* agent may ask again.                                                    *)
RelayFails(r, a) ==
  /\ relay[r][a].pc # "idle"
  /\ relay' = [relay EXCEPT ![r][a] = Idle]
  /\ UNCHANGED <<chain, oracle, stray, service, accepted, restarts>>

----------------------------------------------------------------------------
(* store_problem_endpoint(): refused while the TEE holds the problem.      *)
StoreProblem(r) ==
  /\ LoopFree
  /\ r \notin vault
  /\ vault' = vault \cup {r}
  /\ UNCHANGED <<chain, oracle, stray, relay, mem, disk, diskSolutions, slots,
                 tasks, accepted, restarts>>

(* Mutant of ScoreRoundV2: the solutions received before are overwritten.  *)
ScoreRoundV2Overwrites(r) ==
  /\ LoopFree
  /\ OperatorWaits => chainPhase[r] # "COMMIT"
  /\ r \in vault \cup PublicRounds
  /\ Status(r) # "scoring"
  /\ Known(r) /\ Len(mem[r]) < MaxGenerations /\ FreeIds # {}
  /\ mem' = [mem EXCEPT ![r] = Append(@, NewObject("scoring", 0, {}, TRUE))]
  /\ disk' = [disk EXCEPT ![r] = [status |-> "scoring", expected |-> 0]]
  /\ tasks' = Spawned(Task("v2", r))
  /\ UNCHANGED <<chain, oracle, stray, relay, diskSolutions, vault, slots,
                 accepted, restarts>>

(* score_round_v2(), as the operator's trigger calls it: with no solutions *)
(* of its own.  The round gets a new object, and only a round that is      *)
(* being scored is refused: one that is completed or submitted is not.     *)
ScoreRoundV2(r) ==
  /\ LoopFree
  /\ OperatorWaits => chainPhase[r] # "COMMIT"
  /\ r \in vault \cup PublicRounds
  /\ Status(r) # "scoring"
  /\ Known(r) /\ Current(r).solutions # {}
  /\ Len(mem[r]) < MaxGenerations /\ FreeIds # {}
  /\ LET merged == Current(r).solutions
     IN  /\ mem' = [mem EXCEPT ![r] =
                      Append(@, NewObject("scoring", Cardinality(merged), merged, TRUE))]
         /\ _persist_round(r, "scoring", Cardinality(merged))
  /\ tasks' = Spawned(Task("v2", r))
  /\ UNCHANGED <<chain, oracle, stray, relay, diskSolutions, vault, slots,
                 accepted, restarts>>

(* submit_onchain(): the operator's second attempt.                        *)
SubmitOnchain(r) ==
  /\ LoopFree
  /\ Status(r) = "completed"
  /\ FreeIds # {}
  /\ tasks' = Spawned([Task("manual", r) EXCEPT !.gen = Len(mem[r]),
                         !.pc = "submit", !.payload = Current(r).results])
  /\ UNCHANGED <<chain, oracle, stray, relay, mem, disk, diskSolutions, vault,
                 slots, accepted, restarts>>

----------------------------------------------------------------------------
(* What a task does to its own object and to itself.                       *)
ObjectOf(t)     == mem[t.round][t.gen]
Mark(t, object) == mem' = [mem EXCEPT ![t.round][t.gen] = object]

Ends(i)     == tasks' = [tasks EXCEPT ![i] = NoTask]
Goes(i, pc) == tasks' = [tasks EXCEPT ![i].pc = pc]

(* _score_round_sync(): fetch the object, mark it, list its solutions.     *)
StartV1(i) ==
  LET t == tasks[i]  g == Len(mem[t.round])
  IN  /\ t.path = "v1" /\ t.pc = "queued"
      /\ mem' = [mem EXCEPT ![t.round][g].status = "scoring"]
      /\ tasks' = [tasks EXCEPT ![i] = Fetched([t EXCEPT !.gen = g], mem[t.round][g])]
      /\ UNCHANGED <<chain, oracle, stray, relay, disk, diskSolutions, vault,
                     slots, accepted, restarts>>

(* _score_round_v2_sync(): fetch the object, then wait for a slot.         *)
StartV2(i) ==
  LET t == tasks[i]
  IN  /\ t.path = "v2" /\ t.pc = "queued"
      /\ tasks' = [tasks EXCEPT ![i].gen = Len(mem[t.round]), ![i].pc = "waiting"]
      /\ UNCHANGED <<chain, oracle, stray, relay, mem, disk, diskSolutions,
                     vault, slots, accepted, restarts>>

AcquireSlot(i) ==
  LET t == tasks[i]
  IN  /\ t.path = "v2" /\ t.pc = "waiting"
      /\ slots > 0
      /\ slots' = slots - 1
      /\ tasks' = [tasks EXCEPT ![i] = Fetched(t, ObjectOf(t))]
      /\ UNCHANGED <<chain, oracle, stray, relay, mem, disk, diskSolutions,
                     vault, accepted, restarts>>

(* Mutant of SlotTimeout: the error is logged and not recorded.            *)
SlotTimeoutSilent(i) ==
  LET t == tasks[i]
  IN  /\ t.path = "v2" /\ t.pc = "waiting"
      /\ Ends(i)
      /\ UNCHANGED <<chain, oracle, stray, relay, mem, disk, diskSolutions, vault,
                     slots, accepted, restarts>>

(* No slot within 120 s.                                                   *)
SlotTimeout(i) ==
  LET t == tasks[i]
  IN  /\ t.path = "v2" /\ t.pc = "waiting"
      /\ Mark(t, [ObjectOf(t) EXCEPT !.status = "error"])
      /\ Ends(i)
      /\ UNCHANGED <<chain, oracle, stray, relay, disk, diskSolutions, vault,
                     slots, accepted, restarts>>

(* Solutions are sealed for the TEE's key.  An object that lacks it is     *)
(* scored with the older symmetric key: no solution can be read, and each  *)
(* one gets a score of 0.                                                  *)
PossibleScores(key, agents) ==
  IF key THEN [agents -> Scores] ELSE {[a \in agents |-> 0]}

Scored(i) ==
  LET t == tasks[i]
  IN  /\ t.path # "none" /\ t.pc = "scoring"
      /\ \E payload \in PossibleScores(t.key, t.taken) :
           /\ Mark(t, [ObjectOf(t) EXCEPT !.status = "completed", !.results = payload])
           /\ tasks' = [tasks EXCEPT ![i].pc = "submit", ![i].payload = payload]
      /\ UNCHANGED <<chain, oracle, stray, relay, disk, diskSolutions, vault,
                     slots, accepted, restarts>>

(* Mutant of ScoringFails: only the regular path gives the slot back.      *)
ScoringFailsKeepsSlot(i) ==
  LET t == tasks[i]
  IN  /\ t.path # "none" /\ t.pc = "scoring"
      /\ Mark(t, [ObjectOf(t) EXCEPT !.status = "error"])
      /\ Ends(i)
      /\ UNCHANGED <<chain, oracle, stray, relay, disk, diskSolutions, vault,
                     slots, accepted, restarts>>

(* An exception while scoring; V2 releases its slot in `finally` and keeps *)
(* the problem for another attempt.                                        *)
ScoringFails(i) ==
  LET t == tasks[i]
  IN  /\ t.path # "none" /\ t.pc = "scoring"
      /\ Mark(t, [ObjectOf(t) EXCEPT !.status = "error"])
      /\ Ends(i)
      /\ slots' = slots + (IF t.path = "v2" THEN 1 ELSE 0)
      /\ UNCHANGED <<chain, oracle, stray, relay, disk, diskSolutions, vault,
                     accepted, restarts>>

(* Where a task goes on after its submission, however that ended.          *)
AfterSubmission(i, t) ==
  IF t.path = "v2" THEN Goes(i, "cleanup") ELSE Ends(i)

(* submit_scores() raises: already submitted, gas estimation failed, no    *)
(* connection, nonce in use.  The status stays "completed".                *)
SubmissionRaises(i) ==
  LET t == tasks[i]
  IN  /\ t.path # "none" /\ t.pc = "submit"
      /\ AfterSubmission(i, t)
      /\ UNCHANGED <<chain, oracle, stray, relay, mem, disk, diskSolutions,
                     vault, slots, accepted, restarts>>

Send(i) ==
  LET t == tasks[i]
  IN  /\ t.path # "none" /\ t.pc = "submit"
      /\ oracle[t.round] = NoPayload
      /\ tasks' = [tasks EXCEPT ![i].pc = "sent", ![i].tx = "pending"]
      /\ UNCHANGED <<chain, oracle, stray, relay, mem, disk, diskSolutions,
                     vault, slots, accepted, restarts>>

(* The chain executes ScoringOracle.submitScores(), which is write-once.   *)
Mine(i) ==
  LET t == tasks[i]
  IN  /\ t.path # "none" /\ t.pc = "sent" /\ t.tx = "pending"
      /\ IF oracle[t.round] = NoPayload
         THEN /\ oracle' = [oracle EXCEPT ![t.round] = t.payload]
              /\ tasks' = [tasks EXCEPT ![i].tx = "success"]
         ELSE /\ tasks' = [tasks EXCEPT ![i].tx = "reverted"]
              /\ UNCHANGED oracle
      /\ UNCHANGED <<chain, stray, relay, mem, disk, diskSolutions, vault,
                     slots, accepted, restarts>>

MineStray(tx) ==
  /\ stray' = stray \ {tx}
  /\ oracle' = [oracle EXCEPT ![tx.round] = IF @ = NoPayload THEN tx.payload ELSE @]
  /\ UNCHANGED <<chain, relay, service, accepted, restarts>>

(* Mutant of Receipt: any receipt counts as success.                       *)
ReceiptUnchecked(i) ==
  LET t == tasks[i]
  IN  /\ t.path # "none" /\ t.pc = "sent"
      /\ Mark(t, [ObjectOf(t) EXCEPT !.status = "submitted"])
      /\ AfterSubmission(i, t)
      /\ UNCHANGED <<chain, oracle, stray, relay, disk, diskSolutions, vault,
                     slots, accepted, restarts>>

(* The receipt.  A reverted transaction leaves the status alone when it    *)
(* was sent by a scoring thread and sets "error" when sent by hand.        *)
Receipt(i) ==
  LET t == tasks[i]
  IN  /\ t.path # "none" /\ t.pc = "sent" /\ t.tx # "pending"
      /\ IF t.tx = "success" THEN Mark(t, [ObjectOf(t) EXCEPT !.status = "submitted"])
         ELSE IF t.path = "manual" THEN Mark(t, [ObjectOf(t) EXCEPT !.status = "error"])
         ELSE UNCHANGED mem
      /\ AfterSubmission(i, t)
      /\ UNCHANGED <<chain, oracle, stray, relay, disk, diskSolutions, vault,
                     slots, accepted, restarts>>

(* No receipt within 120 s: an exception, while the transaction lives on.  *)
ReceiptTimeout(i) ==
  LET t == tasks[i]
  IN  /\ t.path # "none" /\ t.pc = "sent" /\ t.tx = "pending"
      /\ stray' = stray \cup {[round |-> t.round, payload |-> t.payload]}
      /\ AfterSubmission(i, t)
      /\ UNCHANGED <<chain, oracle, relay, mem, disk, diskSolutions, vault,
                     slots, accepted, restarts>>

(* V2 deletes the problem from the TEE, forgets the key and releases its   *)
(* slot.                                                                   *)
CleanUp(i) ==
  LET t == tasks[i]
  IN  /\ t.path = "v2" /\ t.pc = "cleanup"
      /\ vault' = vault \ {t.round}
      /\ Mark(t, [ObjectOf(t) EXCEPT !.key = FALSE])
      /\ slots' = slots + 1
      /\ Ends(i)
      /\ UNCHANGED <<chain, oracle, stray, relay, disk, diskSolutions,
                     accepted, restarts>>

TaskStep(i) ==
  \/ StartV1(i) \/ StartV2(i) \/ AcquireSlot(i) \/ SlotTimeout(i)
  \/ Scored(i) \/ ScoringFails(i)
  \/ SubmissionRaises(i) \/ Send(i) \/ Receipt(i) \/ ReceiptTimeout(i)
  \/ CleanUp(i)

----------------------------------------------------------------------------
(* The process dies and comes back: _recover_rounds() makes an object for  *)
(* every row that says receiving or scoring.                               *)
Restart ==
  /\ restarts < MaxRestarts
  /\ restarts' = restarts + 1
  /\ mem' = [r \in Rounds |->
               IF disk[r].status \in {"receiving", "scoring"}
               THEN <<NewObject(disk[r].status, disk[r].expected, diskSolutions[r], FALSE)>>
               ELSE <<>>]
  /\ vault' = {}
  /\ slots' = MaxConcurrentScoring
  /\ tasks' = [i \in TaskIds |-> NoTask]
  /\ stray' = stray \cup
       {[round |-> t.round, payload |-> t.payload] :
          t \in {tasks[i] : i \in {k \in TaskIds : tasks[k].path # "none"
                                                    /\ tasks[k].tx = "pending"}}}
  /\ UNCHANGED <<chain, oracle, relay, disk, diskSolutions, accepted>>

Next ==
  \/ \E r \in Rounds, a \in Agents :
       \/ ChainEnter(r, a) \/ ChainCommit(r, a)
       \/ RelayReads(r, a) \/ RelayVerifies(r, a) \/ RelayFails(r, a)
       \/ Receive(r, a) \/ InitRound(r, a)
  \/ \E r \in Rounds :
       \/ ChainStartScoring(r) \/ StoreProblem(r) \/ ScoreRoundV2(r)
       \/ SubmitOnchain(r)
  \/ \E i \in TaskIds : TaskStep(i) \/ Mine(i)
  \/ \E tx \in stray : MineStray(tx)
  \/ Restart

Spec == Init /\ [][Next]_vars

(* A thread that runs goes on: the scheduler of the pool is fair, and every*)
(* wait of the code has a timeout.  Nobody is obliged to send anything.    *)
FairSpec == Spec /\ \A i \in TaskIds : WF_vars(TaskStep(i))

(* The oracle only holds scores of agents that committed on chain, so that *)
(* finalize() never meets a stranger: the check is made in the backend,    *)
(* the scores are sent by the service, and restarts lie in between.        *)
OnlyCommittedAreScored ==
  \A r \in Rounds : oracle[r] # NoPayload => DOMAIN oracle[r] \subseteq committed[r]

(* No scoring slot is lost or given back twice, whichever exception ends a *)
(* scoring thread.                                                         *)
Holders == {i \in TaskIds : tasks[i].path = "v2"
              /\ tasks[i].pc \in {"scoring", "submit", "sent", "cleanup"}}
SlotsConserved == slots + Cardinality(Holders) = MaxConcurrentScoring

(* A round reported as submitted has scores on chain, and of exactly the   *)
(* agents it reports, although transactions time out, compete with         *)
(* each other and revert, and several threads may score the same round.    *)
SubmittedIsOnChain ==
  \A r \in Rounds : ScoresSubmitted(r) =>
    /\ oracle[r] # NoPayload
    /\ DOMAIN oracle[r] = DOMAIN Current(r).results

(* A solution the agent was told is received stays with the round, through *)
(* second scorings and restarts.                                           *)
NoSolutionIsLost ==
  \A r \in Rounds : Known(r) => accepted[r] \subseteq Current(r).solutions

(* As long as the service is not restarted, a scoring ends: in a result,   *)
(* or in an error after which it can be tried again.                       *)
ScoringEnds ==
  \A r \in Rounds :
    restarts = 0 /\ Status(r) = "scoring" ~> restarts > 0 \/ Status(r) # "scoring"

(* What the service promises, without its insides.                         *)
Ledger == INSTANCE ScoreLedger WITH
  received <- accepted,
  scores   <- oracle,
  answer   <- [r \in Rounds |-> IF ScoresSubmitted(r) THEN DOMAIN Current(r).results
                                ELSE NoPayload],
  NoScores <- NoPayload,
  Silence  <- NoPayload

(* The service implements the ledger: whatever requests, threads, timeouts *)
(* and restarts overlap, it tells only those who committed that their      *)
(* solution is received, a round is scored once, for agents that committed,*)
(* and the answer about what is on chain is right (receive_solution,       *)
(* _submit_scores_onchain, _recover_rounds).                               *)
ImplementsLedger == Ledger!Spec

----------------------------------------------------------------------------
(* solutions.py:249: "After commit phase closes, scoring begins            *)
(* automatically".                                                         *)
ScoresAfterCommitPhase ==
  \A r \in Rounds : oracle[r] # NoPayload => chainPhase[r] # "COMMIT"

(* api.py:226: "On startup, recover any in-progress rounds from SQLite."   *)
RecoveredRoundsGoOn ==
  \A r \in Rounds : Status(r) = "scoring" ~> Status(r) # "scoring"
=============================================================================
