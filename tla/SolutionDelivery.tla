-------------------------- MODULE SolutionDelivery --------------------------
(* How the winning solutions of a round reach its sponsor.  The backend     *)
(* asks the scoring service to score (trigger_scoring) and leaves a puller  *)
(* behind that polls for the results; a thread of the scoring service       *)
(* scores, submits to the write-once oracle, seals the winners for the      *)
(* sponsor's key and keeps them in memory; the puller stores what it finds  *)
(* in the solution vault, which only the sponsor may read.  Either service  *)
(* may be restarted between any two steps.                                  *)
EXTENDS Integers, Sequences, SequencesExt

CONSTANTS
  Agents,       \* ids of the agents whose solutions the service has
  Results,      \* the results a scoring can give: functions Agents -> Nat
  Keys,         \* public keys the sponsor may register
  WalletKey,    \* the one of the sponsor's wallet itself
  Sponsor,      \* the sponsor on the chain
  Nobody,       \* the empty string for an address
  NoKey,        \* the empty string for a key
  MAX_POLLS,    \* polls of one puller, 40 in the code
  MaxTriggers,  \* bound: calls of trigger_scoring
  V1Triggers,   \* bound: statuses at which the deprecated trigger is called
  Faults        \* TRUE: restarts, lost replies and failing steps happen

ASSUME DeliveryAssumption == Results \subseteq [Agents -> Nat]

VARIABLES
  bounty,       \* the round in the bounty index: "none", "public" or "private"
  sponsor_pubkeys, \* the key registered for the sponsor
  problem,      \* the sponsor key of the problem the TEE holds, NoKey if none
  rounds,       \* round objects: the last is in _rounds, the others only live
                \* as long as the thread that works on them
  row_status,   \* the status of the round's row in SQLite
  oracle,       \* the scores on the chain, or NotYet
  pullers,      \* the tasks _pull_results_when_ready
  winning_solutions  \* the vault: the row of each agent, or NoRow

delivery_vars == <<bounty, sponsor_pubkeys, problem, rounds, row_status, oracle,
                   pullers, winning_solutions>>

NotYet == [a \in Agents |-> -1]
NoRow == [score |-> -1, key |-> NoKey, sponsor |-> Nobody]

-----------------------------------------------------------------------------
(* The scoring service *)

\* step is where the thread that scores this object is.
Object(status, key, step) ==
  [status |-> status, key |-> key, step |-> step, results |-> NotYet, sealed |-> {}]

Current == rounds[Len(rounds)]

\* A thread holds this object, which lives as long, even when it is replaced.
InUse(object) == object.step \notin {"done", "v1"} \/ object.status = "scoring"

Change(i, object) ==
  rounds' = IF i < Len(rounds) /\ ~InUse(object)
            THEN RemoveAt(rounds, i) ELSE [rounds EXCEPT ![i] = object]

Replace(object) ==
  rounds' = IF InUse(Current)
            THEN Append(rounds, object) ELSE [rounds EXCEPT ![Len(rounds)] = object]

DeliveryInit ==
  /\ bounty \in {"none", "public", "private"}
  /\ sponsor_pubkeys \in Keys \cup {NoKey}
  /\ problem \in IF bounty = "public" THEN {NoKey} ELSE Keys
  /\ rounds = <<Object("receiving", NoKey, "v1")>>
  /\ row_status = "receiving"
  /\ oracle = NotYet
  /\ pullers = <<>>
  /\ winning_solutions = [a \in Agents |-> NoRow]

\* The last solution has come: the deprecated V1 path scores the object in
\* place.  It submits, but never seals.
ScoreV1 ==
  /\ Current.status = "receiving" /\ Current.step = "v1"
  /\ Change(Len(rounds), [Current EXCEPT !.status = "scoring"])
  /\ UNCHANGED <<bounty, sponsor_pubkeys, problem, row_status, oracle, pullers,
                 winning_solutions>>

Scored(i) ==
  /\ rounds[i].status = "scoring" /\ rounds[i].step \in {"v1", "v2"}
  /\ \E scores \in Results :
       Change(i, [rounds[i] EXCEPT !.status = "completed", !.results = scores,
                    !.step = IF @ = "v1" THEN "submit_v1" ELSE "submit_v2"])
  /\ UNCHANGED <<bounty, sponsor_pubkeys, problem, row_status, oracle, pullers,
                 winning_solutions>>

ScoringFails(i) ==
  /\ Faults
  /\ rounds[i].status = "scoring" /\ rounds[i].step \in {"v1", "v2"}
  /\ Change(i, [rounds[i] EXCEPT !.status = "error", !.step = "done"])
  /\ UNCHANGED <<bounty, sponsor_pubkeys, problem, row_status, oracle, pullers,
                 winning_solutions>>

Submitting(i) == rounds[i].step \in {"submit_v1", "submit_v2"}
Next_step(i, v2_step) == IF rounds[i].step = "submit_v1" THEN "done" ELSE v2_step

\* The oracle takes the scores of a round once; with the receipt the status
\* changes.  Sealing comes next, as a step of its own.
Submitted(i) ==
  /\ Submitting(i)
  /\ oracle = NotYet
  /\ oracle' = rounds[i].results
  /\ Change(i, [rounds[i] EXCEPT !.status = "submitted", !.step = Next_step(i, "seal")])
  /\ UNCHANGED <<bounty, sponsor_pubkeys, problem, row_status, pullers,
                 winning_solutions>>

\* Mutant of AfterFailure: what was scored is sealed, submitted or not.
AfterFailureSeals == "seal"

\* After a submission without success the thread goes on without sealing.
AfterFailure ==
  "clean"

\* The scores are there already, the transaction reverts or cannot be sent,
\* or (landed) the receipt is late: only the log tells.
SubmissionFails(i) ==
  /\ Submitting(i)
  /\ Faults \/ oracle # NotYet
  /\ \E landed \in BOOLEAN :
       oracle' = IF landed /\ oracle = NotYet THEN rounds[i].results ELSE oracle
  /\ Change(i, [rounds[i] EXCEPT !.step = Next_step(i, AfterFailure)])
  /\ UNCHANGED <<bounty, sponsor_pubkeys, problem, row_status, pullers,
                 winning_solutions>>

\* _store_solutions_v2(): each solution with points that can be encrypted.
Seal(i) ==
  /\ rounds[i].step = "seal"
  /\ LET winners == {a \in Agents : rounds[i].results[a] > 0 /\ rounds[i].key # NoKey}
     IN \E failed \in IF Faults THEN SUBSET winners ELSE {{}} :
          Change(i, [rounds[i] EXCEPT !.step = "clean", !.sealed = winners \ failed])
  /\ UNCHANGED <<bounty, sponsor_pubkeys, problem, row_status, oracle, pullers,
                 winning_solutions>>

ForgetProblem(i) ==
  /\ rounds[i].step = "clean"
  /\ Change(i, [rounds[i] EXCEPT !.step = "done"])
  /\ problem' = NoKey
  /\ UNCHANGED <<bounty, sponsor_pubkeys, row_status, oracle, pullers,
                 winning_solutions>>

\* _recover_rounds(): the row comes back; threads and the TEE's memory do not.
RestartScoring ==
  /\ Faults
  /\ rounds' = <<Object(row_status, NoKey,
                        IF row_status = "receiving" THEN "v1" ELSE "done")>>
  /\ problem' = NoKey
  /\ UNCHANGED <<bounty, sponsor_pubkeys, row_status, oracle, pullers,
                 winning_solutions>>

-----------------------------------------------------------------------------
(* The backend *)

\* An upsert: objects in the making keep the old key.
StorePublicKey(key) ==
  /\ sponsor_pubkeys' = key
  /\ UNCHANGED <<bounty, problem, rounds, row_status, oracle, pullers,
                 winning_solutions>>

\* The public key that belongs to the sponsor's signature.
recover_public_key == WalletKey

\* POST /register-sponsor-key: the key in the request, or the recovered one.
RegisterSponsorKey ==
  \E key \in Keys \cup {recover_public_key} : StorePublicKey(key)

\* The route of the second version: always the key in the request.
RegisterDerivedKey(key) == StorePublicKey(key)

\* The sponsor is the one in the index.  The read from the chain that should
\* help without a row never succeeds: its function is not known there, and the
\* error is swallowed.
Resolved == IF bounty = "none" THEN Nobody ELSE Sponsor

\* POST /score/round-v2 with what the backend resolved.  Nothing changes when
\* there is no problem to score against or the round is being scored.
ScoreRoundV2(key) ==
  LET text == bounty = "public"
      refused == \/ problem = NoKey /\ ~(text /\ key # NoKey)
                 \/ Current.status = "scoring"
      object == Object("scoring", IF key # NoKey THEN key ELSE problem, "v2")
  IN IF refused THEN UNCHANGED <<rounds, row_status>>
     ELSE Replace(object) /\ row_status' = "scoring"

\* POST /score/round, the deprecated trigger an operator may still call: a new
\* object for the V1 path, whose row is not written.
ScoreRound ==
  /\ Current.status \in V1Triggers \ {"scoring"}
  /\ Replace(Object("scoring", NoKey, "v1"))
  /\ UNCHANGED <<bounty, sponsor_pubkeys, problem, row_status, oracle, pullers,
                 winning_solutions>>

\* The service's answer is not looked at: a puller starts in any case.
TriggerScoring ==
  /\ Len(pullers) < MaxTriggers
  /\ ScoreRoundV2(IF Resolved = Sponsor THEN sponsor_pubkeys ELSE NoKey)
  /\ pullers' = Append(pullers, [sponsor |-> Resolved, attempts |-> MAX_POLLS,
                                 state |-> "polling"])
  /\ UNCHANGED <<bounty, sponsor_pubkeys, problem, oracle, winning_solutions>>

Over(state) == [sponsor |-> Nobody, attempts |-> 0, state |-> state]

\* Mutant of Attempted: an unfinished scoring is waited for without counting.
AttemptedForever(puller) ==
  IF Current.status = "scoring" THEN puller ELSE [puller EXCEPT !.attempts = @ - 1]

\* One more of the attempts of the for loop; the last one ends the task.
Attempted(puller) ==
  IF puller.attempts = 1 THEN Over("failed") ELSE [puller EXCEPT !.attempts = @ - 1]

\* Still scoring, a status the loop does not know, or (Faults) an exception.
PollAgain(p) ==
  /\ pullers[p].state = "polling"
  /\ Faults \/ Current.status \in {"receiving", "scoring"}
  /\ pullers' = [pullers EXCEPT ![p] = Attempted(pullers[p])]
  /\ UNCHANGED <<bounty, sponsor_pubkeys, problem, rounds, row_status, oracle,
                 winning_solutions>>

PollError(p) ==
  /\ pullers[p].state = "polling"
  /\ Current.status = "error"
  /\ pullers' = [pullers EXCEPT ![p] = Over("failed")]
  /\ UNCHANGED <<bounty, sponsor_pubkeys, problem, rounds, row_status, oracle,
                 winning_solutions>>

\* store_winning_solution(): the first row of an agent stays.
Stored(agents, sponsor) ==
  [a \in Agents |->
     IF a \in agents /\ winning_solutions[a] = NoRow
     THEN [score |-> Current.results[a], key |-> Current.key, sponsor |-> sponsor]
     ELSE winning_solutions[a]]

\* GET /score/results answers with results, sealed solutions or not.
Ready == Current.status \in {"completed", "submitted"}

\* Results at last: a row that cannot be written is logged, the task is over.
Pull(p) ==
  /\ pullers[p].state = "polling"
  /\ Ready
  /\ \E lost \in IF Faults THEN SUBSET Current.sealed ELSE {{}} :
       winning_solutions' = Stored(Current.sealed \ lost, pullers[p].sponsor)
  /\ pullers' = [pullers EXCEPT ![p] = Over("pulled")]
  /\ UNCHANGED <<bounty, sponsor_pubkeys, problem, rounds, row_status, oracle>>

RestartBackend ==
  /\ Faults
  /\ \E p \in DOMAIN pullers : pullers[p].state = "polling"
  /\ pullers' = [p \in DOMAIN pullers |->
                   IF pullers[p].state = "polling"
                   THEN Over("failed") ELSE pullers[p]]
  /\ UNCHANGED <<bounty, sponsor_pubkeys, problem, rounds, row_status, oracle,
                 winning_solutions>>

\* Rows older than 90 days are left out; one with the highest score says whose
\* they are.
get_winning_solutions(wallet, readable) ==
  \E first \in readable :
    /\ \A a \in readable : winning_solutions[a].score <= winning_solutions[first].score
    /\ winning_solutions[first].sponsor = wallet

\* POST /sponsor-access with a fresh message that the wallet has signed, before
\* any row is too old: is the answer yes?
request_sponsor_access(wallet) ==
  get_winning_solutions(wallet, {a \in Agents : winning_solutions[a] # NoRow})

-----------------------------------------------------------------------------
Threads ==
  \/ ScoreV1
  \/ \E i \in DOMAIN rounds :
       \/ Scored(i) \/ ScoringFails(i)
       \/ Submitted(i) \/ SubmissionFails(i)
       \/ Seal(i) \/ ForgetProblem(i)

Poll(p) == PollAgain(p) \/ PollError(p) \/ Pull(p)

DeliveryNext ==
  \/ Threads
  \/ RestartScoring
  \/ RegisterSponsorKey
  \/ \E key \in Keys : RegisterDerivedKey(key)
  \/ TriggerScoring
  \/ ScoreRound
  \/ \E p \in DOMAIN pullers : Poll(p)
  \/ RestartBackend

\* A puller wakes up every 15 seconds.
Fairness == \A p \in 1 .. MaxTriggers : WF_delivery_vars(p \in DOMAIN pullers /\ Poll(p))

DeliverySpec == DeliveryInit /\ [][DeliveryNext]_delivery_vars /\ Fairness

-----------------------------------------------------------------------------
(* Properties *)

\* What lies in the vault is what the chain says: each row has the score the
\* oracle holds for its agent and is sealed for a key of the sponsor, however
\* often the round was scored again, by two paths, across restarts and late
\* receipts (_score_round_v2_sync, store_winning_solution).
VaultMatchesChain ==
  \A a \in Agents : winning_solutions[a] # NoRow =>
    winning_solutions[a].score = oracle[a] /\ winning_solutions[a].key \in Keys \cup {WalletKey}

\* No task polls for ever, whatever state the round is left in by the scoring
\* service (_pull_results_when_ready: "for up to 10 minutes").
PullersEnd ==
  \A p \in 1 .. MaxTriggers :
    (p \in DOMAIN pullers /\ pullers[p].state = "polling")
      ~> (p \in DOMAIN pullers /\ pullers[p].state # "polling")

\* Once a puller has found the results of a round of the index, the scores are
\* on the chain and no thread is at work, each winner's solution is in the vault and the
\* sponsor may have it (solutions.py: "poll scoring service until results are
\* ready, then pull and store").
WinnersDelivered ==
  ( /\ bounty # "none" /\ oracle # NotYet
    /\ Len(rounds) = 1 /\ Current.step = "done" /\ Current.key # NoKey
    /\ \A p \in DOMAIN pullers : pullers[p].state = "pulled" )
  => \A a \in Agents : oracle[a] > 0 =>
       winning_solutions[a] # NoRow /\ request_sponsor_access(Sponsor)
=============================================================================
