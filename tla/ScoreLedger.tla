----------------------------- MODULE ScoreLedger ----------------------------
(***************************************************************************)
(* What the way of a solution promises, stripped of requests, objects,     *)
(* threads, tables, slots, transactions and restarts: an agent commits on  *)
(* chain; it is told "received" only after it has committed; a round gets  *)
(* scores once, of agents that have committed; and whenever the service    *)
(* says of which agents a round has scores on chain, these are the ones,   *)
(* while it may at any time fall silent, or speak again.  Nothing of it is *)
(* ever taken back.                                                        *)
(*                                                                         *)
(* ScoringService implements this specification: see Ledger there.         *)
(***************************************************************************)
CONSTANTS Rounds, Agents, Scores, NoScores, Silence

VARIABLES
  committed,      \* who has committed to a solution on chain
  received,       \* who was told that its solution is received
  scores,         \* what the oracle stores for a round, or NoScores
  answer          \* whose scores the service says are on chain, or Silence

vars == <<committed, received, scores, answer>>

Init ==
  /\ committed = [r \in Rounds |-> {}]
  /\ received = [r \in Rounds |-> {}]
  /\ scores = [r \in Rounds |-> NoScores]
  /\ answer = [r \in Rounds |-> Silence]

Commit(r, a) ==
  /\ committed' = [committed EXCEPT ![r] = @ \cup {a}]
  /\ UNCHANGED <<received, scores, answer>>

Receive(r, a) ==
  /\ a \in committed[r]
  /\ received' = [received EXCEPT ![r] = @ \cup {a}]
  /\ UNCHANGED <<committed, scores, answer>>

Post(r) ==
  /\ scores[r] = NoScores
  /\ \E agents \in SUBSET committed[r] : \E result \in [agents -> Scores] :
       scores' = [scores EXCEPT ![r] = result]
  /\ UNCHANGED <<committed, received, answer>>

(* A restart may change the answer about every round.                      *)
Answer ==
  /\ \A r \in Rounds :
       answer'[r] # Silence => scores[r] # NoScores /\ answer'[r] = DOMAIN scores[r]
  /\ UNCHANGED <<committed, received, scores>>

Next ==
  \/ \E r \in Rounds, a \in Agents : Commit(r, a) \/ Receive(r, a)
  \/ \E r \in Rounds : Post(r)
  \/ Answer

Spec == Init /\ [][Next]_vars
=============================================================================
