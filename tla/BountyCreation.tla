--------------------------- MODULE BountyCreation ---------------------------
(* How the backend creates bounties for sponsors: POST /bounties/create    *)
(* relays two transactions through the one operator account (createBounty, *)
(* then spawnRound), reads back the identifier and the address, and writes *)
(* the rubric file and the row of the bounty index.  The listing routes    *)
(* refresh the cached phase of a row from the chain.                       *)
(*                                                                         *)
(* A handler never awaits, so a server process (a worker) runs one request *)
(* at a time; requests overlap when there are several workers, and the     *)
(* chain moves between any two steps.  A round is at index 0 of its bounty *)
(* in every answer, so the bounty's number stands for its address.         *)
EXTENDS Naturals, Sequences, FiniteSets

CONSTANTS
  Processes,         \* server processes (workers) sharing the operator's account
  Requests,          \* creation requests, each by one sponsor
  PrivateRequests,   \* those with isPrivate
  LastPhase          \* bound: the phases of a round, after CREATED = 0

VARIABLES
  job,        \* what each worker is doing
  status,     \* of each request, as its sponsor sees it
  answer,     \* the bounty named in the answer, 0 for none
  files,      \* bounty -> rubric file
  index,      \* bounty -> row of the bounty index
  bounties,   \* on chain: the creators, in order of bounty id
  spawned,    \* on chain: rounds spawned for each bounty
  round_phase,    \* on chain: phase of the first round of each bounty
  nonce,      \* transactions of the operator that are in a block
  pool,       \* those pending, in order of nonce
  receipts,   \* transactions in a block, with their status
  alone       \* history: requests taken while no transaction was pending

chain == <<bounties, spawned, round_phase, nonce, pool, receipts>>
backend == <<job, status, answer, files, index, alone>>
creation_vars == <<backend, chain>>

retries == 2
Idle == [kind |-> "idle"]
Job(r, kind, pc, attempt, n, b) ==
  [req |-> r, kind |-> kind, pc |-> pc, attempt |-> attempt, nonce |-> n, bounty |-> b]

CreationInit ==
  /\ job = [w \in Processes |-> Idle]
  /\ status = [r \in Requests |-> "new"]
  /\ answer = [r \in Requests |-> 0]
  /\ files = <<>> /\ index = <<>>
  /\ bounties = <<>> /\ spawned = <<>> /\ round_phase = <<>>
  /\ nonce = 0 /\ pool = <<>> /\ receipts = {} /\ alone = {}

At(w, pc) == job[w].kind \in {"create", "spawn"} /\ job[w].pc = pc
Goto(w, j) == job' = [job EXCEPT ![w] = j]
Answered(w, s, b) ==
  /\ Goto(w, Idle)
  /\ status' = [status EXCEPT ![job[w].req] = s]
  /\ answer' = [answer EXCEPT ![job[w].req] = b]
Fail(w) == Answered(w, "failed", 0)

-----------------------------------------------------------------------------
(* The request                                                             *)

\* Rubric weights, the sponsor's address, its KYC status and the operator's
\* balance are tested before anything is written; any of them may refuse.
StartCreate(w, r) ==
  /\ job[w] = Idle /\ status[r] = "new"
  /\ \/ /\ Goto(w, Job(r, "create", "nonce", 0, 0, 0))
        /\ status' = [status EXCEPT ![r] = "working"]
        /\ alone' = IF pool = <<>> THEN alone \cup {r} ELSE alone
     \/ /\ status' = [status EXCEPT ![r] = "failed"]
        /\ UNCHANGED <<job, alone>>
  /\ UNCHANGED <<answer, files, index, chain>>

\* _send_tx: the pending count, as the node that is asked knows it.
ReadNonce(w) ==
  /\ At(w, "nonce")
  /\ \E n \in nonce .. nonce + Len(pool) :
       Goto(w, [job[w] EXCEPT !.nonce = n, !.pc = "send"])
  /\ UNCHANGED <<alone, status, answer, files, index, chain>>

Tx(j) ==
  [req |-> j.req, kind |-> j.kind, bounty |-> j.bounty, attempt |-> j.attempt, nonce |-> j.nonce]

InPool(n) == n \in nonce .. nonce + Len(pool) - 1

\* The node's rule: a free nonce is queued; a pending one is replaced only by
\* a higher tip, and the tip only grows with the attempt.
Pooled(tx) ==
  \/ /\ tx.nonce = nonce + Len(pool)
     /\ pool' = Append(pool, tx)
  \/ /\ InPool(tx.nonce)
     /\ tx.attempt > pool[tx.nonce - nonce + 1].attempt
     /\ pool' = [pool EXCEPT ![tx.nonce - nonce + 1] = tx]

(* Mutant of Retries: the attempts are not counted.                        *)
RetriesForever(w) ==
  /\ Goto(w, [job[w] EXCEPT !.pc = "nonce"])
  /\ UNCHANGED <<status, answer>>

Retries(w) ==
  IF job[w].attempt < retries
  THEN /\ Goto(w, [job[w] EXCEPT !.attempt = @ + 1, !.pc = "nonce"])
       /\ UNCHANGED <<status, answer>>
  ELSE Fail(w)

\* "nonce too low" or "replacement transaction underpriced".
Conflict(w) == job[w].nonce < nonce \/ InPool(job[w].nonce)

\* Sent, refused with a retry, or failed with any other error; the node may
\* have queued the transaction although its answer was lost.
Send(w) ==
  /\ At(w, "send")
  /\ \/ /\ Pooled(Tx(job[w]))
        /\ Goto(w, [job[w] EXCEPT !.pc = "wait"])
        /\ UNCHANGED <<status, answer>>
     \/ /\ Conflict(w) /\ Retries(w)
        /\ UNCHANGED pool
     \/ /\ Pooled(Tx(job[w])) \/ UNCHANGED pool
        /\ Fail(w)
  /\ UNCHANGED <<alone, files, index, bounties, spawned, round_phase, nonce, receipts>>

(* Mutant of AfterTimeout: a transaction that is late is sent again.       *)
AfterTimeoutResends(w) ==
  Retries(w)

\* The error path of wait_for_transaction_receipt: its message names no nonce.
AfterTimeout(w) ==
  Fail(w)

\* The receipt, or none in 120 seconds, whatever happens to it later.
Wait(w) ==
  /\ At(w, "wait")
  /\ \/ /\ [tx |-> Tx(job[w]), ok |-> TRUE] \in receipts
        /\ Goto(w, [job[w] EXCEPT !.pc =
                   IF job[w].kind = "create" THEN "read_id" ELSE "read_round"])
        /\ UNCHANGED <<status, answer>>
     \/ [tx |-> Tx(job[w]), ok |-> FALSE] \in receipts /\ Fail(w)
     \/ /\ \A ok \in BOOLEAN : [tx |-> Tx(job[w]), ok |-> ok] \notin receipts
        /\ AfterTimeout(w)
  /\ UNCHANGED <<alone, files, index, chain>>

(* Mutant of NewBounty: the first bounty that has no round.                *)
FirstWithoutRound ==
  CHOOSE b \in DOMAIN bounties :
    spawned[b] = 0 /\ \A c \in 1 .. b - 1 : spawned[c] > 0

\* nextBountyId() - 1
NewBounty ==
  Len(bounties)

\* create_bounty_and_spawn: the identifier is read after the receipt.
ReadId(w) ==
  /\ At(w, "read_id")
  /\ Goto(w, Job(job[w].req, "spawn", "nonce", 0, 0, NewBounty))
  /\ UNCHANGED <<alone, status, answer, files, index, chain>>

\* getRoundAddress(bounty_id, 0)
ReadRound(w) ==
  /\ At(w, "read_round")
  /\ IF spawned[job[w].bounty] > 0
     THEN Goto(w, [job[w] EXCEPT !.pc = "store"]) /\ UNCHANGED <<status, answer>>
     ELSE Fail(w)
  /\ UNCHANGED <<alone, files, index, chain>>

Public == {"title", "tags"}
Confidential == {"description", "rubric"}

(* Mutant of RubricFile: every rubric is stored as a public one.           *)
RubricFileOfAnybody(r, pinned) ==
  [req |-> r, ipfs |-> pinned, private |-> FALSE, fields |-> Public \cup Confidential]

RubricFile(r, pinned) ==
  [req |-> r, ipfs |-> pinned, private |-> r \in PrivateRequests,
   fields |-> IF r \in PrivateRequests THEN Public ELSE Public \cup Confidential]

With(f, x, v) == [y \in DOMAIN f \cup {x} |-> IF y = x THEN v ELSE f[y]]

\* The pin on IPFS may fail or be disabled; private rubrics are not pinned.
upload_rubric(r) == IF r \in PrivateRequests THEN {FALSE} ELSE BOOLEAN

\* The local file is always written.
Store(w) ==
  /\ At(w, "store")
  /\ \E pinned \in upload_rubric(job[w].req) :
       files' = With(files, job[w].bounty, RubricFile(job[w].req, pinned))
  /\ Goto(w, [job[w] EXCEPT !.pc = "index"])
  /\ UNCHANGED <<alone, status, answer, index, chain>>

\* The row carries the description of every bounty, private or not.
Row(r) ==
  [req |-> r, phase |-> 0, private |-> r \in PrivateRequests,
   fields |-> Public \cup {"description"}]

\* index_bounty() replaces the row; float(bountyEth) is first tried here, and
\* fails if the amount is not a number.
Index(w) ==
  /\ At(w, "index")
  /\ \/ Fail(w) /\ UNCHANGED index
     \/ /\ index' = With(index, job[w].bounty, Row(job[w].req))
        /\ Answered(w, "done", job[w].bounty)
  /\ UNCHANGED <<alone, files, chain>>

\* The process stops, by a deployment for instance: the sponsor gets no answer.
Crash(w) ==
  /\ job[w] # Idle
  /\ IF job[w].kind = "refresh"
     THEN Goto(w, Idle) /\ UNCHANGED <<status, answer>>
     ELSE Fail(w)
  /\ UNCHANGED <<alone, files, index, chain>>

-----------------------------------------------------------------------------
(* Listing: get_round_details() reads the chain, update_bounty_phase()     *)
(* then writes what was read.                                              *)

\* GET /bounties/ and GET /bounties/{id}
get_round_details(b) == round_phase[b]

ReadPhase(w) ==
  /\ job[w] = Idle
  /\ \E b \in DOMAIN index :
       Goto(w, [kind |-> "refresh", bounty |-> b, phase |-> get_round_details(b)])
  /\ UNCHANGED <<alone, status, answer, files, index, chain>>

UpdatePhase(w) ==
  /\ job[w].kind = "refresh"
  /\ index' = [index EXCEPT ![job[w].bounty].phase = job[w].phase]
  /\ Goto(w, Idle)
  /\ UNCHANGED <<alone, status, answer, files, chain>>

\* What GET /bounties/{id} answers: the file, or else the index row, without
\* the confidential fields of a private bounty.
GetBounty(b) ==
  LET stored == IF b \in DOMAIN files THEN files[b]
                ELSE [private |-> index[b].private, fields |-> index[b].fields]
  IN IF stored.private THEN stored.fields \ Confidential ELSE stored.fields

\* GET /bounties/by-round/{address}
GetByRound(b) == IF b \in DOMAIN index THEN GetBounty(b) ELSE {}

\* GET /bounties/{id}/rubric: refused for a private bounty.
GetRubric(b) ==
  IF b \in DOMAIN files /\ ~files[b].private THEN {"rubric"} \cap files[b].fields ELSE {}

\* GET /bounties/debug-list, and GET /agent/bounties and /agent/bounties/{id}
\* of agent_data.py, which open the same file: SELECT *, for anybody.
ListedRow(b) == IF b \in DOMAIN index THEN index[b].fields ELSE {}

Filtered(b) ==
  (IF b \in DOMAIN files \cup DOMAIN index THEN GetBounty(b) ELSE {}) \cup GetByRound(b)

Served(b) == Filtered(b) \cup GetRubric(b) \cup ListedRow(b)

-----------------------------------------------------------------------------
(* The chain                                                               *)

\* A block takes the operator's next transaction: it succeeds or reverts.
Mine ==
  /\ pool # <<>>
  /\ pool' = Tail(pool) /\ nonce' = nonce + 1
  /\ LET tx == Head(pool) IN
     \/ /\ receipts' = receipts \cup {[tx |-> tx, ok |-> TRUE]}
        /\ IF tx.kind = "create"
           THEN /\ bounties' = Append(bounties, tx.req)
                /\ spawned' = Append(spawned, 0)
                /\ round_phase' = Append(round_phase, 0)
           ELSE /\ spawned' = [spawned EXCEPT ![tx.bounty] = @ + 1]
                /\ round_phase' = [round_phase EXCEPT ![tx.bounty] = IF @ = 0 THEN 1 ELSE @]
                /\ UNCHANGED bounties
     \/ /\ receipts' = receipts \cup {[tx |-> tx, ok |-> FALSE]}
        /\ UNCHANGED <<bounties, spawned, round_phase>>
  /\ UNCHANGED backend

\* The round goes on: phases only move forward (BountyRoundProofs).
PhaseMoves ==
  /\ \E b \in DOMAIN round_phase :
       /\ round_phase[b] \in 1 .. LastPhase - 1
       /\ round_phase' = [round_phase EXCEPT ![b] = @ + 1]
  /\ UNCHANGED <<backend, bounties, spawned, nonce, pool, receipts>>

Step(w) ==
  \/ ReadNonce(w) \/ Send(w) \/ Wait(w) \/ ReadId(w) \/ ReadRound(w)
  \/ Store(w) \/ Index(w) \/ UpdatePhase(w)

CreationNext ==
  \/ \E w \in Processes : Step(w) \/ Crash(w) \/ ReadPhase(w)
  \/ \E w \in Processes, r \in Requests : StartCreate(w, r)
  \/ Mine \/ PhaseMoves

\* A running handler runs on: every wait in it has a time limit.
CreationSpec ==
  /\ CreationInit /\ [][CreationNext]_creation_vars
  /\ \A w \in Processes : WF_creation_vars(Step(w))
-----------------------------------------------------------------------------
(* Properties                                                              *)

(* The bounty and round named in an answer are the ones made for that      *)
(* request: the sponsor is about to deposit into that round.  The backend  *)
(* infers them from a counter that every late, replaced or concurrent      *)
(* transaction of the operator's account moves.                            *)
ResponseIsOwnBounty ==
  \A r \in Requests : status[r] = "done" => bounties[answer[r]] = r

(* A row of the index is about a bounty that exists with a round, has a    *)
(* rubric file of the request whose title it shows, and its phase is one   *)
(* the round has reached; for a request that was alone it is its own       *)
(* bounty, with one round.                                                 *)
IndexIsTrue ==
  \A b \in DOMAIN index :
    /\ b \in DOMAIN bounties /\ spawned[b] >= 1
    /\ b \in DOMAIN files
    /\ files[b].req = index[b].req \/ status[files[b].req] # "done"
    /\ index[b].phase <= round_phase[b]
    /\ index[b].req \in alone => bounties[b] = index[b].req /\ spawned[b] = 1

(* A request makes at most one bounty, counting transactions that are      *)
(* still pending after the handler gave up: retries and timeouts never     *)
(* create a second one.                                                    *)
AtMostOneBounty ==
  \A r \in Requests :
    Cardinality({b \in DOMAIN bounties : bounties[b] = r})
      + Cardinality({i \in DOMAIN pool : pool[i].kind = "create" /\ pool[i].req = r}) <= 1

(* The rubric that a private request brought is served by no route and not *)
(* pinned on IPFS, whichever of the file and the row is there after a      *)
(* failure between the two writes; nor do the routes that filter show its  *)
(* description.  Others do (ListedRow): only the rubric stays private.     *)
RubricStaysPrivate ==
  \A b \in DOMAIN files \cup DOMAIN index :
    (IF b \in DOMAIN files THEN files[b].req ELSE index[b].req) \in PrivateRequests =>
      /\ Filtered(b) \cap Confidential = {}
      /\ "rubric" \notin Served(b)
      /\ b \in DOMAIN files => ~files[b].ipfs

(* Every request that was taken is answered: attempts and waits are        *)
(* bounded.                                                                *)
EveryRequestAnswers ==
  \A r \in Requests : status[r] = "working" ~> status[r] \in {"done", "failed"}
=============================================================================
