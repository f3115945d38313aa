------------------------- MODULE ConfidentialProblem -------------------------
(* The text of a private bounty and who gets to read it.  It is kept twice: *)
(* in the backend's problem vault, with a key that is released to agents    *)
(* that entered the round, and in the memory of the TEE, which encrypts it  *)
(* anew for each agent and scores against it.  The backend decides from the *)
(* chain who has entered and from its index, a cache, whether a problem may *)
(* still be stored; the TEE may be restarted, with or without its key file. *)
(* A request names a wallet and is answered to whoever sent it: the vault   *)
(* asks for a message signed by the wallet, the proxy of the TEE for none.  *)
EXTENDS Naturals

CONSTANTS
  Wallets,   \* wallets that may enter the round with an agent
  Callers,   \* whoever sends requests: these wallets, and others
  Texts,     \* texts the sponsor may submit
  NoText,      \* no row, no problem, no text
  MaxKeyPairs    \* bound: key pairs the TEE ever generates

ASSUME CallersAssumption == Wallets \subseteq Callers

VARIABLES
  phase,        \* the round's phase on the chain
  entered,      \* wallets with an agent for which isParticipant() is true
  index_phase,  \* the phase in the bounty index, NoText without a row
  private_problem,  \* the visibility in the row of the problem vault, NoText without
  tee_keypair,  \* number of the TEE's key pair
  public_key,   \* the key pair the sponsor's browser encrypts for
  active_problem,   \* what the TEE holds: [text, expired]
  held,         \* for each wallet, the message it signed that others hold
  forwarding,   \* requests that passed the checks of the proxy: [caller, wallet]
  granted,      \* the last answer with a problem: [path, caller, wallet]
  served,       \* texts the TEE gave to agents before the first scoring
  scored        \* the text of the first scoring, since the TEE was started

problem_vars == <<phase, entered, index_phase, private_problem, tee_keypair, public_key,
                  active_problem, held, forwarding, granted, served, scored>>
vault_vars == <<private_problem>>
tee_vars == <<tee_keypair, active_problem, served, scored>>
chain_vars == <<phase, entered>>
proxy_vars == <<index_phase, public_key, forwarding>>
answer_vars == <<held, granted>>

ProblemInit ==
  /\ phase = "OPEN" /\ entered = {}
  /\ index_phase \in {NoText, "CREATED"}
  /\ private_problem = NoText
  /\ tee_keypair = 1 /\ public_key = 1
  /\ active_problem = NoText
  /\ held = [w \in Wallets |-> "none"] /\ forwarding = {}
  /\ granted = NoText
  /\ served = {} /\ scored = NoText

-----------------------------------------------------------------------------
(* The chain and the bounty index *)

\* depositBounty() skips the phase FUNDED; the rest needs time to pass.
NextPhase ==
  /\ \/ phase = "OPEN" /\ phase' = "COMMIT"
     \/ phase = "COMMIT" /\ phase' = "SCORING"
  /\ UNCHANGED <<entered, vault_vars, tee_vars, proxy_vars, answer_vars>>

Enter(w) ==
  /\ phase = "COMMIT"
  /\ entered' = entered \cup {w}
  /\ UNCHANGED <<phase, vault_vars, tee_vars, proxy_vars, answer_vars>>

\* Somebody looks at the bounty: the index takes over the name on the chain.
RefreshIndex ==
  /\ index_phase \notin {NoText, phase}
  /\ index_phase' = phase
  /\ UNCHANGED <<chain_vars, vault_vars, tee_vars, public_key, forwarding, answer_vars>>

\* Mutant of has_agent_committed: a failing read lets the agent through.
has_agent_committed_open(w) ==
  {TRUE, (w \in entered)}

\* The answers for a wallet: no, too, whenever the chain cannot be read.
has_agent_committed(w) ==
  {FALSE, (w \in entered)}

-----------------------------------------------------------------------------
(* The problem vault of the backend *)

\* On a conflict only the problem and its key are replaced.
store_private_problem(visibility) ==
  private_problem' = IF private_problem = NoText THEN visibility ELSE private_problem

\* POST /private-bounties/store: the sponsor has encrypted the text.
StorePrivateProblem(visibility) ==
  /\ store_private_problem(visibility)
  /\ UNCHANGED <<chain_vars, tee_vars, proxy_vars, answer_vars>>

\* The blob and the key of one row, unless the bounty is public.
release_problem_key(caller, w) ==
  /\ private_problem \notin {NoText, "PUBLIC"}
  /\ granted' = [path |-> "vault", caller |-> caller, wallet |-> w]

\* A message that the wallet signed has come into other hands.  It may have a
\* line with the time; nothing else in it, no round either, is ever looked at.
HandOver(w, age) ==
  /\ held' = [held EXCEPT ![w] = age]
  /\ UNCHANGED <<chain_vars, vault_vars, tee_vars, proxy_vars, granted>>

\* Five minutes pass.
MessageGrowsOld(w) ==
  /\ held[w] = "fresh"
  /\ held' = [held EXCEPT ![w] = "stale"]
  /\ UNCHANGED <<chain_vars, vault_vars, tee_vars, proxy_vars, granted>>

\* The signature is the wallet's; only a time that the message has is looked at.
Presents(caller, w) ==
  caller = w \/ held[w] \in {"fresh", "unstamped"}

\* Signature and freshness are verified, the participation is read, then the row.
RequestProblemKey(caller, w) ==
  /\ Presents(caller, w)
  /\ TRUE \in has_agent_committed(w)
  /\ release_problem_key(caller, w)
  /\ UNCHANGED <<chain_vars, vault_vars, tee_vars, proxy_vars, held>>

-----------------------------------------------------------------------------
(* The TEE and the proxy in front of it *)

\* The attestation and the public key come from the same running TEE.
FetchPublicKey ==
  /\ public_key' = tee_keypair
  /\ UNCHANGED <<chain_vars, vault_vars, tee_vars, index_phase, forwarding, answer_vars>>

\* A round that is not in the index is refused, but if the index fails
\* (readable is FALSE) the request goes on to the TEE.
ProxyAdmits(readable) ==
  readable => index_phase \in {"CREATED", "FUNDED"}

\* Mutant of Replaceable: the round's problem is replaced while it is held.
ReplaceableAlways == TRUE

\* Problems are immutable as long as the TEE holds them.
Replaceable ==
  active_problem = NoText

\* decrypt_with_private_key(): a blob for another key pair does not open.
Opens(key) == key = tee_keypair

StoreProblem(text) ==
  /\ \E readable \in BOOLEAN : ProxyAdmits(readable)
  /\ Replaceable
  /\ Opens(public_key)
  /\ active_problem' = [text |-> text, expired |-> FALSE]
  /\ UNCHANGED <<chain_vars, vault_vars, tee_keypair, served, scored, proxy_vars, answer_vars>>

\* The proxy asks the chain about the wallet in the request, then the TEE: two
\* requests, with others between.  Nothing ties the caller to the wallet.
AgentProblemProxy(caller, w) ==
  /\ [caller |-> caller, wallet |-> w] \notin forwarding
  /\ TRUE \in has_agent_committed(w)
  /\ forwarding' = forwarding \cup {[caller |-> caller, wallet |-> w]}
  /\ UNCHANGED <<chain_vars, vault_vars, tee_vars, index_phase, public_key, answer_vars>>

\* encrypt_for_wallet(): for the public key in the request, which is the
\* caller's own; the wallet is a name beside it.
EncryptedFor(request) ==
  [path |-> "tee", caller |-> request.caller, wallet |-> request.wallet]

GetProblemForAgent(request) ==
  /\ request \in forwarding
  /\ forwarding' = forwarding \ {request}
  /\ IF active_problem = NoText \/ (active_problem # NoText /\ active_problem.expired)
     THEN UNCHANGED <<granted, served>>
     ELSE /\ granted' = EncryptedFor(request)
          /\ served' = IF scored = NoText THEN served \cup {active_problem.text} ELSE served
  /\ UNCHANGED <<chain_vars, vault_vars, tee_keypair, active_problem, scored,
                 index_phase, public_key, held>>

\* problem_window_hours pass: agents are refused, scoring is not.
ExpireWindow ==
  /\ active_problem # NoText
  /\ active_problem' = [active_problem EXCEPT !.expired = TRUE]
  /\ UNCHANGED <<chain_vars, vault_vars, tee_keypair, served, scored, proxy_vars, answer_vars>>

GetProblemForScoring ==
  /\ active_problem # NoText
  /\ scored' = IF scored = NoText THEN active_problem.text ELSE scored
  /\ UNCHANGED <<chain_vars, vault_vars, tee_keypair, active_problem, served, proxy_vars, answer_vars>>

DeleteProblem ==
  /\ scored # NoText
  /\ active_problem # NoText
  /\ active_problem' = NoText
  /\ UNCHANGED <<chain_vars, vault_vars, tee_keypair, served, scored, proxy_vars, answer_vars>>

\* The memory is lost; the key file may be, and then there is a new key.
RestartTee ==
  /\ tee_keypair' \in {tee_keypair, tee_keypair + 1}
  /\ tee_keypair' <= MaxKeyPairs
  /\ active_problem' = NoText
  /\ served' = {} /\ scored' = NoText
  /\ UNCHANGED <<chain_vars, vault_vars, proxy_vars, answer_vars>>

-----------------------------------------------------------------------------
ProblemNext ==
  \/ NextPhase
  \/ RefreshIndex
  \/ FetchPublicKey
  \/ ExpireWindow
  \/ GetProblemForScoring
  \/ DeleteProblem
  \/ RestartTee
  \/ \E w \in Wallets :
       \/ Enter(w) \/ MessageGrowsOld(w)
       \/ \E age \in {"fresh", "unstamped"} : HandOver(w, age)
       \/ \E caller \in Callers : RequestProblemKey(caller, w) \/ AgentProblemProxy(caller, w)
  \/ \E request \in forwarding : GetProblemForAgent(request)
  \/ \E text \in Texts : StoreProblem(text)
  \/ \E visibility \in {"PUBLIC", "PRIVATE"} : StorePrivateProblem(visibility)

ProblemSpec == ProblemInit /\ [][ProblemNext]_problem_vars

-----------------------------------------------------------------------------
(* Properties *)

\* The problem is given out only in the name of a wallet that has paid to
\* enter, also when the chain could not be read between the two requests, and
\* the vault gives it to another caller only if a message which that wallet
\* signed has come into other hands (request_problem_key "fail CLOSED",
\* agent_problem_proxy G2).  That the caller is the wallet is not claimed: the
\* proxy of the TEE has no proof of it.
ProblemNeedsEntry ==
  granted # NoText =>
    /\ granted.wallet \in entered
    /\ (granted.path = "vault" /\ granted.caller # granted.wallet
        => held[granted.wallet] # "none")

\* Solutions are scored against the text their authors were given: as long as
\* the TEE runs, every agent served before the first scoring saw the text that
\* is used there, however often the sponsor stores again (api.py:765 "Problems
\* are immutable once stored").
ScoredAsServed ==
  scored # NoText => served \subseteq {scored}
=============================================================================
