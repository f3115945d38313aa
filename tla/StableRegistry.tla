--------------------------- MODULE StableRegistry ---------------------------
(***************************************************************************)
(* contracts/src/StableRegistry.sol with the part of ArenaRegistry.sol it  *)
(* calls.  A stable is a group of agents of one owner.  Who belongs to it  *)
(* is stored four times: the stable's array, the agent's place in that     *)
(* array (for the swap-and-pop), the agent's stable, and, in the other     *)
(* contract, the stableId of the agent's record.                           *)
(*                                                                         *)
(* Entry fees, metadata, statistics and the revenue share, which never     *)
(* changes, are left out.  One action is one transaction.                  *)
(***************************************************************************)
EXTENDS Naturals, Sequences

CONSTANTS
  Wallets,
  NoWallet,      \* address(0)
  MaxRegistered, \* the registrations and
  MaxStables     \* the stables looked at; for stables it is type(uint16).max

ASSUME RegistryAssumption ==
  /\ NoWallet \notin Wallets
  /\ MaxRegistered \in Nat /\ MaxStables \in Nat

AgentIds  == 1 .. MaxRegistered
StableIds == 1 .. MaxStables
None      == 0               \* "no stable", "not linked"

VARIABLES
  agents,          \* ArenaRegistry._agents: wallet, deregistered, stableId
  nextAgentId,
  stables,         \* owner and active
  nextStableId,
  stableAgents,    \* stableId -> array of agents
  agentStable,     \* _agentStable
  agentIndex       \* _agentIndexInStable, from 1

arena == <<agents, nextAgentId>>
stable_vars == <<arena, stables, nextStableId, stableAgents, agentStable, agentIndex>>

StableInit ==
  /\ agents = [a \in AgentIds |->
                 [wallet |-> NoWallet, deregistered |-> FALSE, stableId |-> None]]
  /\ nextAgentId = 1
  /\ stables = [s \in StableIds |-> [owner |-> NoWallet, active |-> FALSE]]
  /\ nextStableId = 1
  /\ stableAgents = [s \in StableIds |-> <<>>]
  /\ agentStable = [a \in AgentIds |-> None]
  /\ agentIndex = [a \in AgentIds |-> None]

-----------------------------------------------------------------------------
(* ArenaRegistry                                                           *)

isActive(a) == agents[a].wallet # NoWallet /\ ~agents[a].deregistered

\* registerWithETH() and registerWithUSDC()
Register(w) ==
  /\ nextAgentId <= MaxRegistered
  /\ agents' = [agents EXCEPT ![nextAgentId].wallet = w]
  /\ nextAgentId' = nextAgentId + 1
  /\ UNCHANGED <<stables, nextStableId, stableAgents, agentStable, agentIndex>>

\* The record is kept, its stable too; StableRegistry is not told.
DeregisterAgent(w, a) ==
  /\ agents[a].wallet = w
  /\ ~agents[a].deregistered
  /\ agents' = [agents EXCEPT ![a].deregistered = TRUE]
  /\ UNCHANGED <<nextAgentId, stables, nextStableId, stableAgents, agentStable, agentIndex>>

\* The record of the agent after setStable().
setStable(a, s) == [agents EXCEPT ![a].stableId = s]

-----------------------------------------------------------------------------
(* StableRegistry                                                          *)

CreateStable(w) ==
  /\ nextStableId <= MaxStables
  /\ stables' = [stables EXCEPT ![nextStableId] = [owner |-> w, active |-> TRUE]]
  /\ nextStableId' = nextStableId + 1
  /\ UNCHANGED <<arena, stableAgents, agentStable, agentIndex>>

DeactivateStable(w, s) ==
  /\ stables[s].owner = w
  /\ stables[s].active
  /\ stables' = [stables EXCEPT ![s].active = FALSE]
  /\ UNCHANGED <<arena, nextStableId, stableAgents, agentStable, agentIndex>>

LinkAgent(w, s, a) ==
  /\ stables[s].active
  /\ stables[s].owner = w
  /\ isActive(a)
  /\ agents[a].wallet = w
  /\ agentStable[a] = None
  /\ stableAgents' = [stableAgents EXCEPT ![s] = Append(@, a)]
  /\ agentIndex' = [agentIndex EXCEPT ![a] = Len(stableAgents[s]) + 1]
  /\ agentStable' = [agentStable EXCEPT ![a] = s]
  /\ agents' = setStable(a, s)
  /\ UNCHANGED <<nextAgentId, stables, nextStableId>>

\* The array without its element idx, whose place the last element takes.
SwapAndPop(array, idx) ==
  SubSeq([array EXCEPT ![idx] = array[Len(array)]], 1, Len(array) - 1)

(* Mutant of ReindexMoved: the agent that moves keeps its old index.       *)
ReindexNobody(array, idx) == agentIndex

\* The places after SwapAndPop(array, idx), but for the removed agent's.
ReindexMoved(array, idx) == [agentIndex EXCEPT ![array[Len(array)]] = idx]

\* A deregistered agent's record can no longer be written.
UnlinkAgent(w, s, a) ==
  /\ stables[s].owner = w
  /\ agentStable[a] = s
  /\ stableAgents' = [stableAgents EXCEPT ![s] = SwapAndPop(@, agentIndex[a])]
  /\ agentIndex' = [ReindexMoved(stableAgents[s], agentIndex[a]) EXCEPT ![a] = None]
  /\ agentStable' = [agentStable EXCEPT ![a] = None]
  /\ agents' = IF isActive(a) THEN setStable(a, None) ELSE agents
  /\ UNCHANGED <<nextAgentId, stables, nextStableId>>

StableNext ==
  \E w \in Wallets :
    \/ Register(w) \/ CreateStable(w)
    \/ \E a \in AgentIds : DeregisterAgent(w, a)
    \/ \E s \in StableIds :
         \/ DeactivateStable(w, s)
         \/ \E a \in AgentIds : LinkAgent(w, s, a) \/ UnlinkAgent(w, s, a)

StableSpec == StableInit /\ [][StableNext]_stable_vars

-----------------------------------------------------------------------------
(* Types of the state variables; the records hold only known wallets.      *)
StableTypeOK ==
  /\ agents \in [AgentIds -> [wallet : Wallets \cup {NoWallet}, deregistered : BOOLEAN,
                              stableId : StableIds \cup {None}]]
  /\ stables \in [StableIds -> [owner : Wallets \cup {NoWallet}, active : BOOLEAN]]
  /\ nextAgentId \in Nat /\ nextStableId \in Nat
  /\ stableAgents \in [StableIds -> Seq(AgentIds)]
  /\ agentStable \in [AgentIds -> StableIds \cup {None}]
  /\ agentIndex \in [AgentIds -> Nat]

(* Every element of a stable's array belongs to it and knows its place.    *)
ArrayKnowsItsAgents ==
  \A s \in StableIds : \A i \in DOMAIN stableAgents[s] :
    /\ agentStable[stableAgents[s][i]] = s
    /\ agentIndex[stableAgents[s][i]] = i

(* Every agent in a stable is in the stable's array, at its place.         *)
AgentsKnowTheirPlace ==
  \A a \in AgentIds : agentStable[a] # None =>
    /\ agentIndex[a] \in DOMAIN stableAgents[agentStable[a]]
    /\ stableAgents[agentStable[a]][agentIndex[a]] = a

(* The record of an agent that can still win names the stable that lists   *)
(* it, and the cut finalize() takes from its prize goes to its own wallet. *)
RecordsAgree ==
  \A a \in AgentIds :
    /\ isActive(a) => agents[a].stableId = agentStable[a]
    /\ agentStable[a] # None => stables[agentStable[a]].owner = agents[a].wallet

(* Numbers not given out yet belong to nobody.                             *)
FreshIds ==
  /\ \A a \in AgentIds : a >= nextAgentId => agents[a].wallet = NoWallet
  /\ \A a \in AgentIds : agents[a].wallet = NoWallet =>
       ~agents[a].deregistered /\ agents[a].stableId = None /\ agentStable[a] = None
  /\ \A a \in AgentIds : agentStable[a] # None => agentStable[a] < nextStableId
  /\ \A s \in StableIds : s >= nextStableId => ~stables[s].active

(* The four copies of the memberships agree after any sequence of links,   *)
(* unlinks, deregistrations and deactivations, and stables only hold       *)
(* agents of their own owner (StableRegistry.sol, _removeAgentFromStable). *)
MembershipAgrees == ArrayKnowsItsAgents /\ AgentsKnowTheirPlace /\ RecordsAgree
=============================================================================
