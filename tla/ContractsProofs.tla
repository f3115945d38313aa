--------------------------- MODULE ContractsProofs ---------------------------
(***************************************************************************)
(* Proofs about the contracts around a round: the registry of the stables, *)
(* the marketplace, the arbitration of disputes and the seasons.           *)
(***************************************************************************)
EXTENDS StableRegistry, BountyMarketplace, ArbitrationDAO, SeasonManager, SumTheorems

-----------------------------------------------------------------------------
(***************************************************************************)
(* The copies of a membership agree in every reachable state of            *)
(* StableRegistry, for every number of wallets, agents and stables.  The   *)
(* inductive invariant adds to MembershipAgrees the types and FreshIds: a  *)
(* number that is given out later must not be the stable, or the record,   *)
(* of anybody yet.                                                         *)
(***************************************************************************)
Memberships == StableTypeOK /\ MembershipAgrees /\ FreshIds

(* The type of an agent's record; the mapping changes one field at a time. *)
AgentRecord == [wallet : Wallets \cup {NoWallet}, deregistered : BOOLEAN,
                stableId : StableIds \cup {None}]

-----------------------------------------------------------------------------
(* What the swap-and-pop of _removeAgentFromStable leaves: one element     *)
(* less, and the last one where the removed one was.                       *)
LEMMA SwapAndPopElements ==
  ASSUME NEW S, NEW array \in Seq(S), NEW idx \in DOMAIN array
  PROVE  /\ SwapAndPop(array, idx) \in Seq(S)
         /\ DOMAIN SwapAndPop(array, idx) = 1 .. Len(array) - 1
         /\ \A i \in 1 .. Len(array) - 1 :
              SwapAndPop(array, idx)[i] = IF i = idx THEN array[Len(array)] ELSE array[i]
<1> DEFINE moved == [array EXCEPT ![idx] = array[Len(array)]]
<1>1. Len(array) \in Nat \ {0} /\ DOMAIN array = 1 .. Len(array)
  OBVIOUS
<1>2. moved \in Seq(S) /\ Len(moved) = Len(array)
  BY <1>1
<1>3. \A i \in 1 .. Len(array) : moved[i] = IF i = idx THEN array[Len(array)] ELSE array[i]
  BY <1>1
<1>4. /\ SubSeq(moved, 1, Len(array) - 1) \in Seq(S)
      /\ Len(SubSeq(moved, 1, Len(array) - 1)) = Len(array) - 1
      /\ \A i \in 1 .. Len(array) - 1 : SubSeq(moved, 1, Len(array) - 1)[i] = moved[i]
  BY <1>1, <1>2
<1> HIDE DEF moved
<1>5. SwapAndPop(array, idx) = SubSeq(moved, 1, Len(array) - 1)
  BY DEF SwapAndPop, moved
<1> QED
  BY <1>1, <1>3, <1>4, <1>5

-----------------------------------------------------------------------------
(* At the start nobody belongs to anything (initialize()).                 *)
LEMMA InitMemberships == StableInit => Memberships
BY RegistryAssumption
   DEF StableInit, Memberships, MembershipAgrees, StableTypeOK, ArrayKnowsItsAgents, AgentsKnowTheirPlace,
       RecordsAgree, FreshIds, isActive, AgentIds, StableIds, None

(* Registrations give out a number nobody has (_createAgent).              *)
LEMMA RegisterKeeps ==
  ASSUME Memberships, NEW w \in Wallets, Register(w)
  PROVE  Memberships'
<1> USE DEF AgentIds, StableIds, None
<1>1. StableTypeOK'
  <2>1. ASSUME NEW a \in AgentIds
        PROVE  agents'[a] \in AgentRecord
    <3>1. agents[a] \in AgentRecord
      BY DEF Memberships, StableTypeOK, AgentRecord
    <3>2. agents'[a] = agents[a] \/ agents'[a] = [agents[a] EXCEPT !.wallet = w]
      BY DEF Memberships, StableTypeOK, Register
    <3> QED
      BY <3>1, <3>2 DEF AgentRecord
  <2>2. agents' = [a \in AgentIds |-> agents'[a]]
    BY DEF Memberships, StableTypeOK, Register
  <2>3. agents' \in [AgentIds -> AgentRecord]
    BY <2>1, <2>2
  <2> QED
    BY <2>3 DEF Memberships, StableTypeOK, Register, AgentRecord
<1>2. ArrayKnowsItsAgents' /\ AgentsKnowTheirPlace'
  BY DEF Memberships, MembershipAgrees, Register, ArrayKnowsItsAgents, AgentsKnowTheirPlace
<1>3. ASSUME NEW a \in AgentIds
      PROVE  /\ agents'[a].deregistered = agents[a].deregistered
             /\ agents'[a].stableId = agents[a].stableId
             /\ agents'[a].wallet = IF a = nextAgentId THEN w ELSE agents[a].wallet
             /\ a >= nextAgentId => agents[a].wallet = NoWallet
  BY DEF Memberships, StableTypeOK, FreshIds, Register
<1>4. RecordsAgree'
  BY <1>3 DEF Memberships, MembershipAgrees, StableTypeOK, RecordsAgree, FreshIds, isActive, Register
<1>5. FreshIds'
  BY <1>3, RegistryAssumption DEF Memberships, StableTypeOK, FreshIds, Register
<1> QED
  BY <1>1, <1>2, <1>4, <1>5 DEF Memberships, MembershipAgrees

(* A deregistered agent keeps its record and its place (deregister()).     *)
LEMMA DeregisterKeeps ==
  ASSUME Memberships, NEW w \in Wallets, NEW a \in AgentIds, DeregisterAgent(w, a)
  PROVE  Memberships'
<1> USE DEF AgentIds, StableIds, None
<1>1. StableTypeOK'
  BY ZenonT(30) DEF Memberships, StableTypeOK, DeregisterAgent
<1>2. ArrayKnowsItsAgents' /\ AgentsKnowTheirPlace'
  BY DEF Memberships, MembershipAgrees, DeregisterAgent, ArrayKnowsItsAgents, AgentsKnowTheirPlace
<1>3. ASSUME NEW b \in AgentIds
      PROVE  /\ agents'[b].wallet = agents[b].wallet
             /\ agents'[b].stableId = agents[b].stableId
             /\ agents'[b].deregistered = (b = a \/ agents[b].deregistered)
  BY DEF Memberships, StableTypeOK, DeregisterAgent
<1>4. RecordsAgree'
  BY <1>3 DEF Memberships, MembershipAgrees, StableTypeOK, RecordsAgree, isActive, DeregisterAgent
<1>5. FreshIds'
  BY <1>3, RegistryAssumption DEF Memberships, StableTypeOK, FreshIds, DeregisterAgent
<1> QED
  BY <1>1, <1>2, <1>4, <1>5 DEF Memberships, MembershipAgrees

(* A new stable takes a number no agent names (createStable()).            *)
LEMMA CreateStableKeeps ==
  ASSUME Memberships, NEW w \in Wallets, CreateStable(w)
  PROVE  Memberships'
<1> USE DEF AgentIds, StableIds, None
<1>1. StableTypeOK'
  <2>1. stables' \in [StableIds -> [owner : Wallets \cup {NoWallet}, active : BOOLEAN]]
    BY DEF Memberships, StableTypeOK, CreateStable
  <2>2. nextStableId' \in Nat
    BY DEF Memberships, StableTypeOK, CreateStable
  <2> QED
    BY <2>1, <2>2 DEF Memberships, StableTypeOK, CreateStable, arena
<1>2. ArrayKnowsItsAgents' /\ AgentsKnowTheirPlace'
  BY DEF Memberships, MembershipAgrees, CreateStable, ArrayKnowsItsAgents, AgentsKnowTheirPlace
<1>3. \A s \in StableIds : s # nextStableId => stables'[s] = stables[s]
  BY DEF Memberships, StableTypeOK, CreateStable
<1>4. RecordsAgree'
  BY <1>3 DEF Memberships, MembershipAgrees, StableTypeOK, RecordsAgree, FreshIds, isActive,
              CreateStable, arena
<1>5. FreshIds'
  BY <1>3 DEF Memberships, StableTypeOK, FreshIds, CreateStable, arena
<1> QED
  BY <1>1, <1>2, <1>4, <1>5 DEF Memberships, MembershipAgrees

(* Deactivation changes neither owner nor members (deactivateStable()).    *)
LEMMA DeactivateStableKeeps ==
  ASSUME Memberships, NEW w \in Wallets, NEW s \in StableIds, DeactivateStable(w, s)
  PROVE  Memberships'
<1> USE DEF AgentIds, StableIds, None
<1>1. StableTypeOK'
  BY DEF Memberships, StableTypeOK, DeactivateStable, arena
<1>2. ArrayKnowsItsAgents' /\ AgentsKnowTheirPlace'
  BY DEF Memberships, MembershipAgrees, DeactivateStable, ArrayKnowsItsAgents,
         AgentsKnowTheirPlace
<1>3. \A t \in StableIds : /\ stables'[t].owner = stables[t].owner
                           /\ stables'[t].active => stables[t].active
  BY DEF Memberships, StableTypeOK, DeactivateStable
<1>4. RecordsAgree'
  BY <1>3 DEF Memberships, MembershipAgrees, StableTypeOK, RecordsAgree, isActive, DeactivateStable,
              arena
<1>5. FreshIds'
  BY <1>3 DEF Memberships, StableTypeOK, FreshIds, DeactivateStable, arena
<1> QED
  BY <1>1, <1>2, <1>4, <1>5 DEF Memberships, MembershipAgrees

(* The agent joins at the end of the array (linkAgent()).                  *)
LEMMA LinkAgentKeeps ==
  ASSUME Memberships, NEW w \in Wallets, NEW s \in StableIds, NEW a \in AgentIds,
         LinkAgent(w, s, a)
  PROVE  Memberships'
<1> DEFINE old == stableAgents[s]
           new == Append(old, a)
<1>1. /\ old \in Seq(AgentIds) /\ new \in Seq(AgentIds)
      /\ DOMAIN old = 1 .. Len(old) /\ DOMAIN new = 1 .. Len(old) + 1 /\ Len(old) \in Nat
      /\ \A i \in DOMAIN old : new[i] = old[i]
      /\ new[Len(old) + 1] = a
  BY DEF Memberships, StableTypeOK
<1> HIDE DEF new
<1>2. /\ stableAgents' = [stableAgents EXCEPT ![s] = new]
      /\ agentIndex' = [agentIndex EXCEPT ![a] = Len(old) + 1]
      /\ agentStable' = [agentStable EXCEPT ![a] = s]
      /\ agents' = [agents EXCEPT ![a].stableId = s]
      /\ agentStable[a] = None /\ stables' = stables
      /\ nextAgentId' = nextAgentId /\ nextStableId' = nextStableId
      /\ isActive(a) /\ agents[a].wallet = w /\ stables[s].owner = w /\ stables[s].active
  BY DEF LinkAgent, setStable, new
<1>3. StableTypeOK'
  <2>1. stableAgents' \in [StableIds -> Seq(AgentIds)]
    BY <1>1, <1>2 DEF Memberships, StableTypeOK
  <2>2. agents' \in [AgentIds -> AgentRecord]
    <3>1. agents \in [AgentIds -> AgentRecord]
      BY DEF Memberships, StableTypeOK, AgentRecord
    <3>2. [agents[a] EXCEPT !.stableId = s] \in AgentRecord
      BY <3>1 DEF AgentRecord
    <3> QED
      BY <1>2, <3>1, <3>2
  <2>3. agentStable' \in [AgentIds -> StableIds \cup {None}]
    BY <1>2 DEF Memberships, StableTypeOK
  <2>4. Len(old) + 1 \in Nat
    BY <1>1
  <2>5. agentIndex' \in [AgentIds -> Nat]
    BY <1>2, <2>4 DEF Memberships, StableTypeOK
  <2> QED
    BY <1>2, <2>1, <2>2, <2>3, <2>5 DEF Memberships, StableTypeOK, AgentRecord
<1>4. ArrayKnowsItsAgents'
  <2> SUFFICES ASSUME NEW t \in StableIds, NEW i \in DOMAIN stableAgents'[t]
               PROVE  /\ agentStable'[stableAgents'[t][i]] = t
                      /\ agentIndex'[stableAgents'[t][i]] = i
    BY DEF ArrayKnowsItsAgents
  <2>1. CASE t = s /\ i = Len(old) + 1
    BY <1>1, <1>2, <2>1 DEF Memberships, StableTypeOK
  <2>2. CASE ~(t = s /\ i = Len(old) + 1)
    <3>1. i \in DOMAIN stableAgents[t] /\ stableAgents'[t][i] = stableAgents[t][i]
      BY <1>1, <1>2, <2>2 DEF Memberships, StableTypeOK
    <3>2. /\ agentStable[stableAgents[t][i]] = t /\ agentIndex[stableAgents[t][i]] = i
          /\ stableAgents[t][i] \in AgentIds
      BY <3>1 DEF Memberships, MembershipAgrees, ArrayKnowsItsAgents, StableTypeOK
    <3>3. stableAgents[t][i] # a
      BY <1>2, <3>2 DEF None, StableIds
    <3> QED
      BY <1>2, <3>1, <3>2, <3>3 DEF Memberships, StableTypeOK
  <2> QED
    BY <2>1, <2>2
<1>5. AgentsKnowTheirPlace'
  <2> SUFFICES ASSUME NEW b \in AgentIds, agentStable'[b] # None
               PROVE  /\ agentIndex'[b] \in DOMAIN stableAgents'[agentStable'[b]]
                      /\ stableAgents'[agentStable'[b]][agentIndex'[b]] = b
    BY DEF AgentsKnowTheirPlace
  <2>1. CASE b = a
    BY <1>1, <1>2, <2>1 DEF Memberships, StableTypeOK
  <2>2. CASE b # a
    <3>1. agentStable'[b] = agentStable[b] /\ agentIndex'[b] = agentIndex[b]
      BY <1>2, <2>2 DEF Memberships, StableTypeOK
    <3>2. /\ agentStable[b] \in StableIds
          /\ agentIndex[b] \in DOMAIN stableAgents[agentStable[b]]
          /\ stableAgents[agentStable[b]][agentIndex[b]] = b
      BY <3>1 DEF Memberships, MembershipAgrees, AgentsKnowTheirPlace, StableTypeOK
    <3> QED
      BY SMTT(60), <1>1, <1>2, <3>1, <3>2 DEF Memberships, StableTypeOK
  <2> QED
    BY <2>1, <2>2
<1>6. ASSUME NEW b \in AgentIds
      PROVE  /\ agents'[b].wallet = agents[b].wallet
             /\ agents'[b].deregistered = agents[b].deregistered
             /\ agents'[b].stableId = IF b = a THEN s ELSE agents[b].stableId
             /\ agentStable'[b] = IF b = a THEN s ELSE agentStable[b]
  BY <1>2 DEF Memberships, StableTypeOK
<1>7. RecordsAgree'
  BY <1>2, <1>6 DEF Memberships, MembershipAgrees, RecordsAgree, isActive
<1>8. FreshIds'
  <2>1. s < nextStableId
    BY <1>2 DEF Memberships, FreshIds, StableTypeOK, StableIds
  <2> QED
    BY <1>2, <1>6, <2>1 DEF Memberships, FreshIds, isActive
<1> QED
  BY <1>3, <1>4, <1>5, <1>7, <1>8 DEF Memberships, MembershipAgrees

(* The last agent of the array takes the place of the one that leaves, and *)
(* is told so (unlinkAgent(), _removeAgentFromStable()).                   *)
LEMMA UnlinkAgentKeeps ==
  ASSUME Memberships, NEW w \in Wallets, NEW s \in StableIds, NEW a \in AgentIds,
         UnlinkAgent(w, s, a)
  PROVE  Memberships'
<1> DEFINE old  == stableAgents[s]
           idx  == agentIndex[a]
           last == old[Len(old)]
           new  == SwapAndPop(old, idx)
<1>1. /\ old \in Seq(AgentIds) /\ idx \in DOMAIN old /\ old[idx] = a
      /\ DOMAIN old = 1 .. Len(old) /\ Len(old) \in Nat \ {0}
      /\ last \in AgentIds /\ agentStable[last] = s /\ agentIndex[last] = Len(old)
      /\ agentStable[a] = s
  <2>1. agentStable[a] = s /\ s # None
    BY DEF UnlinkAgent, StableIds, None
  <2>2. old \in Seq(AgentIds) /\ idx \in DOMAIN old /\ old[idx] = a
    BY <2>1 DEF Memberships, MembershipAgrees, AgentsKnowTheirPlace, StableTypeOK
  <2>3. DOMAIN old = 1 .. Len(old) /\ Len(old) \in Nat \ {0}
    BY <2>2
  <2>4. Len(old) \in DOMAIN old /\ last \in AgentIds
    BY <2>2, <2>3
  <2>5. agentStable[last] = s /\ agentIndex[last] = Len(old)
    BY <2>4 DEF Memberships, MembershipAgrees, ArrayKnowsItsAgents
  <2> QED
    BY <2>1, <2>2, <2>3, <2>4, <2>5
<1>2. /\ new \in Seq(AgentIds)
      /\ DOMAIN new = 1 .. Len(old) - 1
      /\ \A i \in 1 .. Len(old) - 1 : new[i] = IF i = idx THEN last ELSE old[i]
  BY <1>1, SwapAndPopElements
<1> HIDE DEF new
<1>3. /\ stableAgents' = [stableAgents EXCEPT ![s] = new]
      /\ agentIndex' = [[agentIndex EXCEPT ![last] = idx] EXCEPT ![a] = None]
      /\ agentStable' = [agentStable EXCEPT ![a] = None]
      /\ stables' = stables /\ nextAgentId' = nextAgentId /\ nextStableId' = nextStableId
      /\ agents' = IF isActive(a) THEN [agents EXCEPT ![a].stableId = None] ELSE agents
  BY DEF UnlinkAgent, ReindexMoved, setStable, new
<1>4. ASSUME NEW b \in AgentIds
      PROVE  /\ agentIndex'[b] = IF b = a THEN None ELSE IF b = last THEN idx ELSE agentIndex[b]
             /\ agentStable'[b] = IF b = a THEN None ELSE agentStable[b]
             /\ agents'[b].wallet = agents[b].wallet
             /\ agents'[b].deregistered = agents[b].deregistered
             /\ b # a => agents'[b].stableId = agents[b].stableId
             /\ isActive(a) => agents'[a].stableId = None
  BY <1>1, <1>3 DEF Memberships, StableTypeOK
<1>5. StableTypeOK'
  <2>1. stableAgents' \in [StableIds -> Seq(AgentIds)]
    BY <1>2, <1>3 DEF Memberships, StableTypeOK
  <2>2. agentStable' \in [AgentIds -> StableIds \cup {None}]
    BY <1>3 DEF Memberships, StableTypeOK
  <2>3. idx \in Nat /\ None \in Nat
    BY <1>1 DEF None
  <2>4. agentIndex' \in [AgentIds -> Nat]
    BY <1>1, <1>3, <2>3 DEF Memberships, StableTypeOK
  <2>5. agents' \in [AgentIds -> AgentRecord]
    BY ZenonT(30), <1>3 DEF Memberships, StableTypeOK, AgentRecord
  <2> QED
    BY <1>3, <2>1, <2>2, <2>4, <2>5 DEF Memberships, StableTypeOK, AgentRecord
<1>6. ArrayKnowsItsAgents'
  <2> SUFFICES ASSUME NEW t \in StableIds, NEW i \in DOMAIN stableAgents'[t]
               PROVE  /\ agentStable'[stableAgents'[t][i]] = t
                      /\ agentIndex'[stableAgents'[t][i]] = i
    BY DEF ArrayKnowsItsAgents
  <2>1. CASE t = s
    <3>1. i \in 1 .. Len(old) - 1 /\ stableAgents'[t][i] = IF i = idx THEN last ELSE old[i]
      BY <1>2, <1>3, <2>1 DEF Memberships, StableTypeOK
    <3>2. CASE i = idx
      <4>1. last # a
        BY <1>1, <3>1, <3>2
      <4> QED
        BY <1>1, <1>4, <2>1, <3>1, <3>2, <4>1
    <3>3. CASE i # idx
      <4>1. i \in DOMAIN old /\ old[i] \in AgentIds
        BY <1>1, <3>1
      <4>2. agentStable[old[i]] = s /\ agentIndex[old[i]] = i
        BY <4>1 DEF Memberships, MembershipAgrees, ArrayKnowsItsAgents
      <4>3. old[i] # a /\ old[i] # last
        BY <1>1, <3>1, <3>3, <4>2
      <4> QED
        BY <1>4, <2>1, <3>1, <3>3, <4>1, <4>2, <4>3
    <3> QED
      BY <3>2, <3>3
  <2>2. CASE t # s
    <3>1. stableAgents'[t] = stableAgents[t]
      BY <1>3, <2>2 DEF Memberships, StableTypeOK
    <3>2. /\ agentStable[stableAgents[t][i]] = t /\ agentIndex[stableAgents[t][i]] = i
          /\ stableAgents[t][i] \in AgentIds
      BY <3>1 DEF Memberships, MembershipAgrees, ArrayKnowsItsAgents, StableTypeOK
    <3>3. stableAgents[t][i] # a /\ stableAgents[t][i] # last
      BY <1>1, <2>2, <3>2
    <3> QED
      BY <1>4, <3>1, <3>2, <3>3
  <2> QED
    BY <2>1, <2>2
<1>7. AgentsKnowTheirPlace'
  <2> SUFFICES ASSUME NEW b \in AgentIds, agentStable'[b] # None
               PROVE  /\ agentIndex'[b] \in DOMAIN stableAgents'[agentStable'[b]]
                      /\ stableAgents'[agentStable'[b]][agentIndex'[b]] = b
    BY DEF AgentsKnowTheirPlace
  <2>1. b # a /\ agentStable'[b] = agentStable[b]
    BY <1>4
  <2>2. /\ agentStable[b] \in StableIds
        /\ agentIndex[b] \in DOMAIN stableAgents[agentStable[b]]
        /\ stableAgents[agentStable[b]][agentIndex[b]] = b
    BY <2>1 DEF Memberships, MembershipAgrees, AgentsKnowTheirPlace, StableTypeOK
  <2>3. CASE agentStable[b] = s /\ b = last
    <3>1. agentIndex'[b] = idx
      BY <1>4, <2>1, <2>3
    <3>2. idx # Len(old)
      BY <1>1, <2>1, <2>3
    <3>3. stableAgents'[s] = new
      BY <1>3 DEF Memberships, StableTypeOK
    <3> QED
      BY <1>1, <1>2, <2>1, <2>3, <3>1, <3>2, <3>3
  <2>4. CASE agentStable[b] = s /\ b # last
    <3>1. agentIndex'[b] = agentIndex[b] /\ agentIndex[b] \in 1 .. Len(old)
      BY <1>1, <1>4, <2>1, <2>2, <2>4
    <3>2. agentIndex[b] # Len(old) /\ agentIndex[b] # idx
      BY <1>1, <2>1, <2>2, <2>4
    <3>3. stableAgents'[s] = new
      BY <1>3 DEF Memberships, StableTypeOK
    <3> QED
      BY <1>1, <1>2, <2>1, <2>2, <2>4, <3>1, <3>2, <3>3
  <2>5. CASE agentStable[b] # s
    <3>1. agentIndex'[b] = agentIndex[b]
      BY <1>1, <1>4, <2>1, <2>5
    <3>2. stableAgents'[agentStable[b]] = stableAgents[agentStable[b]]
      BY <1>3, <2>2, <2>5 DEF Memberships, StableTypeOK
    <3> QED
      BY <2>1, <2>2, <3>1, <3>2
  <2> QED
    BY <2>3, <2>4, <2>5
<1>8. RecordsAgree'
  BY <1>3, <1>4 DEF Memberships, MembershipAgrees, RecordsAgree, isActive
<1>9. FreshIds'
  <2>1. agents[a].wallet # NoWallet
    BY <1>1 DEF Memberships, FreshIds, StableIds, None
  <2> QED
    BY <1>3, <1>4, <2>1 DEF Memberships, FreshIds
<1> QED
  BY <1>5, <1>6, <1>7, <1>8, <1>9 DEF Memberships, MembershipAgrees

-----------------------------------------------------------------------------
(* The inductive invariant holds in every reachable state (all             *)
(* transactions of StableRegistry and the registry calls beside them).     *)
THEOREM Invariance == StableSpec => []Memberships
<1>1. StableInit => Memberships
  BY InitMemberships
<1>2. Memberships /\ [StableNext]_stable_vars => Memberships'
  <2> SUFFICES ASSUME Memberships, [StableNext]_stable_vars
               PROVE  Memberships'
    OBVIOUS
  <2>1. CASE UNCHANGED stable_vars
    BY <2>1 DEF stable_vars, arena, Memberships, MembershipAgrees, StableTypeOK, ArrayKnowsItsAgents,
                AgentsKnowTheirPlace, RecordsAgree, FreshIds, isActive
  <2>2. CASE \E w \in Wallets : Register(w)
    BY <2>2, RegisterKeeps
  <2>3. CASE \E w \in Wallets : CreateStable(w)
    BY <2>3, CreateStableKeeps
  <2>4. CASE \E w \in Wallets, a \in AgentIds : DeregisterAgent(w, a)
    BY <2>4, DeregisterKeeps
  <2>5. CASE \E w \in Wallets, s \in StableIds : DeactivateStable(w, s)
    BY <2>5, DeactivateStableKeeps
  <2>6. CASE \E w \in Wallets, s \in StableIds, a \in AgentIds : LinkAgent(w, s, a)
    BY <2>6, LinkAgentKeeps
  <2>7. CASE \E w \in Wallets, s \in StableIds, a \in AgentIds : UnlinkAgent(w, s, a)
    BY <2>7, UnlinkAgentKeeps
  <2> QED
    BY <2>1, <2>2, <2>3, <2>4, <2>5, <2>6, <2>7 DEF StableNext
<1> QED
  BY <1>1, <1>2, PTL DEF StableSpec

(* The four copies of a membership agree, for any number of wallets,       *)
(* agents and stables and after any sequence of calls (StableRegistry.sol, *)
(* linkAgent and _removeAgentFromStable).                                  *)
THEOREM MembershipsAlwaysAgree == StableSpec => []MembershipAgrees
<1>1. Memberships => MembershipAgrees
  BY DEF Memberships
<1> QED
  BY <1>1, Invariance, PTL

-----------------------------------------------------------------------------
(***************************************************************************)
(* The marketplace holds to the wei what it owes, for every set of         *)
(* proposers and contributors, every amount, whoever refuses ETH, and any  *)
(* number of proposals.                                                    *)
(***************************************************************************)
Proposal ==
  [proposer : Proposers \cup {NoProposer}, fundingDeadline : Nat, terms : Terms \cup {{}},
   status : {"none", "FUNDING", "ACTIVE", "EXPIRED", "CANCELLED"},
   totalFunded : Nat, contributorCount : Nat]

Books == [Contributors -> Nat]

MarketTypeOK ==
  /\ block_time \in Nat /\ nextProposalId \in Nat \ {0} /\ cash \in Int
  /\ proposals \in [ProposalIds -> Proposal]
  /\ contributions \in [ProposalIds -> Books]

(* What a proposal in use asks for, and that the numbers not given out yet *)
(* are untouched: a proposal that is made starts with empty books.         *)
TermsMet ==
  \A p \in ProposalIds : proposals[p].status = "FUNDING" =>
    proposals[p].terms \in Terms /\ proposals[p].terms.minContribution >= MIN_BOUNTY_DEPOSIT

FreshProposals ==
  \A p \in ProposalIds : p >= nextProposalId =>
    proposals[p] = NoProposal /\ \A c \in Contributors : contributions[p][c] = 0

(* The books of one proposal, and what is owed for it, as operators on its *)
(* two entries.                                                            *)
Raised(row) == SumFunctionOnSet(row, Contributors)
Givers(row) == {c \in Contributors : row[c] > 0}

BooksAgree(prop, row) ==
  prop.status = "FUNDING" =>
    prop.totalFunded = Raised(row) /\ prop.contributorCount = Cardinality(Givers(row))

Due(prop, row) ==
  IF prop.status = "FUNDING" THEN PROPOSAL_DEPOSIT + prop.totalFunded
  ELSE IF prop.status = "EXPIRED" THEN Raised(row) ELSE 0

dues == [p \in ProposalIds |-> Due(proposals[p], contributions[p])]

(* MarketBacked needs to be joined by the two facts above to be inductive. *)
MarketInv ==
  /\ MarketTypeOK /\ TermsMet /\ FreshProposals
  /\ \A p \in ProposalIds : BooksAgree(proposals[p], contributions[p])
  /\ cash = SumFunctionOnSet(dues, ProposalIds)

----------------------------------------------------------------------------
(* The books of one proposal                                               *)

LEMMA ProposalIdsFinite == IsFiniteSet(ProposalIds)
BY FS_Interval, MarketAssumption DEF ProposalIds

LEMMA TotalIsNat ==
  ASSUME NEW row \in Books
  PROVE  Raised(row) \in Nat
BY SumNat, MarketAssumption DEF Raised, Books

LEMMA DueIsInt ==
  ASSUME NEW prop \in Proposal, NEW row \in Books
  PROVE  Due(prop, row) \in Int
BY TotalIsNat, MarketAssumption DEF Due, Proposal

(* Writing one contribution changes the total by the difference.           *)
LEMMA TotalOfUpdate ==
  ASSUME NEW row \in Books, NEW c \in Contributors, NEW amount \in Nat
  PROVE  /\ [row EXCEPT ![c] = amount] \in Books
         /\ Raised([row EXCEPT ![c] = amount]) = Raised(row) - row[c] + amount
<1> DEFINE new == [row EXCEPT ![c] = amount]
<1>1. new \in Books
  BY DEF Books
<1>2. /\ \A x \in Contributors : row[x] \in Int
      /\ \A x \in Contributors : new[x] \in Int
      /\ \A x \in Contributors \ {c} : new[x] = row[x]
      /\ new[c] = amount
  BY <1>1 DEF Books
<1>3. IsFiniteSet(Contributors)
  BY MarketAssumption
<1> HIDE DEF new
<1>4. SumFunctionOnSet(new, Contributors)
        = SumFunctionOnSet(row, Contributors) - row[c] + new[c]
  BY <1>2, <1>3, SumUpdate
<1> QED
  BY <1>1, <1>2, <1>4 DEF Raised, new

(* A first contribution adds one contributor.                              *)
LEMMA OneMoreGiver ==
  ASSUME NEW row \in Books, NEW c \in Contributors, NEW amount \in Nat \ {0}, row[c] = 0
  PROVE  Cardinality(Givers([row EXCEPT ![c] = amount])) = Cardinality(Givers(row)) + 1
<1>1. Givers([row EXCEPT ![c] = amount]) = Givers(row) \cup {c}
  BY DEF Givers, Books
<1>2. c \notin Givers(row)
  BY DEF Givers
<1>3. IsFiniteSet(Givers(row))
  BY FS_Subset, MarketAssumption DEF Givers
<1> QED
  BY ZenonT(30), <1>1, <1>2, <1>3, FS_AddElement

(* Without contributors there is nothing in the books.                     *)
LEMMA NoGiversNoTotal ==
  ASSUME NEW row \in Books, Cardinality(Givers(row)) = 0
  PROVE  Raised(row) = 0
<1>1. IsFiniteSet(Givers(row))
  BY FS_Subset, MarketAssumption DEF Givers
<1>2. Givers(row) = {}
  BY <1>1, FS_EmptySet
<1>3. \A c \in Contributors : row[c] = 0
  BY <1>2 DEF Givers, Books
<1> QED
  BY <1>3, SumZero, MarketAssumption DEF Raised

LEMMA EmptyBooks ==
  ASSUME NEW row \in Books, \A c \in Contributors : row[c] = 0
  PROVE  Raised(row) = 0 /\ Cardinality(Givers(row)) = 0
<1>1. Givers(row) = {}
  BY DEF Givers
<1> QED
  BY <1>1, FS_EmptySet, SumZero, MarketAssumption DEF Raised

----------------------------------------------------------------------------
(* Money of one proposal is never taken for another: a transaction that    *)
(* touches one of them moves as much as what is owed for that one.         *)
LEMMA OnlyOneMoves ==
  ASSUME MarketInv, NEW p \in ProposalIds, NEW prop \in Proposal, NEW row \in Books,
         proposals' = [proposals EXCEPT ![p] = prop],
         contributions' = [contributions EXCEPT ![p] = row],
         cash' = cash - Due(proposals[p], contributions[p]) + Due(prop, row),
         BooksAgree(prop, row),
         prop.status = "FUNDING" =>
           prop.terms \in Terms /\ prop.terms.minContribution >= MIN_BOUNTY_DEPOSIT,
         block_time' \in Nat, nextProposalId' \in Nat \ {0}, nextProposalId' >= nextProposalId,
         p < nextProposalId'
  PROVE  MarketInv'
<1>1. /\ MarketTypeOK /\ TermsMet /\ FreshProposals
      /\ \A q \in ProposalIds : BooksAgree(proposals[q], contributions[q])
      /\ cash = SumFunctionOnSet(dues, ProposalIds)
  BY DEF MarketInv
<1>2. /\ proposals' \in [ProposalIds -> Proposal]
      /\ contributions' \in [ProposalIds -> Books]
      /\ proposals'[p] = prop /\ contributions'[p] = row
      /\ \A q \in ProposalIds \ {p} :
           proposals'[q] = proposals[q] /\ contributions'[q] = contributions[q]
  BY <1>1 DEF MarketTypeOK
<1>3. /\ \A q \in ProposalIds : dues[q] \in Int /\ dues'[q] \in Int
      /\ \A q \in ProposalIds \ {p} : dues'[q] = dues[q]
      /\ dues[p] = Due(proposals[p], contributions[p]) /\ dues'[p] = Due(prop, row)
  <2>1. dues' = [q \in ProposalIds |-> Due(proposals'[q], contributions'[q])]
    BY DEF dues, Due, ProposalIds
  <2> QED
    BY <1>1, <1>2, <2>1, DueIsInt DEF dues, MarketTypeOK
<1>4. SumFunctionOnSet(dues', ProposalIds)
        = SumFunctionOnSet(dues, ProposalIds) - dues[p] + dues'[p]
  BY <1>3, SumUpdate, ProposalIdsFinite
<1>5. MarketTypeOK'
  BY <1>1, <1>2, DueIsInt DEF MarketTypeOK
<1>6. TermsMet'
  BY <1>1, <1>2 DEF TermsMet
<1>7. FreshProposals'
  <2>1. \A q \in ProposalIds : q >= nextProposalId' => q # p /\ q >= nextProposalId
    BY <1>1, MarketAssumption DEF MarketTypeOK, ProposalIds
  <2> QED
    BY <1>1, <1>2, <2>1 DEF FreshProposals
<1>8. \A q \in ProposalIds : BooksAgree(proposals'[q], contributions'[q])
  BY <1>1, <1>2
<1>9. cash' = SumFunctionOnSet(dues', ProposalIds)
  BY <1>1, <1>3, <1>4
<1> QED
  BY <1>5, <1>6, <1>7, <1>8, <1>9 DEF MarketInv
----------------------------------------------------------------------------
(* One step per transaction                                                *)

LEMMA ProposeStep ==
  ASSUME MarketInv, NEW who \in Proposers, NEW t \in Terms, ProposeBounty(who, t)
  PROVE  MarketInv'
<1> DEFINE p == nextProposalId
           prop == [proposer |-> who, fundingDeadline |-> block_time + t.duration, terms |-> t,
                    status |-> "FUNDING", totalFunded |-> 0, contributorCount |-> 0]
           row == contributions[p]
<1>1. /\ MarketTypeOK /\ p \in ProposalIds /\ proposals[p] = NoProposal
      /\ row \in Books /\ \A c \in Contributors : row[c] = 0
  BY MarketAssumption
  DEF MarketInv, FreshProposals, MarketTypeOK, ProposeBounty, ProposalIds
<1>2. t \in TermsType
  BY MarketAssumption
<1>3. prop \in Proposal
  <2>1. block_time + t.duration \in Nat
    BY <1>1, <1>2 DEF TermsType, MarketTypeOK
  <2> QED
    BY <2>1 DEF Proposal
<1>4. /\ prop.status = "FUNDING" /\ prop.terms = t
      /\ prop.totalFunded = 0 /\ prop.contributorCount = 0
  OBVIOUS
<1>5. BooksAgree(prop, row)
  BY <1>1, <1>4, EmptyBooks DEF BooksAgree
<1>6. Due(proposals[p], row) = 0 /\ Due(prop, row) = PROPOSAL_DEPOSIT
  BY <1>1, <1>4, MarketAssumption DEF Due, NoProposal
<1>7. /\ proposals' = [proposals EXCEPT ![p] = prop]
      /\ nextProposalId' = p + 1 /\ cash' = cash + PROPOSAL_DEPOSIT
      /\ block_time' = block_time /\ contributions' = contributions
      /\ t.minContribution >= MIN_BOUNTY_DEPOSIT
  BY DEF ProposeBounty
<1>8. contributions' = [contributions EXCEPT ![p] = row]
  BY <1>1, <1>7 DEF MarketTypeOK
<1>9. /\ cash' = cash - Due(proposals[p], contributions[p]) + Due(prop, row)
      /\ block_time' \in Nat /\ nextProposalId' \in Nat \ {0}
      /\ nextProposalId' >= nextProposalId /\ p < nextProposalId'
  BY <1>1, <1>6, <1>7, MarketAssumption DEF MarketTypeOK
<1> HIDE DEF prop, row, p
<1> QED
  BY <1>1, <1>3, <1>4, <1>5, <1>7, <1>8, <1>9, OnlyOneMoves DEF row

(* What is known of a proposal that has a status.                          *)
LEMMA InUse ==
  ASSUME MarketInv, NEW p \in ProposalIds, proposals[p].status # "none"
  PROVE  /\ proposals[p] \in Proposal /\ contributions[p] \in Books
         /\ p < nextProposalId /\ nextProposalId \in Nat \ {0}
         /\ block_time \in Nat /\ cash \in Int
         /\ BooksAgree(proposals[p], contributions[p])
<1>1. proposals[p] # NoProposal
  BY DEF NoProposal
<1> QED
  BY <1>1, MarketAssumption DEF MarketInv, MarketTypeOK, FreshProposals, ProposalIds

LEMMA ContributeStep ==
  ASSUME MarketInv, NEW p \in ProposalIds, NEW c \in Contributors,
         NEW amount \in Contributions, Contribute(c, p, amount)
  PROVE  MarketInv'
<1> DEFINE old == proposals[p]
           row == [contributions[p] EXCEPT ![c] = amount]
           total == old.totalFunded + amount
           full == old.terms.fundingCap > 0 /\ total >= old.terms.fundingCap
           prop == [old EXCEPT !.totalFunded = total, !.contributorCount = @ + 1,
                               !.status = IF full THEN "ACTIVE" ELSE @]
<1>1. /\ old.status = "FUNDING" /\ contributions[p][c] = 0
      /\ amount >= old.terms.minContribution
      /\ contributions' = [contributions EXCEPT ![p][c] = amount]
      /\ proposals' = [proposals EXCEPT
           ![p].totalFunded = total,
           ![p].contributorCount = @ + 1,
           ![p].status = IF full THEN "ACTIVE" ELSE @]
      /\ full => cash' = (cash + amount) - total - PROPOSAL_DEPOSIT
      /\ ~full => cash' = cash + amount
      /\ block_time' = block_time /\ nextProposalId' = nextProposalId
  BY DEF Contribute, _activateBounty
<1>2. /\ old \in Proposal /\ contributions[p] \in Books
      /\ p < nextProposalId /\ nextProposalId \in Nat \ {0}
      /\ block_time \in Nat /\ cash \in Int
      /\ old.totalFunded = Raised(contributions[p])
      /\ old.contributorCount = Cardinality(Givers(contributions[p]))
  BY <1>1, InUse DEF BooksAgree
<1>3. /\ old.terms \in Terms /\ old.terms \in TermsType
      /\ old.terms.minContribution >= MIN_BOUNTY_DEPOSIT
  BY <1>1, MarketAssumption DEF MarketInv, TermsMet
<1>4. amount \in Nat \ {0}
  BY <1>1, <1>3, MarketAssumption DEF TermsType
<1>5. /\ row \in Books
      /\ Raised(row) = Raised(contributions[p]) + amount
      /\ Cardinality(Givers(row)) = Cardinality(Givers(contributions[p])) + 1
  BY <1>1, <1>2, <1>4, TotalOfUpdate, OneMoreGiver, TotalIsNat
<1>6. /\ total \in Nat /\ old.totalFunded \in Nat /\ old.contributorCount \in Nat
      /\ prop \in Proposal
      /\ prop.totalFunded = total /\ prop.contributorCount = old.contributorCount + 1
      /\ prop.terms = old.terms
      /\ prop.status = IF full THEN "ACTIVE" ELSE "FUNDING"
  <2>1. old.totalFunded \in Nat /\ old.contributorCount \in Nat /\ total \in Nat
    BY <1>2, <1>4 DEF Proposal
  <2> HIDE DEF total, full
  <2> DEFINE p1 == [old EXCEPT !.totalFunded = total]
             p2 == [p1 EXCEPT !.contributorCount = @ + 1]
             p3 == [p2 EXCEPT !.status = IF full THEN "ACTIVE" ELSE @]
  <2>2. /\ p1 \in Proposal /\ p1.totalFunded = total
        /\ p1.contributorCount = old.contributorCount
        /\ p1.status = old.status /\ p1.terms = old.terms
    BY <1>2, <2>1 DEF Proposal
  <2> HIDE DEF p1
  <2>3. /\ p2 \in Proposal /\ p2.totalFunded = total
        /\ p2.contributorCount = old.contributorCount + 1
        /\ p2.status = old.status /\ p2.terms = old.terms
    BY <2>1, <2>2 DEF Proposal
  <2> HIDE DEF p2
  <2>4. /\ p3 \in Proposal /\ p3.totalFunded = total
        /\ p3.contributorCount = old.contributorCount + 1 /\ p3.terms = old.terms
        /\ p3.status = IF full THEN "ACTIVE" ELSE old.status
    BY <2>3 DEF Proposal
  <2>5. prop = p3
    BY DEF p1, p2
  <2> QED
    BY <1>1, <2>1, <2>4, <2>5
<1>7. /\ proposals' = [proposals EXCEPT ![p] = prop]
      /\ contributions' = [contributions EXCEPT ![p] = row]
  BY <1>1, <1>2 DEF MarketInv, MarketTypeOK
<1>8. BooksAgree(prop, row)
  BY <1>2, <1>5, <1>6 DEF BooksAgree
<1>9. cash' = cash - Due(old, contributions[p]) + Due(prop, row)
  <2>1. Due(old, contributions[p]) = PROPOSAL_DEPOSIT + old.totalFunded
    BY <1>1 DEF Due
  <2>2. Due(prop, row) = IF full THEN 0 ELSE PROPOSAL_DEPOSIT + total
    BY <1>6 DEF Due
  <2> HIDE DEF full, prop, row
  <2> QED
    BY <1>1, <1>2, <1>4, <1>6, <2>1, <2>2, MarketAssumption
<1>10. /\ block_time' \in Nat /\ nextProposalId' \in Nat \ {0}
       /\ nextProposalId' >= nextProposalId /\ p < nextProposalId'
  BY <1>1, <1>2
<1> HIDE DEF prop, row, full, total
<1> QED
  BY <1>2, <1>3, <1>5, <1>6, <1>7, <1>8, <1>9, <1>10, OnlyOneMoves

(* A proposal that leaves the status of being funded, with its books as    *)
(* they are: by activation or by cancellation.                             *)
LEMMA LeavesStep ==
  ASSUME MarketInv, NEW p \in ProposalIds, NEW status \in {"ACTIVE", "CANCELLED"},
         proposals[p].status = "FUNDING",
         proposals' = [proposals EXCEPT ![p].status = status],
         cash' = cash - proposals[p].totalFunded - PROPOSAL_DEPOSIT,
         UNCHANGED <<block_time, nextProposalId, contributions>>
  PROVE  MarketInv'
<1> DEFINE prop == [proposals[p] EXCEPT !.status = status]
           row == contributions[p]
<1>1. /\ proposals[p] \in Proposal /\ row \in Books
      /\ p < nextProposalId /\ nextProposalId \in Nat \ {0}
      /\ block_time \in Nat /\ cash \in Int
  BY InUse
<1>2. prop \in Proposal /\ prop.status = status /\ proposals[p].totalFunded \in Nat
  BY <1>1 DEF Proposal
<1>3. /\ proposals' = [proposals EXCEPT ![p] = prop]
      /\ contributions' = [contributions EXCEPT ![p] = row]
  BY DEF MarketInv, MarketTypeOK
<1>4. BooksAgree(prop, row)
  BY <1>2 DEF BooksAgree
<1>5. cash' = cash - Due(proposals[p], contributions[p]) + Due(prop, row)
  <2>1. Due(proposals[p], contributions[p]) = PROPOSAL_DEPOSIT + proposals[p].totalFunded
    BY DEF Due
  <2>2. Due(prop, row) = 0
    BY <1>2 DEF Due
  <2> HIDE DEF prop, row
  <2> QED
    BY <1>1, <1>2, <2>1, <2>2, MarketAssumption
<1>6. prop.status # "FUNDING"
  BY <1>2
<1>7. /\ block_time' \in Nat /\ nextProposalId' \in Nat \ {0}
      /\ nextProposalId' >= nextProposalId /\ p < nextProposalId'
  BY <1>1
<1> HIDE DEF prop, row
<1> QED
  BY <1>1, <1>2, <1>3, <1>4, <1>5, <1>6, <1>7, OnlyOneMoves DEF row

LEMMA ActivateStep ==
  ASSUME MarketInv, NEW p \in ProposalIds, ActivateBounty(p)
  PROVE  MarketInv'
BY LeavesStep DEF ActivateBounty, _activateBounty

(* Nobody has contributed, so the deposit is all that is owed.             *)
LEMMA CancelStep ==
  ASSUME MarketInv, NEW who, NEW p \in ProposalIds, CancelProposal(who, p)
  PROVE  MarketInv'
<1>1. /\ proposals[p].status = "FUNDING" /\ proposals[p].contributorCount = 0
      /\ proposals' = [proposals EXCEPT ![p].status = "CANCELLED"]
      /\ cash' = cash - PROPOSAL_DEPOSIT
      /\ UNCHANGED <<block_time, nextProposalId, contributions>>
  BY DEF CancelProposal
<1>2. proposals[p].totalFunded = 0 /\ cash \in Int
  BY <1>1, InUse, NoGiversNoTotal DEF BooksAgree
<1>3. cash' = cash - proposals[p].totalFunded - PROPOSAL_DEPOSIT
  BY <1>1, <1>2, MarketAssumption
<1> QED
  BY <1>1, <1>3, LeavesStep

(* The first refund of a proposal pays its deposit out as well; from then  *)
(* on the books alone say what is owed.                                    *)
LEMMA RefundStep ==
  ASSUME MarketInv, NEW p \in ProposalIds, NEW c \in Contributors, ClaimRefund(c, p)
  PROVE  MarketInv'
<1> DEFINE prop == [proposals[p] EXCEPT !.status = "EXPIRED"]
           row == [contributions[p] EXCEPT ![c] = 0]
<1>1. /\ proposals[p].status \in {"FUNDING", "EXPIRED"}
      /\ proposals' = [proposals EXCEPT ![p].status = "EXPIRED"]
      /\ contributions' = [contributions EXCEPT ![p][c] = 0]
      /\ cash' = cash - Forfeit(p) - contributions[p][c]
      /\ UNCHANGED <<block_time, nextProposalId>>
  BY DEF ClaimRefund
<1>2. /\ proposals[p] \in Proposal /\ contributions[p] \in Books
      /\ p < nextProposalId /\ nextProposalId \in Nat \ {0}
      /\ block_time \in Nat /\ cash \in Int
      /\ BooksAgree(proposals[p], contributions[p])
  BY <1>1, InUse
<1>3. prop \in Proposal /\ prop.status = "EXPIRED"
  BY <1>2 DEF Proposal
<1>4. /\ row \in Books /\ contributions[p][c] \in Nat
      /\ Raised(contributions[p]) \in Nat
      /\ Raised(row) = Raised(contributions[p]) - contributions[p][c]
  <2>1. contributions[p][c] \in Nat /\ Raised(contributions[p]) \in Nat
    BY <1>2, TotalIsNat DEF Books
  <2>2. /\ row \in Books
        /\ Raised(row) = Raised(contributions[p]) - contributions[p][c] + 0
    BY <1>2, TotalOfUpdate
  <2> HIDE DEF row
  <2>3. \A x, y \in Nat : x - y + 0 = x - y
    OBVIOUS
  <2> QED
    BY <2>1, <2>2, <2>3
<1>5. /\ proposals' = [proposals EXCEPT ![p] = prop]
      /\ contributions' = [contributions EXCEPT ![p] = row]
  BY <1>1 DEF MarketInv, MarketTypeOK
<1>6. Due(proposals[p], contributions[p]) = Forfeit(p) + Raised(contributions[p])
  BY <1>1, <1>2, <1>4, MarketAssumption DEF Due, Forfeit, BooksAgree
<1>7. Due(prop, row) = Raised(row)
  BY <1>3 DEF Due
<1>8. cash' = cash - Due(proposals[p], contributions[p]) + Due(prop, row)
  <2>1. Forfeit(p) \in Int
    BY MarketAssumption DEF Forfeit
  <2> HIDE DEF prop, row
  <2> QED
    BY <1>1, <1>2, <1>4, <1>6, <1>7, <2>1
<1>9. BooksAgree(prop, row) /\ prop.status # "FUNDING"
  BY <1>3 DEF BooksAgree
<1>10. /\ block_time' \in Nat /\ nextProposalId' \in Nat \ {0}
       /\ nextProposalId' >= nextProposalId /\ p < nextProposalId'
  BY <1>1, <1>2
<1> HIDE DEF prop, row
<1> QED
  BY <1>3, <1>4, <1>5, <1>8, <1>9, <1>10, OnlyOneMoves

----------------------------------------------------------------------------
LEMMA MarketStep ==
  ASSUME MarketInv, [MarketNext]_market_vars
  PROVE  MarketInv'
<1>1. CASE BlockTime \/ UNCHANGED market_vars
  <2>1. /\ UNCHANGED <<nextProposalId, proposals, contributions, cash>>
        /\ block_time' = block_time \/ block_time' = block_time + 1
    BY <1>1 DEF BlockTime, market_vars
  <2>2. dues' = dues
    BY <2>1 DEF dues, Due, ProposalIds
  <2> QED
    BY <2>1, <2>2 DEF MarketInv, MarketTypeOK, TermsMet, FreshProposals, ProposalIds
<1>2. ASSUME NEW who \in Proposers, NEW t \in Terms, ProposeBounty(who, t)
      PROVE  MarketInv'
  BY <1>2, ProposeStep
<1>3. ASSUME NEW who \in Proposers, NEW p \in ProposalIds, CancelProposal(who, p)
      PROVE  MarketInv'
  BY <1>3, CancelStep
<1>4. ASSUME NEW p \in ProposalIds, ActivateBounty(p)
      PROVE  MarketInv'
  BY <1>4, ActivateStep
<1>5. ASSUME NEW p \in ProposalIds, NEW c \in Contributors, ClaimRefund(c, p)
      PROVE  MarketInv'
  BY <1>5, RefundStep
<1>6. ASSUME NEW p \in ProposalIds, NEW c \in Contributors, NEW amount \in Contributions,
             Contribute(c, p, amount)
      PROVE  MarketInv'
  BY <1>6, ContributeStep
<1> QED
  BY <1>1, <1>2, <1>3, <1>4, <1>5, <1>6 DEF MarketNext

LEMMA MarketStarts == MarketInit => MarketInv
<1> SUFFICES ASSUME MarketInit PROVE MarketInv
  OBVIOUS
<1>1. /\ block_time = 0 /\ nextProposalId = 1 /\ cash = 0
      /\ proposals = [p \in ProposalIds |-> NoProposal]
      /\ contributions = [p \in ProposalIds |-> [c \in Contributors |-> 0]]
  BY DEF MarketInit
<1>2. MarketTypeOK
  BY <1>1 DEF MarketTypeOK, Proposal, NoProposal, Books
<1>3. \A p \in ProposalIds : proposals[p].status = "none"
  BY <1>1 DEF NoProposal
<1>4. \A p \in ProposalIds : dues[p] = 0
  BY <1>3 DEF dues, Due
<1>5. SumFunctionOnSet(dues, ProposalIds) = 0
  BY <1>4, SumZero, ProposalIdsFinite
<1> QED
  BY <1>1, <1>2, <1>3, <1>5 DEF MarketInv, TermsMet, FreshProposals, BooksAgree

(* The invariant says what MarketBacked does.                              *)
LEMMA InvBacks == MarketInv => MarketBacked
<1> SUFFICES ASSUME MarketInv PROVE MarketBacked
  OBVIOUS
<1>1. ASSUME NEW p \in ProposalIds
      PROVE  SumFunction(contributions[p]) = Raised(contributions[p])
  <2>1. DOMAIN contributions[p] = Contributors
    BY DEF MarketInv, MarketTypeOK, Books
  <2> QED
    BY <2>1 DEF SumFunction, Raised
<1>2. \A p \in ProposalIds : Owed(p) = Due(proposals[p], contributions[p])
  BY <1>1 DEF Owed, Due
<1>3. [p \in ProposalIds |-> Owed(p)] = dues
  BY <1>2 DEF dues
<1>4. SumFunction(dues) = SumFunctionOnSet(dues, ProposalIds)
  BY DEF SumFunction, dues
<1> QED
  BY <1>1, <1>3, <1>4 DEF MarketInv, MarketBacked, BooksAgree, Givers

(* After any order of contributions, activation, expiry, refunds and       *)
(* cancellation the contract holds to the wei what it owes                 *)
(* (BountyMarketplace.sol, contribute, activateBounty, claimRefund,        *)
(* cancelProposal).                                                        *)
THEOREM AlwaysBacked == MarketSpec => []MarketBacked
<1>1. MarketInv /\ [MarketNext]_market_vars => MarketInv'
  BY MarketStep
<1> QED
  BY <1>1, MarketStarts, InvBacks, PTL DEF MarketSpec

-----------------------------------------------------------------------------
(***************************************************************************)
(* Disputes stand, for any number of arbitrators, rounds, commitments and  *)
(* disputes, any stakes, bonds and windows, and whoever refuses ETH.       *)
(***************************************************************************)

PendingDispute == [opener : Openers \cup {Nobody}, round : Rounds \cup {Nobody},
                   bond : Nat, revealDeadline : Int]

Votes == UNION {[voters -> BOOLEAN] : voters \in SUBSET Arbitrators}

Dispute == [opener : Openers \cup {Nobody}, round : Rounds \cup {Nobody}, bond : Nat,
            deadline : Int, status : {"OPEN", "UPHELD", "REJECTED", "NO_MAJORITY"},
            arbitrators : SUBSET Arbitrators, votes : Votes]

PendingIds == 0 .. MaxPending - 1
DisputeIds == 1 .. MaxDisputes

DaoTypeOK ==
  /\ timestamp \in Nat /\ treasure \in Int
  /\ arbitratorList \in Seq(Arbitrators)
  /\ arbitratorIndex \in [Arbitrators -> Nat] /\ arbitratorStake \in [Arbitrators -> Nat]
  /\ stakedAt \in [Arbitrators -> Nat] /\ activeDisputeCount \in [Arbitrators -> Nat]
  /\ roundDisputed \in [Rounds -> BOOLEAN]
  /\ pendingDisputes \in [PendingIds -> PendingDispute] /\ nextPendingId \in Nat
  /\ disputes \in [DisputeIds -> Dispute] /\ nextDisputeId \in Nat \ {0}

(* The numbers not given out yet stand for nothing, nor does a commitment  *)
(* that was revealed or reclaimed.                                         *)
NumbersAreFresh ==
  /\ \A p \in PendingIds :
       /\ p >= nextPendingId => pendingDisputes[p] = NoPending
       /\ pendingDisputes[p].opener = Nobody => pendingDisputes[p].bond = 0
       /\ pendingDisputes[p].opener # Nobody => pendingDisputes[p].round \in Rounds
  /\ \A d \in DisputeIds : d >= nextDisputeId =>
       /\ disputes[d].arbitrators = {}
       /\ disputes[d].bond = 0 /\ disputes[d].round = Nobody

(* The list and the places in it are inverse, and those in it, and only    *)
(* they, have a stake.                                                     *)
PoolAgrees ==
  /\ \A i \in DOMAIN arbitratorList : arbitratorIndex[arbitratorList[i]] = i
  /\ \A j \in Arbitrators :
       IF arbitratorIndex[j] = 0 THEN arbitratorStake[j] = 0
       ELSE /\ arbitratorIndex[j] \in DOMAIN arbitratorList
            /\ arbitratorList[arbitratorIndex[j]] = j
            /\ arbitratorStake[j] > 0

Judging(j) == {d \in Open : j \in disputes[d].arbitrators}

(* Everybody is counted once for every dispute to judge, and is there.     *)
JudgesAreThere ==
  \A j \in Arbitrators :
    /\ activeDisputeCount[j] = Cardinality(Judging(j))
    /\ Judging(j) # {} => arbitratorIndex[j] # 0

(* OneDisputePerRound without cardinalities.                               *)
Stages(r) == {p \in Pending : pendingDisputes[p].round = r}
Known(r)  == {d \in DOMAIN disputes : disputes[d].round = r}

AtMostOne(S, T) ==
  /\ \A x, y \in S : x = y
  /\ \A x, y \in T : x = y
  /\ S = {} \/ T = {}

RoundsAreMarked ==
  \A r \in Rounds :
    /\ AtMostOne(Stages(r), Known(r))
    /\ roundDisputed[r] <=> Stages(r) \cup Known(r) # {}

DaoInv ==
  /\ DaoTypeOK /\ NumbersAreFresh /\ PoolAgrees /\ JudgesAreThere /\ RoundsAreMarked
  /\ StakesAndBondsHeld

-----------------------------------------------------------------------------
(* Lemmas about sums and numbers of elements                               *)

Total(f)     == SumFunctionOnSet(f, DOMAIN f)
BondsIn(pds) == [p \in DOMAIN pds |-> pds[p].bond]
KeptIn(ds)   == [d \in DOMAIN ds |-> Kept(ds[d])]

(* The numbers of commitments and of disputes are finitely many.           *)
LEMMA IdsFinite == IsFiniteSet(PendingIds) /\ IsFiniteSet(DisputeIds)
<1>1. 0 \in Int /\ 1 \in Int /\ MaxPending - 1 \in Int /\ MaxDisputes \in Int
  BY DaoAssumption
<1> QED
  BY <1>1, FS_Interval DEF PendingIds, DisputeIds

(* What a dispute keeps of its bond (resolveDispute).                      *)
LEMMA KeptIsNat ==
  ASSUME NEW o \in Dispute
  PROVE  Kept(o) \in Nat
<1>1. o.bond \in Nat /\ o.status \in {"OPEN", "UPHELD", "REJECTED", "NO_MAJORITY"}
  BY DEF Dispute
<1>2. o.bond % ARBITRATOR_COUNT \in Nat
  BY <1>1, DaoAssumption
<1> QED
  BY <1>1, <1>2 DEF Kept

(* One stake changes.                                                      *)
LEMMA StakesMove ==
  ASSUME NEW f \in [Arbitrators -> Nat], NEW g \in [Arbitrators -> Nat],
         NEW j \in Arbitrators, \A x \in Arbitrators \ {j} : g[x] = f[x]
  PROVE  Total(f) \in Int /\ Total(g) = Total(f) + (g[j] - f[j])
<1>1. /\ \A x \in Arbitrators : f[x] \in Int
      /\ \A x \in Arbitrators : g[x] \in Int
      /\ DOMAIN f = Arbitrators /\ DOMAIN g = Arbitrators
      /\ IsFiniteSet(Arbitrators)
  BY DaoAssumption
<1>2. SumFunctionOnSet(g, Arbitrators) = SumFunctionOnSet(f, Arbitrators) - f[j] + g[j]
  BY <1>1, SumUpdate
<1>3. SumFunctionOnSet(f, Arbitrators) \in Int
  BY <1>1, SumRemove
<1>4. \A x, y, z \in Int : x - y + z = x + (z - y)
  OBVIOUS
<1> QED
  BY <1>1, <1>2, <1>3, <1>4 DEF Total

(* One commitment changes.                                                 *)
LEMMA BondsMove ==
  ASSUME NEW old \in [PendingIds -> PendingDispute],
         NEW new \in [PendingIds -> PendingDispute],
         NEW p \in PendingIds, \A x \in PendingIds \ {p} : new[x] = old[x]
  PROVE  /\ Total(BondsIn(old)) \in Int
         /\ Total(BondsIn(new)) = Total(BondsIn(old)) + (new[p].bond - old[p].bond)
<1> DEFINE f == BondsIn(old)
           g == BondsIn(new)
<1>1. /\ \A x \in PendingIds : f[x] \in Int
      /\ \A x \in PendingIds : g[x] \in Int
      /\ \A x \in PendingIds \ {p} : g[x] = f[x]
      /\ g[p] = new[p].bond /\ f[p] = old[p].bond
      /\ DOMAIN f = PendingIds /\ DOMAIN g = PendingIds
  BY DEF BondsIn, PendingDispute
<1> HIDE DEF f, g
<1>2. SumFunctionOnSet(g, PendingIds) = SumFunctionOnSet(f, PendingIds) - f[p] + g[p]
  BY <1>1, IdsFinite, SumUpdate
<1>3. SumFunctionOnSet(f, PendingIds) \in Int
  BY <1>1, IdsFinite, SumRemove
<1>4. \A x, y, z \in Int : x - y + z = x + (z - y)
  OBVIOUS
<1> QED
  BY <1>1, <1>2, <1>3, <1>4 DEF Total, f, g

(* One dispute changes.                                                    *)
LEMMA KeptMoves ==
  ASSUME NEW old \in [DisputeIds -> Dispute], NEW new \in [DisputeIds -> Dispute],
         NEW d \in DisputeIds, \A x \in DisputeIds \ {d} : new[x] = old[x]
  PROVE  /\ Total(KeptIn(old)) \in Int
         /\ Total(KeptIn(new)) = Total(KeptIn(old)) + (Kept(new[d]) - Kept(old[d]))
<1> DEFINE f == KeptIn(old)
           g == KeptIn(new)
<1>1. /\ \A x \in DisputeIds : f[x] = Kept(old[x])
      /\ \A x \in DisputeIds : g[x] = Kept(new[x])
      /\ \A x \in DisputeIds \ {d} : g[x] = f[x]
      /\ DOMAIN f = DisputeIds /\ DOMAIN g = DisputeIds
  BY DEF KeptIn
<1>2. \A x \in DisputeIds : Kept(old[x]) \in Nat /\ Kept(new[x]) \in Nat
  BY KeptIsNat
<1> HIDE DEF f, g
<1>3. /\ \A x \in DisputeIds : f[x] \in Int
      /\ \A x \in DisputeIds : g[x] \in Int
  BY <1>1, <1>2
<1>4. SumFunctionOnSet(g, DisputeIds) = SumFunctionOnSet(f, DisputeIds) - f[d] + g[d]
  BY <1>1, <1>3, IdsFinite, SumUpdate
<1>5. SumFunctionOnSet(f, DisputeIds) \in Int
  BY <1>3, IdsFinite, SumRemove
<1>6. \A x, y, z \in Int : x - y + z = x + (z - y)
  OBVIOUS
<1> QED
  BY <1>1, <1>3, <1>4, <1>5, <1>6 DEF Total, f, g

(* Two sets with at most one element together.                             *)
LEMMA AtMostOneCounted ==
  ASSUME NEW S, NEW T, IsFiniteSet(S), IsFiniteSet(T), AtMostOne(S, T)
  PROVE  Cardinality(S) + Cardinality(T) <= 1
<1>1. ASSUME NEW U, IsFiniteSet(U), \A x, y \in U : x = y
      PROVE  Cardinality(U) \in Nat /\ Cardinality(U) <= 1 /\ (U = {} => Cardinality(U) = 0)
  <2>1. CASE U = {}
    BY <2>1, FS_EmptySet
  <2>2. CASE U # {}
    <3>1. PICK x \in U : TRUE
      BY <2>2
    <3>2. U = {x}
      BY <1>1, <3>1
    <3> QED
      BY <2>2, <3>2, FS_Singleton
  <2> QED
    BY <2>1, <2>2
<1> QED
  BY <1>1 DEF AtMostOne

(* DaoInv in the words of the property.                                    *)
LEMMA DaoInvStands == ASSUME DaoInv PROVE DisputesStand
<1> USE DEF DaoInv
<1>1. JudgesStay
  <2>1. \A j \in Arbitrators : IsFiniteSet(Judging(j))
    <3>1. \A j \in Arbitrators : Judging(j) \subseteq DisputeIds
      BY DEF Judging, Open, DaoTypeOK
    <3> QED
      BY <3>1, IdsFinite, FS_Subset
  <2>2. \A j \in Arbitrators : activeDisputeCount[j] > 0 => Judging(j) # {}
    BY FS_EmptySet DEF JudgesAreThere
  <2> QED
    BY <2>2 DEF JudgesStay, JudgesAreThere, PoolAgrees, Judging
<1>2. OneDisputePerRound
  <2> SUFFICES ASSUME NEW r \in Rounds
               PROVE  /\ Cardinality(Stages(r)) + Cardinality(Known(r)) <= 1
                      /\ roundDisputed[r] <=> Stages(r) \cup Known(r) # {}
    BY DEF OneDisputePerRound, Stages, Known
  <2>1. Stages(r) \subseteq PendingIds /\ Known(r) \subseteq DisputeIds
    BY DEF Stages, Known, Pending, DaoTypeOK
  <2>2. IsFiniteSet(Stages(r)) /\ IsFiniteSet(Known(r))
    BY <2>1, IdsFinite, FS_Subset
  <2> QED
    BY <2>2, AtMostOneCounted DEF RoundsAreMarked
<1> QED
  BY <1>1, <1>2 DEF DisputesStand

(* The books in terms of the lemmas on sums.                               *)
LEMMA HeldMeans ==
  ASSUME DaoTypeOK
  PROVE  StakesAndBondsHeld
           <=> treasure = Total(arbitratorStake) + Total(BondsIn(pendingDisputes))
                          + Total(KeptIn(disputes))
BY DEF StakesAndBondsHeld, bonds, keepings, Total, BondsIn, KeptIn, DaoTypeOK

(* And after a step.                                                       *)
LEMMA HeldMeansNext ==
  ASSUME DaoTypeOK'
  PROVE  StakesAndBondsHeld'
           <=> treasure' = Total(arbitratorStake') + Total(BondsIn(pendingDisputes'))
                           + Total(KeptIn(disputes'))
BY DEF StakesAndBondsHeld, bonds, keepings, Total, BondsIn, KeptIn, DaoTypeOK

\* The stakes, bonds and keepings are numbers: sums of naturals.
LEMMA SumsAreInts ==
  ASSUME DaoTypeOK
  PROVE  /\ Total(arbitratorStake) \in Int
         /\ Total(BondsIn(pendingDisputes)) \in Int
         /\ Total(KeptIn(disputes)) \in Int
<1>1. IsFiniteSet(Arbitrators)
  BY DaoAssumption
<1>2. /\ DOMAIN arbitratorStake = Arbitrators
      /\ \A j \in Arbitrators : arbitratorStake[j] \in Int
  BY DEF DaoTypeOK
<1>3. /\ DOMAIN BondsIn(pendingDisputes) = PendingIds
      /\ \A p \in PendingIds : BondsIn(pendingDisputes)[p] \in Int
  BY DEF BondsIn, PendingDispute, DaoTypeOK
<1>4. /\ DOMAIN KeptIn(disputes) = DisputeIds
      /\ \A d \in DisputeIds : KeptIn(disputes)[d] \in Int
  <2>1. \A d \in DisputeIds : Kept(disputes[d]) \in Nat
    BY KeptIsNat DEF DaoTypeOK
  <2> QED
    BY <2>1 DEF KeptIn, DaoTypeOK
<1>5. \A f, S : IsFiniteSet(S) /\ (\A x \in S : f[x] \in Int) => SumFunctionOnSet(f, S) \in Int
  BY SumRemove
<1> QED
  BY <1>1, <1>2, <1>3, <1>4, <1>5, IdsFinite DEF Total

(* The books hold after a step in which the balance moves with them.       *)
LEMMA BooksMove ==
  ASSUME DaoTypeOK, DaoTypeOK', StakesAndBondsHeld,
         NEW st \in Int, NEW bd \in Int, NEW kp \in Int,
         Total(arbitratorStake') = Total(arbitratorStake) + st,
         Total(BondsIn(pendingDisputes')) = Total(BondsIn(pendingDisputes)) + bd,
         Total(KeptIn(disputes')) = Total(KeptIn(disputes)) + kp,
         treasure' = treasure + st + bd + kp
  PROVE  StakesAndBondsHeld'
<1>1. PICK s, b, k : /\ s = Total(arbitratorStake) /\ b = Total(BondsIn(pendingDisputes))
                     /\ k = Total(KeptIn(disputes))
  OBVIOUS
<1>2. s \in Int /\ b \in Int /\ k \in Int
  BY <1>1, SumsAreInts
<1>3. treasure = s + b + k
  BY <1>1, HeldMeans
<1>4. treasure' = (s + st) + (b + bd) + (k + kp)
  BY <1>2, <1>3
<1> QED
  BY <1>1, <1>4, HeldMeansNext

(* What stays counts the same.                                             *)
LEMMA SameStakes ==
  ASSUME DaoTypeOK, arbitratorStake' = arbitratorStake
  PROVE  Total(arbitratorStake') = Total(arbitratorStake) + 0
<1>1. Total(arbitratorStake) + 0 = Total(arbitratorStake)
  BY SumsAreInts
<1> QED
  BY <1>1

\* No bond changes where no pending dispute does.
LEMMA SameBonds ==
  ASSUME DaoTypeOK, pendingDisputes' = pendingDisputes
  PROVE  Total(BondsIn(pendingDisputes')) = Total(BondsIn(pendingDisputes)) + 0
<1>1. Total(BondsIn(pendingDisputes)) + 0 = Total(BondsIn(pendingDisputes))
  BY SumsAreInts
<1> QED
  BY <1>1

\* Nor does what is kept of the bonds where no dispute does.
LEMMA SameKept ==
  ASSUME DaoTypeOK, disputes' = disputes
  PROVE  Total(KeptIn(disputes')) = Total(KeptIn(disputes)) + 0
<1>1. Total(KeptIn(disputes)) + 0 = Total(KeptIn(disputes))
  BY SumsAreInts
<1> QED
  BY <1>1

(* The array of arbitrators.                                               *)
LEMMA ListElements ==
  ASSUME DaoTypeOK
  PROVE  /\ Len(arbitratorList) \in Nat
         /\ DOMAIN arbitratorList = 1 .. Len(arbitratorList)
         /\ \A i \in 1 .. Len(arbitratorList) : arbitratorList[i] \in Arbitrators
BY DEF DaoTypeOK

\* A push on an array (joinAsArbitrator).
LEMMA Appended ==
  ASSUME NEW S, NEW s \in Seq(S), NEW e \in S
  PROVE  /\ Append(s, e) \in Seq(S)
         /\ DOMAIN Append(s, e) = 1 .. Len(s) + 1
         /\ \A i \in 1 .. Len(s) : Append(s, e)[i] = s[i]
         /\ Append(s, e)[Len(s) + 1] = e
OBVIOUS

-----------------------------------------------------------------------------
(* What holds as long as some of the state stays                           *)

(* Without a change of the disputes nobody's list of them changes.         *)
LEMMA SameDisputes ==
  ASSUME JudgesAreThere, UNCHANGED <<disputes, activeDisputeCount>>,
         \A j \in Arbitrators : Judging(j) # {} => arbitratorIndex'[j] # 0
  PROVE  JudgesAreThere'
<1>1. \A j : Judging(j)' = Judging(j)
  BY DEF Judging, Open
<1> QED
  BY <1>1 DEF JudgesAreThere

\* Only the steps that touch a dispute or the mark matter for RoundsAreMarked.
LEMMA SameRounds ==
  ASSUME RoundsAreMarked, UNCHANGED <<pendingDisputes, disputes, roundDisputed>>
  PROVE  RoundsAreMarked'
BY DEF RoundsAreMarked, Stages, Known, Pending

-----------------------------------------------------------------------------
(* The pool                                                                *)

(* registerArbitrator.                                                     *)
LEMMA RegisterStep ==
  ASSUME DaoInv, NEW j \in Arbitrators, NEW stake \in Stakes, RegisterArbitrator(j, stake)
  PROVE  DaoInv'
<1>1. /\ arbitratorIndex[j] = 0
      /\ arbitratorList' = Append(arbitratorList, j)
      /\ arbitratorIndex' = [arbitratorIndex EXCEPT ![j] = Len(arbitratorList) + 1]
      /\ arbitratorStake' = [arbitratorStake EXCEPT ![j] = stake]
      /\ stakedAt' = [stakedAt EXCEPT ![j] = timestamp]
      /\ treasure' = treasure + stake
      /\ UNCHANGED <<timestamp, activeDisputeCount, roundDisputed, pendingDisputes,
                     nextPendingId, disputes, nextDisputeId>>
  BY DEF RegisterArbitrator, pending_vars, dispute_vars
<1>2. DaoTypeOK /\ stake \in Nat \ {0} /\ Len(arbitratorList) \in Nat
  BY DaoAssumption DEF DaoInv, DaoTypeOK
<1>3. DaoTypeOK'
  BY <1>1, <1>2 DEF DaoTypeOK
<1>4. NumbersAreFresh'
  BY <1>1 DEF DaoInv, NumbersAreFresh
<1>5. PoolAgrees'
  <2>1. /\ DOMAIN arbitratorList = 1 .. Len(arbitratorList)
        /\ DOMAIN arbitratorList' = 1 .. Len(arbitratorList) + 1
        /\ \A i \in DOMAIN arbitratorList : arbitratorList'[i] = arbitratorList[i]
        /\ arbitratorList'[Len(arbitratorList) + 1] = j
    <3>1. arbitratorList \in Seq(Arbitrators)
      BY <1>2 DEF DaoTypeOK
    <3> QED
      BY <1>1, <1>2, <3>1, ListElements, Appended
  <2>2. \A i \in DOMAIN arbitratorList :
          arbitratorList[i] \in Arbitrators /\ arbitratorList[i] # j
    <3>1. \A i \in DOMAIN arbitratorList : i # 0
      BY <2>1
    <3> QED
      BY <1>1, <1>2, <3>1, ListElements DEF DaoInv, PoolAgrees
  <2>3. \A k \in Arbitrators :
          /\ arbitratorIndex'[k] = IF k = j THEN Len(arbitratorList) + 1
                                   ELSE arbitratorIndex[k]
          /\ arbitratorStake'[k] = IF k = j THEN stake ELSE arbitratorStake[k]
    BY <1>1, <1>2 DEF DaoTypeOK
  <2>4. \A i \in DOMAIN arbitratorList' : arbitratorIndex'[arbitratorList'[i]] = i
    BY <1>2, <2>1, <2>2, <2>3 DEF DaoInv, PoolAgrees
  <2>5. ASSUME NEW k \in Arbitrators
        PROVE  IF arbitratorIndex'[k] = 0 THEN arbitratorStake'[k] = 0
               ELSE /\ arbitratorIndex'[k] \in DOMAIN arbitratorList'
                    /\ arbitratorList'[arbitratorIndex'[k]] = k
                    /\ arbitratorStake'[k] > 0
    <3>1. CASE k = j
      BY <1>2, <2>1, <2>3, <3>1
    <3>2. CASE k # j
      BY <1>2, <2>1, <2>3, <3>2 DEF DaoInv, PoolAgrees
    <3> QED
      BY <3>1, <3>2
  <2> QED
    BY <2>4, <2>5 DEF PoolAgrees
<1>6. JudgesAreThere'
  <2>1. \A k \in Arbitrators : arbitratorIndex[k] # 0 => arbitratorIndex'[k] # 0
    BY <1>1, <1>2 DEF DaoTypeOK
  <2> QED
    BY <1>1, <2>1, SameDisputes DEF DaoInv, JudgesAreThere
<1>7. RoundsAreMarked'
  BY <1>1, SameRounds DEF DaoInv
<1>8. StakesAndBondsHeld'
  <2>1. /\ arbitratorStake \in [Arbitrators -> Nat]
        /\ arbitratorStake' \in [Arbitrators -> Nat]
        /\ \A k \in Arbitrators \ {j} : arbitratorStake'[k] = arbitratorStake[k]
        /\ arbitratorStake'[j] = stake /\ arbitratorStake[j] = 0
    BY <1>1, <1>2, <1>3 DEF DaoTypeOK, DaoInv, PoolAgrees
  <2>2. Total(arbitratorStake') = Total(arbitratorStake) + (stake - 0)
    BY <2>1, StakesMove
  <2>3. stake - 0 \in Int /\ 0 \in Int
    BY <1>2
  <2>4. treasure' = treasure + (stake - 0) + 0 + 0
    BY <1>1, <1>2 DEF DaoTypeOK
  <2> QED
    BY <1>1, <1>2, <1>3, <2>2, <2>3, <2>4, SameBonds, SameKept, BooksMove DEF DaoInv
<1> QED
  BY <1>3, <1>4, <1>5, <1>6, <1>7, <1>8 DEF DaoInv

(* unregisterArbitrator: who leaves has no dispute to judge.               *)
LEMMA UnregisterStep ==
  ASSUME DaoInv, NEW j \in Arbitrators, UnregisterArbitrator(j)
  PROVE  DaoInv'
<1> DEFINE len  == Len(arbitratorList)
           last == arbitratorList[len]
           at   == arbitratorIndex[j]
<1>1. /\ at # 0 /\ activeDisputeCount[j] = 0
      /\ arbitratorList' = SubSeq([arbitratorList EXCEPT ![at] = last], 1,
                                  Len([arbitratorList EXCEPT ![at] = last]) - 1)
      /\ arbitratorIndex' = [arbitratorIndex EXCEPT ![last] = at, ![j] = 0]
      /\ arbitratorStake' = [arbitratorStake EXCEPT ![j] = 0]
      /\ treasure' = treasure - arbitratorStake[j]
      /\ UNCHANGED <<timestamp, stakedAt, activeDisputeCount, roundDisputed, pendingDisputes,
                     nextPendingId, disputes, nextDisputeId>>
  BY DEF UnregisterArbitrator, MayLeave, Last, Front, pending_vars, dispute_vars
<1>2. DaoTypeOK /\ PoolAgrees /\ len \in Nat /\ DOMAIN arbitratorList = 1 .. len
  BY DEF DaoInv, DaoTypeOK
<1>3. /\ at \in 1 .. len /\ arbitratorList[at] = j
      /\ len \in 1 .. len /\ last \in Arbitrators /\ arbitratorIndex[last] = len
  <2>1. at \in 1 .. len /\ arbitratorList[at] = j
    BY <1>1, <1>2 DEF PoolAgrees
  <2>2. len \in 1 .. len
    BY <1>2, <2>1
  <2>3. last \in Arbitrators
    BY <1>2, <2>2, ListElements
  <2> QED
    BY <1>2, <2>1, <2>2, <2>3 DEF PoolAgrees
<1>4. /\ arbitratorList' \in Seq(Arbitrators)
      /\ DOMAIN arbitratorList' = 1 .. len - 1
      /\ \A i \in 1 .. len - 1 :
           arbitratorList'[i] = IF i = at THEN last ELSE arbitratorList[i]
  <2> DEFINE moved == [arbitratorList EXCEPT ![at] = last]
  <2>1. moved \in Seq(Arbitrators) /\ Len(moved) = len
    BY <1>2, <1>3 DEF DaoTypeOK
  <2>2. \A i \in 1 .. len : moved[i] = IF i = at THEN last ELSE arbitratorList[i]
    BY <1>2, <1>3
  <2>3. arbitratorList' = SubSeq(moved, 1, len - 1)
    BY <1>1, <2>1
  <2> HIDE DEF moved, len
  <2>4. /\ SubSeq(moved, 1, len - 1) \in Seq(Arbitrators)
        /\ DOMAIN SubSeq(moved, 1, len - 1) = 1 .. len - 1
        /\ \A i \in 1 .. len - 1 : SubSeq(moved, 1, len - 1)[i] = moved[i]
    BY <1>2, <1>3, <2>1
  <2>5. \A i \in 1 .. len - 1 : i \in 1 .. len
    BY <1>2
  <2> QED
    BY <2>2, <2>3, <2>4, <2>5
<1>5. /\ \A k \in Arbitrators :
           arbitratorStake'[k] = IF k = j THEN 0 ELSE arbitratorStake[k]
      /\ \A k \in Arbitrators :
           arbitratorIndex'[k] = IF k = j THEN 0 ELSE IF k = last THEN at
                                 ELSE arbitratorIndex[k]
  BY <1>1, <1>2, <1>3 DEF DaoTypeOK
<1>6. DaoTypeOK'
  <2>1. arbitratorStake[j] \in Nat /\ at \in Nat
    BY <1>2 DEF DaoTypeOK
  <2> HIDE DEF at, last, len
  <2>2. arbitratorIndex' \in [Arbitrators -> Nat] /\ arbitratorStake' \in [Arbitrators -> Nat]
    BY <1>1, <1>2, <2>1 DEF DaoTypeOK
  <2>3. treasure' \in Int
    BY <1>1, <1>2, <2>1 DEF DaoTypeOK
  <2> QED
    BY <1>1, <1>2, <1>4, <2>2, <2>3 DEF DaoTypeOK
<1>7. NumbersAreFresh'
  BY <1>1 DEF DaoInv, NumbersAreFresh
<1> HIDE DEF at, last, len
<1>8. PoolAgrees'
  <2>1. ASSUME NEW i \in 1 .. len - 1
        PROVE  arbitratorIndex'[arbitratorList'[i]] = i
    <3>1. i \in 1 .. len /\ i # len /\ arbitratorList[i] \in Arbitrators
          /\ arbitratorIndex[arbitratorList[i]] = i
      <4>1. i \in 1 .. len /\ i # len
        BY <1>2
      <4> QED
        BY <1>2, <4>1, ListElements DEF PoolAgrees, len
    <3>2. CASE i = at
      <4>1. last # j
        BY <1>3, <3>1, <3>2 DEF at
      <4> QED
        BY <1>3, <1>4, <1>5, <3>2, <4>1
    <3>3. CASE i # at
      <4>1. arbitratorList[i] # j /\ arbitratorList[i] # last
        BY <1>3, <3>1, <3>3 DEF at
      <4> QED
        BY <1>4, <1>5, <3>1, <3>3, <4>1
    <3> QED
      BY <3>2, <3>3
  <2>2. ASSUME NEW k \in Arbitrators
        PROVE  IF arbitratorIndex'[k] = 0 THEN arbitratorStake'[k] = 0
               ELSE /\ arbitratorIndex'[k] \in 1 .. len - 1
                    /\ arbitratorList'[arbitratorIndex'[k]] = k
                    /\ arbitratorStake'[k] > 0
    <3>1. CASE k = j
      BY <1>5, <3>1
    <3>2. CASE k # j /\ k = last
      <4>1. at # len
        BY <1>3, <3>2 DEF last
      <4>2. at \in 1 .. len - 1
        BY <1>2, <1>3, <4>1
      <4>3. arbitratorStake[k] > 0
        BY <1>2, <1>3, <3>2 DEF PoolAgrees
      <4> QED
        BY <1>4, <1>5, <3>2, <4>2, <4>3
    <3>3. CASE k # j /\ k # last /\ arbitratorIndex[k] = 0
      BY <1>2, <1>5, <3>3 DEF PoolAgrees
    <3>4. CASE k # j /\ k # last /\ arbitratorIndex[k] # 0
      <4>1. /\ arbitratorIndex[k] \in 1 .. len /\ arbitratorList[arbitratorIndex[k]] = k
            /\ arbitratorStake[k] > 0
        BY <1>2, <3>4 DEF PoolAgrees
      <4>2. arbitratorIndex[k] # len /\ arbitratorIndex[k] # at
        BY <1>3, <3>4, <4>1 DEF last
      <4>3. arbitratorIndex[k] \in 1 .. len - 1
        BY <1>2, <4>1, <4>2
      <4> QED
        BY <1>4, <1>5, <3>4, <4>1, <4>2, <4>3
    <3> QED
      BY <3>1, <3>2, <3>3, <3>4
  <2> QED
    BY <1>4, <2>1, <2>2 DEF PoolAgrees
<1>9. JudgesAreThere'
  <2>1. Judging(j) = {}
    <3>1. Judging(j) \subseteq DisputeIds
      BY <1>2 DEF Judging, Open, DaoTypeOK
    <3>2. IsFiniteSet(Judging(j))
      BY <3>1, IdsFinite, FS_Subset
    <3> QED
      BY <1>1, <3>2, FS_EmptySet DEF DaoInv, JudgesAreThere
  <2>2. \A k \in Arbitrators \ {j} : arbitratorIndex[k] # 0 => arbitratorIndex'[k] # 0
    BY <1>3, <1>5
  <2>3. \A k \in Arbitrators : Judging(k) # {} => arbitratorIndex'[k] # 0
    BY <2>1, <2>2 DEF DaoInv, JudgesAreThere
  <2> QED
    BY <1>1, <2>3, SameDisputes DEF DaoInv
<1>10. RoundsAreMarked'
  BY <1>1, SameRounds DEF DaoInv
<1>11. StakesAndBondsHeld'
  <2>1. /\ arbitratorStake \in [Arbitrators -> Nat]
        /\ arbitratorStake' \in [Arbitrators -> Nat]
        /\ \A k \in Arbitrators \ {j} : arbitratorStake'[k] = arbitratorStake[k]
        /\ arbitratorStake'[j] = 0 /\ arbitratorStake[j] \in Nat
    BY <1>2, <1>5, <1>6 DEF DaoTypeOK
  <2>2. Total(arbitratorStake') = Total(arbitratorStake) + (0 - arbitratorStake[j])
    BY <2>1, StakesMove
  <2>3. 0 - arbitratorStake[j] \in Int /\ 0 \in Int
    BY <2>1
  <2>4. treasure' = treasure + (0 - arbitratorStake[j]) + 0 + 0
    BY <1>1, <1>2, <2>1 DEF DaoTypeOK
  <2> QED
    BY <1>1, <1>2, <1>6, <2>2, <2>3, <2>4, SameBonds, SameKept, BooksMove DEF DaoInv
<1> QED
  BY <1>6, <1>7, <1>8, <1>9, <1>10, <1>11 DEF DaoInv

-----------------------------------------------------------------------------
(* Commitments                                                             *)

(* commitDispute: the round was not marked, so that nothing is known of it. *)
LEMMA CommitStep ==
  ASSUME DaoInv, NEW who \in Openers, NEW r \in Rounds, NEW bond \in Bonds,
         CommitDispute(who, r, bond)
  PROVE  DaoInv'
<1> DEFINE p  == nextPendingId
           pd == [opener |-> who, round |-> r, bond |-> bond,
                  revealDeadline |-> timestamp + REVEAL_WINDOW]
<1>1. /\ p < MaxPending /\ ~roundDisputed[r]
      /\ pendingDisputes' = [pendingDisputes EXCEPT ![p] = pd]
      /\ nextPendingId' = p + 1
      /\ roundDisputed' = [roundDisputed EXCEPT ![r] = TRUE]
      /\ treasure' = treasure + bond
      /\ UNCHANGED <<timestamp, arbitratorList, arbitratorIndex, arbitratorStake, stakedAt,
                     activeDisputeCount, disputes, nextDisputeId>>
  BY DEF CommitDispute, pool_vars, dispute_vars
<1>2. /\ DaoTypeOK /\ p \in Nat /\ p \in PendingIds /\ bond \in Nat
      /\ who # Nobody /\ r # Nobody /\ pendingDisputes[p] = NoPending
      /\ pendingDisputes[p].opener = Nobody /\ pendingDisputes[p].bond = 0
  <2>1. DaoTypeOK /\ p \in Nat /\ bond \in Nat /\ who # Nobody /\ r # Nobody
    BY DaoAssumption DEF DaoInv, DaoTypeOK
  <2>2. p \in PendingIds
    BY <1>1, <2>1, DaoAssumption DEF PendingIds
  <2>3. pendingDisputes[p] = NoPending
    BY <2>1, <2>2 DEF DaoInv, NumbersAreFresh
  <2> QED
    BY <2>1, <2>2, <2>3 DEF NoPending
<1>3. pd \in PendingDispute /\ pd.opener = who /\ pd.round = r /\ pd.bond = bond
  BY <1>2, DaoAssumption DEF PendingDispute, DaoTypeOK
<1> HIDE DEF pd
<1>4. /\ pendingDisputes' \in [PendingIds -> PendingDispute]
      /\ pendingDisputes'[p] = pd
      /\ \A q \in PendingIds \ {p} : pendingDisputes'[q] = pendingDisputes[q]
  BY <1>1, <1>2, <1>3 DEF DaoTypeOK
<1>5. DaoTypeOK'
  BY <1>1, <1>2, <1>4 DEF DaoTypeOK
<1>6. NumbersAreFresh'
  <2>1. ASSUME NEW q \in PendingIds
        PROVE  /\ q >= p + 1 => pendingDisputes'[q] = NoPending
               /\ pendingDisputes'[q].opener = Nobody => pendingDisputes'[q].bond = 0
               /\ pendingDisputes'[q].opener # Nobody => pendingDisputes'[q].round \in Rounds
    <3>1. q \in Int
      BY DaoAssumption DEF PendingIds
    <3>2. CASE q = p
      BY <1>2, <1>3, <1>4, <3>2
    <3>3. CASE q # p
      BY <1>2, <1>4, <3>1, <3>3 DEF DaoInv, NumbersAreFresh
    <3> QED
      BY <3>2, <3>3
  <2> QED
    BY <1>1, <2>1 DEF DaoInv, NumbersAreFresh
<1>7. PoolAgrees'
  BY <1>1 DEF DaoInv, PoolAgrees
<1>8. JudgesAreThere'
  BY <1>1, SameDisputes DEF DaoInv, JudgesAreThere
<1>9. RoundsAreMarked'
  <2>1. Pending' = Pending \cup {p} /\ p \notin Pending
    BY <1>2, <1>3, <1>4, <1>5 DEF Pending, DaoTypeOK
  <2>2. /\ Stages(r)' = Stages(r) \cup {p}
        /\ \A x \in Rounds \ {r} : Stages(x)' = Stages(x)
    <3>1. \A q \in Pending : q # p /\ pendingDisputes'[q] = pendingDisputes[q]
      BY <1>2, <1>4, <2>1 DEF Pending, DaoTypeOK
    <3>2. pendingDisputes'[p].round = r
      BY <1>3, <1>4
    <3> QED
      BY <2>1, <3>1, <3>2 DEF Stages
  <2>3. \A x : Known(x)' = Known(x)
    BY <1>1 DEF Known
  <2>4. Stages(r) = {} /\ Known(r) = {}
    BY <1>1 DEF DaoInv, RoundsAreMarked
  <2>5. \A x \in Rounds : roundDisputed'[x] = IF x = r THEN TRUE ELSE roundDisputed[x]
    BY <1>1, <1>2 DEF DaoTypeOK
  <2>6. ASSUME NEW x \in Rounds
        PROVE  /\ AtMostOne(Stages(x)', Known(x)')
               /\ roundDisputed'[x] <=> Stages(x)' \cup Known(x)' # {}
    <3>1. CASE x = r
      <4>1. Stages(x)' = {p} /\ Known(x)' = {}
        BY <2>2, <2>3, <2>4, <3>1
      <4> QED
        BY <2>5, <3>1, <4>1 DEF AtMostOne
    <3>2. CASE x # r
      <4>1. Stages(x)' = Stages(x) /\ Known(x)' = Known(x)
        BY <2>2, <2>3, <3>2
      <4> QED
        BY <2>5, <3>2, <4>1 DEF DaoInv, RoundsAreMarked
    <3> QED
      BY <3>1, <3>2
  <2> QED
    BY <2>6 DEF RoundsAreMarked
<1>10. StakesAndBondsHeld'
  <2>1. Total(BondsIn(pendingDisputes')) = Total(BondsIn(pendingDisputes)) + (bond - 0)
    <3>1. pendingDisputes \in [PendingIds -> PendingDispute]
      BY <1>2 DEF DaoTypeOK
    <3> QED
      BY <1>2, <1>3, <1>4, <3>1, BondsMove
  <2>2. bond - 0 \in Int /\ 0 \in Int
    BY <1>2
  <2>3. treasure' = treasure + 0 + (bond - 0) + 0
    BY <1>1, <1>2 DEF DaoTypeOK
  <2> QED
    BY <1>1, <1>2, <1>5, <2>1, <2>2, <2>3, SameStakes, SameKept, BooksMove DEF DaoInv
<1> QED
  BY <1>5, <1>6, <1>7, <1>8, <1>9, <1>10 DEF DaoInv

(* A commitment that ends, revealed or reclaimed.                          *)
LEMMA CommitmentEnds ==
  ASSUME DaoInv, NEW p \in PendingIds, pendingDisputes[p].opener # Nobody,
         pendingDisputes' = [pendingDisputes EXCEPT ![p] = NoPending],
         UNCHANGED nextPendingId,
         NEW r, r = pendingDisputes[p].round, NEW bond, bond = pendingDisputes[p].bond
  PROVE  /\ r \in Rounds /\ bond \in Nat
         /\ pendingDisputes' \in [PendingIds -> PendingDispute]
         /\ \A q \in PendingIds :
              /\ q >= nextPendingId' => pendingDisputes'[q] = NoPending
              /\ pendingDisputes'[q].opener = Nobody => pendingDisputes'[q].bond = 0
              /\ pendingDisputes'[q].opener # Nobody => pendingDisputes'[q].round \in Rounds
         /\ Stages(r) = {p} /\ Known(r) = {} /\ Stages(r)' = {}
         /\ \A x \in Rounds \ {r} : Stages(x)' = Stages(x)
         /\ Total(BondsIn(pendingDisputes')) = Total(BondsIn(pendingDisputes)) + (0 - bond)
<1>1. NoPending \in PendingDispute /\ NoPending.opener = Nobody /\ NoPending.bond = 0
  BY DEF NoPending, PendingDispute
<1>2. pendingDisputes \in [PendingIds -> PendingDispute]
  BY DEF DaoInv, DaoTypeOK
<1>3. /\ pendingDisputes' \in [PendingIds -> PendingDispute]
      /\ pendingDisputes'[p] = NoPending
      /\ \A q \in PendingIds \ {p} : pendingDisputes'[q] = pendingDisputes[q]
  BY <1>1, <1>2
<1>4. r \in Rounds /\ bond \in Nat
  BY <1>2 DEF DaoInv, NumbersAreFresh, PendingDispute
<1>5. \A q \in PendingIds :
        /\ q >= nextPendingId' => pendingDisputes'[q] = NoPending
        /\ pendingDisputes'[q].opener = Nobody => pendingDisputes'[q].bond = 0
        /\ pendingDisputes'[q].opener # Nobody => pendingDisputes'[q].round \in Rounds
  BY <1>1, <1>3 DEF DaoInv, NumbersAreFresh
<1>6. Pending' = Pending \ {p} /\ p \in Pending
  BY <1>1, <1>2, <1>3 DEF Pending
<1>7. p \in Stages(r)
  BY <1>6 DEF Stages
<1>8. Stages(r) = {p} /\ Known(r) = {}
  BY <1>4, <1>7 DEF DaoInv, RoundsAreMarked, AtMostOne
<1>9. \A x : Stages(x)' = Stages(x) \ {p}
  BY <1>2, <1>3, <1>6 DEF Stages, Pending
<1>10. \A x \in Rounds \ {r} : p \notin Stages(x)
  BY DEF Stages
<1>11. Total(BondsIn(pendingDisputes')) = Total(BondsIn(pendingDisputes)) + (0 - bond)
  BY <1>1, <1>2, <1>3, BondsMove
<1>12. Stages(r)' = {} /\ \A x \in Rounds \ {r} : Stages(x)' = Stages(x)
  BY <1>8, <1>9, <1>10
<1> QED
  BY <1>3, <1>4, <1>5, <1>8, <1>11, <1>12

(* reclaimExpiredCommit: the round may be disputed anew.                   *)
LEMMA ReclaimStep ==
  ASSUME DaoInv, NEW p \in PendingIds, ReclaimExpiredCommit(p)
  PROVE  DaoInv'
<1>1. PICK r, bond : r = pendingDisputes[p].round /\ bond = pendingDisputes[p].bond
  OBVIOUS
<1>2. /\ pendingDisputes[p].opener # Nobody
      /\ roundDisputed' = [roundDisputed EXCEPT ![r] = FALSE]
      /\ pendingDisputes' = [pendingDisputes EXCEPT ![p] = NoPending]
      /\ treasure' = treasure - bond
      /\ UNCHANGED <<timestamp, arbitratorList, arbitratorIndex, arbitratorStake, stakedAt,
                     activeDisputeCount, nextPendingId, disputes, nextDisputeId>>
  BY <1>1 DEF ReclaimExpiredCommit, pool_vars, dispute_vars
<1>3. /\ r \in Rounds /\ bond \in Nat
      /\ pendingDisputes' \in [PendingIds -> PendingDispute]
      /\ \A q \in PendingIds :
           /\ q >= nextPendingId' => pendingDisputes'[q] = NoPending
           /\ pendingDisputes'[q].opener = Nobody => pendingDisputes'[q].bond = 0
           /\ pendingDisputes'[q].opener # Nobody => pendingDisputes'[q].round \in Rounds
      /\ Stages(r) = {p} /\ Known(r) = {} /\ Stages(r)' = {}
      /\ \A x \in Rounds \ {r} : Stages(x)' = Stages(x)
      /\ Total(BondsIn(pendingDisputes')) = Total(BondsIn(pendingDisputes)) + (0 - bond)
  BY <1>1, <1>2, CommitmentEnds
<1>4. DaoTypeOK'
  BY <1>2, <1>3 DEF DaoInv, DaoTypeOK
<1>5. NumbersAreFresh'
  BY <1>2, <1>3 DEF DaoInv, NumbersAreFresh
<1>6. PoolAgrees'
  BY <1>2 DEF DaoInv, PoolAgrees
<1>7. JudgesAreThere'
  BY <1>2, SameDisputes DEF DaoInv, JudgesAreThere
<1>8. RoundsAreMarked'
  <2>1. \A x : Known(x)' = Known(x)
    BY <1>2 DEF Known
  <2>2. \A x \in Rounds : roundDisputed'[x] = IF x = r THEN FALSE ELSE roundDisputed[x]
    BY <1>2 DEF DaoInv, DaoTypeOK
  <2>3. ASSUME NEW x \in Rounds
        PROVE  /\ AtMostOne(Stages(x)', Known(x)')
               /\ roundDisputed'[x] <=> Stages(x)' \cup Known(x)' # {}
    <3>1. CASE x = r
      <4>1. Stages(x)' = {} /\ Known(x)' = {}
        BY <1>3, <2>1, <3>1
      <4> QED
        BY <2>2, <3>1, <4>1 DEF AtMostOne
    <3>2. CASE x # r
      <4>1. Stages(x)' = Stages(x) /\ Known(x)' = Known(x)
        BY <1>3, <2>1, <3>2
      <4> QED
        BY <2>2, <3>2, <4>1 DEF DaoInv, RoundsAreMarked
    <3> QED
      BY <3>1, <3>2
  <2> QED
    BY <2>3 DEF RoundsAreMarked
<1>9. StakesAndBondsHeld'
  <2>1. 0 - bond \in Int /\ 0 \in Int
    BY <1>3
  <2>2. treasure' = treasure + 0 + (0 - bond) + 0
    BY <1>2, <1>3 DEF DaoInv, DaoTypeOK
  <2> QED
    BY <1>2, <1>3, <1>4, <2>1, <2>2, SameStakes, SameKept, BooksMove DEF DaoInv
<1> QED
  BY <1>4, <1>5, <1>6, <1>7, <1>8, <1>9 DEF DaoInv

-----------------------------------------------------------------------------
(* Disputes                                                                *)

(* One dispute more to judge, or one less.                                 *)
LEMMA OneMoreToJudge ==
  ASSUME NEW S \in SUBSET DisputeIds, NEW d \in DisputeIds \ S
  PROVE  Cardinality(S \cup {d}) = Cardinality(S) + 1
BY IdsFinite, FS_Subset, FS_AddElement

\* A dispute that is decided leaves those to judge (_resolve).
LEMMA OneLessToJudge ==
  ASSUME NEW S \in SUBSET DisputeIds, NEW d \in S
  PROVE  /\ Cardinality(S) \in Nat /\ Cardinality(S) > 0
         /\ Cardinality(S \ {d}) = Cardinality(S) - 1
<1>1. IsFiniteSet(S) /\ IsFiniteSet(S \ {d}) /\ S = (S \ {d}) \cup {d}
  BY IdsFinite, FS_Subset
<1>2. Cardinality(S \ {d}) \in Nat
  BY <1>1, FS_CardinalityType
<1>3. Cardinality((S \ {d}) \cup {d}) = Cardinality(S \ {d}) + 1
  BY <1>1, FS_AddElement
<1>4. Cardinality(S) = Cardinality(S \ {d}) + 1
  BY <1>1, <1>3
<1> QED
  BY <1>2, <1>4

(* revealDispute: the bond goes from the commitment to the dispute, and    *)
(* only arbitrators in the list are chosen.                                *)
LEMMA RevealStep ==
  ASSUME DaoInv, NEW p \in PendingIds, RevealDispute(p)
  PROVE  DaoInv'
<1>1. PICK r, bond, opener, d : /\ r = pendingDisputes[p].round
                                /\ bond = pendingDisputes[p].bond
                                /\ opener = pendingDisputes[p].opener
                                /\ d = nextDisputeId
  OBVIOUS
<1>2. PICK chosen \in kSubset(ARBITRATOR_COUNT, OldEnough) :
        /\ disputes' = [disputes EXCEPT ![d] =
             [opener |-> opener, round |-> r, bond |-> bond,
              deadline |-> timestamp + ARBITRATION_WINDOW, status |-> "OPEN",
              arbitrators |-> chosen, votes |-> disputes[d].votes]]
        /\ activeDisputeCount' = [j \in Arbitrators |->
             activeDisputeCount[j] + (IF j \in chosen THEN 1 ELSE 0)]
  BY <1>1 DEF RevealDispute
<1>3. /\ pendingDisputes[p].opener # Nobody /\ d <= MaxDisputes
      /\ nextDisputeId' = d + 1
      /\ pendingDisputes' = [pendingDisputes EXCEPT ![p] = NoPending]
      /\ UNCHANGED <<timestamp, arbitratorList, arbitratorIndex, arbitratorStake, stakedAt,
                     roundDisputed, nextPendingId, treasure>>
  BY <1>1 DEF RevealDispute, pool_vars
<1>4. /\ r \in Rounds /\ bond \in Nat
      /\ pendingDisputes' \in [PendingIds -> PendingDispute]
      /\ \A q \in PendingIds :
           /\ q >= nextPendingId' => pendingDisputes'[q] = NoPending
           /\ pendingDisputes'[q].opener = Nobody => pendingDisputes'[q].bond = 0
           /\ pendingDisputes'[q].opener # Nobody => pendingDisputes'[q].round \in Rounds
      /\ Stages(r) = {p} /\ Known(r) = {} /\ Stages(r)' = {}
      /\ \A x \in Rounds \ {r} : Stages(x)' = Stages(x)
      /\ Total(BondsIn(pendingDisputes')) = Total(BondsIn(pendingDisputes)) + (0 - bond)
  BY <1>1, <1>3, CommitmentEnds
<1>5. /\ DaoTypeOK /\ d \in Nat /\ d \in DisputeIds /\ opener \in Openers \cup {Nobody}
      /\ disputes[d].arbitrators = {} /\ disputes[d].bond = 0 /\ disputes[d].round = Nobody
      /\ disputes \in [DisputeIds -> Dispute] /\ disputes[d] \in Dispute
  <2>1. DaoTypeOK /\ d \in Nat \ {0}
    BY <1>1 DEF DaoInv, DaoTypeOK
  <2>2. d \in DisputeIds
    BY <1>3, <2>1, DaoAssumption DEF DisputeIds
  <2>3. /\ disputes[d].arbitrators = {} /\ disputes[d].bond = 0
        /\ disputes[d].round = Nobody
    BY <1>1, <2>1, <2>2 DEF DaoInv, NumbersAreFresh
  <2>4. opener \in Openers \cup {Nobody}
    BY <1>1, <2>1 DEF DaoTypeOK, PendingDispute
  <2>5. disputes \in [DisputeIds -> Dispute] /\ disputes[d] \in Dispute
    BY <2>1, <2>2 DEF DaoTypeOK
  <2> QED
    BY <2>1, <2>2, <2>3, <2>4, <2>5
<1>6. /\ chosen \subseteq Arbitrators /\ chosen # {}
      /\ \A j \in chosen : arbitratorIndex[j] # 0
  <2>1. chosen \subseteq OldEnough /\ Cardinality(chosen) = ARBITRATOR_COUNT
    BY <1>2 DEF kSubset
  <2>2. OldEnough \subseteq Range(arbitratorList)
    BY DEF OldEnough
  <2>3. chosen # {}
    BY <2>1, FS_EmptySet, DaoAssumption
  <2>4. ASSUME NEW j \in chosen
        PROVE  j \in Arbitrators /\ arbitratorIndex[j] # 0
    <3>1. PICK k \in DOMAIN arbitratorList : j = arbitratorList[k]
      BY <2>1, <2>2 DEF Range
    <3>2. k \in 1 .. Len(arbitratorList) /\ Len(arbitratorList) \in Nat
      BY <1>5, ListElements
    <3>3. j \in Arbitrators /\ arbitratorIndex[j] = k
      BY <1>5, <3>1, <3>2, ListElements DEF DaoInv, PoolAgrees
    <3> QED
      BY <3>2, <3>3
  <2> QED
    BY <2>3, <2>4
<1>7. PICK new : new = [opener |-> opener, round |-> r, bond |-> bond,
                        deadline |-> timestamp + ARBITRATION_WINDOW, status |-> "OPEN",
                        arbitrators |-> chosen, votes |-> disputes[d].votes]
  OBVIOUS
<1>8. /\ new \in Dispute /\ new.round = r /\ new.bond = bond /\ new.status = "OPEN"
      /\ new.arbitrators = chosen
  <2>1. timestamp + ARBITRATION_WINDOW \in Int /\ disputes[d].votes \in Votes
    BY <1>5, DaoAssumption DEF DaoTypeOK, Dispute
  <2> QED
    BY <1>4, <1>5, <1>6, <1>7, <2>1 DEF Dispute
<1>9. /\ disputes' \in [DisputeIds -> Dispute]
      /\ disputes'[d] = new
      /\ \A x \in DisputeIds \ {d} : disputes'[x] = disputes[x]
  <2>1. disputes' = [disputes EXCEPT ![d] = new]
    BY <1>2, <1>7
  <2> QED
    BY <1>5, <1>8, <2>1
<1>10. DaoTypeOK'
  <2>1. activeDisputeCount' \in [Arbitrators -> Nat]
    BY <1>2, <1>5 DEF DaoTypeOK
  <2> QED
    BY <1>3, <1>4, <1>5, <1>9, <2>1 DEF DaoTypeOK
<1>11. NumbersAreFresh'
  <2>1. ASSUME NEW x \in DisputeIds, x >= d + 1
        PROVE  /\ disputes'[x].arbitrators = {}
               /\ disputes'[x].bond = 0 /\ disputes'[x].round = Nobody
    <3>1. x \in Int /\ x # d /\ x >= d
      BY <1>5, <2>1, DaoAssumption DEF DisputeIds
    <3> QED
      BY <1>1, <1>9, <3>1 DEF DaoInv, NumbersAreFresh
  <2> QED
    BY <1>3, <1>4, <2>1 DEF NumbersAreFresh
<1>12. PoolAgrees'
  BY <1>3 DEF DaoInv, PoolAgrees
<1>13. JudgesAreThere'
  <2>1. Open' = Open \cup {d} /\ d \notin Open
    BY ZenonT(60), <1>5, <1>6, <1>8, <1>9 DEF Open
  <2>2. ASSUME NEW j \in Arbitrators
        PROVE  /\ activeDisputeCount'[j] = Cardinality(Judging(j)')
               /\ Judging(j)' # {} => arbitratorIndex'[j] # 0
    <3>1. Judging(j) \subseteq DisputeIds /\ d \notin Judging(j)
      BY <1>5, <2>1 DEF Judging, Open
    <3>2. CASE j \in chosen
      <4>1. Judging(j)' = Judging(j) \cup {d}
        BY <1>5, <1>8, <1>9, <2>1, <3>2 DEF Judging, Open
      <4>2. activeDisputeCount'[j] = activeDisputeCount[j] + 1
        BY <1>2, <3>2
      <4>3. Cardinality(Judging(j) \cup {d}) = Cardinality(Judging(j)) + 1
        BY <1>5, <3>1, OneMoreToJudge
      <4> QED
        BY <1>3, <1>6, <3>2, <4>1, <4>2, <4>3 DEF DaoInv, JudgesAreThere
    <3>3. CASE j \notin chosen
      <4>1. Judging(j)' = Judging(j)
        BY <1>5, <1>8, <1>9, <2>1, <3>3 DEF Judging, Open
      <4>2. activeDisputeCount'[j] = activeDisputeCount[j]
        BY <1>2, <1>5, <3>3 DEF DaoTypeOK
      <4> QED
        BY <1>3, <4>1, <4>2 DEF DaoInv, JudgesAreThere
    <3> QED
      BY <3>2, <3>3
  <2> QED
    BY <2>2 DEF JudgesAreThere
<1>14. RoundsAreMarked'
  <2>1. /\ Known(r)' = Known(r) \cup {d}
        /\ \A x \in Rounds \ {r} : Known(x)' = Known(x)
    BY <1>5, <1>8, <1>9, DaoAssumption DEF Known
  <2>2. ASSUME NEW x \in Rounds
        PROVE  /\ AtMostOne(Stages(x)', Known(x)')
               /\ roundDisputed'[x] <=> Stages(x)' \cup Known(x)' # {}
    <3>1. CASE x = r
      <4>1. Stages(x)' = {} /\ Known(x)' = {d} /\ Stages(x) \cup Known(x) # {}
        BY <1>4, <2>1, <3>1
      <4> QED
        BY <1>3, <3>1, <4>1 DEF AtMostOne, DaoInv, RoundsAreMarked
    <3>2. CASE x # r
      <4>1. Stages(x)' = Stages(x) /\ Known(x)' = Known(x)
        BY <1>4, <2>1, <3>2
      <4> QED
        BY <1>3, <4>1 DEF DaoInv, RoundsAreMarked
    <3> QED
      BY <3>1, <3>2
  <2> QED
    BY <2>2 DEF RoundsAreMarked
<1>15. StakesAndBondsHeld'
  <2>1. Kept(disputes[d]) = 0 /\ Kept(disputes'[d]) = bond
    <3>1. 0 % ARBITRATOR_COUNT = 0
      BY DaoAssumption
    <3> QED
      BY <1>5, <1>8, <1>9, <3>1 DEF Kept
  <2>2. Total(KeptIn(disputes')) = Total(KeptIn(disputes)) + (bond - 0)
    BY <1>5, <1>9, <2>1, KeptMoves
  <2>3. 0 - bond \in Int /\ bond - 0 \in Int /\ 0 \in Int
    BY <1>4
  <2>4. treasure' = treasure + 0 + (0 - bond) + (bond - 0)
    BY <1>3, <1>4, <1>5 DEF DaoTypeOK
  <2> QED
    BY <1>3, <1>4, <1>5, <1>10, <2>2, <2>3, <2>4, SameStakes, BooksMove DEF DaoInv
<1> QED
  BY <1>10, <1>11, <1>12, <1>13, <1>14, <1>15 DEF DaoInv

(* castVote: only the votes change.                                        *)
LEMMA VoteStep ==
  ASSUME DaoInv, NEW d \in DisputeIds, NEW j \in Arbitrators, NEW opinion \in BOOLEAN,
         Vote(d, j, opinion)
  PROVE  DaoInv'
<1>1. /\ disputes' = [disputes EXCEPT ![d].votes = Cast(disputes[d].votes, j, opinion)]
      /\ UNCHANGED <<timestamp, arbitratorList, arbitratorIndex, arbitratorStake, stakedAt,
                     activeDisputeCount, roundDisputed, pendingDisputes, nextPendingId,
                     nextDisputeId, treasure>>
  BY DEF Vote, pool_vars, pending_vars
<1>2. DaoTypeOK /\ disputes \in [DisputeIds -> Dispute] /\ disputes[d] \in Dispute
  BY DEF DaoInv, DaoTypeOK
<1>3. PICK votes : votes = Cast(disputes[d].votes, j, opinion)
  OBVIOUS
<1>4. votes \in Votes
  <2>1. PICK S \in SUBSET Arbitrators : disputes[d].votes \in [S -> BOOLEAN]
    BY <1>2 DEF Dispute, Votes
  <2>2. votes \in [S \cup {j} -> BOOLEAN]
    BY <1>3, <2>1 DEF Cast
  <2>3. S \cup {j} \in SUBSET Arbitrators
    BY <2>1
  <2> QED
    BY <2>2, <2>3 DEF Votes
<1>5. PICK new : new = [disputes[d] EXCEPT !.votes = votes]
  OBVIOUS
<1>6. /\ new \in Dispute /\ new.round = disputes[d].round /\ new.bond = disputes[d].bond
      /\ new.status = disputes[d].status /\ new.arbitrators = disputes[d].arbitrators
  BY <1>2, <1>4, <1>5 DEF Dispute
<1>7. /\ disputes' \in [DisputeIds -> Dispute] /\ disputes'[d] = new
      /\ \A x \in DisputeIds \ {d} : disputes'[x] = disputes[x]
  BY <1>1, <1>2, <1>3, <1>5, <1>6
<1>8. \A x \in DisputeIds :
        /\ disputes'[x].round = disputes[x].round /\ disputes'[x].bond = disputes[x].bond
        /\ disputes'[x].status = disputes[x].status
        /\ disputes'[x].arbitrators = disputes[x].arbitrators
  BY <1>6, <1>7
<1>9. DOMAIN disputes = DisputeIds /\ DOMAIN disputes' = DisputeIds
  BY <1>2, <1>7
<1>10. DaoTypeOK'
  BY <1>1, <1>2, <1>7 DEF DaoTypeOK
<1>11. NumbersAreFresh'
  BY <1>1, <1>8 DEF DaoInv, NumbersAreFresh
<1>12. PoolAgrees'
  BY <1>1 DEF DaoInv, PoolAgrees
<1>13. JudgesAreThere'
  <2>1. \A k : Judging(k)' = Judging(k)
    BY <1>8, <1>9 DEF Judging, Open
  <2> QED
    BY <1>1, <2>1 DEF DaoInv, JudgesAreThere
<1>14. RoundsAreMarked'
  <2>1. \A x : Known(x)' = Known(x) /\ Stages(x)' = Stages(x)
    BY <1>1, <1>8, <1>9 DEF Known, Stages, Pending
  <2> QED
    BY <1>1, <2>1 DEF DaoInv, RoundsAreMarked
<1>15. StakesAndBondsHeld'
  <2>1. keepings' = keepings
    BY <1>8, <1>9 DEF keepings, Kept
  <2> QED
    BY <1>1, <2>1 DEF DaoInv, StakesAndBondsHeld, bonds
<1> QED
  BY <1>10, <1>11, <1>12, <1>13, <1>14, <1>15 DEF DaoInv

(* What is not released stays in the books (resolveDispute).               *)
LEMMA ReleasedOrKept ==
  ASSUME DaoInv, NEW d \in DisputeIds, disputes[d].status = "OPEN",
         NEW new \in Dispute, new.bond = disputes[d].bond, new.status = Outcome(d)
  PROVE  /\ Released(d) \in Int
         /\ Kept(new) - Kept(disputes[d]) = 0 - Released(d)
<1>1. PICK bond : bond = disputes[d].bond
  OBVIOUS
<1>2. bond \in Nat /\ ARBITRATOR_COUNT \in Nat \ {0}
  BY <1>1, DaoAssumption DEF DaoInv, DaoTypeOK, Dispute
<1>3. Kept(disputes[d]) = bond
  BY <1>1 DEF Kept
<1>4. CASE Outcome(d) = "REJECTED"
  <2>1. /\ Released(d) = ARBITRATOR_COUNT * (bond \div ARBITRATOR_COUNT)
        /\ Kept(new) = bond % ARBITRATOR_COUNT
    BY <1>1, <1>4 DEF Released, Kept
  <2>2. PICK q, m : q = bond \div ARBITRATOR_COUNT /\ m = bond % ARBITRATOR_COUNT
    OBVIOUS
  <2>3. /\ q \in Int /\ m \in Int /\ ARBITRATOR_COUNT * q \in Int
        /\ bond = ARBITRATOR_COUNT * q + m
    BY <1>2, <2>2
  <2> QED
    BY <1>2, <1>3, <2>1, <2>2, <2>3
<1>5. CASE Outcome(d) # "REJECTED"
  <2>1. Outcome(d) \in {"UPHELD", "NO_MAJORITY"}
    BY <1>5 DEF Outcome
  <2>2. Released(d) = bond /\ Kept(new) = 0
    BY <1>1, <1>5, <2>1 DEF Released, Kept
  <2> QED
    BY <1>2, <1>3, <2>2
<1> QED
  BY <1>4, <1>5

(* resolveDispute, also of a dispute that was never opened.                *)
LEMMA ResolveStep ==
  ASSUME DaoInv, NEW d \in DisputeIds, ResolveDispute(d)
  PROVE  DaoInv'
<1>1. PICK old, outcome, released :
        old = disputes[d] /\ outcome = Outcome(d) /\ released = Released(d)
  OBVIOUS
<1>2. /\ old.status = "OPEN"
      /\ activeDisputeCount' = [j \in Arbitrators |->
           IF j \in old.arbitrators /\ activeDisputeCount[j] > 0
           THEN activeDisputeCount[j] - 1 ELSE activeDisputeCount[j]]
      /\ disputes' = [disputes EXCEPT ![d].status = outcome]
      /\ treasure' = treasure - released
      /\ UNCHANGED <<timestamp, arbitratorList, arbitratorIndex, arbitratorStake, stakedAt,
                     roundDisputed, pendingDisputes, nextPendingId, nextDisputeId>>
  BY <1>1 DEF ResolveDispute, pool_vars, pending_vars
<1>3. DaoTypeOK /\ disputes \in [DisputeIds -> Dispute] /\ old \in Dispute
  BY <1>1 DEF DaoInv, DaoTypeOK
<1>4. outcome \in {"UPHELD", "REJECTED", "NO_MAJORITY"}
  BY <1>1 DEF Outcome
<1>5. PICK new : new = [old EXCEPT !.status = outcome]
  OBVIOUS
<1>6. /\ new \in Dispute /\ new.round = old.round /\ new.bond = old.bond
      /\ new.status = outcome /\ new.arbitrators = old.arbitrators
  BY <1>3, <1>4, <1>5 DEF Dispute
<1>7. /\ disputes' \in [DisputeIds -> Dispute] /\ disputes'[d] = new
      /\ \A x \in DisputeIds \ {d} : disputes'[x] = disputes[x]
  BY <1>1, <1>2, <1>3, <1>5, <1>6
<1>8. \A x \in DisputeIds :
        /\ disputes'[x].round = disputes[x].round /\ disputes'[x].bond = disputes[x].bond
        /\ disputes'[x].arbitrators = disputes[x].arbitrators
  BY <1>1, <1>6, <1>7
<1>9. DOMAIN disputes = DisputeIds /\ DOMAIN disputes' = DisputeIds
  BY <1>3, <1>7
<1>10. released \in Int /\ Kept(new) - Kept(old) = 0 - released
  BY <1>1, <1>2, <1>6, ReleasedOrKept
<1>11. DaoTypeOK'
  <2>1. activeDisputeCount' \in [Arbitrators -> Nat]
    <3>1. activeDisputeCount \in [Arbitrators -> Nat]
      BY <1>3 DEF DaoTypeOK
    <3> QED
      BY <1>2, <3>1
  <2> QED
    BY <1>2, <1>3, <1>7, <1>10, <2>1 DEF DaoTypeOK
<1>12. NumbersAreFresh'
  BY <1>2, <1>8 DEF DaoInv, NumbersAreFresh
<1>13. PoolAgrees'
  BY <1>2 DEF DaoInv, PoolAgrees
<1>14. JudgesAreThere'
  <2>1. Open' = Open \ {d}
    BY <1>4, <1>6, <1>7, <1>9 DEF Open
  <2>2. d \in Open <=> old.arbitrators # {}
    BY <1>1, <1>2, <1>9 DEF Open
  <2>3. ASSUME NEW j \in Arbitrators
        PROVE  /\ activeDisputeCount'[j] = Cardinality(Judging(j)')
               /\ Judging(j)' # {} => arbitratorIndex'[j] # 0
    <3>1. Judging(j) \subseteq DisputeIds
      BY <1>9 DEF Judging, Open
    <3>2. Judging(j)' = Judging(j) \ {d}
      BY <1>8, <1>9, <2>1 DEF Judging, Open
    <3>3. CASE j \in old.arbitrators
      <4>1. d \in Judging(j)
        BY <1>1, <2>2, <3>3 DEF Judging
      <4>2. /\ Cardinality(Judging(j)) > 0
            /\ Cardinality(Judging(j) \ {d}) = Cardinality(Judging(j)) - 1
        BY <3>1, <4>1, OneLessToJudge
      <4>3. activeDisputeCount[j] = Cardinality(Judging(j)) /\ arbitratorIndex[j] # 0
        BY <4>1 DEF DaoInv, JudgesAreThere
      <4> QED
        BY <1>2, <3>2, <3>3, <4>2, <4>3
    <3>4. CASE j \notin old.arbitrators
      <4>1. Judging(j)' = Judging(j)
        BY <1>1, <3>2, <3>4 DEF Judging
      <4> QED
        BY <1>2, <3>4, <4>1 DEF DaoInv, JudgesAreThere
    <3> QED
      BY <3>3, <3>4
  <2> QED
    BY <2>3 DEF JudgesAreThere
<1>15. RoundsAreMarked'
  <2>1. \A x : Known(x)' = Known(x) /\ Stages(x)' = Stages(x)
    BY <1>2, <1>8, <1>9 DEF Known, Stages, Pending
  <2> QED
    BY <1>2, <2>1 DEF DaoInv, RoundsAreMarked
<1>16. StakesAndBondsHeld'
  <2>1. Total(KeptIn(disputes')) = Total(KeptIn(disputes)) + (0 - released)
    BY <1>1, <1>3, <1>7, <1>10, KeptMoves
  <2>2. 0 - released \in Int /\ 0 \in Int
    BY <1>10
  <2>3. treasure' = treasure + 0 + 0 + (0 - released)
    BY <1>2, <1>3, <1>10 DEF DaoTypeOK
  <2> QED
    BY <1>2, <1>3, <1>11, <2>1, <2>2, <2>3, SameStakes, SameBonds, BooksMove DEF DaoInv
<1> QED
  BY <1>11, <1>12, <1>13, <1>14, <1>15, <1>16 DEF DaoInv

-----------------------------------------------------------------------------
(* All steps                                                               *)

\* It holds at the deployment.
LEMMA DaoStarts == ASSUME DaoInit PROVE DaoInv
<1>1. /\ \A p \in PendingIds : pendingDisputes[p] = NoPending
      /\ \A d \in DisputeIds : disputes[d] = NoDispute
      /\ DOMAIN pendingDisputes = PendingIds /\ DOMAIN disputes = DisputeIds
  BY DEF DaoInit, PendingIds, DisputeIds
<1>2. /\ NoPending \in PendingDispute /\ NoPending.opener = Nobody /\ NoPending.bond = 0
      /\ NoPending.round = Nobody
  BY DEF NoPending, PendingDispute
<1>3. /\ NoDispute \in Dispute /\ NoDispute.arbitrators = {} /\ NoDispute.bond = 0
      /\ NoDispute.round = Nobody /\ NoDispute.status = "OPEN"
  <2>1. [j \in {} |-> TRUE] \in Votes
    <3>1. [j \in {} |-> TRUE] \in [{} -> BOOLEAN] /\ {} \in SUBSET Arbitrators
      OBVIOUS
    <3> QED
      BY <3>1 DEF Votes
  <2> QED
    BY <2>1 DEF NoDispute, Dispute
<1>4. /\ pendingDisputes \in [PendingIds -> PendingDispute]
      /\ disputes \in [DisputeIds -> Dispute]
  <2>1. /\ pendingDisputes = [p \in PendingIds |-> NoPending]
        /\ disputes = [d \in DisputeIds |-> NoDispute]
    BY DEF DaoInit, PendingIds, DisputeIds
  <2> QED
    BY <1>2, <1>3, <2>1
<1>5. DaoTypeOK
  BY <1>4 DEF DaoInit, DaoTypeOK
<1>6. NumbersAreFresh
  BY <1>1, <1>2, <1>3 DEF NumbersAreFresh
<1>7. PoolAgrees
  BY DEF DaoInit, PoolAgrees
<1>8. JudgesAreThere
  <2>1. \A j : Judging(j) = {}
    BY <1>1, <1>3 DEF Judging, Open
  <2> QED
    BY <2>1, FS_EmptySet DEF DaoInit, JudgesAreThere
<1>9. RoundsAreMarked
  <2>1. \A r \in Rounds : Stages(r) = {} /\ Known(r) = {}
    BY <1>1, <1>2, <1>3, DaoAssumption DEF Stages, Known, Pending
  <2> QED
    BY <2>1 DEF DaoInit, RoundsAreMarked, AtMostOne
<1>10. StakesAndBondsHeld
  <2>1. /\ DOMAIN bonds = PendingIds /\ \A p \in PendingIds : bonds[p] = 0
        /\ DOMAIN keepings = DisputeIds /\ \A d \in DisputeIds : keepings[d] = 0
    BY <1>1, <1>2, <1>3 DEF bonds, keepings, Kept
  <2>2. \A j \in Arbitrators : arbitratorStake[j] = 0
    BY DEF DaoInit
  <2>3. IsFiniteSet(Arbitrators)
    BY DaoAssumption
  <2>4. /\ SumFunctionOnSet(arbitratorStake, Arbitrators) = 0
        /\ SumFunctionOnSet(bonds, PendingIds) = 0
        /\ SumFunctionOnSet(keepings, DisputeIds) = 0
    BY <2>1, <2>2, <2>3, IdsFinite, SumZero
  <2> QED
    BY <2>1, <2>4 DEF StakesAndBondsHeld, DaoInit
<1> QED
  BY <1>5, <1>6, <1>7, <1>8, <1>9, <1>10 DEF DaoInv

(* Time touches nothing.                                                   *)
LEMMA NothingElseMoves ==
  ASSUME DaoInv, timestamp' \in Nat,
         UNCHANGED <<arbitratorList, arbitratorIndex, arbitratorStake, stakedAt,
                     activeDisputeCount, roundDisputed, pendingDisputes, nextPendingId,
                     disputes, nextDisputeId, treasure>>
  PROVE  DaoInv'
<1>1. DaoTypeOK' /\ NumbersAreFresh' /\ PoolAgrees'
  BY DEF DaoInv, DaoTypeOK, NumbersAreFresh, PoolAgrees
<1>2. JudgesAreThere' /\ RoundsAreMarked'
  BY SameDisputes, SameRounds DEF DaoInv, JudgesAreThere
<1>3. StakesAndBondsHeld'
  BY DEF DaoInv, StakesAndBondsHeld, bonds, keepings
<1> QED
  BY <1>1, <1>2, <1>3 DEF DaoInv

\* Every transaction keeps it.
LEMMA DaoStep ==
  ASSUME DaoInv, [DaoNext]_dao_vars
  PROVE  DaoInv'
<1>1. DOMAIN disputes = DisputeIds /\ DOMAIN pendingDisputes = PendingIds
  BY DEF DaoInv, DaoTypeOK
<1>2. CASE Timestamp
  <2>1. timestamp' \in Nat
    BY <1>2 DEF Timestamp, DaoInv, DaoTypeOK
  <2> QED
    BY <1>2, <2>1, NothingElseMoves DEF Timestamp, pool_vars, pending_vars, dispute_vars
<1>3. ASSUME NEW j \in Arbitrators, NEW stake \in Stakes, RegisterArbitrator(j, stake)
      PROVE  DaoInv'
  BY <1>3, RegisterStep
<1>4. ASSUME NEW j \in Arbitrators, UnregisterArbitrator(j)
      PROVE  DaoInv'
  BY <1>4, UnregisterStep
<1>5. ASSUME NEW j \in Arbitrators, NEW d \in DOMAIN disputes, NEW opinion \in BOOLEAN,
             Vote(d, j, opinion)
      PROVE  DaoInv'
  BY <1>1, <1>5, VoteStep
<1>6. ASSUME NEW who \in Openers, NEW r \in Rounds, NEW bond \in Bonds,
             CommitDispute(who, r, bond)
      PROVE  DaoInv'
  BY <1>6, CommitStep
<1>7. ASSUME NEW p \in DOMAIN pendingDisputes, RevealDispute(p)
      PROVE  DaoInv'
  BY <1>1, <1>7, RevealStep
<1>8. ASSUME NEW p \in DOMAIN pendingDisputes, ReclaimExpiredCommit(p)
      PROVE  DaoInv'
  BY <1>1, <1>8, ReclaimStep
<1>9. ASSUME NEW d \in DOMAIN disputes, ResolveDispute(d)
      PROVE  DaoInv'
  BY <1>1, <1>9, ResolveStep
<1>10. CASE UNCHANGED dao_vars
  <2>1. timestamp' \in Nat
    BY <1>10 DEF dao_vars, DaoInv, DaoTypeOK
  <2> QED
    BY <1>10, <2>1, NothingElseMoves DEF dao_vars, pool_vars, pending_vars, dispute_vars
<1> QED
  BY <1>2, <1>3, <1>4, <1>5, <1>6, <1>7, <1>8, <1>9, <1>10 DEF DaoNext

(* No dispute loses its judges, no round is disputed twice, and the        *)
(* contract can pay every stake and bond (ArbitrationDAO.sol).             *)
THEOREM DisputesAlwaysStand == DaoSpec => []DisputesStand
<1>1. DaoInit => DaoInv
  BY DaoStarts
<1>2. DaoInv /\ [DaoNext]_dao_vars => DaoInv'
  BY DaoStep
<1>3. DaoInv => DisputesStand
  BY DaoInvStands
<1> QED
  BY <1>1, <1>2, <1>3, PTL DEF DaoSpec

-----------------------------------------------------------------------------
(***************************************************************************)
(* Seasons: the board holds the best agents after every round.             *)
(***************************************************************************)

(* Induction along an interval, with the property given as the set D of    *)
(* the numbers that have it.                                               *)
LEMMA IntervalInduction ==
  ASSUME NEW n \in Nat, NEW D, 0 \in D, \A k \in 0 .. n - 1 : k \in D => k + 1 \in D
  PROVE  n \in D
<1> DEFINE E == {T \in SUBSET (1 .. n) : \A k \in 0 .. n : T = 1 .. k => k \in D}
<1>1. ASSUME NEW T \in SUBSET (1 .. n), \A U \in SUBSET T : U # T => U \in E
      PROVE  T \in E
  <2> SUFFICES ASSUME NEW k \in 0 .. n, T = 1 .. k PROVE k \in D
    OBVIOUS
  <2>1. CASE k = 0
    BY <2>1
  <2>2. CASE k > 0
    <3>1. k - 1 \in 0 .. n - 1 /\ k \in 1 .. k /\ k \notin 1 .. (k - 1)
      BY <2>2
    <3>2. 1 .. (k - 1) \in SUBSET T /\ 1 .. (k - 1) # T
      BY <3>1
    <3>3. 1 .. (k - 1) \in E
      BY <1>1, <3>2
    <3>4. k - 1 \in D
      BY <3>1, <3>3
    <3> QED
      BY <3>1, <3>4
  <2> QED
    BY <2>1, <2>2
<1>2. IsFiniteSet(1 .. n)
  BY FS_Interval
<1>3. 1 .. n \in E
  <2> DEFINE I == 1 .. n
  <2>1. IsFiniteSet(I)
    BY <1>2
  <2>2. \A T \in SUBSET I : (\A U \in SUBSET T : U # T => U \in E) => T \in E
    BY <1>1
  <2> HIDE DEF E, I
  <2>3. I \in E
    BY <2>1, <2>2, SubsetInduction
  <2> QED
    BY <2>3 DEF I
<1> QED
  BY <1>3

(* The greatest element of a set of small numbers.                         *)
LEMMA GreatestExists ==
  ASSUME NEW n \in Nat, NEW S \in SUBSET (0 .. n), S # {}
  PROVE  Max(S) \in S /\ \A y \in S : y <= Max(S)
<1> DEFINE D == {m \in 0 .. n : \/ \A y \in S : y > m
                               \/ \E x \in S : x <= m /\ \A y \in S : y <= m => y <= x}
<1>1. 0 \in D
  OBVIOUS
<1>2. ASSUME NEW k \in 0 .. n - 1, k \in D PROVE k + 1 \in D
  <2>1. CASE k + 1 \in S
    <3>1. k + 1 <= k + 1 /\ \A y \in S : y <= k + 1 => y <= k + 1
      OBVIOUS
    <3> QED
      BY <2>1, <3>1
  <2>2. CASE k + 1 \notin S
    <3>1. \A y \in S : y <= k + 1 <=> y <= k
      BY <2>2
    <3> QED
      BY <1>2, <3>1
  <2> QED
    BY <2>1, <2>2
<1>3. n \in D
  <2> HIDE DEF D
  <2> QED
    BY <1>1, <1>2, IntervalInduction
<1>4. PICK x \in S : \A y \in S : y <= x
  <2>1. \A y \in S : y \in Nat /\ y <= n
    OBVIOUS
  <2>2. ~\A y \in S : y > n
    <3>1. PICK z \in S : TRUE
      OBVIOUS
    <3>2. z \in Nat /\ z <= n
      BY <2>1
    <3>3. ~(z > n)
      BY <3>2
    <3> QED
      BY <3>3
  <2>3. \E x \in S : x <= n /\ \A y \in S : y <= n => y <= x
    BY <1>3, <2>2
  <2> QED
    BY <2>1, <2>3
<1> QED
  BY <1>4 DEF Max

(* A board that is in order but for the entry at idx, which is too low.    *)
Sorted(top, points) ==
  \A i, j \in DOMAIN top : i < j => points[top[i]] >= points[top[j]]

AlmostSorted(top, points, idx) ==
  \A i, j \in DOMAIN top : i < j /\ j # idx => points[top[i]] >= points[top[j]]

Reordered(new, top, points) ==
  /\ new \in Seq(Competitors) /\ Len(new) = Len(top)
  /\ IsInjective(new) /\ Range(new) = Range(top) /\ Sorted(new, points)

LEMMA BubbleUp ==
  ASSUME NEW points \in [Competitors -> Nat], NEW top \in Seq(Competitors), IsInjective(top),
         NEW idx \in DOMAIN top, AlmostSorted(top, points, idx),
         NEW new, new = _bubbleUp(top, idx, points)
  PROVE  Reordered(new, top, points)
<1> DEFINE n     == Len(top)
           v     == points[top[idx]]
           stops == {k \in 1 .. idx - 1 : points[top[k]] >= v}
           place == Max(stops \cup {0}) + 1
           from(k) == IF k = place THEN idx ELSE IF k \in place + 1 .. idx THEN k - 1 ELSE k
<1>1. n \in Nat /\ DOMAIN top = 1 .. n /\ idx \in 1 .. n
  OBVIOUS
<1>2. \A k \in 1 .. n : top[k] \in Competitors /\ points[top[k]] \in Nat
  BY <1>1
<1>3. v \in Nat
  BY <1>1, <1>2
<1>4. /\ stops \cup {0} \in SUBSET (0 .. idx) /\ stops \cup {0} # {} /\ idx \in Nat
  BY <1>1
<1>5. new = [k \in 1 .. n |-> IF k = place THEN top[idx]
                              ELSE IF k \in place + 1 .. idx THEN top[k - 1] ELSE top[k]]
  BY <1>1 DEF _bubbleUp
<1> DEFINE m == Max(stops \cup {0})
<1>6. m \in stops \cup {0} /\ \A y \in stops \cup {0} : y <= m
  <2> DEFINE S == stops \cup {0}
  <2>1. S \in SUBSET (0 .. idx) /\ S # {} /\ idx \in Nat
    BY <1>4
  <2> HIDE DEF S
  <2>2. Max(S) \in S /\ \A y \in S : y <= Max(S)
    BY <2>1, GreatestExists
  <2> QED
    BY <2>2 DEF S
<1> HIDE DEF m, n
<1>7. place = m + 1 /\ place \in 1 .. idx
  BY <1>1, <1>6 DEF m
<1> HIDE DEF v
<1>8. \A k \in 1 .. n : k < place => points[top[k]] >= v
  <2>1. m > 0 => m \in 1 .. idx - 1 /\ points[top[m]] >= v
    BY <1>6
  <2> HIDE DEF stops
  <2> SUFFICES ASSUME NEW k \in 1 .. n, k < place PROVE points[top[k]] >= v
    OBVIOUS
  <2>2. m \in 1 .. n /\ m # idx /\ k <= m /\ points[top[m]] >= v
    <3>1. m \in Int
      BY <1>4, <1>6 DEF stops
    <3>2. k <= m /\ m > 0
      BY <1>7, <3>1
    <3> QED
      BY <1>1, <2>1, <3>2
  <2>3. k < m => points[top[k]] >= points[top[m]]
    BY <1>1, <2>2 DEF AlmostSorted
  <2> QED
    BY <1>2, <1>3, <2>2, <2>3
<1>9. \A k \in 1 .. n : k >= place /\ k < idx => points[top[k]] < v
  BY <1>1, <1>2, <1>3, <1>6, <1>7
<1> HIDE DEF place, stops
<1>10. \A k \in 1 .. n : from(k) \in 1 .. n /\ new[k] = top[from(k)]
  BY <1>1, <1>5, <1>7
<1>11. \A i, j \in 1 .. n : from(i) = from(j) => i = j
  BY <1>1, <1>7
<1>12. ASSUME NEW j \in 1 .. n PROVE \E i \in 1 .. n : from(i) = j
  <2>1. CASE j = idx
    <3>1. from(place) = j /\ place \in 1 .. n
      BY <1>1, <1>7, <2>1
    <3> QED
      BY <3>1
  <2>2. CASE j \in place .. idx - 1
    <3>1. from(j + 1) = j /\ j + 1 \in 1 .. n
      BY <1>1, <1>7, <2>2
    <3> QED
      BY <3>1
  <2>3. CASE j # idx /\ j \notin place .. idx - 1
    <3>1. from(j) = j
      BY <1>1, <1>7, <2>3
    <3> QED
      BY <3>1
  <2> QED
    BY <2>1, <2>2, <2>3
<1>13. new \in [1 .. n -> Competitors]
  BY <1>2, <1>5, <1>10
<1>14. new \in Seq(Competitors) /\ Len(new) = n /\ DOMAIN new = 1 .. n
  BY <1>1, <1>13
<1>15. ASSUME NEW i \in 1 .. n, NEW j \in 1 .. n, i < j
       PROVE  points[new[i]] >= points[new[j]]
  <2>1. new[i] = top[from(i)] /\ new[j] = top[from(j)]
    BY <1>10
  <2>2. CASE i = place
    <3>1. from(i) = idx
      BY <2>2
    <3>2. CASE j <= idx
      <4>1. from(j) = j - 1 /\ j - 1 \in 1 .. n /\ j - 1 >= place /\ j - 1 < idx
        BY <1>1, <1>7, <1>15, <2>2, <3>2
      <4>2. points[top[j - 1]] < v
        BY <1>9, <4>1
      <4> QED
        BY <1>2, <1>3, <2>1, <3>1, <4>1, <4>2 DEF v
    <3>3. CASE j > idx
      <4>1. from(j) = j
        BY <1>1, <1>7, <2>2, <3>3
      <4>2. points[top[idx]] >= points[top[j]]
        BY <1>1, <3>3 DEF AlmostSorted
      <4> QED
        BY <2>1, <3>1, <4>1, <4>2
    <3> QED
      BY <1>1, <3>2, <3>3
  <2>3. CASE j = place
    <3>1. from(j) = idx /\ from(i) = i
      BY <1>7, <1>15, <2>3
    <3>2. points[top[i]] >= v
      BY <1>8, <1>15, <2>3
    <3> QED
      BY <2>1, <3>1, <3>2 DEF v
  <2>4. CASE i # place /\ j # place
    <3>1. from(i) < from(j) /\ from(i) # idx /\ from(j) # idx
      BY SMTT(60), <1>1, <1>7, <1>15, <2>4
    <3>2. from(i) \in 1 .. n /\ from(j) \in 1 .. n
      BY <1>10
    <3> HIDE DEF from
    <3> QED
      BY <1>1, <2>1, <3>1, <3>2 DEF AlmostSorted
  <2> QED
    BY <2>2, <2>3, <2>4
<1>16. Sorted(new, points)
  BY <1>14, <1>15 DEF Sorted
<1> HIDE DEF from
<1>17. IsInjective(new)
  BY <1>1, <1>10, <1>11, <1>14 DEF IsInjective
<1>18. Range(new) = Range(top)
  <2>1. \A x : x \in Range(new) <=> \E i \in 1 .. n : x = new[i]
    BY <1>14 DEF Range
  <2>2. \A x : x \in Range(top) <=> \E i \in 1 .. n : x = top[i]
    BY <1>1 DEF Range
  <2>3. ASSUME NEW x PROVE x \in Range(new) => x \in Range(top)
    BY <1>10, <2>1, <2>2
  <2>4. ASSUME NEW j \in 1 .. n PROVE top[j] \in Range(new)
    <3>1. PICK i \in 1 .. n : from(i) = j
      BY <1>12
    <3>2. new[i] = top[j]
      BY <1>10, <3>1
    <3> QED
      BY <2>1, <3>2
  <2>5. ASSUME NEW x PROVE x \in Range(top) => x \in Range(new)
    BY <2>2, <2>4
  <2> QED
    BY <2>3, <2>5
<1> QED
  BY <1>14, <1>16, <1>17, <1>18 DEF Reordered, n

(* What a board is: the points of all, and the best of those who have any. *)
BoardOK(points, top) ==
  /\ points \in [Competitors -> Nat] /\ top \in Seq(Competitors)
  /\ IsInjective(top) /\ Sorted(top, points)
  /\ Len(top) <= MAX_LEADERBOARD_SIZE
  /\ \A a \in Range(top) : points[a] > 0
  /\ Len(top) < MAX_LEADERBOARD_SIZE =>
       \A a \in Competitors : points[a] > 0 => a \in Range(top)
  /\ \A a \in Competitors \ Range(top), b \in Range(top) : points[a] <= points[b]

(* Every place brings some points.                                         *)
LEMMA PointsForAll ==
  ASSUME NEW rank \in Nat \ {0}
  PROVE  _pointsForRank(rank) \in Nat \ {0}
BY DEF _pointsForRank

(* One more agent, with more points than before, leaves a board: whether   *)
(* it is on the board, comes to its end, takes the last place or none.     *)
LEMMA OneMoreAgent ==
  ASSUME SeasonAssumption, NEW old, NEW top, BoardOK(old, top), NEW a \in Competitors,
         NEW pts \in Nat \ {0}, NEW points, points = [old EXCEPT ![a] = @ + pts]
  PROVE  BoardOK(points, _updateLeaderboard(top, a, points, pts))
<1> DEFINE n   == Len(top)
           max == MAX_LEADERBOARD_SIZE
           new == _updateLeaderboard(top, a, points, pts)
<1>1. /\ old \in [Competitors -> Nat] /\ top \in Seq(Competitors)
      /\ IsInjective(top) /\ Sorted(top, old)
      /\ n <= max /\ \A b \in Range(top) : old[b] > 0
      /\ n < max => \A b \in Competitors : old[b] > 0 => b \in Range(top)
      /\ \A b \in Competitors \ Range(top), c \in Range(top) : old[b] <= old[c]
  BY DEF BoardOK
<1>2. /\ points \in [Competitors -> Nat] /\ points[a] = old[a] + pts /\ points[a] > 0
      /\ points[a] > old[a]
      /\ \A b \in Competitors : b # a => points[b] = old[b]
  BY <1>1
<1>3. \A b \in Competitors : old[b] \in Nat /\ points[b] \in Nat /\ old[b] <= points[b]
  BY <1>1, <1>2
<1>4. n \in Nat /\ DOMAIN top = 1 .. n /\ max \in Nat \ {0}
  BY <1>1 DEF SeasonAssumption
<1>5. \A i \in 1 .. n : top[i] \in Competitors /\ top[i] \in Range(top)
  BY <1>1, <1>4 DEF Range
<1>6. \A b \in Range(top) : \E i \in 1 .. n : b = top[i]
  BY <1>4 DEF Range
<1>7. CASE a \in Range(top)
  <2> DEFINE idx == PlaceOf(top, a)
  <2>1. idx \in 1 .. n /\ top[idx] = a
    BY <1>4, <1>6, <1>7 DEF PlaceOf
  <2>2. new = _bubbleUp(top, idx, points)
    BY <1>7 DEF _updateLeaderboard
  <2> HIDE DEF idx, new
  <2>3. \A i, j \in DOMAIN top : i < j /\ j # idx => points[top[i]] >= points[top[j]]
    <3> SUFFICES ASSUME NEW i \in 1 .. n, NEW j \in 1 .. n, i < j, j # idx
                 PROVE  points[top[i]] >= points[top[j]]
      BY <1>4
    <3>1. top[j] # a
      BY <1>1, <1>4, <2>1 DEF IsInjective
    <3>2. points[top[j]] = old[top[j]] /\ old[top[i]] <= points[top[i]]
      BY <1>2, <1>3, <1>5, <3>1
    <3>3. old[top[i]] >= old[top[j]]
      BY <1>1, <1>4 DEF Sorted
    <3>4. /\ old[top[i]] \in Nat /\ old[top[j]] \in Nat
          /\ points[top[i]] \in Nat /\ points[top[j]] \in Nat
      BY <1>3, <1>5
    <3> QED
      BY <3>2, <3>3, <3>4
  <2>4. /\ new \in Seq(Competitors) /\ Len(new) = n
        /\ IsInjective(new) /\ Range(new) = Range(top) /\ Sorted(new, points)
    <3>1. idx \in DOMAIN top /\ AlmostSorted(top, points, idx)
      BY <1>4, <2>1, <2>3 DEF AlmostSorted
    <3>2. Reordered(new, top, points)
      BY <1>1, <1>2, <2>2, <3>1, BubbleUp
    <3> QED
      BY <3>2 DEF Reordered
  <2>5. \A b \in Range(top) : b \in Competitors /\ points[b] > 0
    BY SMTT(60), <1>1, <1>3, <1>5, <1>6
  <2>6. n < max => \A b \in Competitors : points[b] > 0 => b \in Range(top)
    BY <1>1, <1>2, <1>7
  <2>7. \A b \in Competitors \ Range(top), c \in Range(top) : points[b] <= points[c]
    <3> SUFFICES ASSUME NEW b \in Competitors \ Range(top), NEW c \in Range(top)
                 PROVE  points[b] <= points[c]
      OBVIOUS
    <3>1. points[b] = old[b] /\ old[b] <= old[c] /\ old[c] <= points[c]
      BY <1>1, <1>2, <1>3, <1>7, <2>5
    <3> QED
      BY <1>3, <2>5, <3>1
  <2> HIDE DEF n, max
  <2>8. BoardOK(points, new)
    BY <1>1, <1>2, <2>4, <2>5, <2>6, <2>7 DEF BoardOK, n, max
  <2> QED
    BY <2>8 DEF new
<1>8. CASE a \notin Range(top) /\ n < max
  <2> DEFINE more == Append(top, a)
  <2>1. new = _bubbleUp(more, n + 1, points)
    BY <1>8 DEF _updateLeaderboard
  <2>2. /\ more \in Seq(Competitors) /\ Len(more) = n + 1 /\ DOMAIN more = 1 .. n + 1
        /\ \A i \in 1 .. n : more[i] = top[i]
        /\ more[n + 1] = a
    BY <1>1, <1>4
  <2> HIDE DEF more, new
  <2>3. \A i \in 1 .. n + 1 : i \in 1 .. n \/ i = n + 1
    BY <1>4
  <2>4. IsInjective(more)
    BY <1>1, <1>4, <1>5, <1>8, <2>2, <2>3 DEF IsInjective
  <2>5. \A i, j \in DOMAIN more : i < j /\ j # n + 1 => points[more[i]] >= points[more[j]]
    <3> SUFFICES ASSUME NEW i \in 1 .. n + 1, NEW j \in 1 .. n + 1, i < j, j # n + 1
                 PROVE  points[more[i]] >= points[more[j]]
      BY <2>2
    <3>1. i \in 1 .. n /\ j \in 1 .. n
      BY <1>4
    <3>2. top[i] # a /\ top[j] # a /\ more[i] = top[i] /\ more[j] = top[j]
      BY <1>5, <1>8, <2>2, <3>1
    <3>3. old[top[i]] >= old[top[j]]
      BY <1>1, <1>4, <3>1 DEF Sorted
    <3> QED
      BY <1>2, <1>5, <3>1, <3>2, <3>3
  <2>6. n + 1 \in DOMAIN more
    BY <1>4, <2>2
  <2>7. /\ new \in Seq(Competitors) /\ Len(new) = n + 1
        /\ IsInjective(new) /\ Range(new) = Range(more) /\ Sorted(new, points)
    <3> DEFINE last == n + 1
    <3>1. last \in DOMAIN more /\ AlmostSorted(more, points, last)
      BY <2>5, <2>6 DEF AlmostSorted
    <3>2. new = _bubbleUp(more, last, points)
      BY <2>1
    <3> HIDE DEF last
    <3>3. Reordered(new, more, points)
      BY <1>2, <2>2, <2>4, <3>1, <3>2, BubbleUp
    <3> QED
      BY <2>2, <3>3 DEF Reordered
  <2>8. Range(new) = Range(top) \cup {a}
    <3>1. \A b : b \in Range(more) <=> \E i \in 1 .. n + 1 : b = more[i]
      BY <2>2 DEF Range
    <3>2. \A b : b \in Range(top) <=> \E i \in 1 .. n : b = top[i]
      BY <1>4 DEF Range
    <3>3. n + 1 \in 1 .. n + 1 /\ \A i \in 1 .. n : i \in 1 .. n + 1
      BY <1>4
    <3>4. ASSUME NEW b PROVE b \in Range(more) <=> b \in Range(top) \cup {a}
      BY SMTT(60), <2>2, <2>3, <3>1, <3>2, <3>3
    <3> QED
      BY <2>7, <3>4
  <2>9. \A b \in Range(top) : b \in Competitors /\ b # a /\ old[b] > 0
    BY <1>1, <1>5, <1>6, <1>8
  <2>10. \A b \in Range(new) : points[b] > 0
    BY <1>2, <2>8, <2>9
  <2>11. \A b \in Competitors : points[b] > 0 => b \in Range(new)
    BY <1>1, <1>2, <1>8, <2>8
  <2>12. \A b \in Competitors \ Range(new), c \in Range(new) : points[b] <= points[c]
    <3> SUFFICES ASSUME NEW b \in Competitors \ Range(new), NEW c \in Range(new)
                 PROVE  points[b] <= points[c]
      OBVIOUS
    <3>1. points[b] \in Nat /\ ~(points[b] > 0)
      BY <1>3, <2>11
    <3>2. c \in Competitors
      BY <2>8, <2>9
    <3>3. points[c] \in Nat
      BY <1>3, <3>2
    <3> QED
      BY <3>1, <3>3
  <2>13. n + 1 <= max
    BY <1>4, <1>8
  <2>14. BoardOK(points, new)
    BY <1>2, <2>7, <2>10, <2>11, <2>12, <2>13 DEF BoardOK
  <2> QED
    BY <2>14 DEF new
<1>9. CASE a \notin Range(top) /\ n >= max /\ ~(points[a] > points[top[n]])
  <2>1. new = top
    BY <1>9 DEF _updateLeaderboard
  <2>2. n = max /\ n \in 1 .. n
    <3>1. n >= max /\ n <= max
      BY <1>1, <1>9
    <3> QED
      BY <1>4, <3>1
  <2>3. \A b \in Range(top) : b \in Competitors /\ b # a /\ points[b] = old[b]
    BY <1>2, <1>5, <1>6, <1>9
  <2>4. Sorted(top, points)
    BY <1>1, <1>4, <1>5, <2>3 DEF Sorted
  <2>5. \A c \in Range(top) : points[a] <= points[c]
    <3> SUFFICES ASSUME NEW c \in Range(top) PROVE points[a] <= points[c]
      OBVIOUS
    <3>1. PICK i \in 1 .. n : c = top[i]
      BY <1>6
    <3>2. i < n => points[top[i]] >= points[top[n]]
      BY <1>4, <2>2, <2>4 DEF Sorted
    <3>3. points[top[i]] >= points[top[n]]
      BY <1>3, <1>5, <2>2, <3>2
    <3>4. points[a] <= points[top[n]]
      BY <1>3, <1>5, <1>9, <2>2
    <3> QED
      BY <1>3, <1>5, <2>2, <3>1, <3>3, <3>4
  <2>6. \A b \in Competitors \ Range(top), c \in Range(top) : points[b] <= points[c]
    BY <1>1, <1>2, <2>3, <2>5
  <2>7. \A b \in Range(top) : points[b] > 0
    BY <1>1, <2>3
  <2>8. ~(n < max) /\ n <= max
    BY <1>4, <2>2
  <2> HIDE DEF new
  <2>9. BoardOK(points, top)
    BY <1>1, <1>2, <2>4, <2>6, <2>7, <2>8 DEF BoardOK
  <2> QED
    BY <2>1, <2>9 DEF new
<1>10. CASE a \notin Range(top) /\ n >= max /\ points[a] > points[top[n]]
  <2> DEFINE repl == [top EXCEPT ![n] = a]
             out  == top[n]
  <2>1. new = _bubbleUp(repl, n, points)
    BY <1>10 DEF _updateLeaderboard
  <2>2. n = max /\ n \in 1 .. n
    <3>1. n >= max /\ n <= max
      BY <1>1, <1>10
    <3> QED
      BY <1>4, <3>1
  <2>3. /\ repl \in Seq(Competitors) /\ Len(repl) = n /\ DOMAIN repl = 1 .. n
        /\ \A i \in 1 .. n : repl[i] = IF i = n THEN a ELSE top[i]
    BY <1>1, <1>4, <2>2
  <2> HIDE DEF repl, new
  <2>4. IsInjective(repl)
    <3> SUFFICES ASSUME NEW i \in 1 .. n, NEW j \in 1 .. n, repl[i] = repl[j]
                 PROVE  i = j
      BY <2>3 DEF IsInjective
    <3>1. top[i] = top[j] => i = j
      BY <1>1, <1>4 DEF IsInjective
    <3>2. top[i] # a /\ top[j] # a
      BY <1>5, <1>10
    <3> QED
      BY <2>3, <3>1, <3>2
  <2>5. \A i \in 1 .. n : top[i] # a /\ points[top[i]] = old[top[i]]
    BY <1>2, <1>5, <1>10
  <2>6. \A i \in 1 .. n : points[top[i]] >= points[out]
    <3> SUFFICES ASSUME NEW i \in 1 .. n PROVE points[top[i]] >= points[out]
      OBVIOUS
    <3>1. i < n => old[top[i]] >= old[out]
      BY <1>1, <1>4, <2>2 DEF Sorted
    <3> QED
      BY <1>3, <1>5, <2>2, <2>5, <3>1
  <2>7. AlmostSorted(repl, points, n)
    <3> SUFFICES ASSUME NEW i \in 1 .. n, NEW j \in 1 .. n, i < j, j # n
                 PROVE  points[repl[i]] >= points[repl[j]]
      BY <2>3 DEF AlmostSorted
    <3>1. repl[i] = top[i] /\ repl[j] = top[j]
      BY <1>4, <2>3
    <3>2. old[top[i]] >= old[top[j]]
      BY <1>1, <1>4 DEF Sorted
    <3> QED
      BY <2>5, <3>1, <3>2
  <2>8. Reordered(new, repl, points)
    BY <1>2, <2>1, <2>2, <2>3, <2>4, <2>7, BubbleUp
  <2>9. Range(new) = (Range(top) \ {out}) \cup {a}
    <3>1. \A b : b \in Range(repl) <=> \E i \in 1 .. n : b = repl[i]
      BY <2>3 DEF Range
    <3>2. \A b : b \in Range(top) <=> \E i \in 1 .. n : b = top[i]
      BY <1>4 DEF Range
    <3>3. \A i \in 1 .. n : i # n => top[i] # out
      BY <1>1, <1>4, <2>2 DEF IsInjective
    <3>4. ASSUME NEW b PROVE b \in Range(repl) => b \in (Range(top) \ {out}) \cup {a}
      BY <2>3, <3>1, <3>2, <3>3
    <3>5. ASSUME NEW b, b \in (Range(top) \ {out}) \cup {a} PROVE b \in Range(repl)
      <4>1. CASE b = a
        BY <2>2, <2>3, <3>1, <4>1
      <4>2. CASE b # a
        <5>1. PICK i \in 1 .. n : b = top[i]
          BY <3>2, <3>5, <4>2
        <5>2. i # n
          BY <3>5, <4>2, <5>1
        <5>3. b = repl[i]
          BY <2>3, <5>1, <5>2
        <5> QED
          BY <3>1, <5>3
      <4> QED
        BY <4>1, <4>2
    <3>6. Range(repl) = (Range(top) \ {out}) \cup {a}
      BY <3>4, <3>5
    <3> QED
      BY <2>8, <3>6 DEF Reordered
  <2>10. out \in Range(top) /\ out \in Competitors /\ out # a
    BY <1>5, <2>2, <2>5
  <2>11. \A b \in Range(top) : b \in Competitors /\ points[b] > 0 /\ points[out] <= points[b]
    <3> SUFFICES ASSUME NEW b \in Range(top)
                 PROVE  b \in Competitors /\ points[b] > 0 /\ points[out] <= points[b]
      OBVIOUS
    <3>1. PICK i \in 1 .. n : b = top[i]
      BY <1>6
    <3>2. b \in Competitors /\ points[b] >= points[out]
      BY <1>5, <2>6, <3>1
    <3>3. old[b] > 0 /\ points[b] = old[b]
      BY <1>1, <2>5, <3>1
    <3> QED
      BY <1>3, <2>10, <3>2, <3>3
  <2>12. \A c \in Range(new) : c \in Competitors /\ points[c] > 0 /\ points[out] <= points[c]
    BY <1>2, <1>3, <1>10, <2>9, <2>10, <2>11
  <2>13. \A b \in Competitors \ Range(new), c \in Range(new) : points[b] <= points[c]
    <3> SUFFICES ASSUME NEW b \in Competitors \ Range(new), NEW c \in Range(new)
                 PROVE  points[b] <= points[c]
      OBVIOUS
    <3>1. CASE b = out
      BY <2>12, <3>1
    <3>2. CASE b # out
      <4>1. b \notin Range(top) /\ b # a
        BY <2>9, <3>2
      <4>2. points[b] = old[b] /\ old[b] <= old[out] /\ old[out] = points[out]
        BY <1>1, <1>2, <2>10, <4>1
      <4>3. points[out] <= points[c]
        BY <2>12
      <4> QED
        BY <1>3, <2>10, <2>12, <4>2, <4>3
    <3> QED
      BY <3>1, <3>2
  <2>14. ~(n < max) /\ n <= max
    BY <1>4, <2>2
  <2>15. BoardOK(points, new)
    BY <1>2, <2>3, <2>8, <2>12, <2>13, <2>14 DEF BoardOK, Reordered
  <2> QED
    BY <2>15 DEF new
<1> QED
  BY <1>4, <1>7, <1>8, <1>9, <1>10

(* The boards of the loop, as a relation: g[k] is the board after k agents. *)
Boards(start, ranking, n, g) ==
  g = [k \in 0 .. n |-> IF k = 0 THEN start ELSE AwardPoints(g[k - 1], ranking, k)]

LEMMA BoardsExist ==
  ASSUME NEW start, NEW ranking, NEW n \in Nat
  PROVE  \E g : Boards(start, ranking, n, g)
<1> DEFINE D == {k \in 0 .. n : \E g : Boards(start, ranking, k, g)}
<1>1. 0 \in D
  <2> DEFINE g == [k \in 0 .. 0 |-> start]
  <2>1. Boards(start, ranking, 0, g)
    BY DEF Boards
  <2> HIDE DEF g
  <2> QED
    BY <2>1
<1>2. ASSUME NEW k \in 0 .. n - 1, k \in D PROVE k + 1 \in D
  <2>1. PICK g : Boards(start, ranking, k, g)
    BY <1>2
  <2> DEFINE last == AwardPoints(g[k], ranking, k + 1)
             h == [i \in 0 .. k + 1 |-> IF i <= k THEN g[i] ELSE last]
             e == [i \in 0 .. k + 1 |->
                     IF i = 0 THEN start ELSE AwardPoints(h[i - 1], ranking, i)]
  <2>2. ASSUME NEW i \in 0 .. k + 1 PROVE h[i] = e[i]
    <3>1. CASE i = 0
      <4>1. h[i] = g[0] /\ e[i] = start
        BY <3>1
      <4>2. g[0] = start
        BY <2>1 DEF Boards
      <4> QED
        BY <4>1, <4>2
    <3>2. CASE i \in 1 .. k
      <4>1. h[i] = g[i] /\ h[i - 1] = g[i - 1]
        BY <3>2
      <4>2. g[i] = AwardPoints(g[i - 1], ranking, i)
        BY <2>1, <3>2 DEF Boards
      <4>3. e[i] = AwardPoints(h[i - 1], ranking, i)
        BY <3>2
      <4> HIDE DEF h, e
      <4> QED
        BY <4>1, <4>2, <4>3
    <3>3. CASE i = k + 1
      <4>1. h[i] = last /\ h[i - 1] = g[k]
        BY <3>3
      <4>2. e[i] = AwardPoints(h[i - 1], ranking, i)
        BY <3>3
      <4> HIDE DEF h, e
      <4> QED
        BY <3>3, <4>1, <4>2
    <3> QED
      BY <3>1, <3>2, <3>3
  <2>3. h = [i \in 0 .. k + 1 |-> h[i]] /\ e = [i \in 0 .. k + 1 |-> e[i]]
    OBVIOUS
  <2>4. e = [i \in 0 .. k + 1 |-> IF i = 0 THEN start ELSE AwardPoints(h[i - 1], ranking, i)]
    OBVIOUS
  <2> HIDE DEF h, e
  <2>5. h = e
    BY <2>2, <2>3
  <2>6. Boards(start, ranking, k + 1, h)
    BY <2>4, <2>5 DEF Boards
  <2>7. \E f : Boards(start, ranking, k + 1, f)
    BY <2>6
  <2> QED
    BY <2>7
<1>3. n \in D
  <2> HIDE DEF D
  <2> QED
    BY <1>1, <1>2, IntervalInduction
<1> QED
  BY <1>3

(* All the agents of a round leave a board.                                *)
LEMMA AllLeaveABoard ==
  ASSUME SeasonAssumption, NEW ranking \in Seq(Competitors), NEW points, NEW top,
         BoardOK(points, top)
  PROVE  LET board == AwardAll([points |-> points, top |-> top], ranking)
         IN  BoardOK(board.points, board.top)
<1> DEFINE start == [points |-> points, top |-> top]
           n     == Len(ranking)
           g     == CHOOSE g : Boards(start, ranking, n, g)
<1>1. n \in Nat /\ \A k \in 1 .. n : ranking[k] \in Competitors
  OBVIOUS
<1>2. start.points = points /\ start.top = top
  OBVIOUS
<1>3. AwardAll(start, ranking) = g[n]
  BY DEF AwardAll, Boards
<1> HIDE DEF start, n
<1>4. Boards(start, ranking, n, g)
  <2>1. \E f : Boards(start, ranking, n, f)
    BY <1>1, BoardsExist
  <2> QED
    BY <2>1
<1> HIDE DEF g
<1>5. /\ g[0] = start
      /\ \A k \in 1 .. n : g[k] = AwardPoints(g[k - 1], ranking, k)
  <2>1. \A k \in 1 .. n : k \in 0 .. n /\ k # 0
    BY <1>1
  <2> QED
    BY <1>1, <1>4, <2>1 DEF Boards
<1> DEFINE D == {k \in 0 .. n : BoardOK(g[k].points, g[k].top)}
<1>6. 0 \in D
  BY <1>1, <1>2, <1>5
<1>7. ASSUME NEW k \in 0 .. n - 1, k \in D PROVE k + 1 \in D
  <2> DEFINE i   == k + 1
             a   == ranking[i]
             pts == _pointsForRank(i)
             old == g[k].points
             new == [old EXCEPT ![a] = @ + pts]
  <2>1. i \in 1 .. n /\ i \in Nat \ {0} /\ i - 1 = k
    BY <1>1
  <2>2. g[i] = AwardPoints(g[k], ranking, i)
    BY <1>5, <2>1
  <2>3. g[i].points = new /\ g[i].top = _updateLeaderboard(g[k].top, a, new, pts)
    BY <2>2 DEF AwardPoints
  <2>4. a \in Competitors /\ pts \in Nat \ {0}
    BY <1>1, <2>1, PointsForAll
  <2>5. BoardOK(old, g[k].top)
    BY <1>7
  <2> DEFINE v == g[k].top
  <2> HIDE DEF a, pts, old, new, v
  <2>6. new = [old EXCEPT ![a] = @ + pts]
    BY DEF new
  <2>7. BoardOK(new, _updateLeaderboard(v, a, new, pts))
    BY <2>4, <2>5, <2>6, OneMoreAgent DEF v
  <2>8. BoardOK(g[i].points, g[i].top)
    BY <2>3, <2>7 DEF v
  <2> QED
    BY <2>1, <2>8
<1>8. n \in D
  <2> HIDE DEF D
  <2> QED
    BY <1>1, <1>6, <1>7, IntervalInduction
<1> QED
  BY <1>3, <1>8 DEF start

(* A board has as many entries as there are agents with points, or as fit. *)
LEMMA BoardIsFull ==
  ASSUME SeasonAssumption, NEW points, NEW top, BoardOK(points, top)
  PROVE  LET rated == {a \in Competitors : points[a] > 0}
         IN  Len(top) = Min({MAX_LEADERBOARD_SIZE, Cardinality(rated)})
<1> DEFINE rated == {a \in Competitors : points[a] > 0}
           n     == Len(top)
           max   == MAX_LEADERBOARD_SIZE
           c     == Cardinality(rated)
<1>1. n \in Nat /\ n <= max /\ max \in Nat /\ DOMAIN top = 1 .. n
  BY DEF BoardOK, SeasonAssumption
<1>2. top \in Seq(Competitors) /\ IsInjective(top)
  BY DEF BoardOK
<1>3. IsFiniteSet(rated) /\ c \in Nat
  <2>1. IsFiniteSet(Competitors) /\ rated \subseteq Competitors
    BY DEF SeasonAssumption
  <2> HIDE DEF rated
  <2>2. IsFiniteSet(rated)
    BY <2>1, FS_Subset
  <2> QED
    BY <2>2, FS_CardinalityType
<1>4. Range(top) \subseteq rated
  <2>1. \A i \in 1 .. n : top[i] \in Competitors
    BY <1>1, <1>2
  <2>2. \A a \in Range(top) : a \in Competitors /\ points[a] > 0
    BY <1>1, <2>1 DEF BoardOK, Range
  <2> QED
    BY <2>2
<1>5. Cardinality(1 .. n) = n /\ IsFiniteSet(1 .. n)
  <2>1. n \in Int /\ n >= 0
    BY <1>1
  <2> HIDE DEF n
  <2>2. /\ IsFiniteSet(1 .. n)
        /\ Cardinality(1 .. n) = IF 1 > n THEN 0 ELSE n - 1 + 1
    BY <2>1, FS_Interval
  <2> QED
    BY <2>1, <2>2
<1> DEFINE I == 1 .. n
           R == Range(top)
<1>6. R \subseteq rated /\ IsFiniteSet(R) /\ Cardinality(R) \in Nat /\ Cardinality(R) <= c
  <2>1. R \subseteq rated
    BY <1>4
  <2> HIDE DEF R, rated
  <2> QED
    BY <1>3, <2>1, FS_Subset, FS_CardinalityType
<1>7. Cardinality(R) = n
  <2>1. top \in Bijection(I, R)
    <3>1. top \in [I -> R] /\ \A a \in R : \E i \in I : top[i] = a
      BY <1>1, <1>2 DEF Range
    <3>2. \A i, j \in I : top[i] = top[j] => i = j
      BY <1>1, <1>2 DEF IsInjective
    <3> HIDE DEF I, R
    <3> QED
      BY <3>1, <3>2 DEF Bijection, Injection, Surjection, IsInjective
  <2>2. ExistsBijection(I, R)
    <3> HIDE DEF I, R
    <3> QED
      BY <2>1 DEF ExistsBijection
  <2>3. IsFiniteSet(I) /\ Cardinality(I) = n
    BY <1>5
  <2> HIDE DEF I, R, n
  <2> QED
    BY <2>2, <2>3, FS_Bijection
<1>8. n < max => rated = R
  <2>1. ASSUME n < max, NEW a \in rated PROVE a \in R
    BY <2>1 DEF BoardOK
  <2> QED
    BY <1>4, <2>1
<1> HIDE DEF rated, R, n, max
<1>9. n <= c /\ (n < max => n = c)
  <2>1. n < max => Cardinality(rated) = Cardinality(R)
    BY <1>8
  <2> QED
    BY <1>6, <1>7, <2>1
<1> HIDE DEF c
<1>10. n = IF max <= c THEN max ELSE c
  BY <1>1, <1>3, <1>9
<1>11. Min({max, c}) = IF max <= c THEN max ELSE c
  BY <1>1, <1>3 DEF Min
<1>12. n = Min({max, c})
  BY <1>10, <1>11
<1> QED
  BY <1>12 DEF n, max, c, rated

(* The board is one in every season, and the season that runs, if one      *)
(* does, is the current one.                                               *)
SeasonRecord ==
  [endTime : Nat, active : BOOLEAN, prizePool : Nat, championshipSpawned : BOOLEAN]

SeasonTypeOK ==
  /\ now \in Nat /\ nextSeasonId \in Nat \ {0}
  /\ seasons \in [SeasonIds -> SeasonRecord]
  /\ seasonPoints \in [SeasonIds -> [Competitors -> Nat]]
  /\ seasonTopAgents \in [SeasonIds -> Seq(Competitors)]

OneRuns == \A s \in SeasonIds : seasons[s].active <=> s = currentSeasonId

BoardsHold == \A s \in SeasonIds : BoardOK(seasonPoints[s], seasonTopAgents[s])

SeasonInv == SeasonTypeOK /\ OneRuns /\ BoardsHold

(* Nothing happens to the boards unless a round is recorded.               *)
LEMMA BoardsKept ==
  ASSUME BoardsHold, seasonPoints' = seasonPoints, seasonTopAgents' = seasonTopAgents
  PROVE  BoardsHold'
BY DEF BoardsHold, SeasonIds

(* Nothing but starting and ending changes which season runs.              *)
LEMMA StillRuns ==
  ASSUME OneRuns, currentSeasonId' = currentSeasonId,
         \A s \in SeasonIds : seasons'[s].active <=> seasons[s].active
  PROVE  OneRuns'
BY DEF OneRuns, SeasonIds

(* A change of one season keeps the others.                                *)
LEMMA OneSeasonChanged ==
  ASSUME SeasonTypeOK, NEW s \in SeasonIds, NEW r \in SeasonRecord,
         seasons' = [seasons EXCEPT ![s] = r]
  PROVE  /\ seasons' \in [SeasonIds -> SeasonRecord] /\ seasons'[s] = r
         /\ \A t \in SeasonIds : t # s => seasons'[t] = seasons[t]
BY DEF SeasonTypeOK

LEMMA SeasonStep ==
  ASSUME SeasonInv, SeasonAssumption, [SeasonNext]_season_vars
  PROVE  SeasonInv'
<1>1. /\ SeasonTypeOK /\ OneRuns /\ BoardsHold
      /\ now \in Nat /\ nextSeasonId \in Nat \ {0}
      /\ \A s \in SeasonIds : seasons[s] \in SeasonRecord
      /\ SEASON_DURATION \in Nat
  BY DEF SeasonInv, SeasonTypeOK, SeasonAssumption
<1>2. CASE UNCHANGED season_vars
  BY <1>2 DEF season_vars, SeasonInv, SeasonTypeOK, OneRuns, BoardsHold, SeasonIds
<1>3. CASE StartSeason
  <2> DEFINE s == nextSeasonId
             r == [endTime |-> now + SEASON_DURATION, active |-> TRUE, prizePool |-> 0,
                   championshipSpawned |-> FALSE]
  <2>1. /\ ~(currentSeasonId # 0 /\ seasons[currentSeasonId].active)
        /\ s <= MaxSeasons /\ seasons' = [seasons EXCEPT ![s] = r]
        /\ currentSeasonId' = s /\ nextSeasonId' = s + 1 /\ now' = now
        /\ seasonPoints' = seasonPoints /\ seasonTopAgents' = seasonTopAgents
    BY <1>3 DEF StartSeason
  <2>2. s \in SeasonIds
    BY <1>1, <2>1 DEF SeasonIds, SeasonAssumption
  <2>3. r \in SeasonRecord /\ r.active
    <3>1. now + SEASON_DURATION \in Nat /\ 0 \in Nat
      BY <1>1
    <3>2. r.active = TRUE
      OBVIOUS
    <3> QED
      BY Zenon, <3>1, <3>2 DEF SeasonRecord
  <2> HIDE DEF r
  <2>4. /\ seasons' \in [SeasonIds -> SeasonRecord] /\ seasons'[s] = r
        /\ \A t \in SeasonIds : t # s => seasons'[t] = seasons[t]
    BY <1>1, <2>1, <2>2, <2>3, OneSeasonChanged
  <2>5. \A t \in SeasonIds : ~seasons[t].active
    BY <1>1, <2>1 DEF OneRuns, SeasonIds
  <2>6. OneRuns'
    BY <2>1, <2>2, <2>3, <2>4, <2>5 DEF OneRuns, SeasonIds
  <2>7. SeasonTypeOK'
    BY <1>1, <2>1, <2>4 DEF SeasonTypeOK, SeasonIds
  <2> QED
    BY <1>1, <2>1, <2>6, <2>7, BoardsKept DEF SeasonInv
<1>4. CASE SetChampionshipBountyId
  <2>1. /\ UNCHANGED <<now, seasons, currentSeasonId, nextSeasonId, seasonPoints,
                      seasonTopAgents>>
    BY <1>4 DEF SetChampionshipBountyId
  <2> QED
    BY <1>1, <2>1 DEF SeasonInv, SeasonTypeOK, OneRuns, BoardsHold, SeasonIds
<1>5. CASE SeasonTick
  <2>1. /\ now' = now + 1
        /\ UNCHANGED <<seasons, currentSeasonId, nextSeasonId, seasonPoints, seasonTopAgents>>
    BY <1>5 DEF SeasonTick
  <2> QED
    BY <1>1, <2>1 DEF SeasonInv, SeasonTypeOK, OneRuns, BoardsHold, SeasonIds
<1>6. ASSUME NEW s \in SeasonIds, EndSeason(s) PROVE SeasonInv'
  <2> DEFINE r == [seasons[s] EXCEPT !.active = FALSE]
  <2>1. /\ seasons[s].active /\ seasons' = [seasons EXCEPT ![s] = r]
        /\ currentSeasonId' = (IF currentSeasonId = s THEN 0 ELSE currentSeasonId)
        /\ nextSeasonId' = nextSeasonId /\ now' = now
        /\ seasonPoints' = seasonPoints /\ seasonTopAgents' = seasonTopAgents
    BY <1>1, <1>6 DEF EndSeason, SeasonTypeOK
  <2>2. r \in SeasonRecord /\ ~r.active
    BY <1>1 DEF SeasonRecord
  <2> HIDE DEF r
  <2>3. /\ seasons' \in [SeasonIds -> SeasonRecord] /\ seasons'[s] = r
        /\ \A t \in SeasonIds : t # s => seasons'[t] = seasons[t]
    BY <1>1, <2>1, <2>2, OneSeasonChanged
  <2>4. currentSeasonId = s /\ currentSeasonId' = 0
    BY <1>1, <2>1 DEF OneRuns
  <2>5. OneRuns'
    <3>1. ASSUME NEW t \in SeasonIds PROVE ~seasons'[t].active /\ t # 0
      BY <1>1, <2>2, <2>3, <2>4 DEF OneRuns, SeasonIds
    <3> QED
      BY <2>4, <3>1 DEF OneRuns, SeasonIds
  <2>6. SeasonTypeOK'
    BY <1>1, <2>1, <2>3 DEF SeasonTypeOK, SeasonIds
  <2> QED
    BY <1>1, <2>1, <2>5, <2>6, BoardsKept DEF SeasonInv
<1>7. ASSUME NEW s \in SeasonIds, AddToSeasonPrizePool(s) PROVE SeasonInv'
  <2> DEFINE r == [seasons[s] EXCEPT !.prizePool = @ + 1]
  <2>1. /\ seasons' = [seasons EXCEPT ![s] = r] /\ currentSeasonId' = currentSeasonId
        /\ nextSeasonId' = nextSeasonId /\ now' = now
        /\ seasonPoints' = seasonPoints /\ seasonTopAgents' = seasonTopAgents
    BY <1>1, <1>7 DEF AddToSeasonPrizePool, SeasonTypeOK
  <2>2. r \in SeasonRecord /\ r.active = seasons[s].active
    BY <1>1 DEF SeasonRecord
  <2> HIDE DEF r
  <2>3. /\ seasons' \in [SeasonIds -> SeasonRecord] /\ seasons'[s] = r
        /\ \A t \in SeasonIds : t # s => seasons'[t] = seasons[t]
    BY <1>1, <2>1, <2>2, OneSeasonChanged
  <2>4. \A t \in SeasonIds : seasons'[t].active <=> seasons[t].active
    BY <2>2, <2>3
  <2>5. SeasonTypeOK'
    BY <1>1, <2>1, <2>3 DEF SeasonTypeOK, SeasonIds
  <2> QED
    BY <1>1, <2>1, <2>4, <2>5, BoardsKept, StillRuns DEF SeasonInv
<1>8. ASSUME NEW s \in SeasonIds, SpawnChampionship(s) PROVE SeasonInv'
  <2> DEFINE r == [seasons[s] EXCEPT !.championshipSpawned = TRUE]
  <2>1. /\ seasons' = [seasons EXCEPT ![s] = r] /\ currentSeasonId' = currentSeasonId
        /\ nextSeasonId' = nextSeasonId /\ now' = now
        /\ seasonPoints' = seasonPoints /\ seasonTopAgents' = seasonTopAgents
    BY <1>1, <1>8 DEF SpawnChampionship, SeasonTypeOK
  <2>2. r \in SeasonRecord /\ r.active = seasons[s].active
    BY <1>1 DEF SeasonRecord
  <2> HIDE DEF r
  <2>3. /\ seasons' \in [SeasonIds -> SeasonRecord] /\ seasons'[s] = r
        /\ \A t \in SeasonIds : t # s => seasons'[t] = seasons[t]
    BY <1>1, <2>1, <2>2, OneSeasonChanged
  <2>4. \A t \in SeasonIds : seasons'[t].active <=> seasons[t].active
    BY <2>2, <2>3
  <2>5. SeasonTypeOK'
    BY <1>1, <2>1, <2>3 DEF SeasonTypeOK, SeasonIds
  <2> QED
    BY <1>1, <2>1, <2>4, <2>5, BoardsKept, StillRuns DEF SeasonInv
<1>9. ASSUME NEW s \in SeasonIds, NEW ranking \in Rankings, RecordRoundResult(s, ranking)
      PROVE  SeasonInv'
  <2> DEFINE board == AwardAll([points |-> seasonPoints[s], top |-> seasonTopAgents[s]],
                               ranking)
             p == board.points
             t == board.top
  <2>1. /\ seasonPoints' = [seasonPoints EXCEPT ![s] = p]
        /\ seasonTopAgents' = [seasonTopAgents EXCEPT ![s] = t]
        /\ UNCHANGED <<now, seasons, currentSeasonId, nextSeasonId>>
    BY <1>9 DEF RecordRoundResult
  <2>2. ranking \in Seq(Competitors)
    BY DEF SeasonAssumption
  <2>3. BoardOK(p, t)
    <3> DEFINE oldPoints == seasonPoints[s]
               oldTop    == seasonTopAgents[s]
    <3>1. BoardOK(oldPoints, oldTop)
      BY <1>1 DEF BoardsHold
    <3>2. board = AwardAll([points |-> oldPoints, top |-> oldTop], ranking)
      OBVIOUS
    <3> HIDE DEF oldPoints, oldTop, board
    <3> QED
      BY <2>2, <3>1, <3>2, AllLeaveABoard
  <2> HIDE DEF board, p, t
  <2>4. p \in [Competitors -> Nat] /\ t \in Seq(Competitors)
    BY <2>3 DEF BoardOK
  <2>5. SeasonTypeOK'
    BY <1>1, <2>1, <2>4 DEF SeasonTypeOK, SeasonIds
  <2>6. ASSUME NEW u \in SeasonIds PROVE BoardOK(seasonPoints'[u], seasonTopAgents'[u])
    <3>1. CASE u = s
      <4>1. seasonPoints'[u] = p /\ seasonTopAgents'[u] = t
        BY <1>1, <2>1, <3>1 DEF SeasonTypeOK
      <4> QED
        BY <2>3, <4>1
    <3>2. CASE u # s
      <4>1. seasonPoints'[u] = seasonPoints[u] /\ seasonTopAgents'[u] = seasonTopAgents[u]
        BY <1>1, <2>1, <3>2 DEF SeasonTypeOK
      <4> QED
        BY <1>1, <4>1 DEF BoardsHold
    <3> QED
      BY <3>1, <3>2
  <2>7. BoardsHold'
    BY <2>6 DEF BoardsHold, SeasonIds
  <2> QED
    BY <1>1, <2>1, <2>5, <2>7, StillRuns DEF SeasonInv
<1> QED
  BY <1>2, <1>3, <1>4, <1>5, <1>6, <1>7, <1>8, <1>9 DEF SeasonNext

(* At the start no season runs and all boards are empty (initialize()).    *)
LEMMA SeasonInitially ==
  ASSUME SeasonInit, SeasonAssumption
  PROVE  SeasonInv
<1>1. /\ now = 0 /\ nextSeasonId = 1 /\ currentSeasonId = 0
      /\ \A s \in SeasonIds : seasons[s] = Fresh /\ s # 0
      /\ seasons = [s \in SeasonIds |-> Fresh]
      /\ seasonPoints = [s \in SeasonIds |-> [a \in Competitors |-> 0]]
      /\ seasonTopAgents = [s \in SeasonIds |-> <<>>]
  BY DEF SeasonInit, SeasonIds
<1>2. Fresh \in SeasonRecord /\ ~Fresh.active
  BY DEF Fresh, SeasonRecord
<1> DEFINE zero  == [a \in Competitors |-> 0]
           empty == <<>>
<1>3. BoardOK(zero, empty)
  <2>1. /\ zero \in [Competitors -> Nat] /\ empty \in Seq(Competitors)
        /\ DOMAIN empty = {} /\ Len(empty) = 0
        /\ \A a \in Competitors : zero[a] = 0
    OBVIOUS
  <2> HIDE DEF zero, empty
  <2>2. IsInjective(empty) /\ Sorted(empty, zero) /\ Range(empty) = {}
    BY <2>1 DEF IsInjective, Sorted, Range
  <2>3. Len(empty) <= MAX_LEADERBOARD_SIZE
    BY <2>1 DEF SeasonAssumption
  <2> QED
    BY <2>1, <2>2, <2>3 DEF BoardOK
<1>4. zero \in [Competitors -> Nat] /\ empty \in Seq(Competitors)
  OBVIOUS
<1>5. /\ seasonPoints = [s \in SeasonIds |-> zero]
      /\ seasonTopAgents = [s \in SeasonIds |-> empty]
  BY <1>1
<1> HIDE DEF zero, empty
<1>6. BoardsHold
  BY <1>3, <1>5 DEF BoardsHold
<1>7. SeasonTypeOK
  BY <1>1, <1>2, <1>4, <1>5 DEF SeasonTypeOK
<1>8. OneRuns
  BY <1>1, <1>2 DEF OneRuns
<1> QED
  BY <1>6, <1>7, <1>8 DEF SeasonInv

(* A board says what BoardIsTop says of it.                                *)
LEMMA BoardFollows ==
  ASSUME SeasonAssumption, SeasonInv
  PROVE  BoardIsTop
<1>1. \A s \in SeasonIds : seasons[s].active <=> s = currentSeasonId
  BY DEF SeasonInv, OneRuns
<1>2. ASSUME NEW s \in SeasonIds
      PROVE  LET top    == seasonTopAgents[s]
                 points == seasonPoints[s]
                 rated  == {a \in Competitors : points[a] > 0}
             IN  /\ IsInjective(top)
                 /\ \A i, j \in DOMAIN top : i < j => points[top[i]] >= points[top[j]]
                 /\ Len(top) = Min({MAX_LEADERBOARD_SIZE, Cardinality(rated)})
                 /\ \A a \in rated \ Range(top), i \in DOMAIN top :
                      points[a] <= points[top[i]]
  <2> DEFINE top    == seasonTopAgents[s]
             points == seasonPoints[s]
             rated  == {a \in Competitors : points[a] > 0}
  <2>1. BoardOK(points, top)
    BY DEF SeasonInv, BoardsHold
  <2> HIDE DEF top, points
  <2>2. Len(top) = Min({MAX_LEADERBOARD_SIZE, Cardinality(rated)})
    BY <2>1, BoardIsFull
  <2>3. /\ IsInjective(top)
        /\ \A i, j \in DOMAIN top : i < j => points[top[i]] >= points[top[j]]
    BY <2>1 DEF BoardOK, Sorted
  <2>4. \A a \in rated \ Range(top), i \in DOMAIN top : points[a] <= points[top[i]]
    <3>1. \A i \in DOMAIN top : top[i] \in Range(top)
      BY DEF Range
    <3> QED
      BY <2>1, <3>1 DEF BoardOK
  <2> HIDE DEF rated
  <2> QED
    BY <2>2, <2>3, <2>4 DEF top, points, rated
<1> QED
  BY <1>1, <1>2 DEF BoardIsTop

(* The board of every season holds its best agents in order after every    *)
(* round, however many agents, rounds and seasons there are, and whatever  *)
(* the ranked agents are (SeasonManager.sol, recordRoundResult).           *)
THEOREM BoardIsAlwaysTop == SeasonSpec => []BoardIsTop
<1>1. SeasonInit => SeasonInv
  BY SeasonAssumption, SeasonInitially
<1>2. SeasonInv /\ [SeasonNext]_season_vars => SeasonInv'
  BY SeasonAssumption, SeasonStep
<1>3. SeasonInv => BoardIsTop
  BY SeasonAssumption, BoardFollows
<1> QED
  BY <1>1, <1>2, <1>3, PTL DEF SeasonSpec

=============================================================================
