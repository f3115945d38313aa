------------------------ MODULE ScoringServiceProofs ------------------------
(***************************************************************************)
(* Proofs about the scoring service, for any number of rounds, agents,     *)
(* threads, requests, second scorings and restarts: its slots are          *)
(* conserved, no solution that was received is lost, nobody is scored      *)
(* without a commitment, a round reported as submitted is on chain, and    *)
(* all of this together implements ScoreLedger.                            *)
(***************************************************************************)
EXTENDS ScoringService, FiniteSetTheorems, WellFoundedInduction, TLAPS

----------------------------------------------------------------------------
(* Types                                                                   *)

Payloads == UNION {[agents -> Scores] : agents \in SUBSET Agents}
Results  == Payloads \cup {NoPayload}

Object ==
  [status : {"receiving", "scoring", "completed", "error", "submitted"}, expected : Nat,
   solutions : SUBSET Agents, results : Results, key : BOOLEAN]

LiveTask ==
  [path : {"v1", "v2", "manual"}, round : Rounds, gen : Nat,
   pc : {"queued", "waiting", "scoring", "submit", "sent", "cleanup"},
   taken : SUBSET Agents, key : BOOLEAN, payload : Results,
   tx : {"none", "pending", "success", "reverted"}]

Request == [pc : {"idle", "verify", "forward", "init", "retry"}, expected : Nat]
Row     == [status : {"none", "receiving", "scoring"}, expected : Nat]
Sent    == [round : Rounds, payload : Results]

(* A thread that has fetched its object refers to one of the round's: the  *)
(* threads and the objects of a process end together.                      *)
HasObject(t) ==
  IF t.pc = "queued" THEN mem[t.round] # <<>> ELSE t.gen \in 1 .. Len(mem[t.round])

TypeOK ==
  /\ chainPhase \in [Rounds -> {"COMMIT", "SCORING"}]
  /\ entered \in [Rounds -> SUBSET Agents] /\ committed \in [Rounds -> SUBSET Agents]
  /\ oracle \in [Rounds -> Results] /\ stray \subseteq Sent
  /\ relay \in [Rounds -> [Agents -> Request]]
  /\ mem \in [Rounds -> Seq(Object)]
  /\ disk \in [Rounds -> Row] /\ diskSolutions \in [Rounds -> SUBSET Agents]
  /\ slots \in Nat
  /\ tasks \in [TaskIds -> LiveTask \cup {NoTask}]
  /\ accepted \in [Rounds -> SUBSET Agents]
  /\ \A i \in TaskIds : tasks[i] # NoTask => HasObject(tasks[i])

\* A task is told from a free place by its path.
LEMMA LiveOrNot ==
  ASSUME TypeOK, NEW i \in TaskIds
  PROVE  /\ tasks[i] # NoTask <=> tasks[i].path # "none"
         /\ tasks[i] # NoTask => tasks[i] \in LiveTask
<1>1. tasks[i] \in LiveTask \cup {NoTask}
  BY DEF TypeOK
<1>2. NoTask.path = "none"
  BY DEF NoTask
<1> QED
  BY <1>1, <1>2 DEF LiveTask

\* A background task takes a place that is free (asyncio's executor).
LEMMA SpawnedOnFreeId ==
  ASSUME NEW task, FreeIds # {}
  PROVE  \E i \in TaskIds : tasks[i] = NoTask /\ Spawned(task) = [tasks EXCEPT ![i] = task]
<1> DEFINE lowest(i) == \A k \in FreeIds : i <= k
<1>1. FreeIds \subseteq Nat
  BY ServiceAssumption DEF FreeIds
<1>2. PICK i \in FreeIds : \A k \in FreeIds : ~(<<k, i>> \in OpToRel(<, Nat))
  BY <1>1, NatLessThanWellFounded, WFMin
<1>3. \A k \in FreeIds : ~(k < i)
  BY <1>1, <1>2 DEF OpToRel
<1>4. \E i_1 \in FreeIds : lowest(i_1)
  BY <1>1, <1>3
<1>5. (CHOOSE i_1 \in FreeIds : lowest(i_1)) \in FreeIds
  BY <1>4
<1> QED
  BY <1>5 DEF Spawned, FreeIds

\* Replacing one object of a round: its objects stay in number and order.
Replaces(r, g, object) == mem' = [mem EXCEPT ![r][g] = object]

LEMMA ObjectReplaced ==
  ASSUME TypeOK, NEW r \in Rounds, NEW g \in 1 .. Len(mem[r]), NEW object \in Object,
         Replaces(r, g, object)
  PROVE  /\ mem' \in [Rounds -> Seq(Object)]
         /\ \A q \in Rounds : Len(mem'[q]) = Len(mem[q])
         /\ mem'[r][g] = object
         /\ \A q \in Rounds : \A h \in 1 .. Len(mem[q]) :
              mem'[q][h] = object \/ mem'[q][h] = mem[q][h]
         /\ \A h \in 1 .. Len(mem[r]) : h # g => mem'[r][h] = mem[r][h]
         /\ \A q \in Rounds : q # r => mem'[q] = mem[q]
<1>1. mem \in [Rounds -> Seq(Object)] /\ mem[r] \in Seq(Object)
  BY DEF TypeOK
<1>2. mem'[r] = [mem[r] EXCEPT ![g] = object] /\ \A q \in Rounds : q # r => mem'[q] = mem[q]
  BY <1>1 DEF Replaces
<1>3. /\ mem'[r] \in Seq(Object) /\ Len(mem'[r]) = Len(mem[r])
      /\ \A h \in 1 .. Len(mem[r]) : mem'[r][h] = IF h = g THEN object ELSE mem[r][h]
  BY <1>1, <1>2
<1>4. mem' \in [Rounds -> Seq(Object)]
  BY <1>1, <1>2, <1>3 DEF Replaces
<1>5. \A q \in Rounds : \A h \in 1 .. Len(mem[q]) :
        mem'[q][h] = object \/ mem'[q][h] = mem[q][h]
  BY <1>2, <1>3
<1> QED
  BY <1>2, <1>3, <1>4, <1>5

\* A second scoring puts one more object behind those of the round.
LEMMA ObjectAppended ==
  ASSUME TypeOK, NEW r \in Rounds, NEW object \in Object,
         mem' = [mem EXCEPT ![r] = Append(@, object)]
  PROVE  /\ mem' \in [Rounds -> Seq(Object)]
         /\ Len(mem'[r]) = Len(mem[r]) + 1 /\ mem'[r][Len(mem[r]) + 1] = object
         /\ \A q \in Rounds : q # r => Len(mem'[q]) = Len(mem[q])
         /\ \A q \in Rounds, h \in Nat : h \in 1 .. Len(mem[q]) => mem'[q][h] = mem[q][h]
<1>1. mem \in [Rounds -> Seq(Object)] /\ mem[r] \in Seq(Object)
  BY DEF TypeOK
<1>2. mem'[r] = Append(mem[r], object) /\ \A q \in Rounds : q # r => mem'[q] = mem[q]
  BY <1>1
<1>3. /\ mem'[r] \in Seq(Object) /\ Len(mem'[r]) = Len(mem[r]) + 1
      /\ mem'[r][Len(mem[r]) + 1] = object
      /\ \A h \in 1 .. Len(mem[r]) : mem'[r][h] = mem[r][h]
  BY <1>1, <1>2
<1>4. mem' \in [Rounds -> Seq(Object)]
  BY <1>1, <1>2, <1>3
<1> QED
  BY <1>2, <1>3, <1>4

\* The current object of a round that is known is one of its objects.
LEMMA CurrentIsObject ==
  ASSUME TypeOK, NEW r \in Rounds, Known(r)
  PROVE  Len(mem[r]) \in 1 .. Len(mem[r]) /\ Current(r) = mem[r][Len(mem[r])]
         /\ Current(r) \in Object
<1>1. mem[r] \in Seq(Object) /\ mem[r] # <<>>
  BY DEF TypeOK, Known
<1> QED
  BY <1>1 DEF Current, Last

\* The object of a task that has fetched one.
LEMMA TaskHasObject ==
  ASSUME TypeOK, NEW i \in TaskIds, tasks[i] # NoTask, tasks[i].pc # "queued"
  PROVE  /\ tasks[i] \in LiveTask /\ tasks[i].round \in Rounds
         /\ tasks[i].gen \in 1 .. Len(mem[tasks[i].round])
         /\ ObjectOf(tasks[i]) \in Object
<1>1. tasks[i] \in LiveTask /\ tasks[i].gen \in 1 .. Len(mem[tasks[i].round])
  BY LiveOrNot DEF TypeOK, HasObject
<1>2. tasks[i].round \in Rounds /\ mem[tasks[i].round] \in Seq(Object)
  BY <1>1 DEF TypeOK, LiveTask
<1> QED
  BY <1>1, <1>2 DEF ObjectOf

\* What HasObject says of a task, with the objects it refers to.
HasObjectIn(t, objects) ==
  IF t.pc = "queued" THEN objects[t.round] # <<>>
  ELSE t.gen \in 1 .. Len(objects[t.round])

\* A step that takes no object away and changes one task.
LEMMA OneTaskTyped ==
  ASSUME TypeOK, mem' \in [Rounds -> Seq(Object)],
         \A q \in Rounds : Len(mem'[q]) >= Len(mem[q]),
         NEW i \in TaskIds, NEW t, tasks' = [tasks EXCEPT ![i] = t],
         t = NoTask \/ (t \in LiveTask /\ HasObjectIn(t, mem'))
  PROVE  /\ tasks' \in [TaskIds -> LiveTask \cup {NoTask}]
         /\ \A k \in TaskIds : tasks'[k] # NoTask => HasObject(tasks[k])'
<1>1. tasks' \in [TaskIds -> LiveTask \cup {NoTask}]
  BY DEF TypeOK
<1>2. ASSUME NEW k \in TaskIds, tasks'[k] # NoTask
      PROVE  HasObjectIn(tasks'[k], mem')
  <2>1. CASE k = i
    BY <2>1, <1>2 DEF TypeOK
  <2>2. CASE k # i
    <3>1. tasks'[k] = tasks[k] /\ tasks[k] \in LiveTask /\ HasObject(tasks[k])
      BY <2>2, <1>2, LiveOrNot DEF TypeOK
    <3>2. tasks[k].round \in Rounds
      BY <3>1 DEF LiveTask
    <3>3. /\ mem[tasks[k].round] \in Seq(Object) /\ mem'[tasks[k].round] \in Seq(Object)
          /\ Len(mem'[tasks[k].round]) >= Len(mem[tasks[k].round])
      BY <3>2 DEF TypeOK
    <3> QED
      BY <3>1, <3>3 DEF HasObject, HasObjectIn
  <2> QED
    BY <2>1, <2>2
<1> QED
  BY <1>1, <1>2 DEF HasObject, HasObjectIn

\* A step that takes no object away and changes no task.
LEMMA NoTaskTyped ==
  ASSUME TypeOK, mem' \in [Rounds -> Seq(Object)],
         \A q \in Rounds : Len(mem'[q]) >= Len(mem[q]), tasks' = tasks
  PROVE  \A k \in TaskIds : tasks'[k] # NoTask => HasObject(tasks[k])'
<1> SUFFICES ASSUME NEW k \in TaskIds, tasks[k] # NoTask
             PROVE  HasObjectIn(tasks[k], mem')
  BY DEF HasObject, HasObjectIn
<1>1. tasks[k] \in LiveTask /\ HasObject(tasks[k])
  BY LiveOrNot DEF TypeOK
<1>2. tasks[k].round \in Rounds
  BY <1>1 DEF LiveTask
<1>3. /\ mem[tasks[k].round] \in Seq(Object) /\ mem'[tasks[k].round] \in Seq(Object)
      /\ Len(mem'[tasks[k].round]) >= Len(mem[tasks[k].round])
  BY <1>2 DEF TypeOK
<1> QED
  BY <1>1, <1>3 DEF HasObject, HasObjectIn

\* The chain and the relay keep to their types.
LEMMA RelayTyped ==
  ASSUME TypeOK, NEW r \in Rounds, NEW a \in Agents,
         \/ ChainEnter(r, a) \/ ChainCommit(r, a) \/ RelayReads(r, a)
         \/ RelayVerifies(r, a) \/ RelayFails(r, a)
  PROVE  TypeOK'
<1>1. UNCHANGED service => \A i \in TaskIds : tasks'[i] # NoTask => HasObject(tasks[i])'
  BY DEF TypeOK, service, HasObject
<1>2. CASE ChainEnter(r, a)
  BY <1>1, <1>2 DEF ChainEnter, TypeOK, service
<1>3. CASE ChainCommit(r, a)
  BY <1>1, <1>3 DEF ChainCommit, TypeOK, service
<1>4. CASE RelayReads(r, a)
  <2>1. entered[r] \in SUBSET Agents /\ IsFiniteSet(entered[r])
    BY FS_Subset, ServiceAssumption DEF TypeOK
  <2>2. Cardinality(entered[r]) \in Nat
    BY <2>1, FS_CardinalityType
  <2>3. PICK n \in Nat : relay' = [relay EXCEPT ![r][a] = [pc |-> "verify", expected |-> n]]
    BY <1>4, <2>2 DEF RelayReads
  <2>4. relay' \in [Rounds -> [Agents -> Request]]
    BY <2>3 DEF TypeOK, Request
  <2> QED
    BY <1>1, <1>4, <2>4 DEF RelayReads, TypeOK, chain, service
<1>5. CASE RelayVerifies(r, a)
  <2>1. relay[r][a] \in Request
    BY DEF TypeOK
  <2>2. [relay[r][a] EXCEPT !.pc = "forward"] \in Request /\ Idle \in Request
    BY <2>1 DEF Request, Idle
  <2>3. relay' \in [Rounds -> [Agents -> Request]]
    BY <1>5, <2>2 DEF RelayVerifies, TypeOK
  <2> QED
    BY <1>1, <1>5, <2>3 DEF RelayVerifies, TypeOK, chain, service
<1>6. CASE RelayFails(r, a)
  <2>1. relay' \in [Rounds -> [Agents -> Request]]
    BY <1>6 DEF RelayFails, TypeOK, Request, Idle
  <2> QED
    BY <1>1, <1>6, <2>1 DEF RelayFails, TypeOK, chain, service
<1> QED
  BY <1>2, <1>3, <1>4, <1>5, <1>6

\* So does the service when a solution arrives.
LEMMA ReceiveTyped ==
  ASSUME TypeOK, NEW r \in Rounds, NEW a \in Agents, Receive(r, a)
  PROVE  TypeOK'
<1>1. relay[r][a] \in Request
  BY DEF TypeOK
<1>2. [relay[r][a] EXCEPT !.pc = "init"] \in Request /\ Idle \in Request
  BY <1>1 DEF Request, Idle
<1>3. relay' \in [Rounds -> [Agents -> Request]]
  <2>1. \/ relay' = [relay EXCEPT ![r][a] = [relay[r][a] EXCEPT !.pc = "init"]]
        \/ relay' = [relay EXCEPT ![r][a] = Idle]
    BY DEF Receive, TypeOK
  <2>2. \E request \in Request : relay' = [relay EXCEPT ![r][a] = request]
    BY <1>2, <2>1, Zenon
  <2> QED
    BY <2>2 DEF TypeOK
<1>4. CASE UNCHANGED <<service, accepted>>
  BY <1>3, <1>4 DEF Receive, TypeOK, chain, service, HasObject
<1>5. CASE ~ UNCHANGED <<service, accepted>>
  <2> DEFINE got == Current(r).solutions \cup {a}
             object == [Current(r) EXCEPT !.solutions = got]
  <2>1. /\ Known(r) /\ mem' = SetCurrent(r, object)
        /\ diskSolutions' = [diskSolutions EXCEPT ![r] = @ \cup {a}]
        /\ accepted' = [accepted EXCEPT ![r] = @ \cup {a}]
        /\ (FreeIds # {} /\ tasks' = Spawned(Task("v1", r))) \/ UNCHANGED tasks
        /\ UNCHANGED <<disk, slots, chainPhase, entered, committed, oracle, stray>>
    BY <1>5 DEF Receive, chain, _persist_solution
  <2>2. Len(mem[r]) \in 1 .. Len(mem[r]) /\ object \in Object
    BY <2>1, CurrentIsObject DEF Object
  <2>3. Replaces(r, Len(mem[r]), object)
    BY <2>1 DEF SetCurrent, Replaces
  <2>4. /\ mem' \in [Rounds -> Seq(Object)]
        /\ \A q \in Rounds : Len(mem'[q]) = Len(mem[q]) /\ Len(mem[q]) \in Nat
        /\ \A q \in Rounds : Len(mem'[q]) >= Len(mem[q])
    <3>1. \A q \in Rounds : Len(mem[q]) \in Nat
      BY DEF TypeOK
    <3> HIDE DEF object
    <3>2. mem' \in [Rounds -> Seq(Object)] /\ \A q \in Rounds : Len(mem'[q]) = Len(mem[q])
      BY <2>2, <2>3, ObjectReplaced
    <3> QED
      BY <3>1, <3>2
  <2>5. /\ tasks' \in [TaskIds -> LiveTask \cup {NoTask}]
        /\ \A k \in TaskIds : tasks'[k] # NoTask => HasObject(tasks[k])'
    <3>1. CASE UNCHANGED tasks
      BY <2>4, <3>1, NoTaskTyped DEF TypeOK
    <3>2. CASE FreeIds # {} /\ tasks' = Spawned(Task("v1", r))
      <4> DEFINE task == Task("v1", r)
      <4>1. PICK i \in TaskIds : tasks' = [tasks EXCEPT ![i] = task]
        BY <3>2, SpawnedOnFreeId
      <4>2. task \in LiveTask
        BY DEF Task, LiveTask, Results
      <4>3. HasObjectIn(task, mem')
        <5>1. Len(mem'[r]) # 0
          BY <2>2, <2>4
        <5> QED
          BY <2>4, <5>1 DEF HasObjectIn, Task
      <4> HIDE DEF object, task
      <4> QED
        BY <2>4, <4>1, <4>2, <4>3, OneTaskTyped
    <3> QED
      BY <2>1, <3>1, <3>2
  <2>6. /\ diskSolutions' \in [Rounds -> SUBSET Agents]
        /\ accepted' \in [Rounds -> SUBSET Agents]
    BY <2>1 DEF TypeOK
  <2> QED
    BY <1>3, <2>1, <2>4, <2>5, <2>6 DEF TypeOK
<1> QED
  BY <1>4, <1>5

\* And when the relay makes a round known.
LEMMA InitRoundTyped ==
  ASSUME TypeOK, NEW r \in Rounds, NEW a \in Agents, InitRound(r, a)
  PROVE  TypeOK'
<1> DEFINE n == relay[r][a].expected
           object == NewObject("receiving", n, {}, FALSE)
<1>1. relay[r][a] \in Request /\ n \in Nat
  BY DEF TypeOK, Request
<1>2. relay' \in [Rounds -> [Agents -> Request]]
  <2>1. [relay[r][a] EXCEPT !.pc = "retry"] \in Request
    BY <1>1 DEF Request
  <2> QED
    BY <2>1 DEF InitRound, TypeOK
<1>3. CASE UNCHANGED <<mem, disk>>
  BY <1>2, <1>3 DEF InitRound, TypeOK, chain, HasObject
<1>4. CASE ~Known(r) /\ mem' = [mem EXCEPT ![r] = <<object>>]
           /\ disk' = [disk EXCEPT ![r] = [status |-> "receiving", expected |-> n]]
  <2>1. object \in Object
    BY <1>1 DEF NewObject, Object, Results
  <2>2. <<object>> \in Seq(Object) /\ Len(<<object>>) = 1 /\ mem[r] = <<>>
    <3> HIDE DEF object
    <3>1. mem[r] = <<>>
      BY <1>4, Zenon DEF Known
    <3> QED
      BY <2>1, <3>1
  <2>3. /\ mem' \in [Rounds -> Seq(Object)]
        /\ \A q \in Rounds : Len(mem'[q]) >= Len(mem[q])
    <3> HIDE DEF object
    <3>1. mem' \in [Rounds -> Seq(Object)]
      BY <1>4, <2>2 DEF TypeOK
    <3>2. \A q \in Rounds : q # r => mem'[q] = mem[q] /\ mem[q] \in Seq(Object)
      BY <1>4 DEF TypeOK
    <3>3. mem'[r] = <<object>>
      BY <1>4 DEF TypeOK
    <3> QED
      BY <2>2, <3>1, <3>2, <3>3
  <2>4. \A k \in TaskIds : tasks'[k] # NoTask => HasObject(tasks[k])'
    BY <2>3, NoTaskTyped DEF InitRound
  <2>5. disk' \in [Rounds -> Row]
    BY <1>1, <1>4 DEF TypeOK, Row
  <2> QED
    BY <1>2, <2>3, <2>4, <2>5 DEF InitRound, TypeOK, chain
<1> QED
  BY <1>3, <1>4 DEF InitRound, init_round, _persist_round

\* And when the operator has a round scored or submitted, or stores a problem.
LEMMA OperatorTyped ==
  ASSUME TypeOK, NEW r \in Rounds, StoreProblem(r) \/ ScoreRoundV2(r) \/ SubmitOnchain(r)
  PROVE  TypeOK'
<1>1. CASE StoreProblem(r)
  BY <1>1 DEF StoreProblem, TypeOK, chain, HasObject
<1>2. CASE ScoreRoundV2(r)
  <2> DEFINE merged == Current(r).solutions
             n == Cardinality(merged)
             object == NewObject("scoring", n, merged, TRUE)
             task == Task("v2", r)
  <2>1. Known(r) /\ merged \in SUBSET Agents /\ n \in Nat
    <3>1. Known(r) /\ merged \in SUBSET Agents
      BY <1>2, CurrentIsObject DEF ScoreRoundV2, Object
    <3> QED
      BY <3>1, FS_Subset, FS_CardinalityType, ServiceAssumption
  <2>2. object \in Object
    BY <2>1 DEF NewObject, Object, Results
  <2>3. mem' = [mem EXCEPT ![r] = Append(@, object)]
    BY <1>2 DEF ScoreRoundV2
  <2>4. disk' \in [Rounds -> Row]
    <3>1. [status |-> "scoring", expected |-> n] \in Row
      BY <2>1 DEF Row
    <3> QED
      BY <1>2, <3>1 DEF ScoreRoundV2, _persist_round, TypeOK
  <2>5. task \in LiveTask
    BY DEF Task, LiveTask, Results
  <2>6. PICK i \in TaskIds : tasks' = [tasks EXCEPT ![i] = task]
    BY <1>2, SpawnedOnFreeId DEF ScoreRoundV2
  <2>7. /\ mem' \in [Rounds -> Seq(Object)]
        /\ \A q \in Rounds : Len(mem'[q]) >= Len(mem[q])
        /\ Len(mem'[r]) # 0
    <3> HIDE DEF object
    <3>1. \A q \in Rounds : Len(mem[q]) \in Nat
      BY DEF TypeOK
    <3>2. /\ mem' \in [Rounds -> Seq(Object)]
          /\ Len(mem'[r]) = Len(mem[r]) + 1
          /\ \A q \in Rounds : q # r => Len(mem'[q]) = Len(mem[q])
      BY <2>2, <2>3, ObjectAppended
    <3>3. \A q \in Rounds : Len(mem'[q]) >= Len(mem[q])
      BY <3>1, <3>2
    <3> QED
      BY <3>1, <3>2, <3>3
  <2>8. HasObjectIn(task, mem')
    BY <2>7 DEF HasObjectIn, Task
  <2>9. /\ tasks' \in [TaskIds -> LiveTask \cup {NoTask}]
        /\ \A k \in TaskIds : tasks'[k] # NoTask => HasObject(tasks[k])'
    <3> HIDE DEF task
    <3> QED
      BY <2>5, <2>6, <2>7, <2>8, OneTaskTyped
  <2> QED
    BY <1>2, <2>4, <2>7, <2>9 DEF ScoreRoundV2, TypeOK, chain
<1>3. CASE SubmitOnchain(r)
  <2> DEFINE task == [Task("manual", r) EXCEPT !.gen = Len(mem[r]), !.pc = "submit",
                                               !.payload = Current(r).results]
  <2>1. Known(r)
    BY <1>3 DEF SubmitOnchain, Status
  <2>2. Current(r).results \in Results /\ Len(mem[r]) \in Nat
    <3>1. Current(r) \in Object
      BY <2>1, CurrentIsObject
    <3> QED
      BY <3>1 DEF Object, TypeOK
  <2>3. task \in LiveTask
    <3>1. [Task("manual", r) EXCEPT !.gen = Len(mem[r])] \in LiveTask
      BY <2>2 DEF Task, LiveTask, Results
    <3>2. [Task("manual", r) EXCEPT !.gen = Len(mem[r]), !.pc = "submit"] \in LiveTask
      BY <3>1 DEF LiveTask
    <3> QED
      BY <2>2, <3>2 DEF LiveTask
  <2>4. PICK i \in TaskIds : tasks' = [tasks EXCEPT ![i] = task]
    BY <1>3, SpawnedOnFreeId DEF SubmitOnchain
  <2>5. /\ mem' = mem /\ mem \in [Rounds -> Seq(Object)]
        /\ \A q \in Rounds : Len(mem[q]) >= Len(mem[q])
    BY <1>3 DEF SubmitOnchain, TypeOK
  <2>6. HasObjectIn(task, mem')
    BY <2>1, <2>5, CurrentIsObject DEF HasObjectIn, Task
  <2>7. /\ tasks' \in [TaskIds -> LiveTask \cup {NoTask}]
        /\ \A k \in TaskIds : tasks'[k] # NoTask => HasObject(tasks[k])'
    <3> HIDE DEF task
    <3> QED
      BY <2>3, <2>4, <2>5, <2>6, OneTaskTyped
  <2> QED
    BY <1>3, <2>5, <2>7 DEF SubmitOnchain, TypeOK, chain
<1> QED
  BY <1>1, <1>2, <1>3

\* What a task leaves of an object: its solutions, that it does not receive, and
\* that it has results.
Follows(object, before) ==
  /\ object.solutions = before.solutions
  /\ object.status = "receiving" => before.status = "receiving"
  /\ before.results # NoPayload => object.results # NoPayload

\* A step of a task replaces at most one object, of its round.
LEMMA TaskStepObjects ==
  ASSUME TypeOK, NEW i \in TaskIds, TaskStep(i) \/ Mine(i)
  PROVE  /\ tasks[i] \in LiveTask /\ tasks[i].round \in Rounds
         /\ \/ mem' = mem
            \/ \E g \in 1 .. Len(mem[tasks[i].round]), object \in Object :
                 /\ Replaces(tasks[i].round, g, object)
                 /\ Follows(object, mem[tasks[i].round][g])
<1> DEFINE t == tasks[i]
<1>1. t.path # "none"
  BY DEF TaskStep, StartV1, StartV2, AcquireSlot, SlotTimeout, Scored, ScoringFails,
         SubmissionRaises, Send, Receipt, ReceiptTimeout, CleanUp, Mine
<1>2. t # NoTask /\ t \in LiveTask /\ t.round \in Rounds
  BY <1>1, LiveOrNot DEF LiveTask
<1>3. CASE StartV1(i)
  <2>1. mem[t.round] # <<>>
    BY <1>2, <1>3 DEF StartV1, TypeOK, HasObject
  <2>2. mem[t.round] \in Seq(Object)
    BY <1>2 DEF TypeOK
  <2> DEFINE g == Len(mem[t.round])  object == [mem[t.round][g] EXCEPT !.status = "scoring"]
  <2>3. g \in 1 .. Len(mem[t.round]) /\ mem[t.round][g] \in Object
    BY <2>1, <2>2
  <2>4. object \in Object /\ Follows(object, mem[t.round][g])
    BY <2>3 DEF Object, Follows
  <2>5. Replaces(t.round, g, object)
    BY <1>3 DEF StartV1, Replaces
  <2> QED
    BY <1>2, <2>3, <2>4, <2>5
<1>4. CASE SlotTimeout(i) \/ ScoringFails(i) \/ Scored(i) \/ Receipt(i) \/ CleanUp(i)
  <2>1. t.pc # "queued"
    BY ZenonT(60), <1>4 DEF SlotTimeout, ScoringFails, Scored, Receipt, CleanUp
  <2>2. /\ t.gen \in 1 .. Len(mem[t.round]) /\ ObjectOf(t) \in Object
        /\ ObjectOf(t) = mem[t.round][t.gen]
    BY SMTT(60), <1>2, <2>1, TaskHasObject DEF ObjectOf
  <2> DEFINE Fits(object) == object \in Object /\ Follows(object, ObjectOf(t))
  <2>3. /\ Fits([ObjectOf(t) EXCEPT !.status = "error"])
        /\ Fits([ObjectOf(t) EXCEPT !.status = "submitted"])
        /\ Fits([ObjectOf(t) EXCEPT !.key = FALSE])
    BY ZenonT(60), <2>2 DEF Object, Follows
  <2>4. CASE SlotTimeout(i) \/ ScoringFails(i) \/ Receipt(i) \/ CleanUp(i)
    <3>1. \/ mem' = mem
          \/ Replaces(t.round, t.gen, [ObjectOf(t) EXCEPT !.status = "error"])
          \/ Replaces(t.round, t.gen, [ObjectOf(t) EXCEPT !.status = "submitted"])
          \/ Replaces(t.round, t.gen, [ObjectOf(t) EXCEPT !.key = FALSE])
      BY <2>4, Zenon DEF SlotTimeout, ScoringFails, Receipt, CleanUp, Mark, Replaces
    <3> QED
      BY <1>2, <2>2, <2>3, <3>1, Zenon
  <2>5. CASE Scored(i)
    <3>1. PICK payload \in PossibleScores(t.key, t.taken) :
            Mark(t, [ObjectOf(t) EXCEPT !.status = "completed", !.results = payload])
      BY <2>5 DEF Scored
    <3>2. payload \in Results /\ payload # NoPayload
      <4>1. t.taken \in SUBSET Agents
        BY <1>2 DEF LiveTask
      <4>2. payload \in [t.taken -> Scores]
        BY ServiceAssumption DEF PossibleScores
      <4>3. payload \in Payloads
        BY <4>1, <4>2 DEF Payloads
      <4> QED
        BY <4>3, ServiceAssumption DEF Results, Payloads
    <3>3. Fits([ObjectOf(t) EXCEPT !.status = "completed", !.results = payload])
      <4> DEFINE o1 == [ObjectOf(t) EXCEPT !.status = "completed"]
                 o2 == [o1 EXCEPT !.results = payload]
      <4>1. o1 \in Object /\ o1.status = "completed" /\ o1.solutions = ObjectOf(t).solutions
        BY <2>2 DEF Object
      <4>2. o2 \in Object /\ o2.status = "completed" /\ o2.solutions = o1.solutions
            /\ o2.results = payload
        BY <3>2, <4>1 DEF Object
      <4>3. o2 = [ObjectOf(t) EXCEPT !.status = "completed", !.results = payload]
        BY <2>2 DEF Object
      <4> HIDE DEF o1, o2
      <4> QED
        BY <3>2, <4>1, <4>2, <4>3 DEF Follows
    <3> QED
      BY <1>2, <2>2, <3>1, <3>3, Zenon DEF Mark, Replaces
  <2> QED
    BY SMTT(60), <1>4, <2>4, <2>5
<1>5. CASE StartV2(i) \/ AcquireSlot(i) \/ SubmissionRaises(i) \/ Send(i)
           \/ ReceiptTimeout(i) \/ Mine(i)
  BY <1>2, <1>5, Zenon DEF StartV2, AcquireSlot, SubmissionRaises, Send, ReceiptTimeout, Mine
<1> QED
  BY SMTT(60), <1>3, <1>4, <1>5 DEF TaskStep

\* And to the task: it ends, or goes on with an object of its round.
LEMMA TaskStepTask ==
  ASSUME TypeOK, NEW i \in TaskIds, TaskStep(i) \/ Mine(i)
  PROVE  \E t : /\ tasks' = [tasks EXCEPT ![i] = t]
                /\ \/ t = NoTask
                   \/ /\ t \in LiveTask /\ t.pc # "queued" /\ t.round = tasks[i].round
                      /\ t.gen \in 1 .. Len(mem[t.round])
<1> DEFINE t == tasks[i]
           Fits(u) == /\ u \in LiveTask /\ u.pc # "queued" /\ u.round = t.round
                      /\ u.gen \in 1 .. Len(mem[u.round])
<1>1. t # NoTask /\ t \in LiveTask /\ t.round \in Rounds
  BY ZenonT(60), TaskStepObjects, LiveOrNot DEF TaskStep, StartV1, StartV2, AcquireSlot, SlotTimeout,
     Scored, ScoringFails, SubmissionRaises, Send, Receipt, ReceiptTimeout, CleanUp, Mine
<1>2. mem[t.round] \in Seq(Object) /\ Len(mem[t.round]) \in Nat
  BY SMTT(60), <1>1 DEF TypeOK
<1>3. CASE StartV1(i)
  <2> DEFINE g == Len(mem[t.round])  o == mem[t.round][g]  t1 == [t EXCEPT !.gen = g]
             t2 == [t1 EXCEPT !.pc = "scoring"]  t3 == [t2 EXCEPT !.taken = o.solutions]
  <2>1. mem[t.round] # <<>> /\ t.pc = "queued"
    BY <1>1, <1>3 DEF StartV1, TypeOK, HasObject
  <2>2. g \in 1 .. Len(mem[t.round]) /\ o \in Object
    BY <1>2, <2>1
  <2>3. t1 \in LiveTask /\ t1.round = t.round /\ t1.gen = g
    BY <1>1, <1>2 DEF LiveTask
  <2>4. Fetched(t1, o) \in LiveTask /\ Fetched(t1, o).round = t.round
        /\ Fetched(t1, o).gen = g /\ Fetched(t1, o).pc = "scoring"
    <3> HIDE DEF t1, o
    <3> QED
      BY <2>2, <2>3 DEF Fetched, LiveTask, Object
  <2>5. tasks' = [tasks EXCEPT ![i] = Fetched(t1, o)]
    BY <1>3 DEF StartV1
  <2>6. Fits(Fetched(t1, o))
    BY <2>2, <2>4
  <2> QED
    BY <2>5, <2>6
<1>4. CASE StartV2(i)
  <2> DEFINE g == Len(mem[t.round])  t0 == [t EXCEPT !.gen = g]
             t1 == [t0 EXCEPT !.pc = "waiting"]
  <2>1. mem[t.round] # <<>> /\ t.pc = "queued"
    BY <1>1, <1>4 DEF StartV2, TypeOK, HasObject
  <2>2. tasks' = [tasks EXCEPT ![i] = t1]
    BY <1>4 DEF StartV2, TypeOK
  <2>3. t0 \in LiveTask /\ t0.round = t.round /\ t0.gen = g
    BY <1>1, <1>2 DEF LiveTask
  <2>4. t1 \in LiveTask /\ t1.round = t.round /\ t1.gen = g /\ t1.pc = "waiting"
    <3> HIDE DEF t0
    <3> QED
      BY <2>3 DEF LiveTask
  <2>5. g \in 1 .. g
    BY <1>2, <2>1
  <2>6. Fits(t1)
    <3> HIDE DEF t1
    <3> QED
      BY <2>4, <2>5
  <2> QED
    BY <2>2, <2>6
<1>5. CASE t.pc # "queued" /\ ~AcquireSlot(i) /\ ~Scored(i)
  <2>1. t.gen \in 1 .. Len(mem[t.round])
    BY <1>1, <1>5, TaskHasObject
  <2>2. /\ \A pc \in {"cleanup"} : Fits([t EXCEPT !.pc = pc])
        /\ Fits([[t EXCEPT !.pc = "sent"] EXCEPT !.tx = "pending"])
        /\ Fits([t EXCEPT !.tx = "success"]) /\ Fits([t EXCEPT !.tx = "reverted"])
    BY <1>1, <1>5, <2>1 DEF LiveTask
  <2>3. \/ tasks' = [tasks EXCEPT ![i] = NoTask]
        \/ tasks' = [tasks EXCEPT ![i] = [t EXCEPT !.pc = "cleanup"]]
        \/ tasks' = [tasks EXCEPT ![i] = [[t EXCEPT !.pc = "sent"] EXCEPT !.tx = "pending"]]
        \/ tasks' = [tasks EXCEPT ![i] = [t EXCEPT !.tx = "success"]]
        \/ tasks' = [tasks EXCEPT ![i] = [t EXCEPT !.tx = "reverted"]]
    BY <1>5 DEF TypeOK, TaskStep, StartV1, StartV2, SlotTimeout, ScoringFails, SubmissionRaises,
                Send, Receipt, ReceiptTimeout, CleanUp, Mine, Ends, Goes, AfterSubmission
  <2> QED
    BY <2>2, <2>3
<1>6. CASE AcquireSlot(i)
  <2>1. t.pc # "queued"
    BY <1>6 DEF AcquireSlot
  <2>2. t.gen \in 1 .. Len(mem[t.round]) /\ ObjectOf(t) \in Object
    BY <1>1, <2>1, TaskHasObject
  <2>3. Fits(Fetched(t, ObjectOf(t)))
    BY <1>1, <2>2 DEF Fetched, LiveTask, Object
  <2> QED
    BY <1>6, <2>3 DEF AcquireSlot
<1>7. CASE Scored(i)
  <2>1. t.pc # "queued"
    BY <1>7 DEF Scored
  <2>2. t.gen \in 1 .. Len(mem[t.round])
    BY <1>1, <2>1, TaskHasObject
  <2>3. PICK payload \in PossibleScores(t.key, t.taken) :
          tasks' = [tasks EXCEPT ![i].pc = "submit", ![i].payload = payload]
    BY <1>7 DEF Scored
  <2>4. payload \in Results
    <3>1. t.taken \in SUBSET Agents
      BY <1>1 DEF LiveTask
    <3>2. payload \in [t.taken -> Scores]
      BY ServiceAssumption DEF PossibleScores
    <3> QED
      BY <3>1, <3>2 DEF Results, Payloads
  <2>5. tasks' = [tasks EXCEPT ![i] = [[t EXCEPT !.pc = "submit"] EXCEPT !.payload = payload]]
    BY <2>3 DEF TypeOK
  <2>6. Fits([[t EXCEPT !.pc = "submit"] EXCEPT !.payload = payload])
    BY <1>1, <2>2, <2>4 DEF LiveTask
  <2> QED
    BY <2>5, <2>6
<1>8. StartV1(i) \/ StartV2(i) \/ t.pc # "queued"
  BY DEF TaskStep, AcquireSlot, SlotTimeout, Scored, ScoringFails, SubmissionRaises,
         Send, Receipt, ReceiptTimeout, CleanUp, Mine
<1> QED
  BY ZenonT(60), <1>3, <1>4, <1>5, <1>6, <1>7, <1>8

\* So the tasks keep to their types.
LEMMA TaskStepTyped ==
  ASSUME TypeOK, NEW i \in TaskIds, TaskStep(i) \/ Mine(i)
  PROVE  TypeOK'
<1> DEFINE t == tasks[i]
<1>1. t \in LiveTask /\ t.round \in Rounds /\ t.payload \in Results
  BY TaskStepObjects DEF LiveTask
<1>2. /\ mem' \in [Rounds -> Seq(Object)]
      /\ \A q \in Rounds : Len(mem'[q]) = Len(mem[q])
      /\ \A q \in Rounds : Len(mem'[q]) >= Len(mem[q])
  <2>1. \A q \in Rounds : Len(mem[q]) \in Nat
    BY DEF TypeOK
  <2>2. mem' \in [Rounds -> Seq(Object)] /\ \A q \in Rounds : Len(mem'[q]) = Len(mem[q])
    <3>1. CASE mem' = mem
      BY <3>1 DEF TypeOK
    <3>2. ASSUME NEW g \in 1 .. Len(mem[t.round]), NEW object \in Object,
                 Replaces(t.round, g, object)
          PROVE  mem' \in [Rounds -> Seq(Object)]
                 /\ \A q \in Rounds : Len(mem'[q]) = Len(mem[q])
      BY <1>1, <3>2, ObjectReplaced
    <3> QED
      BY <3>1, <3>2, TaskStepObjects
  <2> QED
    BY <2>1, <2>2
<1>3. PICK u : /\ tasks' = [tasks EXCEPT ![i] = u]
               /\ \/ u = NoTask
                  \/ /\ u \in LiveTask /\ u.pc # "queued" /\ u.round = t.round
                     /\ u.gen \in 1 .. Len(mem[u.round])
  BY SMTT(60), TaskStepTask
<1>4. u = NoTask \/ (u \in LiveTask /\ HasObjectIn(u, mem'))
  BY <1>1, <1>2, <1>3 DEF HasObjectIn
<1>5. /\ tasks' \in [TaskIds -> LiveTask \cup {NoTask}]
      /\ \A k \in TaskIds : tasks'[k] # NoTask => HasObject(tasks[k])'
  BY <1>2, <1>3, <1>4, OneTaskTyped
<1>6. slots' \in Nat
  <2>1. slots \in Nat
    BY SMTT(60) DEF TypeOK
  <2>2. slots' = slots \/ (slots > 0 /\ slots' = slots - 1) \/ slots' = slots + 1
        \/ slots' = slots + 0
    BY DEF TaskStep, StartV1, StartV2, AcquireSlot, SlotTimeout, Scored, ScoringFails,
           SubmissionRaises, Send, Receipt, ReceiptTimeout, CleanUp, Mine
  <2> QED
    BY <2>1, <2>2
<1>7. oracle' \in [Rounds -> Results]
  <2>1. oracle' = oracle \/ oracle' = [oracle EXCEPT ![t.round] = t.payload]
    BY DEF TaskStep, StartV1, StartV2, AcquireSlot, SlotTimeout, Scored, ScoringFails,
           SubmissionRaises, Send, Receipt, ReceiptTimeout, CleanUp, Mine
  <2> QED
    BY <1>1, <2>1 DEF TypeOK
<1>8. stray' \subseteq Sent
  <2>1. stray' = stray \/ stray' = stray \cup {[round |-> t.round, payload |-> t.payload]}
    BY ZenonT(60) DEF TaskStep, StartV1, StartV2, AcquireSlot, SlotTimeout, Scored, ScoringFails,
           SubmissionRaises, Send, Receipt, ReceiptTimeout, CleanUp, Mine
  <2> QED
    BY SMTT(60), <1>1, <2>1 DEF TypeOK, Sent
<1>9. UNCHANGED <<chain, relay, disk, diskSolutions, accepted>>
  BY DEF TaskStep, StartV1, StartV2, AcquireSlot, SlotTimeout, Scored, ScoringFails,
         SubmissionRaises, Send, Receipt, ReceiptTimeout, CleanUp, Mine
<1> QED
  BY <1>2, <1>5, <1>6, <1>7, <1>8, <1>9 DEF TypeOK, chain

\* A restart makes the objects of the unfinished rounds again and leaves no
\* task behind.
LEMMA RestartTyped ==
  ASSUME TypeOK, Restart
  PROVE  TypeOK'
<1> DEFINE Recovered(r) == NewObject(disk[r].status, disk[r].expected, diskSolutions[r], FALSE)
<1>1. mem' \in [Rounds -> Seq(Object)]
  <2>1. ASSUME NEW r \in Rounds
        PROVE  mem'[r] \in Seq(Object)
    <3>1. CASE disk[r].status \in {"receiving", "scoring"}
      <4>1. disk[r] \in Row /\ diskSolutions[r] \in SUBSET Agents
        BY DEF TypeOK
      <4>2. Recovered(r) \in Object
        BY <3>1, <4>1 DEF NewObject, Object, Row, Results
      <4>3. mem'[r] = <<Recovered(r)>>
        BY <3>1 DEF Restart
      <4> HIDE DEF Recovered
      <4> QED
        BY <4>2, <4>3
    <3>2. CASE disk[r].status \notin {"receiving", "scoring"}
      BY <3>2 DEF Restart
    <3> QED
      BY <3>1, <3>2
  <2>2. mem' = [r \in Rounds |-> mem'[r]]
    BY DEF Restart
  <2> QED
    BY <2>1, <2>2
<1>2. /\ tasks' \in [TaskIds -> LiveTask \cup {NoTask}]
      /\ \A i \in TaskIds : tasks'[i] # NoTask => HasObject(tasks[i])'
  BY DEF Restart
<1>3. stray' \subseteq Sent
  <2>1. ASSUME NEW i \in TaskIds, tasks[i].path # "none"
        PROVE  [round |-> tasks[i].round, payload |-> tasks[i].payload] \in Sent
    BY <2>1, LiveOrNot DEF LiveTask, Sent
  <2> QED
    BY <2>1 DEF Restart, TypeOK
<1>4. slots' \in Nat
  BY ServiceAssumption DEF Restart
<1> QED
  BY <1>1, <1>2, <1>3, <1>4 DEF Restart, TypeOK, chain

\* The types hold, and every thread refers to an object that is there.
THEOREM ServiceTyped == Spec => []TypeOK
<1>1. Init => TypeOK
  BY ServiceAssumption DEF Init, TypeOK, Results, Request, Idle, Row, NoRow
<1>2. TypeOK /\ [Next]_vars => TypeOK'
  <2> SUFFICES ASSUME TypeOK, [Next]_vars
               PROVE  TypeOK'
    OBVIOUS
  <2>1. ASSUME NEW r \in Rounds, NEW a \in Agents,
               \/ ChainEnter(r, a) \/ ChainCommit(r, a) \/ RelayReads(r, a)
               \/ RelayVerifies(r, a) \/ RelayFails(r, a)
        PROVE  TypeOK'
    BY <2>1, RelayTyped
  <2>2. ASSUME NEW r \in Rounds, NEW a \in Agents, Receive(r, a)
        PROVE  TypeOK'
    BY <2>2, ReceiveTyped
  <2>3. ASSUME NEW r \in Rounds, NEW a \in Agents, InitRound(r, a)
        PROVE  TypeOK'
    BY <2>3, InitRoundTyped
  <2>4. ASSUME NEW r \in Rounds, ChainStartScoring(r)
        PROVE  TypeOK'
    BY <2>4 DEF ChainStartScoring, TypeOK, service, HasObject
  <2>5. ASSUME NEW r \in Rounds, StoreProblem(r) \/ ScoreRoundV2(r) \/ SubmitOnchain(r)
        PROVE  TypeOK'
    BY <2>5, OperatorTyped
  <2>6. ASSUME NEW i \in TaskIds, TaskStep(i) \/ Mine(i)
        PROVE  TypeOK'
    BY <2>6, TaskStepTyped
  <2>7. ASSUME NEW tx \in stray, MineStray(tx)
        PROVE  TypeOK'
    BY <2>7 DEF MineStray, TypeOK, Sent, chain, service, HasObject
  <2>8. CASE Restart
    BY <2>8, RestartTyped
  <2>9. CASE UNCHANGED vars
    BY <2>9 DEF vars, TypeOK, chain, service, HasObject
  <2> QED
    BY <2>1, <2>2, <2>3, <2>4, <2>5, <2>6, <2>7, <2>8, <2>9 DEF Next
<1> QED
  BY <1>1, <1>2, PTL DEF Spec

----------------------------------------------------------------------------
(* Slots                                                                   *)

Holds(t) == t.path = "v2" /\ t.pc \in {"scoring", "submit", "sent", "cleanup"}

SlotsInv == SlotsConserved /\ IsFiniteSet(Holders)

\* A task that begins to hold a slot, or ends to, is counted.
LEMMA HoldersChange ==
  ASSUME TypeOK, IsFiniteSet(Holders), NEW i \in TaskIds, NEW t,
         tasks' = [tasks EXCEPT ![i] = t]
  PROVE  /\ IsFiniteSet(Holders') /\ Cardinality(Holders) \in Nat
         /\ Holds(t) <=> i \in Holders'
         /\ Holds(t) /\ ~Holds(tasks[i]) => Cardinality(Holders') = Cardinality(Holders) + 1
         /\ ~Holds(t) /\ Holds(tasks[i]) => Cardinality(Holders') = Cardinality(Holders) - 1
         /\ (Holds(t) <=> Holds(tasks[i])) => Cardinality(Holders') = Cardinality(Holders)
<1>1. Holders = {k \in TaskIds : Holds(tasks[k])}
  BY DEF Holders, Holds
<1>2. Holders' = {k \in TaskIds : Holds(tasks'[k])}
  BY DEF Holders, Holds
<1>3. tasks'[i] = t /\ \A k \in TaskIds : k # i => tasks'[k] = tasks[k]
  BY DEF TypeOK
<1>4. CASE Holds(t) /\ ~Holds(tasks[i])
  <2>1. Holders' = Holders \cup {i} /\ i \notin Holders
    BY <1>1, <1>2, <1>3, <1>4
  <2> QED
    BY <1>4, <2>1, FS_AddElement, FS_CardinalityType
<1>5. CASE ~Holds(t) /\ Holds(tasks[i])
  <2>1. Holders' = Holders \ {i} /\ i \in Holders
    BY <1>1, <1>2, <1>3, <1>5
  <2> QED
    BY <1>5, <2>1, FS_RemoveElement, FS_CardinalityType
<1>6. CASE Holds(t) <=> Holds(tasks[i])
  <2>1. Holders' = Holders
    BY <1>1, <1>2, <1>3, <1>6
  <2> QED
    BY <1>1, <1>6, <2>1, FS_CardinalityType
<1> QED
  BY <1>4, <1>5, <1>6

\* The semaphore and its holders change together.
LEMMA SlotsStep ==
  ASSUME TypeOK, SlotsInv, [Next]_vars
  PROVE  SlotsInv'
<1>1. slots \in Nat /\ MaxConcurrentScoring \in Nat
  BY ServiceAssumption DEF TypeOK
<1>2. ASSUME NEW i \in TaskIds, NEW t, tasks' = [tasks EXCEPT ![i] = t],
             \/ slots' = slots /\ (Holds(t) <=> Holds(tasks[i]))
             \/ slots' = slots - 1 /\ Holds(t) /\ ~Holds(tasks[i])
             \/ slots' = slots + 1 /\ ~Holds(t) /\ Holds(tasks[i])
      PROVE  SlotsInv'
  <2>1. /\ IsFiniteSet(Holders') /\ Cardinality(Holders) \in Nat
        /\ Holds(t) /\ ~Holds(tasks[i]) => Cardinality(Holders') = Cardinality(Holders) + 1
        /\ ~Holds(t) /\ Holds(tasks[i]) => Cardinality(Holders') = Cardinality(Holders) - 1
        /\ (Holds(t) <=> Holds(tasks[i])) => Cardinality(Holders') = Cardinality(Holders)
    BY <1>2, HoldersChange DEF SlotsInv
  <2>2. slots + Cardinality(Holders) = MaxConcurrentScoring
    BY DEF SlotsInv, SlotsConserved
  <2>3. slots' + Cardinality(Holders') = MaxConcurrentScoring
    BY <1>1, <1>2, <2>1, <2>2
  <2> QED
    BY <2>1, <2>3 DEF SlotsInv, SlotsConserved
<1>3. CASE UNCHANGED <<tasks, slots>>
  BY <1>3 DEF SlotsInv, SlotsConserved, Holders
<1>4. ASSUME NEW task, FreeIds # {}, tasks' = Spawned(task), slots' = slots, ~Holds(task)
      PROVE  SlotsInv'
  <2>1. PICK i \in TaskIds : tasks[i] = NoTask /\ tasks' = [tasks EXCEPT ![i] = task]
    BY <1>4, SpawnedOnFreeId
  <2>2. ~Holds(tasks[i])
    BY <2>1 DEF Holds, NoTask
  <2> QED
    BY <1>2, <1>4, <2>1, <2>2
<1>5. ASSUME NEW r \in Rounds, NEW a \in Agents, Receive(r, a)
      PROVE  SlotsInv'
  <2>1. ~Holds(Task("v1", r))
    BY DEF Holds, Task
  <2>2. \/ UNCHANGED <<tasks, slots>>
        \/ FreeIds # {} /\ tasks' = Spawned(Task("v1", r)) /\ slots' = slots
    BY <1>5 DEF Receive, service
  <2> QED
    BY <1>3, <1>4, <2>1, <2>2
<1>6. ASSUME NEW r \in Rounds, ScoreRoundV2(r)
      PROVE  SlotsInv'
  <2>1. ~Holds(Task("v2", r))
    BY DEF Holds, Task
  <2> QED
    BY <1>4, <1>6, <2>1 DEF ScoreRoundV2
<1>7. ASSUME NEW r \in Rounds, SubmitOnchain(r)
      PROVE  SlotsInv'
  <2> DEFINE task == [Task("manual", r) EXCEPT !.gen = Len(mem[r]), !.pc = "submit",
                                               !.payload = Current(r).results]
  <2>1. ~Holds(task)
    BY DEF Holds, Task
  <2>2. FreeIds # {} /\ tasks' = Spawned(task) /\ slots' = slots
    BY <1>7 DEF SubmitOnchain
  <2> HIDE DEF task
  <2> QED
    BY <1>4, <2>1, <2>2
<1>8. ASSUME NEW i \in TaskIds, TaskStep(i) \/ Mine(i)
      PROVE  SlotsInv'
  <2> DEFINE t == tasks[i]
  <2>1. t \in LiveTask /\ ~Holds(NoTask)
    BY <1>8, TaskStepObjects DEF Holds, NoTask
  <2>2. CASE StartV1(i)
    <3> DEFINE g == Len(mem[t.round])  u == Fetched([t EXCEPT !.gen = g], mem[t.round][g])
    <3>1. tasks' = [tasks EXCEPT ![i] = u] /\ slots' = slots
      BY <2>2 DEF StartV1
    <3>2. ~Holds(u) /\ ~Holds(t)
      BY <2>1, <2>2 DEF StartV1, Holds, Fetched, LiveTask
    <3> HIDE DEF u
    <3> QED
      BY <1>2, <3>1, <3>2
  <2>3. CASE AcquireSlot(i)
    <3> DEFINE u == Fetched(t, ObjectOf(t))
    <3>1. tasks' = [tasks EXCEPT ![i] = u] /\ slots' = slots - 1
      BY <2>3 DEF AcquireSlot
    <3>2. Holds(u) /\ ~Holds(t)
      BY <2>1, <2>3 DEF AcquireSlot, Holds, Fetched, LiveTask
    <3> HIDE DEF u
    <3> QED
      BY <1>2, <3>1, <3>2
  <2>4. CASE Scored(i)
    <3>1. PICK payload : tasks' = [tasks EXCEPT ![i] = [[t EXCEPT !.pc = "submit"]
                                                          EXCEPT !.payload = payload]]
      BY <2>4 DEF Scored, TypeOK
    <3> DEFINE u == [[t EXCEPT !.pc = "submit"] EXCEPT !.payload = payload]
    <3>2. (Holds(u) <=> Holds(t)) /\ slots' = slots
      BY <2>1, <2>4 DEF Scored, Holds, LiveTask
    <3> HIDE DEF u
    <3> QED
      BY <1>2, <3>1, <3>2 DEF u
  <2>5. CASE StartV2(i)
    <3> DEFINE u == [[t EXCEPT !.gen = Len(mem[t.round])] EXCEPT !.pc = "waiting"]
    <3>1. tasks' = [tasks EXCEPT ![i] = u] /\ slots' = slots
      BY <2>5 DEF StartV2, TypeOK
    <3>2. ~Holds(u) /\ ~Holds(t)
      BY <2>1, <2>5 DEF StartV2, Holds, LiveTask
    <3> HIDE DEF u
    <3> QED
      BY <1>2, <3>1, <3>2
  <2>6. CASE SlotTimeout(i)
    <3>1. ~Holds(t) /\ tasks' = [tasks EXCEPT ![i] = NoTask] /\ slots' = slots
      BY <2>6 DEF SlotTimeout, Holds, Ends
    <3> QED
      BY <1>2, <2>1, <3>1
  <2>7. CASE ScoringFails(i)
    <3>1. Holds(t) <=> t.path = "v2"
      BY <2>7 DEF ScoringFails, Holds
    <3>2. tasks' = [tasks EXCEPT ![i] = NoTask]
          /\ slots' = IF Holds(t) THEN slots + 1 ELSE slots
      BY <1>1, <2>7, <3>1 DEF ScoringFails, Ends
    <3> QED
      BY <1>2, <2>1, <3>2
  <2>8. CASE CleanUp(i)
    <3>1. Holds(t) /\ tasks' = [tasks EXCEPT ![i] = NoTask] /\ slots' = slots + 1
      BY <2>8 DEF CleanUp, Holds, Ends
    <3> QED
      BY <1>2, <2>1, <3>1
  <2>9. CASE SubmissionRaises(i) \/ Receipt(i) \/ ReceiptTimeout(i)
    <3>1. t.pc \in {"submit", "sent"} /\ AfterSubmission(i, t) /\ slots' = slots
      BY <2>9 DEF SubmissionRaises, Receipt, ReceiptTimeout
    <3>2. CASE t.path = "v2"
      <4>1. tasks' = [tasks EXCEPT ![i] = [t EXCEPT !.pc = "cleanup"]]
        BY <3>1, <3>2 DEF AfterSubmission, Goes, TypeOK
      <4>2. Holds([t EXCEPT !.pc = "cleanup"]) /\ Holds(t)
        BY <2>1, <3>1, <3>2 DEF Holds, LiveTask
      <4> QED
        BY <1>2, <3>1, <4>1, <4>2
    <3>3. CASE t.path # "v2"
      <4>1. tasks' = [tasks EXCEPT ![i] = NoTask] /\ ~Holds(t)
        BY <3>1, <3>3 DEF AfterSubmission, Ends, Holds
      <4> QED
        BY <1>2, <2>1, <3>1, <4>1
    <3> QED
      BY <3>2, <3>3
  <2>10. CASE Send(i)
    <3> DEFINE u == [[t EXCEPT !.pc = "sent"] EXCEPT !.tx = "pending"]
    <3>1. tasks' = [tasks EXCEPT ![i] = u] /\ slots' = slots
      BY <2>10 DEF Send, TypeOK
    <3>2. Holds(u) <=> Holds(t)
      BY <2>1, <2>10 DEF Send, Holds, LiveTask
    <3> HIDE DEF u
    <3> QED
      BY <1>2, <3>1, <3>2
  <2>11. CASE Mine(i)
    <3>1. PICK tx : tasks' = [tasks EXCEPT ![i] = [t EXCEPT !.tx = tx]] /\ slots' = slots
      BY <2>11 DEF Mine, TypeOK
    <3>2. Holds([t EXCEPT !.tx = tx]) <=> Holds(t)
      BY <2>1 DEF Holds, LiveTask
    <3> QED
      BY <1>2, <3>1, <3>2
  <2> QED
    BY <1>8, <2>2, <2>3, <2>4, <2>5, <2>6, <2>7, <2>8, <2>9, <2>10, <2>11 DEF TaskStep
<1>9. CASE Restart
  <2>1. Holders' = {}
    BY <1>9 DEF Restart, Holders, NoTask
  <2> QED
    BY <1>1, <1>9, <2>1, FS_EmptySet DEF Restart, SlotsInv, SlotsConserved
<1>10. ASSUME NEW r \in Rounds, NEW a \in Agents,
              \/ ChainEnter(r, a) \/ ChainCommit(r, a) \/ RelayReads(r, a)
              \/ RelayVerifies(r, a) \/ RelayFails(r, a) \/ InitRound(r, a)
       PROVE  UNCHANGED <<tasks, slots>>
  BY <1>10 DEF ChainEnter, ChainCommit, RelayReads, RelayVerifies, RelayFails, InitRound, service
<1>11. ASSUME NEW r \in Rounds, ChainStartScoring(r) \/ StoreProblem(r)
       PROVE  UNCHANGED <<tasks, slots>>
  BY <1>11 DEF ChainStartScoring, StoreProblem, service
<1>12. ASSUME NEW tx \in stray, MineStray(tx)
       PROVE  UNCHANGED <<tasks, slots>>
  BY <1>12 DEF MineStray, service
<1>13. CASE UNCHANGED vars
  BY <1>3, <1>13 DEF vars, service
<1> QED
  BY <1>3, <1>5, <1>6, <1>7, <1>8, <1>9, <1>10, <1>11, <1>12, <1>13 DEF Next

\* No scoring slot is lost or given back twice, whichever exception, timeout or
\* restart ends the thread that held it (api.py, _score_round_v2_sync).
THEOREM SlotsAlwaysConserved == Spec => []SlotsConserved
<1>1. Init => SlotsInv
  <2> SUFFICES ASSUME Init
               PROVE  SlotsInv
    OBVIOUS
  <2>1. Holders = {}
    BY DEF Init, Holders, NoTask
  <2> QED
    BY <2>1, FS_EmptySet, ServiceAssumption DEF Init, SlotsInv, SlotsConserved
<1>2. TypeOK /\ SlotsInv /\ [Next]_vars => SlotsInv'
  BY SlotsStep
<1>3. SlotsInv => SlotsConserved
  BY DEF SlotsInv
<1> QED
  BY <1>1, <1>2, <1>3, ServiceTyped, PTL DEF Spec

----------------------------------------------------------------------------
(* Solutions                                                               *)

(* NoSolutionIsLost is not inductive: what was accepted must also be in    *)
(* the file, and a round that accepted something be known and recoverable. *)
SolutionsInv ==
  \A r \in Rounds :
    /\ accepted[r] \subseteq diskSolutions[r]
    /\ accepted[r] # {} => Known(r)
    /\ Known(r) => disk[r].status # "none" /\ accepted[r] \subseteq Current(r).solutions

\* What the invariant says of one round.
RoundKeeps(r) ==
  /\ accepted[r] \subseteq diskSolutions[r]
  /\ accepted[r] # {} => Known(r)
  /\ Known(r) => disk[r].status # "none" /\ accepted[r] \subseteq Current(r).solutions

\* A round whose objects and books did not change keeps what it had.
LEMMA RoundUntouched ==
  ASSUME NEW r \in Rounds, RoundKeeps(r), mem'[r] = mem[r], disk'[r] = disk[r],
         diskSolutions'[r] = diskSolutions[r], accepted'[r] = accepted[r]
  PROVE  RoundKeeps(r)'
BY DEF RoundKeeps, Known, Current

\* A task leaves the solutions of its object alone.
LEMMA TasksKeepSolutions ==
  ASSUME TypeOK, SolutionsInv, NEW i \in TaskIds, TaskStep(i) \/ Mine(i)
  PROVE  SolutionsInv'
<1>0. PICK q \in Rounds : q = tasks[i].round
  BY SMTT(60), TaskStepObjects
<1>1. UNCHANGED <<disk, diskSolutions, accepted>>
  BY DEF TaskStep, StartV1, StartV2, AcquireSlot, SlotTimeout, Scored,
     ScoringFails, SubmissionRaises, Send, Receipt, ReceiptTimeout, CleanUp, Mine
<1>2. SUFFICES ASSUME NEW r \in Rounds
               PROVE  RoundKeeps(r)'
  BY DEF SolutionsInv, RoundKeeps
<1>3. RoundKeeps(r)
  BY DEF SolutionsInv, RoundKeeps
<1>4. CASE mem' = mem
  BY <1>1, <1>3, <1>4, RoundUntouched
<1>5. ASSUME NEW g \in 1 .. Len(mem[q]), NEW object \in Object,
             Replaces(q, g, object), Follows(object, mem[q][g])
      PROVE  RoundKeeps(r)'
  <2>1. /\ mem' \in [Rounds -> Seq(Object)]
        /\ Len(mem'[q]) = Len(mem[q]) /\ mem'[q][g] = object
        /\ \A h \in 1 .. Len(mem[q]) : h # g => mem'[q][h] = mem[q][h]
        /\ \A p \in Rounds : p # q => mem'[p] = mem[p]
    BY <1>5, ObjectReplaced
  <2>2. CASE r # q
    BY <1>1, <1>3, <2>1, <2>2, RoundUntouched
  <2>3. CASE r = q
    <3>1. mem[q] \in Seq(Object) /\ mem'[q] \in Seq(Object)
      BY <1>1, <2>1 DEF TypeOK
    <3>2. Known(q) /\ Known(q)'
      BY <2>1, <3>1 DEF Known
    <3>3. mem'[q][Len(mem[q])].solutions = mem[q][Len(mem[q])].solutions
      <4>1. Len(mem[q]) \in 1 .. Len(mem[q])
        BY <1>1, <3>2, CurrentIsObject
      <4> QED
        BY <1>5, <2>1, <4>1 DEF Follows
    <3>4. Current(q)'.solutions = Current(q).solutions
      BY <2>1, <3>3 DEF Current, Last
    <3> QED
      BY <1>1, <1>3, <2>3, <3>2, <3>4 DEF RoundKeeps
  <2> QED
    BY <2>2, <2>3
<1> QED
  BY <1>0, <1>4, <1>5, TaskStepObjects

\* Neither do the steps that change objects on purpose lose one.
LEMMA SolutionsStep ==
  ASSUME TypeOK, TypeOK', SolutionsInv, [Next]_vars
  PROVE  SolutionsInv'
<1>1. \A r \in Rounds : RoundKeeps(r)
  BY DEF SolutionsInv, RoundKeeps
<1>2. CASE UNCHANGED <<mem, disk, diskSolutions, accepted>>
  BY <1>2 DEF SolutionsInv, Known, Current
<1>3. ASSUME NEW r \in Rounds, NEW a \in Agents, Receive(r, a)
      PROVE  SolutionsInv'
  <2>1. CASE UNCHANGED <<service, accepted>>
    BY <1>2, <2>1 DEF service
  <2>2. CASE ~ UNCHANGED <<service, accepted>>
    <3> DEFINE got == Current(r).solutions \cup {a}
               object == [Current(r) EXCEPT !.solutions = got]
    <3>1. /\ Known(r) /\ mem' = SetCurrent(r, object)
          /\ diskSolutions' = [diskSolutions EXCEPT ![r] = @ \cup {a}]
          /\ accepted' = [accepted EXCEPT ![r] = @ \cup {a}]
          /\ disk' = disk
      BY <1>3, <2>2 DEF Receive, _persist_solution
    <3>2. /\ Len(mem[r]) \in 1 .. Len(mem[r]) /\ object \in Object
          /\ object.solutions = got
      BY <3>1, CurrentIsObject DEF Object
    <3>3. Replaces(r, Len(mem[r]), object)
      BY <3>1 DEF SetCurrent, Replaces
    <3>4. Len(mem'[r]) = Len(mem[r]) /\ mem'[r][Len(mem[r])] = object
      <4> HIDE DEF object
      <4> QED
        BY <3>2, <3>3, ObjectReplaced
    <3>5. Known(r)' /\ Current(r)' = object
      <4>1. mem'[r] # <<>>
        BY <3>2, <3>4
      <4> QED
        BY <3>4, <4>1 DEF Known, Current, Last
    <3>6. RoundKeeps(r)'
      <4>1. accepted'[r] = accepted[r] \cup {a} /\ diskSolutions'[r] = diskSolutions[r] \cup {a}
        BY <3>1 DEF TypeOK
      <4> QED
        BY <1>1, <3>1, <3>2, <3>5, <4>1 DEF RoundKeeps
    <3>7. ASSUME NEW q \in Rounds, q # r
          PROVE  RoundKeeps(q)'
      <4>1. /\ mem'[q] = mem[q] /\ disk'[q] = disk[q] /\ accepted'[q] = accepted[q]
            /\ diskSolutions'[q] = diskSolutions[q]
        BY <3>1, <3>3, <3>7 DEF TypeOK, Replaces
      <4> QED
        BY <1>1, <4>1, RoundUntouched
    <3> QED
      BY <3>6, <3>7 DEF SolutionsInv, RoundKeeps
  <2> QED
    BY <2>1, <2>2
<1>4. ASSUME NEW r \in Rounds, NEW a \in Agents, InitRound(r, a)
      PROVE  SolutionsInv'
  <2> DEFINE n == relay[r][a].expected
             object == NewObject("receiving", n, {}, FALSE)
  <2>1. CASE Known(r)
    BY <1>2, <1>4, <2>1 DEF InitRound, init_round
  <2>2. CASE ~Known(r)
    <3>1. /\ mem' = [mem EXCEPT ![r] = <<object>>]
          /\ disk' = [disk EXCEPT ![r] = [status |-> "receiving", expected |-> n]]
          /\ UNCHANGED <<diskSolutions, accepted>>
      BY <1>4, <2>2 DEF InitRound, init_round, _persist_round
    <3>2. accepted[r] = {} /\ disk'[r].status = "receiving"
      BY <1>1, <2>2, <3>1 DEF RoundKeeps, TypeOK
    <3>3. RoundKeeps(r)'
      BY <3>1, <3>2 DEF RoundKeeps
    <3>4. ASSUME NEW q \in Rounds, q # r
          PROVE  RoundKeeps(q)'
      <4>1. mem'[q] = mem[q] /\ disk'[q] = disk[q]
        BY <3>1, <3>4 DEF TypeOK
      <4> QED
        BY <1>1, <3>1, <4>1, RoundUntouched
    <3> QED
      BY <3>3, <3>4 DEF SolutionsInv, RoundKeeps
  <2> QED
    BY <2>1, <2>2
<1>5. ASSUME NEW r \in Rounds, ScoreRoundV2(r)
      PROVE  SolutionsInv'
  <2> DEFINE merged == Current(r).solutions
             n == Cardinality(merged)
             object == NewObject("scoring", n, merged, TRUE)
  <2>1. /\ Known(r) /\ UNCHANGED <<diskSolutions, accepted>>
        /\ mem' = [mem EXCEPT ![r] = Append(@, object)]
        /\ disk' = [disk EXCEPT ![r] = [status |-> "scoring", expected |-> n]]
    BY <1>5 DEF ScoreRoundV2, _persist_round
  <2>2. mem'[r] = Append(mem[r], object) /\ mem[r] \in Seq(Object)
        /\ disk'[r].status = "scoring"
    BY <2>1 DEF TypeOK
  <2>3. Current(r)' = object
    <3> HIDE DEF object
    <3>1. mem'[r] \in Seq(Object) /\ Len(mem[r]) \in Nat
      BY <2>2 DEF TypeOK
    <3>2. Len(mem'[r]) = Len(mem[r]) + 1 /\ mem'[r][Len(mem[r]) + 1] = object
      BY <2>2, <3>1
    <3> QED
      BY <3>2 DEF Current, Last
  <2>4. RoundKeeps(r)'
    <3>1. accepted[r] \subseteq merged /\ object.solutions = merged
      BY <1>1, <2>1 DEF RoundKeeps, NewObject
    <3>2. accepted'[r] \subseteq Current(r)'.solutions
      BY <2>1, <2>3, <3>1
    <3>3. Known(r)'
      <4> HIDE DEF object
      <4> QED
        BY <2>2 DEF Known
    <3> QED
      BY <1>1, <2>1, <2>2, <3>2, <3>3 DEF RoundKeeps
  <2>5. ASSUME NEW q \in Rounds, q # r
        PROVE  RoundKeeps(q)'
    <3>1. mem'[q] = mem[q] /\ disk'[q] = disk[q]
      BY <2>1, <2>5 DEF TypeOK
    <3> QED
      BY <1>1, <2>1, <3>1, RoundUntouched
  <2> QED
    BY <2>4, <2>5 DEF SolutionsInv, RoundKeeps
<1>6. CASE Restart
  <2> SUFFICES ASSUME NEW r \in Rounds
               PROVE  RoundKeeps(r)'
    BY DEF SolutionsInv, RoundKeeps
  <2> DEFINE object == NewObject(disk[r].status, disk[r].expected, diskSolutions[r], FALSE)
  <2>1. UNCHANGED <<disk, diskSolutions, accepted>> /\ RoundKeeps(r) /\ disk[r] \in Row
    BY <1>1, <1>6 DEF Restart, TypeOK
  <2>2. CASE disk[r].status \in {"receiving", "scoring"}
    <3>1. mem'[r] = <<object>>
      BY <1>6, <2>2 DEF Restart
    <3>2. Current(r)' = object /\ Known(r)' /\ object.solutions = diskSolutions[r]
      BY <3>1 DEF Current, Last, Known, NewObject
    <3> QED
      BY <2>1, <2>2, <3>2 DEF RoundKeeps
  <2>3. CASE disk[r].status \notin {"receiving", "scoring"}
    <3>1. mem'[r] = <<>>
      BY <1>6, <2>3 DEF Restart
    <3>2. ~Known(r)
      BY <2>1, <2>3 DEF RoundKeeps, Row
    <3> QED
      BY <2>1, <3>1, <3>2 DEF RoundKeeps, Known
  <2> QED
    BY <2>2, <2>3
<1>7. ASSUME NEW r \in Rounds, NEW a \in Agents,
             \/ ChainEnter(r, a) \/ ChainCommit(r, a) \/ RelayReads(r, a)
             \/ RelayVerifies(r, a) \/ RelayFails(r, a)
      PROVE  UNCHANGED <<mem, disk, diskSolutions, accepted>>
  BY <1>7 DEF ChainEnter, ChainCommit, RelayReads, RelayVerifies, RelayFails, service
<1>8. ASSUME NEW r \in Rounds, ChainStartScoring(r) \/ StoreProblem(r) \/ SubmitOnchain(r)
      PROVE  UNCHANGED <<mem, disk, diskSolutions, accepted>>
  BY <1>8 DEF ChainStartScoring, StoreProblem, SubmitOnchain, service
<1>9. ASSUME NEW tx \in stray, MineStray(tx)
      PROVE  UNCHANGED <<mem, disk, diskSolutions, accepted>>
  BY <1>9 DEF MineStray, service
<1>10. CASE UNCHANGED vars
  BY <1>2, <1>10 DEF vars, service
<1> QED
  BY <1>2, <1>3, <1>4, <1>5, <1>6, <1>7, <1>8, <1>9, <1>10, TasksKeepSolutions DEF Next

\* A solution the agent was told is received stays with the round, whatever is
\* scored, restarted or initialised again (api.py, receive_solution).
THEOREM NoSolutionEverLost == Spec => []NoSolutionIsLost
<1>1. Init => SolutionsInv
  BY DEF Init, SolutionsInv, Known
<1>2. TypeOK /\ TypeOK' /\ SolutionsInv /\ [Next]_vars => SolutionsInv'
  BY SolutionsStep
<1>3. SolutionsInv => NoSolutionIsLost
  BY DEF SolutionsInv, NoSolutionIsLost
<1> QED
  BY <1>1, <1>2, <1>3, ServiceTyped, PTL DEF Spec

----------------------------------------------------------------------------
(* Scores                                                                  *)

(* What an object of round r may hold.  Once it is not receiving any more, *)
(* its solutions do not change.                                            *)
ObjectInv(r, o) ==
  /\ o.solutions \subseteq committed[r]
  /\ o.status = "receiving" => o.results = NoPayload
  /\ o.status \in {"completed", "submitted"} => o.results # NoPayload
  /\ o.results # NoPayload => DOMAIN o.results = o.solutions
  /\ o.status = "submitted" => oracle[r] # NoPayload /\ DOMAIN oracle[r] = o.solutions

(* What a task holds agrees with its object, and with what it sent.        *)
TaskInv(t) ==
  /\ t.pc = "queued" => /\ t.path # "manual"
                        /\ t.path = "v2" => Current(t.round).status # "receiving"
  /\ t.pc # "queued" => ObjectOf(t).status # "receiving"
  /\ t.pc = "scoring" => t.taken = ObjectOf(t).solutions
  /\ t.pc \in {"submit", "sent", "cleanup"} =>
       /\ t.payload # NoPayload /\ DOMAIN t.payload = ObjectOf(t).solutions
       /\ ObjectOf(t).results # NoPayload
  /\ t.tx # "none" => t.pc \in {"sent", "cleanup"}
  /\ t.tx = "success" => oracle[t.round] = t.payload

(* The way of a solution, from the commitment to the oracle: each station  *)
(* holds nothing that did not come from the one before.                    *)
RelayInv == \A r \in Rounds, a \in Agents :
  relay[r][a].pc \in {"forward", "init", "retry"} => a \in committed[r]

FileInv    == \A r \in Rounds : diskSolutions[r] \subseteq committed[r]
ObjectsInv == \A r \in Rounds : \A g \in 1 .. Len(mem[r]) : ObjectInv(r, mem[r][g])
TasksInv   == \A i \in TaskIds : tasks[i] # NoTask => TaskInv(tasks[i])
StrayInv   == \A tx \in stray :
  tx.payload # NoPayload /\ DOMAIN tx.payload \subseteq committed[tx.round]

ScoresInv ==
  RelayInv /\ FileInv /\ ObjectsInv /\ TasksInv /\ StrayInv /\ OnlyCommittedAreScored

(* What every step but a restart does: commitments and scores on chain     *)
(* stay, and an object that does not receive any more keeps its solutions. *)
Forward ==
  /\ \A r \in Rounds : committed[r] \subseteq committed'[r]
  /\ \A r \in Rounds : oracle[r] # NoPayload => oracle'[r] = oracle[r]
  /\ \A r \in Rounds : \A g \in 1 .. Len(mem[r]) : mem[r][g].status # "receiving" =>
       /\ mem'[r][g].status # "receiving" /\ mem'[r][g].solutions = mem[r][g].solutions
       /\ mem[r][g].results # NoPayload => mem'[r][g].results # NoPayload
  /\ \A r \in Rounds :
       Known(r) /\ Current(r).status # "receiving" => Current(r)'.status # "receiving"

\* What is true of an object stays true while it is not touched.
LEMMA ObjectStays ==
  ASSUME Forward, NEW r \in Rounds, NEW o, ObjectInv(r, o)
  PROVE  ObjectInv(r, o)'
BY DEF Forward, ObjectInv

\* What is true of a task stays true while others move.
LEMMA TaskStays ==
  ASSUME TypeOK, TasksInv, Forward, NEW i \in TaskIds, tasks[i] # NoTask,
         tasks'[i] = tasks[i]
  PROVE  TaskInv(tasks[i])'
<1>0. PICK t \in LiveTask : t = tasks[i]
  BY LiveOrNot
<1>1. t.round \in Rounds /\ TaskInv(t) /\ HasObject(t) /\ tasks'[i] = t
  BY <1>0 DEF LiveTask, TasksInv, TypeOK
<1>2. CASE t.pc = "queued"
  <2>1. t.path = "v2" => Current(t.round)'.status # "receiving"
    BY <1>1, <1>2 DEF TaskInv, Forward, HasObject, Known
  <2> QED
    BY <1>1, <1>2, <2>1 DEF TaskInv
<1>3. CASE t.pc # "queued"
  <2>1. t.gen \in 1 .. Len(mem[t.round]) /\ mem[t.round][t.gen].status # "receiving"
    BY <1>1, <1>3 DEF HasObject, TaskInv, ObjectOf
  <2>2. /\ mem'[t.round][t.gen].status # "receiving"
        /\ mem'[t.round][t.gen].solutions = mem[t.round][t.gen].solutions
        /\ mem[t.round][t.gen].results # NoPayload => mem'[t.round][t.gen].results # NoPayload
    BY <1>1, <2>1 DEF Forward
  <2>3. t.tx = "success" => oracle'[t.round] = t.payload
    BY <1>1 DEF Forward, TaskInv
  <2>4. PICK o : o = mem[t.round][t.gen]
    OBVIOUS
  <2>5. /\ t.pc = "scoring" => t.taken = o.solutions
        /\ t.pc \in {"submit", "sent", "cleanup"} =>
             /\ t.payload # NoPayload /\ DOMAIN t.payload = o.solutions
             /\ o.results # NoPayload
        /\ t.tx # "none" => t.pc \in {"sent", "cleanup"}
    BY <1>1, <2>4 DEF TaskInv, ObjectOf
  <2>6. PICK o1 : o1 = mem'[t.round][t.gen]
    OBVIOUS
  <2>7. /\ o1.status # "receiving" /\ o1.solutions = o.solutions
        /\ o.results # NoPayload => o1.results # NoPayload
    BY <2>2, <2>4, <2>6
  <2>8. TaskInv(t)'
    BY <1>3, <2>3, <2>5, <2>6, <2>7 DEF TaskInv, ObjectOf
  <2> QED
    BY <1>1, <2>8 DEF TaskInv
<1> QED
  BY <1>2, <1>3

\* A step that leaves the objects alone moves forward if the chain does.
LEMMA ForwardWithoutObjects ==
  ASSUME mem' = mem, \A r \in Rounds : committed[r] \subseteq committed'[r],
         \A r \in Rounds : oracle[r] # NoPayload => oracle'[r] = oracle[r]
  PROVE  Forward
BY DEF Forward, Known, Current

\* So does one that replaces an object without changing solutions that count.
LEMMA ForwardReplacing ==
  ASSUME TypeOK, NEW r \in Rounds, NEW g \in 1 .. Len(mem[r]), NEW object \in Object,
         Replaces(r, g, object), UNCHANGED committed,
         \A q \in Rounds : oracle[q] # NoPayload => oracle'[q] = oracle[q],
         \/ Follows(object, mem[r][g])
         \/ g = Len(mem[r]) /\ mem[r][g].status = "receiving"
  PROVE  Forward
<1>1. /\ Len(mem'[r]) = Len(mem[r]) /\ mem'[r][g] = object
      /\ \A h \in 1 .. Len(mem[r]) : h # g => mem'[r][h] = mem[r][h]
      /\ \A q \in Rounds : q # r => mem'[q] = mem[q]
  BY ObjectReplaced
<1>2. ASSUME NEW q \in Rounds, NEW h \in 1 .. Len(mem[q]), mem[q][h].status # "receiving"
      PROVE  /\ mem'[q][h].status # "receiving" /\ mem'[q][h].solutions = mem[q][h].solutions
             /\ mem[q][h].results # NoPayload => mem'[q][h].results # NoPayload
  <2>1. CASE q = r /\ h = g
    BY <1>1, <1>2, <2>1 DEF Follows
  <2>2. CASE ~(q = r /\ h = g)
    BY <1>1, <1>2, <2>2
  <2> QED
    BY <2>1, <2>2
<1>3. ASSUME NEW q \in Rounds, Known(q), Current(q).status # "receiving"
      PROVE  Current(q)'.status # "receiving"
  <2>1. Len(mem[q]) \in 1 .. Len(mem[q]) /\ Current(q) = mem[q][Len(mem[q])]
    BY <1>3, CurrentIsObject
  <2>2. Len(mem'[q]) = Len(mem[q])
    BY <1>1
  <2>3. Current(q)' = mem'[q][Len(mem[q])]
    BY <2>2 DEF Current, Last
  <2> QED
    BY <1>2, <1>3, <2>1, <2>3
<1> QED
  BY <1>2, <1>3 DEF Forward

\* The objects, after a step that replaces one of them.
LEMMA ObjectsAfterReplacing ==
  ASSUME TypeOK, ObjectsInv, Forward, NEW r \in Rounds, NEW g \in 1 .. Len(mem[r]),
         NEW object \in Object, Replaces(r, g, object), ObjectInv(r, object)'
  PROVE  ObjectsInv'
<1>1. /\ \A q \in Rounds : Len(mem'[q]) = Len(mem[q])
      /\ mem'[r][g] = object
      /\ \A h \in 1 .. Len(mem[r]) : h # g => mem'[r][h] = mem[r][h]
      /\ \A q \in Rounds : q # r => mem'[q] = mem[q]
  BY ObjectReplaced
<1>2. ASSUME NEW q \in Rounds, NEW h \in 1 .. Len(mem'[q])
      PROVE  ObjectInv(q, mem[q][h])'
  <2>1. CASE q = r /\ h = g
    BY <1>1, <2>1 DEF ObjectInv
  <2>2. CASE ~(q = r /\ h = g)
    <3>1. PICK o : o = mem[q][h]
      OBVIOUS
    <3>2. mem'[q][h] = o /\ h \in 1 .. Len(mem[q])
      BY <1>1, <2>2, <3>1
    <3>3. ObjectInv(q, o)
      BY <3>1, <3>2 DEF ObjectsInv
    <3>4. ObjectInv(q, o)'
      BY <3>3, ObjectStays
    <3> QED
      BY <3>2, <3>4 DEF ObjectInv
  <2> QED
    BY <2>1, <2>2
<1> QED
  BY <1>2 DEF ObjectsInv

\* The objects, after a step that touches none.
LEMMA ObjectsUntouched ==
  ASSUME ObjectsInv, Forward, mem' = mem
  PROVE  ObjectsInv'
<1>1. ASSUME NEW q \in Rounds, NEW h \in 1 .. Len(mem[q])
      PROVE  ObjectInv(q, mem[q][h])'
  <2>1. PICK o : o = mem[q][h]
    OBVIOUS
  <2>2. ObjectInv(q, o)'
    BY <2>1, ObjectStays DEF ObjectsInv
  <2> QED
    BY <2>1, <2>2 DEF ObjectInv
<1> QED
  BY <1>1 DEF ObjectsInv

\* The tasks, after a step that changes one of them.
LEMMA TasksAfterChange ==
  ASSUME TypeOK, TasksInv, Forward, NEW i \in TaskIds, NEW t,
         tasks' = [tasks EXCEPT ![i] = t], t # NoTask => TaskInv(t)'
  PROVE  TasksInv'
<1>1. tasks'[i] = t /\ \A k \in TaskIds : k # i => tasks'[k] = tasks[k]
  BY DEF TypeOK
<1>2. ASSUME NEW k \in TaskIds, tasks'[k] # NoTask
      PROVE  TaskInv(tasks[k])'
  <2>1. CASE k = i
    BY <1>1, <1>2, <2>1 DEF TaskInv
  <2>2. CASE k # i
    BY <1>1, <1>2, <2>2, TaskStays
  <2> QED
    BY <2>1, <2>2
<1> QED
  BY <1>2 DEF TasksInv

\* The tasks, after a step that changes none.
LEMMA TasksUntouched ==
  ASSUME TypeOK, TasksInv, Forward, tasks' = tasks
  PROVE  TasksInv'
BY TaskStays DEF TasksInv

\* The chain and the relay.
LEMMA RelayScores ==
  ASSUME TypeOK, ScoresInv, NEW r \in Rounds, NEW a \in Agents,
         \/ ChainEnter(r, a) \/ ChainCommit(r, a) \/ RelayReads(r, a)
         \/ RelayVerifies(r, a) \/ RelayFails(r, a)
  PROVE  ScoresInv'
<1>1. UNCHANGED <<oracle, stray, service>>
      /\ \A q \in Rounds : committed[q] \subseteq committed'[q]
  BY DEF ChainEnter, ChainCommit, RelayReads, RelayVerifies, RelayFails, chain, TypeOK
<1>2. Forward
  BY <1>1, ForwardWithoutObjects DEF service
<1>3. ObjectsInv' /\ TasksInv'
  BY <1>1, <1>2, ObjectsUntouched, TasksUntouched DEF service, ScoresInv
<1>4. FileInv' /\ OnlyCommittedAreScored'
  BY <1>1 DEF service, ScoresInv, FileInv, OnlyCommittedAreScored
<1>5. StrayInv'
  BY <1>1 DEF ScoresInv, StrayInv, TypeOK, Sent
<1>6. RelayInv'
  <2>1. CASE ChainEnter(r, a) \/ ChainCommit(r, a)
    <3>1. relay' = relay
      BY <2>1 DEF ChainEnter, ChainCommit
    <3> QED
      BY <1>1, <3>1 DEF ScoresInv, RelayInv
  <2>2. CASE RelayReads(r, a) \/ RelayFails(r, a)
    <3>1. PICK request : /\ relay' = [relay EXCEPT ![r][a] = request]
                         /\ request.pc \in {"verify", "idle"}
      BY <2>2 DEF RelayReads, RelayFails, Idle
    <3> QED
      BY <1>1, <3>1 DEF ScoresInv, RelayInv, TypeOK
  <2>3. CASE RelayVerifies(r, a)
    <3>1. PICK request : /\ relay' = [relay EXCEPT ![r][a] = request]
                         /\ request.pc = "idle" \/ a \in committed[r]
      <4>1. CASE a \in committed[r]
        <5>1. relay' = [relay EXCEPT ![r][a] = [relay[r][a] EXCEPT !.pc = "forward"]]
          BY <2>3, <4>1 DEF RelayVerifies, verify_commitment, TypeOK
        <5> QED
          BY <4>1, <5>1
      <4>2. CASE a \notin committed[r]
        <5>1. relay' = [relay EXCEPT ![r][a] = Idle]
          BY <2>3, <4>2 DEF RelayVerifies, verify_commitment
        <5>2. Idle.pc = "idle"
          BY DEF Idle
        <5> QED
          BY <5>1, <5>2
      <4> QED
        BY <4>1, <4>2
    <3> QED
      BY <1>1, <3>1 DEF ScoresInv, RelayInv, TypeOK
  <2> QED
    BY <2>1, <2>2, <2>3
<1> QED
  BY <1>3, <1>4, <1>5, <1>6 DEF ScoresInv

\* A solution arrives: its agent has committed, and the round receives.
LEMMA ReceiveScores ==
  ASSUME TypeOK, ScoresInv, NEW r \in Rounds, NEW a \in Agents, Receive(r, a)
  PROVE  ScoresInv'
<1>1. /\ UNCHANGED <<chain, oracle, stray>> /\ a \in committed[r]
      /\ \/ relay' = [relay EXCEPT ![r][a] = [relay[r][a] EXCEPT !.pc = "init"]]
         \/ relay' = [relay EXCEPT ![r][a] = Idle]
  BY DEF Receive, ScoresInv, RelayInv, TypeOK
<1>2. RelayInv'
  <2>1. PICK request : relay' = [relay EXCEPT ![r][a] = request]
    BY <1>1, Zenon
  <2> QED
    BY <1>1, <2>1 DEF ScoresInv, RelayInv, TypeOK, chain
<1>3. StrayInv' /\ OnlyCommittedAreScored'
  BY <1>1 DEF chain, ScoresInv, StrayInv, OnlyCommittedAreScored
<1>4. CASE UNCHANGED service
  <2>1. Forward
    BY <1>1, <1>4, ForwardWithoutObjects DEF service, chain
  <2>2. ObjectsInv' /\ TasksInv' /\ FileInv'
    BY <1>1, <1>4, <2>1, ObjectsUntouched, TasksUntouched DEF service, chain, ScoresInv, FileInv
  <2> QED
    BY <1>2, <1>3, <2>2 DEF ScoresInv
<1>5. CASE ~ UNCHANGED service
  <2>1. PICK got : got = Current(r).solutions \cup {a}
    OBVIOUS
  <2>2. PICK object : object = [Current(r) EXCEPT !.solutions = got]
    OBVIOUS
  <2>3. /\ Known(r) /\ Current(r).status = "receiving"
        /\ mem' = SetCurrent(r, object)
        /\ diskSolutions' = [diskSolutions EXCEPT ![r] = @ \cup {a}]
        /\ (FreeIds # {} /\ tasks' = Spawned(Task("v1", r))) \/ UNCHANGED tasks
    BY <1>5, <2>1, <2>2 DEF Receive, _persist_solution
  <2>4. PICK g \in 1 .. Len(mem[r]) : g = Len(mem[r]) /\ Current(r) = mem[r][g]
                                      /\ Current(r) \in Object
    BY <2>3, CurrentIsObject
  <2>5. /\ object \in Object /\ object.solutions = got
        /\ object.status = "receiving" /\ object.results = mem[r][g].results
    BY <2>1, <2>2, <2>3, <2>4 DEF Object
  <2>6. Replaces(r, g, object)
    BY <2>3, <2>4 DEF SetCurrent, Replaces
  <2>7. Forward
    BY <1>1, <2>3, <2>4, <2>5, <2>6, ForwardReplacing DEF chain
  <2>8. ObjectInv(r, object)'
    <3>1. ObjectInv(r, mem[r][g])
      BY DEF ScoresInv, ObjectsInv
    <3> QED
      BY <1>1, <2>1, <2>3, <2>4, <2>5, <3>1 DEF ObjectInv, chain
  <2>9. ObjectsInv'
    BY <2>5, <2>6, <2>7, <2>8, ObjectsAfterReplacing DEF ScoresInv
  <2>10. TasksInv'
    <3>1. CASE UNCHANGED tasks
      BY <2>7, <3>1, TasksUntouched DEF ScoresInv
    <3>2. CASE FreeIds # {} /\ tasks' = Spawned(Task("v1", r))
      <4>1. PICK i \in TaskIds : tasks' = [tasks EXCEPT ![i] = Task("v1", r)]
        BY <3>2, SpawnedOnFreeId
      <4>2. TaskInv(Task("v1", r))'
        BY DEF TaskInv, Task
      <4> QED
        BY <2>7, <4>1, <4>2, TasksAfterChange DEF ScoresInv
    <3> QED
      BY <2>3, <3>1, <3>2
  <2>11. FileInv'
    BY <1>1, <2>3 DEF ScoresInv, FileInv, chain, TypeOK
  <2> QED
    BY <1>2, <1>3, <2>9, <2>10, <2>11 DEF ScoresInv
<1> QED
  BY <1>4, <1>5

\* A round becomes known, with no solutions yet.
LEMMA InitRoundScores ==
  ASSUME TypeOK, ScoresInv, NEW r \in Rounds, NEW a \in Agents, InitRound(r, a)
  PROVE  ScoresInv'
<1>1. /\ UNCHANGED <<chain, oracle, stray, diskSolutions, tasks>>
      /\ relay[r][a].pc = "init" /\ relay' = [relay EXCEPT ![r][a].pc = "retry"]
  BY DEF InitRound
<1>2. RelayInv'
  BY <1>1 DEF ScoresInv, RelayInv, TypeOK, chain
<1>3. StrayInv' /\ FileInv' /\ OnlyCommittedAreScored'
  BY <1>1 DEF chain, ScoresInv, StrayInv, FileInv, OnlyCommittedAreScored
<1>4. CASE mem' = mem
  <2>1. Forward
    BY <1>1, <1>4, ForwardWithoutObjects DEF chain
  <2> QED
    BY <1>1, <1>2, <1>3, <1>4, <2>1, ObjectsUntouched, TasksUntouched DEF ScoresInv
<1>5. CASE mem' # mem
  <2>1. PICK object : object = NewObject("receiving", relay[r][a].expected, {}, FALSE)
    OBVIOUS
  <2>2. ~Known(r) /\ mem' = [mem EXCEPT ![r] = <<object>>]
    BY <1>5, <2>1 DEF InitRound, init_round
  <2>3. /\ mem[r] = <<>> /\ mem'[r] = <<object>>
        /\ \A q \in Rounds : q # r => mem'[q] = mem[q]
    BY <2>2 DEF TypeOK, Known
  <2>4. Forward
    BY <1>1, <2>3 DEF Forward, Known, Current, chain
  <2>5. ObjectInv(r, object)'
    BY <2>1 DEF ObjectInv, NewObject
  <2>6. ASSUME NEW q \in Rounds, NEW h \in 1 .. Len(mem'[q])
        PROVE  ObjectInv(q, mem[q][h])'
    <3>1. CASE q = r
      <4>1. mem'[q][h] = object
        BY <2>3, <3>1
      <4> QED
        BY <2>5, <3>1, <4>1 DEF ObjectInv
    <3>2. CASE q # r
      <4>1. PICK o : o = mem[q][h]
        OBVIOUS
      <4>2. ObjectInv(q, o)'
        BY <2>3, <2>4, <2>6, <3>2, <4>1, ObjectStays DEF ScoresInv, ObjectsInv
      <4> QED
        BY <2>3, <3>2, <4>1, <4>2 DEF ObjectInv
    <3> QED
      BY <3>1, <3>2
  <2>7. ObjectsInv'
    BY <2>6 DEF ObjectsInv
  <2> QED
    BY <1>1, <1>2, <1>3, <2>4, <2>7, TasksUntouched DEF ScoresInv
<1> QED
  BY <1>4, <1>5

\* The operator has a round scored once more, or submitted.
LEMMA OperatorScores ==
  ASSUME TypeOK, ScoresInv, NEW r \in Rounds,
         StoreProblem(r) \/ ScoreRoundV2(r) \/ SubmitOnchain(r) \/ ChainStartScoring(r)
  PROVE  ScoresInv'
<1>1. UNCHANGED <<committed, oracle, stray, relay, diskSolutions>>
  BY DEF StoreProblem, ScoreRoundV2, SubmitOnchain, ChainStartScoring, chain, service
<1>2. RelayInv' /\ FileInv' /\ StrayInv' /\ OnlyCommittedAreScored'
  BY <1>1 DEF ScoresInv, RelayInv, FileInv, StrayInv, OnlyCommittedAreScored
<1>3. CASE StoreProblem(r) \/ ChainStartScoring(r)
  <2>1. mem' = mem /\ tasks' = tasks
    BY <1>3 DEF StoreProblem, ChainStartScoring, service
  <2>2. Forward
    BY <1>1, <2>1, ForwardWithoutObjects
  <2> QED
    BY <1>2, <2>1, <2>2, ObjectsUntouched, TasksUntouched DEF ScoresInv
<1>4. CASE ScoreRoundV2(r)
  <2>1. PICK merged : merged = Current(r).solutions
    OBVIOUS
  <2>2. PICK object : object = NewObject("scoring", Cardinality(merged), merged, TRUE)
    OBVIOUS
  <2>3. /\ Known(r) /\ mem' = [mem EXCEPT ![r] = Append(@, object)]
        /\ FreeIds # {} /\ tasks' = Spawned(Task("v2", r))
    BY <1>4, <2>1, <2>2 DEF ScoreRoundV2
  <2>4. /\ object.status = "scoring" /\ object.solutions = merged
        /\ object.results = NoPayload
    BY <2>2 DEF NewObject
  <2>5. mem[r] \in Seq(Object) /\ Len(mem[r]) \in Nat
        /\ mem'[r] = Append(mem[r], object) /\ \A q \in Rounds : q # r => mem'[q] = mem[q]
    BY <2>3 DEF TypeOK
  <2>6. /\ Len(mem'[r]) = Len(mem[r]) + 1 /\ mem'[r][Len(mem[r]) + 1] = object
        /\ \A h \in 1 .. Len(mem[r]) : mem'[r][h] = mem[r][h]
    BY <2>5
  <2>7. Current(r)' = object
    BY <2>6 DEF Current, Last
  <2>8. Forward
    <3>1. ASSUME NEW q \in Rounds, Known(q), Current(q).status # "receiving"
          PROVE  Current(q)'.status # "receiving"
      <4>1. CASE q = r
        BY <2>4, <2>7, <4>1
      <4>2. CASE q # r
        BY <2>5, <3>1, <4>2 DEF Current
      <4> QED
        BY <4>1, <4>2
    <3> QED
      BY <1>1, <2>5, <2>6, <3>1 DEF Forward
  <2>9. ObjectInv(r, object)'
    <3>1. ObjectInv(r, Current(r))
      BY <2>3, CurrentIsObject DEF ScoresInv, ObjectsInv
    <3> QED
      BY <1>1, <2>1, <2>4, <3>1 DEF ObjectInv
  <2>10. ASSUME NEW q \in Rounds, NEW h \in 1 .. Len(mem'[q])
         PROVE  ObjectInv(q, mem[q][h])'
    <3>1. CASE q = r /\ h = Len(mem[r]) + 1
      <4>1. mem'[q][h] = object
        BY <2>6, <3>1
      <4> QED
        BY <2>9, <3>1, <4>1 DEF ObjectInv
    <3>2. CASE ~(q = r /\ h = Len(mem[r]) + 1)
      <4>1. h \in 1 .. Len(mem[q]) /\ mem'[q][h] = mem[q][h]
        <5>1. CASE q = r
          BY <2>5, <2>6, <3>2, <5>1
        <5>2. CASE q # r
          BY <2>5, <5>2
        <5> QED
          BY <5>1, <5>2
      <4>2. PICK o : o = mem[q][h]
        OBVIOUS
      <4>3. ObjectInv(q, o)'
        BY <2>8, <4>1, <4>2, ObjectStays DEF ScoresInv, ObjectsInv
      <4> QED
        BY <4>1, <4>2, <4>3 DEF ObjectInv
    <3> QED
      BY <3>1, <3>2
  <2>11. TasksInv'
    <3>1. PICK i \in TaskIds : tasks' = [tasks EXCEPT ![i] = Task("v2", r)]
      BY <2>3, SpawnedOnFreeId
    <3>2. TaskInv(Task("v2", r))'
      BY <2>4, <2>7 DEF TaskInv, Task
    <3> QED
      BY <2>8, <3>1, <3>2, TasksAfterChange DEF ScoresInv
  <2> QED
    BY <1>2, <2>10, <2>11 DEF ScoresInv, ObjectsInv
<1>5. CASE SubmitOnchain(r)
  <2>1. mem' = mem /\ Status(r) = "completed" /\ FreeIds # {}
    BY <1>5 DEF SubmitOnchain
  <2>2. PICK g \in 1 .. Len(mem[r]) : g = Len(mem[r]) /\ Current(r) = mem[r][g]
    BY <2>1, CurrentIsObject DEF Status
  <2>3. PICK task : task = [Task("manual", r) EXCEPT !.gen = g, !.pc = "submit",
                                               !.payload = Current(r).results]
    OBVIOUS
  <2>4. PICK i \in TaskIds : tasks' = [tasks EXCEPT ![i] = task]
    BY <1>5, <2>2, <2>3, SpawnedOnFreeId DEF SubmitOnchain
  <2>5. Forward
    BY <1>1, <2>1, ForwardWithoutObjects
  <2>6. TaskInv(task)'
    <3>1. /\ task.pc = "submit" /\ task.gen = g /\ task.round = r /\ task.tx = "none"
          /\ task.payload = mem[r][g].results
      BY <2>2, <2>3 DEF Task
    <3>2. mem[r][g].status = "completed" /\ ObjectInv(r, mem[r][g])
      BY <2>1, <2>2 DEF Status, ScoresInv, ObjectsInv
    <3>3. mem[r][g].results # NoPayload /\ DOMAIN mem[r][g].results = mem[r][g].solutions
      BY <3>2 DEF ObjectInv
    <3>4. mem'[r][g] = mem[r][g]
      BY <2>1
    <3> QED
      BY <3>1, <3>2, <3>3, <3>4 DEF TaskInv, ObjectOf
  <2>7. TasksInv'
    BY <2>4, <2>5, <2>6, TasksAfterChange DEF ScoresInv
  <2> QED
    BY <1>2, <2>1, <2>5, <2>7, ObjectsUntouched DEF ScoresInv
<1> QED
  BY <1>3, <1>4, <1>5

\* The steps of a task that leave every object, and the oracle, as they are.
LEMMA QuietTaskScores ==
  ASSUME TypeOK, ScoresInv, NEW i \in TaskIds,
         \/ StartV2(i) \/ AcquireSlot(i) \/ SubmissionRaises(i) \/ Send(i) \/ ReceiptTimeout(i)
  PROVE  ScoresInv'
<1>0. PICK t : t = tasks[i]
  OBVIOUS
<1>1. /\ t \in LiveTask /\ t.round \in Rounds /\ t # NoTask
      /\ TaskInv(t) /\ HasObject(t)
  BY <1>0, TaskStepObjects, LiveOrNot DEF TaskStep, ScoresInv, TasksInv, TypeOK,
     StartV2, AcquireSlot, SubmissionRaises, Send, ReceiptTimeout
<1>2. UNCHANGED <<committed, oracle, relay, mem, diskSolutions>>
  BY DEF StartV2, AcquireSlot, SubmissionRaises, Send, ReceiptTimeout, chain
<1>3. Forward
  BY <1>2, ForwardWithoutObjects
<1>4. RelayInv' /\ FileInv' /\ OnlyCommittedAreScored' /\ ObjectsInv'
  BY <1>2, <1>3, ObjectsUntouched
     DEF ScoresInv, RelayInv, FileInv, OnlyCommittedAreScored
<1>5. StrayInv'
  <2>1. CASE stray' = stray
    BY <1>2, <2>1 DEF ScoresInv, StrayInv
  <2>2. CASE ReceiptTimeout(i)
    <3>1. t.pc = "sent"
      BY <1>0, <2>2 DEF ReceiptTimeout
    <3>2. t.gen \in 1 .. Len(mem[t.round])
      BY <1>1, <3>1 DEF HasObject
    <3>3. ObjectOf(t).solutions \subseteq committed[t.round]
      BY <1>1, <3>2 DEF ScoresInv, ObjectsInv, ObjectInv, ObjectOf
    <3>4. t.payload # NoPayload /\ DOMAIN t.payload \subseteq committed[t.round]
      BY <1>1, <3>1, <3>3 DEF TaskInv
    <3>5. stray' = stray \cup {[round |-> t.round, payload |-> t.payload]}
      BY <1>0, <2>2 DEF ReceiptTimeout
    <3> QED
      BY <1>2, <3>4, <3>5 DEF ScoresInv, StrayInv
  <2> QED
    BY <2>1, <2>2 DEF StartV2, AcquireSlot, SubmissionRaises, Send
<1>6. TasksInv'
  <2>1. CASE StartV2(i)
    <3>1. t.pc = "queued" /\ t.path = "v2"
      BY <1>0, <2>1 DEF StartV2
    <3>2. PICK g \in 1 .. Len(mem[t.round]) : g = Len(mem[t.round]) /\ Current(t.round) = mem[t.round][g]
      BY <1>1, <3>1, CurrentIsObject DEF HasObject, Known
    <3>3. PICK u : u = [[t EXCEPT !.gen = g] EXCEPT !.pc = "waiting"]
      OBVIOUS
    <3>4. tasks' = [tasks EXCEPT ![i] = u]
      BY <1>0, <2>1, <3>2, <3>3 DEF StartV2, TypeOK
    <3>5. /\ u.pc = "waiting" /\ u.gen = g /\ u.round = t.round /\ u.tx = t.tx
      BY <1>1, <3>3 DEF LiveTask
    <3>6. mem[t.round][g].status # "receiving" /\ t.tx = "none"
      BY <1>1, <3>1, <3>2 DEF TaskInv
    <3>7. TaskInv(u)'
      BY <1>2, <3>5, <3>6 DEF TaskInv, ObjectOf
    <3> QED
      BY <1>3, <3>4, <3>7, TasksAfterChange DEF ScoresInv
  <2>2. CASE AcquireSlot(i)
    <3>1. t.pc = "waiting"
      BY <1>0, <2>2 DEF AcquireSlot
    <3>2. PICK u : u = Fetched(t, ObjectOf(t))
      OBVIOUS
    <3>3. tasks' = [tasks EXCEPT ![i] = u]
      BY <1>0, <2>2, <3>2 DEF AcquireSlot
    <3>4. /\ u.pc = "scoring" /\ u.gen = t.gen /\ u.round = t.round /\ u.tx = t.tx
          /\ u.taken = ObjectOf(t).solutions
      BY <1>1, <3>2 DEF LiveTask, Fetched
    <3>5. ObjectOf(t).status # "receiving" /\ t.tx = "none"
      BY <1>1, <3>1 DEF TaskInv
    <3>6. TaskInv(u)'
      BY <1>2, <3>4, <3>5 DEF TaskInv, ObjectOf
    <3> QED
      BY <1>3, <3>3, <3>6, TasksAfterChange DEF ScoresInv
  <2>3. CASE SubmissionRaises(i) \/ ReceiptTimeout(i)
    <3>1. t.pc \in {"submit", "sent"} /\ AfterSubmission(i, t)
          /\ (t.pc = "sent" => t.tx = "pending")
      BY <1>0, <2>3 DEF SubmissionRaises, ReceiptTimeout
    <3>2. CASE t.path = "v2"
      <4>1. PICK u : u = [t EXCEPT !.pc = "cleanup"]
        OBVIOUS
      <4>2. tasks' = [tasks EXCEPT ![i] = u]
        BY <1>0, <3>1, <3>2, <4>1 DEF AfterSubmission, Goes, TypeOK
      <4>3. /\ u.pc = "cleanup" /\ u.gen = t.gen /\ u.round = t.round /\ u.tx = t.tx
            /\ u.payload = t.payload
        BY <1>1, <4>1 DEF LiveTask
      <4>4. TaskInv(u)'
        BY <1>1, <1>2, <3>1, <4>3 DEF TaskInv, ObjectOf
      <4> QED
        BY <1>3, <4>2, <4>4, TasksAfterChange DEF ScoresInv
    <3>3. CASE t.path # "v2"
      BY <1>3, <3>1, <3>3, TasksAfterChange DEF AfterSubmission, Ends, ScoresInv
    <3> QED
      BY <3>2, <3>3
  <2>4. CASE Send(i)
    <3>1. t.pc = "submit"
      BY <1>0, <2>4 DEF Send
    <3>2. PICK u : u = [[t EXCEPT !.pc = "sent"] EXCEPT !.tx = "pending"]
      OBVIOUS
    <3>3. tasks' = [tasks EXCEPT ![i] = u]
      BY <1>0, <2>4, <3>2 DEF Send, TypeOK
    <3>4. /\ u.pc = "sent" /\ u.gen = t.gen /\ u.round = t.round /\ u.tx = "pending"
          /\ u.payload = t.payload
      BY <1>1, <3>2 DEF LiveTask
    <3>5. TaskInv(u)'
      BY <1>1, <1>2, <3>1, <3>4 DEF TaskInv, ObjectOf
    <3> QED
      BY <1>3, <3>3, <3>5, TasksAfterChange DEF ScoresInv
  <2> QED
    BY <2>1, <2>2, <2>3, <2>4
<1> QED
  BY <1>4, <1>5, <1>6 DEF ScoresInv

\* How a task may go on after a change of its object.
GoesOn(u, r, g, object) ==
  /\ u.pc # "queued" /\ u.round = r /\ u.gen = g
  /\ object.status # "receiving"
  /\ u.pc = "scoring" => u.taken = object.solutions
  /\ u.pc \in {"submit", "sent", "cleanup"} =>
       /\ u.payload # NoPayload /\ DOMAIN u.payload = object.solutions
       /\ object.results # NoPayload
  /\ u.tx # "none" => u.pc \in {"sent", "cleanup"}
  /\ u.tx = "success" => oracle[r] = u.payload

\* A task that changes its object, and then ends or goes on as u.
LEMMA TaskReplacesScores ==
  ASSUME TypeOK, ScoresInv, NEW i \in TaskIds, NEW r \in Rounds,
         NEW g \in 1 .. Len(mem[r]), NEW object \in Object, Replaces(r, g, object),
         UNCHANGED <<committed, oracle, stray, relay, diskSolutions>>,
         Follows(object, mem[r][g]), ObjectInv(r, object),
         NEW u, tasks' = [tasks EXCEPT ![i] = u],
         u = NoTask \/ GoesOn(u, r, g, object)
  PROVE  ScoresInv'
<1>1. Forward
  BY ForwardReplacing
<1>2. ObjectsInv'
  <2>1. ObjectInv(r, object)'
    BY DEF ObjectInv
  <2> QED
    BY <1>1, <2>1, ObjectsAfterReplacing DEF ScoresInv
<1>3. mem'[r][g] = object
  BY ObjectReplaced
<1>4. TasksInv'
  <2>1. u # NoTask => TaskInv(u)'
    BY <1>3 DEF TaskInv, ObjectOf, GoesOn
  <2> QED
    BY ZenonT(60), <1>1, <2>1, TasksAfterChange DEF ScoresInv
<1>5. RelayInv' /\ FileInv' /\ StrayInv' /\ OnlyCommittedAreScored'
  BY DEF ScoresInv, RelayInv, FileInv, StrayInv, OnlyCommittedAreScored
<1> QED
  BY <1>2, <1>4, <1>5 DEF ScoresInv

\* A scoring thread starts, scores, fails or gives up, or reads its receipt.
LEMMA TaskScores ==
  ASSUME TypeOK, ScoresInv, NEW i \in TaskIds,
         \/ StartV1(i) \/ SlotTimeout(i) \/ Scored(i) \/ ScoringFails(i)
         \/ Receipt(i) \/ CleanUp(i)
  PROVE  ScoresInv'
<1>0. PICK t : t = tasks[i]
  BY SMTT(60)
<1>1. /\ t \in LiveTask /\ t.round \in Rounds /\ t # NoTask
      /\ TaskInv(t) /\ HasObject(t)
  BY ZenonT(60), <1>0, TaskStepObjects, LiveOrNot DEF TaskStep, ScoresInv, TasksInv, TypeOK,
     StartV1, SlotTimeout, Scored, ScoringFails, Receipt, CleanUp
<1>2. UNCHANGED <<committed, oracle, stray, relay, diskSolutions>>
  BY DEF StartV1, SlotTimeout, Scored, ScoringFails, Receipt, CleanUp, chain
<1>3. PICK r \in Rounds : r = t.round
  BY <1>1
<1>4. CASE StartV1(i)
  <2>1. t.pc = "queued" /\ t.path = "v1"
    BY <1>0, <1>4 DEF StartV1
  <2>2. PICK g \in 1 .. Len(mem[r]) : g = Len(mem[r])
    BY <1>1, <1>3, <2>1, CurrentIsObject DEF HasObject, Known
  <2>3. PICK o \in Object : o = mem[r][g]
    BY DEF TypeOK
  <2>4. PICK object : object = [o EXCEPT !.status = "scoring"]
    OBVIOUS
  <2>5. /\ object \in Object /\ object.status = "scoring" /\ object.results = o.results
        /\ object.solutions = o.solutions
    BY <2>4 DEF Object
  <2>6. Replaces(r, g, object)
    BY <1>0, <1>3, <1>4, <2>2, <2>3, <2>4 DEF StartV1, Replaces
  <2>7. ObjectInv(r, o)
    BY <2>3 DEF ScoresInv, ObjectsInv
  <2>8. ObjectInv(r, object) /\ Follows(object, mem[r][g])
    BY <2>3, <2>5, <2>7 DEF ObjectInv, Follows
  <2>9. PICK t1 : t1 = [t EXCEPT !.gen = g]
    OBVIOUS
  <2>10. t1 \in LiveTask /\ t1.gen = g /\ t1.round = r /\ t1.tx = t.tx
    BY <1>1, <1>3, <2>9 DEF LiveTask
  <2>11. PICK u : u = Fetched(t1, o)
    OBVIOUS
  <2>12. tasks' = [tasks EXCEPT ![i] = u]
    BY <1>0, <1>3, <1>4, <2>2, <2>3, <2>9, <2>11 DEF StartV1
  <2>13. /\ u.pc = "scoring" /\ u.gen = g /\ u.round = r /\ u.tx = t.tx
         /\ u.taken = object.solutions
    BY <2>5, <2>10, <2>11 DEF LiveTask, Fetched
  <2>14. t.tx = "none"
    BY <1>1, <2>1 DEF TaskInv
  <2>15. GoesOn(u, r, g, object)
    BY <2>5, <2>13, <2>14 DEF GoesOn
  <2> QED
    BY <1>2, <2>5, <2>6, <2>8, <2>12, <2>15, TaskReplacesScores
<1>5. CASE ~StartV1(i)
  <2>0. PICK g : g = t.gen
    OBVIOUS
  <2>1. t.pc # "queued"
    BY <1>0, <1>5 DEF SlotTimeout, Scored, ScoringFails, Receipt, CleanUp
  <2>2. g \in 1 .. Len(mem[r])
    BY <1>1, <1>3, <2>0, <2>1 DEF HasObject
  <2>3. PICK o \in Object : o = mem[r][g]
    BY <2>2 DEF TypeOK
  <2>4. ObjectOf(t) = o /\ ObjectInv(r, o) /\ o.status # "receiving"
    BY <1>1, <1>3, <2>0, <2>1, <2>2, <2>3 DEF ObjectOf, ScoresInv, ObjectsInv, TaskInv
  <2>5. CASE SlotTimeout(i) \/ ScoringFails(i) \/ CleanUp(i)
    <3>1. PICK object : /\ Replaces(r, g, object)
                        /\ \/ object = [o EXCEPT !.status = "error"]
                           \/ object = [o EXCEPT !.key = FALSE]
      BY <1>0, <1>3, <2>0, <2>4, <2>5, Zenon
         DEF SlotTimeout, ScoringFails, CleanUp, Mark, Replaces
    <3>2. object \in Object /\ Follows(object, mem[r][g]) /\ ObjectInv(r, object)
      BY <2>3, <2>4, <3>1 DEF Object, Follows, ObjectInv
    <3>3. tasks' = [tasks EXCEPT ![i] = NoTask]
      BY <2>5 DEF SlotTimeout, ScoringFails, CleanUp, Ends
    <3> QED
      BY <1>2, <2>2, <3>1, <3>2, <3>3, TaskReplacesScores
  <2>6. CASE Scored(i)
    <3>1. PICK payload \in PossibleScores(t.key, t.taken) :
            /\ Mark(t, [ObjectOf(t) EXCEPT !.status = "completed", !.results = payload])
            /\ tasks' = [tasks EXCEPT ![i].pc = "submit", ![i].payload = payload]
      BY <1>0, <2>6 DEF Scored
    <3>2. t.pc = "scoring" /\ t.taken = o.solutions /\ t.tx = "none"
      BY <1>0, <1>1, <2>4, <2>6 DEF Scored, TaskInv
    <3>3. /\ payload \in Results /\ payload # NoPayload
          /\ DOMAIN payload = o.solutions
      <4>1. t.taken \in SUBSET Agents
        BY <1>1 DEF LiveTask
      <4>2. payload \in [t.taken -> Scores]
        BY ServiceAssumption DEF PossibleScores
      <4>3. payload \in Payloads
        BY <4>1, <4>2 DEF Payloads
      <4>4. DOMAIN payload = t.taken
        BY <4>2
      <4> QED
        BY <3>2, <4>3, <4>4, ServiceAssumption DEF Results, Payloads
    <3>4. PICK o1 : o1 = [o EXCEPT !.status = "completed"]
      OBVIOUS
    <3>5. PICK object : object = [o1 EXCEPT !.results = payload]
      OBVIOUS
    <3>6. o1 \in Object /\ o1.status = "completed" /\ o1.solutions = o.solutions
      BY <3>4 DEF Object
    <3>7. /\ object \in Object /\ object.status = "completed"
          /\ object.solutions = o.solutions /\ object.results = payload
      BY <3>3, <3>5, <3>6 DEF Object
    <3>8. object = [o EXCEPT !.status = "completed", !.results = payload]
      BY <3>4, <3>5 DEF Object
    <3>9. Replaces(r, g, object)
      BY <1>3, <2>0, <2>4, <3>1, <3>8, Zenon DEF Mark, Replaces
    <3>10. Follows(object, mem[r][g]) /\ ObjectInv(r, object)
      BY <2>3, <2>4, <3>3, <3>7 DEF Follows, ObjectInv
    <3>11. PICK u : u = [[t EXCEPT !.pc = "submit"] EXCEPT !.payload = payload]
      OBVIOUS
    <3>12. tasks' = [tasks EXCEPT ![i] = u]
      BY <1>0, <3>1, <3>11 DEF TypeOK
    <3>13. /\ u.pc = "submit" /\ u.gen = g /\ u.round = r /\ u.tx = t.tx
           /\ u.payload = payload
      BY <1>1, <1>3, <2>0, <3>11 DEF LiveTask
    <3>14. GoesOn(u, r, g, object)
      BY <3>2, <3>3, <3>7, <3>13 DEF GoesOn
    <3> QED
      BY <1>2, <2>2, <3>7, <3>9, <3>10, <3>12, <3>14, TaskReplacesScores
  <2>7. CASE Receipt(i)
    <3>1. /\ t.pc = "sent" /\ AfterSubmission(i, t)
          /\ t.payload # NoPayload /\ DOMAIN t.payload = o.solutions
          /\ o.results # NoPayload
          /\ t.tx = "success" => oracle[r] = t.payload
      BY <1>0, <1>1, <1>3, <2>4, <2>7 DEF Receipt, TaskInv
    <3>2. PICK u : /\ tasks' = [tasks EXCEPT ![i] = u]
                   /\ \/ u = NoTask
                      \/ /\ u.pc = "cleanup" /\ u.gen = g /\ u.round = r /\ u.tx = t.tx
                         /\ u.payload = t.payload
      <4>1. CASE t.path = "v2"
        <5>1. PICK u : u = [t EXCEPT !.pc = "cleanup"]
          OBVIOUS
        <5>2. tasks' = [tasks EXCEPT ![i] = u]
          BY <1>0, <3>1, <4>1, <5>1 DEF AfterSubmission, Goes, TypeOK
        <5>3. /\ u.pc = "cleanup" /\ u.gen = g /\ u.round = r /\ u.tx = t.tx
              /\ u.payload = t.payload
          BY <1>1, <1>3, <2>0, <5>1 DEF LiveTask
        <5> QED
          BY <5>2, <5>3
      <4>2. CASE t.path # "v2"
        BY <3>1, <4>2 DEF AfterSubmission, Ends
      <4> QED
        BY <4>1, <4>2
    <3>3. PICK object : /\ Replaces(r, g, object)
                        /\ \/ object = o
                           \/ object = [o EXCEPT !.status = "error"]
                           \/ t.tx = "success" /\ object = [o EXCEPT !.status = "submitted"]
      <4>1. CASE mem' = mem
        BY <2>2, <2>3, <4>1 DEF Replaces, TypeOK
      <4>2. CASE mem' # mem
        BY <1>0, <1>3, <2>0, <2>4, <2>7, <4>2, Zenon DEF Receipt, Mark, Replaces
      <4> QED
        BY <4>1, <4>2
    <3>4. CASE t.tx = "success" /\ object = [o EXCEPT !.status = "submitted"]
      <4>1. /\ object \in Object /\ object.status = "submitted"
            /\ object.solutions = o.solutions /\ object.results = o.results
        BY <3>4 DEF Object
      <4>2. ObjectInv(r, object) /\ Follows(object, mem[r][g])
        BY <2>3, <2>4, <3>1, <3>4, <4>1 DEF ObjectInv, Follows
      <4>3. u = NoTask \/ GoesOn(u, r, g, object)
        BY <3>1, <3>2, <4>1 DEF GoesOn
      <4> QED
        BY <1>2, <2>2, <3>2, <3>3, <4>1, <4>2, <4>3, TaskReplacesScores
    <3>5. CASE object = o \/ object = [o EXCEPT !.status = "error"]
      <4>1. /\ object \in Object /\ object.status # "receiving" /\ ObjectInv(r, object)
            /\ object.solutions = o.solutions /\ object.results = o.results
        BY <2>4, <3>5 DEF Object, ObjectInv
      <4>2. Follows(object, mem[r][g])
        BY <2>3, <4>1 DEF Follows
      <4>3. u = NoTask \/ GoesOn(u, r, g, object)
        BY <3>1, <3>2, <4>1 DEF GoesOn
      <4> QED
        BY <1>2, <2>2, <3>2, <3>3, <4>1, <4>2, <4>3, TaskReplacesScores
    <3> QED
      BY <3>3, <3>4, <3>5
  <2> QED
    BY <1>5, <2>5, <2>6, <2>7
<1> QED
  BY <1>4, <1>5

\* The chain takes a transaction, of a task or one nobody waits for any more.
LEMMA MineScores ==
  ASSUME TypeOK, ScoresInv,
         (\E i \in TaskIds : Mine(i)) \/ (\E tx \in stray : MineStray(tx))
  PROVE  ScoresInv'
<1>1. ASSUME NEW i \in TaskIds, Mine(i)
      PROVE  ScoresInv'
  <2>0. PICK t : t = tasks[i]
    OBVIOUS
  <2>1. /\ t \in LiveTask /\ t.round \in Rounds /\ t # NoTask
        /\ TaskInv(t) /\ HasObject(t) /\ t.pc = "sent" /\ t.tx = "pending"
    BY <1>1, <2>0, TaskStepObjects, LiveOrNot DEF Mine, ScoresInv, TasksInv, TypeOK
  <2>2. UNCHANGED <<committed, stray, relay, mem, diskSolutions>>
    BY <1>1 DEF Mine, chain
  <2>3. PICK r \in Rounds, g \in 1 .. Len(mem[t.round]) : r = t.round /\ g = t.gen
    BY <2>1 DEF HasObject
  <2>4. \A q \in Rounds : oracle[q] # NoPayload => oracle'[q] = oracle[q]
    BY <1>1, <2>0, <2>1 DEF Mine, TypeOK
  <2>5. Forward
    BY <2>2, <2>4, ForwardWithoutObjects
  <2>6. ObjectsInv'
    BY <2>2, <2>5, ObjectsUntouched DEF ScoresInv
  <2>7. RelayInv' /\ FileInv' /\ StrayInv'
    BY <2>2 DEF ScoresInv, RelayInv, FileInv, StrayInv
  <2>8. DOMAIN t.payload \subseteq committed[t.round]
    <3>1. ObjectInv(r, mem[r][g])
      BY <2>3 DEF ScoresInv, ObjectsInv
    <3> QED
      BY <2>1, <2>3, <3>1 DEF ObjectInv, TaskInv, ObjectOf
  <2>9. OnlyCommittedAreScored'
    <3>1. oracle' = oracle \/ oracle' = [oracle EXCEPT ![t.round] = t.payload]
      BY <1>1, <2>0 DEF Mine
    <3> QED
      BY <2>1, <2>2, <2>8, <3>1 DEF ScoresInv, OnlyCommittedAreScored, TypeOK
  <2>10. TasksInv'
    <3>1. PICK u : /\ tasks' = [tasks EXCEPT ![i] = u]
                   /\ \/ u = [t EXCEPT !.tx = "success"] /\ oracle'[r] = t.payload
                      \/ u = [t EXCEPT !.tx = "reverted"]
      <4>1. CASE oracle[t.round] = NoPayload
        BY <1>1, <2>0, <2>1, <2>3, <4>1 DEF Mine, TypeOK
      <4>2. CASE oracle[t.round] # NoPayload
        BY <1>1, <2>0, <2>1, <2>3, <4>2 DEF Mine, TypeOK
      <4> QED
        BY <4>1, <4>2
    <3>2. /\ u.pc = "sent" /\ u.round = r /\ u.gen = g /\ u.payload = t.payload
          /\ u.tx = "success" => oracle'[r] = u.payload
      BY <2>1, <2>3, <3>1 DEF LiveTask
    <3>3. PICK o : o = mem[r][g]
      OBVIOUS
    <3>4. /\ o.status # "receiving" /\ o.results # NoPayload
          /\ t.payload # NoPayload /\ DOMAIN t.payload = o.solutions
      BY <2>1, <2>3, <3>3 DEF TaskInv, ObjectOf
    <3>5. TaskInv(u)'
      BY <2>2, <3>2, <3>3, <3>4 DEF TaskInv, ObjectOf
    <3> QED
      BY <2>5, <3>1, <3>5, TasksAfterChange DEF ScoresInv
  <2> QED
    BY <2>6, <2>7, <2>9, <2>10 DEF ScoresInv
<1>2. ASSUME NEW tx \in stray, MineStray(tx)
      PROVE  ScoresInv'
  <2>1. UNCHANGED <<committed, relay, mem, diskSolutions, tasks>> /\ stray' \subseteq stray
    BY <1>2 DEF MineStray, chain, service
  <2>2. /\ tx.round \in Rounds /\ tx.payload # NoPayload
        /\ DOMAIN tx.payload \subseteq committed[tx.round]
    BY DEF TypeOK, Sent, ScoresInv, StrayInv
  <2>3. oracle' = oracle \/ (oracle[tx.round] = NoPayload
                             /\ oracle' = [oracle EXCEPT ![tx.round] = tx.payload])
    <3>1. CASE oracle[tx.round] = NoPayload
      BY <1>2, <2>2, <3>1 DEF MineStray, TypeOK
    <3>2. CASE oracle[tx.round] # NoPayload
      BY <1>2, <2>2, <3>2 DEF MineStray, TypeOK
    <3> QED
      BY <3>1, <3>2
  <2>4. \A q \in Rounds : oracle[q] # NoPayload => oracle'[q] = oracle[q]
    BY <2>2, <2>3 DEF TypeOK
  <2>5. Forward
    BY <2>1, <2>4, ForwardWithoutObjects
  <2>6. ObjectsInv' /\ TasksInv'
    BY <2>1, <2>5, ObjectsUntouched, TasksUntouched DEF ScoresInv
  <2>7. RelayInv' /\ FileInv' /\ StrayInv'
    BY <2>1 DEF ScoresInv, RelayInv, FileInv, StrayInv
  <2>8. OnlyCommittedAreScored'
    BY <2>1, <2>2, <2>3 DEF ScoresInv, OnlyCommittedAreScored, TypeOK
  <2> QED
    BY <2>6, <2>7, <2>8 DEF ScoresInv
<1> QED
  BY <1>1, <1>2

\* A restart loses objects and tasks; what the tasks had sent may still arrive.
LEMMA RestartScores ==
  ASSUME TypeOK, ScoresInv, Restart
  PROVE  ScoresInv'
<1>1. UNCHANGED <<committed, oracle, relay, diskSolutions>>
  BY DEF Restart, chain
<1>2. RelayInv' /\ FileInv' /\ OnlyCommittedAreScored'
  BY <1>1 DEF ScoresInv, RelayInv, FileInv, OnlyCommittedAreScored
<1>3. TasksInv'
  BY DEF Restart, TasksInv
<1>4. ObjectsInv'
  <2>1. ASSUME NEW r \in Rounds, NEW g \in 1 .. Len(mem'[r])
        PROVE  ObjectInv(r, mem[r][g])'
    <3>1. CASE disk[r].status \in {"receiving", "scoring"}
      <4>1. PICK object : object = NewObject(disk[r].status, disk[r].expected,
                                             diskSolutions[r], FALSE)
        OBVIOUS
      <4>2. mem'[r] = <<object>>
        BY <3>1, <4>1 DEF Restart
      <4>3. mem'[r][g] = object
        BY <4>2
      <4>4. /\ object.status \in {"receiving", "scoring"} /\ object.results = NoPayload
            /\ object.solutions = diskSolutions[r]
        BY <3>1, <4>1 DEF NewObject
      <4> QED
        BY <1>1, <4>3, <4>4 DEF ObjectInv, ScoresInv, FileInv
    <3>2. CASE disk[r].status \notin {"receiving", "scoring"}
      <4>1. mem'[r] = <<>>
        BY <3>2 DEF Restart
      <4> QED
        BY <4>1
    <3> QED
      BY <3>1, <3>2
  <2> QED
    BY <2>1 DEF ObjectsInv
<1>5. StrayInv'
  <2>1. ASSUME NEW i \in TaskIds, tasks[i].path # "none", tasks[i].tx = "pending"
        PROVE  /\ tasks[i].payload # NoPayload
               /\ DOMAIN tasks[i].payload \subseteq committed[tasks[i].round]
    <3>0. PICK t : t = tasks[i]
      OBVIOUS
    <3>1. /\ t \in LiveTask /\ t.round \in Rounds /\ t # NoTask
          /\ TaskInv(t) /\ HasObject(t) /\ t.tx = "pending"
      BY <2>1, <3>0, LiveOrNot DEF ScoresInv, TasksInv, TypeOK, LiveTask
    <3>2. t.pc \in {"sent", "cleanup"}
      BY <3>1 DEF TaskInv
    <3>3. t.gen \in 1 .. Len(mem[t.round])
      BY <3>1, <3>2 DEF HasObject
    <3>4. ObjectInv(t.round, mem[t.round][t.gen])
      BY <3>1, <3>3 DEF ScoresInv, ObjectsInv
    <3> QED
      BY <3>0, <3>1, <3>2, <3>4 DEF ObjectInv, TaskInv, ObjectOf
  <2>2. ASSUME NEW tx \in stray'
        PROVE  tx.payload # NoPayload /\ DOMAIN tx.payload \subseteq committed[tx.round]
    <3>1. CASE tx \in stray
      BY <3>1 DEF ScoresInv, StrayInv
    <3>2. CASE tx \notin stray
      <4>1. PICK i \in TaskIds : /\ tasks[i].path # "none" /\ tasks[i].tx = "pending"
                                 /\ tx = [round |-> tasks[i].round, payload |-> tasks[i].payload]
        BY <3>2 DEF Restart
      <4> QED
        BY <2>1, <4>1
    <3> QED
      BY <3>1, <3>2
  <2> QED
    BY <1>1, <2>2 DEF StrayInv
<1> QED
  BY <1>2, <1>3, <1>4, <1>5 DEF ScoresInv

\* Each station of the way holds what the one before let through.
LEMMA ScoresAlways == Spec => []ScoresInv
<1>1. Init => ScoresInv
  BY DEF Init, ScoresInv, RelayInv, FileInv, ObjectsInv, TasksInv, StrayInv,
         OnlyCommittedAreScored, Idle
<1>2. TypeOK /\ ScoresInv /\ [Next]_vars => ScoresInv'
  <2> SUFFICES ASSUME TypeOK, ScoresInv, [Next]_vars
               PROVE  ScoresInv'
    OBVIOUS
  <2>1. ASSUME NEW r \in Rounds, NEW a \in Agents,
               \/ ChainEnter(r, a) \/ ChainCommit(r, a) \/ RelayReads(r, a)
               \/ RelayVerifies(r, a) \/ RelayFails(r, a)
        PROVE  ScoresInv'
    BY <2>1, RelayScores
  <2>2. ASSUME NEW r \in Rounds, NEW a \in Agents, Receive(r, a)
        PROVE  ScoresInv'
    BY <2>2, ReceiveScores
  <2>3. ASSUME NEW r \in Rounds, NEW a \in Agents, InitRound(r, a)
        PROVE  ScoresInv'
    BY <2>3, InitRoundScores
  <2>4. ASSUME NEW r \in Rounds,
               StoreProblem(r) \/ ScoreRoundV2(r) \/ SubmitOnchain(r) \/ ChainStartScoring(r)
        PROVE  ScoresInv'
    BY <2>4, OperatorScores
  <2>5. ASSUME NEW i \in TaskIds, TaskStep(i)
        PROVE  ScoresInv'
    BY <2>5, QuietTaskScores, TaskScores DEF TaskStep
  <2>6. CASE (\E i \in TaskIds : Mine(i)) \/ (\E tx \in stray : MineStray(tx))
    BY <2>6, MineScores
  <2>7. CASE Restart
    BY <2>7, RestartScores
  <2>8. CASE UNCHANGED vars
    <3>1. Forward
      BY <2>8, ForwardWithoutObjects DEF vars, chain, service
    <3>2. ObjectsInv' /\ TasksInv'
      BY <2>8, <3>1, ObjectsUntouched, TasksUntouched DEF vars, chain, service, ScoresInv
    <3> QED
      BY <2>8, <3>2 DEF vars, chain, service, ScoresInv, RelayInv, FileInv, StrayInv,
                        OnlyCommittedAreScored
  <2> QED
    BY <2>1, <2>2, <2>3, <2>4, <2>5, <2>6, <2>7, <2>8 DEF Next
<1> QED
  BY <1>1, <1>2, ServiceTyped, PTL DEF Spec

\* The oracle only holds scores of agents that have committed on chain: the
\* check of the relay (solutions.py, verify_commitment) protects finalize(),
\* through every stage of the service and every restart.
THEOREM OnlyCommittedEverScored == Spec => []OnlyCommittedAreScored
<1>1. ScoresInv => OnlyCommittedAreScored
  BY DEF ScoresInv
<1> QED
  BY <1>1, ScoresAlways, PTL

\* A round reported as submitted has scores on chain, of the agents it reports:
\* no timeout, revert or competing thread can make the status lie (api.py,
\* _submit_scores_onchain).
THEOREM SubmittedAlwaysOnChain == Spec => []SubmittedIsOnChain
<1>1. TypeOK /\ ScoresInv => SubmittedIsOnChain
  <2> SUFFICES ASSUME TypeOK, ScoresInv, NEW r \in Rounds, ScoresSubmitted(r)
               PROVE  oracle[r] # NoPayload /\ DOMAIN oracle[r] = DOMAIN Current(r).results
    BY DEF SubmittedIsOnChain
  <2>1. Known(r) /\ Current(r).status = "submitted"
    BY DEF ScoresSubmitted, Status
  <2>2. ObjectInv(r, Current(r))
    BY <2>1, CurrentIsObject DEF ScoresInv, ObjectsInv
  <2> QED
    BY <2>1, <2>2 DEF ObjectInv
<1> QED
  BY <1>1, ServiceTyped, ScoresAlways, PTL

----------------------------------------------------------------------------
(* The ledger                                                              *)

Answers == [r \in Rounds |-> IF ScoresSubmitted(r) THEN DOMAIN Current(r).results
                             ELSE NoPayload]

\* Nothing that the ledger mentions moves but what the service answers.
LEMMA AnswerMaps ==
  ASSUME SubmittedIsOnChain', UNCHANGED <<committed, accepted, oracle>>
  PROVE  Ledger!Next
<1>1. ASSUME NEW r \in Rounds, Answers'[r] # NoPayload
      PROVE  oracle[r] # NoPayload /\ Answers'[r] = DOMAIN oracle[r]
  BY <1>1 DEF SubmittedIsOnChain, Answers
<1>2. Ledger!Answer
  BY <1>1 DEF Ledger!Answer, Answers
<1> QED
  BY <1>2 DEF Ledger!Next

\* What leaves the objects alone leaves the answers alone.
LEMMA AnswersStay ==
  ASSUME UNCHANGED mem
  PROVE  UNCHANGED Answers
BY DEF Answers, ScoresSubmitted, Status, Known, Current

\* A commitment on chain, and one by one what the relay does (solutions.py).
LEMMA RelayMaps ==
  ASSUME SubmittedIsOnChain', NEW r \in Rounds, NEW a \in Agents,
         \/ ChainEnter(r, a) \/ ChainCommit(r, a) \/ RelayReads(r, a)
         \/ RelayVerifies(r, a) \/ RelayFails(r, a) \/ InitRound(r, a)
  PROVE  Ledger!Next
<1>1. CASE ChainCommit(r, a)
  <2>1. UNCHANGED mem /\ UNCHANGED <<accepted, oracle>>
        /\ committed' = [committed EXCEPT ![r] = @ \cup {a}]
    BY <1>1 DEF ChainCommit, service
  <2>2. Ledger!Commit(r, a)
    BY <2>1, AnswersStay DEF Ledger!Commit, Answers
  <2> QED
    BY <2>2 DEF Ledger!Next
<1>2. CASE ~ChainCommit(r, a)
  <2>1. UNCHANGED <<committed, accepted, oracle>>
    BY <1>2 DEF ChainEnter, RelayReads, RelayVerifies, RelayFails, InitRound, chain
  <2> QED
    BY <2>1, AnswerMaps
<1> QED
  BY <1>1, <1>2

\* An agent is told "received" (receive_solution).
LEMMA ReceiveMaps ==
  ASSUME TypeOK, ScoresInv, SubmittedIsOnChain', NEW r \in Rounds, NEW a \in Agents,
         Receive(r, a)
  PROVE  Ledger!Next
<1>1. UNCHANGED <<committed, oracle>>
  BY DEF Receive, chain
<1>2. CASE UNCHANGED accepted
  BY <1>1, <1>2, AnswerMaps
<1>3. CASE ~UNCHANGED accepted
  <2>1. PICK object : /\ Known(r) /\ Current(r).status = "receiving"
                      /\ object = [Current(r) EXCEPT !.solutions = Current(r).solutions \cup {a}]
                      /\ mem' = SetCurrent(r, object)
                      /\ accepted' = [accepted EXCEPT ![r] = @ \cup {a}]
    BY <1>3 DEF Receive
  <2>2. a \in committed[r]
    BY DEF Receive, ScoresInv, RelayInv
  <2>3. /\ Len(mem[r]) \in 1 .. Len(mem[r]) /\ Current(r) = mem[r][Len(mem[r])]
        /\ Current(r) \in Object
    BY <2>1, CurrentIsObject
  <2>4. object \in Object /\ object.status = "receiving"
    BY <2>1, <2>3 DEF Object
  <2>5. Replaces(r, Len(mem[r]), object)
    BY <2>1 DEF SetCurrent, Replaces
  <2>6. /\ Len(mem'[r]) = Len(mem[r]) /\ mem'[r][Len(mem[r])] = object
        /\ \A q \in Rounds : q # r => mem'[q] = mem[q]
    BY <2>3, <2>4, <2>5, ObjectReplaced
  <2>7. ~ScoresSubmitted(r) /\ ~ScoresSubmitted(r)'
    <3>1. Current(r)' = object
      BY <2>6 DEF Current, Last
    <3> QED
      BY <2>1, <2>4, <3>1 DEF ScoresSubmitted, Status
  <2>8. \A q \in Rounds : q # r =>
          /\ ScoresSubmitted(q)' <=> ScoresSubmitted(q)
          /\ Current(q)' = Current(q)
    BY <2>6 DEF ScoresSubmitted, Status, Known, Current
  <2>9. Answers' = Answers
    BY <2>7, <2>8 DEF Answers
  <2>10. Ledger!Receive(r, a)
    BY <1>1, <2>1, <2>2, <2>9 DEF Ledger!Receive, Answers
  <2> QED
    BY <2>10 DEF Ledger!Next
<1> QED
  BY <1>2, <1>3

\* The oracle is written at most once, by a thread's transaction or by one that
\* nobody waits for any more (ScoringOracle.sol, submitScores).
LEMMA MineMaps ==
  ASSUME TypeOK, TypeOK', ScoresInv', SubmittedIsOnChain',
         (\E i \in TaskIds : Mine(i)) \/ (\E tx \in stray : MineStray(tx))
  PROVE  Ledger!Next
<1>1. UNCHANGED <<committed, accepted, mem>>
  BY DEF Mine, MineStray, chain, service
<1>2. CASE UNCHANGED oracle
  BY <1>1, <1>2, AnswerMaps
<1>3. CASE ~UNCHANGED oracle
  <2>1. PICK r, p : oracle[r] = NoPayload /\ oracle' = [oracle EXCEPT ![r] = p]
    <3>1. ASSUME NEW i \in TaskIds, Mine(i)
          PROVE  \E r, p : oracle[r] = NoPayload /\ oracle' = [oracle EXCEPT ![r] = p]
      BY <1>3, <3>1 DEF Mine
    <3>2. ASSUME NEW tx \in stray, MineStray(tx)
          PROVE  \E r, p : oracle[r] = NoPayload /\ oracle' = [oracle EXCEPT ![r] = p]
      BY <1>3, <3>2 DEF MineStray, TypeOK
    <3> QED
      BY <3>1, <3>2
  <2>2. r \in Rounds /\ oracle'[r] = p
    BY <1>3, <2>1 DEF TypeOK
  <2>3. p # NoPayload
    BY <1>3, <2>1, <2>2 DEF TypeOK
  <2>4. PICK agents \in SUBSET Agents : p \in [agents -> Scores]
    BY <2>2, <2>3 DEF TypeOK, Results, Payloads
  <2>5. agents \subseteq committed[r]
    BY <1>1, <2>2, <2>3, <2>4 DEF ScoresInv, OnlyCommittedAreScored
  <2>6. Ledger!Post(r)
    BY <1>1, <2>1, <2>4, <2>5, AnswersStay DEF Ledger!Post, Answers
  <2> QED
    BY <2>2, <2>6 DEF Ledger!Next
<1> QED
  BY <1>2, <1>3

(* The service implements the ledger, for any number of rounds, agents,    *)
(* threads, requests and restarts: of all that happens inside, the outside *)
(* sees commitments, receipts for those who committed, one result for each *)
(* round and answers that agree with it (api.py, onchain.py, solutions.py).*)
THEOREM ServiceImplementsLedger == Spec => ImplementsLedger
<1>1. Init => Ledger!Init
  BY DEF Init, Ledger!Init, ScoresSubmitted, Status, Known
<1>2. /\ TypeOK /\ TypeOK' /\ ScoresInv /\ ScoresInv' /\ SubmittedIsOnChain'
      /\ [Next]_vars
      => [Ledger!Next]_(Ledger!vars)
  <2> SUFFICES ASSUME TypeOK, TypeOK', ScoresInv, ScoresInv', SubmittedIsOnChain',
                      [Next]_vars
               PROVE  Ledger!Next
    OBVIOUS
  <2>1. ASSUME NEW r \in Rounds, NEW a \in Agents,
               \/ ChainEnter(r, a) \/ ChainCommit(r, a) \/ RelayReads(r, a)
               \/ RelayVerifies(r, a) \/ RelayFails(r, a) \/ InitRound(r, a)
        PROVE  Ledger!Next
    BY <2>1, RelayMaps
  <2>2. ASSUME NEW r \in Rounds, NEW a \in Agents, Receive(r, a)
        PROVE  Ledger!Next
    BY <2>2, ReceiveMaps
  <2>3. ASSUME NEW r \in Rounds,
               StoreProblem(r) \/ ScoreRoundV2(r) \/ SubmitOnchain(r) \/ ChainStartScoring(r)
        PROVE  Ledger!Next
    BY <2>3, AnswerMaps
       DEF StoreProblem, ScoreRoundV2, SubmitOnchain, ChainStartScoring, chain
  <2>4. ASSUME NEW i \in TaskIds, TaskStep(i)
        PROVE  Ledger!Next
    <3>1. UNCHANGED <<committed, accepted, oracle>>
      BY <2>4 DEF TaskStep, StartV1, StartV2, AcquireSlot, SlotTimeout, Scored, ScoringFails,
                  SubmissionRaises, Send, Receipt, ReceiptTimeout, CleanUp, chain
    <3> QED
      BY <3>1, AnswerMaps
  <2>5. CASE (\E i \in TaskIds : Mine(i)) \/ (\E tx \in stray : MineStray(tx))
    BY <2>5, MineMaps
  <2>6. CASE Restart \/ UNCHANGED vars
    <3>1. UNCHANGED <<committed, accepted, oracle>>
      BY <2>6 DEF Restart, vars, chain
    <3> QED
      BY <3>1, AnswerMaps
  <2> QED
    BY <2>1, <2>2, <2>3, <2>4, <2>5, <2>6 DEF Next
<1> QED
  BY <1>1, <1>2, ServiceTyped, ScoresAlways, SubmittedAlwaysOnChain, PTL
     DEF Spec, ImplementsLedger, Ledger!Spec
=============================================================================
