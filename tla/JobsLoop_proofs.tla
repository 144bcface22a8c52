--------------------------- MODULE JobsLoop_proofs ---------------------------
(***************************************************************************)
(* Proofs of the safety properties of JobsLoop: types, one task for a job,  *)
(* no job without a task to fetch, and the life cycle of every job.         *)
(***************************************************************************)
EXTENDS JobsLoop, FiniteSetTheorems, TLAPS

-----------------------------------------------------------------------------
(* Helpers: cardinalities of sets of jobs, and the orders of a selection.  *)

LEMMA JobsFinite ==
    ASSUME NEW S \in SUBSET Jobs
    PROVE  IsFiniteSet(S) /\ Cardinality(S) \in Nat
  BY JobsLoopAssumption, FS_Subset, FS_CardinalityType

LEMMA RoomType == ASSUME TypeOK PROVE Room \in Nat
  <1>1. Pending \in SUBSET Jobs
    BY DEF TypeOK, Pending, Queued
  <1>2. Cardinality(Pending) \in Nat
    BY <1>1, JobsFinite
  <1>3. QED
    BY <1>2, JobsLoopAssumption DEF Room, Capacity

(* An order of a finite set of jobs is a sequence that lists it once.      *)
LEMMA OrderingIsSeq ==
    ASSUME NEW S \in SUBSET Jobs, NEW order \in Orderings(S)
    PROVE  /\ order \in Seq(S) /\ order \in Seq(Jobs)
           /\ \A i, k \in DOMAIN order : order[i] = order[k] => i = k
  <1>1. Cardinality(S) \in Nat
    BY JobsFinite
  <1>2. QED
    BY <1>1 DEF Orderings

LEMMA CreateType ==
    ASSUME TypeOK, NEW born \in SUBSET Jobs, Create(born)
    PROVE  /\ status' \in [Jobs -> Statuses \cup {"absent"}]
           /\ budget' \in [Jobs -> 0..MaxSteps]
  BY JobsLoopAssumption DEF TypeOK, Create, Statuses

-----------------------------------------------------------------------------
(* Type correctness.                                                       *)

LEMMA InitTypeOK == Init => TypeOK
  BY JobsLoopAssumption DEF Init, TypeOK, Stations, Statuses

LEMMA TypeUnsuspend == ASSUME TypeOK, UnsuspendJobs PROVE TypeOK'
  BY DEF TypeOK, UnsuspendJobs, Released, Waiting, Statuses, Stations, inputs

LEMMA TypePush == ASSUME TypeOK, ProcessPushNotifications PROVE TypeOK'
  BY JobsLoopAssumption
     DEF TypeOK, ProcessPushNotifications, Reopened, Statuses, Stations

LEMMA TypeEvents == ASSUME TypeOK, ProcessAgentEvents PROVE TypeOK'
  <1>1. PICK born \in EventJobs :
            Create(born) /\ events' = [a \in Agents |-> events[a] - Served(born, a)]
    BY DEF ProcessAgentEvents
  <1>2. born \in SUBSET Jobs
    BY <1>1 DEF EventJobs, Absent
  <1>3. \A a \in Agents : Served(born, a) \in Nat /\ Served(born, a) <= events[a]
    <2>1. \A a \in Agents : born \cap OfAgent(a) \in SUBSET Jobs
      BY <1>2
    <2>2. QED
      BY <2>1, <1>1, JobsFinite DEF Served, EventJobs
  <1>4. events' \in [Agents -> Nat]
    BY <1>1, <1>3 DEF TypeOK
  <1>5. QED
    BY <1>1, <1>2, <1>4, CreateType, JobsLoopAssumption, SMTT(30)
       DEF TypeOK, ProcessAgentEvents, Stations

LEMMA TypeStartJobs == ASSUME TypeOK, StartJobs PROVE TypeOK'
  <1>1. CASE failed[Fleet[turn]] /\ loop' = "aborted"
             /\ queue' = <<>> /\ running' = {} /\ finished' = {}
             /\ UNCHANGED <<status, budget, owing, turn>>
    BY <1>1 DEF TypeOK, StartJobs, Stations
  <1>2. CASE /\ turn' = turn + 1
             /\ \E born \in NewJobs(OfAgent(Fleet[turn]), JobsToCreate(Fleet[turn])) :
                   Create(born) /\ owing' = owing \cup born
             /\ UNCHANGED <<loop, queue, running, finished>>
    <2>1. PICK born \in NewJobs(OfAgent(Fleet[turn]), JobsToCreate(Fleet[turn])) :
              Create(born) /\ owing' = owing \cup born
      BY <1>2
    <2>2. born \in SUBSET Jobs
      BY <2>1 DEF NewJobs, Absent
    <2>3. turn' \in 1..(Len(Fleet) + 1)
      BY <1>2, JobsLoopAssumption DEF TypeOK, StartJobs
    <2>4. QED
      BY <1>2, <2>1, <2>2, <2>3, CreateType DEF TypeOK, StartJobs
  <1>3. QED
    BY <1>1, <1>2 DEF StartJobs

LEMMA TypeSelect == ASSUME TypeOK, SelectJobs PROVE TypeOK'
  <1>1. queue' \in Seq(Jobs)
    <2>1. CASE \E order \in Orderings(Selected) : queue' = queue \o order
      <3>1. PICK order \in Orderings(Selected) : queue' = queue \o order
        BY <2>1
      <3>2. Selected \in SUBSET Jobs
        BY DEF Selected
      <3>3. order \in Seq(Jobs)
        BY <3>1, <3>2, OrderingIsSeq
      <3>4. QED
        BY <3>1, <3>3 DEF TypeOK
    <2>2. CASE UNCHANGED queue
      BY <2>2 DEF TypeOK
    <2>3. QED
      BY <2>1, <2>2 DEF SelectJobs
  <1>2. QED
    BY <1>1 DEF TypeOK, SelectJobs, store, inputs, Stations

LEMMA TypeWaits == ASSUME TypeOK, StartJobsEnd \/ Wake \/ Confirm PROVE TypeOK'
  <1>1. CASE StartJobsEnd
    BY <1>1 DEF TypeOK, StartJobsEnd, store, inputs, Stations
  <1>2. CASE Wake
    BY <1>2 DEF TypeOK, Wake, store, inputs, Stations
  <1>3. CASE Confirm
    BY <1>3 DEF TypeOK, Confirm, store, inputs, Stations
  <1>4. QED
    BY <1>1, <1>2, <1>3

LEMMA TypeAcquire == ASSUME TypeOK, Acquire PROVE TypeOK'
  <1>1. Head(queue) \in Jobs /\ queue' \in Seq(Jobs)
    BY DEF TypeOK, Acquire
  <1>2. PICK s : /\ s \in {status[Head(queue)], "WARMING_UP", "STARTED"}
                 /\ status' = [status EXCEPT ![Head(queue)] = s]
    BY DEF Acquire
  <1>3. status' \in [Jobs -> Statuses \cup {"absent"}]
    BY <1>1, <1>2 DEF TypeOK, Statuses
  <1>4. QED
    BY <1>1, <1>3 DEF TypeOK, Acquire, inputs

LEMMA TypeWorker == ASSUME TypeOK, NEW j \in Jobs, Worker(j) PROVE TypeOK'
  <1>1. CASE RunWarmupBlock(j)
    <2>1. budget' \in [Jobs -> 0..MaxSteps]
      BY <1>1, JobsLoopAssumption DEF TypeOK, RunWarmupBlock
    <2>2. tasks' \in [Agents -> Nat] /\ owing' \subseteq Jobs
      <3>1. CASE Fetches(j)
        <4>1. AgentOf[j] \in Agents /\ tasks[AgentOf[j]] - 1 \in Nat
          BY <3>1, JobsLoopAssumption DEF TypeOK, Fetches
        <4>2. QED
          BY <3>1, <4>1 DEF TypeOK, Fetches
      <3>2. CASE UNCHANGED <<owing, tasks>>
        BY <3>2 DEF TypeOK
      <3>3. QED
        BY <1>1, <3>1, <3>2 DEF RunWarmupBlock
    <2>3. status' \in [Jobs -> Statuses \cup {"absent"}]
      BY <1>1 DEF TypeOK, RunWarmupBlock, Statuses
    <2>4. running' \subseteq Jobs /\ finished' \subseteq Jobs
      BY <1>1 DEF TypeOK, RunWarmupBlock, Leaves
    <2>5. QED
      BY <1>1, <2>1, <2>2, <2>3, <2>4 DEF TypeOK, RunWarmupBlock
  <1>2. CASE Delegate(j)
    <2>1. PICK child \in Absent :
              /\ status' = [status EXCEPT
                                ![child] = "READY",
                                ![j] = IF @ = "STARTED" THEN "SUSPENDED" ELSE @]
              /\ budget' = [budget EXCEPT ![child] = MaxSteps, ![j] = @ - 1]
              /\ waitsFor' = [waitsFor EXCEPT ![j] = child]
      BY <1>2 DEF Delegate
    <2>2. child \in Jobs /\ child # j
      BY <1>2, <2>1 DEF Delegate, Absent
    <2>3. status' \in [Jobs -> Statuses \cup {"absent"}]
      BY <2>1, <2>2 DEF TypeOK, Statuses
    <2>4. budget' \in [Jobs -> 0..MaxSteps]
      <3>1. budget[j] - 1 \in 0..MaxSteps /\ MaxSteps \in 0..MaxSteps
        BY <1>2, JobsLoopAssumption DEF TypeOK, Delegate
      <3>2. budget'[j] = budget[j] - 1 /\ budget'[child] = MaxSteps
        BY <2>1, <2>2 DEF TypeOK
      <3>3. QED
        BY <2>1, <2>2, <3>1, <3>2 DEF TypeOK
    <2>5. QED
      BY <1>2, <2>1, <2>2, <2>3, <2>4 DEF TypeOK, Delegate, Leaves, inputs
  <1>3. CASE EndTurn(j)
    <2>1. PICK s \in {"STARTED", "DONE"} :
              /\ status' = [status EXCEPT ![j] = s]
              /\ budget' = [budget EXCEPT ![j] = IF s = "DONE" THEN 0 ELSE @ - 1]
      BY <1>3 DEF EndTurn
    <2>2. budget' \in [Jobs -> 0..MaxSteps]
      <3>1. budget[j] - 1 \in 0..MaxSteps /\ 0 \in 0..MaxSteps
        BY <1>3, JobsLoopAssumption DEF TypeOK, EndTurn
      <3>2. CASE s = "DONE"
        <4>1. budget' = [budget EXCEPT ![j] = 0]
          BY <2>1, <3>2
        <4>2. QED
          BY <3>1, <4>1 DEF TypeOK
      <3>3. CASE s = "STARTED"
        <4>1. budget' = [budget EXCEPT ![j] = @ - 1]
          BY <2>1, <3>3
        <4>2. QED
          BY <3>1, <4>1 DEF TypeOK
      <3>4. QED
        BY <2>1, <3>2, <3>3
    <2>3. QED
      BY <1>3, <2>1, <2>2 DEF TypeOK, EndTurn, Leaves, inputs, Statuses
  <1>4. CASE FailJob(j)
    <2>1. failed' \in [Agents -> BOOLEAN]
      BY <1>4, JobsLoopAssumption, Zenon DEF TypeOK, FailJob
    <2>2. budget' \in [Jobs -> 0..MaxSteps]
      BY <1>4, JobsLoopAssumption DEF TypeOK, FailJob
    <2>3. QED
      BY <1>4, <2>1, <2>2 DEF TypeOK, FailJob, Leaves, inputs, Statuses
  <1>5. QED
    BY <1>1, <1>2, <1>3, <1>4 DEF Worker

LEMMA TypeEnvironment == ASSUME TypeOK, Environment PROVE TypeOK'
  <1>1. ASSUME NEW a \in Agents, QueueTask(a) PROVE TypeOK'
    BY <1>1, SMTT(30) DEF TypeOK, QueueTask, Arrives, store, process
  <1>0. ASSUME NEW a \in Agents, QueueEvent(a) PROVE TypeOK'
    BY <1>0 DEF TypeOK, QueueEvent, Arrives, store, process
  <1>2. ASSUME NEW j \in Jobs, QueueMessage(j) PROVE TypeOK'
    BY <1>2 DEF TypeOK, QueueMessage, store, process
  <1>3. ASSUME NEW j \in Jobs, SubmitJob(j) PROVE TypeOK'
    BY <1>3, CreateType DEF TypeOK, SubmitJob, Arrives, process
  <1>4. CASE Restart
    <2>1. failed' \in [Agents -> BOOLEAN]
      BY <1>4, Zenon DEF TypeOK, Restart
    <2>2. QED
      BY <1>4, <2>1 DEF TypeOK, Restart, inputs, Stations
  <1>5. QED
    BY <1>0, <1>1, <1>2, <1>3, <1>4 DEF Environment

LEMMA TypeNext == TypeOK /\ [Next]_vars => TypeOK'
  <1> SUFFICES ASSUME TypeOK, [Next]_vars PROVE TypeOK'
    OBVIOUS
  <1>1. CASE LoopTurn
    BY <1>1, TypeUnsuspend, TypePush, TypeEvents, TypeStartJobs, TypeSelect, TypeWaits
       DEF LoopTurn
  <1>2. CASE Acquire
    BY <1>2, TypeAcquire
  <1>3. CASE \E j \in Jobs : Worker(j)
    BY <1>3, TypeWorker
  <1>4. CASE Environment
    BY <1>4, TypeEnvironment
  <1>5. CASE UNCHANGED vars
    BY <1>5 DEF TypeOK, vars, store, inputs, process
  <1>6. QED
    BY <1>1, <1>2, <1>3, <1>4, <1>5 DEF Next

(* Every variable keeps its type; in particular no queue is popped below   *)
(* zero.                                                                   *)
THEOREM LoopTypeCorrect == Spec => []TypeOK
  BY InitTypeOK, TypeNext, PTL DEF Spec

-----------------------------------------------------------------------------
(* One task for a job.                                                     *)

(* The jobs with a task in a sequence, and their absence of repetitions.   *)
Members(q) == {q[i] : i \in DOMAIN q}
Distinct(q) == \A i, k \in DOMAIN q : q[i] = q[k] => i = k

LEMMA TailMembers ==
    ASSUME NEW q \in Seq(Jobs), q # <<>>, Distinct(q)
    PROVE  /\ Head(q) \in Members(q) /\ Head(q) \notin Members(Tail(q))
           /\ Members(Tail(q)) \subseteq Members(q) /\ Distinct(Tail(q))
  <1>1. /\ Tail(q) \in Seq(Jobs) /\ Len(Tail(q)) = Len(q) - 1
        /\ \A i \in 1..(Len(q) - 1) : Tail(q)[i] = q[i + 1]
        /\ Head(q) = q[1] /\ Len(q) \in Nat \ {0}
    OBVIOUS
  <1>2. DOMAIN Tail(q) = 1..(Len(q) - 1) /\ DOMAIN q = 1..Len(q)
    BY <1>1
  <1>3. \A i \in DOMAIN Tail(q) : i + 1 \in DOMAIN q /\ Tail(q)[i] = q[i + 1] /\ i + 1 # 1
    BY <1>1, <1>2
  <1>4. 1 \in DOMAIN q
    BY <1>1, <1>2
  <1>5. Head(q) \notin Members(Tail(q))
    BY <1>1, <1>3, <1>4 DEF Members, Distinct
  <1>6. Members(Tail(q)) \subseteq Members(q) /\ Head(q) \in Members(q)
    BY <1>1, <1>3, <1>4 DEF Members
  <1>7. Distinct(Tail(q))
    <2> SUFFICES ASSUME NEW i \in DOMAIN Tail(q), NEW k \in DOMAIN Tail(q),
                        Tail(q)[i] = Tail(q)[k]
                 PROVE  i = k
      BY DEF Distinct
    <2>1. i + 1 = k + 1
      BY <1>3 DEF Distinct
    <2>2. QED
      BY <2>1, <1>2, <1>1
  <1>8. QED
    BY <1>5, <1>6, <1>7

LEMMA ConcatMembers ==
    ASSUME NEW q \in Seq(Jobs), NEW r \in Seq(Jobs), Distinct(q), Distinct(r),
           Members(q) \cap Members(r) = {}
    PROVE  Distinct(q \o r) /\ Members(q \o r) \subseteq Members(q) \cup Members(r)
  <1>1. /\ DOMAIN q = 1..Len(q) /\ DOMAIN r = 1..Len(r)
        /\ DOMAIN (q \o r) = 1..(Len(q) + Len(r))
        /\ Len(q) \in Nat /\ Len(r) \in Nat
    OBVIOUS
  <1>2. \A i \in DOMAIN (q \o r) :
            \/ i \in DOMAIN q /\ (q \o r)[i] = q[i]
            \/ i - Len(q) \in DOMAIN r /\ (q \o r)[i] = r[i - Len(q)] /\ i > Len(q)
    BY <1>1
  <1>3. Members(q \o r) \subseteq Members(q) \cup Members(r)
    BY <1>2 DEF Members
  <1>4. Distinct(q \o r)
    <2> SUFFICES ASSUME NEW i \in DOMAIN (q \o r), NEW k \in DOMAIN (q \o r),
                        (q \o r)[i] = (q \o r)[k]
                 PROVE  i = k
      BY DEF Distinct
    <2>1. CASE i \in DOMAIN q /\ (q \o r)[i] = q[i]
      <3>1. ~(k - Len(q) \in DOMAIN r /\ (q \o r)[k] = r[k - Len(q)])
        BY <2>1 DEF Members
      <3>2. QED
        BY <1>2, <2>1, <3>1 DEF Distinct
    <2>2. CASE i - Len(q) \in DOMAIN r /\ (q \o r)[i] = r[i - Len(q)] /\ i > Len(q)
      <3>1. ~(k \in DOMAIN q /\ (q \o r)[k] = q[k])
        BY <2>2 DEF Members
      <3>2. i - Len(q) = k - Len(q)
        BY <1>2, <2>2, <3>1 DEF Distinct
      <3>3. QED
        BY <3>2, <1>1
    <2>3. QED
      BY <1>2, <2>1, <2>2
  <1>5. QED
    BY <1>3, <1>4

LEMMA OneTaskForm ==
    OneTaskPerJob <=> /\ Distinct(queue)
                      /\ Members(queue) \cap running = {}
                      /\ finished \cap (Members(queue) \cup running) = {}
  BY DEF OneTaskPerJob, Distinct, Members, Queued

LEMMA OneTaskLoop == ASSUME TypeOK, OneTaskPerJob, LoopTurn PROVE OneTaskPerJob'
  <1>1. CASE StartJobs
    <2>1. CASE queue' = <<>> /\ running' = {} /\ finished' = {}
      BY <2>1 DEF OneTaskPerJob, Queued
    <2>2. CASE UNCHANGED <<queue, running, finished>>
      BY <2>2 DEF OneTaskPerJob, Queued
    <2>3. QED
      BY <1>1, <2>1, <2>2 DEF StartJobs
  <1>2. CASE SelectJobs
    <2>1. CASE \E order \in Orderings(Selected) : queue' = queue \o order
      <3>1. PICK order \in Orderings(Selected) : queue' = queue \o order
        BY <2>1
      <3>2. Selected \in SUBSET Jobs
        BY DEF Selected
      <3>3. order \in Seq(Jobs) /\ Members(order) \subseteq Selected /\ Distinct(order)
        BY <3>1, <3>2, OrderingIsSeq DEF Members, Distinct
      <3>4. Selected \cap (Members(queue) \cup running \cup finished) = {}
        BY DEF Selected, Pending, Queued, Members
      <3>5. queue \in Seq(Jobs) /\ Distinct(queue)
        BY OneTaskForm DEF TypeOK
      <3>6. /\ Distinct(queue \o order)
            /\ Members(queue \o order) \subseteq Members(queue) \cup Selected
        BY <3>3, <3>4, <3>5, ConcatMembers
      <3>7. /\ Distinct(queue')
            /\ Members(queue') \cap running' = {}
            /\ finished' \cap (Members(queue') \cup running') = {}
        BY <1>2, <3>1, <3>4, <3>6, OneTaskForm DEF SelectJobs
      <3>8. QED
        BY <3>7 DEF OneTaskPerJob, Distinct, Members, Queued
    <2>2. CASE UNCHANGED queue
      BY <1>2, <2>2 DEF SelectJobs, OneTaskPerJob, Queued
    <2>3. QED
      BY <1>2, <2>1, <2>2 DEF SelectJobs
  <1>3. CASE Wake
    BY <1>3 DEF Wake, OneTaskPerJob, Queued
  <1>4. CASE UNCHANGED <<queue, running, finished>>
    BY <1>4 DEF OneTaskPerJob, Queued
  <1>5. QED
    BY <1>1, <1>2, <1>3, <1>4
       DEF LoopTurn, UnsuspendJobs, ProcessPushNotifications, ProcessAgentEvents,
           StartJobsEnd, Confirm

LEMMA OneTaskWorker ==
    ASSUME TypeOK, OneTaskPerJob, Acquire \/ \E j \in Jobs : Worker(j)
    PROVE  OneTaskPerJob'
  <1>1. CASE Acquire
    <2>1. /\ queue \in Seq(Jobs) /\ queue # <<>> /\ Distinct(queue)
      BY <1>1, OneTaskForm DEF Acquire, TypeOK
    <2>2. /\ queue' = Tail(queue) /\ running' = running \cup {Head(queue)}
          /\ finished' = finished
      BY <1>1 DEF Acquire
    <2>3. /\ Distinct(queue')
          /\ Members(queue') \cap running' = {}
          /\ finished' \cap (Members(queue') \cup running') = {}
      BY <2>1, <2>2, TailMembers, OneTaskForm
    <2>4. QED
      BY <2>3 DEF OneTaskPerJob, Distinct, Members, Queued
  <1>2. ASSUME NEW j \in Jobs, Worker(j) PROVE OneTaskPerJob'
    <2>1. j \in running /\ queue' = queue
      BY <1>2 DEF Worker, RunWarmupBlock, Delegate, EndTurn, FailJob
    <2>2. Leaves(j) \/ UNCHANGED <<running, finished>>
      BY <1>2 DEF Worker, RunWarmupBlock, Delegate, EndTurn, FailJob
    <2>3. QED
      BY <2>1, <2>2 DEF OneTaskPerJob, Queued, Leaves
  <1>3. QED
    BY <1>1, <1>2

LEMMA OneTaskNext == TypeOK /\ OneTaskPerJob /\ [Next]_vars => OneTaskPerJob'
  <1> SUFFICES ASSUME TypeOK, OneTaskPerJob, [Next]_vars PROVE OneTaskPerJob'
    OBVIOUS
  <1>1. CASE Restart
    BY <1>1 DEF Restart, OneTaskPerJob, Queued
  <1>2. CASE UNCHANGED <<queue, running, finished>>
    BY <1>2 DEF OneTaskPerJob, Queued
  <1>3. CASE Environment
    BY <1>1, <1>2, <1>3
       DEF Environment, QueueTask, QueueEvent, QueueMessage, SubmitJob, process
  <1>4. CASE LoopTurn \/ Acquire \/ \E j \in Jobs : Worker(j)
    BY <1>4, OneTaskLoop, OneTaskWorker
  <1>5. QED
    BY <1>2, <1>3, <1>4 DEF Next, vars, process

(* Two tasks never hold or wait for the same job.                          *)
THEOREM OneTask == Spec => []OneTaskPerJob
  <1>1. Init => OneTaskPerJob
    BY DEF Init, OneTaskPerJob, Queued
  <1>2. QED
    BY <1>1, InitTypeOK, TypeNext, OneTaskNext, PTL DEF Spec

-----------------------------------------------------------------------------
(* The statuses of the jobs that wait, are queued, run or owe a fetch.     *)

WaitStatuses ==
    /\ \A j \in Jobs : Waiting(j) => status[j] \in {"SUSPENDED", "WARMING_UP"}
    /\ \A j \in Jobs : status[j] = "SUSPENDED" => Waiting(j)
TaskStatuses ==
    /\ \A j \in Queued : status[j] \in {"READY", "WARMING_UP", "STARTED"} /\ ~Waiting(j)
    /\ \A j \in running : status[j] \in {"WARMING_UP", "STARTED"} /\ ~Waiting(j)
OwingStatuses == \A j \in owing : status[j] \in {"READY", "WARMING_UP"}
StatusInv == WaitStatuses /\ TaskStatuses /\ OwingStatuses

LEMMA QueuedType == ASSUME TypeOK PROVE Queued \subseteq Jobs
  BY DEF TypeOK, Queued

(* Creating jobs disturbs none of it: the created ones were absent.        *)
LEMMA CreateKeepsStatuses ==
    ASSUME TypeOK, StatusInv, NEW born \in SUBSET Absent, Create(born),
           UNCHANGED <<waitsFor, queue, running>>
    PROVE  WaitStatuses' /\ TaskStatuses' /\ (\A j \in owing : status'[j] = status[j])
  <1>1. \A j \in Jobs : status'[j] = IF j \in born THEN "READY" ELSE status[j]
    BY DEF Create
  <1>2. \A j \in born : j \in Jobs /\ status[j] = "absent"
    BY DEF Absent
  <1>3. \A j \in Queued \cup running \cup owing : j \in Jobs /\ status'[j] = status[j]
    BY <1>1, <1>2, QueuedType DEF StatusInv, TaskStatuses, OwingStatuses, TypeOK
  <1>4. WaitStatuses'
    BY <1>1, <1>2 DEF StatusInv, WaitStatuses, Waiting
  <1>5. TaskStatuses'
    BY <1>3 DEF StatusInv, TaskStatuses, Waiting, Queued
  <1>6. QED
    BY <1>3, <1>4, <1>5

LEMMA StatusLoop == ASSUME TypeOK, StatusInv, LoopTurn PROVE StatusInv'
  <1>1. CASE UnsuspendJobs
    <2>1. \A j \in Jobs :
              /\ status'[j] = IF Released(j) /\ status[j] = "SUSPENDED"
                              THEN "STARTED" ELSE status[j]
              /\ waitsFor'[j] = IF Released(j) THEN NoJob ELSE waitsFor[j]
      BY <1>1 DEF UnsuspendJobs
    <2>2. UNCHANGED <<queue, running, owing>>
      BY <1>1 DEF UnsuspendJobs
    <2>3. WaitStatuses'
      BY <2>1 DEF StatusInv, WaitStatuses, Waiting, Released
    <2>4. TaskStatuses'
      <3>1. \A j \in Queued \cup running :
                j \in Jobs /\ status'[j] = status[j] /\ waitsFor'[j] = waitsFor[j]
        BY <2>1, QueuedType DEF StatusInv, TaskStatuses, Released, TypeOK
      <3>2. Queued' = Queued
        BY <2>2 DEF Queued
      <3>3. QED
        BY <2>2, <3>1, <3>2 DEF StatusInv, TaskStatuses, Waiting
    <2>5. OwingStatuses'
      BY <2>1, <2>2 DEF StatusInv, OwingStatuses, TypeOK
    <2>6. QED
      BY <2>3, <2>4, <2>5 DEF StatusInv
  <1>2. CASE ProcessPushNotifications
    <2>1. \A j \in Jobs :
              status'[j] = IF j \in Reopened THEN "STARTED" ELSE status[j]
      BY <1>2 DEF ProcessPushNotifications
    <2>2. \A j \in Reopened : status[j] = "DONE"
      BY DEF Reopened
    <2>3. UNCHANGED <<queue, running, owing, waitsFor>>
      BY <1>2 DEF ProcessPushNotifications
    <2>4. WaitStatuses'
      BY <2>1, <2>2, <2>3 DEF StatusInv, WaitStatuses, Waiting
    <2>5. TaskStatuses' /\ OwingStatuses'
      BY <2>1, <2>2, <2>3, QueuedType, ZenonT(30)
         DEF StatusInv, TaskStatuses, OwingStatuses, Waiting, Queued, TypeOK
    <2>6. QED
      BY <2>4, <2>5 DEF StatusInv
  <1>3. CASE ProcessAgentEvents
    <2>1. PICK born \in EventJobs : Create(born)
      BY <1>3 DEF ProcessAgentEvents
    <2>2. born \in SUBSET Absent /\ UNCHANGED <<waitsFor, queue, running, owing>>
      BY <1>3, <2>1 DEF ProcessAgentEvents, EventJobs
    <2>3. QED
      BY <2>1, <2>2, CreateKeepsStatuses DEF StatusInv, OwingStatuses
  <1>4. CASE StartJobs
    <2>1. CASE /\ queue' = <<>> /\ running' = {} /\ UNCHANGED <<status, owing>>
      BY <1>4, <2>1
         DEF StartJobs, StatusInv, WaitStatuses, TaskStatuses, OwingStatuses, Waiting, Queued
    <2>2. CASE /\ \E born \in NewJobs(OfAgent(Fleet[turn]), JobsToCreate(Fleet[turn])) :
                     Create(born) /\ owing' = owing \cup born
               /\ UNCHANGED <<queue, running>>
      <3>1. PICK born \in NewJobs(OfAgent(Fleet[turn]), JobsToCreate(Fleet[turn])) :
                Create(born) /\ owing' = owing \cup born
        BY <2>2
      <3>2. born \in SUBSET Absent
        BY <3>1 DEF NewJobs
      <3>3. \A j \in born : status'[j] = "READY"
        BY <3>1, <3>2 DEF Create, Absent
      <3>4. UNCHANGED <<waitsFor, queue, running>>
        BY <1>4, <2>2 DEF StartJobs
      <3>5. QED
        BY <3>1, <3>2, <3>3, <3>4, CreateKeepsStatuses DEF StatusInv, OwingStatuses
    <2>3. QED
      BY <1>4, <2>1, <2>2 DEF StartJobs
  <1>5. CASE SelectJobs
    <2>1. \A j \in Queued' : j \in Queued \/ j \in Selected
      <3>1. CASE \E order \in Orderings(Selected) : queue' = queue \o order
        <4>1. PICK order \in Orderings(Selected) : queue' = queue \o order
          BY <3>1
        <4>2. order \in Seq(Selected)
          BY <4>1, OrderingIsSeq DEF Selected
        <4>3. \A i \in DOMAIN (queue \o order) :
                  \/ i \in DOMAIN queue /\ (queue \o order)[i] = queue[i]
                  \/ i - Len(queue) \in DOMAIN order
                       /\ (queue \o order)[i] = order[i - Len(queue)]
          BY <4>2 DEF TypeOK
        <4>4. QED
          BY <4>1, <4>2, <4>3 DEF Queued
      <3>2. CASE UNCHANGED queue
        BY <3>2 DEF Queued
      <3>3. QED
        BY <1>5, <3>1, <3>2 DEF SelectJobs
    <2>2. \A j \in Selected : status[j] \in {"READY", "WARMING_UP", "STARTED"} /\ ~Waiting(j)
      BY DEF Selected, Runnable, StatusInv, WaitStatuses
    <2>3. UNCHANGED <<status, waitsFor, owing, running>>
      BY <1>5 DEF SelectJobs, store
    <2>4. QED
      BY <2>1, <2>2, <2>3
         DEF StatusInv, WaitStatuses, TaskStatuses, OwingStatuses, Waiting
  <1>6. CASE StartJobsEnd \/ Wake \/ Confirm
    BY <1>6 DEF StartJobsEnd, Wake, Confirm, store, StatusInv, WaitStatuses, TaskStatuses,
                OwingStatuses, Waiting, Queued
  <1>7. QED
    BY <1>1, <1>2, <1>3, <1>4, <1>5, <1>6 DEF LoopTurn

LEMMA StatusAcquire == ASSUME TypeOK, OneTaskPerJob, StatusInv, Acquire PROVE StatusInv'
  <1> DEFINE h == Head(queue)
  <1>1. queue \in Seq(Jobs) /\ queue # <<>> /\ Distinct(queue)
    BY OneTaskForm DEF Acquire, TypeOK
  <1>2. /\ queue' = Tail(queue) /\ running' = running \cup {h}
        /\ UNCHANGED <<waitsFor, owing>>
    BY DEF Acquire
  <1>3. /\ h \in Queued /\ h \in Jobs /\ h \notin Queued' /\ Queued' \subseteq Queued
    BY <1>1, <1>2, TailMembers, QueuedType DEF Queued, Members
  <1>4. h \notin running
    BY <1>3 DEF OneTaskPerJob
  <1>5. status[h] \in {"READY", "WARMING_UP", "STARTED"} /\ ~Waiting(h)
    BY <1>3 DEF StatusInv, TaskStatuses
  <1>6. PICK s : /\ s \in IF status[h] # "READY" THEN {status[h]}
                          ELSE IF h \in owing THEN {"WARMING_UP"}
                               ELSE {"WARMING_UP", "STARTED"}
                 /\ status' = [status EXCEPT ![h] = s]
    BY DEF Acquire
  <1>7. /\ status'[h] \in {"WARMING_UP", "STARTED"}
        /\ h \in owing => status'[h] = "WARMING_UP"
        /\ \A j \in Jobs : j # h => status'[j] = status[j]
    <2>1. status'[h] = s /\ \A j \in Jobs : j # h => status'[j] = status[j]
      BY <1>3, <1>6 DEF TypeOK
    <2>2. s \in {"WARMING_UP", "STARTED"} /\ (h \in owing => s = "WARMING_UP")
      BY <1>5, <1>6 DEF StatusInv, OwingStatuses
    <2>3. QED
      BY <2>1, <2>2
  <1>8. WaitStatuses'
    BY <1>2, <1>5, <1>7 DEF StatusInv, WaitStatuses, Waiting
  <1>9. TaskStatuses'
    <2>1. \A j \in Queued' : j \in Queued /\ j # h /\ j \in Jobs
      BY <1>3, QueuedType
    <2>2. QED
      BY <1>2, <1>3, <1>4, <1>5, <1>7, <2>1 DEF StatusInv, TaskStatuses, Waiting, TypeOK
  <1>10. OwingStatuses'
    BY <1>2, <1>7 DEF StatusInv, OwingStatuses, TypeOK
  <1>11. QED
    BY <1>8, <1>9, <1>10 DEF StatusInv

(* A step that ends, or moves on, changes its own job only; the job leaves *)
(* running unless it goes on as STARTED, and is not queued.                *)
LEMMA OneJobStatuses ==
    ASSUME TypeOK, OneTaskPerJob, StatusInv, NEW j \in Jobs, j \in running,
           UNCHANGED <<queue, waitsFor>>, owing' \subseteq owing,
           \A i \in Jobs : i # j => status'[i] = status[i],
           \/ status'[j] \in {"STARTED", "DONE"} /\ j \notin owing'
           \/ status'[j] = status[j],
           \/ Leaves(j)
           \/ running' = running /\ status'[j] = "STARTED"
    PROVE  StatusInv'
  <1>1. ~Waiting(j) /\ j \notin Queued /\ status[j] \in {"WARMING_UP", "STARTED"}
    BY DEF StatusInv, TaskStatuses, OneTaskPerJob
  <1>2. WaitStatuses'
    BY <1>1 DEF StatusInv, WaitStatuses, Waiting
  <1>3. TaskStatuses'
    <2>1. \A i \in Queued' : i \in Queued /\ i # j /\ i \in Jobs
      BY <1>1, QueuedType DEF Queued
    <2>2. \A i \in running' : i \in running /\ i \in Jobs /\ (i = j => status'[i] = "STARTED")
      BY DEF Leaves, TypeOK
    <2>3. QED
      BY <1>1, <2>1, <2>2 DEF StatusInv, TaskStatuses, Waiting
  <1>4. OwingStatuses'
    BY DEF StatusInv, OwingStatuses, TypeOK
  <1>5. QED
    BY <1>2, <1>3, <1>4 DEF StatusInv

LEMMA StatusWorker ==
    ASSUME TypeOK, OneTaskPerJob, StatusInv, NEW j \in Jobs, Worker(j)
    PROVE  StatusInv'
  <1>1. CASE RunWarmupBlock(j)
    <2>1. /\ j \in running /\ UNCHANGED <<queue, waitsFor>> /\ owing' \subseteq owing
      BY <1>1 DEF RunWarmupBlock, Fetches
    <2>2. CASE Leaves(j) /\ UNCHANGED status
      BY <2>1, <2>2, OneJobStatuses
    <2>3. CASE /\ j \notin owing' /\ status' = [status EXCEPT ![j] = "STARTED"]
               /\ UNCHANGED <<running, finished>>
      <3>1. status'[j] = "STARTED" /\ \A i \in Jobs : i # j => status'[i] = status[i]
        BY <2>3 DEF TypeOK
      <3>2. QED
        BY <2>1, <2>3, <3>1, OneJobStatuses
    <2>4. QED
      BY <1>1, <2>2, <2>3 DEF RunWarmupBlock
  <1>2. CASE Delegate(j)
    <2>1. PICK child \in Absent :
              /\ status' = [status EXCEPT
                                ![child] = "READY",
                                ![j] = IF @ = "STARTED" THEN "SUSPENDED" ELSE @]
              /\ waitsFor' = [waitsFor EXCEPT ![j] = child]
      BY <1>2 DEF Delegate
    <2>2. /\ child \in Jobs /\ child # j /\ status[child] = "absent" /\ child # NoJob
          /\ j \in running /\ status[j] \in {"WARMING_UP", "STARTED"}
          /\ queue' = queue /\ owing' = owing /\ running' = running \ {j}
      BY <1>2, <2>1, JobsLoopAssumption DEF Delegate, Absent, Leaves
    <2>3. /\ status'[child] = "READY"
          /\ status'[j] = IF status[j] = "STARTED" THEN "SUSPENDED" ELSE status[j]
          /\ \A i \in Jobs : i # j /\ i # child => status'[i] = status[i]
          /\ waitsFor'[j] = child
          /\ \A i \in Jobs : i # j => waitsFor'[i] = waitsFor[i]
      BY <2>1, <2>2 DEF TypeOK
    <2>4. ~Waiting(child)
      BY <2>2 DEF StatusInv, WaitStatuses
    <2>5. WaitStatuses'
      BY <2>2, <2>3, <2>4 DEF StatusInv, WaitStatuses, Waiting
    <2>6. TaskStatuses'
      <3>1. \A i \in Queued' \cup running' :
                /\ i \in Jobs /\ i # j /\ i # child
                /\ (i \in Queued \/ i \in running)
        BY <2>2, QueuedType DEF OneTaskPerJob, StatusInv, TaskStatuses, TypeOK, Queued
      <3>2. \A i \in running' : i \in running
        BY <2>2
      <3>3. \A i \in Queued' : i \in Queued
        BY <2>2 DEF Queued
      <3>4. QED
        BY <2>3, <3>1, <3>2, <3>3 DEF StatusInv, TaskStatuses, Waiting
    <2>7. OwingStatuses'
      BY <2>2, <2>3 DEF StatusInv, OwingStatuses, TypeOK
    <2>8. QED
      BY <2>5, <2>6, <2>7 DEF StatusInv
  <1>3. CASE EndTurn(j)
    <2>1. PICK s \in {"STARTED", "DONE"} : status' = [status EXCEPT ![j] = s]
      BY <1>3 DEF EndTurn
    <2>2. status'[j] = s /\ \A i \in Jobs : i # j => status'[i] = status[i]
      BY <2>1 DEF TypeOK
    <2>3. /\ j \in running /\ j \notin owing /\ Leaves(j)
          /\ UNCHANGED <<queue, waitsFor, owing>>
      BY <1>3 DEF EndTurn, StatusInv, OwingStatuses
    <2>4. QED
      BY <2>2, <2>3, OneJobStatuses
  <1>4. CASE FailJob(j)
    <2>1. status'[j] = "DONE" /\ \A i \in Jobs : i # j => status'[i] = status[i]
      BY <1>4 DEF FailJob, TypeOK
    <2>2. /\ j \in running /\ j \notin owing' /\ owing' \subseteq owing /\ Leaves(j)
          /\ UNCHANGED <<queue, waitsFor>>
      BY <1>4 DEF FailJob
    <2>3. QED
      BY <2>1, <2>2, OneJobStatuses
  <1>5. QED
    BY <1>1, <1>2, <1>3, <1>4 DEF Worker

LEMMA StatusNext == TypeOK /\ OneTaskPerJob /\ StatusInv /\ [Next]_vars => StatusInv'
  <1> SUFFICES ASSUME TypeOK, OneTaskPerJob, StatusInv, [Next]_vars PROVE StatusInv'
    OBVIOUS
  <1>1. ASSUME NEW j \in Jobs, SubmitJob(j) PROVE StatusInv'
    <2>1. {j} \in SUBSET Absent /\ Create({j}) /\ UNCHANGED <<waitsFor, queue, running, owing>>
      BY <1>1 DEF SubmitJob, process
    <2>2. QED
      BY <2>1, CreateKeepsStatuses DEF StatusInv, OwingStatuses
  <1>2. CASE Restart
    BY <1>2 DEF Restart, StatusInv, WaitStatuses, TaskStatuses, OwingStatuses, Waiting, Queued
  <1>3. CASE UNCHANGED <<status, waitsFor, owing, queue, running>>
    BY <1>3 DEF StatusInv, WaitStatuses, TaskStatuses, OwingStatuses, Waiting, Queued
  <1>4. CASE Environment
    BY <1>1, <1>2, <1>3, <1>4
       DEF Environment, QueueTask, QueueEvent, QueueMessage, store, process
  <1>5. QED
    BY <1>3, <1>4, StatusLoop, StatusAcquire, StatusWorker DEF Next, vars, store, process

LEMMA StatusInvariant == Spec => [](TypeOK /\ OneTaskPerJob /\ StatusInv)
  <1>1. Init => OneTaskPerJob /\ StatusInv
    BY DEF Init, OneTaskPerJob, Queued, StatusInv, WaitStatuses, TaskStatuses,
           OwingStatuses, Waiting
  <1>2. QED
    BY <1>1, InitTypeOK, TypeNext, OneTaskNext, StatusNext, PTL DEF Spec

-----------------------------------------------------------------------------
(* No job without a task to fetch.                                         *)

Owing(a) == owing \cap OfAgent(a)

LEMMA OwingFinite ==
    ASSUME NEW S \in SUBSET Jobs, NEW a
    PROVE  IsFiniteSet(S \cap OfAgent(a)) /\ Cardinality(S \cap OfAgent(a)) \in Nat
  <1>1. S \cap OfAgent(a) \in SUBSET Jobs
    OBVIOUS
  <1>2. QED
    BY <1>1, JobsFinite

(* Fewer jobs that owe, and no fewer tasks.                                *)
LEMMA FewerOwing ==
    ASSUME TypeOK, LoopNeverOvercreates, owing' \subseteq owing,
           \A a \in Agents : tasks[a] <= tasks'[a], tasks' \in [Agents -> Nat]
    PROVE  LoopNeverOvercreates'
  <1> SUFFICES ASSUME NEW a \in Agents PROVE Cardinality(owing' \cap OfAgent(a)) <= tasks'[a]
    BY DEF LoopNeverOvercreates, OfAgent
  <1>1. /\ IsFiniteSet(owing \cap OfAgent(a))
        /\ Cardinality(owing \cap OfAgent(a)) \in Nat
        /\ Cardinality(owing' \cap OfAgent(a)) \in Nat
    BY OwingFinite DEF TypeOK
  <1>2. Cardinality(owing' \cap OfAgent(a)) <= Cardinality(owing \cap OfAgent(a))
    BY <1>1, FS_Subset
  <1>3. QED
    BY <1>1, <1>2 DEF LoopNeverOvercreates, TypeOK

(* start_jobs_func counts at least the jobs that still owe a fetch.        *)
LEMMA OvercreatesStart ==
    ASSUME TypeOK, OwingStatuses, LoopNeverOvercreates,
           NEW a \in Agents, NEW born \in NewJobs(OfAgent(a), JobsToCreate(a)),
           owing' = owing \cup born, tasks' = tasks
    PROVE  LoopNeverOvercreates'
  <1>1. /\ born \in SUBSET (OfAgent(a) \cap Absent) /\ born \in SUBSET Jobs
        /\ Cardinality(born) = Least(IF JobsToCreate(a) < 0 THEN 0 ELSE JobsToCreate(a),
                                     Cardinality(OfAgent(a) \cap Absent))
    BY DEF NewJobs, Absent
  <1>2. Owing(a) \subseteq ReadyJobs(a) /\ ReadyJobs(a) \in SUBSET Jobs
        /\ Owing(a) \in SUBSET Jobs
    BY DEF Owing, ReadyJobs, OwingStatuses, OfAgent
  <1>3. /\ IsFiniteSet(ReadyJobs(a)) /\ Cardinality(ReadyJobs(a)) \in Nat
        /\ IsFiniteSet(Owing(a)) /\ Cardinality(Owing(a)) \in Nat
        /\ IsFiniteSet(born) /\ Cardinality(born) \in Nat
    BY <1>1, <1>2, JobsFinite
  <1>4. Cardinality(Owing(a)) <= Cardinality(ReadyJobs(a))
    BY <1>2, <1>3, FS_Subset
  <1>5. Cardinality(OfAgent(a) \cap Absent) \in Nat
    <2>1. OfAgent(a) \cap Absent \in SUBSET Jobs
      BY DEF OfAgent
    <2>2. QED
      BY <2>1, JobsFinite
  <1>6. Room \in Nat /\ tasks[a] \in Nat /\ Cardinality(Owing(a)) <= tasks[a]
    BY RoomType DEF TypeOK, LoopNeverOvercreates, Owing
  <1>7. Cardinality(Owing(a)) + Cardinality(born) <= tasks[a]
    BY <1>1, <1>3, <1>4, <1>5, <1>6 DEF JobsToCreate, Least
  <1>8. Cardinality(Owing(a) \cup born) <= tasks[a]
    <2>1. /\ IsFiniteSet(Owing(a) \cup born)
          /\ Cardinality(Owing(a) \cup born)
                = Cardinality(Owing(a)) + Cardinality(born) - Cardinality(Owing(a) \cap born)
      BY <1>3, FS_Union
    <2>2. Cardinality(Owing(a) \cap born) \in Nat
      <3>1. Owing(a) \cap born \in SUBSET Jobs
        BY <1>1
      <3>2. QED
        BY <3>1, JobsFinite
    <2>3. QED
      BY <2>1, <2>2, <1>3, <1>6, <1>7
  <1>9. ASSUME NEW b \in Agents PROVE Cardinality(owing' \cap OfAgent(b)) <= tasks'[b]
    <2>1. CASE b = a
      <3>1. owing' \cap OfAgent(b) = Owing(a) \cup born
        BY <2>1, <1>1 DEF Owing
      <3>2. QED
        BY <2>1, <3>1, <1>8
    <2>2. CASE b # a
      <3>1. owing' \cap OfAgent(b) = owing \cap OfAgent(b)
        BY <2>2, <1>1 DEF OfAgent
      <3>2. QED
        BY <3>1 DEF LoopNeverOvercreates
    <2>3. QED
      BY <2>1, <2>2
  <1>10. QED
    BY <1>9 DEF LoopNeverOvercreates, OfAgent

LEMMA OvercreatesFetch ==
    ASSUME TypeOK, LoopNeverOvercreates, NEW j \in Jobs, Fetches(j)
    PROVE  LoopNeverOvercreates'
  <1>1. AgentOf[j] \in Agents /\ j \in Owing(AgentOf[j])
    BY JobsLoopAssumption DEF Fetches, Owing, OfAgent
  <1> SUFFICES ASSUME NEW b \in Agents PROVE Cardinality(owing' \cap OfAgent(b)) <= tasks'[b]
    BY DEF LoopNeverOvercreates, OfAgent
  <1>2. /\ IsFiniteSet(owing \cap OfAgent(b)) /\ Cardinality(owing \cap OfAgent(b)) \in Nat
        /\ Cardinality(owing \cap OfAgent(b)) <= tasks[b] /\ tasks[b] \in Nat
    BY OwingFinite DEF TypeOK, LoopNeverOvercreates
  <1>3. CASE b = AgentOf[j]
    <2>1. owing' \cap OfAgent(b) = (owing \cap OfAgent(b)) \ {j}
      BY DEF Fetches
    <2>2. Cardinality(owing' \cap OfAgent(b)) = Cardinality(owing \cap OfAgent(b)) - 1
      <3>1. IsFiniteSet(owing \cap OfAgent(b)) /\ j \in owing \cap OfAgent(b)
        BY <1>1, <1>2, <1>3 DEF Owing
      <3>2. Cardinality((owing \cap OfAgent(b)) \ {j})
                = Cardinality(owing \cap OfAgent(b)) - 1
        BY <3>1, FS_RemoveElement
      <3>3. QED
        BY <2>1, <3>2
    <2>3. tasks'[b] = tasks[b] - 1
      BY <1>1, <1>3 DEF Fetches, TypeOK
    <2>4. QED
      BY <1>2, <2>2, <2>3
  <1>4. CASE b # AgentOf[j]
    <2>1. owing' \cap OfAgent(b) = owing \cap OfAgent(b)
      BY <1>4 DEF Fetches, OfAgent
    <2>2. tasks'[b] = tasks[b]
      BY <1>1, <1>4 DEF Fetches, TypeOK
    <2>3. QED
      BY <1>2, <2>1, <2>2
  <1>5. QED
    BY <1>3, <1>4

LEMMA OvercreatesNext ==
    TypeOK /\ OwingStatuses /\ LoopNeverOvercreates /\ [Next]_vars => LoopNeverOvercreates'
  <1> SUFFICES ASSUME TypeOK, OwingStatuses, LoopNeverOvercreates, [Next]_vars
               PROVE  LoopNeverOvercreates'
    OBVIOUS
  <1>1. CASE UNCHANGED <<owing, tasks>>
    BY <1>1 DEF LoopNeverOvercreates, OfAgent
  <1>2. CASE StartJobs
    <2>1. CASE UNCHANGED owing
      BY <1>1, <1>2, <2>1 DEF StartJobs
    <2>2. CASE \E born \in NewJobs(OfAgent(Fleet[turn]), JobsToCreate(Fleet[turn])) :
                  owing' = owing \cup born
      <3>1. Fleet[turn] \in Agents /\ tasks' = tasks
        BY <1>2, JobsLoopAssumption DEF StartJobs
      <3>2. QED
        BY <2>2, <3>1, OvercreatesStart
    <2>3. QED
      BY <1>2, <2>1, <2>2 DEF StartJobs
  <1>3. CASE LoopTurn
    BY <1>1, <1>2, <1>3
       DEF LoopTurn, UnsuspendJobs, ProcessPushNotifications, ProcessAgentEvents,
           StartJobsEnd, SelectJobs, Wake, Confirm, store, inputs
  <1>4. ASSUME NEW j \in Jobs, Worker(j) PROVE LoopNeverOvercreates'
    <2>1. CASE RunWarmupBlock(j)
      BY <2>1, <1>1, OvercreatesFetch DEF RunWarmupBlock
    <2>2. CASE FailJob(j)
      <3>1. owing' \subseteq owing /\ tasks' = tasks
        BY <2>2 DEF FailJob, inputs
      <3>2. QED
        BY <3>1, FewerOwing DEF TypeOK
    <2>3. QED
      BY <1>1, <1>4, <2>1, <2>2 DEF Worker, Delegate, EndTurn, inputs
  <1>5. ASSUME NEW a \in Agents, QueueTask(a) PROVE LoopNeverOvercreates'
    <2>1. /\ owing' = owing /\ tasks' \in [Agents -> Nat]
          /\ \A b \in Agents : tasks[b] <= tasks'[b]
      BY <1>5 DEF QueueTask, store, TypeOK
    <2>2. QED
      BY <2>1, FewerOwing
  <1>6. CASE Environment
    BY <1>1, <1>5, <1>6
       DEF Environment, QueueEvent, QueueMessage, SubmitJob, Restart, store, inputs
  <1>7. QED
    BY <1>1, <1>3, <1>4, <1>6 DEF Next, Acquire, vars, store, inputs

(* Every job that the loop creates for a queued task has one to fetch.     *)
THEOREM NoOvercreation == Spec => []LoopNeverOvercreates
  <1>1. Init => LoopNeverOvercreates
    <2> SUFFICES ASSUME Init, NEW a \in Agents
                 PROVE  Cardinality(owing \cap OfAgent(a)) <= tasks[a]
      BY DEF LoopNeverOvercreates
    <2>1. owing \cap OfAgent(a) = {} /\ tasks[a] = 0
      BY DEF Init
    <2>2. QED
      BY <2>1, FS_EmptySet
  <1>2. TypeOK /\ StatusInv => TypeOK /\ OwingStatuses
    BY DEF StatusInv
  <1>3. QED
    BY <1>1, <1>2, StatusInvariant, OvercreatesNext, PTL DEF Spec

-----------------------------------------------------------------------------
(* The life cycle of every job.                                            *)

LifecycleStep(i) == Lifecycle(i)!Next \/ UNCHANGED <<Phase(i), Waiting(i)>>

LEMMA StillLife ==
    ASSUME NEW i, status'[i] = status[i], waitsFor'[i] = waitsFor[i]
    PROVE  LifecycleStep(i)
  BY DEF LifecycleStep, Phase, Waiting

LEMMA CreateLife ==
    ASSUME NEW born \in SUBSET Absent, Create(born), waitsFor' = waitsFor, NEW i \in Jobs
    PROVE  LifecycleStep(i)
  <1>1. /\ i \in born => status[i] = "absent" /\ status'[i] = "READY"
        /\ i \notin born => status'[i] = status[i]
    BY DEF Create, Absent
  <1>2. QED
    BY <1>1 DEF LifecycleStep, Phase, Waiting

LEMMA LifecycleNext ==
    ASSUME TypeOK, OneTaskPerJob, StatusInv, Next, NEW i \in Jobs
    PROVE  LifecycleStep(i)
  <1>1. CASE UNCHANGED <<status, waitsFor>>
    BY <1>1, StillLife
  <1>2. CASE UnsuspendJobs
    <2>1. /\ status'[i] = IF Released(i) /\ status[i] = "SUSPENDED"
                          THEN "STARTED" ELSE status[i]
          /\ waitsFor'[i] = IF Released(i) THEN NoJob ELSE waitsFor[i]
      BY <1>2 DEF UnsuspendJobs
    <2>2. CASE Released(i)
      BY <2>1, <2>2
         DEF LifecycleStep, Lifecycle!Next, Lifecycle!Resume, Released, Phase, Waiting
    <2>3. CASE ~Released(i)
      BY <2>1, <2>3, StillLife
    <2>4. QED
      BY <2>2, <2>3
  <1>3. CASE ProcessPushNotifications
    <2>1. /\ status'[i] = IF i \in Reopened THEN "STARTED" ELSE status[i]
          /\ waitsFor' = waitsFor
      BY <1>3 DEF ProcessPushNotifications
    <2>2. QED
      BY <2>1 DEF LifecycleStep, Lifecycle!Next, Lifecycle!Reopen, Reopened, Phase, Waiting
  <1>4. CASE ProcessAgentEvents
    <2>1. \E born \in SUBSET Absent : Create(born)
      BY <1>4 DEF ProcessAgentEvents, EventJobs
    <2>2. QED
      BY <1>4, <2>1, CreateLife DEF ProcessAgentEvents
  <1>5. CASE StartJobs
    <2>1. waitsFor' = waitsFor /\ (status' = status \/ \E born \in SUBSET Absent : Create(born))
      BY <1>5 DEF StartJobs, NewJobs
    <2>2. QED
      BY <2>1, <1>1, CreateLife
  <1>6. CASE Acquire
    <2>1. Head(queue) \in Queued /\ Head(queue) \in Jobs /\ waitsFor' = waitsFor
      <3>1. queue \in Seq(Jobs) /\ queue # <<>> /\ Distinct(queue)
        BY <1>6, OneTaskForm DEF Acquire, TypeOK
      <3>2. Head(queue) \in Members(queue)
        BY <3>1, TailMembers
      <3>3. QED
        BY <1>6, <3>2, QueuedType DEF Acquire, Members, Queued
    <2>2. PICK s : /\ s \in {status[Head(queue)], "WARMING_UP", "STARTED"}
                   /\ status[Head(queue)] # "READY" => s = status[Head(queue)]
                   /\ status' = [status EXCEPT ![Head(queue)] = s]
      <3>1. PICK s : /\ s \in IF status[Head(queue)] # "READY" THEN {status[Head(queue)]}
                             ELSE IF Head(queue) \in owing THEN {"WARMING_UP"}
                                  ELSE {"WARMING_UP", "STARTED"}
                     /\ status' = [status EXCEPT ![Head(queue)] = s]
        BY <1>6 DEF Acquire
      <3>2. QED
        BY <3>1
    <2>3. ~Waiting(Head(queue))
      BY <2>1 DEF StatusInv, TaskStatuses
    <2>4. /\ status'[Head(queue)] = s
          /\ \A j \in Jobs : j # Head(queue) => status'[j] = status[j]
      BY <2>1, <2>2 DEF TypeOK
    <2>5. CASE i # Head(queue)
      BY <2>1, <2>4, <2>5, StillLife
    <2>6. CASE i = Head(queue)
      BY <2>1, <2>2, <2>3, <2>4, <2>6
         DEF LifecycleStep, Lifecycle!Next, Lifecycle!Warm, Lifecycle!Start, Phase, Waiting
    <2>7. QED
      BY <2>5, <2>6
  <1>7. ASSUME NEW j \in Jobs, Worker(j) PROVE LifecycleStep(i)
    <2>1. j \in running /\ ~Waiting(j) /\ status[j] \in {"WARMING_UP", "STARTED"}
      BY <1>7 DEF Worker, RunWarmupBlock, Delegate, EndTurn, FailJob, StatusInv, TaskStatuses
    <2>2. CASE Delegate(j)
      <3>1. PICK child \in Absent :
                /\ status' = [status EXCEPT
                                  ![child] = "READY",
                                  ![j] = IF @ = "STARTED" THEN "SUSPENDED" ELSE @]
                /\ waitsFor' = [waitsFor EXCEPT ![j] = child]
        BY <2>2 DEF Delegate
      <3>2. child \in Jobs /\ child # j /\ status[child] = "absent" /\ child # NoJob
        BY <2>1, <3>1, JobsLoopAssumption DEF Absent
      <3>3. CASE i = j
        <4>1. /\ status'[i] = IF status[i] = "STARTED" THEN "SUSPENDED" ELSE status[i]
              /\ waitsFor'[i] = child
          BY <3>1, <3>2, <3>3 DEF TypeOK
        <4>2. QED
          BY <2>1, <3>2, <3>3, <4>1
             DEF LifecycleStep, Lifecycle!Next, Lifecycle!Wait, Phase, Waiting
      <3>4. CASE i = child
        <4>1. status'[i] = "READY" /\ waitsFor'[i] = waitsFor[i] /\ status[i] = "absent"
          BY <3>1, <3>2, <3>4 DEF TypeOK
        <4>2. QED
          BY <4>1 DEF LifecycleStep, Phase, Waiting
      <3>5. CASE i # j /\ i # child
        BY <3>1, <3>5, StillLife DEF TypeOK
      <3>6. QED
        BY <3>3, <3>4, <3>5
    <2>3. CASE RunWarmupBlock(j) \/ EndTurn(j) \/ FailJob(j)
      <3>1. /\ waitsFor' = waitsFor /\ (i # j => status'[i] = status[i])
            /\ status'[j] = status[j] \/ status'[j] \in {"STARTED", "DONE"}
        BY <2>3 DEF RunWarmupBlock, EndTurn, FailJob, TypeOK
      <3>2. CASE i = j
        BY <2>1, <3>1, <3>2
           DEF LifecycleStep, Lifecycle!Next, Lifecycle!Start, Lifecycle!End, Phase, Waiting
      <3>3. CASE i # j
        BY <3>1, <3>3, StillLife
      <3>4. QED
        BY <3>2, <3>3
    <2>4. QED
      BY <1>7, <2>2, <2>3 DEF Worker
  <1>8. ASSUME NEW j \in Jobs, SubmitJob(j) PROVE LifecycleStep(i)
    <2>1. {j} \in SUBSET Absent /\ Create({j}) /\ waitsFor' = waitsFor
      BY <1>8 DEF SubmitJob
    <2>2. QED
      BY <2>1, CreateLife
  <1>9. CASE LoopTurn
    BY <1>1, <1>2, <1>3, <1>4, <1>5, <1>9
       DEF LoopTurn, StartJobsEnd, SelectJobs, Wake, Confirm, store
  <1>10. CASE Environment
    BY <1>1, <1>8, <1>10
       DEF Environment, QueueTask, QueueEvent, QueueMessage, Restart, store
  <1>11. QED
    BY <1>6, <1>7, <1>9, <1>10 DEF Next

(* Whatever the loop, its workers and other processes do, each job moves   *)
(* as the abstract life cycle of one job allows.                           *)
THEOREM EveryJobFollowsLifecycle == Spec => JobsFollowLifecycle
  <1>1. TypeOK /\ OneTaskPerJob /\ StatusInv /\ [Next]_vars
            => [\A j \in Jobs : Lifecycle(j)!Next \/ UNCHANGED <<Phase(j), Waiting(j)>>]_vars
    BY LifecycleNext DEF LifecycleStep
  <1>2. QED
    BY <1>1, StatusInvariant, PTL DEF Spec, JobsFollowLifecycle
=============================================================================
