------------------------------ MODULE JobsLoop ------------------------------
(***************************************************************************)
(* run_jobs_loop, the job_worker tasks it keeps in pending_tasks and the    *)
(* start_jobs_func of a fleet (src/statek/executors/utils.py).              *)
(*                                                                         *)
(* One turn of the loop is a single segment up to asyncio.wait: nothing of  *)
(* the same process runs in between, while other processes may queue tasks, *)
(* events and messages at any time.  The step of a job is cut where it      *)
(* awaits: for the semaphore and for the LLM.  What JobStep models in full  *)
(* is here the statuses a step goes through.                                *)
(***************************************************************************)
EXTENDS Integers, Sequences, FiniteSets

CONSTANTS
    Jobs,           (* identities of jobs; a bound on how many are created   *)
    Agents,
    AgentOf,        (* the agent each identity is reserved for               *)
    Fleet,          (* agent_loop_defs: the agents, in their order           *)
    MaxConcurrency, (* max_concurrency of run_jobs_loop                      *)
    AutoTerminate,  (* auto_terminate of run_jobs_loop                       *)
    MaxSteps,       (* steps of a job between two messages: warmup blocks    *)
                    (* and the turns that the harness allows                 *)
    MaxArrivals,    (* bound: tasks, events and jobs from other processes    *)
    MaxRestarts,    (* bound: process restarts explored                      *)
    NoJob

OfAgent(a) == {j \in Jobs : AgentOf[j] = a}

ASSUME JobsLoopAssumption ==
    /\ IsFiniteSet(Jobs) /\ NoJob \notin Jobs
    /\ AgentOf \in [Jobs -> Agents]
    /\ Fleet \in Seq(Agents)
    /\ \A i, k \in DOMAIN Fleet : Fleet[i] = Fleet[k] => i = k
    /\ MaxConcurrency \in Nat \ {0} /\ MaxSteps \in Nat \ {0}
    /\ AutoTerminate \in BOOLEAN
    /\ MaxArrivals \in Nat /\ MaxRestarts \in Nat

VARIABLES
    status,      \* Job.job_status, or "absent" before the job is created
    waitsFor,    \* Job.awaited_result: the job whose end is waited for
    budget,      \* steps left before the harness stops the job; 0 when DONE
    owing,       \* jobs created for a queued task that are still to fetch it
    tasks,       \* task_queue_size_func of each agent
    events,      \* StatekPushQueue: events queued for each agent
    console,     \* StatekPushQueue: jobs a queued console message is for
    failed,      \* JobDef.has_errors of each agent's definition
    loop,        \* where run_jobs_loop is
    turn,        \* the start_jobs_func being called: an index in Fleet
    queue,       \* tasks waiting for the semaphore, oldest first
    running,     \* jobs whose task holds the semaphore
    finished,    \* jobs whose task ended and is still in pending_tasks
    arrivals, restarts   \* what the bounds count

store == <<status, waitsFor, budget, owing, failed>>
inputs == <<tasks, events, console, arrivals>>
process == <<loop, turn, queue, running, finished, restarts>>
vars == <<store, inputs, process>>

-----------------------------------------------------------------------------
Statuses == {"READY", "WARMING_UP", "STARTED", "SUSPENDED", "DONE"}
Stations == {"unsuspend", "push", "events", "start", "select", "wait", "confirm",
             "ended", "aborted"}

Queued == {queue[i] : i \in DOMAIN queue}
Pending == Queued \cup running \cup finished
Capacity == MaxConcurrency - Cardinality(Pending)
Room == IF Capacity < 0 THEN 0 ELSE Capacity

Absent == {j \in Jobs : status[j] = "absent"}
Active == {j \in Jobs : status[j] \notin {"absent", "DONE"}}
Waiting(j) == waitsFor[j] # NoJob

(* Every order in which db0.find may return the jobs of a set.             *)
Orderings(S) ==
    {s \in [1..Cardinality(S) -> S] : \A i, k \in DOMAIN s : s[i] = s[k] => i = k}

Least(m, n) == IF m <= n THEN m ELSE n

(* born becomes READY jobs; fewer are created when the identities run out. *)
Create(born) ==
    /\ status' = [j \in Jobs |-> IF j \in born THEN "READY" ELSE status[j]]
    /\ budget' = [j \in Jobs |-> IF j \in born THEN MaxSteps ELSE budget[j]]
NewJobs(pool, n) ==
    {born \in SUBSET (pool \cap Absent) :
        Cardinality(born) = Least(IF n < 0 THEN 0 ELSE n, Cardinality(pool \cap Absent))}

Init ==
    /\ status = [j \in Jobs |-> "absent"]
    /\ waitsFor = [j \in Jobs |-> NoJob]
    /\ budget = [j \in Jobs |-> 0]
    /\ owing = {}
    /\ tasks = [a \in Agents |-> 0] /\ events = [a \in Agents |-> 0]
    /\ console = {}
    /\ failed = [a \in Agents |-> FALSE]
    /\ loop = "unsuspend" /\ turn = 1
    /\ queue = <<>> /\ running = {} /\ finished = {}
    /\ arrivals = 0 /\ restarts = 0

-----------------------------------------------------------------------------
(* One turn of run_jobs_loop.                                              *)

(* unsuspend_jobs: is_job_completed is the condition of every wait here.   *)
Released(j) == Waiting(j) /\ status[j] \in {"SUSPENDED", "WARMING_UP"}
                          /\ status[waitsFor[j]] = "DONE"
UnsuspendAfterMessages ==  \* mutated: messages are delivered before waits are looked at
    /\ loop = "unsuspend" /\ loop' = "push" /\ console' = {}
    /\ LET reopened == {j \in console : status[j] = "DONE"}
           released == {j \in Jobs : Released(j) /\ waitsFor[j] \notin reopened}
       IN  /\ status' = [j \in Jobs |->
                            IF j \in reopened \/ (j \in released /\ status[j] = "SUSPENDED")
                            THEN "STARTED" ELSE status[j]]
           /\ waitsFor' = [j \in Jobs |-> IF j \in released THEN NoJob ELSE waitsFor[j]]
           /\ budget' = [j \in Jobs |-> IF j \in reopened THEN MaxSteps ELSE budget[j]]
    /\ UNCHANGED <<owing, failed, tasks, events, arrivals, turn, queue, running, finished,
                   restarts>>
UnsuspendJobs ==
    /\ loop = "unsuspend" /\ loop' = "push"
    /\ status' = [j \in Jobs |-> IF Released(j) /\ status[j] = "SUSPENDED"
                                 THEN "STARTED" ELSE status[j]]
    /\ waitsFor' = [j \in Jobs |-> IF Released(j) THEN NoJob ELSE waitsFor[j]]
    /\ UNCHANGED <<budget, owing, failed, inputs, turn, queue, running, finished, restarts>>

(* process_push_notifications: a message restarts a DONE job and extends   *)
(* its limits (push_user_message); a message for no job is dropped.        *)
ReopenedAlways ==          \* mutated: a message restarts a job of any status
    {j \in console : status[j] # "absent"}
Reopened == {j \in console : status[j] = "DONE"}
ProcessPushNotifications ==
    /\ loop = "push" /\ loop' = "events"
    /\ status' = [j \in Jobs |-> IF j \in Reopened THEN "STARTED" ELSE status[j]]
    /\ budget' = [j \in Jobs |-> IF j \in Reopened THEN MaxSteps ELSE budget[j]]
    /\ console' = {}
    /\ UNCHANGED <<waitsFor, owing, failed, tasks, events, arrivals, turn, queue,
                   running, finished, restarts>>

(* process_agent_events: up to max_count events, one agent after another,  *)
(* each becoming a job of that agent.                                      *)
Served(born, a) == Cardinality(born \cap OfAgent(a))
Servable(a) == Least(events[a], Cardinality(OfAgent(a) \cap Absent))
EventJobsFillRoom ==       \* mutated: a job for each free slot, whatever was popped
    {born \in SUBSET Absent : Cardinality(born) <= Room}
EventJobs ==
    {born \in SUBSET Absent :
        /\ \A a \in Agents : Served(born, a) <= events[a]
        /\ Cardinality(born) <= Room
        /\ Cardinality(born) = Room \/ \A a \in Agents : Served(born, a) = Servable(a)
        /\ Cardinality({a \in Agents : Served(born, a) \in 1..(Servable(a) - 1)}) <= 1}
ProcessAgentEvents ==
    /\ loop = "events" /\ loop' = "start" /\ turn' = 1
    /\ \E born \in EventJobs :
          /\ Create(born)
          /\ events' = [a \in Agents |-> events[a] - Served(born, a)]
    /\ UNCHANGED <<waitsFor, owing, failed, tasks, console, arrivals, queue,
                   running, finished, restarts>>

(* start_jobs_func of one agent; combined_start_jobs_func offers the same  *)
(* capacity to every agent of the fleet.  A definition with errors raises  *)
(* and takes the loop and all of its tasks down.                           *)
ReadyJobsNotWarming(a) ==  \* mutated: jobs that are warming up are not counted
    {j \in OfAgent(a) : status[j] = "READY"}
ReadyJobs(a) == {j \in OfAgent(a) : status[j] \in {"READY", "WARMING_UP"}}
JobsToCreate(a) == Least(Room, tasks[a] - Cardinality(ReadyJobs(a)))

StartJobs ==
    /\ loop = "start" /\ turn \in DOMAIN Fleet
    /\ LET a == Fleet[turn] IN
       \/ /\ failed[a] /\ loop' = "aborted"
          /\ queue' = <<>> /\ running' = {} /\ finished' = {}
          /\ UNCHANGED <<status, budget, owing, turn>>
       \/ /\ ~failed[a] /\ turn' = turn + 1
          /\ \E born \in NewJobs(OfAgent(a), JobsToCreate(a)) :
                Create(born) /\ owing' = owing \cup born
          /\ UNCHANGED <<loop, queue, running, finished>>
    /\ UNCHANGED <<waitsFor, failed, tasks, events, console, arrivals, restarts>>
StartJobsEnd ==
    /\ loop = "start" /\ turn \notin DOMAIN Fleet /\ loop' = "select"
    /\ UNCHANGED <<store, inputs, turn, queue, running, finished, restarts>>

(* Every runnable job gets a task, or none does.                           *)
Runnable(j) ==
    \/ status[j] \in {"READY", "STARTED"}
    \/ status[j] = "WARMING_UP" /\ ~Waiting(j)
SelectedAgain ==           \* mutated: pending_tasks is not consulted
    {j \in Jobs : Runnable(j)}
Selected == {j \in Jobs \ Pending : Runnable(j)}
SelectUpToCapacity ==      \* mutated: the selection stops at the limit
    /\ loop = "select" /\ loop' = "wait"
    /\ \E some \in SUBSET Selected :
          /\ Cardinality(some) = Least(Room, Cardinality(Selected))
          /\ \E order \in Orderings(some) : queue' = queue \o order
    /\ UNCHANGED <<store, inputs, turn, running, finished, restarts>>
SelectJobs ==
    /\ loop = "select" /\ loop' = "wait"
    /\ IF Capacity > 0
       THEN \E order \in Orderings(Selected) : queue' = queue \o order
       ELSE UNCHANGED queue
    /\ UNCHANGED <<store, inputs, turn, running, finished, restarts>>

(* asyncio.wait returns, on a completed task or on its timeout; the check  *)
(* for auto_terminate follows.                                             *)
Quiet == Active = {} /\ queue = <<>> /\ running = {}
WakeKeepsTasks ==          \* mutated: completed tasks stay in pending_tasks
    /\ loop = "wait"
    /\ loop' = IF AutoTerminate /\ Quiet /\ finished = {} THEN "confirm" ELSE "unsuspend"
    /\ UNCHANGED <<store, inputs, turn, queue, running, finished, restarts>>
Wake ==
    /\ loop = "wait" /\ finished' = {}
    /\ loop' = IF AutoTerminate /\ Quiet THEN "confirm" ELSE "unsuspend"
    /\ UNCHANGED <<store, inputs, turn, queue, running, restarts>>
Confirm ==
    /\ loop = "confirm"
    /\ loop' = IF Active = {} THEN "ended" ELSE "unsuspend"
    /\ UNCHANGED <<store, inputs, turn, queue, running, finished, restarts>>

LoopTurn ==
    \/ UnsuspendJobs \/ ProcessPushNotifications \/ ProcessAgentEvents
    \/ StartJobs \/ StartJobsEnd \/ SelectJobs \/ Wake \/ Confirm

-----------------------------------------------------------------------------
(* job_worker and the step of one job, while the loop is at asyncio.wait.  *)

Leaves(j) == running' = running \ {j} /\ finished' = finished \cup {j}

(* The semaphore is granted in the order of the tasks.  A job without      *)
(* warmup code is STARTED at once; a job made for a task has warmup code.  *)
Acquire ==
    /\ loop = "wait" /\ queue # <<>> /\ Cardinality(running) < MaxConcurrency
    /\ LET j == Head(queue) IN
       /\ running' = running \cup {j}
       /\ \E s \in IF status[j] # "READY" THEN {status[j]}
                   ELSE IF j \in owing THEN {"WARMING_UP"} ELSE {"WARMING_UP", "STARTED"} :
             status' = [status EXCEPT ![j] = s]
    /\ queue' = Tail(queue)
    /\ UNCHANGED <<waitsFor, budget, owing, failed, inputs, loop, turn, finished, restarts>>

(* A warmup block runs: the one that fetches takes a task from the queue.  *)
(* It is followed by another block, in the next step, or by the request.   *)
Fetches(j) ==
    /\ j \in owing /\ tasks[AgentOf[j]] > 0
    /\ owing' = owing \ {j}
    /\ tasks' = [tasks EXCEPT ![AgentOf[j]] = @ - 1]
RunWarmupBlock(j) ==
    /\ loop = "wait" /\ j \in running /\ status[j] = "WARMING_UP" /\ budget[j] > 0
    /\ budget' = [budget EXCEPT ![j] = @ - 1]
    /\ \/ Fetches(j)
       \/ UNCHANGED <<owing, tasks>>
    /\ \/ /\ Leaves(j) /\ UNCHANGED status
       \/ /\ j \notin owing' /\ status' = [status EXCEPT ![j] = "STARTED"]
          /\ UNCHANGED <<running, finished>>
    /\ UNCHANGED <<waitsFor, failed, events, console, arrivals, loop, turn, queue,
                   restarts>>

(* A block delegates to a new job and waits for it (Steps 7 and 4).        *)
Delegate(j) ==
    /\ loop = "wait" /\ j \in running /\ status[j] \in {"WARMING_UP", "STARTED"}
    /\ budget[j] > 0
    /\ \E child \in Absent :
          /\ status' = [status EXCEPT
                            ![child] = "READY",
                            ![j] = IF @ = "STARTED" THEN "SUSPENDED" ELSE @]
          /\ budget' = [budget EXCEPT ![child] = MaxSteps, ![j] = @ - 1]
          /\ waitsFor' = [waitsFor EXCEPT ![j] = child]
    /\ Leaves(j)
    /\ UNCHANGED <<owing, failed, inputs, loop, turn, queue, restarts>>

(* The step of a STARTED job ends with the job to be continued, or done.   *)
EndTurn(j) ==
    /\ loop = "wait" /\ j \in running /\ status[j] = "STARTED" /\ budget[j] > 0
    /\ \E s \in {"STARTED", "DONE"} :
          /\ status' = [status EXCEPT ![j] = s]
          /\ budget' = [budget EXCEPT ![j] = IF s = "DONE" THEN 0 ELSE @ - 1]
    /\ Leaves(j)
    /\ UNCHANGED <<waitsFor, owing, failed, inputs, loop, turn, queue, restarts>>

(* The job fails: an exception in its warmup is recorded on the definition *)
(* (JobDef.set_error); a provider error or the harness ends this job only. *)
FailJob(j) ==
    /\ loop = "wait" /\ j \in running
    /\ status' = [status EXCEPT ![j] = "DONE"] /\ budget' = [budget EXCEPT ![j] = 0]
    /\ failed' \in {failed} \cup
                   IF status[j] = "WARMING_UP"
                   THEN {[failed EXCEPT ![AgentOf[j]] = TRUE]} ELSE {}
    /\ owing' = owing \ {j}
    /\ Leaves(j)
    /\ UNCHANGED <<waitsFor, inputs, loop, turn, queue, restarts>>

Worker(j) == RunWarmupBlock(j) \/ Delegate(j) \/ EndTurn(j) \/ FailJob(j)

-----------------------------------------------------------------------------
(* Other processes.                                                        *)

Arrives == arrivals < MaxArrivals /\ arrivals' = arrivals + 1

QueueTask(a) ==
    /\ Arrives
    /\ tasks' = [tasks EXCEPT ![a] = @ + 1]
    /\ UNCHANGED <<store, events, console, process>>
QueueEvent(a) ==
    /\ Arrives /\ events' = [events EXCEPT ![a] = @ + 1]
    /\ UNCHANGED <<store, tasks, console, process>>
QueueMessage(j) ==
    /\ status[j] # "absent" /\ j \notin console
    /\ console' = console \cup {j}
    /\ UNCHANGED <<store, tasks, events, arrivals, process>>
SubmitJob(j) ==
    /\ Arrives /\ j \in Absent /\ Create({j})
    /\ UNCHANGED <<waitsFor, owing, failed, tasks, events, console, process>>

(* The process dies, or is started again after an abort or the end of the  *)
(* loop: tasks are gone, jobs are as they were, clear_errors is called.    *)
Restart ==
    /\ restarts < MaxRestarts /\ restarts' = restarts + 1
    /\ loop' = "unsuspend" /\ queue' = <<>> /\ running' = {} /\ finished' = {}
    /\ failed' = [a \in Agents |-> failed[a] /\ \A i \in DOMAIN Fleet : Fleet[i] # a]
    /\ UNCHANGED <<status, waitsFor, budget, owing, inputs, turn>>

Environment ==
    \/ \E a \in Agents : QueueTask(a) \/ QueueEvent(a)
    \/ \E j \in Jobs : QueueMessage(j) \/ SubmitJob(j)
    \/ Restart

Next == LoopTurn \/ Acquire \/ (\E j \in Jobs : Worker(j)) \/ Environment

Spec == Init /\ [][Next]_vars

(* The coroutine of the loop always continues; at asyncio.wait it yields   *)
(* for up to 0.3 s to the tasks, each of which gets its turns from the      *)
(* event loop, and no step is awaited for ever.                            *)
Fairness ==
    /\ WF_vars(LoopTurn) /\ SF_vars(Acquire)
    /\ \A j \in Jobs : SF_vars(Worker(j))
FairSpec == Spec /\ Fairness

-----------------------------------------------------------------------------
TypeOK ==
    /\ status \in [Jobs -> Statuses \cup {"absent"}]
    /\ waitsFor \in [Jobs -> Jobs \cup {NoJob}]
    /\ budget \in [Jobs -> 0..MaxSteps]
    /\ owing \subseteq Jobs
    /\ tasks \in [Agents -> Nat] /\ events \in [Agents -> Nat]
    /\ console \subseteq Jobs
    /\ failed \in [Agents -> BOOLEAN]
    /\ loop \in Stations /\ turn \in 1..(Len(Fleet) + 1)
    /\ queue \in Seq(Jobs) /\ running \subseteq Jobs /\ finished \subseteq Jobs
    /\ arrivals \in Nat /\ restarts \in Nat

(* No job is stepped by two tasks: run_job_step assumes that nothing else  *)
(* advances its job between two awaits.                                    *)
OneTaskPerJob ==
    /\ \A i, k \in DOMAIN queue : queue[i] = queue[k] => i = k
    /\ Queued \cap running = {}
    /\ finished \cap (Queued \cup running) = {}

(* Every job made for a queued task finds one to fetch, however jobs are   *)
(* created, run, fail and are restarted meanwhile.                         *)
LoopNeverOvercreates == \A a \in Agents : Cardinality(owing \cap OfAgent(a)) <= tasks[a]

(* Each job goes through the statuses of the abstract life cycle.          *)
Phase(j) == IF status[j] = "absent" THEN "READY" ELSE status[j]
Lifecycle(j) == INSTANCE JobLifecycle WITH phase <- Phase(j), waiting <- Waiting(j)
JobsFollowLifecycle ==
    [][\A j \in Jobs : Lifecycle(j)!Next \/ UNCHANGED <<Phase(j), Waiting(j)>>]_vars

LoopOver == loop \in {"ended", "aborted"}

(* "The loop iterates over all active jobs so that none is starved off     *)
(* resources": a runnable job gets to run while the loop does.             *)
NoStarvation ==
    \A j \in Jobs : Runnable(j) ~> j \in running \/ LoopOver

(* A job that waits for another one is resumed.                            *)
WaitingJobsResume == \A j \in Jobs : Waiting(j) ~> ~Waiting(j) \/ LoopOver

(* Every queued task is fetched by some job, as long as jobs can be made.  *)
TasksAreServed ==
    \A i \in DOMAIN Fleet :
        tasks[Fleet[i]] > 0 ~> \/ tasks[Fleet[i]] = 0 \/ LoopOver
                               \/ OfAgent(Fleet[i]) \cap Absent = {}

(* With auto_terminate the loop ends once no message arrives any more:      *)
(* every job, waiting or not, comes to its end.                            *)
LoopEnds == AutoTerminate /\ <>[](console = {}) => <>LoopOver
=============================================================================
