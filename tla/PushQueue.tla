----------------------------- MODULE PushQueue -----------------------------
(***************************************************************************)
(* StatekPushQueue (src/statek/statek_push_queue.py) and the functions that *)
(* empty it in every iteration of the jobs loop: process_push_notifications *)
(* and process_agent_events (executors/utils.py).                           *)
(*                                                                         *)
(* A queue lives on a prefix and is pushed to and popped from remotely, so  *)
(* other processes push between any two steps of a drain.  FiFoQueue is a   *)
(* library class: pop_front removes the earliest entries that pass a filter. *)
(* Entries are numbered as they are pushed, so a queue is a set of entries. *)
(***************************************************************************)
EXTENDS Integers, Sequences, FiniteSets, SequencesExt

CONSTANTS
    PushSetups,   (* what one instance varies: [gone, raising, badWarmup,    *)
                  (* queues, step, max, filter]: deleted jobs; jobs (agents)  *)
                  (* whose delivery (job creation) raises; agents whose warm- *)
                  (* up does not name one external local; number of queues;   *)
                  (* step_size, max_count, job_prefix                         *)
    PushTargets,  (* jobs and supervised agents that messages are sent to     *)
    Supervised,   (* those of them that are agents                            *)
    PrefixOf,     (* the prefix of each job                                   *)
    AnyPrefix,    (* job_prefix=None                                          *)
    MaxPushed     (* bound: messages and events                               *)

ASSUME PushAssumption ==
    /\ MaxPushed \in Nat /\ Supervised \subseteq PushTargets
    /\ IsFiniteSet(Supervised)
    /\ \A s \in PushSetups : s.queues \in Nat /\ s.step \in Nat \ {0} /\ s.max \in Nat \ {0}

VARIABLES
    setup,
    waiting,   \* the entries of each queue
    pushed,    \* how many entries were pushed, to all queues
    drain,     \* "idle", "jobs" or "agents": the function that is running
    queue,     \* its position in queue_prefixes
    todo,      \* the agents it has not popped from on this queue
    agents,    \* agent_local_names: the agents that had events at the start;
               \* they are taken in any order
    batch,     \* entries that were popped and are not yet delivered
    budget,    \* max_count - processed
    handled,   \* history: entries delivered, in order
    lost       \* entries popped and not delivered: [entry, why]

pqWork == <<queue, todo, agents>>
pqVars == <<setup, waiting, pushed, drain, queue, todo, agents, batch, budget, handled, lost>>

Queues == 1..setup.queues
Entries == [to: PushTargets, via: Queues, n: 1..pushed]
Lost == {l.entry : l \in lost}
Queued == UNION {waiting[q] : q \in Queues}
Handled == {handled[i] : i \in DOMAIN handled}
Accounted == Queued \cup batch \cup Handled \cup Lost

PqInit ==
    /\ setup \in PushSetups
    /\ waiting = [q \in Queues |-> {}] /\ pushed = 0
    /\ drain = "idle" /\ queue = 1 /\ todo = {} /\ agents = {}
    /\ batch = {} /\ budget = 0 /\ handled = <<>> /\ lost = {}

(* push_to_job_console, push_to_agent_queue                                 *)
PushEntry ==
    /\ pushed < MaxPushed /\ pushed' = pushed + 1
    /\ \E q \in Queues, t \in PushTargets :
          waiting' = [waiting EXCEPT ![q] = @ \cup {[to |-> t, via |-> q, n |-> pushed']}]
    /\ UNCHANGED <<setup, drain, batch, budget, handled, lost, pqWork>>

(* FiFoQueue.pop_front: up to count of the earliest entries that match.     *)
Earlier(entry, others) == \A e \in others : entry.n < e.n
AsManyAs(taken, matching, count) ==
    Cardinality(taken) <= count /\ (taken = matching \/ Cardinality(taken) = count)
LeftAfterLast(q, taken) ==             \* mutated: what did not match before is dropped
    {e \in waiting[q] : \A t \in taken : e.n > t.n}
Left(q, taken) == waiting[q] \ taken
Pop(q, matching, count) ==
    \E taken \in SUBSET matching :
        /\ AsManyAs(taken, matching, count)
        /\ \A e \in taken : Earlier(e, matching \ taken)
        /\ batch' = taken
        /\ waiting' = [waiting EXCEPT ![q] = Left(q, taken)]
First(entries) == CHOOSE e \in entries : Earlier(e, entries \ {e})

(* pop_from_job_console: the entries that the prefix filter lets through.   *)
Passes(e) == e.to \notin Supervised /\ setup.filter \in {AnyPrefix, PrefixOf[e.to]}
Messages(q) == {e \in waiting[q] : Passes(e)}
Events(q, agent) == {e \in waiting[q] : e.to = agent}

(***************************************************************************)
(* process_push_notifications: batches of step_size until nothing matches. *)
(***************************************************************************)
StartDrain ==
    /\ drain = "idle" /\ drain' = "jobs" /\ budget' = setup.max /\ queue' = 1
    /\ UNCHANGED <<setup, waiting, pushed, todo, agents, batch, handled, lost>>
Popping == batch = {} /\ budget > 0 /\ queue \in Queues
Over == batch = {} /\ (budget = 0 \/ queue \notin Queues)
PopBatch ==
    /\ drain = "jobs" /\ Popping /\ Messages(queue) # {}
    /\ Pop(queue, Messages(queue), IF setup.step < budget THEN setup.step ELSE budget)
    /\ UNCHANGED <<setup, pushed, drain, budget, handled, lost, pqWork>>
NextQueue ==
    /\ drain = "jobs" /\ Popping /\ Messages(queue) = {}
    /\ queue' = queue + 1
    /\ UNCHANGED <<setup, waiting, pushed, drain, todo, agents, batch, budget, handled, lost>>

(* The except clause swallows a missing job and a failed delivery alike.    *)
Fate(entry) ==
    IF entry.to \in setup.gone THEN "gone"
    ELSE IF entry.to \in setup.raising THEN "raised" ELSE "delivered"
Deliver ==
    /\ drain = "jobs" /\ batch # {}
    /\ LET entry == First(batch)
           fate == Fate(entry)
       IN  IF fate = "delivered"
           THEN handled' = Append(handled, entry) /\ UNCHANGED lost
           ELSE lost' = lost \cup {[entry |-> entry, why |-> fate]} /\ UNCHANGED handled
    /\ batch' = batch \ {First(batch)} /\ budget' = budget - 1
    /\ UNCHANGED <<setup, waiting, pushed, drain, pqWork>>

(***************************************************************************)
(* process_agent_events: the agents with events are looked up once, their  *)
(* warm-ups validated, and then every queue is popped agent by agent.      *)
(***************************************************************************)
WithEvents == {e.to : e \in Queued} \cap Supervised
StartEvents ==
    /\ drain = "jobs" /\ Over /\ WithEvents \cap setup.badWarmup = {}
    /\ drain' = "agents" /\ budget' = setup.max /\ queue' = 1
    /\ agents' = WithEvents /\ todo' = WithEvents
    /\ UNCHANGED <<setup, waiting, pushed, batch, handled, lost>>
(* ValueError: no event of any agent is popped; the loop stops.             *)
EventsRefused ==
    /\ drain = "jobs" /\ Over /\ WithEvents \cap setup.badWarmup # {}
    /\ drain' = "idle"
    /\ UNCHANGED <<setup, waiting, pushed, batch, budget, handled, lost, pqWork>>
PopEvents ==
    /\ drain = "agents" /\ Popping
    /\ \E agent \in todo : Pop(queue, Events(queue, agent), budget) /\ todo' = todo \ {agent}
    /\ UNCHANGED <<setup, pushed, drain, queue, agents, budget, handled, lost>>
NextQueueNoAgents ==             \* mutated: the names are consumed by the first queue
    /\ drain = "agents" /\ Popping /\ todo = {}
    /\ queue' = queue + 1
    /\ UNCHANGED <<setup, waiting, pushed, drain, todo, agents, batch, budget, handled, lost>>
NextEventQueue ==
    /\ drain = "agents" /\ Popping /\ todo = {}
    /\ queue' = queue + 1 /\ todo' = agents
    /\ UNCHANGED <<setup, waiting, pushed, drain, agents, batch, budget, handled, lost>>
CreateEventJob ==
    /\ drain = "agents" /\ batch # {} /\ First(batch).to \notin setup.raising
    /\ handled' = Append(handled, First(batch)) /\ batch' = batch \ {First(batch)}
    /\ budget' = budget - 1
    /\ UNCHANGED <<setup, waiting, pushed, drain, lost, pqWork>>
(* create_new_job raises: the exception leaves the loop with the batch.     *)
CreateRaises ==
    /\ drain = "agents" /\ batch # {} /\ First(batch).to \in setup.raising
    /\ lost' = lost \cup {[entry |-> e, why |-> "raised"] : e \in batch}
    /\ batch' = {} /\ drain' = "idle"
    /\ UNCHANGED <<setup, waiting, pushed, budget, handled, pqWork>>
EndDrain ==
    /\ drain = "agents" /\ Over /\ drain' = "idle"
    /\ UNCHANGED <<setup, waiting, pushed, batch, budget, handled, lost, pqWork>>

Drain ==
    \/ StartDrain \/ PopBatch \/ NextQueue \/ Deliver \/ StartEvents \/ EventsRefused
    \/ PopEvents \/ NextEventQueue \/ CreateEventJob \/ CreateRaises \/ EndDrain
PqNext == PushEntry \/ Drain
PqSpec == PqInit /\ [][PqNext]_pqVars
(* The jobs loop runs both functions in every iteration.                    *)
PqFairness == WF_pqVars(Drain)

-----------------------------------------------------------------------------
(* Types, and a drain never has more popped than it may still handle.       *)
PqTypeOK ==
    /\ drain \in {"idle", "jobs", "agents"} /\ budget \in 0..setup.max
    /\ queue \in 1..setup.queues + 1
    /\ Cardinality(batch) <= budget
    /\ Accounted \subseteq Entries /\ lost \subseteq [entry: Entries, why: {"gone", "raised"}]

(* Messages reach a job in the order in which they were put on a queue, and *)
(* events the jobs of their agent, also across batches and drains.          *)
DeliveredInOrder ==
    \A i, k \in DOMAIN handled :
        i < k /\ handled[i].to = handled[k].to /\ handled[i].via = handled[k].via
            => handled[i].n < handled[k].n

(* Nothing vanishes and nothing is in two places: what was pushed waits, is  *)
(* being delivered, was delivered, or failed.                               *)
NothingVanishes ==
    /\ {e.n : e \in Accounted} = 1..pushed
    /\ \A e \in Queued : e \notin batch /\ e \notin Handled /\ e \notin Lost
    /\ \A e \in batch : e \notin Handled /\ e \notin Lost
    /\ \A e \in Handled : e \notin Lost

(* A message is lost only when its own job is gone or could not take it, an  *)
(* event only with an event of its own agent.                               *)
LossesHaveTheirReason ==
    \A l \in lost : l.entry.to \in IF l.why = "gone" THEN setup.gone ELSE setup.raising

(* A drain for one prefix leaves the messages of other prefixes alone.      *)
OtherPrefixesAreLeft ==
    \A e \in batch \cup Handled \cup Lost :
        e.to \in Supervised \/ setup.filter \in {AnyPrefix, PrefixOf[e.to]}

(* Whatever is pushed between the steps of a drain, and whichever delivery   *)
(* fails, every entry is delivered once at most and in order, and is gone    *)
(* from its queue only for a reason of its own.                             *)
EntriesAreKept ==
    DeliveredInOrder /\ NothingVanishes /\ LossesHaveTheirReason /\ OtherPrefixesAreLeft

(* When nothing more is pushed, the messages that pass the filter are all   *)
(* taken off their queues, and the events too unless an agent with a bad     *)
(* warm-up may have one: that agent stops the events of all agents.         *)
MessagesWait == \E e \in Queued : Passes(e)
EventsWait == setup.badWarmup = {} /\ WithEvents # {}
QueuesAreDrained == (MessagesWait ~> ~MessagesWait) /\ (EventsWait ~> ~EventsWait)
=============================================================================
