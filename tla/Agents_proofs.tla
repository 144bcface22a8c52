---------------------------- MODULE Agents_proofs ----------------------------
(***************************************************************************)
(* Proofs about what agents are told and asked to run, for every value of   *)
(* the constants: PushQueue and JobDefs.                                    *)
(***************************************************************************)
EXTENDS PushQueue, JobDefs, SequenceLemmas

-----------------------------------------------------------------------------
(***************************************************************************)
(* Whatever the queues, targets, bounds of a batch and failures are, and    *)
(* whoever pushes while a drain runs, every entry is accounted for.         *)
(***************************************************************************)

AnyEntry == [to: PushTargets, via: Queues, n: Nat]
Before(e, f) == e.to = f.to /\ e.via = f.via => e.n < f.n

(* Types: an entry waits in the queue it was pushed to, and its number is   *)
(* its own.                                                                 *)
EntriesTyped ==
    /\ setup \in PushSetups /\ pushed \in Nat
    /\ DOMAIN waiting = Queues /\ waiting = [q \in Queues |-> waiting[q]]
    /\ \A q \in Queues : \A e \in waiting[q] : e.via = q
    /\ handled \in Seq(AnyEntry) /\ Accounted \subseteq AnyEntry
    /\ \A e, f \in Accounted : e.n = f.n => e = f
(* What is delivered, popped and waiting is in the order of the pushes.     *)
EntriesOrdered ==
    /\ DeliveredInOrder
    /\ \A h \in Handled, e \in batch \cup Queued : Before(h, e)
    /\ \A b \in batch, e \in Queued : Before(b, e)
(* A batch is what the running function took, in process_agent_events the   *)
(* events of one agent.                                                     *)
BatchFits ==
    /\ agents \subseteq Supervised /\ todo \subseteq Supervised
    /\ drain = "idle" => batch = {}
    /\ drain = "jobs" => \A e \in batch : Passes(e)
    /\ drain = "agents" => \A e, f \in batch : e.to \in Supervised /\ e.to = f.to

PqInv == EntriesTyped /\ EntriesOrdered /\ BatchFits /\ EntriesAreKept

LEMMA PqInitInv == PqInit => PqInv
<1> SUFFICES ASSUME PqInit PROVE PqInv
  OBVIOUS
<1>1. /\ Queued = {} /\ Handled = {} /\ Lost = {} /\ batch = {} /\ handled = <<>>
      /\ pushed = 0
  BY DEF PqInit, Queued, Handled, Lost
<1>2. Accounted = {}
  BY <1>1 DEF Accounted
<1> QED
  BY <1>1, <1>2
     DEF PqInit, PqInv, EntriesTyped, EntriesOrdered, BatchFits, EntriesAreKept, DeliveredInOrder,
         NothingVanishes, LossesHaveTheirReason, OtherPrefixesAreLeft

(* A set of entries that is not empty has a first one.                      *)
LEMMA FirstIsEarliest ==
    ASSUME NEW S, S # {}, \A e \in S : e.n \in Nat, \A e, f \in S : e.n = f.n => e = f
    PROVE  First(S) \in S /\ \A f \in S : f = First(S) \/ First(S).n < f.n
<1> DEFINE N == {e.n : e \in S}
<1>1. PICK m \in N : \A x \in N : ~(<<x, m>> \in OpToRel(<, Nat))
  <2>1. N \subseteq Nat /\ N # {}
    OBVIOUS
  <2> HIDE DEF N
  <2> QED
    BY <2>1, WFMin, NatLessThanWellFounded
<1>2. \A x, y \in Nat : <<x, y>> \in OpToRel(<, Nat) <=> x < y
  BY DEF OpToRel
<1>3. PICK d \in S : d.n = m
  OBVIOUS
<1>4. ASSUME NEW f \in S, f # d PROVE d.n < f.n
  <2>1. f.n \in Nat /\ d.n \in Nat /\ f.n # d.n
    BY <1>4
  <2>2. ~(f.n < d.n)
    BY <1>1, <1>2, <1>3, <2>1
  <2> QED
    BY <2>1, <2>2
<1>5. Earlier(d, S \ {d})
  BY <1>4 DEF Earlier
<1>6. First(S) \in S /\ Earlier(First(S), S \ {First(S)})
  BY <1>5 DEF First
<1> QED
  BY <1>6 DEF Earlier

-----------------------------------------------------------------------------
(* A push adds the latest entry to one queue.                               *)
LEMMA PushKeeps == PqInv /\ PushEntry => PqInv'
<1> SUFFICES ASSUME PqInv, PushEntry PROVE PqInv'
  OBVIOUS
<1>1. PICK q \in Queues, t \in PushTargets :
        waiting' = [waiting EXCEPT ![q] = @ \cup {[to |-> t, via |-> q, n |-> pushed']}]
  BY DEF PushEntry
<1> DEFINE new == [to |-> t, via |-> q, n |-> pushed + 1]
<1>2. /\ pushed' = pushed + 1 /\ pushed \in Nat
      /\ UNCHANGED <<setup, drain, batch, handled, lost>>
  BY DEF PushEntry, PqInv, EntriesTyped
<1>3. /\ Queues' = Queues /\ AnyEntry' = AnyEntry /\ Handled' = Handled /\ Lost' = Lost
  BY <1>2 DEF Queues, AnyEntry, Handled, Lost
<1>4. /\ DOMAIN waiting' = Queues /\ waiting' = [x \in Queues |-> waiting'[x]]
      /\ waiting'[q] = waiting[q] \cup {new}
      /\ \A x \in Queues : x # q => waiting'[x] = waiting[x]
  BY <1>1, <1>2 DEF PqInv, EntriesTyped
<1>5. Queued' = Queued \cup {new}
  <2>1. ASSUME NEW e PROVE e \in Queued' <=> e \in Queued \cup {new}
    BY <1>3, <1>4 DEF Queued
  <2> QED
    BY <2>1
<1>6. Accounted' = Accounted \cup {new}
  BY <1>2, <1>3, <1>5 DEF Accounted
<1>7. new \in AnyEntry /\ new.n = pushed + 1 /\ new.via = q
  BY <1>2 DEF AnyEntry
<1> HIDE DEF new
<1>8. \A e \in Accounted : e.n \in 1..pushed
  BY DEF PqInv, EntriesAreKept, NothingVanishes
<1>9. EntriesTyped'
  BY <1>2, <1>3, <1>4, <1>6, <1>7, <1>8 DEF PqInv, EntriesTyped
<1>10. \A e \in Accounted : Before(e, new)
  BY <1>2, <1>7, <1>8 DEF Before
<1>11. EntriesOrdered'
  BY <1>2, <1>3, <1>5, <1>10 DEF PqInv, EntriesOrdered, Accounted, DeliveredInOrder, Before
<1>12. BatchFits'
  BY <1>2 DEF PqInv, BatchFits, Passes, PushEntry, pqWork
<1>13. new \notin Accounted
  BY <1>2, <1>7, <1>8
<1>14. {e.n : e \in Accounted'} = 1..pushed'
  <2>1. {e.n : e \in Accounted'} = {e.n : e \in Accounted} \cup {pushed + 1}
    BY <1>6, <1>7
  <2>2. {e.n : e \in Accounted} = 1..pushed
    BY DEF PqInv, EntriesAreKept, NothingVanishes
  <2> QED
    BY <2>1, <2>2, <1>2
<1>15. NothingVanishes'
  BY <1>2, <1>3, <1>5, <1>13, <1>14 DEF PqInv, EntriesAreKept, NothingVanishes, Accounted
<1>16. EntriesAreKept'
  BY <1>2, <1>3, <1>15
     DEF PqInv, EntriesAreKept, DeliveredInOrder, LossesHaveTheirReason, OtherPrefixesAreLeft
<1> QED
  BY <1>9, <1>11, <1>12, <1>16 DEF PqInv

(* What was popped is the earliest of what matches, on its queue.           *)
LEMMA PopKeeps ==
    ASSUME PqInv, batch = {}, NEW q \in Queues, NEW matching, NEW count,
           matching \subseteq waiting[q],
           \A e \in matching, f \in waiting[q] : e.to = f.to => f \in matching,
           Pop(q, matching, count), UNCHANGED <<setup, pushed, drain, handled, lost>>,
           \A e \in matching : e.to \in Supervised \/ Passes(e),
           BatchFits'
    PROVE  PqInv'
<1>1. PICK taken \in SUBSET matching :
        /\ \A e \in taken : Earlier(e, matching \ taken)
        /\ batch' = taken
        /\ waiting' = [waiting EXCEPT ![q] = waiting[q] \ taken]
  BY DEF Pop, Left
<1>2. Queues' = Queues /\ AnyEntry' = AnyEntry /\ Handled' = Handled /\ Lost' = Lost
  BY DEF Queues, AnyEntry, Handled, Lost
<1>3. /\ DOMAIN waiting' = Queues /\ waiting' = [x \in Queues |-> waiting'[x]]
      /\ waiting'[q] = waiting[q] \ taken
      /\ \A x \in Queues : x # q => waiting'[x] = waiting[x]
  BY <1>1 DEF PqInv, EntriesTyped
<1>4. taken \subseteq waiting[q] /\ \A x \in Queues : \A e \in waiting[x] : e.via = x
  BY DEF PqInv, EntriesTyped
<1>5. Queued' = Queued \ taken /\ taken \subseteq Queued
  <2>1. ASSUME NEW e PROVE e \in Queued' <=> e \in Queued \ taken
    BY <1>2, <1>3, <1>4 DEF Queued
  <2> QED
    BY <2>1, <1>4 DEF Queued
<1>6. Accounted' = Accounted
  BY <1>1, <1>2, <1>5 DEF Accounted
<1>7. EntriesTyped'
  BY <1>2, <1>3, <1>6 DEF PqInv, EntriesTyped
<1>8. ASSUME NEW b \in taken, NEW e \in Queued' PROVE Before(b, e)
  <2> SUFFICES ASSUME b.to = e.to, b.via = e.via PROVE b.n < e.n
    BY DEF Before
  <2>1. e \in Queued /\ e \notin taken /\ b.via = q
    BY <1>4, <1>5
  <2>2. e \in waiting[q]
    <3>1. PICK x \in Queues : e \in waiting[x]
      BY <2>1 DEF Queued
    <3> QED
      BY <3>1, <2>1, <1>4
  <2>3. e \in matching \ taken
    BY <2>1, <2>2
  <2> QED
    BY <2>3, <1>1 DEF Earlier
<1>9. EntriesOrdered'
  BY <1>1, <1>2, <1>5, <1>8 DEF PqInv, EntriesOrdered, DeliveredInOrder
<1>10. NothingVanishes'
  BY <1>1, <1>2, <1>5, <1>6 DEF PqInv, EntriesAreKept, NothingVanishes
<1>11. OtherPrefixesAreLeft'
  BY <1>1, <1>2 DEF PqInv, EntriesAreKept, OtherPrefixesAreLeft, Passes
<1>12. EntriesAreKept'
  BY <1>10, <1>11
     DEF PqInv, EntriesAreKept, DeliveredInOrder, LossesHaveTheirReason
<1> QED
  BY <1>7, <1>9, <1>12 DEF PqInv

(* The first entry of a batch is delivered.                                 *)
LEMMA DeliverKeeps ==
    ASSUME PqInv, batch # {}, handled' = Append(handled, First(batch)),
           batch' = batch \ {First(batch)},
           UNCHANGED <<setup, pushed, waiting, lost>>, BatchFits',
           First(batch).to \in Supervised \/ Passes(First(batch))
    PROVE  PqInv'
<1> DEFINE e == First(batch)
<1>1. /\ Queues' = Queues /\ AnyEntry' = AnyEntry /\ Queued' = Queued /\ Lost' = Lost
  BY DEF Queues, AnyEntry, Queued, Lost
<1>2. /\ batch \subseteq Accounted /\ Accounted \subseteq AnyEntry
      /\ \A x \in AnyEntry : x.n \in Nat
  BY DEF PqInv, EntriesTyped, Accounted, AnyEntry
<1>3. e \in batch /\ \A f \in batch : f = e \/ e.n < f.n
  BY <1>2, FirstIsEarliest DEF PqInv, EntriesTyped
<1> HIDE DEF e
<1>4. e \in AnyEntry /\ handled \in Seq(AnyEntry) /\ handled' = Append(handled, e)
      /\ batch' = batch \ {e}
  BY <1>2, <1>3 DEF PqInv, EntriesTyped, e
<1>5. /\ handled' \in Seq(AnyEntry) /\ DOMAIN handled' = 1..Len(handled) + 1
      /\ Len(handled) \in Nat /\ DOMAIN handled = 1..Len(handled)
      /\ handled'[Len(handled) + 1] = e /\ \A i \in DOMAIN handled : handled'[i] = handled[i]
  BY <1>4
<1>6. Handled' = Handled \cup {e}
  BY <1>5 DEF Handled
<1>7. Accounted' = Accounted
  BY <1>1, <1>3, <1>4, <1>6 DEF Accounted
<1>8. EntriesTyped'
  BY <1>1, <1>5, <1>7 DEF PqInv, EntriesTyped
<1>9. \A h \in Handled : Before(h, e)
  BY <1>3 DEF PqInv, EntriesOrdered
<1>10. DeliveredInOrder'
  <2> SUFFICES ASSUME NEW i \in DOMAIN handled', NEW k \in DOMAIN handled', i < k
               PROVE  Before(handled'[i], handled'[k])
    BY DEF DeliveredInOrder, Before
  <2>1. CASE k \in DOMAIN handled
    <3>1. i \in DOMAIN handled
      BY <2>1, <1>5
    <3> QED
      BY <2>1, <3>1, <1>5 DEF PqInv, EntriesOrdered, DeliveredInOrder, Before
  <2>2. CASE k = Len(handled) + 1
    <3>1. i \in DOMAIN handled
      BY <2>2, <1>5
    <3>2. handled[i] \in Handled
      BY <3>1 DEF Handled
    <3> QED
      BY <2>2, <3>1, <3>2, <1>5, <1>9
  <2> QED
    BY <2>1, <2>2, <1>5
<1>11. EntriesOrdered'
  <2>1. \A b \in batch', w \in Queued' : Before(b, w)
    BY <1>1, <1>4 DEF PqInv, EntriesOrdered
  <2>2. \A x \in batch' \cup Queued' : Before(e, x)
    BY <1>1, <1>3, <1>4 DEF PqInv, EntriesOrdered, Before
  <2>3. \A h \in Handled', x \in batch' \cup Queued' : Before(h, x)
    BY <2>2, <1>1, <1>4, <1>6 DEF PqInv, EntriesOrdered
  <2> QED
    BY <2>1, <2>3, <1>10 DEF EntriesOrdered, Before
<1>12. NothingVanishes'
  BY <1>1, <1>3, <1>4, <1>6, <1>7 DEF PqInv, EntriesAreKept, NothingVanishes
<1>13. OtherPrefixesAreLeft'
  BY <1>1, <1>3, <1>4, <1>6 DEF PqInv, EntriesAreKept, OtherPrefixesAreLeft
<1> QED
  BY <1>8, <1>10, <1>11, <1>12, <1>13 DEF PqInv, EntriesAreKept, LossesHaveTheirReason

(* Entries of a batch are lost.                                             *)
LEMMA LoseKeeps ==
    ASSUME PqInv, NEW S \in SUBSET batch, NEW why, batch' = batch \ S,
           lost' = lost \cup {[entry |-> e, why |-> why] : e \in S},
           UNCHANGED <<setup, pushed, waiting, handled>>, BatchFits',
           \/ why = "gone" /\ \A e \in S : e.to \in setup.gone
           \/ why = "raised" /\ \A e \in S : e.to \in setup.raising
    PROVE  PqInv'
<1>1. /\ Queues' = Queues /\ AnyEntry' = AnyEntry /\ Queued' = Queued /\ Handled' = Handled
  BY DEF Queues, AnyEntry, Queued, Handled
<1>2. Lost' = Lost \cup S
  <2>1. ASSUME NEW e PROVE e \in Lost' <=> e \in Lost \cup S
    <3> DEFINE new == {[entry |-> x, why |-> why] : x \in S}
    <3>1. lost' = lost \cup new
      OBVIOUS
    <3>2. \A l \in new : l.entry \in S
      OBVIOUS
    <3>3. e \in S => \E l \in new : l.entry = e
      <4>1. ASSUME e \in S PROVE [entry |-> e, why |-> why] \in new
        BY <4>1
      <4> QED
        BY <4>1
    <3> HIDE DEF new
    <3>4. e \in Lost' <=> \E l \in lost \cup new : l.entry = e
      BY <3>1 DEF Lost
    <3>5. e \in Lost <=> \E l \in lost : l.entry = e
      BY DEF Lost
    <3> QED
      BY <3>2, <3>3, <3>4, <3>5
  <2> QED
    BY <2>1
<1>3. Accounted' = Accounted
  BY <1>1, <1>2 DEF Accounted
<1>4. EntriesTyped'
  BY <1>1, <1>3 DEF PqInv, EntriesTyped
<1>5. EntriesOrdered'
  BY <1>1 DEF PqInv, EntriesOrdered, DeliveredInOrder
<1>6. NothingVanishes'
  BY <1>1, <1>2, <1>3 DEF PqInv, EntriesAreKept, NothingVanishes
<1>7. LossesHaveTheirReason'
  BY DEF PqInv, EntriesAreKept, LossesHaveTheirReason
<1>8. OtherPrefixesAreLeft'
  BY <1>1, <1>2 DEF PqInv, EntriesAreKept, OtherPrefixesAreLeft
<1> QED
  BY <1>4, <1>5, <1>6, <1>7, <1>8 DEF PqInv, EntriesAreKept, DeliveredInOrder

-----------------------------------------------------------------------------
(* Steps that move no entry.                                                *)
LEMMA OthersKeep ==
    ASSUME PqInv, UNCHANGED <<setup, waiting, pushed, batch, handled, lost>>, BatchFits'
    PROVE  PqInv'
<1>1. /\ Queues' = Queues /\ AnyEntry' = AnyEntry /\ Queued' = Queued /\ Handled' = Handled
      /\ Lost' = Lost /\ Accounted' = Accounted
  BY DEF Queues, AnyEntry, Queued, Handled, Lost, Accounted
<1>2. EntriesTyped' /\ EntriesOrdered'
  BY <1>1 DEF PqInv, EntriesTyped, EntriesOrdered, DeliveredInOrder
<1>3. EntriesAreKept'
  BY <1>1
     DEF PqInv, EntriesAreKept, DeliveredInOrder, NothingVanishes, LossesHaveTheirReason,
         OtherPrefixesAreLeft
<1> QED
  BY <1>2, <1>3 DEF PqInv

LEMMA PqNextInv == PqInv /\ [PqNext]_pqVars => PqInv'
<1> SUFFICES ASSUME PqInv, [PqNext]_pqVars PROVE PqInv'
  OBVIOUS
<1>1. CASE StartDrain \/ NextQueue \/ StartEvents \/ EventsRefused \/ NextEventQueue \/ EndDrain
           \/ UNCHANGED pqVars
  <2>1. UNCHANGED <<setup, waiting, pushed, batch, handled, lost>>
    BY <1>1
       DEF StartDrain, NextQueue, StartEvents, EventsRefused, NextEventQueue, EndDrain, pqVars
  <2>2. drain' = drain \/ batch = {}
    BY <1>1
       DEF StartDrain, NextQueue, StartEvents, EventsRefused, NextEventQueue, EndDrain, pqVars,
           Over, PqInv, BatchFits
  <2>3. BatchFits'
    <3>1. agents' \subseteq Supervised /\ todo' \subseteq Supervised
      BY <1>1
         DEF PqInv, BatchFits, StartDrain, NextQueue, StartEvents, EventsRefused, NextEventQueue,
             EndDrain, pqVars, pqWork, WithEvents
    <3> QED
      BY <3>1, <2>1, <2>2 DEF PqInv, BatchFits, Passes
  <2> QED
    BY <2>1, <2>3, OthersKeep
<1>2. CASE PopBatch
  <2>1. /\ batch = {} /\ queue \in Queues /\ drain = "jobs"
        /\ UNCHANGED <<setup, pushed, drain, handled, lost>>
    BY <1>2 DEF PopBatch, Popping
  <2>2. PICK count : Pop(queue, Messages(queue), count)
    BY <1>2 DEF PopBatch
  <2>3. /\ Messages(queue) \subseteq waiting[queue] /\ \A e \in Messages(queue) : Passes(e)
        /\ \A e \in Messages(queue), f \in waiting[queue] : e.to = f.to => f \in Messages(queue)
    BY DEF Messages, Passes
  <2>4. BatchFits'
    <3>1. agents' = agents /\ todo' = todo
      BY <1>2 DEF PopBatch, pqWork
    <3> QED
      BY <3>1, <2>1, <2>2, <2>3 DEF PqInv, BatchFits, Pop, Passes
  <2> QED
    BY <2>1, <2>2, <2>3, <2>4, PopKeeps
<1>3. CASE PopEvents
  <2>1. /\ batch = {} /\ queue \in Queues /\ drain = "agents"
        /\ UNCHANGED <<setup, pushed, drain, handled, lost>>
    BY <1>3 DEF PopEvents, Popping
  <2>2. PICK served \in todo :
          Pop(queue, Events(queue, served), budget) /\ todo' = todo \ {served} /\ agents' = agents
    BY <1>3 DEF PopEvents
  <2>3. served \in Supervised
    BY DEF PqInv, BatchFits
  <2>4. /\ Events(queue, served) \subseteq waiting[queue]
        /\ \A e \in Events(queue, served) : e.to = served /\ e.to \in Supervised
        /\ \A e \in Events(queue, served), f \in waiting[queue] :
              e.to = f.to => f \in Events(queue, served)
    BY <2>3 DEF Events
  <2>5. BatchFits'
    BY <2>1, <2>2, <2>4 DEF PqInv, BatchFits, Pop
  <2> QED
    BY <2>1, <2>2, <2>4, <2>5, PopKeeps
<1>4. ASSUME batch # {} PROVE First(batch) \in batch
  BY <1>4, FirstIsEarliest DEF PqInv, EntriesTyped, Accounted, AnyEntry
<1>5. CASE Deliver
  <2>1. /\ batch # {} /\ drain = "jobs" /\ UNCHANGED <<setup, pushed, waiting, drain, pqWork>>
        /\ batch' = batch \ {First(batch)}
    BY <1>5 DEF Deliver
  <2>2. BatchFits'
    BY <2>1 DEF PqInv, BatchFits, Passes, pqWork
  <2>3. Passes(First(batch))
    BY <2>1, <1>4 DEF PqInv, BatchFits
  <2>4. CASE Fate(First(batch)) = "delivered"
    <3>1. handled' = Append(handled, First(batch)) /\ lost' = lost
      BY <1>5, <2>4 DEF Deliver
    <3> QED
      BY <2>1, <2>2, <2>3, <3>1, DeliverKeeps
  <2>5. CASE Fate(First(batch)) # "delivered"
    <3> DEFINE S == {First(batch)}
               why == Fate(First(batch))
    <3>1. S \in SUBSET batch
      BY <2>1, <1>4
    <3>2. lost' = lost \cup {[entry |-> e, why |-> why] : e \in S} /\ handled' = handled
      BY <1>5, <2>5 DEF Deliver
    <3>3. \/ why = "gone" /\ \A e \in S : e.to \in setup.gone
          \/ why = "raised" /\ \A e \in S : e.to \in setup.raising
      BY <2>5 DEF Fate
    <3> QED
      BY <2>1, <2>2, <3>1, <3>2, <3>3, LoseKeeps
  <2> QED
    BY <2>4, <2>5
<1>6. CASE CreateEventJob
  <2>1. /\ batch # {} /\ drain = "agents"
        /\ handled' = Append(handled, First(batch)) /\ batch' = batch \ {First(batch)}
        /\ UNCHANGED <<setup, pushed, waiting, drain, lost, pqWork>>
    BY <1>6 DEF CreateEventJob
  <2>2. BatchFits'
    BY <2>1 DEF PqInv, BatchFits, pqWork
  <2>3. First(batch).to \in Supervised
    BY <2>1, <1>4 DEF PqInv, BatchFits
  <2> QED
    BY <2>1, <2>2, <2>3, DeliverKeeps
<1>7. CASE CreateRaises
  <2>1. /\ batch' = batch \ batch /\ BatchFits'
        /\ lost' = lost \cup {[entry |-> e, why |-> "raised"] : e \in batch}
        /\ UNCHANGED <<setup, pushed, waiting, handled>>
    BY <1>7 DEF CreateRaises, PqInv, BatchFits, pqWork
  <2>2. \A e \in batch : e.to \in setup.raising
    BY <1>4, <1>7 DEF CreateRaises, PqInv, BatchFits
  <2> QED
    BY <2>1, <2>2, LoseKeeps
<1> QED
  BY <1>1, <1>2, <1>3, <1>5, <1>6, <1>7, PushKeeps DEF PqNext, Drain

(* process_push_notifications, process_agent_events: whatever is pushed     *)
(* between their steps and whichever delivery fails, entries are delivered  *)
(* once and in order, and lost only for a reason of their own.              *)
THEOREM EntriesAreKeptAlways == PqSpec => []EntriesAreKept
<1>1. PqInv => EntriesAreKept
  BY DEF PqInv
<1> QED
  BY <1>1, PqInitInv, PqNextInv, PTL DEF PqSpec

-----------------------------------------------------------------------------
(***************************************************************************)
(* Whatever the hash of an identity is, and however often the prompts, the  *)
(* warm-up and the definitions of an agent change, a job runs as asked.     *)
(***************************************************************************)

Cell == [model: Models, style: {"none", "dialog"}, post: Seq(Nat), extra: BOOLEAN]
DefFields == {"meta", "extra", "warm", "rest", "style", "post", "tags"}
JobFields == {"def", "asked", "fired", "actions", "done"}
IsSequence(s) == \E S : s \in Seq(S)

(* What a job reads of its definition.                                      *)
Sense(d, cs) == Frozen(cs[d.meta].model, d)

(* The inductive invariant: types, and every job has a definition with the  *)
(* sense that was asked for.                                                *)
JobOK(job, ds, cs) ==
    /\ DOMAIN job = JobFields /\ job.def \in DOMAIN ds
    /\ job.asked = Sense(ds[job.def], cs)
JdInv ==
    /\ system \in DefSetups
    /\ cells \in Seq(Cell) /\ agent.meta \in DOMAIN cells
    /\ DOMAIN agent = {"meta", "warm"} /\ agent = [f \in {"meta", "warm"} |-> agent[f]]
    /\ IsSequence(defs) /\ IsSequence(work)
    /\ \A d \in DOMAIN defs : DOMAIN defs[d] = DefFields /\ defs[d].meta \in DOMAIN cells
    /\ \A j \in DOMAIN work : JobOK(work[j], defs, cells)

LEMMA JdInitInv == JdInit => JdInv
<1> SUFFICES ASSUME JdInit PROVE JdInv
  OBVIOUS
<1>1. PICK m \in system.models, x \in system.extras :
        cells = <<[model |-> m, style |-> "none", post |-> NoPost, extra |-> x]>>
  BY DEF JdInit
<1>2. m \in Models /\ x \in BOOLEAN
  BY DefinitionAssumption DEF JdInit
<1>3. cells \in Seq(Cell) /\ 1 \in DOMAIN cells
  BY <1>1, <1>2 DEF Cell, NoPost
<1>4. defs \in Seq({}) /\ work \in Seq({}) /\ DOMAIN defs = {} /\ DOMAIN work = {}
  BY DEF JdInit
<1> QED
  BY <1>3, <1>4 DEF JdInit, JdInv, IsSequence

-----------------------------------------------------------------------------
(* What is appended to a sequence, or changed in it.                        *)
LEMMA Appended ==
    ASSUME NEW s, IsSequence(s), NEW e
    PROVE  /\ IsSequence(Append(s, e)) /\ DOMAIN Append(s, e) = DOMAIN s \cup {Len(s) + 1}
           /\ DOMAIN s = 1..Len(s) /\ Len(s) \in Nat
           /\ Append(s, e)[Len(s) + 1] = e
           /\ \A i \in DOMAIN s : Append(s, e)[i] = s[i]
<1>1. PICK S : s \in Seq(S)
  BY DEF IsSequence
<1>2. Append(s, e) \in Seq(S \cup {e})
  BY <1>1
<1>3. IsSequence(Append(s, e))
  BY <1>2 DEF IsSequence
<1> QED
  BY <1>1, <1>3

LEMMA Mapped ==
    ASSUME NEW s, IsSequence(s), NEW t, DOMAIN t = DOMAIN s, t = [i \in DOMAIN s |-> t[i]]
    PROVE  IsSequence(t)
<1>1. PICK S : s \in Seq(S)
  BY DEF IsSequence
<1>2. t \in Seq({t[i] : i \in DOMAIN s})
  BY <1>1
<1> QED
  BY <1>2 DEF IsSequence

(* A set of positions that is not empty has a first one.                    *)
LEMMA FirstIsFirst ==
    ASSUME NEW S \in SUBSET Nat, S # {}
    PROVE  FirstOf(S) \in S /\ \A x \in S : FirstOf(S) <= x
<1>1. PICK d \in S : \A x \in S : d <= x
  BY LeastNumber
<1> QED
  BY <1>1 DEF FirstOf

-----------------------------------------------------------------------------
(* Every step keeps the cells as to their parsed models, and what the jobs  *)
(* read of the definitions.                                                 *)
KeepsSense ==
    /\ \A i \in DOMAIN cells :
          i \in DOMAIN cells' /\ Parsed(cells'[i].model) = Parsed(cells[i].model)
    /\ \A d \in DOMAIN defs :
          /\ d \in DOMAIN defs' /\ defs'[d].meta = defs[d].meta
          /\ defs'[d].warm = defs[d].warm /\ defs'[d].rest = defs[d].rest
          /\ defs'[d].extra = defs[d].extra

LEMMA SenseIsKept ==
    ASSUME JdInv, KeepsSense, NEW d \in DOMAIN defs
    PROVE  Sense(defs'[d], cells') = Sense(defs[d], cells)
<1>1. defs[d].meta \in DOMAIN cells /\ defs'[d].meta = defs[d].meta
  BY DEF JdInv, KeepsSense
<1>2. Parsed(cells'[defs'[d].meta].model) = Parsed(cells[defs[d].meta].model)
  BY <1>1 DEF KeepsSense
<1> QED
  BY <1>2 DEF Sense, Frozen, KeepsSense

LEMMA OldJobsAreKept ==
    ASSUME JdInv, KeepsSense, NEW j \in DOMAIN work, NEW job,
           DOMAIN job = JobFields, job.def = work[j].def, job.asked = work[j].asked
    PROVE  JobOK(job, defs', cells')
<1>1. work[j].def \in DOMAIN defs /\ work[j].asked = Sense(defs[work[j].def], cells)
  BY DEF JdInv, JobOK
<1>2. Sense(defs'[job.def], cells') = Sense(defs[job.def], cells)
  BY <1>1, SenseIsKept
<1>3. job.def \in DOMAIN defs'
  BY <1>1 DEF KeepsSense
<1> QED
  BY <1>1, <1>2, <1>3 DEF JobOK, Sense

(* set_chat_style and set_post_processing leave the rest of a definition.   *)
LEMMA ConfiguredKeeps ==
    ASSUME NEW d, DOMAIN d = DefFields, NEW style, NEW post, NEW procs
    PROVE  LET c == Configured(d, style, post, procs) IN
           /\ DOMAIN c = DefFields /\ c.meta = d.meta /\ c.warm = d.warm
           /\ c.rest = d.rest /\ c.extra = d.extra
<1> DEFINE styled == [d EXCEPT !.style = style]
           changed == IF States(d.post, procs) = States(post, procs) THEN styled
                      ELSE [styled EXCEPT !.post = post]
           tag(x) == TagOf(x, cells, procs)
           tags == Retag(d, tag(d), tag(styled))
           new == Retag([styled EXCEPT !.tags = tags], tag(styled), tag(changed))
<1>1. DOMAIN styled = DefFields /\ styled.meta = d.meta /\ styled.warm = d.warm
      /\ styled.rest = d.rest /\ styled.extra = d.extra
  BY DEF DefFields
<1>2. DOMAIN changed = DefFields /\ changed.meta = d.meta /\ changed.warm = d.warm
      /\ changed.rest = d.rest /\ changed.extra = d.extra
  BY <1>1 DEF DefFields
<1>3. Configured(d, style, post, procs) = [changed EXCEPT !.tags = new]
  BY DEF Configured
<1> HIDE DEF changed, new
<1> QED
  BY <1>2, <1>3 DEF DefFields

LEMMA UpdateKeeps == JdInv /\ UpdatePrompts => JdInv'
<1> SUFFICES ASSUME JdInv, UpdatePrompts PROVE JdInv'
  OBVIOUS
<1>1. PICK m \in system.models, style \in {"none", "dialog"}, post \in system.posts,
           extra \in system.extras :
        LET meta == [model |-> m, style |-> style, post |-> post, extra |-> extra]
            resolved == Resolve(post, processors)
        IN  /\ IF cells[agent.meta] = meta THEN UNCHANGED <<cells, agent>>
               ELSE /\ cells' = NewCells(meta)
                    /\ agent' = [agent EXCEPT !.meta = CellOf(meta)]
            /\ defs' = [d \in DOMAIN defs |->
                          Configured(defs[d], style, resolved.ids, resolved.procs)]
  BY DEF UpdatePrompts
<1> DEFINE meta == [model |-> m, style |-> style, post |-> post, extra |-> extra]
           resolved == Resolve(post, processors)
<1>2. meta \in Cell
  BY DefinitionAssumption DEF JdInv, Cell
<1>3. /\ cells' \in Seq(Cell) /\ agent'.meta \in DOMAIN cells'
      /\ DOMAIN agent' = {"meta", "warm"} /\ agent' = [f \in {"meta", "warm"} |-> agent'[f]]
      /\ \A i \in DOMAIN cells : i \in DOMAIN cells' /\ cells'[i] = cells[i]
  <2>1. CASE cells[agent.meta] = meta
    BY <2>1, <1>1 DEF JdInv
  <2>2. CASE cells[agent.meta] # meta
    <3>1. cells' = Append(cells, meta) /\ agent' = [agent EXCEPT !.meta = CellOf(meta)]
      BY <2>2, <1>1 DEF NewCells
    <3>2. CellOf(meta) = Len(cells) + 1
      BY <1>2 DEF CellOf, NewCells, JdInv
    <3> HIDE DEF meta
    <3>3. /\ cells' \in Seq(Cell) /\ DOMAIN cells' = 1..Len(cells) + 1
          /\ \A i \in DOMAIN cells : cells'[i] = cells[i]
      BY <3>1, <1>2 DEF JdInv
    <3>4. /\ agent'.meta = Len(cells) + 1 /\ DOMAIN agent' = {"meta", "warm"}
          /\ agent' = [f \in {"meta", "warm"} |-> agent'[f]]
      BY <3>1, <3>2 DEF JdInv
    <3>5. DOMAIN cells = 1..Len(cells) /\ Len(cells) \in Nat
      BY DEF JdInv
    <3> QED
      BY <3>3, <3>4, <3>5
  <2> QED
    BY <2>1, <2>2
<1>4. defs' = [d \in DOMAIN defs |-> Configured(defs[d], style, resolved.ids, resolved.procs)]
  BY <1>1
<1> HIDE DEF meta, resolved
<1>5. ASSUME NEW d \in DOMAIN defs
      PROVE  /\ DOMAIN defs'[d] = DefFields /\ defs'[d].meta = defs[d].meta
             /\ defs'[d].warm = defs[d].warm /\ defs'[d].rest = defs[d].rest
             /\ defs'[d].extra = defs[d].extra
  <2>1. defs'[d] = Configured(defs[d], style, resolved.ids, resolved.procs)
    BY <1>4
  <2>2. DOMAIN defs[d] = DefFields
    BY DEF JdInv
  <2> QED
    BY <2>1, <2>2, ConfiguredKeeps
<1>6. DOMAIN defs' = DOMAIN defs /\ IsSequence(defs')
  BY <1>4, Mapped DEF JdInv
<1>7. KeepsSense
  BY <1>3, <1>5, <1>6 DEF KeepsSense
<1>8. work' = work /\ system' = system
  BY DEF UpdatePrompts
<1>9. \A j \in DOMAIN work' : JobOK(work'[j], defs', cells')
  BY <1>7, <1>8, OldJobsAreKept DEF JdInv, JobOK
<1>10. \A d \in DOMAIN defs' : DOMAIN defs'[d] = DefFields /\ defs'[d].meta \in DOMAIN cells'
  BY <1>3, <1>5, <1>6 DEF JdInv
<1> QED
  BY <1>3, <1>6, <1>8, <1>9, <1>10 DEF JdInv

-----------------------------------------------------------------------------
(* A definition that is found has the sense of the call; one that is made,  *)
(* too.                                                                     *)
LEMMA FoundMatches ==
    ASSUME JdInv, NEW call, NEW procs, Found(call, procs) > 0
    PROVE  /\ Found(call, procs) \in DOMAIN defs
           /\ Matches(Found(call, procs), call, procs)
<1> DEFINE all == {d \in DOMAIN defs : Matches(d, call, procs)}
           tagged == {d \in all : HashOf(call) \in defs[d].tags}
<1>1. all \in SUBSET Nat /\ tagged \in SUBSET Nat /\ tagged \subseteq all
  BY DEF JdInv, IsSequence
<1>2. Found(call, procs) =
        IF tagged # {} THEN FirstOf(tagged) ELSE IF all # {} THEN FirstOf(all) ELSE 0
  BY DEF Found
<1>3. Found(call, procs) \in all
  <2>1. CASE tagged # {}
    <3>1. FirstOf(tagged) \in tagged
      BY <2>1, <1>1, FirstIsFirst
    <3> QED
      BY <3>1, <2>1, <1>1, <1>2
  <2>2. CASE tagged = {} /\ all # {}
    <3>1. FirstOf(all) \in all
      BY <2>2, <1>1, FirstIsFirst
    <3> QED
      BY <3>1, <2>2, <1>2
  <2>3. CASE tagged = {} /\ all = {}
    BY <2>3, <1>2
  <2> QED
    BY <2>1, <2>2, <2>3
<1> QED
  BY <1>3

LEMMA FoundIsNatural ==
    ASSUME JdInv, NEW call, NEW procs, Found(call, procs) # 0
    PROVE  Found(call, procs) > 0
<1> DEFINE all == {d \in DOMAIN defs : Matches(d, call, procs)}
           tagged == {d \in all : HashOf(call) \in defs[d].tags}
<1>1. all \in SUBSET Nat /\ tagged \in SUBSET all /\ 0 \notin all
  BY DEF JdInv, IsSequence
<1>2. \A S \in SUBSET all : S # {} => FirstOf(S) \in all
  BY <1>1, FirstIsFirst
<1>3. Found(call, procs) \in all
  BY <1>1, <1>2 DEF Found
<1> QED
  BY <1>1, <1>3

LEMMA MatchingSense ==
    ASSUME NEW d, NEW procs, NEW warm, NEW style, NEW rest, NEW post,
           Matches(d, Call(warm, style, rest, post), procs)
    PROVE  Sense(defs[d], cells) = Frozen(cells[agent.meta].model, Call(warm, style, rest, post))
<1> DEFINE call == Call(warm, style, rest, post)
<1>1. /\ ModelName(defs[d], cells) = cells[agent.meta].model
      /\ defs[d].warm = call.warm /\ defs[d].rest = call.rest /\ defs[d].extra = call.extra
  BY DEF Matches, IdentityOf, Call
<1>2. Parsed(cells[defs[d].meta].model) = Parsed(cells[agent.meta].model)
  BY <1>1 DEF ModelName, Parsed
<1> QED
  BY <1>1, <1>2 DEF Sense, Frozen

LEMMA NewDefFacts ==
    ASSUME JdInv, NEW warm, NEW style, NEW rest, NEW p, NEW post, NEW procs
    PROVE  LET call == Call(warm, style, rest, p)
               new == NewDef(call, post, procs)
           IN  /\ new.cells \in Seq(Cell)
               /\ \A i \in DOMAIN cells :
                     i \in DOMAIN new.cells /\ Parsed(new.cells[i].model) = Parsed(cells[i].model)
               /\ DOMAIN new.def = DefFields /\ new.def.meta \in DOMAIN new.cells
               /\ Sense(new.def, new.cells) = Frozen(cells[agent.meta].model, call)
<1> DEFINE call == Call(warm, style, rest, p)
           own == cells[agent.meta]
           parsed == [own EXCEPT !.model = Parsed(@)]
           cs == IF own.extra THEN Append(cells, parsed) ELSE [cells EXCEPT ![agent.meta] = parsed]
           at == IF own.extra THEN Len(cs) ELSE agent.meta
           d == [meta |-> at, extra |-> call.extra, warm |-> call.warm, rest |-> call.rest,
                 style |-> call.style, post |-> post, tags |-> {}]
           def == [d EXCEPT !.tags = {TagOf(d, cs, procs)}]
<1>1. NewDef(call, post, procs) = [def |-> def, cells |-> cs]
  BY DEF NewDef
<1>2. own \in Cell /\ parsed \in Cell /\ parsed.model = Parsed(own.model)
  <2>1. own \in Cell
    BY DEF JdInv
  <2>2. Parsed(own.model) \in Models /\ DOMAIN own = {"model", "style", "post", "extra"}
    BY <2>1 DEF Cell, Parsed, Models
  <2> HIDE DEF own
  <2>3. parsed \in Cell /\ parsed.model = Parsed(own.model)
    BY <2>1, <2>2 DEF Cell
  <2> QED
    BY <2>1, <2>3
<1>3. Parsed(parsed.model) = Parsed(own.model)
  BY <1>2 DEF Parsed
<1> HIDE DEF own, parsed
<1>4. /\ cs \in Seq(Cell) /\ at \in DOMAIN cs /\ cs[at] = parsed
      /\ \A i \in DOMAIN cells : i \in DOMAIN cs /\ (cs[i] = cells[i] \/ (i = agent.meta /\ cs[i] = parsed))
  <2>1. CASE own.extra
    <3>1. cs = Append(cells, parsed) /\ at = Len(cs)
      BY <2>1
    <3> QED
      BY <3>1, <1>2 DEF JdInv
  <2>2. CASE ~own.extra
    <3>1. cs = [cells EXCEPT ![agent.meta] = parsed] /\ at = agent.meta
      BY <2>2
    <3> QED
      BY <3>1, <1>2 DEF JdInv
  <2> QED
    BY <2>1, <2>2
<1> HIDE DEF cs, at
<1>5. \A i \in DOMAIN cells : i \in DOMAIN cs /\ Parsed(cs[i].model) = Parsed(cells[i].model)
  BY <1>4, <1>3 DEF own
<1>6. /\ DOMAIN def = DefFields /\ def.meta = at /\ def.extra = call.extra
      /\ def.warm = call.warm /\ def.rest = call.rest
  BY DEF DefFields
<1> HIDE DEF def
<1>7. Sense(def, cs) = Frozen(cells[agent.meta].model, call)
  BY <1>3, <1>4, <1>6 DEF Sense, Frozen, own
<1> QED
  BY <1>1, <1>4, <1>5, <1>6, <1>7

LEMMA FindOrCreateKeeps ==
    ASSUME JdInv, NEW warm, NEW style, NEW rest, NEW p, NEW post, NEW procs,
           FindOrCreate(Call(warm, style, rest, p), post, procs)
    PROVE  JdInv'
<1> DEFINE call == Call(warm, style, rest, p)
           found == Found(call, procs)
           new == NewDef(call, post, procs)
           at == IF found > 0 THEN found ELSE Len(defs) + 1
           job == [def |-> at, asked |-> Frozen(call.model, call), fired |-> <<>>,
                   actions |-> 0, done |-> FALSE]
<1>1. /\ defs' = IF found = 0 THEN Append(defs, new.def)
                 ELSE [defs EXCEPT ![found].tags = @ \cup {TagOf(defs[found], cells, procs)}]
      /\ cells' = IF found = 0 THEN new.cells ELSE cells
      /\ work' = Append(work, job) \/ work' = work
      /\ UNCHANGED <<system, agent>>
  BY DEF FindOrCreate
<1>2. call.model = cells[agent.meta].model
  BY DEF Call
<1>3. /\ cells' \in Seq(Cell) /\ IsSequence(defs') /\ KeepsSense
      /\ \A d \in DOMAIN defs' : DOMAIN defs'[d] = DefFields /\ defs'[d].meta \in DOMAIN cells'
      /\ at \in DOMAIN defs' /\ Sense(defs'[at], cells') = Frozen(call.model, call)
  <2>1. CASE found = 0
    <3>1. /\ new.cells \in Seq(Cell)
          /\ \A i \in DOMAIN cells :
                i \in DOMAIN new.cells /\ Parsed(new.cells[i].model) = Parsed(cells[i].model)
          /\ DOMAIN new.def = DefFields /\ new.def.meta \in DOMAIN new.cells
          /\ Sense(new.def, new.cells) = Frozen(call.model, call)
      BY <1>2, NewDefFacts
    <3> HIDE DEF new, call
    <3>2. defs' = Append(defs, new.def) /\ cells' = new.cells /\ at = Len(defs) + 1
      BY <1>1, <2>1
    <3>3. /\ IsSequence(defs') /\ DOMAIN defs' = DOMAIN defs \cup {at}
          /\ defs'[at] = new.def /\ \A d \in DOMAIN defs : defs'[d] = defs[d]
      BY <3>2, Appended DEF JdInv
    <3> HIDE DEF at
    <3>4. KeepsSense
      BY <3>1, <3>2, <3>3 DEF KeepsSense
    <3>5. ASSUME NEW d \in DOMAIN defs'
          PROVE  DOMAIN defs'[d] = DefFields /\ defs'[d].meta \in DOMAIN cells'
      BY <3>1, <3>2, <3>3 DEF JdInv
    <3> QED
      BY <3>1, <3>2, <3>3, <3>4, <3>5
  <2>2. CASE found # 0
    <3>1. found > 0 /\ found \in DOMAIN defs /\ Matches(found, call, procs)
      <4>1. DOMAIN defs \subseteq Nat \ {0}
        BY DEF JdInv, IsSequence
      <4>2. found > 0
        BY <2>2, <4>1, FoundIsNatural
      <4> QED
        BY <4>2, FoundMatches
    <3>2. Sense(defs[found], cells) = Frozen(call.model, call)
      BY <3>1, <1>2, MatchingSense
    <3> HIDE DEF found, call
    <3>3. /\ defs' = [defs EXCEPT ![found].tags = @ \cup {TagOf(defs[found], cells, procs)}]
          /\ cells' = cells /\ at = found
      BY <1>1, <2>2, <3>1
    <3> HIDE DEF at
    <3>4. /\ DOMAIN defs' = DOMAIN defs /\ defs' = [d \in DOMAIN defs |-> defs'[d]]
          /\ \A d \in DOMAIN defs :
                /\ DOMAIN defs'[d] = DOMAIN defs[d]
                /\ \A f \in DOMAIN defs[d] : f # "tags" => defs'[d][f] = defs[d][f]
      BY <3>3
    <3>5. \A d \in DOMAIN defs : 
            /\ DOMAIN defs'[d] = DefFields /\ defs'[d].meta = defs[d].meta
            /\ defs'[d].warm = defs[d].warm /\ defs'[d].rest = defs[d].rest
            /\ defs'[d].extra = defs[d].extra
      BY <3>4 DEF JdInv, DefFields
    <3>6. KeepsSense
      BY <3>3, <3>4, <3>5 DEF KeepsSense
    <3>7. IsSequence(defs')
      BY <3>4, Mapped DEF JdInv
    <3>8. Sense(defs'[found], cells') = Frozen(call.model, call)
      BY <3>1, <3>2, <3>6, SenseIsKept
    <3> QED
      BY <3>1, <3>3, <3>4, <3>5, <3>6, <3>7, <3>8 DEF JdInv
  <2> QED
    BY <2>1, <2>2
<1>4. DOMAIN job = JobFields /\ job.def = at /\ job.asked = Frozen(call.model, call)
  BY DEF JobFields
<1> HIDE DEF job, at, call
<1>5. JobOK(job, defs', cells')
  BY <1>3, <1>4 DEF JobOK
<1>6. \A j \in DOMAIN work : JobOK(work[j], defs', cells')
  BY <1>3, OldJobsAreKept DEF JdInv, JobOK
<1>7. IsSequence(work') /\ \A j \in DOMAIN work' : JobOK(work'[j], defs', cells')
  <2>1. CASE work' = work
    BY <2>1, <1>6 DEF JdInv
  <2>2. CASE work' = Append(work, job)
    BY <2>2, <1>5, <1>6, Appended DEF JdInv
  <2> QED
    BY <2>1, <2>2, <1>1
<1>8. agent'.meta \in DOMAIN cells'
  BY <1>1, <1>3 DEF KeepsSense, JdInv
<1> QED
  BY <1>1, <1>3, <1>7, <1>8 DEF JdInv

-----------------------------------------------------------------------------
LEMMA StepFacts ==
    ASSUME Step
    PROVE  \E j \in DOMAIN work :
             LET post == defs[work[j].def].post
                 fit == {i \in DOMAIN post : Fires(post[i], work[j])}
             IN
             \/ /\ fit # {}
                /\ work' = [work EXCEPT ![j] =
                              [work[j] EXCEPT !.fired = Append(@, post[FirstOf(fit)])]]
             \/ \E n, x : work' = [work EXCEPT ![j] = [work[j] EXCEPT !.actions = n, !.done = x]]
<1>1. PICK j \in DOMAIN work, kind \in {"text", "code"} :
        LET job == work[j]
            d == defs[job.def]
            final == kind = "text" /\ Styled(d)
            firing == IF final THEN {i \in DOMAIN d.post : Fires(d.post[i], job)} ELSE {}
        IN  work' = [work EXCEPT ![j] =
                IF firing # {} THEN [job EXCEPT !.fired = Append(@, d.post[FirstOf(firing)])]
                ELSE [job EXCEPT !.actions = @ + 1, !.done = final]]
  BY DEF Step
<1> DEFINE job == work[j]
           d == defs[job.def]
           final == kind = "text" /\ Styled(d)
           firing == IF final THEN {i \in DOMAIN d.post : Fires(d.post[i], job)} ELSE {}
<1>2. work' = [work EXCEPT ![j] =
                IF firing # {} THEN [job EXCEPT !.fired = Append(@, d.post[FirstOf(firing)])]
                ELSE [job EXCEPT !.actions = @ + 1, !.done = final]]
  BY <1>1
<1> DEFINE fit == {i \in DOMAIN d.post : Fires(d.post[i], job)}
<1>3. CASE firing # {}
  <2>1. /\ fit # {}
        /\ work' = [work EXCEPT ![j] = [job EXCEPT !.fired = Append(@, d.post[FirstOf(fit)])]]
    BY <1>2, <1>3
  <2> HIDE DEF final
  <2> QED
    BY <2>1
<1>4. CASE firing = {}
  <2>1. work' = [work EXCEPT ![j] = [job EXCEPT !.actions = @ + 1, !.done = final]]
    BY <1>2, <1>4
  <2> HIDE DEF final
  <2> QED
    BY <2>1
<1> QED
  BY <1>3, <1>4

LEMMA StepKeeps == JdInv /\ Step => JdInv'
<1> SUFFICES ASSUME JdInv, Step PROVE JdInv'
  OBVIOUS
<1>1. PICK j \in DOMAIN work :
        \/ \E x : work' = [work EXCEPT ![j] = [work[j] EXCEPT !.fired = x]]
        \/ \E n, x : work' = [work EXCEPT ![j] = [work[j] EXCEPT !.actions = n, !.done = x]]
  BY StepFacts
<1> DEFINE old == work[j]
           new == work'[j]
<1>2. \/ \E x : work' = [work EXCEPT ![j] = [old EXCEPT !.fired = x]]
      \/ \E n, x : work' = [work EXCEPT ![j] = [old EXCEPT !.actions = n, !.done = x]]
  BY <1>1
<1>3. /\ DOMAIN work' = DOMAIN work /\ work' = [i \in DOMAIN work |-> work'[i]]
      /\ \A i \in DOMAIN work : i # j => work'[i] = work[i]
      /\ DOMAIN new = DOMAIN old /\ new.def = old.def /\ new.asked = old.asked
  BY <1>2 DEF JdInv, JobOK, JobFields
<1>4. KeepsSense /\ UNCHANGED <<system, cells, agent, defs>>
  BY DEF Step, KeepsSense
<1>5. \A i \in DOMAIN work' : JobOK(work'[i], defs', cells')
  BY <1>3, <1>4, OldJobsAreKept DEF JdInv, JobOK
<1>6. IsSequence(work')
  BY <1>3, Mapped DEF JdInv
<1> QED
  BY <1>4, <1>5, <1>6 DEF JdInv

LEMMA JdNextInv == JdInv /\ [JdNext]_jdVars => JdInv'
<1> SUFFICES ASSUME JdInv, [JdNext]_jdVars PROVE JdInv'
  OBVIOUS
<1>1. CASE UpdateWarmup \/ UNCHANGED jdVars
  BY <1>1 DEF UpdateWarmup, jdVars, JdInv
<1>2. CASE CreateJob
  BY <1>2, FindOrCreateKeeps DEF CreateJob
<1>3. CASE StartFleet
  BY <1>3, FindOrCreateKeeps DEF StartFleet
<1> QED
  BY <1>1, <1>2, <1>3, UpdateKeeps, StepKeeps DEF JdNext

(* create_new_job, update_prompt_config: a job runs with the model, warm-up, *)
(* resources and parameters that were asked for when it was created, also   *)
(* where hashes collide and definitions are shared.                         *)
THEOREM JobsRunAsAskedAlways == JdSpec => []JobsRunAsAsked
<1>1. JdInv => JobsRunAsAsked
  BY DEF JdInv, JobOK, JobsRunAsAsked, Sense
<1> QED
  BY <1>1, JdInitInv, JdNextInv, PTL DEF JdSpec

-----------------------------------------------------------------------------
(* What a call is resolved to: a processor that was persisted before, or    *)
(* the next one.                                                            *)
IsProcessors(procs) == procs \in Seq(Nat) /\ IsInjective(procs)

LEMMA KeptFacts ==
    ASSUME NEW procs, IsProcessors(procs), NEW n \in Nat
    PROVE  /\ IsProcessors(Kept(n, procs)) /\ DOMAIN procs \subseteq DOMAIN Kept(n, procs)
           /\ Reused(n, procs) \in DOMAIN Kept(n, procs)
<1> DEFINE same == {i \in DOMAIN procs : procs[i] = n}
<1>1. procs \in Seq(Nat) /\ DOMAIN procs = 1..Len(procs) /\ Len(procs) \in Nat
  BY DEF IsProcessors
<1>2. Reused(n, procs) = IF same # {} THEN FirstOf(same) ELSE Len(procs) + 1
  BY DEF Reused
<1>3. CASE same # {}
  <2>3. same \in SUBSET Nat
    BY <1>1
  <2>1. FirstOf(same) \in same
    <3> HIDE DEF same
    <3> QED
      BY <2>3, <1>3, FirstIsFirst
  <2>2. Kept(n, procs) = procs
    BY <1>2, <1>3, <2>1 DEF Kept
  <2> QED
    BY <1>2, <1>3, <2>1, <2>2
<1>4. CASE same = {}
  <2>1. Reused(n, procs) = Len(procs) + 1 /\ Kept(n, procs) = Append(procs, n)
    <3>1. Reused(n, procs) = Len(procs) + 1
      BY <1>2, <1>4
    <3>2. Len(procs) + 1 \notin DOMAIN procs
      BY <1>1
    <3> QED
      BY <3>1, <3>2 DEF Kept
  <2>2. /\ Append(procs, n) \in Seq(Nat) /\ DOMAIN Append(procs, n) = 1..Len(procs) + 1
        /\ Append(procs, n)[Len(procs) + 1] = n
        /\ \A i \in 1..Len(procs) : Append(procs, n)[i] = procs[i]
    BY <1>1
  <2>3. \A i \in 1..Len(procs) : procs[i] # n
    BY <1>1, <1>4
  <2>4. \A i, k \in 1..Len(procs) : procs[i] = procs[k] => i = k
    BY <1>1 DEF IsProcessors, IsInjective
  <2>5. ASSUME NEW i \in 1..Len(procs) + 1, NEW k \in 1..Len(procs) + 1,
               Append(procs, n)[i] = Append(procs, n)[k]
        PROVE  i = k
    <3>1. (i \in 1..Len(procs) \/ i = Len(procs) + 1) /\ (k \in 1..Len(procs) \/ k = Len(procs) + 1)
      BY <1>1
    <3> QED
      BY <2>2, <2>3, <2>4, <2>5, <3>1
  <2>6. IsProcessors(Append(procs, n))
    BY <2>2, <2>5 DEF IsProcessors, IsInjective
  <2>7. Len(procs) + 1 \in 1..Len(procs) + 1 /\ 1..Len(procs) \subseteq 1..Len(procs) + 1
    BY <1>1
  <2> QED
    BY <1>1, <2>1, <2>2, <2>6, <2>7
<1> QED
  BY <1>3, <1>4

LEMMA ResolveFacts ==
    ASSUME NEW post \in Seq(Nat), NEW procs, IsProcessors(procs)
    PROVE  /\ IsProcessors(Resolve(post, procs).procs)
           /\ DOMAIN procs \subseteq DOMAIN Resolve(post, procs).procs
           /\ Resolve(post, procs).ids \in Seq(DOMAIN Resolve(post, procs).procs)
<1> DEFINE Chain(f) == f = [i \in 0..Len(post) |->
                              IF i = 0 THEN procs ELSE Kept(post[i], f[i - 1])]
           after == CHOOSE f : Chain(f)
           IsChain(f, n) == f = [i \in 0..n |-> IF i = 0 THEN procs ELSE Kept(post[i], f[i - 1])]
           S == {n \in Nat : \E f : IsChain(f, n)}
<1>1. Resolve(post, procs) = [ids |-> [i \in DOMAIN post |-> Reused(post[i], after[i - 1])],
                              procs |-> after[Len(post)]]
  BY DEF Resolve
<1>2. 0 \in S
  <2>1. IsChain([i \in 0..0 |-> procs], 0)
    OBVIOUS
  <2> QED
    BY <2>1
<1>3. ASSUME NEW n \in Nat, n \in S PROVE n + 1 \in S
  <2>1. PICK f : IsChain(f, n)
    BY <1>3
  <2> DEFINE g == [i \in 0..n + 1 |-> IF i <= n THEN f[i] ELSE Kept(post[i], f[i - 1])]
  <2>2. ASSUME NEW i \in 0..n + 1
        PROVE  g[i] = IF i = 0 THEN procs ELSE Kept(post[i], g[i - 1])
    <3>1. CASE i = 0
      BY <2>1, <3>1
    <3>2. CASE i # 0
      <4>1. i - 1 \in 0..n /\ i - 1 \in 0..n + 1
        BY <3>2
      <4>2. g[i - 1] = f[i - 1]
        BY <4>1
      <4>3. g[i] = Kept(post[i], f[i - 1])
        <5>1. CASE i <= n
          <6>1. i \in 0..n
            BY <5>1
          <6> QED
            BY <2>1, <3>2, <5>1, <6>1
        <5>2. CASE ~(i <= n)
          BY <5>2
        <5> QED
          BY <5>1, <5>2
      <4> QED
        BY <3>2, <4>2, <4>3
    <3> QED
      BY <3>1, <3>2
  <2>3. g = [i \in 0..n + 1 |-> g[i]]
    OBVIOUS
  <2> HIDE DEF g
  <2>4. IsChain(g, n + 1)
    BY <2>2, <2>3
  <2> QED
    BY <2>4, SMTT(30)
<1>4. Len(post) \in S
  <2>1. Len(post) \in Nat
    OBVIOUS
  <2> HIDE DEF S
  <2> QED
    BY <2>1, <1>2, <1>3, NumberInduction
<1>5. Chain(after)
  BY <1>4
<1> HIDE DEF after, S
<1>6. /\ after[0] = procs
      /\ \A i \in 1..Len(post) : after[i] = Kept(post[i], after[i - 1])
  BY <1>5, SMTT(30)
<1> DEFINE Good(n) == /\ IsProcessors(after[n]) /\ DOMAIN procs \subseteq DOMAIN after[n]
                      /\ \A i \in 1..n : Reused(post[i], after[i - 1]) \in DOMAIN after[n]
           T == {n \in Nat : n <= Len(post) => Good(n)}
<1>7. 0 \in T
  BY <1>6
<1>8. ASSUME NEW n \in Nat, n \in T PROVE n + 1 \in T
  <2>1. SUFFICES ASSUME n + 1 <= Len(post) PROVE Good(n + 1)
    OBVIOUS
  <2>2. n + 1 \in 1..Len(post) /\ (n + 1) - 1 = n /\ Good(n) /\ post[n + 1] \in Nat
    BY <1>8, <2>1
  <2>3. after[n + 1] = Kept(post[n + 1], after[n])
    BY <1>6, <2>2
  <2>4. /\ IsProcessors(after[n + 1]) /\ DOMAIN after[n] \subseteq DOMAIN after[n + 1]
        /\ Reused(post[n + 1], after[n]) \in DOMAIN after[n + 1]
    BY <2>2, <2>3, KeptFacts
  <2>5. \A i \in 1..n + 1 : i \in 1..n \/ i = n + 1
    OBVIOUS
  <2> QED
    BY <2>2, <2>4, <2>5
<1>9. Good(Len(post))
  <2>1. Len(post) \in Nat
    OBVIOUS
  <2> HIDE DEF T, Good
  <2>2. Len(post) \in T
    BY <2>1, <1>7, <1>8, NumberInduction
  <2> QED
    BY <2>2 DEF T
<1>10. [i \in DOMAIN post |-> Reused(post[i], after[i - 1])] \in Seq(DOMAIN after[Len(post)])
  <2> DEFINE ids == [i \in 1..Len(post) |-> Reused(post[i], after[i - 1])]
  <2>1. DOMAIN post = 1..Len(post) /\ Len(post) \in Nat
    OBVIOUS
  <2>2. DOMAIN ids = 1..Len(post) /\ \A i \in 1..Len(post) : ids[i] \in DOMAIN after[Len(post)]
    BY <1>9
  <2>3. ids = [i \in 1..Len(post) |-> ids[i]]
    OBVIOUS
  <2>4. ids \in Seq(DOMAIN after[Len(post)])
    <3> HIDE DEF ids
    <3> QED
      BY <2>1, <2>2, <2>3, SMTT(30)
  <2> QED
    BY <2>1, <2>4
<1> QED
  BY <1>1, <1>9, <1>10

(* The inductive invariant: processors are told apart by what they are, and *)
(* a job has each of those of its definition at most once behind it.        *)
HeldOK(fired, procs) == fired \in Seq(DOMAIN procs) /\ IsInjective(fired)
HeldInv ==
    /\ IsProcessors(processors)
    /\ \A d \in DOMAIN defs : defs[d].post \in Seq(DOMAIN processors)
    /\ \A j \in DOMAIN work : HeldOK(work[j].fired, processors)

LEMMA ProcessorsGrow ==
    ASSUME NEW S, NEW T, S \subseteq T, NEW seq \in Seq(S)
    PROVE  seq \in Seq(T)
  OBVIOUS

LEMMA HeldStays ==
    ASSUME HeldInv, IsProcessors(processors'), DOMAIN processors \subseteq DOMAIN processors'
    PROVE  /\ \A d \in DOMAIN defs : defs[d].post \in Seq(DOMAIN processors')
           /\ \A j \in DOMAIN work : HeldOK(work[j].fired, processors')
  BY ProcessorsGrow DEF HeldInv, HeldOK

LEMMA ConfiguredPost ==
    ASSUME NEW d, DOMAIN d = DefFields, NEW style, NEW post, NEW procs
    PROVE  Configured(d, style, post, procs).post \in {d.post, post}
<1> DEFINE styled == [d EXCEPT !.style = style]
           changed == IF States(d.post, procs) = States(post, procs) THEN styled
                      ELSE [styled EXCEPT !.post = post]
           tag(x) == TagOf(x, cells, procs)
           tags == Retag(d, tag(d), tag(styled))
           new == Retag([styled EXCEPT !.tags = tags], tag(styled), tag(changed))
<1>1. DOMAIN styled = DefFields /\ styled.post = d.post
  BY DEF DefFields
<1>2. DOMAIN changed = DefFields /\ changed.post \in {d.post, post}
  BY <1>1 DEF DefFields
<1>3. Configured(d, style, post, procs) = [changed EXCEPT !.tags = new]
  BY DEF Configured
<1> HIDE DEF changed, new
<1> QED
  BY <1>2, <1>3 DEF DefFields

LEMMA UpdateHolds == JdInv /\ HeldInv /\ UpdatePrompts => HeldInv'
<1> SUFFICES ASSUME JdInv, HeldInv, UpdatePrompts PROVE HeldInv'
  OBVIOUS
<1>1. PICK style \in {"none", "dialog"}, post \in system.posts :
        /\ processors' = Resolve(post, processors).procs
        /\ defs' = [d \in DOMAIN defs |->
                      Configured(defs[d], style, Resolve(post, processors).ids,
                                 Resolve(post, processors).procs)]
  BY DEF UpdatePrompts
<1>2. post \in Seq(Nat)
  BY DefinitionAssumption DEF JdInv
<1> DEFINE ids == Resolve(post, processors).ids
<1>3. /\ IsProcessors(processors') /\ DOMAIN processors \subseteq DOMAIN processors'
      /\ ids \in Seq(DOMAIN processors')
  BY <1>1, <1>2, ResolveFacts DEF HeldInv
<1>4. ASSUME NEW d \in DOMAIN defs'
      PROVE  defs'[d].post \in Seq(DOMAIN processors')
  <2>1. d \in DOMAIN defs /\ defs'[d] = Configured(defs[d], style, ids, processors')
    BY <1>1
  <2> HIDE DEF ids
  <2>2. DOMAIN defs[d] = DefFields
    BY <2>1 DEF JdInv
  <2>3. defs'[d].post \in {defs[d].post, ids}
    BY <2>1, <2>2, ConfiguredPost
  <2> QED
    BY <1>3, <2>1, <2>3, HeldStays
<1>5. \A j \in DOMAIN work' : HeldOK(work'[j].fired, processors')
  <2>1. work' = work
    BY DEF UpdatePrompts
  <2> QED
    BY <1>3, <2>1, HeldStays
<1> QED
  BY <1>3, <1>4, <1>5 DEF HeldInv

LEMMA FindOrCreateHolds ==
    ASSUME JdInv, HeldInv, NEW call, NEW ids, NEW procs,
           FindOrCreate(call, ids, procs),
           IsProcessors(processors'), DOMAIN processors \subseteq DOMAIN processors',
           ids \in Seq(DOMAIN processors')
    PROVE  HeldInv'
<1> DEFINE found == Found(call, procs)
           new == NewDef(call, ids, procs)
           job == [def |-> IF found > 0 THEN found ELSE Len(defs) + 1,
                   asked |-> Frozen(call.model, call), fired |-> <<>>,
                   actions |-> 0, done |-> FALSE]
<1>1. /\ defs' = IF found = 0 THEN Append(defs, new.def)
                 ELSE [defs EXCEPT ![found].tags = @ \cup {TagOf(defs[found], cells, procs)}]
      /\ work' = Append(work, job) \/ work' = work
  BY DEF FindOrCreate
<1>2. new.def.post = ids
  BY DEF NewDef
<1>3. job.fired = <<>>
  OBVIOUS
<1> HIDE DEF found, new, job
<1>4. ASSUME NEW d \in DOMAIN defs' PROVE defs'[d].post \in Seq(DOMAIN processors')
  <2>1. CASE found = 0
    <3>1. defs' = Append(defs, new.def)
      BY <1>1, <2>1
    <3>2. (d = Len(defs) + 1 /\ defs'[d] = new.def) \/ (d \in DOMAIN defs /\ defs'[d] = defs[d])
      BY <3>1, Appended DEF JdInv
    <3> QED
      BY <1>2, <3>2, HeldStays
  <2>2. CASE found # 0
    <3>1. defs' = [defs EXCEPT ![found].tags = @ \cup {TagOf(defs[found], cells, procs)}]
      BY <1>1, <2>2
    <3>2. DOMAIN defs' = DOMAIN defs /\ DOMAIN defs[d] = DefFields
      BY <3>1 DEF JdInv
    <3>3. defs'[d].post = defs[d].post
      BY <3>1, <3>2 DEF DefFields
    <3> QED
      BY <3>2, <3>3, HeldStays
  <2> QED
    BY <2>1, <2>2
<1>5. ASSUME NEW j \in DOMAIN work' PROVE HeldOK(work'[j].fired, processors')
  <2>1. HeldOK(<<>>, processors')
    BY DEF HeldOK, IsInjective
  <2>2. work'[j] = job \/ (j \in DOMAIN work /\ work'[j] = work[j])
    BY <1>1, Appended DEF JdInv
  <2> QED
    BY <1>3, <2>1, <2>2, HeldStays
<1> QED
  BY <1>4, <1>5 DEF HeldInv

LEMMA StepHolds == JdInv /\ HeldInv /\ Step => HeldInv'
<1> SUFFICES ASSUME JdInv, HeldInv, Step PROVE HeldInv'
  OBVIOUS
<1>1. UNCHANGED <<defs, processors>>
  BY DEF Step
<1>2. PICK j \in DOMAIN work :
        LET post == defs[work[j].def].post
            fit == {i \in DOMAIN post : Fires(post[i], work[j])}
        IN
        \/ /\ fit # {}
           /\ work' = [work EXCEPT ![j] =
                         [work[j] EXCEPT !.fired = Append(@, post[FirstOf(fit)])]]
        \/ \E n, x : work' = [work EXCEPT ![j] = [work[j] EXCEPT !.actions = n, !.done = x]]
  BY StepFacts
<1> DEFINE post == defs[work[j].def].post
           fit == {i \in DOMAIN post : Fires(post[i], work[j])}
           p == post[FirstOf(fit)]
<1>3. /\ DOMAIN work[j] = JobFields /\ work[j].def \in DOMAIN defs
      /\ HeldOK(work[j].fired, processors) /\ post \in Seq(DOMAIN processors)
  BY DEF JdInv, JobOK, HeldInv
<1>4. HeldOK(work'[j].fired, processors) /\ DOMAIN work' = DOMAIN work
      /\ \A i \in DOMAIN work : i # j => work'[i] = work[i]
  <2>1. CASE /\ fit # {}
             /\ work' = [work EXCEPT ![j] = [work[j] EXCEPT !.fired = Append(@, p)]]
    <3>1. fit \in SUBSET Nat /\ fit \subseteq DOMAIN post
      BY <1>3
    <3>2. FirstOf(fit) \in fit
      <4> HIDE DEF fit
      <4> QED
        BY <2>1, <3>1, FirstIsFirst
    <3>3. Fires(p, work[j]) /\ p \in DOMAIN processors
      <4>1. PICK i \in fit : i = FirstOf(fit)
        BY <3>2
      <4>2. i \in DOMAIN post /\ Fires(post[i], work[j]) /\ p = post[i]
        BY <4>1
      <4> HIDE DEF post, p, fit
      <4> QED
        BY <1>3, <4>2
    <3>4. p \notin ToSet(work[j].fired)
      BY <3>3 DEF Fires
    <3> HIDE DEF p, fit, post
    <3>5. work'[j].fired = Append(work[j].fired, p)
      BY <1>3, <2>1 DEF JobFields
    <3>6. PICK fired : fired = work[j].fired
      OBVIOUS
    <3>7. /\ fired \in Seq(DOMAIN processors) /\ IsInjective(fired)
          /\ \A i \in DOMAIN fired : fired[i] # p
      BY <1>3, <3>4, <3>6 DEF HeldOK, ToSet
    <3>8. /\ Append(fired, p) \in Seq(DOMAIN processors)
          /\ DOMAIN Append(fired, p) = DOMAIN fired \cup {Len(fired) + 1}
          /\ Append(fired, p)[Len(fired) + 1] = p
          /\ \A i \in DOMAIN fired : Append(fired, p)[i] = fired[i]
      BY <3>3, <3>7
    <3>9. IsInjective(Append(fired, p))
      BY <3>7, <3>8 DEF IsInjective
    <3> QED
      BY <2>1, <3>5, <3>6, <3>8, <3>9 DEF HeldOK
  <2>2. CASE \E n, x : work' = [work EXCEPT ![j] = [work[j] EXCEPT !.actions = n, !.done = x]]
    <3>1. /\ work'[j].fired = work[j].fired /\ DOMAIN work' = DOMAIN work
          /\ \A i \in DOMAIN work : i # j => work'[i] = work[i]
      BY <1>3, <2>2 DEF JobFields
    <3> QED
      BY <1>3, <3>1
  <2> QED
    BY <1>2, <2>1, <2>2
<1>5. \A i \in DOMAIN work' : HeldOK(work'[i].fired, processors)
  BY <1>4 DEF HeldInv
<1> QED
  BY <1>1, <1>5 DEF HeldInv

LEMMA HeldNext ==
    JdInv /\ (system.explicit = {} => HeldInv) /\ [JdNext]_jdVars
        => (system'.explicit = {} => HeldInv')
<1> SUFFICES ASSUME JdInv, system.explicit = {} => HeldInv, [JdNext]_jdVars,
                    system'.explicit = {}
             PROVE  HeldInv'
  OBVIOUS
<1>1. system' = system
  <2>1. CASE UpdatePrompts \/ UpdateWarmup \/ Step \/ UNCHANGED jdVars
    BY <2>1 DEF UpdatePrompts, UpdateWarmup, Step, jdVars
  <2>2. CASE CreateJob
    <3>1. \E call, ids, procs : FindOrCreate(call, ids, procs)
      BY <2>2 DEF CreateJob
    <3> QED
      BY <3>1 DEF FindOrCreate
  <2>3. CASE StartFleet
    <3>1. \E call, ids, procs : FindOrCreate(call, ids, procs)
      BY <2>3 DEF StartFleet
    <3> QED
      BY <3>1 DEF FindOrCreate
  <2> QED
    BY <2>1, <2>2, <2>3 DEF JdNext
<1>2. HeldInv /\ system.explicit = {}
  BY <1>1
<1>3. CASE UpdateWarmup \/ UNCHANGED jdVars
  BY <1>2, <1>3 DEF UpdateWarmup, jdVars, HeldInv
<1>4. CASE CreateJob
  <2>1. PICK warm, rest, style :
          LET resolved == Resolve(cells[agent.meta].post, processors) IN
          /\ FindOrCreate(Call(<<warm, agent.warm>>, style, rest,
                               States(resolved.ids, resolved.procs)),
                          resolved.ids, resolved.procs)
          /\ processors' = resolved.procs
    BY <1>2, <1>4 DEF CreateJob
  <2>2. cells[agent.meta].post \in Seq(Nat)
    <3>1. cells[agent.meta] \in Cell
      BY DEF JdInv
    <3> QED
      BY <3>1 DEF Cell
  <2>3. PICK post \in Seq(Nat) : post = cells[agent.meta].post
    BY <2>2
  <2>4. /\ IsProcessors(Resolve(post, processors).procs)
        /\ DOMAIN processors \subseteq DOMAIN Resolve(post, processors).procs
        /\ Resolve(post, processors).ids \in Seq(DOMAIN Resolve(post, processors).procs)
    BY <1>2, ResolveFacts DEF HeldInv
  <2> QED
    BY <1>2, <2>1, <2>3, <2>4, FindOrCreateHolds
<1>5. CASE StartFleet
  <2>1. PICK warm :
          FindOrCreate(Call(<<warm, "none">>, "none", "none", NoPost), NoPost, processors)
    BY <1>5 DEF StartFleet
  <2>2. processors' = processors
    BY <1>5 DEF StartFleet
  <2>3. NoPost \in Seq(DOMAIN processors') /\ IsProcessors(processors')
    BY <1>2, <2>2 DEF NoPost, HeldInv
  <2> QED
    BY <1>2, <2>1, <2>2, <2>3, FindOrCreateHolds
<1> QED
  BY <1>2, <1>3, <1>4, <1>5, UpdateHolds, StepHolds DEF JdNext

(* post_processor.py: a draft is held back at most once per FinalCheck(n)   *)
(* in the life of a job, through all changes of the prompt files and back.  *)
THEOREM HeldBackOnce == JdSpec => []HeldBackOncePerCheck
<1> DEFINE Held == system.explicit = {} => HeldInv
<1>1. JdInit => Held
  <2> SUFFICES ASSUME JdInit PROVE HeldInv
    OBVIOUS
  <2>1. processors = <<>> /\ defs = <<>> /\ work = <<>>
    BY DEF JdInit
  <2> QED
    BY <2>1 DEF HeldInv, IsProcessors, IsInjective
<1>2. JdInv /\ Held /\ [JdNext]_jdVars => Held'
  BY HeldNext
<1>3. Held => HeldBackOncePerCheck
  <2> SUFFICES ASSUME HeldInv, NEW j \in DOMAIN work
               PROVE  IsInjective(States(work[j].fired, processors))
    BY DEF HeldBackOncePerCheck
  <2>1. PICK fired : fired = work[j].fired
    OBVIOUS
  <2>2. /\ fired \in Seq(DOMAIN processors) /\ IsInjective(fired)
        /\ IsInjective(processors)
    BY <2>1 DEF HeldInv, HeldOK, IsProcessors
  <2>3. States(fired, processors) = [i \in DOMAIN fired |-> processors[fired[i]]]
    BY DEF States
  <2>4. \A i \in DOMAIN fired : fired[i] \in DOMAIN processors
    BY <2>2
  <2> QED
    BY <2>1, <2>2, <2>3, <2>4 DEF IsInjective
<1>4. QED
  BY <1>1, <1>2, <1>3, JdInitInv, JdNextInv, PTL DEF JdSpec
=============================================================================
