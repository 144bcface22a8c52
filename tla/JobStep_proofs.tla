-------------------------- MODULE JobStep_proofs --------------------------
(***************************************************************************)
(* Proofs about JobStep, for every value of its constants: its types, the  *)
(* blocks, the turns of the dialog and its messages, then the notifications *)
(* of a job: none is lost or doubled (NoteInv), none overtakes another      *)
(* (OrderNext), and a job completes only when all have been processed       *)
(* (DrainInv) and shown to the model (ShownInv).                            *)
(***************************************************************************)
EXTENDS JobStep, FiniteSetTheorems, TLAPS

-----------------------------------------------------------------------------
(* Data: what the builders of chat-log items return.                       *)

LEMMA ItemType ==
    ASSUME NEW kind \in Kinds, NEW ref \in Messages \cup Notes \cup {NoMsg}, NEW block \in Block,
           kind = "user" => ref \in Messages, kind = "note" => ref \in Notes
    PROVE  Item(kind, ref, block) \in LogItem
<1>1. Item(kind, ref, block) \in
          [kind: Kinds, ref: Messages \cup Notes \cup {NoMsg}, block: Block, tools: BOOLEAN]
    BY Zenon DEF Item
<1>2. Item(kind, ref, block).kind = kind /\ Item(kind, ref, block).ref = ref
    BY DEF Item
<1>3. QED
    BY <1>1, <1>2 DEF LogItem

LEMMA AllocateType == ASSUME NEW item \in LogItem PROVE Allocate(item) \in LogItem
    BY DEF LogItem, Allocate

LEMMA NoBlockType == NoBlock \in Block
    BY Zenon DEF NoBlock, Block

(* Emptying the pending list lengthens the history and keeps its items.    *)
LEMMA DrainedLogType ==
    ASSUME LogTypes
    PROVE  DrainedLog \in Seq(LogItem)
<1>1. \A i \in DOMAIN pendingLog : Item("note", pendingLog[i], NoBlock) \in LogItem
    BY ItemType, NoBlockType DEF LogTypes, Kinds
<1>2. NotesAsItems(pendingLog) \in Seq(LogItem)
    BY <1>1 DEF NotesAsItems, LogTypes
<1>3. QED
    BY <1>2 DEF DrainedLog, LogTypes

-----------------------------------------------------------------------------
(* Type correctness, one lemma per action that changes more than a status. *)

LEMMA InitTypeOK == Init => TypeOK
<1> SUFFICES ASSUME Init PROVE TypeOK
    OBVIOUS
<1> USE JobStepAssumption DEF Init
<1>1. LogTypes
    BY DEF LogTypes
<1>2. JobTypes
    BY DEF JobTypes, Statuses
<1>3. StepTypes
    BY DEF StepTypes, Awaits
<1>4. OtherTypes
    BY DEF OtherTypes
<1>5. Flags
    BY Zenon DEF Flags
<1>6. QED
    BY <1>1, <1>2, <1>3, <1>4, <1>5 DEF TypeOK

(* Entering a block.                                                       *)
LEMMA EnterType ==
    ASSUME TypeOK, NEW log \in Seq(LogItem), log # <<>>, NEW id \in Int, Enter(log, id)
    PROVE  /\ chatLog' \in Seq(LogItem)
           /\ cur' \in DOMAIN chatLog' /\ cur' \in Nat
           /\ pc' \in {"tools", "exec"}
           /\ stale' \in BOOLEAN
<1>1. Len(log) \in DOMAIN log /\ log[Len(log)] \in LogItem /\ Len(log) \in Nat
    OBVIOUS
<1>2. Allocate(log[Len(log)]) \in LogItem
    BY <1>1, AllocateType
<1>3. chatLog' \in Seq(LogItem) /\ Len(chatLog') = Len(log)
    BY <1>1, <1>2 DEF Enter
<1>4. cur' \in DOMAIN chatLog' /\ cur' \in Nat
    BY <1>1, <1>3 DEF Enter
<1>5. pc' \in {"tools", "exec"}
    BY DEF Enter, GoTo
<1>6. stale' \in BOOLEAN
    BY Zenon DEF Enter, TypeOK, Flags
<1>7. QED
    BY <1>3, <1>4, <1>5, <1>6
(* Reporting to the handlers.                                              *)
LEMMA NotifyType ==
    ASSUME TypeOK, NotifyHandlers
    PROVE  bound' = NoMsg /\ reported' \in Seq(Messages)
    BY DEF NotifyHandlers, TypeOK, JobTypes, OtherTypes

(* Emptying the pending list, or leaving it.                               *)
LEMMA DrainType ==
    ASSUME TypeOK, UNCHANGED pushLog,
           \/ UNCHANGED <<chatLog, pendingLog>>
           \/ chatLog' = DrainedLog /\ pendingLog' = <<>>
    PROVE  LogTypes'
<1>1. DrainedLog \in Seq(LogItem)
    BY DrainedLogType DEF TypeOK
<1>2. CASE UNCHANGED <<chatLog, pendingLog>>
    BY <1>2 DEF TypeOK, LogTypes
<1>3. CASE chatLog' = DrainedLog /\ pendingLog' = <<>>
  <2>1. pendingLog' \in Seq(Notes)
    BY <1>3
  <2>2. QED
    BY <1>1, <1>3, <2>1 DEF TypeOK, LogTypes
<1>4. QED
    BY <1>2, <1>3

(* One more item in the history.                                           *)
LEMMA AppendType ==
    ASSUME TypeOK, NEW kind \in Kinds \ {"user", "note"}, UNCHANGED <<pendingLog, pushLog>>,
           chatLog' = Append(chatLog, Item(kind, NoMsg, NoBlock))
    PROVE  LogTypes'
<1>1. Item(kind, NoMsg, NoBlock) \in LogItem
    BY ItemType, NoBlockType
<1>2. QED
    BY <1>1 DEF TypeOK, LogTypes

(* The deliveries that leave their step where it is.                        *)
Delivery == SegmentSent \/ ToolDelivery

LEMMA DeliveryKeeps ==
    ASSUME Delivery
    PROVE  /\ pc \in {"tools", "exec", "send"}
           /\ UNCHANGED <<status, chatLog, pendingLog, pushLog, awaited, nextInstr, future,
                          warmupNum, exitSet, error, defError, completions, bound, pc, cur,
                          final, ready, counters, owner, stale, sent, seen, reported>>
  BY DEF Delivery, SegmentSent, ToolDelivery, MayCallTools

LEMMA TypeDelivery == ASSUME TypeOK, Delivery PROVE TypeOK'
<1>0. /\ wait' \in [Messages -> {"unsent", "open", "closed"}]
      /\ snapshot' \subseteq Messages /\ during' \subseteq Messages
  <2>1. CASE SegmentSent
    BY <2>1 DEF SegmentSent, FinishWaits, OpenWaits, TypeOK, JobTypes
  <2>2. CASE ToolDelivery
    BY <2>2 DEF ToolDelivery, FinishWaits, OpenWaits, TypeOK, JobTypes, StepTypes, OtherTypes
  <2> QED
    BY <2>1, <2>2 DEF Delivery
<1>1. LogTypes'
    BY DeliveryKeeps DEF TypeOK, LogTypes
<1>2. JobTypes'
    BY <1>0, DeliveryKeeps DEF TypeOK, JobTypes, Statuses
<1>3. StepTypes'
    BY <1>0, DeliveryKeeps DEF TypeOK, StepTypes, Awaits
<1>4. OtherTypes'
    BY <1>0, DeliveryKeeps DEF TypeOK, OtherTypes, counters
<1>5. Flags'
  <2>1. UNCHANGED <<exitSet, error, defError, final, stale>>
    BY DeliveryKeeps
  <2>2. QED
    BY <2>1, Zenon DEF TypeOK, Flags
<1>6. QED
    BY <1>1, <1>2, <1>3, <1>4, <1>5 DEF TypeOK

LEMMA TypeBeginRequest == ASSUME TypeOK, BeginRequest PROVE TypeOK'
<1>1. LogTypes'
    BY DEF BeginRequest, TypeOK, LogTypes
<1>2. JobTypes'
    BY DEF BeginRequest, TypeOK, JobTypes, Statuses
<1>3. StepTypes'
    BY DEF BeginRequest, TypeOK, StepTypes, Awaits, RunToCompletion, GoTo, LogTypes
<1>4. OtherTypes'
    BY DEF BeginRequest, TypeOK, OtherTypes, counters, history
<1>5. Flags'
  <2>1. UNCHANGED <<exitSet, error, defError, final, stale>>
    BY DEF BeginRequest, job, step, history
  <2>2. QED
    BY <2>1, Zenon DEF TypeOK, Flags
<1>6. QED
    BY <1>1, <1>2, <1>3, <1>4, <1>5 DEF TypeOK

LEMMA TypeFinishTools == ASSUME TypeOK, FinishTools PROVE TypeOK'
<1>1. LogTypes'
    BY DEF FinishTools, TypeOK, LogTypes
<1>2. JobTypes'
    BY DEF FinishTools, TypeOK, JobTypes, Statuses
<1>3. StepTypes'
    BY DEF FinishTools, TypeOK, StepTypes, Awaits, RunToCompletion, GoTo, LogTypes
<1>4. OtherTypes'
    BY DEF FinishTools, TypeOK, OtherTypes, counters, history
<1>5. Flags'
  <2>1. UNCHANGED <<error, defError, final, stale>>
    BY DEF FinishTools, job, step, history
  <2>2. exitSet' \in {exitSet, TRUE}
    BY DEF FinishTools
  <2>3. QED
    BY <2>1, <2>2, Zenon DEF TypeOK, Flags
<1>6. QED
    BY <1>1, <1>2, <1>3, <1>4, <1>5 DEF TypeOK

LEMMA TypeExecCompletes == ASSUME TypeOK, ExecCompletes PROVE TypeOK'
<1>1. LogTypes'
    BY DEF ExecCompletes, TypeOK, LogTypes
<1>2. JobTypes'
    BY DEF ExecCompletes, TypeOK, JobTypes, Statuses
<1>3. StepTypes'
    BY DEF ExecCompletes, TypeOK, StepTypes, Awaits, RunToCompletion, GoTo, LogTypes
<1>4. OtherTypes'
    BY DEF ExecCompletes, TypeOK, OtherTypes, counters, history
<1>5. Flags'
  <2>1. UNCHANGED <<error, defError, final, stale>>
    BY DEF ExecCompletes, job, step, history
  <2>2. exitSet' \in {exitSet, TRUE}
    BY DEF ExecCompletes
  <2>3. QED
    BY <2>1, <2>2, Zenon DEF TypeOK, Flags
<1>6. QED
    BY <1>1, <1>2, <1>3, <1>4, <1>5 DEF TypeOK

LEMMA TypeExecRaises == ASSUME TypeOK, ExecRaises PROVE TypeOK'
<1>1. LogTypes'
    BY DEF ExecRaises, TypeOK, LogTypes, NotifyHandlers, Leave
<1>2. JobTypes'
    BY DEF ExecRaises, TypeOK, JobTypes, Statuses, NotifyHandlers, Leave
<1>3. StepTypes'
    BY DEF ExecRaises, TypeOK, StepTypes, Awaits, RunToCompletion, GoTo, LogTypes, NotifyHandlers, Leave
<1>4. OtherTypes'
  <2>1. reported' \in Seq(Messages)
    BY NotifyType DEF ExecRaises, TypeOK, OtherTypes
  <2>2. QED
    BY <2>1 DEF ExecRaises, TypeOK, OtherTypes, counters
<1>5. Flags'
  <2>1. UNCHANGED <<exitSet, error, stale>>
    BY DEF ExecRaises, job, step, history, NotifyHandlers, Leave
  <2>2. defError' \in {defError, TRUE} /\ final' \in {final, FALSE}
    BY DEF ExecRaises, NotifyHandlers, Leave
  <2>3. QED
    BY <2>1, <2>2, Zenon DEF TypeOK, Flags
<1>6. QED
    BY <1>1, <1>2, <1>3, <1>4, <1>5 DEF TypeOK

LEMMA TypeAfterExec == ASSUME TypeOK, AfterExec PROVE TypeOK'
<1>1. LogTypes'
    BY DrainType DEF AfterExec, FollowUp
<1>2. JobTypes'
    BY DEF AfterExec, TypeOK, JobTypes, Statuses, FollowUp
<1>3. StepTypes'
    BY DEF AfterExec, TypeOK, StepTypes, Awaits, RunToCompletion, GoTo, LogTypes, FollowUp
<1>4. OtherTypes'
    BY DEF AfterExec, TypeOK, OtherTypes, counters, history, FollowUp
<1>5. Flags'
  <2>1. UNCHANGED <<error, defError, final, stale>>
    BY DEF AfterExec, job, step, history, FollowUp
  <2>2. exitSet' \in {exitSet, FALSE}
    BY DEF AfterExec, FollowUp
  <2>3. QED
    BY <2>1, <2>2, Zenon DEF TypeOK, Flags
<1>6. QED
    BY <1>1, <1>2, <1>3, <1>4, <1>5 DEF TypeOK

LEMMA TypeSendRequest == ASSUME TypeOK, SendRequest PROVE TypeOK'
<1>1. LogTypes'
    BY DrainType DEF SendRequest
<1>2. JobTypes'
    BY DEF SendRequest, TypeOK, JobTypes, Statuses
<1>3. StepTypes'
    BY DEF SendRequest, TypeOK, StepTypes, Awaits, RunToCompletion, GoTo, LogTypes
<1>4. OtherTypes'
  <2>1. chatLog' \in Seq(LogItem) /\ pushLog \in Seq(Messages)
    BY <1>1 DEF LogTypes, TypeOK
  <2>2. \A i \in DOMAIN pushLog : pushLog[i] \in Messages
    BY <2>1
  <2>3. \A i \in DOMAIN chatLog' : chatLog'[i] \in LogItem
    BY <2>1
  <2>4. seen' \subseteq Messages \cup Notes
    BY <2>2, <2>3 DEF SendRequest, TypeOK, OtherTypes, LogItem
  <2>5. QED
    BY <2>4 DEF SendRequest, TypeOK, OtherTypes, counters
<1>5. Flags'
  <2>1. UNCHANGED <<exitSet, error, defError, final, stale>>
    BY DEF SendRequest, job, step, history
  <2>2. QED
    BY <2>1, Zenon DEF TypeOK, Flags
<1>6. QED
    BY <1>1, <1>2, <1>3, <1>4, <1>5 DEF TypeOK

LEMMA TypeReplySuppressed == ASSUME TypeOK, ReplySuppressed PROVE TypeOK'
<1>1. LogTypes'
    BY AppendType DEF ReplySuppressed, PostItem, Kinds
<1>2. JobTypes'
    BY DEF ReplySuppressed, TypeOK, JobTypes, Statuses, PostItem
<1>3. StepTypes'
    BY DEF ReplySuppressed, TypeOK, StepTypes, Awaits, RunToCompletion, GoTo, LogTypes, PostItem
<1>4. OtherTypes'
    BY DEF ReplySuppressed, TypeOK, OtherTypes, counters, history, PostItem
<1>5. Flags'
  <2>1. UNCHANGED <<exitSet, error, defError, final, stale>>
    BY DEF ReplySuppressed, job, step, history, PostItem
  <2>2. QED
    BY <2>1, Zenon DEF TypeOK, Flags
<1>6. QED
    BY <1>1, <1>2, <1>3, <1>4, <1>5 DEF TypeOK

LEMMA TypeSendSucceeds == ASSUME TypeOK, SendSucceeds PROVE TypeOK'
<1>1. LogTypes'
    BY DEF SendSucceeds, TypeOK, LogTypes, FinishWaits
<1>2. JobTypes'
    BY DEF SendSucceeds, TypeOK, JobTypes, Statuses, FinishWaits
<1>3. StepTypes'
    BY DEF SendSucceeds, TypeOK, StepTypes, Awaits, RunToCompletion, GoTo, LogTypes, FinishWaits
<1>4. OtherTypes'
    BY DEF SendSucceeds, TypeOK, OtherTypes, counters, history, FinishWaits
<1>5. Flags'
  <2>1. UNCHANGED <<exitSet, error, defError, final, stale>>
    BY DEF SendSucceeds, job, step, history, FinishWaits
  <2>2. QED
    BY <2>1, Zenon DEF TypeOK, Flags
<1>6. QED
    BY <1>1, <1>2, <1>3, <1>4, <1>5 DEF TypeOK

LEMMA TypeSendFails == ASSUME TypeOK, SendFails PROVE TypeOK'
<1>1. LogTypes'
    BY DEF SendFails, TypeOK, LogTypes
<1>2. JobTypes'
    BY DEF SendFails, TypeOK, JobTypes, Statuses
<1>3. StepTypes'
    BY DEF SendFails, TypeOK, StepTypes, Awaits, RunToCompletion, GoTo, LogTypes
<1>4. OtherTypes'
    BY DEF SendFails, TypeOK, OtherTypes, counters, history
<1>5. Flags'
  <2>1. UNCHANGED <<exitSet, error, defError, stale>>
    BY DEF SendFails, job, step, history
  <2>2. final' = FALSE
    BY DEF SendFails
  <2>3. QED
    BY <2>1, <2>2, Zenon DEF TypeOK, Flags
<1>6. QED
    BY <1>1, <1>2, <1>3, <1>4, <1>5 DEF TypeOK

LEMMA TypeFinalReply == ASSUME TypeOK, FinalReply PROVE TypeOK'
<1>1. LogTypes'
    BY DrainType, AppendType DEF FinalReply, FollowUp, HandleReminder, Kinds
<1>2. JobTypes'
    BY DEF FinalReply, TypeOK, JobTypes, Statuses, FollowUp
<1>3. StepTypes'
    BY DEF FinalReply, TypeOK, StepTypes, Awaits, RunToCompletion, GoTo, LogTypes, FollowUp
<1>4. OtherTypes'
    BY DEF FinalReply, TypeOK, OtherTypes, counters, history, FollowUp
<1>5. Flags'
  <2>1. UNCHANGED <<error, defError, final, stale>>
    BY DEF FinalReply, job, step, history, FollowUp
  <2>2. exitSet' \in {exitSet, FALSE}
    BY DEF FinalReply, FollowUp
  <2>3. QED
    BY <2>1, <2>2, Zenon DEF TypeOK, Flags
<1>6. QED
    BY <1>1, <1>2, <1>3, <1>4, <1>5 DEF TypeOK

LEMMA TypeCheckPasses == ASSUME TypeOK, CheckPasses PROVE TypeOK'
<1>1. LogTypes'
    BY DEF CheckPasses, TypeOK, LogTypes, Leave, job
<1>2. JobTypes'
    BY DEF CheckPasses, TypeOK, JobTypes, Statuses, Leave, job
<1>3. StepTypes'
    BY DEF CheckPasses, TypeOK, StepTypes, Awaits, RunToCompletion, GoTo, LogTypes, Leave, job
<1>4. OtherTypes'
    BY DEF CheckPasses, TypeOK, OtherTypes, counters, history, Leave, job
<1>5. Flags'
  <2>1. UNCHANGED <<exitSet, error, defError, stale>>
    BY DEF CheckPasses, job, step, history, Leave, job
  <2>2. final' = FALSE
    BY DEF CheckPasses, Leave, job
  <2>3. QED
    BY <2>1, <2>2, Zenon DEF TypeOK, Flags
<1>6. QED
    BY <1>1, <1>2, <1>3, <1>4, <1>5 DEF TypeOK

LEMMA TypeFinish == ASSUME TypeOK, Finish PROVE TypeOK'
<1>1. LogTypes'
    BY DEF Finish, TypeOK, LogTypes, Leave
<1>2. JobTypes'
    BY DEF Finish, TypeOK, JobTypes, Statuses, Leave
<1>3. StepTypes'
    BY DEF Finish, TypeOK, StepTypes, Awaits, RunToCompletion, GoTo, LogTypes, Leave
<1>4. OtherTypes'
    BY DEF Finish, TypeOK, OtherTypes, counters, history, Leave
<1>5. Flags'
  <2>1. UNCHANGED <<error, defError, stale>>
    BY DEF Finish, job, step, history, Leave
  <2>2. exitSet' = (exitSet /\ ~final) /\ final' = FALSE
    BY DEF Finish, Leave
  <2>3. QED
    BY <2>1, <2>2, Zenon DEF TypeOK, Flags
<1>6. QED
    BY <1>1, <1>2, <1>3, <1>4, <1>5 DEF TypeOK

LEMMA TypeHarnessStops == ASSUME TypeOK, HarnessStops PROVE TypeOK'
<1>1. LogTypes'
    BY DEF HarnessStops, TypeOK, LogTypes, NotifyHandlers, Leave, FinishWaits, history
<1>2. JobTypes'
    BY DEF HarnessStops, TypeOK, JobTypes, Statuses, NotifyHandlers, Leave, FinishWaits, history
<1>3. StepTypes'
    BY DEF HarnessStops, TypeOK, StepTypes, Awaits, RunToCompletion, GoTo, LogTypes, NotifyHandlers, Leave, FinishWaits, history
<1>4. OtherTypes'
  <2>1. reported' \in Seq(Messages)
    BY NotifyType DEF HarnessStops
  <2>2. QED
    BY <2>1 DEF HarnessStops, TypeOK, OtherTypes, counters
<1>5. Flags'
  <2>1. UNCHANGED <<defError, stale>>
    BY DEF HarnessStops, job, step, history, NotifyHandlers, Leave, FinishWaits, history
  <2>2. exitSet' = TRUE /\ error' = TRUE /\ final' = FALSE
    BY DEF HarnessStops, NotifyHandlers, Leave, FinishWaits, history
  <2>3. QED
    BY <2>1, <2>2, Zenon DEF TypeOK, Flags
<1>6. QED
    BY <1>1, <1>2, <1>3, <1>4, <1>5 DEF TypeOK

LEMMA TypeStepFails == ASSUME TypeOK, StepFails PROVE TypeOK'
<1>1. LogTypes'
    BY DEF StepFails, TypeOK, LogTypes, NotifyHandlers, Leave
<1>2. JobTypes'
    BY DEF StepFails, TypeOK, JobTypes, Statuses, NotifyHandlers, Leave
<1>3. StepTypes'
    BY DEF StepFails, TypeOK, StepTypes, Awaits, RunToCompletion, GoTo, LogTypes, NotifyHandlers, Leave
<1>4. OtherTypes'
  <2>1. reported' \in Seq(Messages)
    BY NotifyType DEF StepFails
  <2>2. QED
    BY <2>1 DEF StepFails, TypeOK, OtherTypes, counters
<1>5. Flags'
  <2>1. UNCHANGED <<exitSet, defError, stale>>
    BY DEF StepFails, job, step, history, NotifyHandlers, Leave
  <2>2. error' = TRUE /\ final' = FALSE
    BY DEF StepFails, NotifyHandlers, Leave
  <2>3. QED
    BY <2>1, <2>2, Zenon DEF TypeOK, Flags
<1>6. QED
    BY <1>1, <1>2, <1>3, <1>4, <1>5 DEF TypeOK

LEMMA TypeRelease == ASSUME TypeOK, Release PROVE TypeOK'
<1>1. LogTypes'
    BY DEF Release, TypeOK, LogTypes, step
<1>2. JobTypes'
    BY DEF Release, TypeOK, JobTypes, Statuses, step
<1>3. StepTypes'
    BY DEF Release, TypeOK, StepTypes, Awaits, RunToCompletion, GoTo, LogTypes, step
<1>4. OtherTypes'
    BY DEF Release, TypeOK, OtherTypes, counters, history, step
<1>5. Flags'
  <2>1. UNCHANGED <<exitSet, error, defError, final, stale>>
    BY DEF Release, job, step, history, step
  <2>2. QED
    BY <2>1, Zenon DEF TypeOK, Flags
<1>6. QED
    BY <1>1, <1>2, <1>3, <1>4, <1>5 DEF TypeOK

LEMMA TypeRestart == ASSUME TypeOK, Restart PROVE TypeOK'
<1>1. LogTypes'
    BY DEF Restart, TypeOK, LogTypes, Leave, job
<1>2. JobTypes'
    BY DEF Restart, TypeOK, JobTypes, Statuses, Leave, job
<1>3. StepTypes'
    BY DEF Restart, TypeOK, StepTypes, Awaits, RunToCompletion, GoTo, LogTypes, Leave, job
<1>4. OtherTypes'
    BY DEF Restart, TypeOK, OtherTypes, counters, history, Leave, job
<1>5. Flags'
  <2>1. UNCHANGED <<exitSet, error, defError, stale>>
    BY DEF Restart, job, step, history, Leave, job
  <2>2. final' = FALSE
    BY DEF Restart, Leave, job
  <2>3. QED
    BY <2>1, <2>2, Zenon DEF TypeOK, Flags
<1>6. QED
    BY <1>1, <1>2, <1>3, <1>4, <1>5 DEF TypeOK

(* Steps 1 to 5.                                                           *)
LEMMA TypeBeginWarmup == ASSUME TypeOK, BeginWarmup PROVE TypeOK'
<1> DEFINE log == Append(chatLog, Item("warmup", NoMsg, Warmup[warmupNum]))
<1>1. warmupNum \in DOMAIN Warmup /\ Warmup[warmupNum] \in Block
    BY JobStepAssumption DEF BeginWarmup, HasWarmupBlock, TypeOK, JobTypes
<1>2. Item("warmup", NoMsg, Warmup[warmupNum]) \in LogItem
    BY <1>1, ItemType DEF Kinds
<1>3. log \in Seq(LogItem) /\ log # <<>>
    BY <1>2 DEF TypeOK, LogTypes
<1>4. -warmupNum \in Int
    BY DEF TypeOK, JobTypes
<1>5. Enter(log, -warmupNum)
    BY DEF BeginWarmup
<1>6. /\ chatLog' \in Seq(LogItem) /\ cur' \in DOMAIN chatLog' /\ cur' \in Nat
      /\ pc' \in {"tools", "exec"} /\ stale' \in BOOLEAN
    BY <1>3, <1>4, <1>5, EnterType
<1>7. LogTypes'
    BY <1>6 DEF BeginWarmup, TypeOK, LogTypes
<1>8. JobTypes'
    BY DEF BeginWarmup, TypeOK, JobTypes, Statuses
<1>9. StepTypes'
    BY <1>6 DEF BeginWarmup, TypeOK, StepTypes, Awaits
<1>10. OtherTypes'
    BY DEF BeginWarmup, TypeOK, OtherTypes, counters
<1>11. Flags'
  <2>1. UNCHANGED <<exitSet, error, defError, final>>
    BY DEF BeginWarmup
  <2>2. QED
    BY <1>6, <2>1, Zenon DEF TypeOK, Flags
<1>12. QED
    BY <1>7, <1>8, <1>9, <1>10, <1>11 DEF TypeOK

LEMMA TypeBeginReply == ASSUME TypeOK, BeginReply PROVE TypeOK'
<1>1. chatLog \in Seq(LogItem) /\ chatLog # <<>> /\ Len(chatLog) \in Int
    BY DEF BeginReply, HasReply, TypeOK, LogTypes
<1>2. Enter(chatLog, Len(chatLog))
    BY DEF BeginReply
<1>3. /\ chatLog' \in Seq(LogItem) /\ cur' \in DOMAIN chatLog' /\ cur' \in Nat
      /\ pc' \in {"tools", "exec"} /\ stale' \in BOOLEAN
    BY <1>1, <1>2, EnterType
<1>4. LogTypes'
    BY <1>3 DEF BeginReply, TypeOK, LogTypes
<1>5. JobTypes'
    BY DEF BeginReply, TypeOK, JobTypes
<1>6. StepTypes'
    BY <1>3 DEF BeginReply, TypeOK, StepTypes, Awaits
<1>7. OtherTypes'
    BY DEF BeginReply, TypeOK, OtherTypes, counters
<1>8. Flags'
  <2>1. UNCHANGED <<exitSet, error, defError, final>>
    BY DEF BeginReply
  <2>2. QED
    BY <1>3, <2>1, Zenon DEF TypeOK, Flags
<1>9. QED
    BY <1>4, <1>5, <1>6, <1>7, <1>8 DEF TypeOK

(* Step 7.                                                                 *)
LEMMA TypeExecSuspends == ASSUME TypeOK, ExecSuspends PROVE TypeOK'
<1>1. PICK position \in Position \cup {NoInstr}, f \in Futures, echo \in Futures \cup {NoFuture} :
          SuspendAt(position, f, echo)
  <2>1. CASE EchoBlocked /\ SuspendAt(IF nextInstr.part = FirstPart THEN nextInstr
                       ELSE IF RunsCode THEN NoInstr ELSE [part |-> "cli", at |-> -1],
                       future, future)
    <3>1. [part |-> "cli", at |-> -1] \in Position
      BY JobStepAssumption DEF Position
    <3>2. nextInstr \in Position \cup {NoInstr} /\ future \in Futures
      BY <2>1 DEF EchoBlocked, TypeOK, JobTypes
    <3>3. QED
      BY <2>1, <3>1, <3>2
  <2>2. CASE \E p \in Reachable, f \in Futures \ ready :
                \E echo \in {f, NoFuture} : SuspendAt(p, f, echo)
    BY <2>2 DEF Reachable
  <2>3. QED
    BY <2>1, <2>2 DEF ExecSuspends
<1>2. LogTypes'
    BY DEF ExecSuspends, TypeOK, LogTypes
<1>3. JobTypes'
    BY <1>1 DEF ExecSuspends, SuspendAt, TypeOK, JobTypes, Statuses
<1>4. StepTypes'
    BY <1>1 DEF SuspendAt, Leave, StepTypes, Awaits
<1>5. OtherTypes'
  <2>1. owner' \in Int
    BY <1>1 DEF SuspendAt, TypeOK, JobTypes, StepTypes
  <2>2. QED
    BY <1>1, <2>1 DEF ExecSuspends, SuspendAt, TypeOK, OtherTypes
<1>6. Flags'
  <2>1. UNCHANGED <<exitSet, error, defError, stale>> /\ final' = FALSE
    BY <1>1 DEF ExecSuspends, SuspendAt, Leave
  <2>2. QED
    BY <2>1, Zenon DEF TypeOK, Flags
<1>7. QED
    BY <1>2, <1>3, <1>4, <1>5, <1>6 DEF TypeOK

(* Step 14.                                                                *)
LEMMA TypeReplyCommitted == ASSUME TypeOK, ReplyCommitted PROVE TypeOK'
<1>1. PICK b \in Replies, log \in {chatLog, Append(chatLog, PostItem)}, activated \in BOOLEAN :
          Commit(log, b, activated)
    BY DEF ReplyCommitted
<1>2. b \in Block
    BY NoBlockType DEF Replies
<1>3. Item("llm", NoMsg, b) \in LogItem /\ PostItem \in LogItem
    BY <1>2, ItemType, NoBlockType DEF Kinds, PostItem
<1>4. LogTypes'
  <2>1. log \in Seq(LogItem)
    BY <1>3 DEF TypeOK, LogTypes
  <2>2. QED
    BY <1>1, <1>3, <2>1 DEF ReplyCommitted, Commit, TypeOK, LogTypes
<1>5. JobTypes'
    BY DEF ReplyCommitted, TypeOK, JobTypes
<1>6. StepTypes'
    BY <1>1 DEF ReplyCommitted, Commit, GoTo, OpenWaits, TypeOK, StepTypes, Awaits, RunToCompletion
<1>7. OtherTypes'
  <2>1. posts' = posts \/ posts' = posts + 1
    BY Zenon DEF ReplyCommitted
  <2>2. during' \subseteq Messages
    BY <1>1 DEF Commit, TypeOK, OtherTypes
  <2>3. QED
    BY <2>1, <2>2 DEF ReplyCommitted, TypeOK, OtherTypes
<1>8. Flags'
  <2>1. UNCHANGED <<exitSet, error, defError, stale>>
    BY DEF ReplyCommitted
  <2>2. final' = (~activated /\ IsStepFinal(b))
    BY <1>1 DEF Commit
  <2>3. QED
    BY <2>1, <2>2, Zenon DEF TypeOK, Flags
<1>9. QED
    BY <1>4, <1>5, <1>6, <1>7, <1>8 DEF TypeOK

(* The environment.                                                        *)
LEMMA TypePushUserMessage ==
    ASSUME TypeOK, NEW m \in Messages, PushUserMessage(m) PROVE TypeOK'
<1>1. Item("user", m, NoBlock) \in LogItem /\ Placeholder \in LogItem
    BY ItemType, NoBlockType, JobStepAssumption DEF Kinds, Placeholder
<1>2. LogTypes'
  <2> DEFINE logged == IF Dialog THEN Append(chatLog, Item("user", m, NoBlock)) ELSE chatLog
  <2>1. logged \in Seq(LogItem) /\ Append(logged, Placeholder) \in Seq(LogItem)
    BY <1>1 DEF TypeOK, LogTypes
  <2>2. chatLog' \in {logged, Append(logged, Placeholder)}
    BY DEF PushUserMessage
  <2>3. pushLog' \in Seq(Messages)
    BY DEF PushUserMessage, TypeOK, LogTypes
  <2>4. QED
    BY <2>1, <2>2, <2>3 DEF PushUserMessage, TypeOK, LogTypes
<1>3. JobTypes'
  <2>1. completions' \in Nat /\ status' \in Statuses
    BY DEF PushUserMessage, TypeOK, JobTypes, Statuses
  <2>2. QED
    BY <2>1 DEF PushUserMessage, TypeOK, JobTypes
<1>4. StepTypes'
  <2>1. DOMAIN chatLog \subseteq DOMAIN chatLog'
    BY <1>1 DEF PushUserMessage, TypeOK, LogTypes
  <2>2. QED
    BY <2>1 DEF PushUserMessage, TypeOK, StepTypes, step
<1>5. OtherTypes'
    BY DEF PushUserMessage, TypeOK, OtherTypes, counters
<1>6. Flags'
  <2>1. UNCHANGED <<error, defError, final, stale>>
    BY DEF PushUserMessage, step
  <2>2. exitSet' \in {exitSet, FALSE}
    BY DEF PushUserMessage
  <2>3. QED
    BY <2>1, <2>2, Zenon DEF TypeOK, Flags
<1>7. QED
    BY <1>2, <1>3, <1>4, <1>5, <1>6 DEF TypeOK

LEMMA TypeNotify == ASSUME TypeOK, NEW n \in Notes, Notify(n) PROVE TypeOK'
<1>1. Item("note", n, NoBlock) \in LogItem
    BY ItemType, NoBlockType, JobStepAssumption DEF Kinds
<1>2. LogTypes'
  <2>1. CASE chatLog' = Append(chatLog, Item("note", n, NoBlock)) /\ UNCHANGED pendingLog
    BY <1>1, <2>1 DEF Notify, TypeOK, LogTypes
  <2>2. CASE pendingLog' = Append(pendingLog, n) /\ UNCHANGED chatLog
    BY <2>2 DEF Notify, TypeOK, LogTypes
  <2>3. QED
    BY <2>1, <2>2 DEF Notify
<1>3. JobTypes'
    BY DEF Notify, TypeOK, JobTypes, Statuses
<1>4. StepTypes'
  <2>1. DOMAIN chatLog \subseteq DOMAIN chatLog'
    BY <1>1 DEF Notify, TypeOK, LogTypes
  <2>2. QED
    BY <2>1 DEF Notify, TypeOK, StepTypes, step
<1>5. OtherTypes'
    BY DEF Notify, TypeOK, OtherTypes, counters
<1>6. Flags'
  <2>1. UNCHANGED <<error, defError, final, stale>>
    BY DEF Notify, step
  <2>2. exitSet' \in {exitSet, FALSE}
    BY DEF Notify
  <2>3. QED
    BY <2>1, <2>2, Zenon DEF TypeOK, Flags
<1>7. QED
    BY <1>2, <1>3, <1>4, <1>5, <1>6 DEF TypeOK

LEMMA TypeFuture ==
    ASSUME TypeOK, NEW f \in Futures, Satisfy(f) \/ Lapse(f) PROVE TypeOK'
<1>1. ready' \subseteq Futures
    BY DEF Satisfy, Lapse, TypeOK, OtherTypes
<1>2. UNCHANGED <<job, step, counters, history>>
    BY DEF Satisfy, Lapse
<1>3. LogTypes' /\ JobTypes' /\ StepTypes' /\ Flags'
    BY <1>2 DEF job, step, history, TypeOK, LogTypes, JobTypes, StepTypes, Flags
<1>4. OtherTypes'
    BY <1>1, <1>2 DEF counters, history, TypeOK, OtherTypes
<1>5. QED
    BY <1>3, <1>4 DEF TypeOK

LEMMA TypeStutter == ASSUME TypeOK, UNCHANGED vars PROVE TypeOK'
    BY DEF vars, job, step, counters, history, TypeOK, LogTypes, JobTypes,
           StepTypes, OtherTypes, Flags

LEMMA TypeNext == TypeOK /\ [Next]_vars => TypeOK'
<1> SUFFICES ASSUME TypeOK, [Next]_vars PROVE TypeOK'
    OBVIOUS
<1>1. CASE Step
    BY <1>1, TypeBeginWarmup, TypeBeginReply, TypeBeginRequest, TypeFinishTools,
       TypeExecCompletes, TypeExecSuspends, TypeExecRaises, TypeAfterExec,
       TypeSendRequest, TypeReplySuppressed, TypeReplyCommitted, TypeSendSucceeds,
       TypeSendFails, TypeFinalReply, TypeCheckPasses, TypeFinish,
       TypeHarnessStops, TypeStepFails, TypeDelivery DEF Step, Delivery
<1>2. CASE Release
    BY <1>2, TypeRelease
<1>3. CASE Environment
    BY <1>3, TypePushUserMessage, TypeNotify, TypeFuture, TypeRestart DEF Environment
<1>4. CASE UNCHANGED vars
    BY <1>4, TypeStutter
<1>5. QED
    BY <1>1, <1>2, <1>3, <1>4 DEF Next

(* Every variable of the job and of the step keeps to the values the       *)
(* program can give it.                                                    *)
THEOREM TypeCorrect == Spec => []TypeOK
    BY InitTypeOK, TypeNext, PTL DEF Spec

-----------------------------------------------------------------------------
(* The job's status.  That no waiting job is lost rests on what a running  *)
(* step may assume of its job: nothing outside the step ends or suspends   *)
(* it while it awaits.                                                     *)
RunningStatus == pc # "idle" => status \in {"WARMING_UP", "STARTED"}
StatusInv == RunningStatus /\ WaitersAreFound

LEMMA StatusStep == ASSUME TypeOK, StatusInv, Step PROVE StatusInv'
<1> USE DEF StatusInv, RunningStatus, WaitersAreFound
<1>1. CASE BeginWarmup
    BY <1>1 DEF BeginWarmup, MayBegin, Schedulable
<1>2. CASE BeginReply
    BY <1>2 DEF BeginReply, MayBegin, Schedulable, HasReply
<1>3. CASE BeginRequest
    BY <1>3 DEF BeginRequest, MayBegin, Schedulable
<1>4. CASE FinishTools
    BY <1>4 DEF FinishTools
<1>5. CASE ExecCompletes
    BY <1>5 DEF ExecCompletes, GoTo
<1>6. CASE ExecSuspends
  <2>1. pc' = "idle" /\ status' = IF status = "STARTED" THEN "SUSPENDED" ELSE status
    BY <1>6 DEF ExecSuspends, SuspendAt, Leave
  <2>2. awaited' # NoFuture
    BY <1>6, JobStepAssumption DEF ExecSuspends, SuspendAt, EchoBlocked
  <2>3. QED
    BY <1>6, <2>1, <2>2 DEF ExecSuspends
<1>7. CASE ExecRaises
    BY <1>7 DEF ExecRaises, GoTo, Leave
<1>8. CASE AfterExec
    BY <1>8 DEF AfterExec, FollowUp, GoTo
<1>9. CASE SendRequest
    BY <1>9 DEF SendRequest
<1>10. CASE ReplySuppressed
    BY <1>10 DEF ReplySuppressed
<1>11. CASE ReplyCommitted
    BY <1>11 DEF ReplyCommitted
<1>12. CASE SendSucceeds \/ SendFails
    BY <1>12 DEF SendSucceeds, SendFails
<1>13. CASE FinalReply
    BY <1>13 DEF FinalReply
<1>14. CASE CheckPasses
    BY <1>14 DEF CheckPasses, Leave, job
<1>15. CASE Finish
    BY <1>15 DEF Finish, Leave
<1>16. CASE HarnessStops
    BY <1>16 DEF HarnessStops, Leave
<1>17. CASE StepFails
    BY <1>17 DEF StepFails, Leave
<1>18. CASE Delivery
    BY <1>18, DeliveryKeeps
<1>19. QED
    BY <1>1, <1>2, <1>3, <1>4, <1>5, <1>6, <1>7, <1>8, <1>9, <1>10, <1>11, <1>12,
       <1>13, <1>14, <1>15, <1>16, <1>17, <1>18 DEF Step, Delivery

LEMMA StatusNext == TypeOK /\ StatusInv /\ [Next]_vars => StatusInv'
<1> SUFFICES ASSUME TypeOK, StatusInv, [Next]_vars PROVE StatusInv'
    OBVIOUS
<1>1. CASE Step
    BY <1>1, StatusStep
<1>2. CASE Release
    BY <1>2 DEF Release, step, StatusInv, RunningStatus, WaitersAreFound
<1>3. CASE Environment
  <2> USE DEF StatusInv, RunningStatus, WaitersAreFound
  <2>1. CASE \E m \in Messages : PushUserMessage(m)
    BY <2>1 DEF PushUserMessage, step
  <2>2. CASE \E n \in Notes : Notify(n)
    BY <2>2 DEF Notify, step
  <2>3. CASE \E f \in Futures : Satisfy(f) \/ Lapse(f)
    BY <2>3 DEF Satisfy, Lapse, job, step
  <2>4. CASE Restart
    BY <2>4 DEF Restart, Leave, job
  <2>5. QED
    BY <1>3, <2>1, <2>2, <2>3, <2>4 DEF Environment
<1>4. CASE UNCHANGED vars
    BY <1>4 DEF vars, job, step, StatusInv, RunningStatus, WaitersAreFound
<1>5. QED
    BY <1>1, <1>2, <1>3, <1>4 DEF Next

(* No waiting job is ever in a status unsuspend_jobs does not look at, and *)
(* none is SUSPENDED without the future that would release it.             *)
THEOREM WaitersFound == Spec => []WaitersAreFound
<1>1. Init => StatusInv
    BY DEF Init, StatusInv, RunningStatus, WaitersAreFound
<1>2. Spec => []StatusInv
    BY <1>1, TypeCorrect, StatusNext, PTL DEF Spec
<1>3. StatusInv => WaitersAreFound
    BY DEF StatusInv
<1>4. QED
    BY <1>2, <1>3, PTL

-----------------------------------------------------------------------------
(* The abstract life cycle.                                                *)

LEMMA LifecycleStep ==
    ASSUME TypeOK, StatusInv, [Next]_vars
    PROVE  [Lifecycle!Next]_(Lifecycle!lifecycle)
<1> DEFINE Stutters == UNCHANGED <<status, awaited>>
           Ends == /\ awaited = NoFuture /\ status \in {"READY", "WARMING_UP", "STARTED"}
                   /\ status' = "DONE" /\ UNCHANGED awaited
           Begins == /\ awaited = NoFuture /\ UNCHANGED awaited
                     /\ \/ status = "READY" /\ status' = "WARMING_UP"
                        \/ status \in {"READY", "WARMING_UP"} /\ status' = "STARTED"
           Waits == /\ awaited = NoFuture /\ awaited' # NoFuture
                    /\ \/ status = "STARTED" /\ status' = "SUSPENDED"
                       \/ status = "WARMING_UP" /\ UNCHANGED status
           Resumes == /\ awaited # NoFuture /\ awaited' = NoFuture
                      /\ \/ status = "SUSPENDED" /\ status' = "STARTED"
                         \/ status = "WARMING_UP" /\ UNCHANGED status
           Reopens == status = "DONE" /\ status' = "STARTED" /\ UNCHANGED awaited
<1>1. Stutters \/ Ends \/ Begins \/ Waits \/ Resumes \/ Reopens
  <2> USE DEF StatusInv, RunningStatus, WaitersAreFound
  <2>1. CASE BeginWarmup \/ BeginReply \/ BeginRequest
    BY <2>1 DEF BeginWarmup, BeginReply, BeginRequest, MayBegin, Schedulable, HasWarmupBlock
  <2>2. CASE FinishTools \/ SendRequest \/ ReplySuppressed \/ SendSucceeds \/ SendFails
    BY <2>2 DEF FinishTools, SendRequest, ReplySuppressed, SendSucceeds, SendFails
  <2>3. CASE ExecCompletes
    BY <2>3 DEF ExecCompletes
  <2>4. CASE ExecSuspends
    <3>1. status' = IF status = "STARTED" THEN "SUSPENDED" ELSE status
      BY <2>4 DEF ExecSuspends, SuspendAt
    <3>2. awaited' # NoFuture
      BY <2>4, JobStepAssumption DEF ExecSuspends, SuspendAt, EchoBlocked
    <3>3. pc = "exec"
      BY <2>4 DEF ExecSuspends
    <3>4. QED
      BY <3>1, <3>2, <3>3
  <2>5. CASE ExecRaises
    BY <2>5 DEF ExecRaises
  <2>6. CASE AfterExec
    BY <2>6 DEF AfterExec, FollowUp
  <2>7. CASE ReplyCommitted \/ FinalReply
    BY <2>7 DEF ReplyCommitted, FinalReply
  <2>8. CASE CheckPasses
    BY <2>8 DEF CheckPasses, job
  <2>9. CASE Finish \/ HarnessStops \/ StepFails
    BY <2>9 DEF Finish, HarnessStops, StepFails
  <2>10. CASE Release
    BY <2>10 DEF Release
  <2>11. CASE Environment
    BY <2>11 DEF Environment, PushUserMessage, Notify, Satisfy, Lapse, Restart, job
  <2>12. CASE UNCHANGED vars
    BY <2>12 DEF vars, job
  <2>13. CASE Delivery
    BY <2>13, DeliveryKeeps
  <2>14. QED
    BY <2>1, <2>2, <2>3, <2>4, <2>5, <2>6, <2>7, <2>8, <2>9, <2>10, <2>11, <2>12, <2>13
    DEF Next, Step, Delivery
<1>2. QED
    BY <1>1 DEF Lifecycle!Next, Lifecycle!lifecycle, Lifecycle!Warm, Lifecycle!Start,
        Lifecycle!Wait, Lifecycle!Resume, Lifecycle!End, Lifecycle!Reopen

(* The job's status and wait move only as JobLifecycle allows.             *)
THEOREM ImplementsLifecycle == Spec => LifecycleSpec
<1>1. Init => Lifecycle!Init
    BY DEF Init, Lifecycle!Init
<1>2. Init => StatusInv
    BY DEF Init, StatusInv, RunningStatus, WaitersAreFound
<1>3. Spec => []StatusInv
    BY <1>2, TypeCorrect, StatusNext, PTL DEF Spec
<1>4. QED
    BY <1>1, <1>3, TypeCorrect, LifecycleStep, PTL
    DEF Spec, LifecycleSpec, Lifecycle!Spec

-----------------------------------------------------------------------------
(* Messages: the waits a delivery ends and the inputs a failure reports.   *)
(* Everything a step or a handler still refers to has been pushed before.  *)
Told == {reported[i] : i \in DOMAIN reported}
MessageInv ==
    /\ snapshot \cup during \cup Told \cup ({bound} \ {NoMsg}) \subseteq Pushed
    /\ snapshot \cap during = {}
    /\ bound \notin Told
    /\ ReportedOnce

LEMMA NotifyMessages ==
    ASSUME TypeOK, MessageInv, NotifyHandlers
    PROVE  Told' \subseteq Pushed /\ bound' = NoMsg /\ bound' \notin Told' /\ ReportedOnce'
<1>1. reported \in Seq(Messages) /\ bound \in Messages \cup {NoMsg}
    BY DEF TypeOK, OtherTypes, JobTypes
<1>2. CASE bound = NoMsg
    BY <1>1, <1>2, JobStepAssumption DEF NotifyHandlers, MessageInv, Told, ReportedOnce
<1>3. CASE bound # NoMsg
  <2>1. reported' = Append(reported, bound) /\ bound' = NoMsg /\ bound \in Messages
    BY <1>1, <1>3 DEF NotifyHandlers
  <2>2. Told' = Told \cup {bound}
    BY <1>1, <2>1 DEF Told
  <2>3. ReportedOnce'
    BY <1>1, <2>1 DEF MessageInv, ReportedOnce, Told
  <2>4. NoMsg \notin Told'
    BY <1>1, <2>1, <2>2, JobStepAssumption DEF Told
  <2>5. QED
    BY <1>3, <2>1, <2>2, <2>3, <2>4 DEF MessageInv
<1>4. QED
    BY <1>2, <1>3

(* Ending waits neither pushes a message nor takes one back.               *)
LEMMA FinishWaitsPushed ==
    ASSUME TypeOK, NEW ms, FinishWaits(ms) PROVE Pushed' = Pushed
    BY DEF FinishWaits, Pushed, TypeOK, JobTypes

LEMMA MessageStep == ASSUME TypeOK, MessageInv, Step PROVE MessageInv'
<1> USE DEF MessageInv
<1>1. CASE UNCHANGED <<wait, snapshot, during, bound, reported>>
    BY <1>1 DEF Pushed, Told, ReportedOnce
<1>2. CASE BeginWarmup \/ BeginReply \/ BeginRequest
    BY <1>1, <1>2 DEF BeginWarmup, BeginReply, BeginRequest, history
<1>3. CASE AfterExec \/ SendRequest \/ ReplySuppressed \/ FinalReply
    BY <1>1, <1>3 DEF AfterExec, SendRequest, ReplySuppressed, FinalReply, history
<1>4. CASE FinishTools \/ ExecCompletes \/ ExecSuspends \/ CheckPasses \/ Finish
  <2>1. snapshot' = {} /\ UNCHANGED <<wait, during, bound, reported>>
    BY <1>4 DEF FinishTools, ExecCompletes, ExecSuspends, SuspendAt, CheckPasses, Finish, Leave, job, history
  <2>2. QED
    BY <2>1 DEF Pushed, Told, ReportedOnce
<1>5. CASE ExecRaises
  <2>1. snapshot' = {} /\ UNCHANGED <<wait, during>>
    BY <1>5 DEF ExecRaises, Leave
  <2>2. CASE NotifyHandlers
    BY <2>1, <2>2, NotifyMessages DEF Pushed
  <2>3. CASE UNCHANGED <<bound, reported>>
    BY <2>1, <2>3 DEF Pushed, Told, ReportedOnce
  <2>4. QED
    BY <1>5, <2>2, <2>3 DEF ExecRaises
<1>6. CASE ReplyCommitted
  <2>1. \/ snapshot' = OpenWaits /\ during' = {}
        \/ UNCHANGED <<snapshot, during>>
    BY <1>6 DEF ReplyCommitted, Commit
  <2>2. UNCHANGED <<wait, bound, reported>>
    BY <1>6 DEF ReplyCommitted
  <2>3. OpenWaits \subseteq Pushed
    BY DEF OpenWaits, Pushed
  <2>4. QED
    BY <2>1, <2>2, <2>3 DEF Pushed, Told, ReportedOnce
<1>7. CASE SendSucceeds
  <2>1. Pushed' = Pushed /\ snapshot' = {} /\ UNCHANGED <<during, bound, reported>>
    BY <1>7, FinishWaitsPushed DEF SendSucceeds, history
  <2>2. QED
    BY <2>1 DEF Told, ReportedOnce
<1>8. CASE SendFails
  <2>1. snapshot' = {} /\ UNCHANGED <<wait, during, bound, reported>>
    BY <1>8 DEF SendFails, history
  <2>2. QED
    BY <2>1 DEF Pushed, Told, ReportedOnce
<1>9. CASE HarnessStops \/ StepFails
  <2>1. Pushed' = Pushed
    BY <1>9, FinishWaitsPushed DEF HarnessStops, StepFails, Pushed
  <2>2. snapshot' = {} /\ UNCHANGED during /\ NotifyHandlers
    BY <1>9 DEF HarnessStops, StepFails, Leave
  <2>3. QED
    BY <2>1, <2>2, NotifyMessages
<1>10. CASE Delivery
  <2>1. UNCHANGED <<bound, reported>>
    BY <1>10, DeliveryKeeps
  <2>2. OpenWaits \subseteq Pushed
    BY DEF OpenWaits, Pushed
  <2>3. CASE SegmentSent
    <3>1. Pushed' = Pushed /\ snapshot' \subseteq OpenWaits /\ during' = {}
      BY <2>3, FinishWaitsPushed DEF SegmentSent
    <3>2. QED
      BY <2>1, <2>2, <3>1 DEF Told, ReportedOnce
  <2>4. CASE ToolDelivery
    <3>1. /\ Pushed' = Pushed
          /\ \/ snapshot' = OpenWaits /\ during' = {}
             \/ snapshot' = {} /\ during' = during
      BY <2>4, FinishWaitsPushed DEF ToolDelivery, Pushed
    <3>2. QED
      BY <2>1, <2>2, <3>1 DEF Told, ReportedOnce
  <2>5. QED
    BY <1>10, <2>3, <2>4 DEF Delivery
<1>11. QED
    BY <1>2, <1>3, <1>4, <1>5, <1>6, <1>7, <1>8, <1>9, <1>10 DEF Step, Delivery

LEMMA MessageNext == TypeOK /\ MessageInv /\ [Next]_vars => MessageInv'
<1> SUFFICES ASSUME TypeOK, MessageInv, [Next]_vars PROVE MessageInv'
    OBVIOUS
<1>1. CASE Step
    BY <1>1, MessageStep
<1>2. ASSUME NEW m \in Messages, PushUserMessage(m) PROVE MessageInv'
  <2>1. m \notin Pushed /\ Pushed' = Pushed \cup {m}
    BY <1>2 DEF PushUserMessage, Pushed, TypeOK, JobTypes
  <2>2. during' = during \cup {m} /\ bound' = m /\ UNCHANGED <<snapshot, reported>>
    BY <1>2 DEF PushUserMessage, step
  <2>3. QED
    BY <2>1, <2>2 DEF MessageInv, Told, ReportedOnce
<1>3. CASE Restart
  <2>1. snapshot' = {} /\ UNCHANGED <<wait, during, bound, reported>>
    BY <1>3 DEF Restart, Leave, job, history
  <2>2. QED
    BY <2>1 DEF MessageInv, Pushed, Told, ReportedOnce
<1>4. ASSUME UNCHANGED <<wait, snapshot, during, bound, reported>> PROVE MessageInv'
    BY <1>4 DEF MessageInv, Pushed, Told, ReportedOnce
<1>5. CASE Release
    BY <1>4, <1>5 DEF Release, step, history
<1>6. CASE \E n \in Notes : Notify(n)
    BY <1>4, <1>6 DEF Notify, step
<1>7. CASE \E f \in Futures : Satisfy(f) \/ Lapse(f)
    BY <1>4, <1>7 DEF Satisfy, Lapse, job, step, history
<1>8. CASE UNCHANGED vars
    BY <1>4, <1>8 DEF vars, job, step, history
<1>9. QED
    BY <1>1, <1>2, <1>3, <1>5, <1>6, <1>7, <1>8 DEF Next, Environment

LEMMA MessagesInvariant == Spec => []MessageInv
<1>1. Init => MessageInv
    BY JobStepAssumption DEF Init, MessageInv, Pushed, Told, ReportedOnce
<1>2. QED
    BY <1>1, TypeCorrect, MessageNext, PTL DEF Spec

(* A critical failure is reported to the handlers at most once for every   *)
(* accepted input, however often the job is restarted and fails.           *)
THEOREM FailuresReportedOnce == Spec => []ReportedOnce
<1>1. MessageInv => ReportedOnce
    BY DEF MessageInv
<1>2. QED
    BY <1>1, MessagesInvariant, PTL

(* Each delivery, of a segment of a reply or by the send_message tool, ends  *)
(* no wait of a message that arrived since it began, and nothing else ends  *)
(* one but a failure that ends the job.                                     *)
THEOREM DeliveryEndsOldWaits == Spec => LateMessagesKeepWaiting
<1>1. ASSUME TypeOK, MessageInv, [Next]_vars,
             NEW m \in Messages, wait[m] = "open", wait'[m] = "closed"
      PROVE  \/ pc \in {"tools", "exec", "send"} /\ m \notin during
             \/ status' = "DONE"
  <2>1. CASE SendSucceeds
    BY <1>1, <2>1 DEF SendSucceeds, FinishWaits, MessageInv
  <2>11. CASE SegmentSent
    BY <1>1, <2>11 DEF SegmentSent, FinishWaits, MessageInv
  <2>12. CASE ToolDelivery
    BY <1>1, <2>12 DEF ToolDelivery, MayCallTools, FinishWaits, MessageInv
  <2>2. CASE HarnessStops
    BY <2>2 DEF HarnessStops
  <2>3. ASSUME UNCHANGED wait PROVE FALSE
    BY <1>1, <2>3
  <2>4. CASE Step
    BY <2>1, <2>11, <2>12, <2>2, <2>3, <2>4 DEF Step, BeginWarmup, BeginReply, BeginRequest, FinishTools,
       ExecCompletes, ExecSuspends, ExecRaises, AfterExec, SendRequest, ReplySuppressed,
       ReplyCommitted, SendFails, FinalReply, CheckPasses, Finish, StepFails, job
  <2>5. CASE Release \/ Restart
    BY <2>3, <2>5 DEF Release, Restart, job
  <2>6. ASSUME NEW k \in Messages, PushUserMessage(k) PROVE FALSE
    BY <1>1, <2>6 DEF PushUserMessage, TypeOK, JobTypes
  <2>7. CASE \E n \in Notes : Notify(n)
    BY <2>3, <2>7 DEF Notify
  <2>8. CASE \E f \in Futures : Satisfy(f) \/ Lapse(f)
    BY <2>3, <2>8 DEF Satisfy, Lapse, job
  <2>9. CASE UNCHANGED vars
    BY <2>3, <2>9 DEF vars, job
  <2>10. QED
    BY <1>1, <2>4, <2>5, <2>6, <2>7, <2>8, <2>9 DEF Next, Environment
<1>2. TypeOK /\ MessageInv /\ [Next]_vars =>
        [\A m \in Messages :
            wait[m] = "open" /\ wait'[m] = "closed" =>
                \/ pc \in {"tools", "exec", "send"} /\ m \notin during
                \/ status' = "DONE"]_vars
    BY <1>1
<1>3. QED
    BY <1>2, TypeCorrect, MessagesInvariant, PTL DEF Spec, LateMessagesKeepWaiting

-----------------------------------------------------------------------------
(* Notifications.  However run_job_step and its environment interleave, a  *)
(* step moves notifications in one of four ways: not at all, from the      *)
(* pending list to the history, or by the delivery of one, to the history  *)
(* of a DONE job or to the pending list of any other.                      *)
Kept ==
    \A i \in DOMAIN chatLog :
        /\ i \in DOMAIN chatLog'
        /\ chatLog'[i].kind = chatLog[i].kind /\ chatLog'[i].ref = chatLog[i].ref
        /\ chatLog'[i].block = chatLog[i].block
        /\ chatLog[i].tools => chatLog'[i].tools
NotesStay ==
    /\ UNCHANGED <<pendingLog, sent>> /\ Kept
    /\ \A i \in DOMAIN chatLog' \ DOMAIN chatLog : chatLog'[i].kind # "note"
NotesDrain == chatLog' = DrainedLog /\ pendingLog' = <<>> /\ UNCHANGED sent
Arrives(n) == n \notin Delivered /\ sent' = Append(sent, n)
NoteLogged(n) ==
    /\ Arrives(n) /\ UNCHANGED pendingLog /\ status = "DONE"
    /\ chatLog' = Append(chatLog, Item("note", n, NoBlock))
NoteQueued(n) ==
    /\ Arrives(n) /\ UNCHANGED chatLog
    /\ pendingLog' = Append(pendingLog, n)

LEMMA AppendKeeps ==
    ASSUME TypeOK, NEW item \in LogItem, item.kind # "note",
           chatLog' = Append(chatLog, item), UNCHANGED <<pendingLog, sent>>
    PROVE  NotesStay
<1>1. /\ DOMAIN chatLog = 1..Len(chatLog) /\ Len(chatLog) \in Nat
      /\ DOMAIN chatLog' = 1..(Len(chatLog) + 1)
      /\ \A i \in DOMAIN chatLog : chatLog'[i] = chatLog[i]
      /\ chatLog'[Len(chatLog) + 1] = item
    BY DEF TypeOK, LogTypes
<1>2. QED
    BY <1>1 DEF NotesStay, Kept

LEMMA UnchangedKeeps ==
    ASSUME UNCHANGED <<chatLog, pendingLog, sent>>
    PROVE  NotesStay
    BY DEF NotesStay, Kept

LEMMA EnterKeeps ==
    ASSUME TypeOK, UNCHANGED <<pendingLog, sent>>, NEW id,
           NEW item \in LogItem, item.kind # "note",
           \/ chatLog # <<>> /\ Enter(chatLog, id)
           \/ Enter(Append(chatLog, item), id)
    PROVE  NotesStay
<1> DEFINE Updated(log) == [log EXCEPT ![Len(log)] = Allocate(@)]
<1>1. chatLog \in Seq(LogItem) /\ Len(chatLog) \in Nat /\ DOMAIN chatLog = 1..Len(chatLog)
    BY DEF TypeOK, LogTypes
<1>2. ASSUME NEW it \in LogItem
      PROVE  /\ Allocate(it).kind = it.kind /\ Allocate(it).ref = it.ref
             /\ Allocate(it).block = it.block /\ (it.tools => Allocate(it).tools)
    BY DEF Allocate, LogItem
<1>3. CASE chatLog # <<>> /\ Enter(chatLog, id)
  <2>1. chatLog' = Updated(chatLog)
    BY <1>3 DEF Enter
  <2>2. \A i \in DOMAIN chatLog : chatLog'[i] \in {chatLog[i], Allocate(chatLog[i])}
    BY <1>1, <2>1
  <2>3. DOMAIN chatLog' = DOMAIN chatLog
    BY <2>1
  <2>4. QED
    BY <1>1, <1>2, <2>2, <2>3 DEF NotesStay, Kept
<1>4. CASE Enter(Append(chatLog, item), id)
  <2> DEFINE log == Append(chatLog, item)
  <2>1. /\ log \in Seq(LogItem) /\ Len(log) = Len(chatLog) + 1 /\ log[Len(log)] = item
        /\ DOMAIN log = 1..(Len(chatLog) + 1)
        /\ \A i \in DOMAIN chatLog : log[i] = chatLog[i]
    BY <1>1
  <2>2. chatLog' = Updated(log)
    BY <1>4 DEF Enter
  <2>3. \A i \in DOMAIN chatLog : chatLog'[i] = chatLog[i]
    <3> HIDE DEF log
    <3>1. \A i \in DOMAIN chatLog : i \in DOMAIN log /\ i # Len(log)
      BY <1>1, <2>1
    <3>2. \A i \in DOMAIN chatLog : chatLog'[i] = log[i]
      BY <2>2, <3>1
    <3>3. QED
      BY <2>1, <3>2
  <2>4. chatLog'[Len(log)] = Allocate(item) /\ DOMAIN chatLog' = 1..(Len(chatLog) + 1)
    BY <2>1, <2>2
  <2>5. QED
    BY <1>1, <1>2, <2>1, <2>3, <2>4 DEF NotesStay, Kept
<1>5. QED
    BY <1>3, <1>4

LEMMA NotesMove ==
    ASSUME TypeOK, [Next]_vars
    PROVE  \/ NotesStay
           \/ NotesDrain /\ CanDrain
           \/ \E n \in Notes : NoteLogged(n) \/ NoteQueued(n)
<1>1. CASE BeginWarmup
  <2>1. Warmup[warmupNum] \in Block
    BY <1>1, JobStepAssumption DEF BeginWarmup, HasWarmupBlock, TypeOK, JobTypes
  <2>2. Item("warmup", NoMsg, Warmup[warmupNum]) \in LogItem
    BY <2>1, ItemType DEF Kinds
  <2>3. Item("warmup", NoMsg, Warmup[warmupNum]).kind # "note"
    BY DEF Item
  <2>4. UNCHANGED <<pendingLog, sent>>
    BY <1>1 DEF BeginWarmup
  <2>5. Enter(Append(chatLog, Item("warmup", NoMsg, Warmup[warmupNum])), -warmupNum)
    BY <1>1 DEF BeginWarmup
  <2>6. QED
    BY <2>2, <2>3, <2>4, <2>5, EnterKeeps
<1>2. CASE BeginReply
  <2>1. chatLog # <<>> /\ Enter(chatLog, Len(chatLog)) /\ UNCHANGED <<pendingLog, sent>>
    BY <1>2 DEF BeginReply, HasReply
  <2>2. PostItem \in LogItem /\ PostItem.kind # "note"
    BY ItemType, NoBlockType DEF Kinds, PostItem, Item
  <2>3. QED
    BY <2>1, <2>2, EnterKeeps
<1>3. CASE BeginRequest \/ FinishTools \/ ExecCompletes \/ ExecSuspends \/ ExecRaises
  <2>1. UNCHANGED <<chatLog, pendingLog, sent>>
    BY <1>3 DEF BeginRequest, FinishTools, ExecCompletes, ExecSuspends, ExecRaises, history
  <2>2. QED
    BY <2>1, UnchangedKeeps
<1>4. CASE AfterExec \/ SendRequest
  <2>1. UNCHANGED sent
    BY <1>4 DEF AfterExec, SendRequest, history
  <2>2. UNCHANGED <<chatLog, pendingLog>>
        \/ (CanDrain /\ chatLog' = DrainedLog /\ pendingLog' = <<>>)
    BY <1>4 DEF AfterExec, SendRequest, FollowUp
  <2>3. QED
    BY <2>1, <2>2, UnchangedKeeps DEF NotesDrain
<1>5. CASE ReplySuppressed
  <2>1. chatLog' = Append(chatLog, PostItem) /\ UNCHANGED <<pendingLog, sent>>
    BY <1>5 DEF ReplySuppressed, history
  <2>2. PostItem \in LogItem /\ PostItem.kind # "note"
    BY ItemType, NoBlockType DEF Kinds, PostItem, Item
  <2>3. QED
    BY <2>1, <2>2, AppendKeeps
<1>6. CASE ReplyCommitted
  <2>1. PICK b \in Replies, log \in {chatLog, Append(chatLog, PostItem)} :
            chatLog' = Append(log, Item("llm", NoMsg, b))
    BY <1>6 DEF ReplyCommitted, Commit
  <2>2. UNCHANGED <<pendingLog, sent>>
    BY <1>6 DEF ReplyCommitted
  <2>3. b \in Block
    BY NoBlockType DEF Replies
  <2>4. /\ Item("llm", NoMsg, b) \in LogItem /\ Item("llm", NoMsg, b).kind = "llm"
        /\ PostItem \in LogItem /\ PostItem.kind = "post"
    BY <2>3, ItemType, NoBlockType DEF Kinds, PostItem, Item
  <2>5. chatLog \in Seq(LogItem) /\ Len(chatLog) \in Nat
    BY DEF TypeOK, LogTypes
  <2>6. CASE log = chatLog
    BY <2>1, <2>2, <2>4, <2>6, AppendKeeps
  <2>7. CASE log = Append(chatLog, PostItem)
    <3> DEFINE n == Len(chatLog)
    <3>1. /\ DOMAIN chatLog' = 1..(n + 2) /\ DOMAIN chatLog = 1..n
          /\ \A i \in 1..n : chatLog'[i] = chatLog[i]
          /\ chatLog'[n + 1] = PostItem /\ chatLog'[n + 2] = Item("llm", NoMsg, b)
      BY <2>1, <2>4, <2>5, <2>7
    <3>2. QED
      BY <2>2, <2>4, <2>5, <3>1 DEF NotesStay, Kept
  <2>8. QED
    BY <2>6, <2>7
<1>7. CASE FinalReply
  <2>1. UNCHANGED sent
    BY <1>7 DEF FinalReply, history
  <2>2. CASE HandleReminder /\ UNCHANGED pendingLog
    <3>1. Item("reminder", NoMsg, NoBlock) \in LogItem
      BY ItemType, NoBlockType DEF Kinds
    <3>2. Item("reminder", NoMsg, NoBlock).kind # "note"
      BY DEF Item
    <3>3. QED
      BY <2>1, <2>2, <3>1, <3>2, AppendKeeps DEF HandleReminder
  <2>3. CASE CanDrain /\ FollowUp
    BY <2>1, <2>3 DEF FollowUp, NotesDrain
  <2>4. CASE UNCHANGED <<chatLog, pendingLog>>
    BY <2>1, <2>4, UnchangedKeeps
  <2>5. QED
    BY <1>7, <2>2, <2>3, <2>4 DEF FinalReply
<1>8. CASE \/ SendSucceeds \/ SendFails \/ CheckPasses \/ Finish \/ HarnessStops \/ StepFails
           \/ Release \/ Restart \/ Delivery \/ \E f \in Futures : Satisfy(f) \/ Lapse(f)
  <2>1. UNCHANGED <<chatLog, pendingLog, sent>>
    BY <1>8, DeliveryKeeps DEF SendSucceeds, SendFails, CheckPasses, Finish, HarnessStops, StepFails,
       Release, Restart, Satisfy, Lapse, job, history
  <2>2. QED
    BY <2>1, UnchangedKeeps
<1>9. CASE UNCHANGED vars
    BY <1>9, UnchangedKeeps DEF vars, job, history
<1>10. ASSUME NEW m \in Messages, PushUserMessage(m) PROVE NotesStay
  <2> DEFINE u == Item("user", m, NoBlock)
  <2>1. /\ u \in LogItem /\ u.kind = "user"
        /\ Placeholder \in LogItem /\ Placeholder.kind = "llm"
    BY ItemType, NoBlockType, JobStepAssumption DEF Kinds, Placeholder, Item
  <2>2. UNCHANGED <<pendingLog, sent>>
    BY <1>10 DEF PushUserMessage
  <2>3. chatLog \in Seq(LogItem) /\ Len(chatLog) \in Nat
    BY DEF TypeOK, LogTypes
  <2>4. \/ UNCHANGED chatLog \/ chatLog' = Append(chatLog, u)
        \/ chatLog' = Append(chatLog, Placeholder)
        \/ chatLog' = Append(Append(chatLog, u), Placeholder)
    BY <1>10 DEF PushUserMessage
  <2>5. CASE chatLog' = Append(Append(chatLog, u), Placeholder)
    <3> DEFINE n == Len(chatLog)
    <3> HIDE DEF u
    <3>1. /\ DOMAIN chatLog' = 1..(n + 2) /\ DOMAIN chatLog = 1..n
          /\ \A i \in 1..n : chatLog'[i] = chatLog[i]
          /\ chatLog'[n + 1] = u /\ chatLog'[n + 2] = Placeholder
      BY <2>1, <2>3, <2>5
    <3>2. QED
      BY <2>1, <2>2, <2>3, <3>1 DEF NotesStay, Kept
  <2>6. QED
    BY <2>1, <2>2, <2>4, <2>5, AppendKeeps, UnchangedKeeps
<1>11. ASSUME NEW n \in Notes, Notify(n) PROVE NoteLogged(n) \/ NoteQueued(n)
    BY <1>11 DEF Notify, NoteLogged, NoteQueued, Arrives
<1>12. QED
    BY <1>1, <1>2, <1>3, <1>4, <1>5, <1>6, <1>7, <1>8, <1>9, <1>10, <1>11
    DEF Next, Step, Delivery, Environment

(* What the four moves do to the places at which notifications are.        *)
LEMMA StayPlaces ==
    ASSUME TypeOK, NotesStay
    PROVE  /\ LogIndices("note")' = LogIndices("note")
           /\ \A i \in LogIndices("note") : chatLog'[i].ref = chatLog[i].ref
           /\ Delivered' = Delivered
           /\ \A n : LoggedAt(n)' = LoggedAt(n) /\ PendingAt(n)' = PendingAt(n)
<1>1. LogIndices("note")' = LogIndices("note")
    BY DEF NotesStay, Kept, LogIndices
<1>2. \A i \in LogIndices("note") : chatLog'[i].ref = chatLog[i].ref
    BY DEF NotesStay, Kept, LogIndices
<1>3. UNCHANGED <<pendingLog, sent>>
    BY DEF NotesStay
<1>4. QED
    BY <1>1, <1>2, <1>3 DEF Delivered, LoggedAt, PendingAt

LEMMA DrainPlaces ==
    ASSUME TypeOK, NotesDrain
    PROVE  /\ LogIndices("note")' =
                  LogIndices("note") \cup {Len(chatLog) + k : k \in DOMAIN pendingLog}
           /\ \A i \in LogIndices("note") : chatLog'[i].ref = chatLog[i].ref
           /\ \A k \in DOMAIN pendingLog : chatLog'[Len(chatLog) + k].ref = pendingLog[k]
           /\ \A i \in LogIndices("note") : i \in 1..Len(chatLog)
           /\ DOMAIN pendingLog = 1..Len(pendingLog) /\ DOMAIN pendingLog' = {}
           /\ Delivered' = Delivered
<1> DEFINE c == Len(chatLog)
           p == Len(pendingLog)
           items == NotesAsItems(pendingLog)
<1>1. /\ chatLog \in Seq(LogItem) /\ DOMAIN chatLog = 1..c /\ c \in Nat
      /\ DOMAIN pendingLog = 1..p /\ p \in Nat
    BY DEF TypeOK, LogTypes
<1>2. \A k \in 1..p : Item("note", pendingLog[k], NoBlock) \in LogItem
    BY ItemType, NoBlockType DEF Kinds, TypeOK, LogTypes
<1>3. items \in Seq(LogItem) /\ Len(items) = p
    BY <1>1, <1>2 DEF NotesAsItems
<1>4. \A k \in 1..p : items[k].kind = "note" /\ items[k].ref = pendingLog[k]
    BY <1>1 DEF NotesAsItems, Item
<1>5. chatLog' = chatLog \o items /\ pendingLog' = <<>> /\ sent' = sent
    BY DEF NotesDrain, DrainedLog
<1>6. /\ DOMAIN chatLog' = 1..(c + p)
      /\ \A i \in 1..c : chatLog'[i] = chatLog[i]
      /\ \A k \in 1..p : chatLog'[c + k] = items[k]
  <2> HIDE DEF items
  <2>1. QED
    BY <1>1, <1>3, <1>5
<1> HIDE DEF items
<1>7. LogIndices("note")' = LogIndices("note") \cup {c + k : k \in 1..p}
  <2>1. ASSUME NEW i \in LogIndices("note")'
        PROVE  i \in LogIndices("note") \cup {c + k : k \in 1..p}
    <3>1. i \in 1..(c + p) /\ chatLog'[i].kind = "note"
      BY <1>6 DEF LogIndices
    <3>2. CASE i \in 1..c
      BY <1>1, <1>6, <3>1, <3>2 DEF LogIndices
    <3>3. CASE i \notin 1..c
      <4>1. i - c \in 1..p /\ i = c + (i - c)
        BY <1>1, <3>1, <3>3
      <4>2. QED
        BY <4>1
    <3>4. QED
      BY <3>2, <3>3
  <2>2. ASSUME NEW k \in 1..p PROVE c + k \in LogIndices("note")'
    BY <1>1, <1>4, <1>6 DEF LogIndices
  <2>3. ASSUME NEW i \in LogIndices("note") PROVE i \in LogIndices("note")'
    BY <1>1, <1>6 DEF LogIndices
  <2>4. QED
    BY <2>1, <2>2, <2>3
<1>8. \A i \in LogIndices("note") : i \in 1..c /\ chatLog'[i].ref = chatLog[i].ref
    BY <1>1, <1>6 DEF LogIndices
<1>9. \A k \in 1..p : chatLog'[c + k].ref = pendingLog[k]
    BY <1>4, <1>6
<1>10. DOMAIN pendingLog' = {} /\ Delivered' = Delivered
    BY <1>5 DEF Delivered
<1>11. QED
    BY <1>1, <1>7, <1>8, <1>9, <1>10

LEMMA ArrivePlaces ==
    ASSUME TypeOK, NEW n \in Notes, Arrives(n)
    PROVE  /\ Delivered' = Delivered \cup {n} /\ n \notin Delivered
           /\ DOMAIN sent = 1..Len(sent) /\ DOMAIN sent' = 1..(Len(sent) + 1) /\ Len(sent) \in Nat
           /\ \A a \in DOMAIN sent : sent'[a] = sent[a]
           /\ sent'[Len(sent) + 1] = n
    BY DEF Arrives, Delivered, TypeOK, OtherTypes

LEMMA LoggedPlaces ==
    ASSUME TypeOK, NEW n \in Notes, NoteLogged(n)
    PROVE  /\ LogIndices("note")' = LogIndices("note") \cup {Len(chatLog) + 1}
           /\ \A i \in LogIndices("note") :
                  chatLog'[i].ref = chatLog[i].ref /\ i \in 1..Len(chatLog)
           /\ chatLog'[Len(chatLog) + 1].ref = n
           /\ UNCHANGED pendingLog
<1> DEFINE c == Len(chatLog)
           item == Item("note", n, NoBlock)
<1>1. item.kind = "note" /\ item.ref = n
    BY DEF Item
<1>2. chatLog \in Seq(LogItem) /\ c \in Nat
    BY DEF TypeOK, LogTypes
<1>3. chatLog' = Append(chatLog, item) /\ UNCHANGED pendingLog
    BY DEF NoteLogged
<1> HIDE DEF item
<1>4. /\ DOMAIN chatLog = 1..c /\ DOMAIN chatLog' = 1..(c + 1)
      /\ \A i \in 1..c : chatLog'[i] = chatLog[i]
      /\ chatLog'[c + 1] = item
    BY <1>2, <1>3
<1>5. QED
    BY <1>1, <1>2, <1>3, <1>4 DEF LogIndices

LEMMA QueuedPlaces ==
    ASSUME TypeOK, NEW n \in Notes, NoteQueued(n)
    PROVE  /\ LogIndices("note")' = LogIndices("note")
           /\ UNCHANGED chatLog
           /\ DOMAIN pendingLog = 1..Len(pendingLog) /\ Len(pendingLog) \in Nat
           /\ DOMAIN pendingLog' = 1..(Len(pendingLog) + 1)
           /\ \A k \in DOMAIN pendingLog : pendingLog'[k] = pendingLog[k]
           /\ pendingLog'[Len(pendingLog) + 1] = n
    BY DEF NoteQueued, LogIndices, TypeOK, LogTypes

(* A delivered notification is somewhere, and in one place only.           *)
NoteInv ==
    /\ \A a, b \in DOMAIN sent : sent[a] = sent[b] => a = b
    /\ \A i \in LogIndices("note") : chatLog[i].ref \in Delivered
    /\ \A i \in DOMAIN pendingLog : pendingLog[i] \in Delivered
    /\ \A n \in Delivered : LoggedAt(n) # {} \/ PendingAt(n) # {}
    /\ \A i, k \in LogIndices("note") : chatLog[i].ref = chatLog[k].ref => i = k
    /\ \A i, k \in DOMAIN pendingLog : pendingLog[i] = pendingLog[k] => i = k
    /\ \A i \in LogIndices("note"), k \in DOMAIN pendingLog : chatLog[i].ref # pendingLog[k]

LEMMA NoteNext == TypeOK /\ NoteInv /\ [Next]_vars => NoteInv'
<1> SUFFICES ASSUME TypeOK, NoteInv, [Next]_vars PROVE NoteInv'
    OBVIOUS
<1>1. CASE NotesStay
  <2>1. UNCHANGED <<pendingLog, sent>>
    BY <1>1 DEF NotesStay
  <2>2. QED
    BY <1>1, <2>1, StayPlaces DEF NoteInv
<1>2. CASE NotesDrain
  <2> DEFINE c == Len(chatLog)
  <2>1. c \in Nat
    BY DEF TypeOK, LogTypes
  <2>2. UNCHANGED sent
    BY <1>2 DEF NotesDrain
  <2>3. /\ LogIndices("note")' = LogIndices("note") \cup {c + k : k \in DOMAIN pendingLog}
        /\ \A i \in LogIndices("note") : chatLog'[i].ref = chatLog[i].ref
        /\ \A k \in DOMAIN pendingLog : chatLog'[c + k].ref = pendingLog[k]
        /\ \A i \in LogIndices("note") : i \in 1..c
        /\ DOMAIN pendingLog = 1..Len(pendingLog) /\ DOMAIN pendingLog' = {}
        /\ Delivered' = Delivered
    BY <1>2, DrainPlaces
  <2>4. ASSUME NEW n \in Delivered PROVE LoggedAt(n)' # {}
    <3>1. CASE LoggedAt(n) # {}
      BY <2>3, <3>1 DEF LoggedAt
    <3>2. CASE PendingAt(n) # {}
      <4>1. PICK k \in DOMAIN pendingLog : pendingLog[k] = n
        BY <3>2 DEF PendingAt
      <4>2. c + k \in LogIndices("note")' /\ chatLog'[c + k].ref = n
        BY <2>3, <4>1
      <4>3. QED
        BY <4>2 DEF LoggedAt
    <3>3. QED
      BY <3>1, <3>2 DEF NoteInv
  <2>5. \A i, k \in LogIndices("note")' : chatLog'[i].ref = chatLog'[k].ref => i = k
    BY <2>1, <2>3 DEF NoteInv
  <2>6. \A i \in LogIndices("note")' : chatLog'[i].ref \in Delivered'
    BY <2>3 DEF NoteInv
  <2>7. QED
    BY <2>2, <2>3, <2>4, <2>5, <2>6 DEF NoteInv
<1>3. ASSUME NEW n \in Notes, NoteLogged(n) PROVE NoteInv'
  <2> DEFINE c == Len(chatLog)
  <2>1. c \in Nat
    BY DEF TypeOK, LogTypes
  <2>2. Arrives(n) /\ UNCHANGED pendingLog
    BY <1>3 DEF NoteLogged
  <2>3. /\ Delivered' = Delivered \cup {n} /\ n \notin Delivered
        /\ DOMAIN sent = 1..Len(sent) /\ DOMAIN sent' = 1..(Len(sent) + 1) /\ Len(sent) \in Nat
        /\ \A a \in DOMAIN sent : sent'[a] = sent[a]
        /\ sent'[Len(sent) + 1] = n
    BY <2>2, ArrivePlaces
  <2>4. /\ LogIndices("note")' = LogIndices("note") \cup {c + 1}
        /\ \A i \in LogIndices("note") : chatLog'[i].ref = chatLog[i].ref /\ i \in 1..c
        /\ chatLog'[c + 1].ref = n
    BY <1>3, LoggedPlaces
  <2>5. \A a, b \in DOMAIN sent' : sent'[a] = sent'[b] => a = b
    BY <2>3 DEF NoteInv, Delivered
  <2>6. ASSUME NEW m \in Delivered' PROVE LoggedAt(m)' # {} \/ PendingAt(m)' # {}
    BY <2>2, <2>3, <2>4 DEF LoggedAt, PendingAt, NoteInv
  <2>7. \A i, k \in LogIndices("note")' : chatLog'[i].ref = chatLog'[k].ref => i = k
    BY <2>1, <2>3, <2>4 DEF NoteInv
  <2>8. QED
    BY <2>2, <2>3, <2>4, <2>5, <2>6, <2>7 DEF NoteInv
<1>4. ASSUME NEW n \in Notes, NoteQueued(n) PROVE NoteInv'
  <2> DEFINE p == Len(pendingLog)
  <2>1. Arrives(n) /\ UNCHANGED chatLog
    BY <1>4 DEF NoteQueued
  <2>2. /\ Delivered' = Delivered \cup {n} /\ n \notin Delivered
        /\ DOMAIN sent = 1..Len(sent) /\ DOMAIN sent' = 1..(Len(sent) + 1) /\ Len(sent) \in Nat
        /\ \A a \in DOMAIN sent : sent'[a] = sent[a]
        /\ sent'[Len(sent) + 1] = n
    BY <2>1, ArrivePlaces
  <2>3. /\ LogIndices("note")' = LogIndices("note")
        /\ DOMAIN pendingLog = 1..p /\ p \in Nat /\ DOMAIN pendingLog' = 1..(p + 1)
        /\ \A k \in DOMAIN pendingLog : pendingLog'[k] = pendingLog[k]
        /\ pendingLog'[p + 1] = n
    BY <1>4, QueuedPlaces
  <2>4. \A a, b \in DOMAIN sent' : sent'[a] = sent'[b] => a = b
    BY <2>2 DEF NoteInv, Delivered
  <2>5. ASSUME NEW m \in Delivered' PROVE LoggedAt(m)' # {} \/ PendingAt(m)' # {}
    BY <2>1, <2>2, <2>3 DEF LoggedAt, PendingAt, NoteInv
  <2>6. \A i, k \in DOMAIN pendingLog' : pendingLog'[i] = pendingLog'[k] => i = k
    BY <2>2, <2>3 DEF NoteInv
  <2>7. \A i \in LogIndices("note"), k \in DOMAIN pendingLog' : chatLog[i].ref # pendingLog'[k]
    BY <2>2, <2>3 DEF NoteInv
  <2>8. \A i \in DOMAIN pendingLog' : pendingLog'[i] \in Delivered'
    BY <2>2, <2>3 DEF NoteInv
  <2>9. QED
    BY <2>1, <2>2, <2>3, <2>4, <2>5, <2>6, <2>7, <2>8 DEF NoteInv
<1>5. QED
    BY <1>1, <1>2, <1>3, <1>4, NotesMove

LEMMA NotesInvariant == Spec => []NoteInv
<1>1. Init => NoteInv
    BY DEF Init, NoteInv, LogIndices, Delivered
<1>2. QED
    BY <1>1, TypeCorrect, NoteNext, PTL DEF Spec

(* In the words of the property: the places of a notification are counted. *)
LEMMA NotesCounted == ASSUME NoteInv PROVE NotesDeliveredOnce
<1> SUFFICES ASSUME NEW n \in Notes
             PROVE  Cardinality(LoggedAt(n)) + Cardinality(PendingAt(n))
                        = IF n \in Delivered THEN 1 ELSE 0
    BY DEF NotesDeliveredOnce
<1>1. \A i, k \in LoggedAt(n) : i = k
    BY DEF NoteInv, LoggedAt
<1>2. \A i, k \in PendingAt(n) : i = k
    BY DEF NoteInv, PendingAt
<1>3. LoggedAt(n) = {} \/ PendingAt(n) = {}
    BY DEF NoteInv, LoggedAt, PendingAt
<1>4. n \in Delivered <=> LoggedAt(n) # {} \/ PendingAt(n) # {}
    BY DEF NoteInv, LoggedAt, PendingAt
<1>5. ASSUME NEW S, S # {}, \A i, k \in S : i = k PROVE Cardinality(S) = 1
  <2>1. PICK i \in S : TRUE
    BY <1>5
  <2>2. S = {i}
    BY <1>5, <2>1
  <2>3. QED
    BY <2>2, FS_Singleton
<1>6. Cardinality({}) = 0
    BY FS_EmptySet
<1>7. CASE LoggedAt(n) # {}
  <2>1. Cardinality(LoggedAt(n)) = 1 /\ PendingAt(n) = {}
    BY <1>1, <1>3, <1>5, <1>7
  <2>2. QED
    BY <1>4, <1>6, <1>7, <2>1
<1>8. CASE LoggedAt(n) = {} /\ PendingAt(n) # {}
  <2>1. Cardinality(PendingAt(n)) = 1
    BY <1>2, <1>5, <1>8
  <2>2. QED
    BY <1>4, <1>6, <1>8, <2>1
<1>9. CASE LoggedAt(n) = {} /\ PendingAt(n) = {}
    BY <1>4, <1>6, <1>9
<1>10. QED
    BY <1>7, <1>8, <1>9

-----------------------------------------------------------------------------
(* Completion.  What lets a finishing job rely on an empty pending list is *)
(* that the log can take notifications whenever a block or a final reply   *)
(* ends: the tool log of the block has been allocated, by the entry of the *)
(* block or, for a continuation, by the entry that suspended.              *)
HasItsTools(i) == chatLog[i].block.tool \/ chatLog[i].block.cli => chatLog[i].tools
Emptied == (status = "DONE" \/ pc = "finish") /\ Clean => pendingLog = <<>>
OwnerHasTools ==
    ~stale /\ nextInstr # NoInstr /\ owner > 0 => owner \in DOMAIN chatLog /\ HasItsTools(owner)
BlockHasTools ==
    ~stale /\ pc \in {"tools", "exec"} /\ chatLog[cur].kind # "warmup" => HasItsTools(cur)
BlockTakesNotes == ~stale /\ pc \in {"tools", "exec", "after"} => Finalized
ReplyTakesNotes == final /\ pc \in {"send", "final"} => Finalized
DrainInv == Emptied /\ OwnerHasTools /\ BlockHasTools /\ BlockTakesNotes /\ ReplyTakesNotes

(* Failures and misplaced continuations are remembered.                    *)
LEMMA FailuresStay ==
    ASSUME [Next]_vars
    PROVE  (error => error') /\ (defError => defError') /\ (stale => stale')
<1>1. (error => error') /\ (defError => defError') /\ (stale => stale')
  <2>1. CASE BeginWarmup \/ BeginReply
    <3>1. UNCHANGED <<error, defError>>
      BY <2>1 DEF BeginWarmup, BeginReply
    <3>2. PICK log, id : Enter(log, id)
      BY <2>1 DEF BeginWarmup, BeginReply
    <3>3. stale => stale'
      BY <3>2, Zenon DEF Enter
    <3>4. QED
      BY <3>1, <3>3, Zenon
  <2>2. CASE ExecRaises
    <3>1. UNCHANGED <<error, stale>>
      BY <2>2 DEF ExecRaises
    <3>2. CASE UNCHANGED defError
      BY <3>1, <3>2, Zenon
    <3>3. CASE defError' = TRUE
      BY <3>1, <3>3, Zenon
    <3>4. QED
      BY <2>2, <3>2, <3>3 DEF ExecRaises
  <2>3. CASE HarnessStops \/ StepFails
    <3>1. error' = TRUE /\ UNCHANGED <<defError, stale>>
      BY <2>3 DEF HarnessStops, StepFails
    <3>2. QED
      BY <3>1, Zenon
  <2>4. ASSUME UNCHANGED <<error, defError, stale>>
        PROVE  (error => error') /\ (defError => defError') /\ (stale => stale')
    BY <2>4, Zenon
  <2>5. CASE BeginRequest \/ FinishTools \/ ExecCompletes \/ ExecSuspends
    BY <2>4, <2>5 DEF BeginRequest, FinishTools, ExecCompletes, ExecSuspends, history
  <2>6. CASE AfterExec \/ SendRequest \/ ReplySuppressed \/ ReplyCommitted
    BY <2>4, <2>6 DEF AfterExec, SendRequest, ReplySuppressed, ReplyCommitted, history
  <2>7. CASE Delivery \/ SendSucceeds \/ SendFails \/ FinalReply \/ CheckPasses \/ Finish
    BY <2>4, <2>7, DeliveryKeeps DEF SendSucceeds, SendFails, FinalReply, CheckPasses, Finish, history, job
  <2>8. CASE Release \/ Restart \/ UNCHANGED vars \/ \E f \in Futures : Satisfy(f) \/ Lapse(f)
    BY <2>4, <2>8 DEF Release, Restart, vars, Satisfy, Lapse, history, job
  <2>9. CASE (\E m \in Messages : PushUserMessage(m)) \/ \E n \in Notes : Notify(n)
    BY <2>4, <2>9 DEF PushUserMessage, Notify
  <2>10. QED
    BY <2>1, <2>2, <2>3, <2>5, <2>6, <2>7, <2>8, <2>9
    DEF Next, Step, Delivery, Environment
<1>2. QED
    BY <1>1

LEMMA CleanStays == ASSUME [Next]_vars, Clean' PROVE Clean
    BY FailuresStay, Zenon DEF Clean

LEMMA LogKept == ASSUME TypeOK, [Next]_vars PROVE Kept
<1>1. CASE NotesDrain
  <2> DEFINE items == NotesAsItems(pendingLog)
  <2>1. \A k \in DOMAIN pendingLog : Item("note", pendingLog[k], NoBlock) \in LogItem
    BY ItemType, NoBlockType DEF Kinds, TypeOK, LogTypes
  <2>2. chatLog \in Seq(LogItem) /\ items \in Seq(LogItem)
    BY <2>1 DEF NotesAsItems, TypeOK, LogTypes
  <2>3. chatLog' = chatLog \o items
    BY <1>1 DEF NotesDrain, DrainedLog
  <2> HIDE DEF items
  <2>4. \A i \in DOMAIN chatLog : i \in DOMAIN chatLog' /\ chatLog'[i] = chatLog[i]
    BY <2>2, <2>3
  <2>5. QED
    BY <2>4 DEF Kept
<1>2. ASSUME NEW n \in Notes, NoteLogged(n) PROVE Kept
  <2>1. chatLog' = Append(chatLog, Item("note", n, NoBlock)) /\ chatLog \in Seq(LogItem)
    BY <1>2 DEF NoteLogged, TypeOK, LogTypes
  <2>2. \A i \in DOMAIN chatLog : i \in DOMAIN chatLog' /\ chatLog'[i] = chatLog[i]
    BY <2>1
  <2>3. QED
    BY <2>2 DEF Kept
<1>3. QED
    BY <1>1, <1>2, NotesMove DEF NotesStay, NoteQueued, Kept

(* What is last in the history decides whether notifications may join it.  *)
LEMMA AppendFinal ==
    ASSUME chatLog \in Seq(LogItem), NEW item \in LogItem, chatLog' = Append(chatLog, item)
    PROVE  LastItem' = item /\ chatLog' # <<>>
    BY DEF LastItem

(* The environment of a step that runs leaves it where it is, at most adds *)
(* a user message to the history, or ends it.                              *)
LEMMA AroundStep ==
    ASSUME TypeOK, StatusInv, pc # "idle", Release \/ Environment
    PROVE  \/ pc' = "idle"
           \/ /\ UNCHANGED <<pc, cur, final, nextInstr, owner, stale>>
              /\ \/ UNCHANGED chatLog
                 \/ \E item \in LogItem : item.kind = "user" /\ chatLog' = Append(chatLog, item)
<1>1. status # "DONE"
    BY DEF StatusInv, RunningStatus
<1>2. CASE Release \/ \E f \in Futures : Satisfy(f) \/ Lapse(f)
    BY <1>2 DEF Release, Satisfy, Lapse, job, step, history
<1>3. CASE Restart
    BY <1>3 DEF Restart, Leave
<1>4. CASE \E n \in Notes : Notify(n)
    BY <1>1, <1>4 DEF Notify, step
<1>5. ASSUME NEW m \in Messages, PushUserMessage(m)
      PROVE  /\ UNCHANGED <<pc, cur, final, nextInstr, owner, stale>>
             /\ \/ UNCHANGED chatLog
                \/ \E item \in LogItem : item.kind = "user" /\ chatLog' = Append(chatLog, item)
  <2>1. UNCHANGED <<pc, cur, final, nextInstr, owner, stale>>
    BY <1>5 DEF PushUserMessage, step
  <2>2. UNCHANGED chatLog \/ chatLog' = Append(chatLog, Item("user", m, NoBlock))
    BY <1>1, <1>5 DEF PushUserMessage
  <2>3. Item("user", m, NoBlock) \in LogItem /\ Item("user", m, NoBlock).kind = "user"
    BY ItemType, NoBlockType DEF Kinds, Item
  <2>4. QED
    BY <2>1, <2>2, <2>3
<1>6. QED
    BY <1>2, <1>3, <1>4, <1>5 DEF Environment

LEMMA EmptiedNext == ASSUME TypeOK, StatusInv, DrainInv, [Next]_vars PROVE Emptied'
<1> SUFFICES ASSUME status' = "DONE" \/ pc' = "finish", Clean' PROVE pendingLog' = <<>>
    BY DEF Emptied
<1>1. Clean /\ ~stale /\ ~error' /\ ~defError'
    BY CleanStays, Zenon DEF Clean
<1>2. pc # "idle" => status \in {"WARMING_UP", "STARTED"}
    BY DEF StatusInv, RunningStatus
<1>3. CASE BeginWarmup \/ BeginReply \/ BeginRequest
    BY <1>3 DEF BeginWarmup, BeginReply, BeginRequest, MayBegin, Schedulable, Enter, GoTo
<1>4. CASE FinishTools \/ ExecCompletes \/ ExecSuspends
    BY <1>2, <1>4 DEF FinishTools, ExecCompletes, ExecSuspends, SuspendAt, Leave, GoTo
<1>5. CASE ExecRaises
  <2>1. status # "WARMING_UP"
    BY <1>1, <1>5, Zenon DEF ExecRaises
  <2>2. QED
    BY <1>2, <1>5, <2>1 DEF ExecRaises, GoTo
<1>6. CASE Delivery \/ SendRequest \/ ReplySuppressed \/ ReplyCommitted \/ SendSucceeds \/ SendFails
    BY <1>2, <1>6, DeliveryKeeps DEF SendRequest, ReplySuppressed, ReplyCommitted, Commit, SendSucceeds,
       SendFails, GoTo
<1>7. CASE AfterExec
  <2>1. Finalized
    BY <1>1, <1>7 DEF AfterExec, DrainInv, BlockTakesNotes
  <2>2. status' # "DONE"
    BY <1>2, <1>7 DEF AfterExec
  <2>3. QED
    BY <1>7, <2>1, <2>2 DEF AfterExec, FollowUp, CanDrain, GoTo
<1>8. CASE FinalReply
  <2>1. final => Finalized
    BY <1>8 DEF FinalReply, DrainInv, ReplyTakesNotes
  <2>2. status' # "DONE"
    BY <1>2, <1>8 DEF FinalReply
  <2>3. QED
    BY <1>8, <2>1, <2>2 DEF FinalReply, FollowUp, HandleReminder, CanDrain, GoTo
<1>9. CASE CheckPasses
    BY <1>2, <1>9 DEF CheckPasses, Leave, job
<1>10. CASE Finish
    BY <1>1, <1>10 DEF Finish, DrainInv, Emptied
<1>11. CASE HarnessStops \/ StepFails
    BY <1>1, <1>11, Zenon DEF HarnessStops, StepFails
<1>12. CASE Release
    BY <1>12 DEF Release, step, AtAwait, Awaits
<1>13. CASE \/ \E m \in Messages : PushUserMessage(m)
            \/ \E n \in Notes : Notify(n)
    BY <1>13 DEF PushUserMessage, Notify, step, AtAwait, Awaits
<1>14. CASE \/ \E f \in Futures : Satisfy(f) \/ Lapse(f)
            \/ Restart \/ UNCHANGED vars
  <2>1. UNCHANGED <<status, pendingLog>> /\ (pc' = pc \/ pc' = "idle")
    BY <1>14 DEF Satisfy, Lapse, Restart, vars, Leave, job, step
  <2>2. QED
    BY <1>1, <2>1 DEF DrainInv, Emptied
<1>15. QED
    BY <1>3, <1>4, <1>5, <1>6, <1>7, <1>8, <1>9, <1>10, <1>11, <1>12, <1>13, <1>14
    DEF Next, Step, Delivery, Environment

(* Once allocated, the tool log of a block stays.                          *)
LEMMA ToolsStay ==
    ASSUME Kept, NEW i \in DOMAIN chatLog, HasItsTools(i)
    PROVE  HasItsTools(i)'
    BY DEF Kept, HasItsTools

LEMMA OwnerNext == ASSUME TypeOK, DrainInv, [Next]_vars PROVE OwnerHasTools'
<1> SUFFICES ASSUME ~stale', nextInstr' # NoInstr, owner' > 0
             PROVE  owner' \in DOMAIN chatLog' /\ HasItsTools(owner)'
    BY DEF OwnerHasTools
<1>1. ~stale
    BY FailuresStay, Zenon
<1>2. Kept
    BY LogKept
<1>3. CASE UNCHANGED <<nextInstr, owner>>
  <2>1. PICK i \in DOMAIN chatLog : i = owner /\ HasItsTools(i)
    BY <1>1, <1>3 DEF DrainInv, OwnerHasTools
  <2>2. i \in DOMAIN chatLog' /\ HasItsTools(i)'
    BY <1>2, <2>1, ToolsStay DEF Kept
  <2>3. QED
    BY <1>3, <2>1, <2>2 DEF HasItsTools
<1>4. CASE ExecCompletes
    BY <1>4 DEF ExecCompletes
<1>5. CASE ExecSuspends
  <2>1. owner' = IF chatLog[cur].kind = "warmup" THEN -warmupNum ELSE cur
    BY <1>5 DEF ExecSuspends, SuspendAt
  <2>2. chatLog[cur].kind # "warmup" /\ owner' = cur
    BY <2>1 DEF TypeOK, JobTypes
  <2>3. cur \in DOMAIN chatLog /\ HasItsTools(cur)
    BY <1>1, <1>5, <2>2 DEF ExecSuspends, DrainInv, BlockHasTools, TypeOK, StepTypes
  <2>4. UNCHANGED chatLog
    BY <1>5 DEF ExecSuspends
  <2>5. QED
    BY <2>2, <2>3, <2>4 DEF HasItsTools
<1>6. CASE \/ BeginWarmup \/ BeginReply \/ BeginRequest \/ FinishTools \/ ExecRaises \/ AfterExec
           \/ SendRequest \/ ReplySuppressed \/ ReplyCommitted
    BY <1>3, <1>6 DEF BeginWarmup, BeginReply, BeginRequest, FinishTools, ExecRaises, AfterExec,
       SendRequest, ReplySuppressed, ReplyCommitted, history
<1>7. CASE \/ SendSucceeds \/ SendFails \/ FinalReply \/ CheckPasses \/ Finish \/ HarnessStops
           \/ StepFails \/ Delivery
    BY <1>3, <1>7, DeliveryKeeps DEF SendSucceeds, SendFails, FinalReply, CheckPasses, Finish, HarnessStops,
       StepFails, job, history
<1>8. CASE Release \/ Environment \/ UNCHANGED vars
    BY <1>3, <1>8 DEF Release, Environment, PushUserMessage, Notify, Satisfy, Lapse, Restart,
       vars, job, history
<1>9. QED
    BY <1>4, <1>5, <1>6, <1>7, <1>8 DEF Next, Step, Delivery

(* Entering a block.                                                       *)
LEMMA EnterTakesNotes ==
    ASSUME TypeOK, NEW log \in Seq(LogItem), log # <<>>, NEW id, Enter(log, id),
           log[Len(log)].kind \in {"warmup", "llm"},
           log[Len(log)].kind = "llm" =>
              /\ ~log[Len(log)].block.blank
              /\ ~Fresh /\ owner = id /\ (log[Len(log)].block.tool \/ log[Len(log)].block.cli)
                    => log[Len(log)].tools
    PROVE  BlockHasTools' /\ BlockTakesNotes'
<1> DEFINE last == log[Len(log)]
<1>1. last \in LogItem /\ Len(log) \in DOMAIN log /\ Len(log) \in Nat
    OBVIOUS
<1>2. chatLog' = [log EXCEPT ![Len(log)] = Allocate(@)]
    BY DEF Enter
<1>3. chatLog' \in Seq(LogItem) /\ Len(chatLog') = Len(log) /\ chatLog'[Len(log)] = Allocate(last)
    BY <1>1, <1>2, AllocateType
<1>4. cur' = Len(log) /\ LastItem' = Allocate(last)
    BY <1>3 DEF Enter, LastItem
<1>5. Allocate(last).kind = last.kind /\ Allocate(last).block = last.block
    BY <1>1 DEF Allocate, LogItem
<1>6. ASSUME ~stale', last.kind = "llm"
      PROVE  last.block.tool \/ last.block.cli => Allocate(last).tools
  <2>1. CASE Fresh
    BY <1>1, <2>1 DEF Allocate, LogItem
  <2>2. CASE ~Fresh
    <3>1. owner = id
      BY <1>6, <2>2, Zenon DEF Enter
    <3>2. last.block.tool \/ last.block.cli => last.tools
      BY <1>6, <2>2, <3>1
    <3>3. QED
      BY <1>1, <3>2 DEF Allocate, LogItem
  <2>3. QED
    BY <2>1, <2>2
<1>7. BlockHasTools'
    BY <1>3, <1>4, <1>5, <1>6 DEF BlockHasTools, HasItsTools
<1>8. BlockTakesNotes'
    BY <1>4, <1>5, <1>6 DEF BlockTakesNotes, Finalized
<1>9. QED
    BY <1>7, <1>8

LEMMA BlockNext ==
    ASSUME TypeOK, StatusInv, DrainInv, [Next]_vars
    PROVE  BlockHasTools' /\ BlockTakesNotes'
<1> USE DEF DrainInv
<1>1. CASE BeginWarmup
  <2> DEFINE item == Item("warmup", NoMsg, Warmup[warmupNum])
             log == Append(chatLog, item)
  <2>1. Warmup[warmupNum] \in Block
    BY <1>1, JobStepAssumption DEF BeginWarmup, HasWarmupBlock, TypeOK, JobTypes
  <2>2. item \in LogItem /\ item.kind = "warmup"
    BY <2>1, ItemType DEF Kinds, Item
  <2> HIDE DEF item
  <2>3. chatLog \in Seq(LogItem)
    BY DEF TypeOK, LogTypes
  <2>4. log \in Seq(LogItem) /\ log # <<>> /\ log[Len(log)] = item
    BY <2>2, <2>3
  <2>5. Enter(log, -warmupNum)
    BY <1>1 DEF BeginWarmup, item
  <2>6. QED
    BY <2>2, <2>4, <2>5, EnterTakesNotes
<1>2. CASE BeginReply
  <2>1. chatLog \in Seq(LogItem) /\ chatLog # <<>> /\ Enter(chatLog, Len(chatLog))
    BY <1>2 DEF BeginReply, HasReply, TypeOK, LogTypes
  <2>2. chatLog[Len(chatLog)].kind = "llm" /\ ~chatLog[Len(chatLog)].block.blank
    BY <1>2 DEF BeginReply, HasReply, LastItem
  <2>3. CASE stale
    <3>1. stale'
      BY <2>3, FailuresStay, Zenon
    <3>2. QED
      BY <3>1, Zenon DEF BlockHasTools, BlockTakesNotes
  <2>4. ASSUME ~stale, ~Fresh, owner = Len(chatLog)
        PROVE  chatLog[Len(chatLog)].block.tool \/ chatLog[Len(chatLog)].block.cli
                   => chatLog[Len(chatLog)].tools
    BY <2>1, <2>4 DEF OwnerHasTools, HasItsTools, Fresh
  <2>5. CASE ~stale
    BY <2>1, <2>2, <2>4, <2>5, EnterTakesNotes
  <2>6. QED
    BY <2>3, <2>5
<1>3. CASE FinishTools
  <2>1. pc = "tools" /\ UNCHANGED <<chatLog, cur, stale>>
    BY <1>3 DEF FinishTools, history
  <2>2. QED
    BY <2>1 DEF BlockHasTools, BlockTakesNotes, HasItsTools, Finalized, LastItem
<1>20. CASE Delivery
    BY <1>20, DeliveryKeeps DEF BlockHasTools, BlockTakesNotes, HasItsTools, Finalized, LastItem
<1>4. CASE ExecCompletes \/ ExecSuspends \/ ExecRaises
  <2>1. pc = "exec" /\ pc' \in {"after", "idle"} /\ UNCHANGED <<chatLog, stale>>
    BY <1>4 DEF ExecCompletes, ExecSuspends, SuspendAt, ExecRaises, GoTo, Leave
  <2>2. QED
    BY <2>1 DEF BlockHasTools, BlockTakesNotes, Finalized, LastItem
<1>5. ASSUME pc' \notin {"tools", "exec", "after"} PROVE BlockHasTools' /\ BlockTakesNotes'
    BY <1>5 DEF BlockHasTools, BlockTakesNotes
<1>6. CASE BeginRequest \/ AfterExec \/ SendRequest \/ ReplySuppressed \/ ReplyCommitted
    BY <1>5, <1>6 DEF BeginRequest, AfterExec, FollowUp, SendRequest, ReplySuppressed,
       ReplyCommitted, Commit, GoTo
<1>7. CASE \/ SendSucceeds \/ SendFails \/ FinalReply \/ CheckPasses \/ Finish \/ HarnessStops
           \/ StepFails
    BY <1>5, <1>7 DEF SendSucceeds, SendFails, FinalReply, FollowUp, CheckPasses, Finish,
       HarnessStops, StepFails, Leave, GoTo
<1>8. CASE UNCHANGED vars
    BY <1>8 DEF vars, job, step, history, BlockHasTools, BlockTakesNotes, HasItsTools,
       Finalized, LastItem
<1>9. CASE (Release \/ Environment) /\ pc = "idle"
  <2>1. pc' = "idle"
    BY <1>9 DEF Release, Environment, PushUserMessage, Notify, Satisfy, Lapse, Restart, step
  <2>2. QED
    BY <1>5, <2>1
<1>10. CASE (Release \/ Environment) /\ pc # "idle"
  <2>1. CASE pc' = "idle"
    BY <1>5, <2>1
  <2>2. CASE UNCHANGED <<pc, cur, stale, chatLog>>
    BY <2>2 DEF BlockHasTools, BlockTakesNotes, HasItsTools, Finalized, LastItem
  <2>3. ASSUME NEW item \in LogItem, UNCHANGED <<pc, cur, stale>>, item.kind = "user",
               chatLog' = Append(chatLog, item)
        PROVE  BlockHasTools' /\ BlockTakesNotes'
    <3>1. LastItem' = item
      BY <2>3, AppendFinal DEF TypeOK, LogTypes
    <3>2. BlockTakesNotes'
      BY <2>3, <3>1 DEF BlockTakesNotes, Finalized
    <3>3. pc \in {"tools", "exec"} => cur \in DOMAIN chatLog /\ chatLog'[cur] = chatLog[cur]
      BY <2>3 DEF TypeOK, LogTypes, StepTypes
    <3>4. BlockHasTools'
      BY <2>3, <3>3 DEF BlockHasTools, HasItsTools
    <3>5. QED
      BY <3>2, <3>4
  <2>4. QED
    BY <1>10, <2>1, <2>2, <2>3, AroundStep
<1>11. QED
    BY <1>1, <1>2, <1>3, <1>4, <1>6, <1>7, <1>8, <1>9, <1>10, <1>20 DEF Next, Step, Delivery

LEMMA ReplyNext ==
    ASSUME TextReplies, TypeOK, StatusInv, DrainInv, [Next]_vars
    PROVE  ReplyTakesNotes'
<1> USE DEF DrainInv
<1>1. CASE ReplyCommitted
  <2>1. PICK b \in Replies, log \in {chatLog, Append(chatLog, PostItem)}, activated \in BOOLEAN :
            Commit(log, b, activated)
    BY <1>1 DEF ReplyCommitted
  <2>2. b \in Block
    BY NoBlockType DEF Replies
  <2>3. Item("llm", NoMsg, b) \in LogItem /\ PostItem \in LogItem
    BY <2>2, ItemType, NoBlockType DEF Kinds, PostItem
  <2>4. log \in Seq(LogItem)
    BY <2>3 DEF TypeOK, LogTypes
  <2>5. LastItem' = Item("llm", NoMsg, b)
    BY <2>1, <2>3, <2>4 DEF Commit, LastItem
  <2>6. IsStepFinal(b) => ~b.blank /\ ~b.tool /\ ~b.cli
    BY JobStepAssumption DEF TextReplies, Replies, IsStepFinal
  <2>7. CASE ~IsStepFinal(b)
    <3>1. final' = FALSE
      BY <2>1, <2>7, Zenon DEF Commit
    <3>2. QED
      BY <3>1, Zenon DEF ReplyTakesNotes
  <2>8. CASE IsStepFinal(b)
    BY <2>5, <2>6, <2>8 DEF ReplyTakesNotes, Finalized, Item
  <2>9. QED
    BY <2>7, <2>8
<1>2. CASE SendSucceeds
  <2>1. pc = "send" /\ UNCHANGED <<chatLog, final>>
    BY <1>2 DEF SendSucceeds
  <2>2. QED
    BY <2>1, Zenon DEF ReplyTakesNotes, Finalized, LastItem
<1>20. CASE Delivery
    BY <1>20, DeliveryKeeps, Zenon DEF ReplyTakesNotes, Finalized, LastItem
<1>3. CASE SendFails
  <2>1. final' = FALSE
    BY <1>3 DEF SendFails
  <2>2. QED
    BY <2>1, Zenon DEF ReplyTakesNotes
<1>4. ASSUME pc' \notin {"send", "final"} PROVE ReplyTakesNotes'
    BY <1>4 DEF ReplyTakesNotes
<1>5. CASE \/ BeginWarmup \/ BeginReply \/ BeginRequest \/ FinishTools \/ ExecCompletes
           \/ ExecSuspends \/ ExecRaises \/ AfterExec \/ SendRequest \/ ReplySuppressed
    BY <1>4, <1>5 DEF BeginWarmup, BeginReply, Enter, BeginRequest, FinishTools, ExecCompletes,
       ExecSuspends, SuspendAt, ExecRaises, AfterExec, FollowUp, SendRequest, ReplySuppressed,
       GoTo, Leave
<1>6. CASE FinalReply \/ CheckPasses \/ Finish \/ HarnessStops \/ StepFails
    BY <1>4, <1>6 DEF FinalReply, FollowUp, CheckPasses, Finish, HarnessStops, StepFails,
       Leave, GoTo
<1>7. ASSUME UNCHANGED <<pc, final, chatLog>> PROVE ReplyTakesNotes'
    BY <1>7, Zenon DEF ReplyTakesNotes, Finalized, LastItem
<1>8. CASE UNCHANGED vars
    BY <1>7, <1>8 DEF vars, job, step
<1>9. CASE (Release \/ Environment) /\ pc = "idle"
  <2>1. pc' = "idle"
    BY <1>9 DEF Release, Environment, PushUserMessage, Notify, Satisfy, Lapse, Restart, step
  <2>2. QED
    BY <1>4, <2>1
<1>10. CASE (Release \/ Environment) /\ pc # "idle"
  <2>1. CASE pc' = "idle"
    BY <1>4, <2>1
  <2>2. ASSUME NEW item \in LogItem, item.kind = "user", chatLog' = Append(chatLog, item)
        PROVE  ReplyTakesNotes'
    <3>1. LastItem' = item
      BY <2>2, AppendFinal DEF TypeOK, LogTypes
    <3>2. QED
      BY <2>2, <3>1 DEF ReplyTakesNotes, Finalized
  <2>3. QED
    BY <1>7, <1>10, <2>1, <2>2, AroundStep
<1>11. QED
    BY <1>1, <1>2, <1>3, <1>5, <1>6, <1>8, <1>9, <1>10, <1>20 DEF Next, Step, Delivery

LEMMA DrainInvariant == TextReplies => (Spec => []DrainInv)
<1> SUFFICES ASSUME TextReplies PROVE Spec => []DrainInv
    OBVIOUS
<1>1. Init => DrainInv
    BY DEF Init, DrainInv, Emptied, OwnerHasTools, BlockHasTools, BlockTakesNotes,
       ReplyTakesNotes, Finalized
<1>2. TypeOK /\ StatusInv /\ DrainInv /\ [Next]_vars => DrainInv'
    BY EmptiedNext, OwnerNext, BlockNext, ReplyNext DEF DrainInv
<1>3. Init => StatusInv
    BY DEF Init, StatusInv, RunningStatus, WaitersAreFound
<1>4. Spec => []StatusInv
    BY <1>3, TypeCorrect, StatusNext, PTL DEF Spec
<1>5. QED
    BY <1>1, <1>2, <1>4, TypeCorrect, PTL DEF Spec

(* A job that completes normally has emptied its pending list, provided    *)
(* its replies carry text (otherwise run js_blank shows it need not).      *)
THEOREM DoneIsDrained == TextReplies => (Spec => []DoneMeansDrained)
<1> SUFFICES ASSUME TextReplies PROVE Spec => []DoneMeansDrained
    OBVIOUS
<1>1. DrainInv => DoneMeansDrained
    BY DEF DrainInv, Emptied, DoneMeansDrained
<1>2. QED
    BY <1>1, DrainInvariant, PTL

-----------------------------------------------------------------------------
(* Order.  Two notifications keep their order across a step: if both were  *)
(* there, wherever they were; and a new one comes last, because the direct *)
(* path into the history is only open to it when the pending list is empty. *)
LEMMA OrderKept ==
    ASSUME TypeOK, NotesStay \/ NotesDrain, NEW n, NEW m, ComesFirst(n, m)
    PROVE  ComesFirst(n, m)'
<1>1. CASE NotesStay
    BY <1>1, StayPlaces DEF ComesFirst
<1>2. CASE NotesDrain
  <2> DEFINE c == Len(chatLog)
  <2>1. c \in Nat
    BY DEF TypeOK, LogTypes
  <2>2. /\ LogIndices("note")' = LogIndices("note") \cup {c + k : k \in DOMAIN pendingLog}
        /\ \A i \in LogIndices("note") : chatLog'[i].ref = chatLog[i].ref
        /\ \A k \in DOMAIN pendingLog : chatLog'[c + k].ref = pendingLog[k]
        /\ \A i \in LogIndices("note") : i \in 1..c
        /\ DOMAIN pendingLog = 1..Len(pendingLog) /\ DOMAIN pendingLog' = {}
    BY <1>2, DrainPlaces
  <2>3. ASSUME NEW x
        PROVE  LoggedAt(x)' = LoggedAt(x) \cup {c + k : k \in PendingAt(x)} /\ PendingAt(x)' = {}
    BY <2>2 DEF LoggedAt, PendingAt
  <2>4. LoggedAt(n) \cup LoggedAt(m) \subseteq 1..c
    BY <2>2 DEF LoggedAt
  <2>5. PendingAt(n) \cup PendingAt(m) \subseteq 1..Len(pendingLog)
    BY <2>2 DEF PendingAt
  <2>6. Len(pendingLog) \in Nat
    BY DEF TypeOK, LogTypes
  <2>7. ASSUME NEW i \in LoggedAt(n)', NEW k \in LoggedAt(m)' PROVE i < k
    <3>1. CASE i \in LoggedAt(n) /\ k \in LoggedAt(m)
      BY <3>1 DEF ComesFirst
    <3>2. ASSUME i \in LoggedAt(n), NEW j \in PendingAt(m), k = c + j PROVE i < k
      BY <2>1, <2>4, <2>5, <2>6, <3>2
    <3>3. ASSUME NEW j \in PendingAt(n), k \in LoggedAt(m) PROVE i < k
      BY <3>3 DEF ComesFirst
    <3>4. ASSUME NEW j \in PendingAt(n), i = c + j, NEW l \in PendingAt(m), k = c + l PROVE i < k
      <4>1. j < l
        BY DEF ComesFirst
      <4>2. j \in Int /\ l \in Int
        BY <2>5, <2>6
      <4>3. QED
        BY <2>1, <3>4, <4>1, <4>2
    <3>5. QED
      BY <2>3, <3>1, <3>2, <3>3, <3>4
  <2>8. QED
    BY <2>3, <2>7 DEF ComesFirst
<1>3. QED
    BY <1>1, <1>2

LEMMA LoggedLast ==
    ASSUME TypeOK, NoteInv, pendingLog = <<>>, NEW n \in Notes, NoteLogged(n),
           NEW x \in Delivered
    PROVE  /\ LoggedAt(x)' = LoggedAt(x) /\ LoggedAt(n)' = {Len(chatLog) + 1}
           /\ LoggedAt(x) \subseteq 1..Len(chatLog)
           /\ PendingAt(n)' = {} /\ PendingAt(x)' = {}
<1> DEFINE c == Len(chatLog)
<1>1. n \notin Delivered /\ x # n /\ UNCHANGED pendingLog
    BY DEF NoteLogged, Arrives
<1>2. /\ LogIndices("note")' = LogIndices("note") \cup {c + 1}
      /\ \A i \in LogIndices("note") : chatLog'[i].ref = chatLog[i].ref /\ i \in 1..c
      /\ chatLog'[c + 1].ref = n
    BY LoggedPlaces
<1>3. \A i \in LogIndices("note") : chatLog[i].ref # n
    BY <1>1 DEF NoteInv
<1>4. LoggedAt(x)' = LoggedAt(x) /\ LoggedAt(n)' = {c + 1} /\ LoggedAt(x) \subseteq 1..c
    BY <1>1, <1>2, <1>3 DEF LoggedAt
<1>5. QED
    BY <1>1, <1>4 DEF PendingAt

LEMMA QueuedLast ==
    ASSUME TypeOK, NoteInv, NEW n \in Notes, NoteQueued(n), NEW x \in Delivered
    PROVE  /\ LoggedAt(x)' = LoggedAt(x) /\ LoggedAt(n)' = {}
           /\ PendingAt(x)' = PendingAt(x) /\ PendingAt(x) \subseteq 1..Len(pendingLog)
           /\ PendingAt(n)' = {Len(pendingLog) + 1}
<1> DEFINE p == Len(pendingLog)
<1>1. n \notin Delivered /\ x # n
    BY DEF NoteQueued, Arrives
<1>2. /\ LogIndices("note")' = LogIndices("note") /\ UNCHANGED chatLog
      /\ DOMAIN pendingLog = 1..p /\ p \in Nat /\ DOMAIN pendingLog' = 1..(p + 1)
      /\ \A k \in DOMAIN pendingLog : pendingLog'[k] = pendingLog[k]
      /\ pendingLog'[p + 1] = n
    BY QueuedPlaces
<1>3. /\ \A i \in LogIndices("note") : chatLog[i].ref # n
      /\ \A k \in DOMAIN pendingLog : pendingLog[k] # n
    BY <1>1 DEF NoteInv
<1>4. LoggedAt(x)' = LoggedAt(x) /\ LoggedAt(n)' = {}
    BY <1>2, <1>3 DEF LoggedAt
<1>5. PendingAt(x)' = PendingAt(x) /\ PendingAt(x) \subseteq 1..p
    BY <1>1, <1>2 DEF PendingAt
<1>6. PendingAt(n)' = {p + 1}
    BY <1>2, <1>3 DEF PendingAt
<1>7. QED
    BY <1>4, <1>5, <1>6

LEMMA OrderNext ==
    ASSUME TypeOK, NoteInv, TextReplies, DrainInv, NotesInOrder, [Next]_vars
    PROVE  NotesInOrder'
<1> SUFFICES ASSUME Clean', NEW a \in DOMAIN sent', NEW b \in DOMAIN sent', a < b,
                    NEW n, NEW m, n = sent'[a], m = sent'[b]
             PROVE  ComesFirst(n, m)'
    BY DEF NotesInOrder, ComesFirst, LoggedAt, PendingAt, LogIndices
<1>1. Clean
    BY CleanStays
<1>2. ASSUME a \in DOMAIN sent, b \in DOMAIN sent, sent[a] = n, sent[b] = m
      PROVE  ComesFirst(n, m)
    BY <1>1, <1>2 DEF NotesInOrder
<1>3. CASE NotesStay \/ NotesDrain
  <2>1. UNCHANGED sent
    BY <1>3 DEF NotesStay, NotesDrain
  <2>2. QED
    BY <1>2, <1>3, <2>1, OrderKept
<1>4. ASSUME NEW x \in Notes, NoteLogged(x) \/ NoteQueued(x)
      PROVE  ComesFirst(n, m)'
  <2>1. /\ x \notin Delivered
        /\ DOMAIN sent = 1..Len(sent) /\ DOMAIN sent' = 1..(Len(sent) + 1) /\ Len(sent) \in Nat
        /\ \A i \in DOMAIN sent : sent'[i] = sent[i]
        /\ sent'[Len(sent) + 1] = x
    BY <1>4, ArrivePlaces DEF NoteLogged, NoteQueued
  <2>2. a \in DOMAIN sent /\ sent[a] = n /\ n \in Delivered
    BY <2>1 DEF Delivered
  <2>3. (b \in DOMAIN sent /\ sent[b] = m /\ m \in Delivered) \/ m = x
    BY <2>1 DEF Delivered
  <2>4. Len(chatLog) \in Nat /\ Len(pendingLog) \in Nat
    BY DEF TypeOK, LogTypes
  <2>5. CASE NoteLogged(x)
    <3>1. pendingLog = <<>>
      BY <1>1, <2>5 DEF NoteLogged, DrainInv, Emptied
    <3>2. CASE m = x
      <4>1. /\ LoggedAt(n)' = LoggedAt(n) /\ LoggedAt(m)' = {Len(chatLog) + 1}
            /\ LoggedAt(n) \subseteq 1..Len(chatLog)
            /\ PendingAt(m)' = {} /\ PendingAt(n)' = {}
        BY <2>2, <2>5, <3>1, <3>2, LoggedLast
      <4>2. QED
        BY <2>4, <4>1 DEF ComesFirst
    <3>3. CASE b \in DOMAIN sent /\ sent[b] = m /\ m \in Delivered
      <4>1. ComesFirst(n, m)
        BY <1>2, <2>2, <3>3
      <4>2. /\ LoggedAt(n)' = LoggedAt(n) /\ LoggedAt(m)' = LoggedAt(m)
            /\ PendingAt(m)' = {} /\ PendingAt(n)' = {}
        BY <2>2, <2>5, <3>1, <3>3, LoggedLast
      <4>3. QED
        BY <4>1, <4>2 DEF ComesFirst
    <3>4. QED
      BY <2>3, <3>2, <3>3
  <2>6. CASE NoteQueued(x)
    <3>1. CASE m = x
      <4>1. /\ LoggedAt(m)' = {} /\ PendingAt(n)' = PendingAt(n)
            /\ PendingAt(n) \subseteq 1..Len(pendingLog)
            /\ PendingAt(m)' = {Len(pendingLog) + 1}
        BY <2>2, <2>6, <3>1, QueuedLast
      <4>2. QED
        BY <2>4, <4>1 DEF ComesFirst
    <3>2. CASE b \in DOMAIN sent /\ sent[b] = m /\ m \in Delivered
      <4>1. ComesFirst(n, m)
        BY <1>2, <2>2, <3>2
      <4>2. /\ LoggedAt(n)' = LoggedAt(n) /\ LoggedAt(m)' = LoggedAt(m)
            /\ PendingAt(m)' = PendingAt(m) /\ PendingAt(n)' = PendingAt(n)
        BY <2>2, <2>6, <3>2, QueuedLast
      <4>3. QED
        BY <4>1, <4>2 DEF ComesFirst
    <3>3. QED
      BY <2>3, <3>1, <3>2
  <2>7. QED
    BY <1>4, <2>5, <2>6
<1>5. QED
    BY <1>3, <1>4, NotesMove

(* However pushes, suspensions, failures, restarts and requests interleave, *)
(* every delivered notification is in the history or pending exactly once, *)
(* and notifications are presented in the order of their delivery.         *)
THEOREM NotesArrive == Spec => []NotesArriveOnce
<1>1. Init => NotesInOrder
    BY DEF Init, NotesInOrder
<1>2. CASE TextReplies
  <2>1. TypeOK /\ NoteInv /\ DrainInv /\ NotesInOrder /\ [Next]_vars => NotesInOrder'
    BY <1>2, OrderNext
  <2>2. Spec => []DrainInv
    BY <1>2, DrainInvariant
  <2>3. Spec => []NotesInOrder
    BY <1>1, <2>1, <2>2, TypeCorrect, NotesInvariant, PTL DEF Spec
  <2>4. NoteInv => NotesDeliveredOnce
    BY NotesCounted
  <2>5. QED
    BY <2>3, <2>4, NotesInvariant, PTL DEF NotesArriveOnce
<1>3. CASE ~TextReplies
  <2>1. NoteInv => NotesArriveOnce
    BY <1>3, NotesCounted DEF NotesArriveOnce, NotesInOrder
  <2>2. QED
    BY <2>1, NotesInvariant, PTL
<1>4. QED
    BY <1>2, <1>3

-----------------------------------------------------------------------------
(* What the model has seen.  Without warmup code, a notification that is   *)
(* in the history and in no request yet is one of the items that follow    *)
(* the last reply, and the job is on its way to the request that shows it. *)
AllShown == \A i \in LogIndices("note") : chatLog[i].ref \in seen
ReplyAwaitsRun == chatLog # <<>> /\ LastItem.kind = "llm" /\ ~LastItem.block.blank
HeadsForRequest ==
    pc \in {"idle", "check", "request"} /\ status = "STARTED" /\ ~ReplyAwaitsRun
ShownInv == status # "WARMING_UP" /\ (Clean => AllShown \/ HeadsForRequest)

LEMMA SeenStays == ASSUME TypeOK, [Next]_vars PROVE seen \subseteq seen'
<1>1. CASE Step
    BY <1>1, DeliveryKeeps DEF Step, Delivery, BeginWarmup, BeginReply, BeginRequest, FinishTools,
       ExecCompletes, ExecSuspends, ExecRaises, AfterExec, SendRequest, ReplySuppressed,
       ReplyCommitted, SendSucceeds, SendFails, FinalReply, CheckPasses, Finish, HarnessStops,
       StepFails, history
<1>2. CASE Release \/ Environment \/ UNCHANGED vars
    BY <1>2 DEF Release, Environment, PushUserMessage, Notify, Satisfy, Lapse, Restart, vars,
       history
<1>3. QED
    BY <1>1, <1>2 DEF Next

(* A step that moves no notification hides none.                           *)
LEMMA ShownStays == ASSUME TypeOK, NotesStay, seen \subseteq seen', AllShown PROVE AllShown'
    BY StayPlaces DEF AllShown

LEMMA DrainedLast ==
    ASSUME TypeOK, NotesDrain, pendingLog # <<>>
    PROVE  ~ReplyAwaitsRun'
<1> DEFINE items == NotesAsItems(pendingLog)
<1>1. /\ pendingLog \in Seq(Notes) /\ Len(pendingLog) \in Nat \ {0}
      /\ DOMAIN pendingLog = 1..Len(pendingLog)
    BY DEF TypeOK, LogTypes
<1>2. \A k \in DOMAIN pendingLog : Item("note", pendingLog[k], NoBlock) \in LogItem
    BY <1>1, ItemType, NoBlockType DEF Kinds
<1>3. /\ chatLog \in Seq(LogItem) /\ items \in Seq(LogItem) /\ Len(items) = Len(pendingLog)
      /\ items[Len(items)].kind = "note"
    BY <1>1, <1>2 DEF NotesAsItems, TypeOK, LogTypes, Item
<1>4. chatLog' = chatLog \o items
    BY DEF NotesDrain, DrainedLog
<1> HIDE DEF items
<1>5. chatLog'[Len(chatLog')] = items[Len(items)]
    BY <1>1, <1>3, <1>4
<1>6. QED
    BY <1>3, <1>5 DEF ReplyAwaitsRun, LastItem

LEMMA ShownNext ==
    ASSUME Warmup = <<>>, TypeOK, StatusInv, ShownInv, [Next]_vars
    PROVE  ShownInv'
<1> USE DEF ShownInv
<1>1. status' # "WARMING_UP"
  <2>1. ~BeginWarmup
    BY DEF BeginWarmup, HasWarmupBlock, TypeOK, JobTypes
  <2>2. CASE Step
    BY <2>1, <2>2, DeliveryKeeps DEF Step, Delivery, BeginReply, BeginRequest, FinishTools, ExecCompletes, ExecSuspends,
       SuspendAt, ExecRaises, AfterExec, SendRequest, ReplySuppressed, ReplyCommitted,
       SendSucceeds, SendFails, FinalReply, CheckPasses, Finish, HarnessStops, StepFails, job
  <2>3. CASE Release \/ Environment \/ UNCHANGED vars
    BY <2>3 DEF Release, Environment, PushUserMessage, Notify, Satisfy, Lapse, Restart, vars, job
  <2>4. QED
    BY <2>2, <2>3 DEF Next
<1> SUFFICES ASSUME Clean' PROVE AllShown' \/ HeadsForRequest'
    BY <1>1
<1>2. Clean /\ ~error' /\ ~defError'
    BY CleanStays, Zenon DEF Clean
<1>3. seen \subseteq seen'
    BY SeenStays
<1>4. pc # "idle" => status = "STARTED"
    BY DEF StatusInv, RunningStatus
<1>5. CASE AllShown /\ NotesStay
    BY <1>3, <1>5, ShownStays
<1>6. CASE SendRequest
    BY <1>6 DEF SendRequest, AllShown, LogIndices
<1>7. CASE NotesDrain /\ CanDrain /\ ~SendRequest
  <2>1. ~ReplyAwaitsRun'
    BY <1>7, DrainedLast DEF CanDrain
  <2>2. pendingLog # pendingLog'
    BY <1>7 DEF NotesDrain, CanDrain
  <2>3. AfterExec \/ FinalReply
    <3>1. UNCHANGED sent
      BY <1>7 DEF NotesDrain
    <3>2. ASSUME NEW n \in Notes, Notify(n) PROVE FALSE
      <4>1. sent \in Seq(Notes) /\ sent' = Append(sent, n)
        BY <3>2 DEF Notify, TypeOK, OtherTypes
      <4>2. QED
        BY <3>1, <4>1
    <3>3. CASE Step
      BY <1>7, <2>2, <3>3, DeliveryKeeps DEF Step, Delivery, BeginWarmup, BeginReply, BeginRequest, FinishTools,
         ExecCompletes, ExecSuspends, ExecRaises, ReplySuppressed, ReplyCommitted,
         SendSucceeds, SendFails, CheckPasses, Finish, HarnessStops, StepFails, job
    <3>4. CASE Release \/ Environment \/ UNCHANGED vars
      BY <2>2, <3>2, <3>4 DEF Release, Environment, PushUserMessage, Satisfy, Lapse, Restart,
         vars, job
    <3>5. QED
      BY <3>3, <3>4 DEF Next
  <2>4. pc' = "check" /\ status' = "STARTED"
    BY <1>4, <2>2, <2>3 DEF AfterExec, FinalReply, FollowUp, GoTo
  <2>5. QED
    BY <2>1, <2>4 DEF HeadsForRequest
<1>8. ASSUME NEW n \in Notes, Notify(n) PROVE AllShown' \/ HeadsForRequest'
  <2>1. CASE status = "DONE"
    <3>1. pc' = "idle" /\ status' = "STARTED"
      BY <1>4, <1>8, <2>1 DEF Notify, step
    <3>2. /\ chatLog' = Append(chatLog, Item("note", n, NoBlock))
          /\ Item("note", n, NoBlock) \in LogItem
      BY <1>8, <2>1, ItemType, NoBlockType DEF Notify, Kinds
    <3>3. LastItem' = Item("note", n, NoBlock)
      BY <3>2, AppendFinal DEF TypeOK, LogTypes
    <3>4. QED
      BY <3>1, <3>3 DEF HeadsForRequest, ReplyAwaitsRun, Item
  <2>2. CASE status # "DONE"
    <3>1. UNCHANGED <<chatLog, status, pc, seen>>
      BY <1>8, <2>2 DEF Notify, step
    <3>2. QED
      BY <1>2, <3>1 DEF AllShown, LogIndices, HeadsForRequest, ReplyAwaitsRun, LastItem
  <2>3. QED
    BY <2>1, <2>2
<1>9. CASE HeadsForRequest /\ NotesStay /\ ~SendRequest
  <2>1. pc \in {"idle", "check", "request"} /\ status = "STARTED" /\ ~ReplyAwaitsRun
    BY <1>9 DEF HeadsForRequest
  <2>2. ASSUME UNCHANGED <<chatLog, status>>, pc' \in {"idle", "check", "request"}
        PROVE  HeadsForRequest'
    BY <2>1, <2>2 DEF HeadsForRequest, ReplyAwaitsRun, LastItem
  <2>3. ~BeginWarmup /\ ~BeginReply
    BY <2>1 DEF BeginWarmup, HasWarmupBlock, BeginReply, HasReply, ReplyAwaitsRun
  <2>4. ~HarnessStops /\ ~StepFails
    BY <1>2, Zenon DEF HarnessStops, StepFails
  <2>5. ~Finish /\ ~Release /\ ~Restart
    BY <2>1 DEF Finish, Release, Restart, AtAwait, Awaits, StatusInv, WaitersAreFound
  <2>6. CASE BeginRequest
    BY <2>1, <2>2, <2>6 DEF BeginRequest, GoTo
  <2>7. CASE CheckPasses
    BY <2>2, <2>7 DEF CheckPasses, Leave, job
  <2>8. CASE Step
    BY <1>9, <2>1, <2>3, <2>4, <2>5, <2>6, <2>7, <2>8, DeliveryKeeps DEF Step, Delivery, FinishTools, ExecCompletes,
       ExecSuspends, ExecRaises, AfterExec, ReplySuppressed, ReplyCommitted, SendSucceeds,
       SendFails, FinalReply
  <2>9. CASE UNCHANGED vars \/ \E f \in Futures : Satisfy(f) \/ Lapse(f)
    BY <2>1, <2>2, <2>9 DEF vars, Satisfy, Lapse, job, step
  <2>10. ASSUME NEW m \in Messages, PushUserMessage(m) PROVE HeadsForRequest'
    <3>1. UNCHANGED <<pc, status>>
      BY <2>1, <2>10 DEF PushUserMessage, step
    <3>2. CASE UNCHANGED chatLog
      BY <2>1, <2>2, <3>1, <3>2
    <3>3. CASE chatLog' = Append(chatLog, Item("user", m, NoBlock))
      <4>1. Item("user", m, NoBlock) \in LogItem /\ Item("user", m, NoBlock).kind = "user"
        BY ItemType, NoBlockType DEF Kinds, Item
      <4>2. LastItem' = Item("user", m, NoBlock)
        BY <3>3, <4>1, AppendFinal DEF TypeOK, LogTypes
      <4>3. QED
        BY <2>1, <3>1, <4>1, <4>2 DEF HeadsForRequest, ReplyAwaitsRun
    <3>4. QED
      BY <2>1, <2>10, <3>2, <3>3 DEF PushUserMessage
  <2>11. QED
    BY <1>8, <2>5, <2>8, <2>9, <2>10 DEF Next, Environment
<1>10. ASSUME NEW n \in Notes, NoteLogged(n) \/ NoteQueued(n), ~\E m \in Notes : Notify(m)
       PROVE  FALSE
  <2>1. sent' # sent
    <3>1. sent \in Seq(Notes) /\ sent' = Append(sent, n)
      BY <1>10 DEF NoteLogged, NoteQueued, Arrives, TypeOK, OtherTypes
    <3>2. QED
      BY <3>1
  <2>2. CASE Step
    BY <2>1, <2>2, DeliveryKeeps DEF Step, Delivery, BeginWarmup, BeginReply, BeginRequest,
       FinishTools, ExecCompletes, ExecSuspends, ExecRaises, AfterExec, SendRequest,
       ReplySuppressed, ReplyCommitted, SendSucceeds, SendFails, FinalReply, CheckPasses, Finish,
       HarnessStops, StepFails, history
  <2>3. CASE Release \/ Environment \/ UNCHANGED vars
    BY <1>10, <2>1, <2>3 DEF Release, Environment, PushUserMessage, Satisfy, Lapse, Restart, vars,
       history
  <2>4. QED
    BY <2>2, <2>3 DEF Next
<1>11. QED
    BY <1>2, <1>5, <1>6, <1>7, <1>8, <1>9, <1>10, NotesMove

(* Without warmup code and with replies that carry text, a job completes   *)
(* normally only when every notification delivered to it has been part of  *)
(* a request; runs js_warmup_exit and js_blank show the two ways in which  *)
(* it otherwise need not.                                                  *)
THEOREM DoneIsShown == TextReplies /\ Warmup = <<>> => (Spec => []DoneMeansShown)
<1> SUFFICES ASSUME TextReplies, Warmup = <<>> PROVE Spec => []DoneMeansShown
    OBVIOUS
<1>1. Init => ShownInv
    BY DEF Init, ShownInv, AllShown, LogIndices
<1>2. Init => StatusInv
    BY DEF Init, StatusInv, RunningStatus, WaitersAreFound
<1>3. Spec => []StatusInv
    BY <1>2, TypeCorrect, StatusNext, PTL DEF Spec
<1>4. Spec => []ShownInv
    BY <1>1, <1>3, TypeCorrect, ShownNext, PTL DEF Spec
<1>5. ASSUME NoteInv, DrainInv, ShownInv PROVE DoneMeansShown
  <2> SUFFICES ASSUME status = "DONE", Clean, NEW n \in Delivered PROVE n \in seen
      BY DEF DoneMeansShown
  <2>1. pendingLog = <<>> /\ AllShown
      BY <1>5 DEF DrainInv, Emptied, ShownInv, HeadsForRequest
  <2>2. LoggedAt(n) # {}
      BY <1>5, <2>1 DEF NoteInv, PendingAt
  <2>3. QED
      BY <2>1, <2>2 DEF AllShown, LoggedAt
<1>6. QED
    BY <1>4, <1>5, NotesInvariant, DrainInvariant, PTL
=============================================================================
