------------------------------ MODULE JobStep ------------------------------
(***************************************************************************)
(* One Job and the coroutine that advances it, run_job_step, under         *)
(* job_worker and run_jobs_loop (src/statek/executors/utils.py and job.py). *)
(*                                                                         *)
(* The step is cut at the points where the asyncio loop can run something  *)
(* else: a tool being awaited ("tools"), generated code that drives an     *)
(* async tool through a nested loop ("exec"), the LLM request ("llm") and  *)
(* the delivery of a reply ("send").  Everything between two such points   *)
(* is one uninterrupted segment: the labels of RunToCompletion are internal *)
(* stations of a segment at which the environment is disabled.             *)
(*                                                                         *)
(* The environment pushes user messages and notifications, satisfies (and, *)
(* for a child job that is restarted, un-satisfies) futures, and may kill  *)
(* the process at any of the four points.                                  *)
(***************************************************************************)
EXTENDS Integers, Sequences, FiniteSets

CONSTANTS
    Messages,       (* user messages, each pushed at most once              *)
    Notes,          (* notifications, each delivered to the job at most once *)
    Futures,        (* futures that generated code may wait for             *)
    Style,          (* JobDef.chat_style: "DIRECT", "MD_DIALOG" or "PLAIN"   *)
    Warmup,         (* JobDef.warmup_code: a sequence of blocks             *)
    BlankReplies,   (* may a DIRECT reply carry no dialog text?             *)
    HasReminder,    (* does the agent define a reminder?                    *)
    PostProcessing, (* does the job definition have post-processors?        *)
    LimitsTrip,     (* may the token / exception limits of the harness trip? *)
    MayLapse,       (* may a satisfied future become unsatisfied again?     *)
    MaxTurns,       (* LLM_Harness.max_turns                                *)
    Extension,      (* LLM_Harness.limit_extension_per_completion           *)
    MaxInstr,       (* instructions in one code block                       *)
    MaxSuspends,    (* bound: suspensions explored                          *)
    MaxPosts,       (* bound: replies suppressed by a post-processor        *)
    MaxRestarts,    (* bound: process restarts explored                     *)
    NoFuture, NoMsg (* "None" for awaited_result and for the bound context  *)

Block == [code: BOOLEAN, tool: BOOLEAN, cli: BOOLEAN, blank: BOOLEAN]

ASSUME JobStepAssumption ==
    /\ Style \in {"DIRECT", "MD_DIALOG", "PLAIN"}
    /\ Warmup \in Seq(Block)
    /\ BlankReplies \in BOOLEAN /\ HasReminder \in BOOLEAN
    /\ PostProcessing \in BOOLEAN /\ LimitsTrip \in BOOLEAN /\ MayLapse \in BOOLEAN
    /\ MaxTurns \in Nat /\ Extension \in Nat /\ MaxInstr \in Nat \ {0}
    /\ MaxSuspends \in Nat /\ MaxPosts \in Nat /\ MaxRestarts \in Nat
    /\ NoFuture \notin Futures /\ NoMsg \notin Messages
    /\ Messages \cap Notes = {}

Dialog == Style \in {"DIRECT", "MD_DIALOG"}

VARIABLES
    status,       \* Job.job_status
    chatLog,      \* Job.chat_log (DifficultyChangeLogItems left out)
    pendingLog,   \* Job.__pending_chat_log
    pushLog,      \* PyEnv._push_log: messages of the styles without dialog
    awaited,      \* Job.awaited_result
    nextInstr,    \* Job.next_instr_num
    future,       \* PyEnv.future_result: an expression value still to be echoed
    warmupNum,    \* Job.warmup_block_num, from 1
    exitSet,      \* is PyEnv.exit_status other than None?
    error,        \* is Job.error set?
    defError,     \* has this job called JobDef.set_error?
    completions,  \* Job.num_completions, None counted as 0
    bound,        \* the context of bind_critical_error_context
    wait,         \* UserLogItem.wait_finished_at of each message
    pc,           \* where run_job_step is
    cur,          \* local: index in chatLog of the block being run
    snapshot,     \* local: messages captured by record_response_delivery
    final,        \* local: does the reply being sent finish the job?
    ready,        \* futures whose check_condition holds
    suspends, posts, restarts,   \* what the bounds count
    owner,        \* history: identity of the block that set nextInstr, 0 for none
    stale,        \* history: has a block been entered at another's position?
    sent,         \* history: notifications in the order of their delivery
    seen,         \* history: messages and notifications in some LLM request
    during,       \* history: messages pushed since the last delivery began
    reported      \* history: contexts passed to the critical-error handler

job == <<status, chatLog, pendingLog, pushLog, awaited, nextInstr, future,
         warmupNum, exitSet, error, defError, completions, bound, wait>>
step == <<pc, cur, snapshot, final>>
counters == <<suspends, posts, restarts>>
history == <<owner, stale, sent, seen, during, reported>>
vars == <<job, step, ready, counters, history>>

-----------------------------------------------------------------------------
(* Data.  A chat-log item is a kind, what it refers to, the block it carries *)
(* and whether its tool_log slots have been allocated.                      *)

Statuses == {"READY", "WARMING_UP", "STARTED", "SUSPENDED", "DONE"}
Kinds == {"warmup", "llm", "user", "note", "reminder", "post"}
NoBlock == [code |-> FALSE, tool |-> FALSE, cli |-> FALSE, blank |-> TRUE]
LogItem ==
    {item \in [kind: Kinds, ref: Messages \cup Notes \cup {NoMsg}, block: Block, tools: BOOLEAN] :
        /\ item.kind = "user" => item.ref \in Messages
        /\ item.kind = "note" => item.ref \in Notes}
Item(kind, ref, block) == [kind |-> kind, ref |-> ref, block |-> block, tools |-> FALSE]

(* instr_num: an int for regular code, a (cli_step, instr) pair for        *)
(* python_cli; at = -1 stands for an instr of None inside the pair.        *)
Position == [part: {"code", "cli"}, at: -1..MaxInstr]
NoInstr == [part |-> "none", at |-> -1]

(* The blocks an LLM reply can be stored as (append_chat_log).  DIRECT     *)
(* text is never code; a reply without dialog text is stored as None.      *)
Replies ==
    LET shape == {b \in Block : ~b.blank} IN
    CASE Style = "DIRECT" ->
             {b \in shape : ~b.code} \cup (IF BlankReplies THEN {NoBlock} ELSE {})
      [] OTHER -> shape

IsStepFinal(b) ==
    CASE Style = "DIRECT" -> ~b.tool /\ ~b.cli
      [] Style = "MD_DIALOG" -> ~b.tool /\ ~b.cli /\ ~b.code
      [] OTHER -> FALSE

LastItem == chatLog[Len(chatLog)]
LogIndices(kind) == {i \in DOMAIN chatLog : chatLog[i].kind = kind}
OpenWaits == {m \in Messages : wait[m] = "open"}

FinalizedNeedsToolLog ==   \* mutated: text replies have no tool log to wait for
    \/ chatLog = <<>>
    \/ LastItem.kind # "llm"
    \/ ~LastItem.block.blank /\ LastItem.tools
(* _chat_log_finalized_for_notifications: may notifications be appended?   *)
Finalized ==
    \/ chatLog = <<>>
    \/ LastItem.kind # "llm"
    \/ /\ ~LastItem.block.blank
       /\ (LastItem.block.tool \/ LastItem.block.cli) => LastItem.tools

NotesLastFirst(ns) ==      \* mutated: the pending list is emptied from its end
    [i \in DOMAIN ns |-> Item("note", ns[Len(ns) + 1 - i], NoBlock)]
NotesAsItems(ns) == [i \in DOMAIN ns |-> Item("note", ns[i], NoBlock)]
DrainedLog == chatLog \o NotesAsItems(pendingLog)
CanDrain == pendingLog # <<>> /\ Finalized

(* LLM_Harness._effective_limit of max_turns; num_turns counts every       *)
(* LLM_LogItem.  The token and exception counters are not kept: when       *)
(* LimitsTrip, a check may find any of them exceeded.                      *)
TurnsExceeded ==
    Cardinality(LogIndices("llm")) > MaxTurns * (1 + Extension * completions)

-----------------------------------------------------------------------------
(* Where the step can be interrupted, and the stations of a segment.       *)
Awaits == {"idle", "tools", "exec", "llm", "send"}
RunToCompletion == {"after", "request", "final", "check", "finish"}
AtAwait == pc \in Awaits

GoTo(label) == pc' = label
Leave == /\ pc' = "idle" /\ cur' = 0 /\ snapshot' = {} /\ final' = FALSE

Init ==
    /\ status = "READY" /\ chatLog = <<>> /\ pendingLog = <<>> /\ pushLog = <<>>
    /\ awaited = NoFuture /\ nextInstr = NoInstr /\ future = NoFuture
    /\ warmupNum = 1 /\ exitSet = FALSE /\ error = FALSE /\ defError = FALSE
    /\ completions = 0 /\ bound = NoMsg
    /\ wait = [m \in Messages |-> "unsent"]
    /\ pc = "idle" /\ cur = 0 /\ snapshot = {} /\ final = FALSE
    /\ ready = {}
    /\ suspends = 0 /\ posts = 0 /\ restarts = 0
    /\ owner = 0 /\ stale = FALSE /\ sent = <<>> /\ seen = {} /\ during = {}
    /\ reported = <<>>

-----------------------------------------------------------------------------
(* Steps 1 to 5: what a scheduled step starts with.                        *)

(* run_jobs_loop's selection.  A job whose wait has not been released is   *)
(* turned away by run_job_step itself.                                     *)
Schedulable ==
    /\ pc = "idle" /\ status \in {"READY", "WARMING_UP", "STARTED"}
    /\ awaited = NoFuture

MayBegin == Schedulable /\ ~TurnsExceeded

(* get_next_code_block                                                     *)
HasWarmupBlock == status \in {"READY", "WARMING_UP"} /\ warmupNum <= Len(Warmup)
HasReply ==
    /\ status \notin {"READY", "WARMING_UP", "DONE"}
    /\ chatLog # <<>> /\ LastItem.kind = "llm" /\ ~LastItem.block.blank

(* Step 5: the regular tool calls of a block run, and the tool_log slots   *)
(* are allocated, only when the block is not a continuation.               *)
Fresh == nextInstr = NoInstr
Allocate(item) ==
    [item EXCEPT !.tools = @ \/ (Fresh /\ (item.block.tool \/ item.block.cli))]
EnterPastEnd(log, id) ==   \* mutated: the index of the running block is off by one
    /\ chatLog' = [log EXCEPT ![Len(log)] = Allocate(@)]
    /\ cur' = Len(log) + 1
    /\ GoTo(IF Fresh /\ log[Len(log)].block.tool THEN "tools" ELSE "exec")
    /\ stale' = (stale \/ (~Fresh /\ owner # id))
Enter(log, id) ==
    /\ chatLog' = [log EXCEPT ![Len(log)] = Allocate(@)]
    /\ cur' = Len(log)
    /\ GoTo(IF Fresh /\ log[Len(log)].block.tool THEN "tools" ELSE "exec")
    /\ stale' = (stale \/ (~Fresh /\ owner # id))

BeginWarmup ==
    /\ MayBegin /\ HasWarmupBlock
    /\ status' = "WARMING_UP"
    /\ Enter(Append(chatLog, Item("warmup", NoMsg, Warmup[warmupNum])), -warmupNum)
    /\ UNCHANGED <<pendingLog, pushLog, awaited, nextInstr, future, warmupNum,
                   exitSet, error, defError, completions, bound, wait, snapshot,
                   final, ready, counters, owner, sent, seen, during, reported>>

BeginReply ==
    /\ MayBegin /\ HasReply
    /\ Enter(chatLog, Len(chatLog))
    /\ UNCHANGED <<status, pendingLog, pushLog, awaited, nextInstr, future,
                   warmupNum, exitSet, error, defError, completions, bound, wait,
                   snapshot, final, ready, counters, owner, sent, seen, during,
                   reported>>

BeginRequest ==
    /\ MayBegin /\ ~HasWarmupBlock /\ ~HasReply
    /\ status' = "STARTED"
    /\ GoTo("request")
    /\ UNCHANGED <<chatLog, pendingLog, pushLog, awaited, nextInstr, future,
                   warmupNum, exitSet, error, defError, completions, bound, wait,
                   cur, snapshot, final, ready, counters, history>>

(* exec_tool never raises; a tool may call exit.                           *)
FinishTools ==
    /\ pc = "tools"
    /\ exitSet' \in {exitSet, TRUE}
    /\ GoTo("exec") /\ snapshot' = {}
    /\ UNCHANGED <<status, chatLog, pendingLog, pushLog, awaited, nextInstr, future,
                   warmupNum, error, defError, completions, bound, wait, cur,
                   final, ready, counters, history>>

FinishWaits(ms) ==
    wait' = [m \in Messages |-> IF m \in ms /\ wait[m] = "open" THEN "closed" ELSE wait[m]]

-----------------------------------------------------------------------------
(* Step 6: exec_all_steps.  Regular code first, then the python_cli call;  *)
(* a recorded position selects the part and the instruction to resume at.  *)

Running == chatLog[cur].block
RunsCode == /\ Running.code /\ nextInstr.part # "cli"
            /\ status = "WARMING_UP" \/ Style # "DIRECT"
RunsCli == Running.cli
RunsAnything == RunsCode \/ RunsCli
FirstPart == IF RunsCode THEN "code" ELSE "cli"

(* _exec_code_body: an echoed future accounts for the recorded instruction. *)
Start(part) ==
    CASE nextInstr.part # part -> 0
      [] future # NoFuture     -> nextInstr.at + 1
      [] OTHER                 -> IF nextInstr.at < 0 THEN 0 ELSE nextInstr.at

(* The instructions that may run; nothing runs after the one that exits.   *)
Reachable ==
    {p \in Position :
        /\ p.part = "code" => RunsCode
        /\ p.part = "cli" => RunsCli
        /\ Start(p.part) <= p.at /\ p.at < MaxInstr
        /\ exitSet => p.part = FirstPart /\ p.at = Start(FirstPart)}

(* The echo of a future that is not ready stops the block before it starts. *)
EchoBlocked == future # NoFuture /\ future \notin ready /\ RunsAnything

ExecCompletes ==
    /\ pc = "exec" /\ ~EchoBlocked
    /\ exitSet' \in IF Reachable = {} THEN {exitSet} ELSE {exitSet, TRUE}
    /\ awaited' = NoFuture /\ nextInstr' = NoInstr /\ owner' = 0
    /\ future' = IF RunsAnything THEN NoFuture ELSE future
    /\ GoTo("after") /\ cur' = 0 /\ snapshot' = {}
    /\ UNCHANGED <<status, chatLog, pendingLog, pushLog, warmupNum, error, defError,
                   completions, bound, wait, final, ready, counters,
                   stale, sent, seen, during, reported>>

SuspendAtStarted(position, f, echo) ==   \* mutated: the status is not set
    /\ suspends < MaxSuspends /\ suspends' = suspends + 1
    /\ awaited' = f /\ nextInstr' = position /\ future' = echo
    /\ UNCHANGED status
    /\ owner' = IF chatLog[cur].kind = "warmup" THEN -warmupNum ELSE cur
    /\ Leave
(* Step 7: FutureError records what is awaited and where to resume.  An    *)
(* expression whose value is the future is echoed later, not re-evaluated. *)
SuspendAt(position, f, echo) ==
    /\ suspends < MaxSuspends /\ suspends' = suspends + 1
    /\ awaited' = f /\ nextInstr' = position /\ future' = echo
    /\ status' = IF status = "STARTED" THEN "SUSPENDED" ELSE status
    /\ owner' = IF chatLog[cur].kind = "warmup" THEN -warmupNum ELSE cur
    /\ Leave

ExecSuspends ==
    /\ pc = "exec"
    /\ \/ /\ EchoBlocked
          /\ SuspendAt(IF nextInstr.part = FirstPart THEN nextInstr
                       ELSE IF RunsCode THEN NoInstr ELSE [part |-> "cli", at |-> -1],
                       future, future)
       \/ /\ ~EchoBlocked
          /\ \E p \in Reachable, f \in Futures \ ready :
                \E echo \in {f, NoFuture} : SuspendAt(p, f, echo)
    /\ UNCHANGED <<chatLog, pendingLog, pushLog, warmupNum, exitSet, error, defError,
                   completions, bound, wait, ready, posts, restarts, stale, sent,
                   seen, during, reported>>

NotifyHandlersAgain ==     \* mutated: the context stays bound
    /\ UNCHANGED bound
    /\ reported' = IF bound = NoMsg THEN reported ELSE Append(reported, bound)
(* Job.notify_handlers for the bound context: invoked once, then dropped.  *)
NotifyHandlers ==
    /\ bound' = NoMsg
    /\ reported' = IF bound = NoMsg THEN reported ELSE Append(reported, bound)

(* Step 8: an ordinary exception ends a warmup and, in a reply, leaves the *)
(* position as it is.  A block refused before it runs keeps its echo.      *)
ExecRaises ==
    /\ pc = "exec" /\ RunsAnything
    /\ future' \in IF EchoBlocked THEN {future} ELSE {future, NoFuture}
    /\ \/ /\ status = "WARMING_UP"
          /\ defError' = TRUE /\ status' = "DONE" /\ NotifyHandlers /\ Leave
       \/ /\ status # "WARMING_UP"
          /\ GoTo("after") /\ cur' = 0 /\ snapshot' = {}
          /\ UNCHANGED <<status, defError, bound, reported, final>>
    /\ UNCHANGED <<chatLog, pendingLog, pushLog, awaited, nextInstr, warmupNum,
                   exitSet, error, completions, wait, ready, counters, owner, stale,
                   sent, seen, during>>

(* The send_message tool of a dialog agent, called by a tool call or by    *)
(* code: it drives the delivery through a nested loop, in a                *)
(* record_response_delivery of its own.  One that fails ends no wait.      *)
MayCallTools == \/ pc = "tools"
                \/ pc = "exec" /\ ~EchoBlocked /\ Reachable # {}

ToolDelivery ==
    /\ Dialog /\ MayCallTools
    /\ \/ /\ snapshot' = OpenWaits /\ during' = {}
          /\ UNCHANGED wait
       \/ /\ FinishWaits(snapshot) /\ snapshot' = {}
          /\ UNCHANGED during
    /\ UNCHANGED <<status, chatLog, pendingLog, pushLog, awaited, nextInstr, future,
                   warmupNum, exitSet, error, defError, completions, bound, pc, cur,
                   final, ready, counters, owner, stale, sent, seen, reported>>

-----------------------------------------------------------------------------
(* Steps 9 to 13.                                                          *)

FollowUpAndFinish ==       \* mutated: the job completes without another request
    /\ chatLog' = DrainedLog /\ pendingLog' = <<>>
    /\ exitSet' = FALSE
    /\ GoTo("finish")
(* _process_pending_notification_follow_up, before any natural completion. *)
FollowUp ==
    /\ chatLog' = DrainedLog /\ pendingLog' = <<>>
    /\ exitSet' = FALSE
    /\ GoTo("check")

AfterExec ==
    /\ pc = "after"
    /\ \/ /\ exitSet /\ CanDrain /\ FollowUp
          /\ UNCHANGED <<status, warmupNum, final>>
       \/ /\ exitSet /\ ~CanDrain /\ GoTo("finish")
          /\ UNCHANGED <<status, chatLog, pendingLog, exitSet, warmupNum, final>>
       \/ /\ ~exitSet /\ status = "WARMING_UP" /\ warmupNum < Len(Warmup)
          /\ warmupNum' = warmupNum + 1 /\ GoTo("idle")
          /\ UNCHANGED <<status, chatLog, pendingLog, exitSet, final>>
       \/ /\ ~exitSet /\ ~(status = "WARMING_UP" /\ warmupNum < Len(Warmup))
          /\ status' = "STARTED" /\ GoTo("request")
          /\ UNCHANGED <<chatLog, pendingLog, exitSet, warmupNum, final>>
    /\ UNCHANGED <<pushLog, awaited, nextInstr, future, error, defError, completions,
                   bound, wait, cur, snapshot, ready, counters, history>>

(* Steps 11 to 13: pending notifications join the log, then the request is *)
(* built from it and sent.                                                 *)
SendRequest ==
    /\ pc = "request"
    /\ IF CanDrain THEN chatLog' = DrainedLog /\ pendingLog' = <<>>
                   ELSE UNCHANGED <<chatLog, pendingLog>>
    /\ seen' = seen \cup {pushLog[i] : i \in DOMAIN pushLog}
                    \cup {chatLog'[i].ref : i \in
                              {j \in DOMAIN chatLog' : chatLog'[j].kind \in {"user", "note"}}}
    /\ GoTo("llm")
    /\ UNCHANGED <<status, pushLog, awaited, nextInstr, future, warmupNum, exitSet,
                   error, defError, completions, bound, wait, cur, snapshot, final,
                   ready, counters, owner, stale, sent, during, reported>>

-----------------------------------------------------------------------------
(* Steps 14 and 15: the reply is post-processed, committed and delivered.  *)

PostItem == Item("post", NoMsg, NoBlock)

(* A post-processor replaces the reply by a system message: not committed. *)
ReplySuppressed ==
    /\ pc = "llm" /\ PostProcessing
    /\ posts < MaxPosts /\ posts' = posts + 1
    /\ chatLog' = Append(chatLog, PostItem)
    /\ GoTo("check")
    /\ UNCHANGED <<status, pendingLog, pushLog, awaited, nextInstr, future, warmupNum,
                   exitSet, error, defError, completions, bound, wait, cur, snapshot,
                   final, ready, suspends, restarts, history>>

(* The reply b is committed.  A post-processor that changes or annotates   *)
(* it ("activated") keeps it from finishing the job.  handle_dialog sends  *)
(* its text a segment at a time, and the record_response_delivery of each  *)
(* segment captures the waits open when that segment's delivery begins.    *)
Commit(log, b, activated) ==
    /\ chatLog' = Append(log, Item("llm", NoMsg, b))
    /\ final' = (~activated /\ IsStepFinal(b))
    /\ \/ /\ Dialog /\ ~b.blank
          /\ GoTo("send") /\ snapshot' = OpenWaits /\ during' = {}
       \/ /\ Dialog => b.blank \/ ~IsStepFinal(b) \/ Style = "MD_DIALOG"
          /\ GoTo("final") /\ UNCHANGED <<snapshot, during>>

ReplyCommitted ==
    /\ pc = "llm"
    /\ \E b \in Replies :
          \/ /\ Commit(chatLog, b, FALSE)
             /\ UNCHANGED posts
          \/ /\ PostProcessing /\ posts < MaxPosts /\ posts' = posts + 1
             /\ \E log \in {chatLog, Append(chatLog, PostItem)} : Commit(log, b, TRUE)
    /\ UNCHANGED <<status, pendingLog, pushLog, awaited, nextInstr, future, warmupNum,
                   exitSet, error, defError, completions, bound, wait, cur, ready,
                   suspends, restarts, owner, stale, sent, seen, reported>>

SendFinishesAll ==         \* mutated: the waits are looked up after the delivery
    /\ pc = "send"
    /\ FinishWaits(OpenWaits) /\ snapshot' = {} /\ GoTo("final")
    /\ UNCHANGED <<status, chatLog, pendingLog, pushLog, awaited, nextInstr, future,
                   warmupNum, exitSet, error, defError, completions, bound, cur, final,
                   ready, counters, history>>
(* Another segment follows: its delivery captures the waits still open,    *)
(* also those of messages that arrived during the one that just ended.     *)
SegmentSent ==
    /\ pc = "send"
    /\ FinishWaits(snapshot) /\ snapshot' = OpenWaits \ snapshot /\ during' = {}
    /\ UNCHANGED <<status, chatLog, pendingLog, pushLog, awaited, nextInstr, future,
                   warmupNum, exitSet, error, defError, completions, bound, pc, cur,
                   final, ready, counters, owner, stale, sent, seen, reported>>

(* The last segment is delivered.                                          *)
SendSucceeds ==
    /\ pc = "send"
    /\ FinishWaits(snapshot) /\ snapshot' = {} /\ GoTo("final")
    /\ UNCHANGED <<status, chatLog, pendingLog, pushLog, awaited, nextInstr, future,
                   warmupNum, exitSet, error, defError, completions, bound, cur, final,
                   ready, counters, history>>

(* A failed delivery is reported on the console and the job goes on; the   *)
(* waits of its segment stay open, those that earlier segments ended don't. *)
SendFails ==
    /\ pc = "send"
    /\ final' = FALSE /\ snapshot' = {} /\ GoTo("final")
    /\ UNCHANGED <<status, chatLog, pendingLog, pushLog, awaited, nextInstr, future,
                   warmupNum, exitSet, error, defError, completions, bound, wait, cur,
                   ready, counters, history>>

-----------------------------------------------------------------------------
(* Steps 16 and 17, and the harness checks that close a step.              *)

(* handle_reminder: a reminder that fires is a request of its own.         *)
HandleReminder ==
    /\ HasReminder
    /\ chatLog' = Append(chatLog, Item("reminder", NoMsg, NoBlock))

FinalReplyUnguarded ==     \* mutated: pending notifications do not keep the job open
    /\ pc = "final"
    /\ \/ /\ ~final /\ GoTo("check")
          /\ UNCHANGED <<chatLog, pendingLog, exitSet>>
       \/ /\ final /\ GoTo("finish")
          /\ UNCHANGED <<chatLog, pendingLog, exitSet>>
    /\ UNCHANGED <<status, pushLog, awaited, nextInstr, future, warmupNum, error,
                   defError, completions, bound, wait, cur, snapshot, final, ready,
                   counters, history>>
FinalReply ==
    /\ pc = "final"
    /\ \/ /\ ~final /\ GoTo("check")
          /\ UNCHANGED <<chatLog, pendingLog, exitSet>>
       \/ /\ final /\ HandleReminder /\ GoTo("check")
          /\ UNCHANGED <<pendingLog, exitSet>>
       \/ /\ final /\ CanDrain /\ FollowUp
       \/ /\ final /\ ~CanDrain /\ GoTo("finish")
          /\ UNCHANGED <<chatLog, pendingLog, exitSet>>
    /\ UNCHANGED <<status, pushLog, awaited, nextInstr, future, warmupNum, error,
                   defError, completions, bound, wait, cur, snapshot, final, ready,
                   counters, history>>

CheckPasses ==
    /\ pc = "check" /\ Leave
    /\ UNCHANGED <<job, ready, counters, history>>

(* DONE; Step 16 goes through custom_exit, which leaves no exit status.    *)
Finish ==
    /\ pc = "finish" /\ Leave
    /\ status' = "DONE" /\ exitSet' = (exitSet /\ ~final)
    /\ UNCHANGED <<chatLog, pendingLog, pushLog, awaited, nextInstr, future, warmupNum,
                   error, defError, completions, bound, wait, ready, counters, history>>

(* job_worker on LLM_HarnessError: a terminal failure also ends all waits. *)
HarnessStops ==
    /\ \/ pc = "idle" /\ status \in {"READY", "WARMING_UP", "STARTED"} /\ awaited = NoFuture
          /\ (TurnsExceeded \/ LimitsTrip)
       \/ pc \in {"check", "finish"} /\ LimitsTrip
    /\ IF Dialog THEN FinishWaits(Messages) ELSE UNCHANGED wait
    /\ exitSet' = TRUE /\ error' = TRUE /\ status' = "DONE"
    /\ NotifyHandlers /\ Leave
    /\ UNCHANGED <<chatLog, pendingLog, pushLog, awaited, nextInstr, future, warmupNum,
                   defError, completions, ready, counters, owner, stale, sent, seen,
                   during>>

(* job_worker on any other exception: the provider, the request or a       *)
(* post-processor failed.                                                  *)
StepFails ==
    /\ pc \in {"request", "llm"}
    /\ error' = TRUE /\ status' = "DONE" /\ NotifyHandlers /\ Leave
    /\ UNCHANGED <<chatLog, pendingLog, pushLog, awaited, nextInstr, future, warmupNum,
                   exitSet, defError, completions, wait, ready, counters, owner, stale,
                   sent, seen, during>>

-----------------------------------------------------------------------------
(* What happens around the step while it awaits.                           *)

ReleaseRestarts ==         \* mutated: a warmup loses its place
    /\ awaited # NoFuture /\ awaited \in ready
    /\ status \in {"SUSPENDED", "WARMING_UP"} /\ AtAwait
    /\ awaited' = NoFuture /\ status' = "STARTED"
    /\ UNCHANGED <<chatLog, pendingLog, pushLog, nextInstr, future, warmupNum, exitSet,
                   error, defError, completions, bound, wait, step, ready, counters,
                   history>>
ReleaseWarmupsOnly ==      \* mutated: suspended jobs are not looked for
    /\ awaited # NoFuture /\ awaited \in ready
    /\ status = "WARMING_UP" /\ AtAwait
    /\ awaited' = NoFuture
    /\ UNCHANGED <<status, chatLog, pendingLog, pushLog, nextInstr, future, warmupNum,
                   exitSet, error, defError, completions, bound, wait, step, ready,
                   counters, history>>
(* unsuspend_jobs / _release_ready_continuation.                           *)
Release ==
    /\ awaited # NoFuture /\ awaited \in ready
    /\ status \in {"SUSPENDED", "WARMING_UP"} /\ AtAwait
    /\ awaited' = NoFuture
    /\ status' = IF status = "SUSPENDED" THEN "STARTED" ELSE status
    /\ UNCHANGED <<chatLog, pendingLog, pushLog, nextInstr, future, warmupNum, exitSet,
                   error, defError, completions, bound, wait, step, ready, counters,
                   history>>

(* push_user_message: dialog styles log the message and open its wait; a   *)
(* DONE job is reactivated with a placeholder for the reply now awaited.   *)
Pushed == {m \in Messages : wait[m] # "unsent"}
Placeholder == Item("llm", NoMsg, NoBlock)

PushUserMessage(m) ==
    /\ AtAwait /\ m \notin Pushed
    /\ LET logged == IF Dialog THEN Append(chatLog, Item("user", m, NoBlock)) ELSE chatLog
       IN  IF status = "DONE"
           THEN /\ chatLog' = Append(logged, Placeholder)
                /\ completions' = completions + 1
                /\ status' = "STARTED" /\ exitSet' = FALSE
           ELSE chatLog' = logged /\ UNCHANGED <<completions, status, exitSet>>
    /\ pushLog' = IF Dialog THEN pushLog ELSE Append(pushLog, m)
    /\ wait' = [wait EXCEPT ![m] = "open"]
    /\ during' = during \cup {m}
    /\ bound' = m
    /\ UNCHANGED <<pendingLog, awaited, nextInstr, future, warmupNum, error, defError,
                   step, ready, counters, owner, stale, sent, seen, reported>>

(* push_notification and send_notification: straight into the history of a *)
(* DONE job, which restarts; queued for every other job.                   *)
Delivered == {sent[i] : i \in DOMAIN sent}

Notify(n) ==
    /\ AtAwait /\ n \notin Delivered
    /\ sent' = Append(sent, n)
    /\ \/ /\ status = "DONE"
          /\ chatLog' = Append(chatLog, Item("note", n, NoBlock))
          /\ status' = "STARTED" /\ exitSet' = FALSE
          /\ UNCHANGED pendingLog
       \/ /\ status # "DONE"
          /\ pendingLog' = Append(pendingLog, n)
          /\ UNCHANGED <<chatLog, status, exitSet>>
    /\ UNCHANGED <<pushLog, awaited, nextInstr, future, warmupNum, error, defError,
                   completions, bound, wait, step, ready, counters, owner, stale, seen,
                   during, reported>>

(* The job a future stands for ends, or is reactivated by a new message.   *)
Satisfy(f) ==
    /\ AtAwait /\ f \notin ready /\ ready' = ready \cup {f}
    /\ UNCHANGED <<job, step, counters, history>>
Lapse(f) ==
    /\ AtAwait /\ MayLapse /\ f \in ready /\ ready' = ready \ {f}
    /\ UNCHANGED <<job, step, counters, history>>

(* The process dies at an await and is started again: the coroutine and    *)
(* its locals are gone, the persisted job is as it was.                    *)
Restart ==
    /\ AtAwait /\ pc # "idle" /\ restarts < MaxRestarts
    /\ restarts' = restarts + 1 /\ Leave
    /\ UNCHANGED <<job, ready, suspends, posts, history>>

-----------------------------------------------------------------------------
Step ==
    \/ BeginWarmup \/ BeginReply \/ BeginRequest \/ FinishTools
    \/ ToolDelivery \/ ExecCompletes \/ ExecSuspends \/ ExecRaises \/ AfterExec
    \/ SendRequest \/ ReplySuppressed \/ ReplyCommitted
    \/ SegmentSent \/ SendSucceeds \/ SendFails
    \/ FinalReply \/ CheckPasses \/ Finish \/ HarnessStops \/ StepFails

Environment ==
    \/ \E m \in Messages : PushUserMessage(m)
    \/ \E n \in Notes : Notify(n)
    \/ \E f \in Futures : Satisfy(f) \/ Lapse(f)
    \/ Restart

Next == Step \/ Release \/ Environment

Spec == Init /\ [][Next]_vars

(* run_jobs_loop reschedules every runnable job and unsuspends every ready *)
(* one on each turn; tools, requests and deliveries end (with an error at  *)
(* the latest when their timeout expires); the jobs waited for finish.     *)
Fairness ==
    /\ WF_vars(Step) /\ WF_vars(Release)
    /\ \A f \in Futures : WF_vars(Satisfy(f))
FairSpec == Spec /\ Fairness

-----------------------------------------------------------------------------
LogTypes ==
    /\ chatLog \in Seq(LogItem) /\ pendingLog \in Seq(Notes) /\ pushLog \in Seq(Messages)

JobTypes ==
    /\ status \in Statuses
    /\ awaited \in Futures \cup {NoFuture} /\ future \in Futures \cup {NoFuture}
    /\ nextInstr \in Position \cup {NoInstr}
    /\ warmupNum \in Nat \ {0} /\ completions \in Nat
    /\ bound \in Messages \cup {NoMsg}
    /\ wait \in [Messages -> {"unsent", "open", "closed"}]

StepTypes ==
    /\ pc \in Awaits \cup RunToCompletion /\ cur \in Nat
    /\ pc \in {"tools", "exec"} => cur \in DOMAIN chatLog
    /\ snapshot \subseteq Messages

OtherTypes ==
    /\ ready \subseteq Futures
    /\ suspends \in Nat /\ posts \in Nat /\ restarts \in Nat
    /\ owner \in Int
    /\ sent \in Seq(Notes) /\ seen \subseteq Messages \cup Notes
    /\ during \subseteq Messages /\ reported \in Seq(Messages)

Flags ==
    /\ exitSet \in BOOLEAN /\ error \in BOOLEAN /\ defError \in BOOLEAN
    /\ final \in BOOLEAN /\ stale \in BOOLEAN

(* Every variable holds a value the program can give it; in particular the *)
(* block that run_job_step is running is one of the history.               *)
TypeOK == LogTypes /\ JobTypes /\ StepTypes /\ OtherTypes /\ Flags

(* unsuspend_jobs looks for waiting jobs among the SUSPENDED and the       *)
(* WARMING_UP ones only, and releases nothing that awaits nothing: a job   *)
(* that waits in another status, or is SUSPENDED without a future, would   *)
(* be lost to the loop.                                                    *)
WaitersAreFound ==
    /\ awaited # NoFuture => status \in {"SUSPENDED", "WARMING_UP"} /\ pc = "idle"
    /\ status = "SUSPENDED" => awaited # NoFuture

(* Step 5 and exec_all_steps take next_instr_num for the position at which *)
(* the block about to run stopped: it must be that block which recorded it. *)
ContinuationsResumeTheirBlock == ~stale

(* No failure and no misplaced continuation so far.                        *)
Clean == ~error /\ ~defError /\ ~stale

LoggedAt(n) == {i \in LogIndices("note") : chatLog[i].ref = n}
PendingAt(n) == {i \in DOMAIN pendingLog : pendingLog[i] = n}

(* A delivered notification is in the history or in the pending list,      *)
(* exactly once, whatever fails, restarts or interleaves.                  *)
NotesDeliveredOnce ==
    \A n \in Notes :
        Cardinality(LoggedAt(n)) + Cardinality(PendingAt(n)) = IF n \in Delivered THEN 1 ELSE 0

(* The history presents notifications in the order they were delivered in, *)
(* across the pending list and the direct path of a DONE job.  Where a     *)
(* reply without text ends the job, see DoneMeansDrained.                  *)
TextReplies == Style = "DIRECT" => ~BlankReplies
ComesFirst(n, m) ==
    /\ \A i \in LoggedAt(n), k \in LoggedAt(m) : i < k
    /\ \A i \in PendingAt(n), k \in PendingAt(m) : i < k
    /\ PendingAt(n) # {} => LoggedAt(m) = {}
NotesInOrder ==
    Clean /\ TextReplies =>
        \A a, b \in DOMAIN sent : a < b => ComesFirst(sent[a], sent[b])

(* Both: none is lost or doubled, and none overtakes another.              *)
NotesArriveOnce == NotesDeliveredOnce /\ NotesInOrder

(* A job that completed normally has no notification left unprocessed      *)
(* ("can finish only after ... pending notifications have been processed"). *)
DoneMeansDrained == status = "DONE" /\ Clean => pendingLog = <<>>

(* The follow-up guard of Steps 9 and 16 exists so that the model gets to  *)
(* react: no job completes normally before every notification delivered to *)
(* it has been part of a request.                                          *)
DoneMeansShown == status = "DONE" /\ Clean => Delivered \subseteq seen

(* A delivery, of one segment of a reply or by the send_message tool, ends *)
(* no wait of a message that arrived since it began; no message has its    *)
(* wait ended by anything else but a failure that ends the job.            *)
LateMessagesKeepWaiting ==
    [][\A m \in Messages :
          wait[m] = "open" /\ wait'[m] = "closed" =>
              \/ pc \in {"tools", "exec", "send"} /\ m \notin during
              \/ status' = "DONE"]_vars

(* A critical failure is reported for an accepted input at most once, even *)
(* if the job is restarted by a notification and fails again.              *)
ReportedOnce ==
    \A i, j \in DOMAIN reported : reported[i] = reported[j] => i = j

(* The statuses and the wait move as the abstract life cycle allows.       *)
Lifecycle == INSTANCE JobLifecycle WITH phase <- status, waiting <- (awaited # NoFuture)
LifecycleSpec == Lifecycle!Spec

(* A notification delivered to a job is eventually shown to the model,     *)
(* unless the job fails first.                                             *)
NotesReachTheModel ==
    \A n \in Notes : n \in Delivered ~> n \in seen \/ ~Clean

(* A suspended job is not left behind: the loop resumes it.                *)
SuspendedJobsResume == status = "SUSPENDED" ~> status # "SUSPENDED"
=============================================================================
