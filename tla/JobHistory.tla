----------------------------- MODULE JobHistory -----------------------------
(***************************************************************************)
(* What a Job has recorded and how it is read back: the chat log, the       *)
(* console and the push log (job.py, pyenv.py, chat_log_item.py), and the   *)
(* views of executors/job_history.py: the history sent with a request, the  *)
(* reconstruction of an old request, the step iterator, compaction, the     *)
(* dialog and the metrics.                                                  *)
(*                                                                         *)
(* The writers keep the order of run_job_step; what decides between them is *)
(* in JobStep.  Texts are abstract: a message is the sequence of the things *)
(* it shows, numbered by arrival (user messages) or position (log, console). *)
(* Positions of the log count from 1; a console position is a number of     *)
(* lines, so a block at position p that ends at e printed lines p+1..e.     *)
(***************************************************************************)
EXTENDS Positions, SequencesExt

CONSTANTS
    JobDefs,   (* [style, warmup] of a job, warmup a sequence of [hidden,    *)
               (* calls], and its bounds: messages, notes, lines, log (items) *)
               (* and whether there is an onlooker that reads the history     *)
    Replies    (* replies of the LLM: [text, calls, payload]                  *)

ASSUME HistoryAssumption ==
    /\ \A d \in JobDefs :
          /\ d.style \in {"DIRECT", "MD_DIALOG", "PLAIN"}
          /\ d.warmup \in Seq([hidden : BOOLEAN, calls : Nat, text : {"code"}])
    /\ Replies \subseteq [text : {"code", "blank", "dialog"}, calls : Nat, payload : BOOLEAN]

VARIABLES
    def,       \* Job.job_def
    log,       \* Job.chat_log
    pending,   \* Job.__pending_chat_log
    block,     \* Job.warmup_block_num
    console,   \* PyEnv._console with _exceptions: [by, error] of every line
    pushes,    \* PyEnv._push_log, flattened: [at, msg] in order of arrival
    phase,     \* where run_job_step is
    sent,      \* history: the requests, [msgs, known: messages pushed before]
    snap,      \* history steps captured by iter_history_steps, and its bounds
    reader     \* _HistoryStepIterator: position of the iterator, steps delivered

vars == <<def, log, pending, block, console, pushes, phase, sent, snap, reader>>

-----------------------------------------------------------------------------
(* The chat log. *)
Item(kind, pos, id, reply, results) ==
    [kind |-> kind, pos |-> pos, id |-> id, reply |-> reply, results |-> results]
NoReply == [text |-> "none", calls |-> 0, payload |-> FALSE]
Plain(kind, id) == Item(kind, Len(console), id, NoReply, <<>>)
UserItem(m) == Item("user", 0, m, NoReply, <<>>)
(* An LLM_LogItem without llm_resp: a reply is awaited. *)
Placeholder == Plain("llm", 0)
Concrete(item) == item.kind = "llm" /\ item.reply.text # "none"

IsDialog == def.style \in {"DIRECT", "MD_DIALOG"}
Turns == {i \in DOMAIN log : log[i].kind \in {"warmup", "llm"}}
Block(item) == IF item.kind = "warmup" THEN def.warmup[item.id + 1] ELSE item.reply
Calls(item) == Block(item).calls
Hidden(item) == item.kind = "warmup" /\ Block(item).hidden
Conversation == {i \in DOMAIN log : log[i].kind # "difficulty"}
LastItem == log[LastOf(Conversation)]
UserMessages(items) == {items[i].id : i \in {k \in DOMAIN items : items[k].kind = "user"}}
Known == UserMessages(log) \cup {pushes[i].msg : i \in DOMAIN pushes}
Arrived == Cardinality(Known)

-----------------------------------------------------------------------------
(* _history_entries: an entry's output ends where the next boundary starts. *)
BoundaryKinds == {"warmup", "llm", "post", "reminder", "subtask", "note"}
IsBoundaryButReminders(item) ==   \* mutated: a reminder does not end the output
    item.kind \in BoundaryKinds \ {"reminder"}
IsBoundary(item) == item.kind \in BoundaryKinds
EndAt(items, lines, i) ==
    LET after == {k \in i + 1..Len(items) : IsBoundary(items[k])}
    IN  IF after = {} THEN lines ELSE items[FirstOf(after)].pos
Skipped(items, i) == i = 1 /\ items[i].kind = "user"
EntryIndex(items, i) == IF Skipped(items, 1) THEN i - 2 ELSE i - 1

(* Messages of _HistoryRenderer. *)
Msg(role, what, refs) == [role |-> role, what |-> what, refs |-> refs]
Numbers(from, to) == [k \in 1..to - from |-> from + k]
PushedIn(log_, start, end) ==
    Picked(log_, {k \in DOMAIN log_ : start < log_[k].at /\ log_[k].at <= end})
AsUser(values) == [k \in DOMAIN values |-> Msg("user", "user", <<values[k].msg>>)]
InitialMessages(items, pushed) ==
    LET first == IF items # <<>> /\ items[1].kind = "user" THEN <<items[1].id>> ELSE <<>>
        early == PushedIn(pushed, -1, 0)
        parts == first \o [k \in DOMAIN early |-> early[k].msg]
    IN  IF parts = <<>> THEN <<>> ELSE <<Msg("user", "user", parts)>>
Synthetic(i, result) ==
    <<Msg("assistant", "calls", <<i>>), Msg("tool", result.what, result.refs)>>
(* item.get_tool_result(k): a missing result is shown as empty. *)
ToolMessages(item, i) ==
    [k \in 1..Calls(item) |->
        Msg("tool", IF k \in DOMAIN item.results THEN item.results[k] ELSE "empty", <<i, k>>)]
AssistantMessages(item, i) ==
    LET said == Block(item)
        shown == said.text = "code" \/ said.text = "dialog"
    IN  (IF shown \/ said.calls > 0 THEN <<Msg("assistant", "code", <<i>>)>>
         ELSE IF item.kind = "llm" /\ said.text = "blank" /\ said.payload
              THEN <<Msg("assistant", "payload", <<i>>)>> ELSE <<>>)
        \o ToolMessages(item, i)
ConsoleMessage(start, end) ==
    IF end > start THEN <<Msg("user", "console", Numbers(start, end))>> ELSE <<>>
DirectWarmup(item) == item.kind = "warmup" /\ def.style = "DIRECT" /\ Calls(item) = 0
ExecutionMessages(item, i, end, pushed) ==
    IF Hidden(item) THEN <<>>
    ELSE (IF DirectWarmup(item)
          THEN Synthetic(i, [what |-> "console", refs |-> Numbers(item.pos, end)])
          ELSE AssistantMessages(item, i)
               \o IF Calls(item) = 0 THEN ConsoleMessage(item.pos, end) ELSE <<>>)
         \o AsUser(PushedIn(pushed, item.pos, end))
Messages(items, i, end, pushed) ==
    LET item == items[i] IN
    CASE item.kind = "user" -> <<Msg("user", "user", <<item.id>>)>>
      [] item.kind \in {"post", "reminder"} -> <<Msg("system", item.kind, <<i>>)>>
      [] item.kind = "subtask" ->
            <<Msg("system", "subtask", <<i>>)>>
            \o IF item.results = <<>> THEN <<>>
               ELSE Synthetic(i, [what |-> "subtask", refs |-> <<i>>])
      [] item.kind = "note" -> Synthetic(i, [what |-> "note", refs |-> <<i>>])
      [] item.kind = "difficulty" -> <<>>
      [] OTHER -> ExecutionMessages(item, i, end, pushed)

-----------------------------------------------------------------------------
(* _HistoryCompaction and _build_history_steps.  A summary is [pos, len]. *)
LastWarmup(items, summaries) ==
    LET w == {i \in DOMAIN items : items[i].kind = "warmup"}
    IN  IF summaries = {} \/ w = {} THEN 0 ELSE LastOf(w)
CoversOneMore(s, i) == s.pos <= i /\ i <= s.pos + s.len   \* mutated: inclusive end
Covers(s, i) == s.pos <= i /\ i < s.pos + s.len
ValidSummaries(items, summaries) ==      \* _summary_ranges
    /\ \A s \in summaries :
          /\ s.len > 0 /\ s.pos >= 1 /\ s.pos + s.len - 1 <= Len(items)
          /\ \A i \in s.pos..s.pos + s.len - 1 : items[i].kind # "warmup"
    /\ \A s, t \in summaries : s # t /\ s.pos <= t.pos => s.pos + s.len <= t.pos
InOrder(summaries) ==
    [k \in 1..Cardinality(summaries) |->
        CHOOSE s \in summaries : Cardinality({t \in summaries : t.pos < s.pos}) = k - 1]
Step(item, start, end, msgs) ==
    [item |-> item, start |-> start, end |-> end, msgs |-> msgs]
SummaryStep(s) == Step(0, 0, 0, <<Msg("user", "summary", <<s.pos>>)>>)
EntryStep(items, lines, pushed, i) ==
    LET end == EndAt(items, lines, i) IN
    Step(i, IF items[i].kind = "user" THEN end ELSE items[i].pos, end,
         Messages(items, i, end, pushed))
BuildSteps(items, lines, pushed, summaries) ==
    LET last == LastWarmup(items, summaries)
        initial == InitialMessages(items, pushed)
        deferred == InOrder({s \in summaries : s.pos <= last})
        Summaries(ss) == [k \in DOMAIN ss |-> SummaryStep(ss[k])]
        at(i) == InOrder({s \in summaries : s.pos = i /\ i > last})
        entries == {i \in DOMAIN items : ~Skipped(items, i)}
        Opens(i) == i > last /\ \A k \in entries : k > last => i <= k
        Entry(i) ==
            IF i \notin entries THEN Summaries(at(i))
            ELSE (IF Opens(i) THEN Summaries(deferred) ELSE <<>>)
                 \o Summaries(at(i))
                 \o IF \E s \in summaries : Covers(s, i) THEN <<>>
                    ELSE <<EntryStep(items, lines, pushed, i)>>
    IN  (IF initial = <<>> THEN <<>> ELSE <<Step(0, 0, 0, initial)>>)
        \o FlattenSeq([i \in DOMAIN items |-> Entry(i)])
        \o IF \E i \in entries : Opens(i) THEN <<>> ELSE Summaries(deferred)
Flat(steps) == FlattenSeq([k \in DOMAIN steps |-> steps[k].msgs])
(* get_chat_history *)
ChatHistory(items, lines, pushed, summaries) ==
    Flat(BuildSteps(items, lines, pushed, summaries))
Rendered == ChatHistory(log, Len(console), pushes, {})

(* get_request_data: the state as it was before the reply was logged. *)
ConcreteItems == {i \in DOMAIN log : Concrete(log[i])}
RequestDataAll(i) ==            \* mutated: the console is not cut at the reply
    ChatHistory(SubSeq(log, 1, i - 1), Len(console), pushes, {})
RequestData(i) ==
    ChatHistory(SubSeq(log, 1, i - 1), log[i].pos, PushedIn(pushes, -1, log[i].pos), {})

-----------------------------------------------------------------------------
(* Metrics and the dialog: the output of a turn ends where the next starts. *)
TurnEnd(i) ==
    LET after == {k \in Turns : k > i}
    IN  IF after = {} THEN Len(console)
        ELSE log[FirstOf(after)].pos
(* _exception_messages_by_turn: the lines of the errors of a turn.          *)
TurnErrors(i) ==
    {l \in log[i].pos + 1..TurnEnd(i) : console[l].error = "execution"}
(* get_dialog, every line being an answer(): who speaks, and the reference.  *)
DialogOf(i) ==
    IF log[i].kind = "user" THEN <<Msg("user", "user", <<log[i].id>>)>>
    ELSE IF i \notin Turns THEN <<>>
    ELSE (IF log[i].kind = "llm" /\ log[i].reply.text = "dialog"
          THEN <<Msg("assistant", "said", <<i>>)>> ELSE <<>>)
         \o [k \in 1..TurnEnd(i) - log[i].pos |->
                Msg("assistant", "answer", <<log[i].pos + k>>)]
Dialog == FlattenSeq([i \in DOMAIN log |-> DialogOf(i)])
(* get_llm_response_times and get_llm_step_sizes, per LLM_LogItem: a reply   *)
(* makes an entry, a trailing placeholder one more.                         *)
LlmItems == {i \in DOMAIN log : log[i].kind = "llm"}
Trailing == LET open == {i \in LlmItems \ ConcreteItems : \A k \in LlmItems : k <= i} IN open
TimedTurns == ConcreteItems \cup Trailing
LastConcreteBefore(i) ==
    LET before == {k \in ConcreteItems : k < i}
    IN  IF before = {} THEN 0 ELSE LastOf(before)
StepInput(i) ==
    LET from == LastConcreteBefore(i)
        start == IF from = 0 THEN 0 ELSE log[from].pos
    IN  [lines |-> start + 1..log[i].pos,
         users |-> UserMessages(SubSeq(log, 1, i - 1))
                      \ UserMessages(SubSeq(log, 1, from))]
(* _annotate_steps: turn_num of an LLM item that shows an assistant message. *)
ShowsReply(i) == \E k \in DOMAIN AssistantMessages(log[i], i) :
                    AssistantMessages(log[i], i)[k].role = "assistant"
TurnNum(i) == Cardinality({k \in LlmItems : k < i /\ ShowsReply(k)})

-----------------------------------------------------------------------------
(* The writers. *)
Init ==
    /\ def \in JobDefs /\ log = <<>> /\ pending = <<>> /\ block = 0
    /\ console = <<>> /\ pushes = <<>> /\ sent = <<>>
    /\ phase = IF def.warmup = <<>> THEN "request" ELSE "ready"
    /\ snap = <<>> /\ reader = [live |-> FALSE, at |-> 0, out |-> <<>>]

View == <<snap, reader>>
Room(n) == Len(log) + Len(pending) + n <= def.log
Line(by, error) == [by |-> by, error |-> error]
Prints(by, error) == Len(console) < def.lines /\ console' = Append(console, Line(by, error))
Exec == LastOf(Turns)
Empty(n) == [k \in 1..n |-> "empty"]

(* Job._process_pending_notifications *)
Finalized ==
    \/ Conversation = {}
    \/ LastItem.kind # "llm"
    \/ Concrete(LastItem) /\ Len(LastItem.results) = Calls(LastItem)
DrainedAsQueued == log \o pending   \* mutated: positions are those of the queueing
Drained == log \o [k \in DOMAIN pending |-> [pending[k] EXCEPT !.pos = Len(console)]]
MayDrain == pending # <<>> /\ Finalized
Drains == IF MayDrain THEN log' = Drained /\ pending' = <<>> ELSE UNCHANGED <<log, pending>>

BeginWarmup ==
    /\ phase = "ready" /\ Room(1)
    /\ LET again == \E i \in DOMAIN log : log[i].kind = "warmup" /\ log[i].id = block
            calls == def.warmup[block + 1].calls
       IN  log' = Append(log, [Plain("warmup", block) EXCEPT
                                  !.results = IF again THEN <<>> ELSE Empty(calls)])
    /\ phase' = "warming"
    /\ UNCHANGED <<def, pending, block, console, pushes, sent>> /\ UNCHANGED View

(* Steps 2 to 5: the last item decides; a text without code is an error.    *)
BeginReply ==
    /\ phase \in {"replied", "suspended"}
    /\ LET runs == Conversation # {} /\ Concrete(LastItem)
            nothing == runs /\ Calls(LastItem) = 0 /\ def.style # "DIRECT"
                            /\ LastItem.reply.text # "code"
            begins == runs /\ ~nothing /\ phase = "replied"
       IN  /\ phase' = IF runs /\ ~nothing THEN "running" ELSE "request"
           /\ IF nothing THEN Prints(Exec, "execution") ELSE UNCHANGED console
           /\ log' = IF begins THEN [log EXCEPT ![Exec].results = Empty(Calls(log[Exec]))]
                     ELSE log
    /\ UNCHANGED <<def, pending, block, pushes, sent>> /\ UNCHANGED View

RunsCode == phase = "warming" \/ (phase = "running" /\ def.style # "DIRECT"
                                    /\ log[Exec].reply.text = "code")
PrintLine ==
    /\ RunsCode /\ Prints(Exec, "none")
    /\ UNCHANGED <<def, log, pending, block, pushes, phase, sent>> /\ UNCHANGED View
(* An exception ends the block, and a job whose warm-up raised.             *)
Raise ==
    /\ RunsCode /\ Prints(Exec, "execution")
    /\ phase' = IF phase = "warming" THEN "done" ELSE "request"
    /\ UNCHANGED <<def, log, pending, block, pushes, sent>> /\ UNCHANGED View
ToolDone ==
    /\ phase \in {"warming", "running"}
    /\ \E k \in DOMAIN log[Exec].results, r \in {"ok", "error"} :
          /\ log[Exec].results[k] = "empty"
          /\ \A m \in 1..k - 1 : log[Exec].results[m] # "empty"
          /\ log' = [log EXCEPT ![Exec].results[k] = r]
    /\ UNCHANGED <<def, pending, block, console, pushes, phase, sent>> /\ UNCHANGED View
Suspend ==
    /\ phase \in {"warming", "running"}
    /\ phase' = IF phase = "warming" THEN "ready" ELSE "suspended"
    /\ UNCHANGED <<def, log, pending, block, console, pushes, sent>> /\ UNCHANGED View

(* Steps 9 and 10: exit() finishes unless something is pending.            *)
ExitBlock ==
    /\ phase \in {"warming", "running"} /\ Drains
    /\ phase' = IF MayDrain THEN "replied" ELSE "done"
    /\ UNCHANGED <<def, block, console, pushes, sent>> /\ UNCHANGED View
EndBlock ==
    /\ phase \in {"warming", "running"}
    /\ \A k \in DOMAIN log[Exec].results : log[Exec].results[k] # "empty"
    /\ block' = IF phase = "warming" THEN block + 1 ELSE block
    /\ phase' = IF phase = "warming" /\ block' < Len(def.warmup) THEN "ready" ELSE "request"
    /\ UNCHANGED <<def, log, pending, console, pushes, sent>> /\ UNCHANGED View

(* Job._set_dynamic_difficulty, from panic() or from the next request.     *)
Escalate ==
    /\ phase \in {"running", "request"} /\ Room(1)
    /\ \A i \in DOMAIN log : log[i].kind # "difficulty"
    /\ log' = Append(log, Plain("difficulty", 0))
    /\ UNCHANGED <<def, pending, block, console, pushes, phase, sent>> /\ UNCHANGED View

SendRequest ==
    /\ phase = "request" /\ phase' = "llm" /\ Drains
    /\ sent' = Append(sent, [msgs |-> ChatHistory(log', Len(console), pushes, {}),
                             known |-> Known])
    /\ UNCHANGED <<def, block, console, pushes>> /\ UNCHANGED View

(* Step 14: a post-processor may replace the reply by a system message.    *)
ReplySuppressed ==
    /\ phase = "llm" /\ phase' = "replied" /\ Room(1)
    /\ log' = Append(log, Plain("post", 0))
    /\ UNCHANGED <<def, pending, block, console, pushes, sent>> /\ UNCHANGED View

IsStepFinal(r) ==
    \/ def.style = "DIRECT" /\ r.calls = 0
    \/ def.style = "MD_DIALOG" /\ r.calls = 0 /\ r.text # "code"
(* append_chat_log: what the style stores of the text of a reply.          *)
Stored(r) ==
    [r EXCEPT !.text =
        IF def.style = "DIRECT"
        THEN IF r.text = "blank" THEN (IF r.calls = 0 THEN "none" ELSE "empty") ELSE "dialog"
        ELSE IF r.text = "dialog" /\ def.style = "PLAIN" THEN "code" ELSE r.text]
Committed(r) == Append(log, [Plain("llm", Len(sent)) EXCEPT !.reply = Stored(r)])
(* Steps 14 to 17. *)
ReplyCommitted ==
    /\ phase = "llm" /\ Room(1) /\ phase' = "replied"
    /\ \E r \in Replies :
          /\ ~IsStepFinal(r)
          /\ log' = Committed(r)
    /\ UNCHANGED <<def, pending, block, console, pushes, sent>> /\ UNCHANGED View
DialogFails ==
    /\ phase = "llm" /\ Room(1) /\ IsDialog /\ phase' = "replied"
    /\ Prints(Len(log) + 1, "execution")
    /\ \E r \in Replies : log' = Committed(r)
    /\ UNCHANGED <<def, pending, block, pushes, sent>> /\ UNCHANGED View
(* handle_reminder: an item, and its text on the console.                  *)
FinalReplyReminded ==
    /\ phase = "llm" /\ Room(2) /\ phase' = "replied"
    /\ Prints(Len(log) + 2, "none")
    /\ \E r \in Replies :
          /\ IsStepFinal(r)
          /\ log' = Append(Committed(r), Plain("reminder", 0))
    /\ UNCHANGED <<def, pending, block, pushes, sent>> /\ UNCHANGED View
FinalReply ==
    /\ phase = "llm" /\ Room(1)
    /\ \E r \in Replies :
          /\ IsStepFinal(r)
          /\ LET drains == pending # <<>> /\ Stored(r).text # "none" IN
             /\ log' = Committed(r)
                       \o IF drains
                          THEN [k \in DOMAIN pending |-> [pending[k] EXCEPT !.pos = Len(console)]]
                          ELSE <<>>
             /\ pending' = IF drains THEN <<>> ELSE pending
             /\ phase' = IF drains THEN "replied" ELSE "done"
    /\ UNCHANGED <<def, block, console, pushes, sent>> /\ UNCHANGED View

(* job_worker: a failed request, or the harness before a step, is recorded  *)
(* and the job is DONE.                                                     *)
Fail ==
    /\ phase \in {"llm", "replied"} /\ phase' = "done"
    /\ Prints(0, IF phase = "llm" THEN "execution" ELSE "harness")
    /\ UNCHANGED <<def, log, pending, block, pushes, sent>> /\ UNCHANGED View

(* Job.push_user_message *)
PushUserMessage ==
    /\ Arrived < def.messages /\ Room(2)
    /\ LET m == Arrived + 1
            logged == IF IsDialog THEN Append(log, UserItem(m)) ELSE log
       IN  /\ pushes' = IF IsDialog THEN pushes
                        ELSE Append(pushes, [at |-> Len(console), msg |-> m])
           /\ log' = IF phase = "done" THEN Append(logged, Placeholder) ELSE logged
    /\ phase' = IF phase = "done" THEN "replied" ELSE phase
    /\ UNCHANGED <<def, pending, block, console, sent>> /\ UNCHANGED View

(* Job.send_notification, and push_notification of a sub-task.              *)
Notify ==
    /\ Room(1)
    /\ Cardinality({i \in DOMAIN log : log[i].kind \in {"note", "subtask"}}) + Len(pending)
          < def.notes
    /\ \E kind \in {"note", "subtask"}, done \in BOOLEAN :
          LET item == [Plain(kind, 0) EXCEPT !.results = IF done THEN <<"ok">> ELSE <<>>] IN
          /\ kind = "note" => done
          /\ IF phase = "done"
             THEN log' = Append(log, item) /\ phase' = "replied" /\ UNCHANGED pending
             ELSE pending' = Append(pending, item) /\ UNCHANGED <<log, phase>>
    /\ UNCHANGED <<def, block, console, pushes, sent>> /\ UNCHANGED View

-----------------------------------------------------------------------------
(* iter_history_steps: boundaries are captured, entries are read later.     *)
Data == <<def, log, pending, block, console, pushes, phase, sent>>
Skeleton(step) ==
    [item |-> step.item, start |-> step.start, end |-> step.end,
     msgs |-> [k \in DOMAIN step.msgs |-> <<step.msgs[k].role, step.msgs[k].refs>>]]
StepsOf(bounds) ==
    BuildSteps(SubSeq(log, 1, bounds.items), bounds.lines, bounds.pushes, {})
(* An onlooker reads while the job waits.                                   *)
AtAwait == phase \in {"llm", "suspended", "done"}
Capture ==
    /\ def.onlooker /\ AtAwait /\ snap = <<>> /\ log # <<>>
    /\ LET bounds == [items |-> Len(log), lines |-> Len(console), pushes |-> pushes]
            steps == BuildSteps(log, Len(console), pushes, {})
       IN  snap' = <<[bounds |-> bounds, steps |-> [k \in DOMAIN steps |-> Skeleton(steps[k])]]>>
    /\ UNCHANGED reader /\ UNCHANGED Data
(* _HistoryStepIterator.__next__: a new iterator skips what was delivered.  *)
NextStepAgain == reader.at + 1   \* mutated: nothing is skipped after a failure
NextStep == IF reader.live THEN reader.at + 1 ELSE Len(reader.out) + 1
ReadStep ==
    /\ AtAwait /\ snap # <<>>
    /\ LET steps == StepsOf(snap[1].bounds) IN
       /\ NextStep \in DOMAIN steps
       /\ reader' = [live |-> TRUE, at |-> NextStep,
                     out |-> Append(reader.out, Skeleton(steps[NextStep]))]
    /\ UNCHANGED snap /\ UNCHANGED Data
ReadFails ==
    /\ AtAwait /\ snap # <<>> /\ reader.live
    /\ reader' = [live |-> FALSE, at |-> 0, out |-> reader.out]
    /\ UNCHANGED snap /\ UNCHANGED Data

JobStepNext ==
    \/ BeginWarmup \/ BeginReply \/ PrintLine \/ Raise \/ ToolDone \/ Suspend
    \/ ExitBlock \/ EndBlock \/ Escalate \/ SendRequest \/ ReplySuppressed
    \/ ReplyCommitted \/ DialogFails \/ FinalReplyReminded \/ FinalReply \/ Fail
Next ==
    \/ JobStepNext \/ PushUserMessage \/ Notify
    \/ Capture \/ ReadStep \/ ReadFails

Spec == Init /\ [][Next]_vars

-----------------------------------------------------------------------------
Phases == {"ready", "warming", "request", "llm", "replied", "running", "suspended", "done"}
(* The variables keep their types, and console positions never decrease     *)
(* along the log nor pass the end of the console.                           *)
TypeOK ==
    /\ def \in JobDefs /\ phase \in Phases /\ block \in 0..Len(def.warmup)
    /\ \A i \in DOMAIN log :
          /\ log[i].kind \in BoundaryKinds \cup {"user", "difficulty"}
          /\ log[i].pos \in 0..Len(console)
          /\ \A k \in 1..i : log[i].kind # "user" => log[k].pos <= log[i].pos
    /\ \A l \in DOMAIN console : console[l].error \in {"none", "execution", "harness"}
    /\ \A i \in DOMAIN pushes : pushes[i].at \in 0..Len(console)

(* "Append-only": what code printed is shown to the LLM once, in order, and *)
(* right after the code that printed it, whatever was logged in between.    *)
ShowsOutput(b) == b \in Turns /\ ~Hidden(log[b]) /\ Calls(log[b]) = 0
OutputFollowsItsCode ==
    LET R == Rendered
        at == {k \in DOMAIN R : R[k].what = "console"}
    IN  /\ \A k \in at, l \in DOMAIN console :
              LET b == console[l].by IN
              l \in {R[k].refs[n] : n \in DOMAIN R[k].refs} /\ b # 0 =>
                  /\ b \in Turns
                  /\ ShowsReply(b) => R[k - 1].role = "assistant" /\ R[k - 1].refs = <<b>>
        /\ \A l \in DOMAIN console :
              ShowsOutput(console[l].by) =>
                  Cardinality({k \in at : l \in {R[k].refs[n] : n \in DOMAIN R[k].refs}}) = 1

(* A request without some user messages and some console lines.            *)
Unwanted(m, users, lines) ==
    IF m.what = "user" THEN users ELSE IF m.what = "console" THEN lines ELSE {}
CutOne(m, users, lines) ==
    LET refs == Picked(m.refs, {k \in DOMAIN m.refs : m.refs[k] \notin Unwanted(m, users, lines)})
    IN  IF m.role = "user" /\ refs = <<>> THEN <<>> ELSE <<[m EXCEPT !.refs = refs]>>
Cut(msgs, users, lines) == FlattenSeq([k \in DOMAIN msgs |-> CutOne(msgs[k], users, lines)])

(* In dialog styles a request repeats the one before it and adds to it: the *)
(* history an LLM has seen is not rewritten, whenever messages arrive. Only  *)
(* a failure that the loop recorded lands in the output of the last block.  *)
Failures == {l \in DOMAIN console : console[l].by = 0}
RequestsOnlyGrow ==
    IsDialog => \A i \in 1..Len(sent) - 1 :
        IsPrefix(Cut(sent[i].msgs, {}, Failures), Cut(sent[i + 1].msgs, {}, Failures))

(* "Reconstruct the request params used for a historical LLM turn": but for *)
(* the user messages that were pushed since, it is the request that was sent. *)
OldRequestsAreReconstructed ==
    \A i \in ConcreteItems :
        LET request == sent[log[i].id] IN
        Cut(RequestData(i), Known \ request.known, {}) = request.msgs

(* What an LLM was sent stays what it was: later requests repeat it, and it  *)
(* can be reconstructed from the log.                                       *)
RequestsAreReproduced == RequestsOnlyGrow /\ OldRequestsAreReconstructed

(* The sets of summaries that a history can be built with.                  *)
Ranges == {s \in [pos: DOMAIN log, len: 1..2] : ValidSummaries(log, {s})}
Compactions == {ss \in SUBSET Ranges : Cardinality(ss) \in {1, 2} /\ ValidSummaries(log, ss)}
IsSummary(step) == step.msgs # <<>> /\ step.msgs[1].what = "summary"
SummaryRef(step) == step.msgs[1].refs[1]
RestIsKept(ss) ==
    LET steps == BuildSteps(log, Len(console), pushes, ss)
        whole == BuildSteps(log, Len(console), pushes, {})
        summarized == {k \in DOMAIN steps : IsSummary(steps[k])}
        covered == {k \in DOMAIN whole :
                      \E s \in ss : whole[k].item \in s.pos..s.pos + s.len - 1}
        summaries == Picked(steps, summarized)
    IN  /\ Picked(steps, DOMAIN steps \ summarized) = Picked(whole, DOMAIN whole \ covered)
        /\ [k \in DOMAIN summaries |-> SummaryRef(summaries[k])]
             = [k \in DOMAIN InOrder(ss) |-> InOrder(ss)[k].pos]
        /\ \A k \in summarized, m \in DOMAIN steps :
              k < m /\ steps[m].item # 0 =>
                  /\ log[steps[m].item].kind # "warmup"
                  /\ \/ steps[m].item > SummaryRef(steps[k])
                     \/ SummaryRef(steps[k]) <= LastWarmup(log, ss)

(* A summary replaces its range and nothing else: the rest of the history   *)
(* is the same, each summary comes once, in order, in the place of its      *)
(* range, and never before a warm-up block.                                 *)
CompactionKeepsTheRest == phase = "llm" => \A ss \in Compactions : RestIsKept(ss)

(* "Retry a failed read against the same captured append boundaries": what  *)
(* was delivered is the beginning of the history at the capture, each step  *)
(* once, although the job went on and reads failed.                         *)
SnapshotIsStable == snap # <<>> => IsPrefix(reader.out, snap[1].steps)

(* "Resolve console events once": the error of a block is counted for the   *)
(* turn that ran the block and for no other.                                *)
ErrorsCountForTheirTurn ==
    \A l \in DOMAIN console : console[l].error = "execution" /\ console[l].by # 0 =>
        {i \in Turns : l \in TurnErrors(i)} = {console[l].by}

(* The dialog shows every user message once and every answer once, and an   *)
(* answer after the turn that gave it, in the order they were given.        *)
DialogIsComplete ==
    LET refs(what) == FlattenSeq([k \in DOMAIN Dialog |->
                          IF Dialog[k].what = what THEN Dialog[k].refs ELSE <<>>])
        answers == refs("answer")
    IN  /\ IsDialog => refs("user") = Numbers(0, Arrived)
        /\ \A k \in 1..Len(answers) - 1 : answers[k] < answers[k + 1]
        /\ \A l \in DOMAIN console : console[l].by # 0 =>
              l \in {answers[k] : k \in DOMAIN answers}

(* tokens_per_sec pairs times and sizes: the sizes count no console line    *)
(* and no user message twice, and none before the last reply is missed.     *)
StepSizesCountOnce ==
    \A i, k \in ConcreteItems :
        /\ i # k => StepInput(i).lines \cap StepInput(k).lines = {}
                    /\ StepInput(i).users \cap StepInput(k).users = {}
        /\ \A l \in 1..log[k].pos : \E m \in ConcreteItems : l \in StepInput(m).lines
        /\ \A m \in UserMessages(SubSeq(log, 1, k)) :
              \E n \in ConcreteItems : m \in StepInput(n).users

(* The turn number of a history step is the one get_request_data takes,     *)
(* unless a reply was stored that is blank.                                 *)
TurnNumbersAgree ==
    (\A i \in ConcreteItems : ShowsReply(i)) =>
        \A i \in ConcreteItems : TurnNum(i) = Cardinality({k \in ConcreteItems : k < i})

(* Every view of the history, the chat, the error counts, the dialog, the   *)
(* sizes and the turn numbers, counts each thing once and where it belongs. *)
HistoryCountsOnce ==
    /\ OutputFollowsItsCode /\ ErrorsCountForTheirTurn /\ DialogIsComplete
    /\ StepSizesCountOnce /\ TurnNumbersAgree
=============================================================================
