# Statek: a TLA+ verification of the agent engine

Statek runs LLM agents as persistent *jobs*. A job is a conversation history plus a Python
environment, both kept in the dbzero object store. One asyncio loop in one process
schedules all jobs: in each step of a job the code of the last LLM reply is executed, the
history is sent to a model, and the reply is stored and delivered. Users, other jobs and
other processes push messages and notifications to a job at any time, and a job may wait for
another job through a future.

This directory holds TLA+ modules translated from that code (paths below are relative to
`src/statek/`), the TLC configurations that check them, and proofs for TLAPS.

## 1. Inventory

| Component | Source | State | Operations | What makes it correct | Module |
|---|---|---|---|---|---|
| Job step | `executors/utils.py` (`run_job_step`, `exec_all_steps`, `job_worker`), `executors/job.py` | status, history, pending notifications, position in a block, awaited future, exit status, error | one step in 17 numbered stages, `push_user_message`, `push_notification`, `send_notification` | nothing sent to a job is lost, doubled, reordered or left unseen; a block resumes where *it* stopped; failures are reported once | `JobStep` |
| Job life cycle | `executors/job.py` (`JobStatus`, `set_status`) | status, is a future awaited | warm, start, wait, resume, end, reopen | a waiting job can be found and resumed | `JobLifecycle` |
| Jobs loop | `executors/utils.py` (`run_jobs_loop`) | `pending_tasks`, semaphore | unsuspend, deliver, create, select, wait, auto-terminate | no starvation, one task per job, termination | `JobsLoop` |
| Fleet and capacity | `executors/utils.py` (`_make_start_jobs_func`, `run_agentic_fleet`) | queues of tasks, errors of a definition | create jobs for queued tasks | each job finds its task, each task its job | `JobsLoop`, `JobDefs` |
| Execution context | `executors/utils.py` (`_setup_execution_context`, `exec_tool`), `utils.py` | patched `print` and `exit`, consoles, nested event loops | open, close, print, exit | output goes to the console of the code that prints | `ExecContext` |
| Push queue | `statek_push_queue.py`, `executors/utils.py` | two FIFO queues per prefix | push, pop a batch through a filter, deliver, create event jobs | delivered once, in order; a failure loses its own entry only; the queues are emptied | `PushQueue` |
| Futures and sub-tasks | `future.py`, `task.py` | futures over other jobs, error handlers, sub-task handlers | delegate, combine, unpack, fetch a value, complete a sub-task | handlers run once; an outcome reaches the parent once; a value is the child's | `Delegation`, `JobStep` |
| Chat history | `executors/job_history.py`, `executors/chat_log_item.py` | chat log, console, push log | append, render a request, rebuild an old one, compact, iterate | requests only grow and can be rebuilt; each thing is shown once, where it belongs | `JobHistory` |
| LLM APIs: messages | `llm_api.py`, `chat_history.py` | chat history items, continuation payloads | build the messages of three formats, parse a reply | the conversation survives a change of the provider | `Wire` |
| LLM APIs: clients | `llm_api.py`, `settings.py`, `decisions_api.py` | caches of settings and clients, added providers, the attempts of a request | get, add, send, retry, decide | the provider that was added is used; bounded retries; each question is decided | `LLMClient` |
| Model choice | `model_name.py`, `provider_config.py`, `model_pricing.py`, `model_card.py` | snapshots of the configuration, price objects, cards | resolve provider, model, reasoning parameters, price | a request and its price are those of its model name, level and configuration | `ModelRouting` |
| Task difficulty | `executors/job.py`, `agents/list_of_examples.py`, `task_difficulty.py` | stored difficulty, change items, last example | look up, show an example, panic | one request has one level; escalation is bounded | `Difficulty` |
| Tool scope | `llm_tools_scope.py`, `llm_api.py`, `system.py` | tools of receiver, donors, registry | select, resolve a call | the model is offered what the scope says and runs what it was offered | `ToolScope` |
| Job definitions, post-processors | `agents/agent.py`, `executors/job.py`, `executors/post_processor.py`, `prompt_config.py` | definitions with tags, shared metadata dicts, post-processors | find or create, change prompts, hold back a draft | a job runs as it was asked for, whatever changes later | `JobDefs` |
| Shared context | `shared_context.py`, `executors/utils.py` (`exec_step`) | contexts, bindings, categories, locals | initialize, set, resolve a name in a block | a name keeps its meaning in a block | `SharedContext` |
| LLM harness | `llm_harness.py` | counters and limits | check before and after a step, extend | a job over a limit is stopped by the next check of it; tokens are checked after a step only, so each restart of a stopped job lets one more request through, but no code | `JobStep`, `Difficulty` |
| Dialog delivery | `agents/dialog_agent.py`, `executors/chat_log_item.py` | waits of user messages | record the waits, finish them | a delivery ends no wait of a message that came after it began | `JobStep` |
| Python environment | `pyenv.py` | locals, console, exit status, future value | run, print, exit | | `JobStep`, `SharedContext` |
| Others | see section 8 | | | | not modelled |

How they interact. `run_jobs_loop` selects jobs and wraps each in a `job_worker` task; the
worker calls `run_job_step`, which uses the harness, the Python environment, the history,
the LLM API and the dialog agent in turn. Clients reach a job only through the push queue
(delivered by the loop) or by calling `push_user_message` / `send_notification` while the
step awaits. The history is what connects a step with the model: it is rendered for the
provider that the difficulty of the job selects, with the tools that the scope of its
definition selects. A sub-task is another job plus a future that holds while that job is `DONE`;
`unsuspend_jobs` polls the futures. Fleets create jobs when their task queues grow.

The hard part is concurrency without locks: between two `await`s a step is atomic, and at
every `await` the job's history, status and pending lists may change under it. The points
are: a tool that is awaited, generated code that drives an async tool through a nested
loop, the LLM request, the delivery of a reply. The process may die at any of them; the
objects survive in dbzero and the coroutine's locals do not.

## 2. Modules

### JobStep — one job and its step

State. `status`, `chatLog`, `pendingLog`, `awaited`, `nextInstr`, `warmupNum`, `exitSet`,
`error`, `completions` are the fields of `Job`; `pushLog`, `future` are those of its `PyEnv`;
`wait` is `wait_finished_at` of each user message; `bound` the context of
`bind_critical_error_context`. `pc`, `cur`, `snapshot`, `final` are the locals of the
coroutine. `owner`, `stale`, `sent`, `seen`, `during`, `reported` are history variables that
no action reads except to maintain them; the properties speak about them.

`pc` is an await point (`idle`, `tools`, `exec`, `llm`, `send`) or a station of an
uninterrupted segment (`after`, `request`, `final`, `check`, `finish`). The environment
acts only at await points. `snapshot` are the waits that the delivery under way captured when
it began, `during` the messages that arrived since: both are per delivery, so a message that
arrives while one segment is sent is captured by the next, and a failure leaves open only the
waits that no earlier segment ended.

| Action | Code |
|---|---|
| `BeginWarmup`, `BeginReply`, `BeginRequest` | Steps 1–5: which block the step starts with, or none |
| `FinishTools`, `ExecCompletes`, `ExecSuspends`, `ExecRaises` | Steps 5–8: tools, then code, then `python_cli` from the recorded position |
| `AfterExec`, `FollowUp` | Steps 9–10: exit, next warmup block, or request |
| `SendRequest` | Steps 11–13: drain the pending list, build and send |
| `ReplySuppressed`, `ReplyCommitted` | Step 14: post-processors, commit |
| `SegmentSent`, `SendSucceeds`, `SendFails` | Step 15: `handle_dialog` delivers a reply one segment at a time, each with a `record_response_delivery` of its own; the last one, or the first that raises, ends the loop |
| `ToolDelivery` | `_send_message` called by a tool call or by code: it begins a delivery, or one ends |
| `FinalReply`, `CheckPasses`, `Finish` | Steps 16–17: reminder, follow-up, harness, DONE |
| `HarnessStops`, `StepFails` | `job_worker`'s two handlers |
| `Release` | `unsuspend_jobs` |
| `PushUserMessage`, `Notify` | messages and notifications |
| `Satisfy`, `Lapse` | a future's condition becomes true; it lapses when the child is restarted |
| `Restart` | the process dies at an await |

Abstractions. A block of code is whether it has code, tool calls, a `python_cli` call, or no
text; executing it picks any reachable instruction to stop at. Every harness limit other than
`max_turns` may trip at any check (`LimitsTrip`). A post-processor picks any outcome. The
usage, the difficulty and the console text are left out.

### JobLifecycle — what others may assume of a job

Two variables, six steps. `JobStep` implements it (`LifecycleSpec`), and so does every job
of `JobsLoop` (`JobsFollowLifecycle`): the two modules are tied together by it, `JobsLoop`
using of a step only the statuses that `JobStep` shows it can go through.

### JobsLoop — the loop, its workers, a fleet

State: for each job its `status`, the job it waits for and a step budget (the warmup blocks
and the turns the harness grants); the queues `tasks`, `events`, `console`; `failed`
(`JobDef.has_errors`); the loop's station; `pending_tasks` split into `queue` (waiting for the
semaphore), `running` and `finished` (ended, not yet removed). `owing` is a history
variable: jobs created for a queued task that have not fetched it.

| Action | Code |
|---|---|
| `UnsuspendJobs`, `ProcessPushNotifications`, `ProcessAgentEvents` | the calls at the top of a turn, in order |
| `StartJobs`, `StartJobsEnd` | `start_jobs_func` of each agent of the fleet; the circuit breaker aborts the loop |
| `SelectJobs` | the test of the limit, then a task for every runnable job |
| `Wake`, `Confirm` | `asyncio.wait`, removal of ended tasks, `auto_terminate` |
| `Acquire` | the semaphore, FIFO, and the begin of the step |
| `RunWarmupBlock`, `Delegate`, `EndTurn`, `FailJob` | the ways a step goes |
| `QueueTask`, `QueueEvent`, `QueueMessage`, `SubmitJob`, `Restart` | other processes; a crash or a new start |

Fetching a task is the application's warmup code and is external: one block of a job made
for a task takes one task from the queue, and the job does not leave its warmup without
having done so. The queue of tasks is read only by such jobs.

### ExecContext — print, exit and consoles across awaits

State: `patch` is what `builtins.print` and `builtins.exit` are (they are always replaced
together), `current` the shared `globals()['_STATEK_CTX']`, `saved` what each open context
will restore; `kind` and `where` say what context a job has open and what it does in it;
`stack` is the Python call stack, one frame per job whose code is running or drives a nested
loop (`run_coroutine_sync`).

| Action | Code |
|---|---|
| `OpenContext`, `CloseContext` | `_setup_execution_context` before its `yield`, and its `finally` |
| `Drive`, `DriveEnds`, `DriveReturns` | `run_coroutine_sync`: other tasks run until the coroutine has ended *and* the frame is on top again |
| `AwaitTool`, `ContinueTool` | `result = await result` in `exec_tool` (line 887), the context staying open |

`within` and `overtaken` are history: the contexts in which each context was opened, and
whether a job ever went on while a context opened inside its own was still open. Awaited tools
are what makes that possible: a frame that drives a loop goes on only on top of the stack, when
everything above it has closed, but a coroutine that awaits goes on whenever it is ready.

A context is opened only under the semaphore of `job_worker`. The model is of the default
sandbox mode (`python_sandbox_mode = "restricted"`), in which generated code runs in a copy of
the globals and finds its own `print` there; predefined functions find it in `builtins` in
every mode. Jobs have no globals of their own, as all jobs the library creates.

### PushQueue — the queues between processes and the loop

State: `waiting` the entries of each queue, in numbers given as they are pushed; the drain
that runs (`drain`, `queue`, `todo`, `budget` = `max_count - processed`, `batch` = popped and
not yet delivered); `handled` and `lost` are history. Each prefix has a queue.

| Action | Code |
|---|---|
| `PushEntry` | `push_to_job_console`, `push_to_agent_queue`, by anyone at any time |
| `StartDrain`, `PopBatch`, `Deliver`, `NextQueue` | `process_push_notifications` |
| `StartEvents`, `PopEvents`, `CreateEventJob`, `CreateRaises`, `NextEventQueue`, `EndDrain` | `process_agent_events` |
| `EventsRefused` | a warm-up without exactly one external local: `ValueError` for all agents |

`FiFoQueue` is a library class: `pop_front` takes the earliest entries that pass the filter.

### Delegation — futures, error handlers, sub-tasks

State: jobs reduced to status, error, exit, the runs they had, their error handlers and their
notifications; futures with their parts. `called` is history. `Delegate`, `StartDialog`,
`StartSubTask`, `Combine`, `Fetch`, `CompleteSubTask` are the calls of running code; `Start`,
`Complete`, `Fail`, `PushMessage`, `SendNotification` what happens to jobs. `Completed` and
`Value` are recursive functions over the futures, whose parts are older. `Fetch` is
`FutureResult.value` with everything it registers on the way, also where it raises.

### JobHistory — what is recorded and how it is read

State: chat log, pending notifications, console, push log; the writers keep the order of
`run_job_step` (what decides between them is `JobStep`'s). What is filtered from the push log
is the elements at a set of positions (`Picked`, module `Positions`). `sent` is history. `ChatHistory`
(on the log as it is: `Rendered`) is `get_chat_history`, `RequestData` rebuilds an old request,
`BuildSteps` is the step builder with its summaries; `Dialog`, `TurnErrors`, `StepInput` and
`TurnNum` are the other views. `Capture`, `ReadStep`, `ReadFails` are a reader that goes on while
the job does.

### Difficulty, ModelRouting, ToolScope, Wire — a request

`Difficulty`: `SetDynamic` and `Resolved` are `_set_dynamic_difficulty` and
`get_current_difficulty`, which stores what it looks up; `SendLeveled` makes the lookups of
Steps 11 and 12 in their order; the token limit extends by the change items. `Reply` and
`CodeExits` are Steps 13 to 17 and 9 with their checks of the limit (`Checked`), `StepRaises` the
failures that `job_worker` ends a job for; `UserMessage` and `Notification` restart any DONE job,
also one that was stopped over its limit, which then makes a request before it runs code.
`ModelRouting`: a configuration file that changes, snapshots of it, the four paths of
`_candidate_paths` with ranges and ignore lists, the merge of the payload, the price objects
and `ModelCard`. A request is the function from its parameters to who set them.
`ToolScope`: `select_request_tools` over receiver, donors and registry, and the tool that
`exec_tool` finds for a call afterwards, when donors may have become active. The lists of tools
are filtered by the positions that stay (`Among`, `Deduped`), which keeps their order visible.
`Wire`: one history and the messages each provider would get of it; replies are parsed into
it, with payloads where they contain thinking.

### LLMClient — clients of providers

`looked` and `apis` are the two `lru_cache`s, `custom` the added providers, `call` the last
request with its attempts; `Decide` is `decisions_api.py` by itself.

### JobDefs — definitions of jobs

State: metadata dicts as cells that definitions share, the agent's cell and warm-up, the
definitions with their tags, the persisted post-processors, the jobs. `UpdatePrompts`,
`UpdateWarmup`, `CreateJob`, `StartFleet`, `Step`. The hash is a CONSTANT that may collide.

### SharedContext — variables that jobs share

State: categories, contexts with variables by what they are bound to, the binding and the
locals of each job, the block that runs with what it resolved so far. `SetVar`, `InitContext`
and `RemoveCategory` come between any two of `ReadName`, `AssignName`, `DeleteName`,
`EndStatement`, `LeaveBlock`. `meant` is history: what a name stood for when it was read.

### Composition

`JobStep` and every job of `JobsLoop` implement `JobLifecycle`. `MCAgents` puts together the
modules about what jobs exchange outside a step, `MCRequests` those about what a request is
made of. `Positions` (the elements of a sequence at a set of positions, `Picked`, with the first
and the last position of a set) is what `JobHistory`, `ToolScope`, `JobDefs` and `Delegation`
filter sequences with. The modules of each group share no state (where one reads what another has, it takes
any value of it), so a behaviour moves one of them, its *subject*, and the others stay where
they began: the interleavings left out are those of steps that commute. `Only(s)` freezes the
others, the `Frozen...` predicates choose one initial state of them.

## 3. Properties and runs

Every property has a mutated form of a mapped definition, kept next to it and marked
`\* mutated`, which the run refutes: it shows that the run can see the bug. These forms
are used by nothing else.

| Run | Instance | Shows |
|---|---|---|
| `js_dialog` | MD_DIALOG, 2 messages, 2 notifications, any limit may trip, 1 restart | `TypeOK`; `NotesArriveOnce`: notifications reach the history once and in order across the pending list, the three places that drain it and the direct path of a DONE job; `ReportedOnce`; `LateMessagesKeepWaiting`: a delivery, of a segment of a reply or by the `send_message` tool, ends no wait of a message that came since it began |
| `js_suspend` | style without dialog, 2 warmup blocks, 2 suspensions, a lapsing future | `WaitersAreFound`: a job that waits is in a status that `unsuspend_jobs` looks at; `LifecycleSpec` |
| `js_direct` | DIRECT, reminder, post-processing, 2 notifications | `DoneMeansDrained` and `DoneMeansShown`: no normal completion with notifications pending, or before the model saw every one |
| `js_live` | reminder, 1 suspension, 1 restart, fairness | `NotesReachTheModel`, `SuspendedJobsResume` |
| `js_stale` | violation | `ContinuationsResumeTheirBlock` fails, see 6.1 |
| `js_blank` | violation | `DoneMeansDrained` fails, see 6.2 |
| `js_warmup_exit` | violation | `DoneMeansShown` fails, see 6.3 |
| `loop_tasks` | 2 agents, 3 jobs, 2 slots, 2 arrivals, 1 step between messages | `TypeOK`, `OneTaskPerJob`, `LoopNeverOvercreates`, `JobsFollowLifecycle` |
| `loop_live` | 2 jobs of one agent, 1 slot, 2 arrivals, 1 restart, `auto_terminate`, fairness | `NoStarvation`, `WaitingJobsResume`, `TasksAreServed`, `LoopEnds` |
| `agents` | `PushQueue`, `Delegation`, `JobDefs`, `LLMClient`, `ExecContext`, `SharedContext`, one at a time | see below |
| `requests` | `JobHistory`, `Difficulty`, `Wire`, `ModelRouting`, `ToolScope`, one at a time | see below |
| `ctx_builtins` | violation | `BuiltinsAreRestored` fails for two concurrent jobs, one of which awaits a tool, see 6.4 |

`agents` checks, with the types of all its modules (`AgentsTypeOK`):

| Property | Says |
|---|---|
| `EntriesAreKept` | whatever is pushed meanwhile and whichever delivery fails, entries are delivered once, in order, and lost only for a reason of their own; a drain of one prefix leaves the others |
| `QueuesAreDrained` | what waits is taken off the queues, events unless an agent with a bad warm-up may have one |
| `HandlersRunOnce` | however futures are combined and fetched and jobs reactivated: a handler is registered once, with the value of a finished run, and told once |
| `OutcomeReachesParent` | a sub-task's parent is told of the outcome once, and not before |
| `MuteResultRemembersErrors` | a mute result is the responses exactly where the job never failed |
| `JobsRunAsAsked` | model, warm-up, resources, parameters of a job stay what was asked for |
| `HeldBackOncePerCheck` | a draft is held back once per `FinalCheck(n)`, through changes of the prompts and back |
| `AddedProviderIsUsed` | with its own implementation and credentials, whatever was cached |
| `ContextsNest` | until a job goes on while a context opened inside its own is still open (`overtaken`, which awaited tools make possible), code that runs has the `print`, `exit` and `_STATEK_CTX` of its own job and nothing stays patched; after that both fail, see 6.4 |
| `OutputStaysWithOnePermit` | with `max_concurrency` 1 and awaited tools, output goes to the console of the job that prints |
| `NamesKeepTheirMeaning` | a name of a block stands for one shared variable at most, and no local comes to hide it |

`requests` checks, with `RequestsTypeOK`:

| Property | Says |
|---|---|
| `HistoryCountsOnce` | outputs follow their code, an error counts for its turn, the dialog has each message and answer once, sizes and turn numbers agree |
| `RequestsAreReproduced` | a request is a beginning of the next one and can be rebuilt from the log, but for messages that arrived meanwhile |
| `CompactionKeepsTheRest` | summaries replace their ranges and nothing else |
| `SnapshotIsStable` | what a reader got is the history at the capture, although the job went on and reads failed |
| `EscalationIsBounded` | each increase counts once; the code of a job runs, and it completes, only while its usage is at most four times its base limit, also after restarts of a stopped job |
| `RequestsHaveOneLevel` | provider, price and prompt of a request are of one level, which a reply keeps |
| `ConversationArrives` | every provider gets the same conversation in its format, thinking only where it came from |
| `RequestsFitTheirModel` | a positive level is honoured by the most specific node or refused; conflicting parameters are gone; the price is that of the model sent |
| `ToolsAreAsScoped` | the offer is the set the scope means; a call runs the tool that was offered unless one left out has its name |

Bounds. Two notifications are what order and doubling need; a second message is what a late
message needs; `MaxInstr` 1 or 2 gives "the same instruction" and "a later one", which is
all a position is compared for; two suspensions let one block resume and suspend again.
`MaxTurns` 1 or 2 lets a reply be followed by a request and still reaches the limit. One
restart suffices because it forgets exactly the locals, whenever it happens. In `JobsLoop`
three jobs over two slots are the smallest instance with a full and an overfull
`pending_tasks`, and two agents over them the smallest in which both are offered capacity;
there a job has one step between two messages (`MaxSteps`), which still takes it through
every status. `loop_live` gives it two and the theorems of section 5 any number. One slot with
two jobs is where starvation would appear, and the restart comes at any point of a turn. The
liveness properties of the loop are excused once it ended or aborted: with `auto_terminate` it
may end with tasks queued. In `ExecContext` three jobs are what a frame between two others
needs.

In `agents` three entries on two queues with batches of one and a limit of two let a drain end
in the middle; three jobs let a sub-task have a sibling or a child; two definitions and three
cells let a definition outlive two changes of the prompts; two sharing jobs with two contexts
and two sets are what a change under a running block needs. In `requests` each setup of
`MCJobDefs` is one style with the shortest log (two to four items) in which its cases meet;
six blocks of two configurations have every pair of neighbouring paths; three items of a
conversation are a reply with two calls, their results and a message; one completion is counted
(`MaxReopened`, notifications restart jobs without being counted) and requests stop at `MaxUsage`,
beyond every limit of the setups. Numbers are bounds of
the data, named in the setups (`lines`, `log`, `jobs`, `replies`, ...).

Deadlock is not checked: a job that is DONE with nothing more to arrive, and a loop that
ended or aborted, have stopped rightly, and so has a module that reached its bounds.

Symmetry is used only in runs whose properties are invariants or action properties, over
messages, notifications or jobs that nothing tells apart.

## 4. Fairness

- `JobStep.FairSpec`: weak fairness of `Step` and `Release`, and of each `Satisfy(f)`. The loop
  visits every job on every turn (`executors/utils.py:1476-1505`), tools and requests end, with
  an error at the latest, and the jobs waited for come to their end. The environment's pushes
  and restarts are not fair.
- `JobsLoop.FairSpec`: weak fairness of `LoopTurn`, strong fairness of `Acquire` and of each
  `Worker(j)`. Strong, because the loop leaves and re-enters `asyncio.wait` (at most 0.3 s
  each, line 1509) and a task is enabled only while it is there; the event loop gives each
  ready task its turn at each such visit. The semaphore's queue is FIFO, so `Acquire` as a
  whole needs fairness, not each job.
- `PushQueue.PqFairness`: weak fairness of `Drain`. Every iteration of the loop calls both
  functions (`executors/utils.py:1479` and `1481`), and the calls inside end. `EventsRefused` ends the
  loop with an exception; that the application starts it again is assumed.

## 5. Proofs

The modules `..._proofs` prove, for all values of the constants that satisfy the assumptions of
the modules (types of the parameters, `None` values outside the sets, finite sets of jobs and
models, each agent once in the fleet, a positive concurrency), and `SequenceLemmas` proves the
facts about sequences that they need: what `Picked`, concatenation, `FlattenSeq` and `FoldSeq`
return, position by position, and what stays when a sequence grows. A proof module holds one
section per modelled module.

**`JobStep_proofs`**

| Theorem | States | Argument |
|---|---|---|
| `TypeCorrect` | `[]TypeOK` | inductive as it stands; one lemma per action. That `cur` is in the history while a block runs needs that the history only grows |
| `WaitersFound` | `[]WaitersAreFound` | a step begins only when nothing is awaited, so the only action that records a future leaves `pc` at `idle` |
| `ImplementsLifecycle` | `LifecycleSpec` | initial states map to initial states; each action is one step of `JobLifecycle` or a stutter, using `WaitersAreFound` (End and Start need `~waiting`) |
| `FailuresReportedOnce` | `[]ReportedOnce` | strengthened: what is bound has not been reported and every reported message has been pushed; a message is bound only when pushed, which happens once |
| `DeliveryEndsOldWaits` | `LateMessagesKeepWaiting` | `Delivery`: while a delivery is under way, the captured messages are disjoint from those pushed since. Each segment and each call of the tool begins it anew, with the waits then open and no message since |
| `NotesArrive` | `[]NotesArriveOnce` | `NoteInv`: a delivered note is in the log or pending, and in one place only; with `NotesInOrder` the order of the places, the log before the pending list, is that of the arrivals. Each action adds to one of the two or moves the pending list behind the log. The order part, claimed of jobs without a failure whose replies have text, needs `DrainInv` |
| `DoneIsDrained` | `TextReplies => []DoneMeansDrained` | `DrainInv`: whenever a block or a final reply ends, the log can take notifications, because the tool log of the block was allocated when the block was entered or, for a continuation, by the entry that suspended |
| `DoneIsShown` | `TextReplies /\ Warmup = <<>> => []DoneMeansShown` | `ShownInv`: a note that no request contained stands behind the last reply, and then the job is on its way to a request |

`TextReplies` (a DIRECT reply has text) and `Warmup = <<>>` are not for convenience: without
them the properties are false, findings 6.2 and 6.3, and the run `js_direct` has them too.

**`JobsLoop_proofs`**

| Theorem | States | Argument |
|---|---|---|
| `LoopTypeCorrect` | `[]TypeOK` | inductive; `EventJobs` keeps the event counters natural |
| `OneTask` | `[]OneTaskPerJob` | `SelectJobs` enumerates jobs without repetition and outside `Pending` |
| `NoOvercreation` | `[]LoopNeverOvercreates` | each owing job is READY or WARMING_UP, so the jobs counted by the code contain those that are owing; a cardinality argument then bounds what is created |
| `EveryJobFollowsLifecycle` | `JobsFollowLifecycle` | `StatusInv`: the statuses of jobs that wait, that have a task and that owe. Without it a job with a task could be SUSPENDED and a second wait could begin |

**`Contexts_proofs`**

| Theorem | States | Argument |
|---|---|---|
| `ContextTypeCorrect` | `[]TypeOK` (ExecContext) | inductive; a frame is pushed only when no frame runs |
| `ContextsNestAlways` | `[]ContextsNest`, with awaited tools | `Nested`: until a job is overtaken the open contexts form a `Chain`: the patch is that of the innermost one, which was opened in all the others, and each context saved what the innermost of those it was opened in had in place. A context that closes with nothing open inside it is the innermost, and puts back what the next one needs |
| `AwaitedAloneNests` | `[]AwaitedAlone => [](RunningCodeKeepsItsContext /\ BuiltinsAreRestored)` | where tools are awaited only with no other context open, nobody is overtaken, as the frames on the stack are in the order of their contexts (`Stacked`): nested loops alone do no harm. The code does not ensure `AwaitedAlone` (finding 6.4) |
| `OnePermitOutput` | `MaxConcurrency = 1 => []OutputStaysWithItsJob`, with awaited tools | `OneContext`: a context is opened only under a permit, so at most one is open, and the patch and the shared `_STATEK_CTX` are its own from its opening to its end |
| `NamesKeepTheirMeaningAlways` | `[]NamesKeepTheirMeaning` | `NameOK`: a name was read only as what the block resolved, and what it resolved never changes; a local that is new in the block resolved to nothing |
| `ScopeTypeCorrect`, `ToolsAreScoped` | `[]ScopeTypeOK`, `[]ToolsAreAsScoped` | `ToolInv`: the offer was selected from the tools of the agents that were active then, and donors are only activated. The lemmas say of each filter which tools it keeps and that the first tool of a name stays the first |

**`Agents_proofs`**

| Theorem | States | Argument |
|---|---|---|
| `EntriesAreKeptAlways` | `[]EntriesAreKept` | `PqInv`: the places of entries are disjoint, and what is delivered, popped and waiting for one target on one queue is in this order; a batch of the agents' drain is of one agent, or `CreateRaises` would lose others |
| `JobsRunAsAskedAlways` | `[]JobsRunAsAsked` | each step keeps the *parsed* model of each cell and what jobs read of a definition; a definition that is found has the identity asked for, whatever the hash |
| `HeldBackOnce` | `[]HeldBackOncePerCheck` | `HeldInv`: persisted processors are told apart by what they are, a definition refers only to persisted ones, and none is twice behind a job; the chain of reuse (`Resolve`) only adds processors |

**`Delegation_proofs`**

| Theorem | States | Argument |
|---|---|---|
| `FailuresAreTold` | `[]HandlersRunOnce` | `DgInv`, of three parts: the parts of a future are older than it (`FutureInv`, so `Completed` and `Value` are well-founded and the proof may use strong induction over futures); a handler comes from a future or a message that exists, a job has one per future, and none of them was told yet (`HandlerInv`); a sub-task is younger than its parent, and the parent's log has one entry per outcome (`OutcomeInv`) |
| `OutcomesReachParents` | `[]OutcomeReachesParent` | `OutcomeInv`: the log of the parent grows by the one entry of the child that ends |
| `ErrorsAreRemembered` | `[]MuteResultRemembersErrors` | `RunsKept`: the error of a job says exactly whether one of its runs failed, through reactivation |

**`Requests_proofs`**

| Theorem | States | Argument |
|---|---|---|
| `AddedProviderIsUsedAlways`, `ClientTypeCorrect` | `[]AddedProviderIsUsed`, `[]ClientTypeOK` | `add_provider` clears the clients, and a client is made of the added settings |
| `EveryQuestionIsDecidedAlways` | `[]EveryQuestionIsDecided` | what `Accepts` lets through |
| `PricesAndCardsStayAlways` | `PricesAndCardsStay` | a price is appended or filled where it is not valid |
| `RequestsFit` | `[]RequestsFitTheirModel` | `RoutingInv`: a definition keeps the configuration it was made with, although files and snapshots change. The merge of the four candidate paths is unrolled, node by node (`AskedInv`) |
| `OneLevelPerRequest` | `[]RequestsHaveOneLevel` | `LevelInv`: the level shown has an agent that raises it |
| `EscalationBounded` | `[]EscalationIsBounded` | `BudgetInv`: change items form a chain of levels, so there are at most two; each of them was made within the limit and adds what it affords. A job may ask while it is over its limit, having been restarted; then no lookup can raise its level any more (`Settled`: the request before it has looked everything up, and no code ran since), and the check after the reply stops it again |
| `ConversationsArrive` | `[]ConversationArrives` | `WireInv`: the talk is well formed, and without its system items each call is followed at once by its result (`Answered`); every action adds items that keep this, or nothing. From it each format follows item by item: an item has the same words in the history and in its message, replayed or not, since a payload parses into the text and the calls of its item. For Claude the items fall into batches (`Group`) whose first one carries the words of all, and `Regrouped` says that regrouping does not change the whole |

**`JobHistory_proofs`**

| Theorem | States | Argument |
|---|---|---|
| `HistoryTypeCorrect` | `[]TypeOK` | every step has one *shape* (`Shape`): it adds to the log, the console and the push log or fills in results, and nothing else |
| `HistoryIsCountedOnce` | `[]HistoryCountsOnce` | `JhInv`: the positions of items never decrease along the log (`PosInv`); a line was printed by a turn, or its reminder, before the next item (`PrintInv`); an item that is shown has its results (`BlockInv`); user messages are numbered in their order (`KnownInv`). The five parts (outputs, errors, dialog, sizes, turn numbers) then follow from what each view of the history is, position by position |
| `CapturedHistoryStays` | `[]SnapshotIsStable` | `SnapInv`: the history of an old prefix of the log keeps what a reader looks at when the log grows or results are filled in |
| `CompactionsKeepTheRest` | `[]CompactionKeepsTheRest` | the history with summaries is worked out as segments, one for each item of the log (`SummaryStepsAre`, `SegmentsAre`): the steps of a segment that are not summaries are those of its item unless a range covers it (`RestIsTheSame`), and a summary stands in the segment where its range begins, or behind the last warm-up block (`StepsPlaced`), hence once and in order (`SummariesInOrder`) |
| `RequestsReproduced` | `[]RequestsAreReproduced` | `RequestInv`: for the k-th request there are numbers n, L, p such that it is the history of the first n items, L lines and p pushes of the *present* log, console and push log. What came later starts where these end: items and pushes at position L or behind it, lines printed by later items, user messages that the request does not know; the reply to it is the first item after the n-th that is not a user message, and stands at L (`RequestAt`). Requests are ordered as these numbers are. A step keeps all this because what it changes in the log is after the last request (`RequestStep`). Then the history of a longer log, cut by the messages that were not known, is worked out item by item (`Part`), and is that of the shorter one (`RequestsGrow`, `RequestsRebuilt`) |

Only model-checked:

- every liveness property (fairness and ENABLED are out of the prover's reach);
- `AgentsTypeOK` and `RequestsTypeOK`, conjunctions over modules: those of ExecContext, LLMClient,
  ToolScope and JobHistory are theorems, and the proofs of the others have the types they need in
  their invariants;
- `OutputStaysWithOnePermit` as it stands in `MCAgents`: its statement is that of `OnePermitOutput`
  for the instance `Single`;
- what recursive definitions compute for every input, where no lemma of `SequenceLemmas` says it.

## 6. Findings

1. `js_stale`: `next_instr_num` is cleared only when a block completes
   (`executors/utils.py:1118`). After an ordinary exception in a resumed block, or when a
   message arrives while the job is SUSPENDED, it survives and is applied to the next block,
   whose first instructions and tool calls are skipped.
2. `js_blank`: a DIRECT reply without text counts as an unfinished reply in
   `_chat_log_finalized_for_notifications` (`executors/job.py:747`), so nothing is drained and
   the job is DONE with notifications pending.
3. `js_warmup_exit`: after the follow-up of Step 9 a job that is WARMING_UP runs the same
   block again instead of making a request, exits again and is DONE before the notification
   was shown.
4. `ctx_builtins`: `exec_tool` keeps its context open across `await` (`executors/utils.py:887`),
   and the `finally` of a context puts back what it found when it was opened (line 324). When
   another job opens a context meanwhile and outlives the first, it goes on with the
   interpreter's `print` and `exit`, and at the end leaves those of the closed context in
   `builtins`. For the same reason a tool called by one job's code can find another job in
   `_STATEK_CTX` (`system.py:64`). `ContextsNest` says up to when contexts do nest, and
   `AwaitedAloneNests` what would be enough for it.

Seen while modelling, without a run of their own:

- `pending_tasks` exceeds `max_concurrency` (`executors/utils.py:1501` compares once, then selects
  every runnable job), which the comments at lines 1473 and 1500 rule out. The semaphore bounds
  what runs. Stopping the selection at the limit would be no repair: the mutated form
  `SelectUpToCapacity` starves a job (`NoStarvation`).
- The coroutine of job A's tool goes on inside the loop that job B's code drives, and prints through
  B's patched `print`: `OutputStaysWithItsJob` of `ExecContext` fails with two jobs and two permits
  (`ctx_builtins` with that invariant in place of its own). With one permit it holds
  (`OutputStaysWithOnePermit`, proved).
- `iter_notification_log_items` says it pairs notifications with "their synthetic history call
  IDs" (`executors/job_history.py:497`), but numbers them by the position in the chat log, while
  the history numbers its entries, without an initial user message and plain strings (`EntryIndex`
  in `JobHistory`): with an initial user message the two differ by one.
- The price of a request does not know of a provider given to the loop (`PricedAsSentByDefault`
  in `ModelRouting` has the exception in its condition).
- `exec_cli_step` says that it shares the context as `exec_step` does, but resolves names
  without the proxy for shared variables; `SharedContext` is of `exec_step`.

Behaviours that no text of the repository promises otherwise, kept as questions:

- *Job.* A user message logged during the LLM request is not part of it, and if the reply is
  final the job is DONE with the message unseen by the model. A tool that ran before a crash
  runs again. With `auto_terminate` the loop may end with queued tasks or a message that arrived
  during its last sleep. `job.error` is never cleared (`task.py:615`).
- *History.* A failure that `job_worker` prints is shown as output of the last block when the
  job resumes. A user message that came while the request was under way stands before its reply
  in a request rebuilt from the log. Output of a reply that has tool calls is not rendered. A
  message pushed inside the range of a reminder or of a hidden warm-up is rendered in no request
  of the PLAIN style. A blank stored reply makes `turn_num` of the history differ from that of
  the log. A warm-up block that suspends appends an item each time it is entered.
- *Queues.* One agent with a bad warm-up holds back the events of all agents.
- *Definitions.* `update_prompt_config` overwrites chat styles and post-processors that
  definitions were given explicitly. A fleet looks its definition up without style and
  post-processor, so an agent with a default gets a new definition at each restart. `MODEL` per
  difficulty never equals `JobDef.model`: each delegation of such an agent makes a definition.
  `FinalCheck`s made by a caller are told apart by identity.
- *Requests.* SYSTEM messages in the middle of a history are dropped for Claude and Vertex.
  Tools are deduplicated before hidden ones are removed, and removals are applied after
  additions, whatever their order; a tool may be shadowed by one of its name that the request
  left out. The caches of clients are not cleared when settings change, and refusals are not
  cached.
- *Shared context.* A value read in a block stays for the block, also after the block's own
  `shared_context_set_var`. `init_shared_context` changes the names of later blocks, while
  `shared_context_set_var` writes to the new context at once. Functions and comprehensions see
  the global context only. A local that becomes a function is not kept, and its name may then be
  that of a shared variable. `del` of a local is not kept either.

## 7. Plan

1. `Harness`: all limits with their counters, over several completions and restarts (`JobStep`
   has the order of the checks and one limit, `Difficulty` the one that extends).
2. `JobStep` composed with `PushQueue`: that a message of another process reaches the model.

## 8. Not modelled

| Part | Why |
|---|---|
| Sandbox (`python_sandbox.py`), exceptions and formats of tracebacks | a transformation of Python syntax trees; what generated code does is any choice in `JobStep`, `ExecContext` and `SharedContext` |
| `docstring.py`, `locale`, templates, prompt rendering, `list_of_documents` | text to text |
| HTTP, streaming and JSON of the LLM APIs | I/O of client libraries; `Wire` and `LLMClient` model what is put into a request, what is taken from a reply and how failures are treated |
| System tools (`system.py` beside `_STATEK_CTX`), tools of the library | each is a query or a call modelled elsewhere (`push_message`, `delegate_task`) |
| Client API, runner, RPC, CLI | they call what is modelled (`PushEntry`, `PushUserMessage`, `StartDialog`) and wait for `DONE` |
| `dispatcher`, `researcher` | prompts and tools without state of their own |
| `use_count` and times of shared variables, character counts and truncation | data that no property tells apart; times are assumed distinct |
| dbzero: transactions, snapshots, `find` | external; an await-free section is atomic and persists, `find` returns any order |

