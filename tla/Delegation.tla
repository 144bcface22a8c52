----------------------------- MODULE Delegation -----------------------------
(***************************************************************************)
(* Jobs that delegate to jobs (task.py), the futures they wait for          *)
(* (future.py), and what a parent and a child leave with each other: error  *)
(* handlers (job.py 882-939, system.py 285-295), sub-task handlers and      *)
(* notifications (task.py 317-452, job.py 735-819).                         *)
(*                                                                         *)
(* A job is reduced to its status; JobStep.tla has the steps by which it     *)
(* gets there, and its queue of pending notifications.                      *)
(***************************************************************************)
EXTENDS Positions, SequencesExt

CONSTANT
    DgSetups   (* what one instance uses: [ops, callers, kinds, known, jobs,  *)
               (* futures, runs, sent]: the operations that its code calls and *)
               (* the jobs that call them, the delegate functions, whether     *)
               (* parent_job is passed, and the bounds on jobs, futures, runs  *)
               (* to completion of one job, and messages                       *)
ASSUME DelegationAssumption ==
    \A s \in DgSetups : s.kinds \subseteq {"task", "mute"} /\ s.known \subseteq BOOLEAN

VARIABLES
    uses,      \* the setup of this instance
    jobs,      \* the jobs, in order of creation; the first one is a root
    futures,   \* the futures, in order of creation
    called,    \* history: handlers invoked by a failing job: [job, entry]
    sent       \* messages pushed so far

dgVars == <<uses, jobs, futures, called, sent>>

Uses(op) == op \in uses.ops
NoParent == 0
NoMessage == 0

(* An entry of error_handlers: registered for the value of a future (tool), *)
(* or bound to the latest accepted message (critical).                      *)
NewJob(parent, adapter, sub, inherited) ==
    [status |-> "READY", failed |-> FALSE, exit |-> FALSE, runs |-> <<>>,
     parent |-> parent, adapter |-> adapter, sub |-> sub, outcome |-> "none",
     handlers |-> inherited, accepted |-> NoMessage, log |-> <<>>]

DgInit ==
    /\ uses \in DgSetups
    /\ jobs = <<[NewJob(NoParent, FALSE, FALSE, <<>>) EXCEPT !.status = "STARTED"]>>
    /\ futures = <<>> /\ called = <<>> /\ sent = 0

(***************************************************************************)
(* Error handlers                                                          *)
(***************************************************************************)
IsCritical(entry) == entry.kind = "critical"
(* bind_critical_error_context: an inherited binding survives where the     *)
(* agent has no adapter, but its context is replaced.                       *)
Bound(job, message) ==
    LET others == Picked(job.handlers, {i \in DOMAIN job.handlers : ~IsCritical(job.handlers[i])})
        binding == [kind |-> "critical", fut |-> 0, value |-> <<>>, message |-> message]
    IN  IF job.adapter \/ \E i \in DOMAIN job.handlers : IsCritical(job.handlers[i])
        THEN Append(others, binding) ELSE others

(* push_user_message: a DONE job starts again; job.error stays.             *)
Reopened(job) ==
    IF job.status = "DONE" THEN [job EXCEPT !.status = "STARTED", !.exit = FALSE] ELSE job
Accepted(job, message) ==
    [Reopened(job) EXCEPT !.accepted = message, !.handlers = Bound(job, message)]

(* notify_handlers: every handler is invoked once, then all are forgotten.  *)
Invoked(j) == [i \in DOMAIN jobs[j].handlers |-> [job |-> j, entry |-> jobs[j].handlers[i]]]
FailedAndBound(job, harness) ==   \* mutated: the handlers stay registered
    [job EXCEPT !.status = "DONE", !.failed = TRUE, !.exit = @ \/ harness, !.runs = Append(@, "failed")]
Failed(job, harness) ==
    [job EXCEPT !.status = "DONE", !.failed = TRUE, !.exit = @ \/ harness, !.runs = Append(@, "failed"),
                !.handlers = <<>>]

(***************************************************************************)
(* Futures                                                                 *)
(***************************************************************************)
FutureOf(kind, job, parts, j, hasHandler) ==
    [kind |-> kind, job |-> job, parts |-> parts, by |-> j, pending |-> hasHandler]

(* get_mute_job_result; job.error decides before exit_status.               *)
MuteResultByExit(job) ==   \* mutated: exit_status decides
    IF job.exit THEN "exit" ELSE IF job.failed THEN "error" ELSE "responses"
MuteResult(job) ==
    IF ~job.failed THEN "responses" ELSE IF job.exit THEN "exit" ELSE "error"
TaskValue(f) ==
    LET c == futures[f].job
    IN  <<[job |-> c, run |-> Len(jobs[c].runs),
           result |-> IF futures[f].kind = "mute" THEN MuteResult(jobs[c])
                      ELSE IF jobs[c].exit THEN "exit" ELSE "none"]>>

(* What a read of a future finds (check_condition, .value): done, the task  *)
(* results in its value, and the futures whose own .value returns on the    *)
(* way, innermost first.  It is made of what the reads of its parts find:   *)
(* any fetches the first completed one, all goes on until one is not.       *)
Fetched(kind, parts) ==
    {i \in DOMAIN parts :
        IF kind = "any" THEN parts[i].done /\ \A k \in 1..i - 1 : ~parts[k].done
        ELSE \A k \in 1..i : parts[k].done}
ReadTask(f) ==
    LET done == jobs[futures[f].job].status = "DONE"
    IN  [done |-> done, value |-> TaskValue(f), through |-> IF done THEN <<f>> ELSE <<>>]
(* A FutureElement returns one element of its part's tuple.                 *)
ReadParts(f, parts) ==
    LET kind == futures[f].kind
        inner == Picked(parts, Fetched(kind, parts))
        done == IF kind = "any" THEN inner # <<>> ELSE Len(inner) = Len(parts)
        values == FlattenSeq([i \in DOMAIN inner |-> inner[i].value])
        through == FlattenSeq([i \in DOMAIN inner |-> inner[i].through])
    IN  [done |-> done,
         value |-> IF done /\ kind = "elem" THEN <<values[1]>> ELSE values,
         through |-> IF done THEN Append(through, f) ELSE through]
ReadFrom(f, parts) ==
    IF futures[f].kind \in {"task", "mute"} THEN ReadTask(f) ELSE ReadParts(f, parts)
Read ==
    LET read[f \in DOMAIN futures] ==
            ReadFrom(f, [i \in DOMAIN futures[f].parts |-> read[futures[f].parts[i]]])
    IN  read

(* add_error_handler of the futures of job j whose value just returned      *)
Registered(j, seq) ==
    {i \in DOMAIN seq : /\ futures[seq[i]].pending /\ futures[seq[i]].by = j
                        /\ \A k \in 1..i - 1 : seq[k] # seq[i]}
WithHandlers(j, seq) ==
    LET fs == Picked(seq, Registered(j, seq))
    IN  [jobs[j] EXCEPT !.handlers = @ \o
            [i \in DOMAIN fs |-> [kind |-> "tool", fut |-> fs[i], value |-> Read[fs[i]].value,
                                  message |-> NoMessage]]]

-----------------------------------------------------------------------------
Room == Len(jobs) < uses.jobs /\ Len(futures) < uses.futures
Active(j) == jobs[j].status = "STARTED"
MayCall(op, j) == Uses(op) /\ j \in uses.callers /\ Active(j)
Adapters == IF Uses("dialog") THEN BOOLEAN ELSE {FALSE}   (* of the agents *)

(* delegate_task, delegate_mute_task: create_new_job copies the parent's    *)
(* handlers; a tool's error handler waits for the value of the future.      *)
Delegate(j) ==
    /\ MayCall("delegate", j) /\ Room
    /\ \E kind \in uses.kinds, known \in uses.known, adapter \in Adapters, hasHandler \in BOOLEAN :
          /\ jobs' = Append(jobs, NewJob(IF known THEN j ELSE NoParent, adapter, FALSE,
                                         IF known THEN jobs[j].handlers ELSE <<>>))
          /\ futures' = Append(futures, FutureOf(kind, Len(jobs) + 1, <<>>, j, hasHandler))
    /\ UNCHANGED <<uses, called, sent>>
(* delegate_mute_dialog: start_dialog pushes the first message at once.     *)
StartDialog(j) ==
    /\ MayCall("dialog", j) /\ Room /\ sent < uses.sent
    /\ \E adapter, hasHandler \in BOOLEAN :
          /\ jobs' = Append(jobs, Accepted(NewJob(j, adapter, FALSE, jobs[j].handlers), sent + 1))
          /\ futures' = Append(futures, FutureOf("mute", Len(jobs) + 1, <<>>, j, hasHandler))
    /\ sent' = sent + 1
    /\ UNCHANGED <<uses, called>>
(* @subtask: create_new_job and create_sub_task.                            *)
StartSubTask(j) ==
    /\ MayCall("subtask", j) /\ Len(jobs) < uses.jobs
    /\ \E known \in uses.known :
          jobs' = Append(jobs, NewJob(IF known THEN j ELSE NoParent, FALSE, TRUE,
                                      IF known THEN jobs[j].handlers ELSE <<>>))
    /\ UNCHANGED <<uses, futures, called, sent>>

(* get_any_future, get_all_future, unpacking into FutureElements            *)
Combine(j) ==
    /\ MayCall("combine", j) /\ Len(futures) \in 1..uses.futures - 1
    /\ \/ \E kind \in {"any", "all"}, f, g \in DOMAIN futures, hasHandler \in BOOLEAN :
             futures' = Append(futures, FutureOf(kind, NoParent, <<f, g>>, j, hasHandler))
       \/ \E f \in DOMAIN futures :
             /\ futures[f].kind \in {"task", "all"}
             /\ futures' = Append(futures, FutureOf("elem", NoParent, <<f>>, j, FALSE))
    /\ UNCHANGED <<uses, jobs, called, sent>>

(* FutureResult.value: registers the handlers of every future whose value   *)
(* returned, also when the outer one then raises FutureError.               *)
Fetch(j, f) ==
    /\ Active(j) /\ futures[f].by = j
    /\ jobs' = [k \in DOMAIN jobs |-> WithHandlers(k, Read[f].through)]
    /\ futures' = [g \in DOMAIN futures |->
                      IF g \in Range(Read[f].through) THEN [futures[g] EXCEPT !.pending = FALSE] ELSE futures[g]]
    /\ UNCHANGED <<uses, called, sent>>

Start(j) ==
    /\ jobs[j].status = "READY" /\ jobs' = [jobs EXCEPT ![j].status = "STARTED"]
    /\ UNCHANGED <<uses, futures, called, sent>>
Succeeded(job, exit) ==
    [job EXCEPT !.status = "DONE", !.exit = exit, !.runs = Append(@, "succeeded")]
Complete(j) ==
    /\ Active(j) /\ Len(jobs[j].runs) < uses.runs
    /\ \E exit \in BOOLEAN :
          jobs' = [jobs EXCEPT ![j] = Succeeded(@, exit)]
    /\ UNCHANGED <<uses, futures, called, sent>>
(* job_worker: handle_critical_error runs the handlers.                     *)
Fail(j) ==
    /\ Active(j) /\ Len(jobs[j].runs) < uses.runs
    /\ \E harness \in BOOLEAN : jobs' = [jobs EXCEPT ![j] = Failed(@, harness)]
    /\ called' = called \o Invoked(j)
    /\ UNCHANGED <<uses, futures, sent>>

PushMessage(j) ==
    /\ Uses("dialog") /\ sent < uses.sent /\ sent' = sent + 1
    /\ jobs' = [jobs EXCEPT ![j] = Accepted(@, sent + 1)]
    /\ UNCHANGED <<uses, futures, called>>
(* push_notification of a sub-task, send_notification of another job        *)
Notified(job, teller) == [Reopened(job) EXCEPT !.log = Append(@, teller)]
(* send_notification_to                                                     *)
SendNotification(j) ==
    /\ Uses("subtask") /\ sent < uses.sent /\ sent' = sent + 1
    /\ jobs' = [jobs EXCEPT ![j] = Notified(@, NoParent)]
    /\ UNCHANGED <<uses, futures, called>>

(* complete_sub_task: SubTaskHandler.complete raises on a second outcome.   *)
CompletesAgain(c) == Active(c) /\ jobs[c].sub   \* mutated: a second outcome is accepted
MayComplete(c) == Active(c) /\ jobs[c].sub /\ jobs[c].outcome = "none"
CompleteSubTask(c) ==
    /\ MayComplete(c)
    /\ \E outcome \in {"COMPLETED", "ERROR"} :
          LET told == [jobs EXCEPT ![c].outcome = outcome]
              p == jobs[c].parent
          IN  /\ p # NoParent => Len(jobs[p].log) < uses.jobs
              /\ jobs' = IF p = NoParent THEN told
                         ELSE [told EXCEPT ![p] = Notified(@, c)]
    /\ UNCHANGED <<uses, futures, called, sent>>

DgNext ==
    \E j \in DOMAIN jobs :
        \/ Delegate(j) \/ StartDialog(j) \/ StartSubTask(j) \/ Combine(j)
        \/ \E f \in DOMAIN futures : Fetch(j, f)
        \/ Start(j) \/ Complete(j) \/ Fail(j)
        \/ PushMessage(j) \/ SendNotification(j) \/ CompleteSubTask(j)

DgSpec == DgInit /\ [][DgNext]_dgVars

(* Job.find_sub_task_handler: the handlers that a job can find.             *)
FindSubTaskHandler(j, c) == {i \in DOMAIN jobs[j].log : jobs[j].log[i] = c}
SubTaskState(c) ==
    IF jobs[c].outcome # "none" THEN jobs[c].outcome
    ELSE IF jobs[c].status = "READY" THEN "WAITING" ELSE "STARTED"

-----------------------------------------------------------------------------
(* Types of the jobs, futures and histories.                                *)
DgTypeOK ==
    /\ \A j \in DOMAIN jobs :
          /\ jobs[j].status \in {"READY", "STARTED", "DONE"} /\ jobs[j].parent \in 0..j - 1
          /\ jobs[j].outcome # "none" => jobs[j].sub
          /\ Range(jobs[j].log) \subseteq {NoParent} \cup DOMAIN jobs
    /\ \A f \in DOMAIN futures : Range(futures[f].parts) \subseteq 1..f - 1
    /\ sent \in 0..uses.sent

(* However often and through whichever combined future a value is fetched,  *)
(* the tool's error handler is registered once, and never for a value that  *)
(* was not available: its context is the result of a finished run.          *)
EntriesOf(j, f) ==
    Cardinality({i \in DOMAIN jobs[j].handlers : jobs[j].handlers[i].fut = f})
        + Cardinality({i \in DOMAIN called : called[i].job = j /\ called[i].entry.fut = f})
RegisteredOnce ==
    \A f \in DOMAIN futures : \A j \in DOMAIN jobs :
        /\ EntriesOf(j, f) <= 1
        /\ j = futures[f].by /\ futures[f].pending => EntriesOf(j, f) = 0
        /\ \A i \in DOMAIN jobs[j].handlers : LET h == jobs[j].handlers[i] IN
              h.fut = f => /\ h.value # <<>>
                           /\ \A k \in DOMAIN h.value : h.value[k].run >= 1

(* A job that fails tells each of its handlers once, also when it is        *)
(* reactivated and fails again: an entry is never both told and kept.       *)
ToldOnce ==
    \A i, k \in DOMAIN called :
        i # k /\ called[i].job = called[k].job => called[i].entry # called[k].entry

(* At most one binding reports critical errors of a job, and a job that     *)
(* accepted a message reports with its latest one.                          *)
OneCriticalBinding ==
    \A j \in DOMAIN jobs : LET bound == {i \in DOMAIN jobs[j].handlers : IsCritical(jobs[j].handlers[i])}
    IN  /\ Cardinality(bound) <= 1
        /\ \A i \in bound : jobs[j].accepted # NoMessage =>
              jobs[j].handlers[i].message = jobs[j].accepted

(* However futures are combined and jobs are reactivated, each failure is    *)
(* told once to each handler that has what it was registered for.           *)
HandlersRunOnce == RegisteredOnce /\ ToldOnce /\ OneCriticalBinding

(* The parent of a sub-task is told of its outcome once, and never before   *)
(* there is one; a finished parent never stays finished with it.            *)
OutcomeReachesParent ==
    \A c \in DOMAIN jobs : \A p \in DOMAIN jobs :
        Cardinality(FindSubTaskHandler(p, c)) =
            IF jobs[c].parent = p /\ SubTaskState(c) \in {"COMPLETED", "ERROR"} THEN 1 ELSE 0

(* A mute result is the chat responses exactly where the job never failed:  *)
(* after a failure, job.error makes it an error even if a later run of the  *)
(* reactivated job succeeds (task.py 615).                                  *)
MuteResultRemembersErrors ==
    \A f \in DOMAIN futures : futures[f].kind = "mute" /\ Read[f].done =>
        (Read[f].value[1].result = "responses" <=>
            "failed" \notin Range(jobs[futures[f].job].runs))
=============================================================================
