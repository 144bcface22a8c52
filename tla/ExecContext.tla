---------------------------- MODULE ExecContext ----------------------------
(***************************************************************************)
(* The execution contexts of the jobs of one process: _setup_execution_    *)
(* context, held by _exec_code_body and exec_tool (executors/utils.py), and *)
(* the nested event loops of run_coroutine_sync (src/statek/utils.py).      *)
(*                                                                         *)
(* A context replaces builtins.print and builtins.exit (one variable here:  *)
(* they are saved, patched and restored together) and the entry             *)
(* _STATEK_CTX of globals(), which all jobs without globals of their own     *)
(* share.  Code, and tools that are called as functions, hold their context *)
(* on the Python stack; when they need the result of a coroutine they drive *)
(* a nested event loop, in which the tasks of all other jobs run.  A tool   *)
(* that exec_tool itself awaits keeps its context open off the stack: other *)
(* jobs then open contexts inside it, and it may go on before they close.   *)
(***************************************************************************)
EXTENDS Integers, Sequences, FiniteSets

CONSTANTS
    Jobs,
    MaxConcurrency,  (* the semaphore: a job in a context holds it           *)
    MaxContexts,     (* bound: contexts that one job opens                   *)
    Python, NoJob    (* the interpreter's own built-ins; no _STATEK_CTX      *)

ASSUME ExecContextAssumption ==
    /\ MaxConcurrency \in Nat \ {0} /\ MaxContexts \in Nat
    /\ NoJob \notin Jobs /\ Python \notin Jobs \X Nat

VARIABLES
    patch,     \* builtins.print and exit: a context <<job, number>>, or Python
    current,   \* globals()['_STATEK_CTX']: the job it names, or NoJob
    saved,     \* original_print/exit and previous_global_statek_ctx of each job
    kind,      \* the open context of a job: "none", "code" or "tool"
    where,     \* "out", "running", "driving" a nested loop, or "awaiting"
    driven,    \* jobs whose driven coroutine has ended
    stack,     \* the jobs with a frame on the Python stack, the top one last
    opened,    \* how many contexts each job has opened
    within,    \* history: the open contexts in which that of a job was opened
    overtaken  \* history: did a job go on while a context opened in its own
               \* was still open?

vars == <<patch, current, saved, kind, where, driven, stack, opened, within, overtaken>>

-----------------------------------------------------------------------------
Patches == (Jobs \X (1..MaxContexts)) \cup {Python}
Context(j) == <<j, opened[j]>>
Open == {j \in Jobs : kind[j] # "none"}
(* The contexts opened in that of a job and not closed yet.                *)
Inside(j) == {i \in Jobs : j \in within[i]}

Top == stack[Len(stack)]
Below == SubSeq(stack, 1, Len(stack) - 1)
IsTop(j) == stack # <<>> /\ Top = j
(* Tasks run when no code is on the stack or the code on top drives a loop. *)
LoopRuns == stack # <<>> => where[Top] = "driving"

Init ==
    /\ patch = Python /\ current = NoJob
    /\ saved = [j \in Jobs |-> [patch |-> Python, current |-> NoJob]]
    /\ kind = [j \in Jobs |-> "none"]
    /\ where = [j \in Jobs |-> "out"]
    /\ driven = {} /\ stack = <<>>
    /\ opened = [j \in Jobs |-> 0]
    /\ within = [j \in Jobs |-> {}] /\ overtaken = FALSE

Enter(j, k) ==
    /\ kind' = [kind EXCEPT ![j] = k] /\ where' = [where EXCEPT ![j] = "running"]
    /\ opened' = [opened EXCEPT ![j] = @ + 1]
    /\ stack' = Append(stack, j)
    /\ within' = [within EXCEPT ![j] = Open]
MayEnterFreely(j) ==             \* mutated: steps run without holding the semaphore
    LoopRuns /\ j \notin Open /\ opened[j] < MaxContexts
MayEnter(j) ==
    LoopRuns /\ j \notin Open /\ Cardinality(Open) < MaxConcurrency
             /\ opened[j] < MaxContexts

(* _setup_execution_context up to its yield.                               *)
OpenContext(j, k) ==
    /\ MayEnter(j) /\ Enter(j, k)
    /\ saved' = [saved EXCEPT ![j] = [patch |-> patch, current |-> current]]
    /\ patch' = <<j, opened[j] + 1>> /\ current' = j
    /\ UNCHANGED <<driven, overtaken>>

GoesOn(j) ==
    /\ where' = [where EXCEPT ![j] = "running"]
    /\ overtaken' = (overtaken \/ Inside(j) # {})

(* run_coroutine_sync, under code or under a decorated tool: its coroutine *)
(* becomes a task of the loop, and the frame goes on when it is on top of  *)
(* the stack again and the coroutine has ended.                            *)
Drive(j) ==
    /\ IsTop(j) /\ where[j] = "running"
    /\ where' = [where EXCEPT ![j] = "driving"] /\ driven' = driven \ {j}
    /\ UNCHANGED <<patch, current, saved, kind, stack, opened, within, overtaken>>
DriveEnds(j) ==
    /\ LoopRuns /\ where[j] = "driving" /\ j \notin driven
    /\ driven' = driven \cup {j}
    /\ UNCHANGED <<patch, current, saved, kind, where, stack, opened, within, overtaken>>
DriveReturns(j) ==
    /\ IsTop(j) /\ where[j] = "driving" /\ j \in driven /\ GoesOn(j)
    /\ UNCHANGED <<patch, current, saved, kind, driven, stack, opened, within>>

(* "result = await result" in exec_tool (undecorated async tools, values of  *)
(* temporal functions): other tasks run, the context stays.                 *)
AwaitTool(j) ==
    /\ IsTop(j) /\ where[j] = "running" /\ kind[j] = "tool"
    /\ where' = [where EXCEPT ![j] = "awaiting"] /\ stack' = Below
    /\ UNCHANGED <<patch, current, saved, kind, driven, opened, within, overtaken>>
ContinueTool(j) ==
    /\ LoopRuns /\ where[j] = "awaiting" /\ GoesOn(j) /\ stack' = Append(stack, j)
    /\ UNCHANGED <<patch, current, saved, kind, driven, opened, within>>

Leave(j) ==
    /\ kind' = [kind EXCEPT ![j] = "none"] /\ where' = [where EXCEPT ![j] = "out"]
    /\ stack' = Below
    /\ within' = [i \in Jobs |-> IF i = j THEN {} ELSE within[i] \ {j}]
    /\ UNCHANGED <<saved, driven, opened, overtaken>>

CloseToPython(j) ==              \* mutated: the interpreter's built-ins come back
    /\ IsTop(j) /\ where[j] = "running" /\ Leave(j)
    /\ patch' = Python /\ current' = saved[j].current
(* The finally clause, however the block or the tool ended.                *)
CloseContext(j) ==
    /\ IsTop(j) /\ where[j] = "running" /\ Leave(j)
    /\ patch' = saved[j].patch /\ current' = saved[j].current

Next ==
    \E j \in Jobs :
        \/ \E k \in {"code", "tool"} : OpenContext(j, k)
        \/ Drive(j) \/ DriveEnds(j) \/ DriveReturns(j)
        \/ AwaitTool(j) \/ ContinueTool(j) \/ CloseContext(j)

Spec == Init /\ [][Next]_vars

-----------------------------------------------------------------------------
(* The Python stack: one frame per job, and only the top one runs.         *)
Framed == {stack[i] : i \in DOMAIN stack}
FramesOK ==
    /\ \A i, k \in DOMAIN stack : stack[i] = stack[k] => i = k
    /\ \A j \in Jobs : where[j] \in {"running", "driving"} <=> j \in Framed
    /\ \A i \in DOMAIN stack : where[stack[i]] = "running" => i = Len(stack)
    /\ \A j \in Jobs : kind[j] = "none" <=> where[j] = "out"

(* Every variable keeps its type, and the frames and contexts of the jobs   *)
(* fit together: a job has one context at a time, on the stack or awaited.  *)
TypeOK ==
    /\ FramesOK
    /\ patch \in Patches /\ current \in Jobs \cup {NoJob}
    /\ saved \in [Jobs -> [patch: Patches, current: Jobs \cup {NoJob}]]
    /\ kind \in [Jobs -> {"none", "code", "tool"}]
    /\ where \in [Jobs -> {"out", "running", "driving", "awaiting"}]
    /\ driven \subseteq Jobs
    /\ stack \in Seq(Jobs)
    /\ opened \in [Jobs -> 0..MaxContexts]
    /\ within \in [Jobs -> SUBSET Jobs] /\ overtaken \in BOOLEAN

(* Code that runs prints to its own console, exits its own job, and its    *)
(* tools find its own job, after any number of other jobs' contexts were    *)
(* opened and closed in the loops it drove.                                *)
RunningCodeKeepsItsContext ==
    \A j \in Jobs : where[j] = "running" => patch = Context(j) /\ current = j

(* "Restore original built-ins": with no context open nothing is patched.   *)
BuiltinsAreRestored == Open = {} => patch = Python /\ current = NoJob

(* Contexts nest in whatever order the jobs of a process open and close     *)
(* them, in nested loops and around awaited tools, until a job goes on with  *)
(* a context inside its own still open.  That happens to awaited tools:     *)
(* BuiltinsAreRestored fails where two of them end in the order they began. *)
ContextsNest == ~overtaken => RunningCodeKeepsItsContext /\ BuiltinsAreRestored

(* Where no tool is awaited while another job has a context open.          *)
AwaitedAlone == \A j \in Jobs : where[j] = "awaiting" => Open = {j}

(* Print output is captured by the console of the context it belongs to:   *)
(* who prints is the frame on top, or, in a loop, the coroutine that a job  *)
(* drives there.                                                           *)
Speakers ==
    {j \in Jobs : where[j] = "running"} \cup
    {j \in Jobs : LoopRuns /\ where[j] = "driving" /\ j \notin driven}
OutputStaysWithItsJob == \A j \in Speakers : patch = Context(j)
=============================================================================
