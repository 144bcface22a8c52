------------------------------ MODULE MCAgents ------------------------------
(***************************************************************************)
(* Instances for TLC of the modules about what jobs and agents exchange     *)
(* outside a step: PushQueue, Delegation, JobDefs, LLMClient, ExecContext,  *)
(* SharedContext.                                                           *)
(*                                                                         *)
(* They share no state, so a behaviour moves one of them, its subject, and  *)
(* leaves the others where they began.                                      *)
(***************************************************************************)
EXTENDS PushQueue, Delegation, JobDefs, LLMClient, ExecContext, SharedContext, TLC

CONSTANT Subjects
VARIABLE subject
agentsVars == <<subject, pqVars, dgVars, jdVars, lcVars, vars, scVars>>

(* PushQueue: two jobs on prefixes of their own, two supervised agents.     *)
PushSetup(gone, raising, bad, filter) ==
    [gone |-> gone, raising |-> raising, badWarmup |-> bad, queues |-> 2,
     step |-> 1, max |-> 2, filter |-> filter]
MCPushSetups ==
    {PushSetup({}, {}, {}, "any"), PushSetup({"j2"}, {"j1", "a2"}, {}, "any"),
     PushSetup({}, {}, {"a2"}, "p1")}
MCPrefixOf == [j1 |-> "p1", j2 |-> "p2"]

(* Delegation: delegated and combined futures; a job that is asked twice;   *)
(* dialogs from two jobs; sub-tasks.                                        *)
DgSetup(ops, callers, kinds, known, bounds) ==
    [ops |-> ops, callers |-> callers, kinds |-> kinds, known |-> known,
     jobs |-> bounds[1], futures |-> bounds[2], runs |-> bounds[3], sent |-> bounds[4]]
MCDgSetups ==
    {DgSetup({"delegate", "combine"}, {1}, {"task"}, {TRUE}, <<3, 3, 1, 0>>),
     DgSetup({"delegate", "dialog"}, {1}, {"task", "mute"}, {TRUE}, <<2, 1, 2, 2>>),
     DgSetup({"dialog"}, {1, 2}, {}, {}, <<3, 2, 1, 2>>),
     DgSetup({"subtask"}, {1, 2}, {}, {TRUE}, <<3, 0, 1, 1>>),
     DgSetup({"subtask"}, {1}, {}, {FALSE}, <<2, 0, 1, 1>>)}

(* JobDefs: post-processors of the prompt files; of the callers as well;    *)
(* MODEL in all its spellings.  The hash collides on purpose.               *)
MCHashOf(id) == <<id.style, id.post = NoPost>>
Checked == [dialog |-> TRUE, models |-> {"plain"}, posts |-> {NoPost, <<1>>, <<2, 1>>},
            explicit |-> {}, extras |-> {FALSE}, rests |-> {"none"}, warms |-> {"none"},
            defs |-> 2, cells |-> 3, jobs |-> 1, replies |-> 1]
MCDefSetups ==
    {Checked,
     [Checked EXCEPT !.posts = {NoPost, <<1>>}, !.explicit = {<<1>>}, !.cells = 2],
     [Checked EXCEPT !.dialog = FALSE, !.models = {"plain", "short", "long"},
                     !.posts = {NoPost}, !.extras = BOOLEAN, !.warms = {"none", "w"},
                     !.replies = 0]}

(* ExecContext: the constants of the configuration let several contexts be  *)
(* open; here there is one permit.                                          *)
Single == INSTANCE ExecContext WITH MaxConcurrency <- 1

FrozenPush == subject = "push" \/ setup = PushSetup({}, {}, {}, "any")
FrozenDelegation == subject = "delegation" \/ uses.known = {FALSE}
FrozenDefs == subject = "definitions" \/ (system = Checked /\ ~cells[1].extra)
FrozenClient ==
    subject = "client" \/ (decision = NoDecision /\ env = [p \in KnownProviders |-> NoKey])
AgentsInit ==
    /\ subject \in Subjects
    /\ PqInit /\ FrozenPush
    /\ DgInit /\ FrozenDelegation
    /\ JdInit /\ FrozenDefs
    /\ LcInit /\ FrozenClient
    /\ Init /\ ScInit

Only(s) ==
    /\ subject = s /\ UNCHANGED subject
    /\ s # "push" => UNCHANGED pqVars
    /\ s # "delegation" => UNCHANGED dgVars
    /\ s # "definitions" => UNCHANGED jdVars
    /\ s # "client" => UNCHANGED lcVars
    /\ s \notin {"contexts", "single context"} => UNCHANGED vars
    /\ s # "shared" => UNCHANGED scVars
PushMoves == Only("push") /\ PqNext
DelegationMoves == Only("delegation") /\ DgNext
DefinitionsMove == Only("definitions") /\ JdNext
ClientMoves == Only("client") /\ LcNext
ContextsMove == Only("contexts") /\ Next
SingleContextMoves == Only("single context") /\ Single!Next
SharedContextMoves == Only("shared") /\ ScNext
AgentsNext ==
    \/ PushMoves \/ DelegationMoves \/ DefinitionsMove \/ ClientMoves
    \/ ContextsMove \/ SingleContextMoves \/ SharedContextMoves

(* PqFairness, of the behaviours in which the queues move.                  *)
AgentsFairness == WF_agentsVars(Only("push") /\ Drain)
AgentsSpec == AgentsInit /\ [][AgentsNext]_agentsVars /\ AgentsFairness

(* The type invariants of the modules.                                      *)
AgentsTypeOK == PqTypeOK /\ DgTypeOK /\ JdTypeOK /\ ClientTypeOK /\ TypeOK /\ ScTypeOK

(* With one permit, what a job prints, also in the coroutines it drives and *)
(* in the tools that are awaited, is captured by its own console.           *)
OutputStaysWithOnePermit == subject = "single context" => OutputStaysWithItsJob
=============================================================================
