------------------------------- MODULE JobDefs -------------------------------
(***************************************************************************)
(* The definitions of an agent's jobs: how create_new_job (task.py) and     *)
(* run_agentic_fleet (executors/utils.py) find or create one, how           *)
(* update_prompt_config (prompt_config.py) and update_warmup_def            *)
(* (agents/agent.py) change them under the jobs that use them, and what     *)
(* their post-processors do with the replies (executors/post_processor.py). *)
(*                                                                         *)
(* The metadata of an agent is a dict that its definitions share until the  *)
(* agent gets another one: a cell.  The MODEL in it is a plain name, or     *)
(* names per difficulty: as a "short" or a "long" text, or parsed, a        *)
(* "mapping".  Locale, job_params and provider_config are one value, rest.  *)
(***************************************************************************)
EXTENDS Positions, SequencesExt

CONSTANTS
    HashOf(_),     (* _job_def_identity_hash: four hex digits, may collide    *)
    DefSetups      (* [dialog, models, posts, explicit, extras, rests, warms, *)
                   (*  defs, cells, jobs, replies], see DefinitionAssumption        *)

NoPost == <<>>
Models == {"plain", "short", "long", "mapping"}

ASSUME DefinitionAssumption ==
    \A s \in DefSetups :
        /\ s.dialog \in BOOLEAN           \* a DialogAgent or a SupervisedAgent
        /\ s.models \subseteq Models      \* MODEL of the prompt files
        /\ s.posts \subseteq Seq(Nat)     \* POST_PROCESSORS: FinalCheck(n)...
        /\ s.explicit \subseteq Seq(Nat)  \* post_processing of a caller
        /\ s.extras \subseteq BOOLEAN    \* whether there are EXTRA_RESOURCES
        /\ s.defs \in Nat /\ s.cells \in Nat /\ s.jobs \in Nat /\ s.replies \in Nat  \* bounds

VARIABLES
    system,     \* the setup
    cells,      \* metadata dicts: [model, style, post, extra]
    agent,      \* the agent's [meta: its cell, warm: its warmup_def]
    defs,       \* JobDefs: [meta, extra, warm, rest, style, post, tags]
    processors, \* the persisted post-processors: FinalCheck(max_llm_actions)
    work        \* jobs: [def, asked, fired: post-processors, actions, done];
                \* history: asked, what the call that made the job asked for
jdVars == <<system, cells, agent, defs, processors, work>>

JdInit ==
    /\ system \in DefSetups
    /\ cells \in {<<[model |-> m, style |-> "none", post |-> NoPost, extra |-> x]>> :
                     m \in system.models, x \in system.extras}
    /\ agent = [meta |-> 1, warm |-> "none"]
    /\ defs = <<>> /\ processors = <<>> /\ work = <<>>

Parsed(m) == IF m = "plain" THEN "plain" ELSE "mapping"       \* parse_model_metadata
States(post, procs) == [i \in DOMAIN post |-> procs[post[i]]] \* post_processing_identity
(* JobDef.model: a mapping is written in full.                              *)
ModelName(d, cs) == IF cs[d.meta].model = "mapping" THEN "long" ELSE cs[d.meta].model
IdentityOf(d, cs, procs) ==
    [model |-> ModelName(d, cs), warm |-> d.warm, rest |-> d.rest, style |-> d.style,
     post |-> States(d.post, procs), extra |-> d.extra]
TagOf(d, cs, procs) == HashOf(IdentityOf(d, cs, procs))

(* _resolve_post_processor_call: a processor of the same state is reused.   *)
NeverReused(n, procs) == Len(procs) + 1       \* mutated: a new one each time
Reused(n, procs) ==
    LET same == {i \in DOMAIN procs : procs[i] = n}
    IN  IF same # {} THEN FirstOf(same) ELSE Len(procs) + 1
Kept(n, procs) == IF Reused(n, procs) \in DOMAIN procs THEN procs ELSE Append(procs, n)
Resolve(post, procs) ==      \* [ids, procs], one call after the other
    LET after[i \in 0..Len(post)] == IF i = 0 THEN procs ELSE Kept(post[i], after[i - 1])
    IN  [ids |-> [i \in DOMAIN post |-> Reused(post[i], after[i - 1])], procs |-> after[Len(post)]]

(* set_chat_style, set_post_processing: the tag follows the identity.       *)
KeepOldTag(d, old, new) == d.tags \cup {new}      \* mutated: the old tag stays
Retag(d, old, new) == (d.tags \ IF old # new THEN {old} ELSE {}) \cup {new}
Configured(d, style, post, procs) ==
    LET styled == [d EXCEPT !.style = style]
        changed == IF States(d.post, procs) = States(post, procs) THEN styled
                   ELSE [styled EXCEPT !.post = post]
        tag(x) == TagOf(x, cells, procs)
        tags == Retag(d, tag(d), tag(styled))
    IN  [changed EXCEPT !.tags = Retag([styled EXCEPT !.tags = tags], tag(styled), tag(changed))]

(* update_prompt_config with a prompt file of this metadata: the agent gets *)
(* a new dict if it differs, and all its definitions get style and post.    *)
ChangedInPlace(meta) == [cells EXCEPT ![agent.meta] = meta]    \* mutated: dict.update
NewCells(meta) == Append(cells, meta)
CellOf(meta) == IF Len(NewCells(meta)) > Len(cells) THEN Len(cells) + 1 ELSE agent.meta
UpdatePrompts ==
    /\ Len(cells) < system.cells
    /\ \E m \in system.models, style \in {"none", "dialog"}, post \in system.posts,
          extra \in system.extras :
          LET meta == [model |-> m, style |-> style, post |-> post, extra |-> extra]
              resolved == Resolve(post, processors)
          IN  /\ IF cells[agent.meta] = meta THEN UNCHANGED <<cells, agent>>
                 ELSE /\ cells' = NewCells(meta)
                      /\ agent' = [agent EXCEPT !.meta = CellOf(meta)]
              /\ processors' = resolved.procs
              /\ defs' = [d \in DOMAIN defs |->
                            Configured(defs[d], style, resolved.ids, resolved.procs)]
    /\ UNCHANGED <<system, work>>

UpdateWarmup ==
    /\ \E w \in system.warms : w # agent.warm /\ agent' = [agent EXCEPT !.warm = w]
    /\ UNCHANGED <<system, cells, defs, processors, work>>

(* find_existing_job_def: the definitions with the tag, then all of them.   *)
Matches(d, call, procs) ==
    IdentityOf(defs[d], cells, procs) =
        [model |-> call.model, warm |-> call.warm, rest |-> call.rest, style |-> call.style,
         post |-> call.post, extra |-> call.extra]
Found(call, procs) ==     \* 0 where there is none
    LET all == {d \in DOMAIN defs : Matches(d, call, procs)}
        tagged == {d \in all : HashOf(call) \in defs[d].tags}
    IN  IF tagged # {} THEN FirstOf(tagged) ELSE IF all # {} THEN FirstOf(all) ELSE 0

(* JobDef.__post_init__: it parses MODEL in the agent's own dict, unless    *)
(* EXTRA_RESOURCES made it a copy.                                          *)
NewDef(call, post, procs) ==     \* [def, cells]
    LET own == cells[agent.meta]
        parsed == [own EXCEPT !.model = Parsed(@)]
        cs == IF own.extra THEN Append(cells, parsed) ELSE [cells EXCEPT ![agent.meta] = parsed]
        d == [meta |-> IF own.extra THEN Len(cs) ELSE agent.meta, extra |-> call.extra,
              warm |-> call.warm, rest |-> call.rest, style |-> call.style, post |-> post,
              tags |-> {}]
    IN  [def |-> [d EXCEPT !.tags = {TagOf(d, cs, procs)}], cells |-> cs]

(* What no change of the agent may alter under a job.                       *)
Frozen(model, x) ==
    [model |-> Parsed(model), warm |-> x.warm, rest |-> x.rest, extra |-> x.extra]

FindOrCreate(call, post, procs) ==
    LET found == Found(call, procs)
        new == NewDef(call, post, procs)
        d == IF found > 0 THEN found ELSE Len(defs) + 1
    IN  /\ found = 0 => Len(defs) < system.defs
        /\ defs' = IF found = 0 THEN Append(defs, new.def)
                   ELSE [defs EXCEPT ![found].tags = @ \cup {TagOf(defs[found], cells, procs)}]
        /\ cells' = IF found = 0 THEN new.cells ELSE cells
        /\ work' = IF Len(work) < system.jobs
                   THEN Append(work, [def |-> d, asked |-> Frozen(call.model, call), fired |-> <<>>,
                                      actions |-> 0, done |-> FALSE])
                   ELSE work
        /\ UNCHANGED <<system, agent>>

(* create_new_job: warm-up code of the call before that of the agent, the   *)
(* explicit style or post-processors before those of the metadata.          *)
Call(warm, style, rest, post) ==
    [model |-> cells[agent.meta].model, warm |-> warm, rest |-> rest, style |-> style,
     post |-> post, extra |-> cells[agent.meta].extra]
CreateJob ==
    \E warm \in system.warms, rest \in system.rests,
       explicit \in system.explicit \cup {NoPost} :
        LET meta == cells[agent.meta]
            style == IF ~system.dialog THEN "none"
                     ELSE IF meta.style # "none" THEN meta.style ELSE "dialog"
            fresh == [i \in DOMAIN explicit |-> Len(processors) + i]
            resolved == IF explicit # NoPost
                        THEN [ids |-> fresh, procs |-> processors \o explicit]
                        ELSE Resolve(meta.post, processors)
            call == Call(<<warm, agent.warm>>, style, rest, States(resolved.ids, resolved.procs))
        IN  /\ FindOrCreate(call, resolved.ids, resolved.procs)
            (* The processors of the caller are kept with a definition only. *)
            /\ processors' = IF explicit # NoPost /\ Len(defs') = Len(defs)
                             THEN processors ELSE resolved.procs

(* run_agentic_fleet, run_agentic_loop: neither a style nor post-processors. *)
StartFleet ==
    /\ \E warm \in system.warms :
          FindOrCreate(Call(<<warm, "none">>, "none", "none", NoPost), NoPost, processors)
    /\ UNCHANGED processors

(* run_job_step, Steps 14 to 16, for a reply that is text or code.  Every   *)
(* reply that is committed counts as one action.                            *)
Styled(d) == d.style # "none"      \* the default style never makes a step final
Fires(p, job) == job.actions < processors[p] /\ p \notin ToSet(job.fired)
Step ==
    \E j \in DOMAIN work, kind \in {"text", "code"} :
        LET job == work[j]
            d == defs[job.def]
            final == kind = "text" /\ Styled(d)
            firing == IF final THEN {i \in DOMAIN d.post : Fires(d.post[i], job)} ELSE {}
        IN  /\ ~job.done /\ job.actions < system.replies
            /\ work' = [work EXCEPT ![j] =
                  IF firing # {} THEN [job EXCEPT !.fired = Append(@, d.post[FirstOf(firing)])]
                  ELSE [job EXCEPT !.actions = @ + 1, !.done = final]]
            /\ UNCHANGED <<system, cells, agent, defs, processors>>

JdNext == UpdatePrompts \/ UpdateWarmup \/ CreateJob \/ StartFleet \/ Step
JdSpec == JdInit /\ [][JdNext]_jdVars

-----------------------------------------------------------------------------
(* Types; whatever changed a definition, it has exactly one tag, that of    *)
(* its present identity: "Ensure this JobDef has exactly one current        *)
(* identity hash tag".                                                      *)
JdTypeOK ==
    /\ agent.meta \in DOMAIN cells
    /\ \A i \in DOMAIN cells : cells[i].model \in Models
    /\ \A d \in DOMAIN defs :
          /\ defs[d].meta \in DOMAIN cells /\ cells[defs[d].meta].model \in {"plain", "mapping"}
          /\ ToSet(defs[d].post) \subseteq DOMAIN processors
          /\ defs[d].tags = {TagOf(defs[d], cells, processors)}

(* "Frozen job configuration": a job runs with the model, warm-up, resources *)
(* and parameters that were asked for when it was created, also where tags   *)
(* collide, definitions are reused and the agent or its dicts change later.  *)
JobsRunAsAsked == \A j \in DOMAIN work : 
    LET d == defs[work[j].def] IN Frozen(cells[d.meta].model, d) = work[j].asked

(* A draft is held back at most once per FinalCheck(n) in the life of a job, *)
(* through all changes of the prompt files and back, unless callers bring   *)
(* processors of their own: these are told apart by identity only.          *)
HeldBackOncePerCheck ==
    system.explicit = {} =>
        \A j \in DOMAIN work : IsInjective(States(work[j].fired, processors))
=============================================================================
