----------------------------- MODULE Difficulty -----------------------------
(***************************************************************************)
(* The difficulty of a job (src/statek/executors/job.py), which selects its *)
(* model, its prompt and the agents whose tools and examples it may use,    *)
(* and the token budget that escalations extend (llm_harness.py).           *)
(*                                                                         *)
(* Levels are 1 to 3 (low, medium, high), 0 is None.  Reading the difficulty *)
(* is not pure: get_current_difficulty stores what the last shown example   *)
(* asks for, and is called wherever a role, a tool, a model or a price is   *)
(* looked up.  MODEL is a mapping, so that the lookups of a model count.     *)
(***************************************************************************)
EXTENDS Integers, Sequences, FiniteSets, SequencesExt, FiniteSetsExt

CONSTANTS
    DiffSetups,   (* what one job is configured with: [static, declared,      *)
                  (* configured, examples, default, base, extra]: the static  *)
                  (* level; the EXTRA_RESOURCES groups [role, levels]; the     *)
                  (* roles that have an agent; the example levels of each      *)
                  (* role; default_example_id (-1: none); max_token_usage and  *)
                  (* limit_extension_per_completion                            *)
    Receiver,     (* the role of the job's own agent                           *)
    ReplySizes,   (* token usage that one request and its reply can add        *)
    MaxUsage,     (* bound: no request once this much was used                 *)
    MaxReopened   (* bound: completions counted by user messages               *)

Levels == 1..3
ASSUME DifficultyAssumption ==
    /\ MaxUsage \in Nat /\ MaxReopened \in Nat /\ ReplySizes \subseteq Nat
    /\ \A s \in DiffSetups :
          /\ s.static \in Levels /\ s.base \in Nat /\ s.extra \in Nat
          /\ s.declared \in Seq([role: DOMAIN s.examples, levels: SUBSET Levels])
          /\ Receiver \in DOMAIN s.examples
          /\ \A role \in DOMAIN s.examples : s.examples[role] \in Seq(0..3)

VARIABLES
    job,      \* the setup of this job
    level,    \* what get_current_difficulty stores: [last, changes]
    shown,    \* last_example_id and last_example_source
    usage,    \* approx_token_usage
    replies,  \* LLM_LogItems: [asked, sent], sent being the level it was sent with
    request,  \* the request on its way: [difficulty, provider], or 0s
    progress,    \* "running": its code may run; "asking": the next thing it does is
                 \* a request; "awaiting" the reply; "done" and "failed": DONE
    completions, \* num_completions
    raisers   \* history: the levels that shown examples and panics asked for

diffVars == <<job, level, shown, usage, replies, request, progress, completions, raisers>>

NoExample == [id |-> -1, role |-> Receiver, local |-> -1]
NoRequest == [difficulty |-> 0, provider |-> 0]

(***************************************************************************)
(* Resources.  A role is active from its lowest declared level on.  The    *)
(* receiver comes first, the donors follow by bucket and declaration, each  *)
(* where its role appears for the first time (dict.fromkeys).               *)
(***************************************************************************)
Role(g) == job.declared[g].role
Bucket(g) == Min(job.declared[g].levels)
Active(lv) == {g \in DOMAIN job.declared : Bucket(g) \in 1..lv}
ActiveRoles(lv) == {Receiver} \cup {Role(g) : g \in Active(lv)}
ResourcesResolve(lv) == ActiveRoles(lv) \subseteq job.configured \cup {Receiver}

Before(g, h) == Bucket(g) < Bucket(h) \/ (Bucket(g) = Bucket(h) /\ g < h)
Donors(lv) ==
    {g \in Active(lv) : Role(g) # Receiver
                          /\ \A h \in Active(lv) : Before(h, g) => Role(h) # Role(g)}

(* get_sourced_examples: the combined view, numbered from 0.                *)
ExamplesAhead(lv, g) ==
    UNION {{h} \X DOMAIN job.examples[Role(h)] : h \in {d \in Donors(lv) : Before(d, g)}}
Numbered(first, role) ==
    {[id |-> first + n - 1, role |-> role, local |-> n - 1] : n \in DOMAIN job.examples[role]}
SourcedExamples(lv) ==
    Numbered(0, Receiver) \cup
    UNION {Numbered(Len(job.examples[Receiver]) + Cardinality(ExamplesAhead(lv, g)), Role(g)) :
               g \in Donors(lv)}
ExampleLevel(role, id) ==
    IF id + 1 \in DOMAIN job.examples[role] THEN job.examples[role][id + 1] ELSE 0

(***************************************************************************)
(* Resolution.  The source of the shown example is trusted only if its     *)
(* role is active at the stored (or static) level; otherwise the number is *)
(* read as one of the receiver's own examples.                             *)
(***************************************************************************)
BaseLevel(lv) == IF lv.last = 0 THEN job.static ELSE lv.last
SourceForByLocal(lv) ==   \* mutated: the donor's own number is read as the receiver's
    IF shown.id = -1 THEN [role |-> Receiver, local |-> job.default]
    ELSE [role |-> IF shown.role \in ActiveRoles(BaseLevel(lv))
                   THEN shown.role ELSE Receiver, local |-> shown.local]
SourceFor(lv) ==
    IF shown.id = -1 THEN [role |-> Receiver, local |-> job.default]
    ELSE IF shown.role \in ActiveRoles(BaseLevel(lv)) /\ shown.role \in job.configured
    THEN [role |-> shown.role, local |-> shown.local]
    ELSE [role |-> Receiver, local |-> shown.id]
Wanted(lv) == LET s == SourceFor(lv) IN ExampleLevel(s.role, s.local)

(* _set_dynamic_difficulty: one change item for each increase.              *)
SetDynamic(lv, to) ==
    [last |-> to,
     changes |-> IF to > BaseLevel(lv)
                 THEN Append(lv.changes, [from |-> BaseLevel(lv), to |-> to, usage |-> usage])
                 ELSE lv.changes]

(* get_current_difficulty: what it leaves behind.                           *)
Resolved(lv) ==
    IF Wanted(lv) = 0 \/ (lv.last # 0 /\ lv.last >= Wanted(lv)) THEN lv
    ELSE SetDynamic(lv, Wanted(lv))
Current == BaseLevel(Resolved(level))

DiffInit ==
    /\ job \in DiffSetups
    /\ level = [last |-> 0, changes |-> <<>>] /\ shown = NoExample
    /\ usage = 0 /\ replies = {} /\ request = NoRequest
    /\ progress = "running" /\ completions = 0
    /\ raisers = {job.static, ExampleLevel(Receiver, job.default)}

(* show_example in the job's code: the list is the one of the current level.*)
ShowExample ==
    /\ progress = "running" /\ ResourcesResolve(Current)
    /\ \E example \in SourcedExamples(Current) :
          /\ shown' = example
          /\ raisers' = raisers \cup {ExampleLevel(example.role, example.local)}
    /\ level' = Resolved(level)
    /\ UNCHANGED <<job, usage, replies, request, progress, completions>>

(* panic: RuntimeError at the high level.                                   *)
Highest(lv) == lv = 3
Panic ==
    /\ progress = "running"
    /\ level' = IF Highest(Current) THEN Resolved(level)
                ELSE SetDynamic(Resolved(level), Current + 1)
    /\ raisers' = raisers \cup {BaseLevel(level')}
    /\ UNCHANGED <<job, shown, usage, replies, request, progress, completions>>

(* Any other lookup: a list of examples or documents, the tools of a block. *)
LookUp ==
    /\ progress = "running" /\ level' = Resolved(level)
    /\ UNCHANGED <<job, shown, usage, replies, request, progress, completions, raisers>>

(* Steps 11 and 12: the provider is selected, then the price is looked up,  *)
(* then the difficulty of the request is captured.                          *)
CurrentModel(lv) == Resolved(lv)          \* get_current_model
PricingSynced(lv) == CurrentModel(lv)     \* _sync_usage_pricing
SendLeveled ==
    LET priced == PricingSynced(CurrentModel(level))
        sent == BaseLevel(Resolved(priced))
    IN  /\ progress \in {"running", "asking"} /\ usage < MaxUsage
        /\ level' = Resolved(priced)
        /\ IF ResourcesResolve(sent)
           THEN progress' = "awaiting"
                /\ request' = [difficulty |-> sent, provider |-> Current]
           ELSE progress' = "failed" /\ UNCHANGED request
        /\ UNCHANGED <<job, shown, usage, replies, completions, raisers>>

(***************************************************************************)
(* The token limit (LLM_Harness.check_after_step).                         *)
(***************************************************************************)
BaseLimit == job.base * (1 + job.extra * completions)
Extension(changes) ==     \* difficulty_token_extension
    LET sum[n \in 0..Len(changes)] == IF n = 0 THEN 0 ELSE sum[n - 1] + changes[n].usage
    IN  sum[Len(changes)]
Exceeded(used) == used > BaseLimit + Extension(level.changes)

StoredDifficulty(d) == IF d = job.static THEN 0 ELSE d   \* append_chat_log

Checked(used, next) == progress' = IF Exceeded(used) THEN "failed" ELSE next

(* Steps 13 to 17: a reply that a post-processor suppresses is only counted;*)
(* one with code runs it; a final one completes the job.                    *)
Reply ==
    /\ progress = "awaiting"
    /\ \E size \in ReplySizes :
          /\ usage' = usage + size
          /\ \/ replies' = replies /\ Checked(usage', "asking")
             \/ /\ replies' = replies \cup {[asked |-> StoredDifficulty(request.difficulty),
                                             sent |-> request.difficulty]}
                /\ Checked(usage', "running") \/ Checked(usage', "done")
    /\ request' = NoRequest
    /\ UNCHANGED <<job, level, shown, completions, raisers>>

(* Step 9: code exits and the job is DONE, unless notifications are pending.*)
CodeExits ==
    /\ progress = "running" /\ (Checked(usage, "done") \/ Checked(usage, "asking"))
    /\ UNCHANGED <<job, level, shown, usage, replies, request, completions, raisers>>

(* job_worker: the request, the provider, a post-processor or a warm-up     *)
(* block raised, or another limit of the harness is exceeded.               *)
StepRaises ==
    /\ progress \in {"running", "asking", "awaiting"}
    /\ progress' = "failed" /\ request' = NoRequest
    /\ UNCHANGED <<job, level, shown, usage, replies, completions, raisers>>

(* A DONE job restarts, also one that the harness stopped, and its history  *)
(* then ends with what has to be answered: it asks before it runs any code. *)
(* check_before_step does not look at the tokens.                           *)
ReopenedRuns == progress \in {"done", "failed"} /\ progress' = "running"   \* mutated: code goes on
Reopened == progress \in {"done", "failed"} /\ progress' = "asking"

UserMessage ==        \* push_user_message
    /\ Reopened /\ completions < MaxReopened /\ completions' = completions + 1
    /\ UNCHANGED <<job, level, shown, usage, replies, request, raisers>>

Notification ==       \* push_notification, send_notification
    /\ Reopened
    /\ UNCHANGED <<job, level, shown, usage, replies, request, completions, raisers>>

DiffNext ==
    \/ ShowExample \/ Panic \/ LookUp \/ SendLeveled \/ Reply \/ CodeExits \/ StepRaises
    \/ UserMessage \/ Notification
DiffSpec == DiffInit /\ [][DiffNext]_diffVars

(* get_request_data: what a stored reply says of its request.               *)
RebuiltDifficulty(reply) == IF reply.asked = 0 THEN job.static ELSE reply.asked

-----------------------------------------------------------------------------
DiffTypeOK ==
    /\ level.last \in 0..3 /\ usage \in Nat /\ completions \in Nat
    /\ \A i \in DOMAIN level.changes : level.changes[i].usage \in 0..usage
    /\ progress \in {"running", "asking", "awaiting", "done", "failed"}
    /\ (progress = "awaiting") = (request # NoRequest)

(* Each increase extends the budget once: the change items are a chain of   *)
(* strict increases that ends at the current level, with usage that grows.  *)
EachIncreaseCountsOnce ==
    /\ \A i \in DOMAIN level.changes : level.changes[i].from < level.changes[i].to
    /\ \A i \in DOMAIN level.changes :
          i > 1 => /\ level.changes[i].from = level.changes[i - 1].to
                   /\ level.changes[i].usage >= level.changes[i - 1].usage
    /\ level.changes # <<>> => level.last = Last(level.changes).to

(* However often a job escalates, is stopped and is restarted, the usage at  *)
(* which its code runs or it completes is at most four times the base limit: *)
(* two escalations, no more than doubling each.  What a job spends over its  *)
(* limit, a request for each time it is restarted, is never added to it.     *)
EscalationIsBounded ==
    EachIncreaseCountsOnce /\ (progress \in {"running", "done"} => usage <= 4 * BaseLimit)

(* "Resolution checks the last shown example first, then static job metadata,*)
(* then settings": the level is the static one, one that a shown example has,*)
(* or one a panic raised it to.                                              *)
LevelComesFromShownExamples == level.last # 0 => level.last \in raisers

(* The provider, the price, the prompt and the model of one request belong   *)
(* to the same level, although each of them looks the difficulty up again.   *)
ProviderFitsRequest == request.provider = request.difficulty

(* A request reconstructed from the chat log has the difficulty with which   *)
(* the request was sent.                                                     *)
RebuiltAsSent == \A r \in replies : RebuiltDifficulty(r) = r.sent

(* A request has one level, it has it for a reason, and it keeps it.         *)
RequestsHaveOneLevel == ProviderFitsRequest /\ LevelComesFromShownExamples /\ RebuiltAsSent
=============================================================================
