------------------------------ MODULE LLMClient ------------------------------
(***************************************************************************)
(* The clients of LLM providers: LLM_API.get and add_provider with their    *)
(* caches, LLM_API.process_request with its retries (llm_api.py), where     *)
(* they take the credentials from (settings.py), and the decisions API      *)
(* (decisions_api.py).                                                      *)
(*                                                                         *)
(* The credentials of a provider are a version number; NoKey where the URL  *)
(* or the key is missing.  Two of the caches are lru_caches that nothing    *)
(* clears when the environment or the active settings change.               *)
(***************************************************************************)
EXTENDS Integers, Sequences, FiniteSets, SequencesExt

CONSTANTS
    Builtin,       (* providers of llm_api.py                                 *)
    Addable,       (* names that add_provider may be called with              *)
    KeyVersions,   (* versions of credentials                                 *)
    DecisionAPIs,  (* "systemone" or "openai"                                 *)
    QuestionNames  (* names of questions                                      *)

NoKey == 0
NoApi == [impl |-> "none", key |-> NoKey]
Delays == <<3, 15>>    (* _LLM_API_RETRY_DELAYS_SECONDS                       *)

ASSUME ClientAssumption == KeyVersions \subseteq Nat \ {NoKey}

VARIABLES
    env,        \* credentials in the environment
    looked,     \* get_provider_settings: what its cache holds per provider
    custom,     \* _CUSTOM_LLM_API_PROVIDERS: own credentials, or NoKey
    apis,       \* LLM_API.get: what its cache holds per provider
    call,       \* the last request: [provider, api, attempts, phase, error]
    decision    \* the decision of a process that asks for one

lcVars == <<env, looked, custom, apis, call, decision>>

KnownProviders == Builtin \cup Addable
NoCall == [provider |-> "none", api |-> NoApi, attempts |-> 0, phase |-> "none",
           error |-> "none"]
NoDecision == [result |-> "none"]
AsksDecision == [result |-> "asked"]

(* The decisions API shares no state with the clients: a process of the     *)
(* model uses one or the other.                                             *)
LcInit ==
    /\ \/ decision = NoDecision /\ env \in [KnownProviders -> {NoKey} \cup KeyVersions]
       \/ decision = AsksDecision /\ env = [p \in KnownProviders |-> NoKey]
    /\ looked = <<>> /\ custom = <<>> /\ apis = <<>> /\ call = NoCall

Put(f, x, v) == [y \in DOMAIN f \cup {x} |-> IF y = x THEN v ELSE f[y]]
Runs == call.phase \in {"attempt", "sleep"}
IsClient == decision = NoDecision

(* A new process environment, or set_statek_settings: no client sees it.    *)
ChangeEnvironment ==
    /\ IsClient
    /\ \E p \in KnownProviders, k \in {NoKey} \cup KeyVersions : env' = [env EXCEPT ![p] = k]
    /\ UNCHANGED <<looked, custom, apis, call, decision>>

(* add_provider: names are unique; the cache of clients is cleared.         *)
Cleared == <<>>
IsNewName(name) == name \notin Builtin \cup DOMAIN custom
AddProvider ==
    /\ IsClient
    /\ \E name \in Addable, key \in {NoKey} \cup KeyVersions :
          /\ IsNewName(name)
          /\ custom' = Put(custom, name, key)
    /\ apis' = Cleared
    /\ UNCHANGED <<env, looked, call, decision>>

(* LLM_API.get: settings given to add_provider, else get_provider_settings. *)
Looked(p) == IF p \in DOMAIN looked THEN looked[p] ELSE env[p]
KeyOfEnvironment(p) == FALSE     \* mutated: credentials given to add_provider are unused
OwnKey(p) == p \in DOMAIN custom /\ custom[p] # NoKey
NewApi(p) ==
    [impl |-> IF p \in DOMAIN custom THEN "custom" ELSE "builtin",
     key |-> IF OwnKey(p) THEN custom[p] ELSE Looked(p)]
Api(p) == IF p \in DOMAIN apis THEN apis[p] ELSE NewApi(p)
(* process_request: without credentials no attempt is made.                 *)
MaySend(api) == api.key # NoKey
StartRequest ==
    /\ IsClient /\ ~Runs
    /\ \E p \in KnownProviders :
          LET supported == p \in Builtin \cup DOMAIN custom
              reads == p \notin DOMAIN apis /\ ~OwnKey(p)
          IN  /\ looked' = IF reads THEN Put(looked, p, Looked(p)) ELSE looked
              /\ apis' = IF supported THEN Put(apis, p, Api(p)) ELSE apis
              /\ call' = [NoCall EXCEPT
                    !.provider = p, !.api = IF supported THEN Api(p) ELSE NoApi,
                    !.phase = IF supported /\ MaySend(Api(p)) THEN "attempt" ELSE "refused"]
    /\ UNCHANGED <<env, custom, decision>>

(* _is_retryable_request_error *)
RequestErrors == {"408", "500", "400", "timeout", "network", "decoding", "not http"}
Retryable(error) == error \in {"408", "500", "timeout", "network"}
MayRetry(c) == c.attempts <= Len(Delays)
Tried(c) == [c EXCEPT !.attempts = @ + 1]

AttemptSucceeds ==
    /\ call.phase = "attempt"
    /\ call' = [Tried(call) EXCEPT !.phase = "answered"]
    /\ UNCHANGED <<env, looked, custom, apis, decision>>
AttemptFails ==
    /\ call.phase = "attempt"
    /\ \E error \in RequestErrors :
          LET c == Tried(call) IN
          call' = IF Retryable(error) /\ MayRetry(c)
                  THEN [c EXCEPT !.phase = "sleep"]
                  ELSE [c EXCEPT !.phase = "failed", !.error = error]
    /\ UNCHANGED <<env, looked, custom, apis, decision>>
WakeUp ==
    /\ call.phase = "sleep" /\ call' = [call EXCEPT !.phase = "attempt"]
    /\ UNCHANGED <<env, looked, custom, apis, decision>>

(* decisions_api.py: SystemOne looks the answers up by question, OpenAI goes *)
(* through the answers; a refusal or a wrong type raises.                   *)
AnswerTypes == {"noul", "choice", "score"}
Answers == [name: QuestionNames \cup {"unasked"}, type: AnswerTypes \cup {"refusal"}]
NamesIn(answers) == {answers[i].name : i \in DOMAIN answers}
LastFor(answers, n) ==
    answers[CHOOSE i \in DOMAIN answers : answers[i].name = n
                /\ \A k \in i + 1..Len(answers) : answers[k].name # n]
Accepts(api, questions, answers) ==
    IF api = "systemone"
    THEN /\ DOMAIN questions \subseteq NamesIn(answers)
         /\ \A n \in DOMAIN questions : LastFor(answers, n).type = questions[n]
    ELSE /\ NamesIn(answers) = DOMAIN questions
         /\ \A i \in DOMAIN answers : answers[i].type = questions[answers[i].name]
Decide ==
    /\ decision = AsksDecision
    /\ \E api \in DecisionAPIs, asked \in SUBSET QuestionNames \ {{}} :
          \E questions \in [asked -> AnswerTypes], answers \in UNION {[1..k -> Answers] : k \in 0..2} :
             /\ api = "systemone" => Cardinality(NamesIn(answers)) = Len(answers)  \* an object
             /\ decision' =
                  [api |-> api, questions |-> questions, answers |-> answers,
                   result |-> IF Accepts(api, questions, answers) THEN "accepted" ELSE "raised"]
    /\ UNCHANGED <<env, looked, custom, apis, call>>

LcNext ==
    \/ ChangeEnvironment \/ AddProvider \/ StartRequest
    \/ AttemptSucceeds \/ AttemptFails \/ WakeUp \/ Decide
LcSpec == LcInit /\ [][LcNext]_lcVars

-----------------------------------------------------------------------------
(* Types; a request is sent with credentials and three times at most, and   *)
(* one that failed on a temporary error was.                                *)
ClientTypeOK ==
    /\ call.phase \in {"none", "attempt", "sleep", "answered", "refused", "failed"}
    /\ call.attempts \in 0..Len(Delays) + 1
    /\ Runs => call.attempts \in 0..Len(Delays)
    /\ Runs \/ call.attempts > 0 => call.api.key # NoKey
    /\ call.phase = "failed" /\ Retryable(call.error) => call.attempts = Len(Delays) + 1
    /\ DOMAIN apis \subseteq Builtin \cup DOMAIN custom

(* A provider that was added is used from then on with the credentials it   *)
(* was added with, also where a request for its name was refused before, or *)
(* the environment has credentials of that name.                            *)
AddedProviderIsUsed ==
    \A p \in DOMAIN custom \cap DOMAIN apis :
        /\ apis[p].impl = "custom"
        /\ custom[p] # NoKey => apis[p].key = custom[p]

(* "Return a decision for each keyed question in the request": what is not  *)
(* raised answers every question, with a decision of the question's type.   *)
EveryQuestionIsDecided ==
    decision.result = "accepted" =>
        \A n \in DOMAIN decision.questions :
            \E i \in DOMAIN decision.answers :
                decision.answers[i] = [name |-> n, type |-> decision.questions[n]]
=============================================================================
