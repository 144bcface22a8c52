---------------------------- MODULE ModelRouting ----------------------------
(***************************************************************************)
(* From the name of a model to the request and its price: model_name.py,    *)
(* provider_config.py, the reasoning parameters of llm_api.py (58-66,       *)
(* 113-196), the provider that run_job_step chooses (Step 11), and the      *)
(* prices of model_pricing.py and properties of model_card.py.              *)
(*                                                                         *)
(* Names of providers, families and models compare without case.  A request *)
(* is the function from its parameters, <<name>> or <<container, name>>, to *)
(* who set them; a node of a configuration is [ranges, ignore].             *)
(***************************************************************************)
EXTENDS Integers, Sequences, FiniteSets, SequencesExt

CONSTANTS
    Configs,       (* contents a configuration file can have                 *)
    NodesOf,       (* the nodes of each content: path -> node                *)
    RoutingSetups, (* what one instance varies: [names, defs, loaded, prices,  *)
                   (* cards]: the names of models, each [provider, family,    *)
                   (* model, levels]; the bounds on job definitions and       *)
                   (* prices; whether all prices are loaded at the start, and *)
                   (* whether the properties of models are                    *)
    Providers,     (* providers that metadata or the jobs loop can name       *)
    DefaultProvider, KeepsFamily, Absent

ASSUME RoutingAssumption ==
    /\ \A s \in RoutingSetups : s.defs \in Nat /\ s.prices \in Nat /\ IsFiniteSet(s.names)
    /\ IsFiniteSet(Providers)
    /\ DefaultProvider \in Providers
    /\ KeepsFamily \subseteq Providers /\ Absent \notin Providers \cup Configs
    /\ \A s \in RoutingSetups : \A n \in s.names :
          n.provider \in Providers \cup {Absent} /\ n.model # Absent /\ n.levels \in Seq(Nat)
    /\ \A c \in Configs : \A path \in DOMAIN NodesOf[c] :
          /\ path \in Seq(Range(path)) \ {<<>>}
          /\ NodesOf[c][path].ranges \in Seq(Range(NodesOf[c][path].ranges))

VARIABLES
    routing,   \* the setup of this instance
    file,      \* content of statek_provider_config, or Absent
    snapshots, \* the ProviderConfig objects: [content, tagged]
    jobDefs,   \* [config, made]: position of its snapshot (0: none); history:
               \* the content of the file when it was created
    asked,     \* the last request: what was asked for and what was sent
    prices,    \* the ModelPricing objects: [key, price], price 0: not valid
    card       \* a ModelCard: field -> value, 0: not initialized

mrVars == <<routing, file, snapshots, jobDefs, asked, prices, card>>

NothingAsked == [sent |-> FALSE]

-----------------------------------------------------------------------------
(* provider_config.py *)
WithTag(content) == {i \in DOMAIN snapshots : snapshots[i].tagged /\ snapshots[i].content = content}
SameContent(content) == {i \in DOMAIN snapshots : snapshots[i].content = content}
Reusable(content) ==
    IF WithTag(content) # {} THEN WithTag(content) ELSE SameContent(content)

(* _candidate_paths: from the most to the least specific.                   *)
FamilyFirst(p, f, m) ==      \* mutated: the family goes before the model
    IF f = Absent THEN << <<p, m>>, <<p>> >>
    ELSE << <<p, f, m>>, <<p, f>>, <<p, m>>, <<p>> >>
CandidatePaths(p, f, m) ==
    IF f = Absent THEN << <<p, m>>, <<p>> >>
    ELSE << <<p, f, m>>, <<p, m>>, <<p, f>>, <<p>> >>
Earliest(S) == CHOOSE i \in S : \A k \in S : i <= k
Present(config, paths) == {i \in DOMAIN paths : paths[i] \in DOMAIN NodesOf[config]}

InRange(range, level) == range.from <= level /\ level <= range.to
MatchingRanges(node, level) == {i \in DOMAIN node.ranges : InRange(node.ranges[i], level)}
None == <<>>
(* find_payload: a node without a matching range is passed over.            *)
FindPayload(config, paths, level) ==
    LET found == {i \in Present(config, paths) :
                     MatchingRanges(NodesOf[config][paths[i]], level) # {}}
        node == NodesOf[config][paths[Earliest(found)]]
    IN  IF found = {} THEN None ELSE <<node.ranges[Earliest(MatchingRanges(node, level))].payload>>
(* find_ignored_parameters: an explicit list, though it may be empty, wins. *)
FindIgnored(config, paths) ==
    LET found == {i \in Present(config, paths) : NodesOf[config][paths[i]].ignore # None}
    IN  IF found = {} THEN {} ELSE Head(NodesOf[config][paths[Earliest(found)]].ignore)

-----------------------------------------------------------------------------
(* model_name.py, and Step 11 of run_job_step                               *)
FirstPresent(names) == names[Earliest({i \in DOMAIN names : names[i] # Absent})]
ChosenProvider(name, metadata, loop) ==
    FirstPresent(<<name.provider, metadata, loop, DefaultProvider>>)
UpstreamModel(name, provider) ==
    IF provider \in KeepsFamily /\ name.family # Absent THEN <<name.family, name.model>>
    ELSE <<name.model>>

(* _resolve_reasoning_request *)
ReasoningError(name, payload) ==
    \/ \E i, k \in DOMAIN name.levels : name.levels[i] # name.levels[k]
    \/ name.levels # <<>> /\ name.levels[1] > 0 /\ payload = None
Payload(config, name, provider) ==
    IF name.levels = <<>> \/ config = Absent THEN None
    ELSE FindPayload(config, CandidatePaths(provider, name.family, name.model), name.levels[1])
Ignored(config, name, provider) ==
    IF Payload(config, name, provider) = None THEN {}
    ELSE FindIgnored(config, CandidatePaths(provider, name.family, name.model))

(* _build_request_payload: what the job asks for, merged with the payload,  *)
(* then without the ignored parameters, also those in generationConfig.     *)
Base == {<<"temperature">>, <<"tools">>, <<"generationConfig", "temperature">>}
Merged(payload) ==
    LET set == IF payload = None THEN {} ELSE payload[1]
    IN  [k \in Base \cup set |-> IF k \in set THEN "config" ELSE "job"]
Parameters(payload, ignored) ==
    LET m == Merged(payload)
    IN  [k \in {k \in DOMAIN m : ~\E i \in DOMAIN k : k[i] \in ignored} |-> m[k]]

-----------------------------------------------------------------------------
(* model_pricing.py.  Tags: a search without a family finds every family.   *)
HasTags(key, wanted) ==
    /\ key.provider = wanted.provider /\ key.model = wanted.model
    /\ wanted.family \in {Absent, key.family}
FoundPrices(key) == {i \in DOMAIN prices : HasTags(prices[i].key, key)}
Priced(key, price) == Append(prices, [key |-> key, price |-> price])
PriceKey(provider, name) ==
    [provider |-> provider, model |-> UpstreamModel(name, provider),
     family |-> IF provider \in KeepsFamily THEN name.family ELSE Absent]
(* Job._current_model_pricing *)
PriceProvider(name, metadata) == FirstPresent(<<name.provider, metadata, DefaultProvider>>)

Keys == {PriceKey(provider, name) : provider \in Providers, name \in routing.names}

MrInit ==
    /\ routing \in RoutingSetups /\ file \in Configs \cup {Absent}
    /\ snapshots \in {<<>>} \cup {<<[content |-> c, tagged |-> FALSE]>> : c \in Configs}
    /\ jobDefs = <<>> /\ asked = NothingAsked
    /\ prices = IF routing.loaded THEN [i \in 1..Cardinality(Keys) |-> [key |-> SetToSeq(Keys)[i], price |-> 1]]
                ELSE <<>>
    /\ card = [f \in {"context", "count"} |-> 0]

ChangeFile ==
    /\ file' \in Configs \cup {Absent} /\ asked' = NothingAsked
    /\ UNCHANGED <<routing, snapshots, jobDefs, prices, card>>

(* create_new_job: resolve_settings_provider_config, then the job           *)
CreateJobDef ==
    /\ Len(jobDefs) < routing.defs /\ asked' = NothingAsked
    /\ IF file = Absent
       THEN /\ jobDefs' = Append(jobDefs, [config |-> 0, made |-> file])
            /\ UNCHANGED snapshots
       ELSE IF Reusable(file) # {}
       THEN \E i \in Reusable(file) :
               /\ jobDefs' = Append(jobDefs, [config |-> i, made |-> file])
               /\ snapshots' = [snapshots EXCEPT ![i].tagged = TRUE]
       ELSE /\ snapshots' = Append(snapshots, [content |-> file, tagged |-> TRUE])
            /\ jobDefs' = Append(jobDefs, [config |-> Len(snapshots) + 1, made |-> file])
    /\ UNCHANGED <<routing, file, prices, card>>

(* Steps 11 to 13 of a job, the price first.  Requests keep no state, so one *)
(* is only followed by another action (a bound).                            *)
ConfigOf(d) == IF jobDefs[d].config = 0 THEN Absent ELSE snapshots[jobDefs[d].config].content
ModelRequest(d, name, metadata, loop) ==
    LET provider == ChosenProvider(name, metadata, loop)
        payload == Payload(ConfigOf(d), name, provider)
    IN  [sent |-> ~ReasoningError(name, payload), def |-> d, name |-> name, loop |-> loop,
         provider |-> provider, model |-> UpstreamModel(name, provider),
         priced |-> PriceKey(PriceProvider(name, metadata), name),
         params |-> Parameters(payload, Ignored(ConfigOf(d), name, provider))]
SendModelRequest ==
    /\ asked = NothingAsked
    /\ \E d \in DOMAIN jobDefs, name \in routing.names,
          metadata, loop \in Providers \cup {Absent} :
          /\ asked' = ModelRequest(d, name, metadata, loop)
          /\ IF FoundPrices(asked'.priced) # {} THEN UNCHANGED prices
             ELSE Len(prices) < routing.prices /\ prices' = Priced(asked'.priced, 0)
    /\ UNCHANGED <<routing, file, snapshots, jobDefs, card>>

(* set_model_pricing: db0.find yields the objects in no particular order.   *)
MayFill(i) == prices[i].price = 0
SetPrice ==
    /\ \E name \in routing.names, provider \in Providers, price \in 1..2 :
          LET key == PriceKey(provider, name) IN
          IF FoundPrices(key) = {}
          THEN Len(prices) < routing.prices /\ prices' = Priced(key, price)
          ELSE \E i \in FoundPrices(key) :
                  IF MayFill(i) THEN prices' = [prices EXCEPT ![i].price = price]
                  ELSE IF prices[i].price = price THEN UNCHANGED prices
                  ELSE Len(prices) < routing.prices /\ prices' = Priced(key, price)
    /\ asked' = NothingAsked /\ UNCHANGED <<routing, file, snapshots, jobDefs, card>>

(* set_model_card: ValueError where a field has another value, and no field *)
(* is set then.                                                             *)
MayBeSet(values) == \A f \in DOMAIN values : card[f] \in {0, values[f]}
SetCard ==
    /\ routing.cards
    /\ \E fields \in SUBSET DOMAIN card : \E values \in [fields -> 1..2] :
          /\ MayBeSet(values)
          /\ card' = [f \in DOMAIN card |-> IF f \in fields THEN values[f] ELSE card[f]]
    /\ asked' = NothingAsked /\ UNCHANGED <<routing, file, snapshots, jobDefs, prices>>

MrNext == ChangeFile \/ CreateJobDef \/ SendModelRequest \/ SetPrice \/ SetCard
MrSpec == MrInit /\ [][MrNext]_mrVars

-----------------------------------------------------------------------------
(* Types, and a price that is not valid yet is the only one of its model.   *)
RoutingTypeOK ==
    /\ file \in Configs \cup {Absent}
    /\ \A i \in DOMAIN snapshots : snapshots[i].content \in Configs
    /\ \A d \in DOMAIN jobDefs : jobDefs[d].config \in 0..Len(snapshots)
    /\ \A i \in DOMAIN prices :
          /\ prices[i].price \in 0..2
          /\ prices[i].price = 0 => \A k \in DOMAIN prices : prices[k].key = prices[i].key => k = i
    /\ card \in [{"context", "count"} -> 0..2]

(* "Reuse or persist a durable provider-configuration snapshot by exact     *)
(* content": a job keeps the configuration it was created with whatever     *)
(* happens to the file, and equal configurations are one object.            *)
SnapshotsAreSharedAndKept ==
    /\ \A d \in DOMAIN jobDefs :
          jobDefs[d].made = IF jobDefs[d].config = 0 THEN Absent
                            ELSE snapshots[jobDefs[d].config].content
    /\ \A i, k \in DOMAIN snapshots : snapshots[i].content = snapshots[k].content => i = k

(* Reference: of the nodes that name the provider and nothing but the       *)
(* family and the model, those with a range for the level; more names count *)
(* more, the model more than the family.                                    *)
Applies(path) ==
    /\ path[1] = asked.provider /\ Len(path) <= 3
    /\ \A i \in 2..Len(path) : path[i] \in {asked.name.family, asked.name.model} \ {Absent}
    /\ Len(path) = 3 => path[2] = asked.name.family /\ path[3] = asked.name.model
Weight(path) == 2 * Len(path) + IF path[Len(path)] = asked.name.model THEN 1 ELSE 0
Heaviest(paths) == CHOOSE path \in paths : \A other \in paths : Weight(other) <= Weight(path)
Made == NodesOf[jobDefs[asked.def].made]
Unconfigured == jobDefs[asked.def].made = Absent
For(level) ==
    {path \in DOMAIN Made : Applies(path) /\ \E i \in DOMAIN Made[path].ranges :
                                                InRange(Made[path].ranges[i], level)}
Wants == asked.sent /\ asked.name.levels # <<>>
SilentDefault == Unconfigured \/ For(asked.name.levels[1]) = {}

(* A positive reasoning level is honoured by the payload of the most        *)
(* specific node or the request is refused; it is never dropped silently.   *)
LevelIsHonoured ==
    Wants =>
        IF SilentDefault THEN asked.name.levels[1] = 0
        ELSE LET node == Made[Heaviest(For(asked.name.levels[1]))]
                 range == CHOOSE i \in DOMAIN node.ranges :
                             /\ InRange(node.ranges[i], asked.name.levels[1])
                             /\ \A k \in 1..i - 1 : ~InRange(node.ranges[k], asked.name.levels[1])
             IN  {k \in DOMAIN asked.params : asked.params[k] = "config"}
                    \subseteq node.ranges[range].payload
                 /\ \A k \in node.ranges[range].payload :
                       k \in DOMAIN asked.params
                       \/ \E path \in DOMAIN Made : \E i \in DOMAIN k :
                             Applies(path) /\ Made[path].ignore # None /\ k[i] \in Head(Made[path].ignore)

(* A parameter that conflicts with reasoning is not in the request at any   *)
(* level, also when the job or the payload set it; without reasoning every  *)
(* parameter of the job is sent.                                            *)
ConflictsAreRemoved ==
    asked.sent =>
        LET reasons == asked.name.levels # <<>> /\ ~SilentDefault
            lists == IF reasons THEN {path \in DOMAIN Made : Applies(path) /\ Made[path].ignore # None}
                     ELSE {}
        IN  IF lists = {} THEN Base \subseteq DOMAIN asked.params
            ELSE \A k \in DOMAIN asked.params : \A i \in DOMAIN k :
                    k[i] \notin Head(Made[Heaviest(lists)].ignore)

(* "Return pricing for the concrete model used by the current LLM request." *)
PricedAsSent ==
    asked # NothingAsked => asked.priced = PriceKey(asked.provider, asked.name)
(* It is, unless the loop was started with a provider.                      *)
PricedAsSentByDefault == asked # NothingAsked /\ asked.loop = Absent => PricedAsSent

(* The parameters and the price of a request are those of the model name,    *)
(* its level and the configuration that its job was created with.           *)
RequestsFitTheirModel ==
    SnapshotsAreSharedAndKept /\ LevelIsHonoured /\ ConflictsAreRemoved /\ PricedAsSentByDefault

(* A price that is in use is never changed under the usage it prices, and   *)
(* set_model_card initializes all of its fields or none.                    *)
PricesAndCardsStay ==
    [][/\ \A i \in DOMAIN prices : prices[i].price # 0 => prices'[i] = prices[i]
       /\ \A f \in DOMAIN card : card[f] # 0 => card'[f] = card[f]]_mrVars
=============================================================================
