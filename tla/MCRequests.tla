----------------------------- MODULE MCRequests -----------------------------
(***************************************************************************)
(* Instances for TLC of the modules about what a request to a model is made *)
(* of: JobHistory, Difficulty, Wire, ModelRouting, ToolScope.               *)
(*                                                                         *)
(* They share no state, so a behaviour moves one of them, its subject, and  *)
(* leaves the others where they began.                                      *)
(***************************************************************************)
EXTENDS JobHistory, Difficulty, Wire, ModelRouting, ToolScope, TLC

CONSTANT Subjects
VARIABLE subject
requestsVars == <<subject, vars, diffVars, talk, mrVars, tsVars>>

(* JobHistory: jobs of each chat style, with and without warm-up blocks,    *)
(* messages and notifications, and with a reader of the history.            *)
Visibly == [hidden |-> FALSE, calls |-> 0, text |-> "code"]
Concealed == [Visibly EXCEPT !.hidden = TRUE]
WithCall == [Visibly EXCEPT !.calls = 1]
Def(style, warmup, messages, notes, lines, items, onlooker) ==
    [style |-> style, warmup |-> warmup, messages |-> messages, notes |-> notes,
     lines |-> lines, log |-> items, onlooker |-> onlooker]
MCJobDefs ==
    {Def("DIRECT", <<Visibly>>, 2, 0, 2, 4, FALSE), Def("DIRECT", <<>>, 1, 1, 1, 3, FALSE),
     Def("DIRECT", <<>>, 1, 0, 1, 3, TRUE), Def("MD_DIALOG", <<WithCall>>, 1, 0, 1, 4, FALSE),
     Def("MD_DIALOG", <<>>, 1, 1, 1, 3, FALSE), Def("PLAIN", <<Visibly>>, 1, 1, 2, 3, FALSE),
     Def("PLAIN", <<Concealed, Visibly>>, 2, 0, 2, 3, FALSE),
     Def("PLAIN", <<>>, 1, 0, 1, 2, TRUE)}
Replied(text, calls, payload) == [text |-> text, calls |-> calls, payload |-> payload]
MCReplies == {Replied("code", 0, FALSE), Replied("blank", 0, TRUE), Replied("dialog", 1, FALSE)}

(* Difficulty: a role in two groups; examples of the job's own agent alone; *)
(* a role that has no agent; a group that has to be activated by an example. *)
Group(role, levels) == [role |-> role, levels |-> levels]
DiffSetup(static, declared, configured, examples, default, extra) ==
    [static |-> static, declared |-> declared, configured |-> configured,
     examples |-> examples, default |-> default, base |-> 1, extra |-> extra]
MCDiffSetups ==
    {DiffSetup(1, <<Group("b", {2, 3}), Group("c", {1}), Group("b", {3})>>, {"b", "c"},
               [self |-> <<0, 1>>, b |-> <<3>>, c |-> <<2>>], -1, 0),
     DiffSetup(1, <<>>, {}, [self |-> <<1, 3>>], 0, 1),
     DiffSetup(2, <<Group("b", {3})>>, {}, [self |-> <<2, 3>>, b |-> <<1>>], -1, 0),
     DiffSetup(2, <<Group("b", {2})>>, {"b"}, [self |-> <<0, 3>>, b |-> <<0, 1>>], -1, 0)}

(* Wire: two providers of the OpenAI format, one of each of the others.     *)
MCFormatOf == [openrouter |-> "openai", groq |-> "openai", google |-> "vertex",
               claude |-> "claude"]
MCCalledTools == {<<>>, <<"f">>, <<"f", "g">>}

(* ModelRouting: configurations with nodes at the provider, at the family   *)
(* and at the model; names with and without provider, family and levels.    *)
Node(ranges, ignore) == [ranges |-> ranges, ignore |-> ignore]
Span(a, b, p) == [from |-> a, to |-> b, payload |-> p]
Effort == {<<"effort">>}
Budget == {<<"temperature">>, <<"generationConfig", "budget">>}
MCNodesOf ==
    [c1 |-> (<<"openrouter">> :> Node(<<Span(1, 2, Effort)>>, <<{"temperature"}>>)) @@
            (<<"openrouter", "f">> :> Node(<<Span(2, 2, Budget)>>, None)) @@
            (<<"openrouter", "m">> :> Node(<<Span(1, 1, Budget), Span(1, 2, Effort)>>, <<{}>>)),
     c2 |-> (<<"openrouter", "f", "m">> :> Node(<<Span(2, 2, Budget)>>, None)) @@
            (<<"groq">> :> Node(<<Span(0, 0, Effort), Span(0, 2, Budget)>>, <<{"tools"}>>)) @@
            (<<"groq", "n">> :> Node(<<>>, <<{"temperature", "effort"}>>))]
MCModelNames ==
    [provider : {"none"}, family : {"none", "f"}, model : {"m"}, levels : {<<>>, <<0>>, <<1>>, <<2>>}]
        \cup [provider : {"none", "groq"}, family : {"f"}, model : {"n"},
              levels : {<<0, 0>>, <<1, 2>>, <<2>>}]
RoutingSetup(names, defCount, loaded, priceCount, cards) ==
    [names |-> names, defs |-> defCount, loaded |-> loaded, prices |-> priceCount,
     cards |-> cards]
MCRoutingSetups ==
    {RoutingSetup(MCModelNames, 2, TRUE, 0, FALSE),
     RoutingSetup({n \in MCModelNames : n.model = "m" /\ n.levels = <<>>}, 1, FALSE, 3, FALSE),
     RoutingSetup({}, 0, FALSE, 0, TRUE)}

(* ToolScope: tools named f, g and h of the receiver (a..), of the donor    *)
(* (d..) and of the registry (s..).                                         *)
Tool(n, isSystem, target, hidden) ==
    [name |-> n, system |-> isSystem, target |-> target, hidden |-> hidden]
MCToolInfo ==
    [af |-> Tool("f", FALSE, "any", FALSE), ag |-> Tool("g", FALSE, "any", FALSE),
     ah |-> Tool("h", TRUE, "dialog", FALSE), df |-> Tool("f", FALSE, "any", FALSE),
     dg |-> Tool("g", FALSE, "any", TRUE), sf |-> Tool("f", TRUE, "direct", FALSE),
     sf2 |-> Tool("f", TRUE, "dialog", FALSE), sg |-> Tool("g", TRUE, "any", FALSE),
     sh |-> Tool("h", TRUE, "any", TRUE)]
Part(m, n) == [mark |-> m, names |-> n]
MCScopes ==
    {<<>>, <<Part("?", <<>>)>>} \cup
    {c \o l : c \in {<<>>} \cup {<<Part("category", <<k>>)>> :
                                    k \in {"SYSTEM", "APPLICATION", "ALL", "other"}},
              l \in {<<>>, <<Part("+", <<"f">>)>>, <<Part("-", <<"f">>)>>,
                     <<Part("-", <<"g">>), Part("+", <<"f", "g">>)>>,
                     <<Part("+", <<"h">>), Part("-", <<"h">>), Part("+", <<"f">>)>>}}
MCToolSetups ==
    [receiver : {<<>>, <<"af">>, <<"ag", "af">>, <<"ah", "ag">>, <<"sg", "af">>},
     donor : {<<>>, <<"df", "ag">>, <<"dg">>, <<"ah", "sf">>},
     registry : {<<>>, <<"sf", "sf2", "sg", "sh">>, <<"sh", "sg", "ah", "sf2", "sf">>},
     style : {"any", "dialog", "direct"}, scope : MCScopes]

FrozenHistory == subject = "history" \/ def = Def("PLAIN", <<>>, 1, 0, 1, 2, TRUE)
FrozenDifficulty == subject = "difficulty" \/ job = DiffSetup(1, <<>>, {}, [self |-> <<1, 3>>], 0, 1)
FrozenRouting ==
    subject = "routing"
        \/ (routing.names = {} /\ file = Absent /\ snapshots = <<>>)
FrozenTools ==
    subject = "tools"
        \/ toolbox = [receiver |-> <<>>, donor |-> <<>>, registry |-> <<>>,
                      style |-> "dialog", scope |-> <<>>]
RequestsInit ==
    /\ subject \in Subjects
    /\ Init /\ FrozenHistory
    /\ DiffInit /\ FrozenDifficulty
    /\ WireInit
    /\ MrInit /\ FrozenRouting
    /\ TsInit /\ FrozenTools

Only(s) ==
    /\ subject = s /\ UNCHANGED subject
    /\ s # "history" => UNCHANGED vars
    /\ s # "difficulty" => UNCHANGED diffVars
    /\ s # "wire" => UNCHANGED talk
    /\ s # "routing" => UNCHANGED mrVars
    /\ s # "tools" => UNCHANGED tsVars
HistoryMoves == Only("history") /\ Next
DifficultyMoves == Only("difficulty") /\ DiffNext
WireMoves == Only("wire") /\ WireNext
RoutingMoves == Only("routing") /\ MrNext
ToolsMove == Only("tools") /\ TsNext
RequestsNext == HistoryMoves \/ DifficultyMoves \/ WireMoves \/ RoutingMoves \/ ToolsMove
RequestsSpec == RequestsInit /\ [][RequestsNext]_requestsVars

(* The type invariants of the modules.                                      *)
RequestsTypeOK == TypeOK /\ DiffTypeOK /\ WireTypeOK /\ RoutingTypeOK /\ ScopeTypeOK
=============================================================================
