------------------------------ MODULE ToolScope ------------------------------
(***************************************************************************)
(* Which tools a request offers to the LLM and which tool a call then runs: *)
(* LLM_TOOLS_SCOPE (llm_tools_scope.py), select_request_tools (llm_api.py), *)
(* the registry of tools (system.py), the tools of the receiver and of its  *)
(* donors (Job.get_resource_tools) and exec_tool (executors/utils.py).      *)
(*                                                                         *)
(* A tool is a member of Tools; two tools may have one name.  The text of   *)
(* LLM_TOOLS_SCOPE is a sequence of parts: a category first, or none, then  *)
(* lists of names to add or to remove.                                      *)
(***************************************************************************)
EXTENDS Positions, SequencesExt

CONSTANTS
    ToolInfo,      (* tool -> [name, system, target, hidden]                  *)
    ToolSetups     (* [receiver, donor, registry: Seq of tools; style, scope] *)

AnyStyle == "any"      \* None, as the target of a tool or the style of a job
Tools == DOMAIN ToolInfo
Marks == {"category", "+", "-", "?"}

ASSUME ToolAssumption ==
    /\ \A t \in Tools : ToolInfo[t].system \in BOOLEAN /\ ToolInfo[t].hidden \in BOOLEAN
    /\ "none" \notin Tools
    /\ \A s \in ToolSetups :
          /\ s.scope \in Seq(Range(s.scope))
          /\ \A i \in DOMAIN s.scope :
                s.scope[i].mark \in Marks /\ s.scope[i].names \in Seq(Range(s.scope[i].names))
          /\ {s.receiver, s.donor, s.registry} \subseteq Seq(Tools)
          /\ \A i \in DOMAIN s.registry : ToolInfo[s.registry[i]].system

VARIABLES
    toolbox,    \* the tools that exist, the chat style and the scope
    donorsOn,   \* whether the job's difficulty activates the donor
    offered,    \* the tools of the last request; NoOffer, NoTools or Raised
    ran         \* what the last call ran: [wanted, tool] or NotYetRun
tsVars == <<toolbox, donorsOn, offered, ran>>

NoOffer == [as |-> "nothing", tools |-> <<>>]     \* no request yet
NoTools == [as |-> "none", tools |-> <<>>]        \* a request without tools
Raised == [as |-> "raised", tools |-> <<>>]
NotYetRun == [wanted |-> "none", tool |-> "none"]

NameOf(t) == ToolInfo[t].name
NamesOf(q) == {NameOf(q[i]) : i \in DOMAIN q}
FirstNamed(q, n) == q[CHOOSE i \in DOMAIN q : NameOf(q[i]) = n
                        /\ \A k \in 1..i - 1 : NameOf(q[k]) # n]
(* What is in a set, and the first tool of each name.                      *)
Among(q, S) == Picked(q, {i \in DOMAIN q : q[i] \in S})
Deduped(q) == Picked(q, {i \in DOMAIN q : \A k \in 1..i - 1 : NameOf(q[k]) # NameOf(q[i])})

Shown == {t \in Tools : ~ToolInfo[t].hidden}
NotHidden(q) == Among(q, Shown)
InStyle(t, style) == style = AnyStyle \/ ToolInfo[t].target \in {AnyStyle, style}
OfStyle(style) == {t \in Tools : InStyle(t, style)}
OfCategory(category) ==
    {t \in Tools : CASE category = "SYSTEM" -> ToolInfo[t].system
                     [] category = "APPLICATION" -> ~ToolInfo[t].system
                     [] OTHER -> TRUE}
(* find_tools("SYSTEM", style): hidden tools and other styles are left out  *)
(* before names are.                                                        *)
FoundTools(style) == Deduped(Among(NotHidden(toolbox.registry), OfStyle(style)))

(* Job.get_resource_tools.                                                  *)
ResourceTools(donors) ==
    Deduped(toolbox.receiver \o IF donors THEN toolbox.donor ELSE <<>>)

(* parse_llm_tools_scope: the lists of one sign are appended.               *)
ScopeNames(mark) ==
    FlattenSeq([i \in DOMAIN toolbox.scope |->
                   IF toolbox.scope[i].mark = mark THEN toolbox.scope[i].names ELSE <<>>])
Category == IF toolbox.scope # <<>> /\ toolbox.scope[1].mark = "category"
            THEN toolbox.scope[1].names[1] ELSE "none"
WellFormed ==
    \A i \in DOMAIN toolbox.scope :
        \/ toolbox.scope[i].mark \in {"+", "-"}
        \/ i = 1 /\ Category \in {"SYSTEM", "APPLICATION", "ALL"}

(* _select_scope_category_tools: the agents' tools, then registered ones.   *)
CategoryTools(available) ==
    LET own == Among(Among(available, OfCategory(Category)), OfStyle(toolbox.style))
    IN  CASE Category = "none" -> <<>>
          [] Category \in {"SYSTEM", "ALL"} -> Deduped(own \o FoundTools(toolbox.style))
          [] OTHER -> own

(* _resolve_explicit_tool                                                   *)
Explicit(available) == available \o FoundTools(AnyStyle)
ResolvesTool(n, available) ==
    /\ n \in NamesOf(Explicit(available))
    /\ InStyle(FirstNamed(Explicit(available), n), toolbox.style)

(* _apply_explicit_scope_lists: additions, then removals, whatever their    *)
(* order in the text.                                                       *)
AddedTools(available) ==
    Deduped(CategoryTools(available) \o
            [i \in DOMAIN ScopeNames("+") |->
                FirstNamed(Explicit(available), ScopeNames("+")[i])])
MayRemove(available) ==
    \A n \in ToSet(ScopeNames("-")) :
        ResolvesTool(n, available) /\ n \in NamesOf(AddedTools(available))

(* select_request_tools                                                     *)
Selected(available) ==
    IF toolbox.scope = <<>> THEN NoTools
    ELSE IF ~WellFormed \/ (\E n \in ToSet(ScopeNames("+")) : ~ResolvesTool(n, available))
    THEN Raised
    ELSE IF ~MayRemove(available) THEN Raised
    ELSE [as |-> "tools",
          tools |-> Among(AddedTools(available),
                         {t \in Tools : NameOf(t) \notin ToSet(ScopeNames("-"))})]

TsInit ==
    /\ toolbox \in ToolSetups /\ donorsOn = FALSE
    /\ offered = NoOffer /\ ran = NotYetRun

(* Job._build_request_data: the tools of the agents at the difficulty of    *)
(* the request.                                                             *)
OfferTools ==
    /\ offered' = Selected(NotHidden(ResourceTools(donorsOn)))
    /\ ran' = NotYetRun /\ UNCHANGED <<toolbox, donorsOn>>

(* The difficulty rises, also between a request and the calls it answers.   *)
ActivateDonors ==
    /\ ~donorsOn /\ donorsOn' = TRUE /\ UNCHANGED <<toolbox, offered, ran>>

(* exec_tool: agents' tools by name, then registered system tools, hidden   *)
(* ones and those of other styles included.                                 *)
RegistryFirst(n, donors) ==    \* mutated: exec_tool asks the registry first
    LET own == ResourceTools(donors)
        found == Deduped(toolbox.registry)
    IN  IF n \in NamesOf(found) THEN FirstNamed(found, n)
        ELSE IF n \in NamesOf(own) THEN FirstNamed(own, n) ELSE "none"
CalledTool(n, donors) ==
    LET own == ResourceTools(donors)
        found == Deduped(toolbox.registry)
    IN  IF n \in NamesOf(own) THEN FirstNamed(own, n)
        ELSE IF n \in NamesOf(found) THEN FirstNamed(found, n) ELSE "none"
(* _is_hidden_tool_call, where there is a sandbox policy.                   *)
Refused(t) == t # "none" /\ ToolInfo[t].hidden
Call(t, donors) ==
    LET called == CalledTool(NameOf(t), donors) IN
    [wanted |-> t, tool |-> IF Refused(called) THEN "none" ELSE called]
CallTool ==
    /\ offered.as = "tools" /\ ran = NotYetRun
    /\ \E t \in ToSet(offered.tools) : ran' = Call(t, donorsOn)
    /\ UNCHANGED <<toolbox, donorsOn, offered>>

TsNext == OfferTools \/ ActivateDonors \/ CallTool
TsSpec == TsInit /\ [][TsNext]_tsVars

-----------------------------------------------------------------------------
(* Types; no request offers one name twice, a hidden tool or a tool of      *)
(* another chat style, from wherever it was collected.                      *)
ScopeTypeOK ==
    /\ offered.as \in {"nothing", "none", "raised", "tools"}
    /\ IsInjective([i \in DOMAIN offered.tools |-> NameOf(offered.tools[i])])
    /\ \A t \in ToSet(offered.tools) :
          ~ToolInfo[t].hidden /\ InStyle(t, toolbox.style)

(* A scope means a set of names, whatever the order of its lists and        *)
(* whoever has the tools: the names of the category and the added ones, but *)
(* not the removed ones, each of which had to be there.                     *)
ScopeMeansItsSets ==
    offered.as = "tools" =>
        LET reach(donors) ==
                ToSet(NotHidden(ResourceTools(donors)))
            ofRegistry == {t \in ToSet(toolbox.registry) :
                              ~ToolInfo[t].hidden /\ InStyle(t, toolbox.style)}
            own(donors) == {t \in reach(donors) : InStyle(t, toolbox.style)}
            inCategory(donors) ==
                CASE Category = "APPLICATION" -> {t \in own(donors) : ~ToolInfo[t].system}
                  [] Category = "SYSTEM" -> {t \in own(donors) : ToolInfo[t].system} \cup ofRegistry
                  [] Category = "ALL" -> own(donors) \cup ofRegistry
                  [] OTHER -> {}
            names(donors) == {NameOf(t) : t \in inCategory(donors)} \cup ToSet(ScopeNames("+"))
            removed == ToSet(ScopeNames("-"))
        IN  \E donors \in {FALSE, donorsOn} :
                /\ removed \subseteq names(donors)
                /\ NamesOf(offered.tools) = names(donors) \ removed

(* A call runs the very tool that was offered by that name, also after the  *)
(* job rose to a difficulty with more donors, unless the request had left   *)
(* out a tool of that name: one that is hidden, of another style or outside *)
(* the category, or a donor's that was not active yet.                      *)
OfferedToolRuns ==
    ran # NotYetRun /\ ran.tool # ran.wanted =>
        \E t \in ToSet(toolbox.receiver \o toolbox.donor \o toolbox.registry) :
            /\ NameOf(t) = NameOf(ran.wanted) /\ t # ran.wanted
            /\ \/ ToolInfo[t].hidden \/ ~InStyle(t, toolbox.style)
               \/ ToolInfo[t].system /\ Category \in {"APPLICATION", "none"}
               \/ ~ToolInfo[t].system /\ Category = "SYSTEM"
               \/ ToolInfo[ran.wanted].system /\ t \in ToSet(toolbox.donor)

(* The LLM is offered what the scope says and gets what it was offered.      *)
ToolsAreAsScoped == ScopeMeansItsSets /\ OfferedToolRuns
=============================================================================
