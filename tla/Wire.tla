-------------------------------- MODULE Wire --------------------------------
(***************************************************************************)
(* What a provider is sent of a conversation (src/statek/llm_api.py): the  *)
(* OpenAI, Vertex AI and Claude messages built from the chat history, and  *)
(* the replies that are parsed back into it.  One job may change provider  *)
(* between two requests, since its model depends on its difficulty.        *)
(*                                                                         *)
(* Texts are numbers, 0 being an empty one; formatting by chat style is    *)
(* left out.  A reply is a sequence of blocks: thinking, text and tool use.*)
(***************************************************************************)
EXTENDS Positions, SequencesExt

CONSTANTS
    WireProviders,   (* names that requests are routed to                     *)
    FormatOf,        (* "openai", "vertex" or "claude", for each of them       *)
    CalledTools,     (* sequences of tool names that one reply may call        *)
    MaxItems         (* bound on the length of the history                     *)

ASSUME WireAssumption ==
    /\ MaxItems \in Nat
    /\ \A p \in WireProviders : FormatOf[p] \in {"openai", "vertex", "claude"}
    /\ \A tools \in CalledTools : tools \in Seq(STRING)

VARIABLE talk      (* the chat history: [role, text, calls, payload] *)

NoPayload == [provider |-> "none", format |-> "none", blocks |-> <<>>]
WireItem(role, text, calls, payload) ==
    [role |-> role, text |-> text, calls |-> calls, payload |-> payload]
Fresh(k) == Len(talk) + k      \* a text or an id not used so far

(***************************************************************************)
(* Parsing a reply.  Thinking blocks make the whole block sequence part of *)
(* the step, to be replayed; Vertex calls have an id only where the reply  *)
(* gives one.                                                              *)
(***************************************************************************)
Id(n) == [number |-> n, name |-> "none"]
IdIsName(tool) == [number |-> 0, name |-> tool]
Use(id, tool) == [type |-> "use", id |-> id, tool |-> tool, text |-> 0]
TextBlock(text) == [type |-> "text", id |-> Id(0), tool |-> "none", text |-> text]
ThinkBlock(text) == [type |-> "think", id |-> Id(0), tool |-> "none", text |-> text]

OfType(blocks, type) == {i \in DOMAIN blocks : blocks[i].type = type}
UsesOf(blocks) == Picked(blocks, OfType(blocks, "use"))
ParsedText(blocks) ==
    LET texts == OfType(blocks, "text")
    IN  IF texts = {} THEN 0 ELSE blocks[FirstOf(texts)].text
CallId(p, block, named) == IF FormatOf[p] = "vertex" /\ ~named THEN IdIsName(block.tool) ELSE block.id
ParsedCalls(p, blocks, named) ==
    [i \in DOMAIN UsesOf(blocks) |->
        [id |-> CallId(p, UsesOf(blocks)[i], named), tool |-> UsesOf(blocks)[i].tool]]
ReplayPayload(p, blocks) ==
    IF OfType(blocks, "think") # {}
    THEN [provider |-> p, format |-> FormatOf[p], blocks |-> blocks] ELSE NoPayload

WireInit == talk = <<>>

UserTalk ==
    \E t \in {0, Fresh(1)} : talk' = Append(talk, WireItem("user", t, <<>>, NoPayload))
(* A post-processor's message, a reminder or the notice of a sub-task.      *)
SystemItem ==
    talk' = Append(talk, WireItem("system", Fresh(1), <<>>, NoPayload))
(* A notification is rendered as a call that was already answered.          *)
NoticeItem ==
    LET call == <<[id |-> Id(Fresh(1)), tool |-> "notice"]>>
    IN  talk' = talk \o <<WireItem("assistant", 0, call, NoPayload),
                          WireItem("tool", Fresh(2), call, NoPayload)>>

(* An empty reply without a payload leaves no item; the results of the      *)
(* calls follow their reply.                                                *)
ReplyItems(p, blocks, named) ==
    LET calls == ParsedCalls(p, blocks, named)
        text == ParsedText(blocks)
        payload == ReplayPayload(p, blocks)
        results == [i \in DOMAIN calls |-> WireItem("tool", Fresh(10 + i), <<calls[i]>>, NoPayload)]
    IN  IF text = 0 /\ calls = <<>> /\ payload = NoPayload THEN <<>>
        ELSE <<WireItem("assistant", text, calls, payload)>> \o results
ReplyArrives ==
    \E p \in WireProviders, tools \in CalledTools, text \in BOOLEAN, thinks \in BOOLEAN,
       named \in BOOLEAN :
        LET blocks == (IF thinks THEN <<ThinkBlock(Fresh(2))>> ELSE <<>>)
                      \o (IF text THEN <<TextBlock(Fresh(1))>> ELSE <<>>)
                      \o [i \in DOMAIN tools |-> Use(Id(Fresh(20 + i)), tools[i])]
        IN  talk' = talk \o ReplyItems(p, blocks, named)

WireNext ==
    Len(talk) < MaxItems /\ (UserTalk \/ SystemItem \/ NoticeItem \/ ReplyArrives)

(***************************************************************************)
(* Building the messages: [role, blocks], where a tool result is a block    *)
(* [type, id, tool, text] like the others.                                  *)
(***************************************************************************)
Message(role, blocks) == [role |-> role, blocks |-> blocks]
Result(item) == [type |-> "result", id |-> item.calls[1].id, tool |-> item.calls[1].tool,
                 text |-> item.text]
Texts(item) == IF item.text = 0 THEN <<>> ELSE <<TextBlock(item.text)>>
Uses(item) == [i \in DOMAIN item.calls |-> Use(item.calls[i].id, item.calls[i].tool)]

(* _matching_reasoning_payload                                              *)
Matches(item, p) ==
    /\ item.payload # NoPayload
    /\ item.payload.provider = p /\ item.payload.format = FormatOf[p]

(* DefaultLLM_API_Impl.build_messages: the thinking is added to a message.  *)
Thinking(item) == Picked(item.payload.blocks, OfType(item.payload.blocks, "think"))
MessageUnlessEmpty(role, blocks) == IF blocks = <<>> THEN <<>> ELSE <<Message(role, blocks)>>
OpenAiMessage(item, p) ==
    LET extra == IF Matches(item, p) THEN Thinking(item) ELSE <<>>
    IN  CASE item.role \in {"system", "user"} -> <<Message(item.role, Texts(item))>>
          [] item.role = "tool" -> <<Message("tool", <<Result(item)>>)>>
          [] item.role = "assistant" ->
                MessageUnlessEmpty("assistant", extra \o Texts(item) \o Uses(item))
OpenAiMessages(p) == FlattenSeq([i \in DOMAIN talk |-> OpenAiMessage(talk[i], p)])

(* VertexAI_API.build_contents: a replayed payload takes the place of text  *)
(* and calls; system items and empty ones are skipped.                      *)
AssistantBlocks(item, p) ==
    IF Matches(item, p) THEN item.payload.blocks ELSE Texts(item) \o Uses(item)
VertexContent(item, p) ==
    CASE item.role = "system" -> <<>>
      [] item.role = "user" -> MessageUnlessEmpty("user", Texts(item))
      [] item.role = "tool" -> <<Message("function", <<Result(item)>>)>>
      [] item.role = "assistant" -> MessageUnlessEmpty("model", AssistantBlocks(item, p))
VertexContents(p) == FlattenSeq([i \in DOMAIN talk |-> VertexContent(talk[i], p)])

(***************************************************************************)
(* ClaudeAI_API.build_messages: consecutive tool items and a user item      *)
(* after them become one user message.                                      *)
(***************************************************************************)
Spoken == Picked(talk, {i \in DOMAIN talk : talk[i].role # "system"})
FirstOfBatch(i) == Spoken[i].role = "tool" /\ (i = 1 \/ Spoken[i - 1].role # "tool")
(* The last result, and the last item, of the batch that starts at i.       *)
LastResult(i) ==
    CHOOSE k \in i..Len(Spoken) :
        /\ \A n \in i..k : Spoken[n].role = "tool"
        /\ k = Len(Spoken) \/ Spoken[k + 1].role # "tool"
BatchEndIsLastResult(i) ==   \* mutated: the user item after the results is left out
    LastResult(i)
BatchEnd(i) ==
    LET last == LastResult(i)
    IN  IF last < Len(Spoken) /\ Spoken[last + 1].role = "user" THEN last + 1 ELSE last
BatchBlocks(i) ==
    FlattenSeq([n \in 1..BatchEnd(i) - i + 1 |->
        LET item == Spoken[i + n - 1]
        IN  IF item.role = "tool" THEN <<Result(item)>> ELSE Texts(item)])
ClaudeMessage(i, p) ==
    LET item == Spoken[i] IN
    CASE item.role = "tool" ->
            IF FirstOfBatch(i) THEN <<Message("user", BatchBlocks(i))>> ELSE <<>>
      [] item.role = "user" ->
            IF i > 1 /\ Spoken[i - 1].role = "tool" THEN <<>>
            ELSE MessageUnlessEmpty("user", Texts(item))
      [] item.role = "assistant" -> MessageUnlessEmpty("assistant", AssistantBlocks(item, p))
ClaudeMessages(p) == FlattenSeq([i \in DOMAIN Spoken |-> ClaudeMessage(i, p)])

Request(p) ==
    CASE FormatOf[p] = "openai" -> OpenAiMessages(p)
      [] FormatOf[p] = "vertex" -> VertexContents(p)
      [] FormatOf[p] = "claude" -> ClaudeMessages(p)

-----------------------------------------------------------------------------
Speaker(role) == CASE role \in {"assistant", "model"} -> "llm"
                   [] role = "system" -> "system" [] OTHER -> "user"
(* What was said: without thinking and system messages, and without ids, as *)
(* a replayed Vertex call may have none.                                    *)
Word(by, block) ==
    IF by = "system" \/ block.type = "think" THEN <<>>
    ELSE <<<<by, block.type, block.tool, block.text>>>>
Words(by, blocks) == FlattenSeq([k \in DOMAIN blocks |-> Word(by, blocks[k])])
Content(messages) ==
    FlattenSeq([i \in DOMAIN messages |-> Words(Speaker(messages[i].role), messages[i].blocks)])
BlocksOf(item) == IF item.role = "tool" THEN <<Result(item)>> ELSE Texts(item) \o Uses(item)
ContentOfTalk == FlattenSeq([i \in DOMAIN talk |-> Words(Speaker(talk[i].role), BlocksOf(talk[i]))])

WireTypeOK ==
    \A i \in DOMAIN talk :
        /\ talk[i].role \in {"system", "user", "assistant", "tool"} /\ talk[i].text \in Nat
        /\ talk[i].role = "tool" => Len(talk[i].calls) = 1
        /\ talk[i].role = "assistant" =>
               talk[i].text # 0 \/ talk[i].calls # <<>> \/ talk[i].payload # NoPayload

(* Every provider is sent the same conversation: what the user and the      *)
(* model said, the calls and their results, in the order of the history,    *)
(* also after the provider has changed.                                     *)
SameConversation == \A p \in WireProviders : Content(Request(p)) = ContentOfTalk

(* "The format Anthropic expects when reporting tool outputs": the message  *)
(* after one with tool uses starts with exactly their results, in order.    *)
ClaudeCallsAreAnswered ==
    \A p \in WireProviders : FormatOf[p] = "claude" =>
        LET m == Request(p) IN
        \A i \in DOMAIN m :
            LET uses == UsesOf(m[i].blocks) IN
            uses # <<>> =>
                /\ i < Len(m) /\ m[i + 1].role = "user" /\ Len(m[i + 1].blocks) >= Len(uses)
                /\ \A k \in DOMAIN uses : m[i + 1].blocks[k].type = "result"
                       /\ m[i + 1].blocks[k].tool = uses[k].tool

(* A continuation payload is returned only to the provider it came from,    *)
(* and there the reply is replayed with its thinking.                       *)
Thoughts(blocks) == {blocks[k].text : k \in OfType(blocks, "think")}
ThinkingStaysAtItsProvider ==
    \A p \in WireProviders :
        UNION {Thoughts(Request(p)[i].blocks) : i \in DOMAIN Request(p)}
          = UNION {Thoughts(talk[i].payload.blocks) :
                     i \in {k \in DOMAIN talk : talk[k].payload.provider = p}}

(* A conversation reaches whichever provider is asked next, in its format.  *)
ConversationArrives ==
    SameConversation /\ ClaudeCallsAreAnswered /\ ThinkingStaysAtItsProvider
=============================================================================
