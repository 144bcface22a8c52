------------------------- MODULE JobHistory_proofs -------------------------
(***************************************************************************)
(* Proofs about JobHistory.  Every step of the program only adds to the     *)
(* log, the console and the push log, or fills in results of the last turn: *)
(* the properties follow from that.                                         *)
(***************************************************************************)
EXTENDS JobHistory, SequenceLemmas

Kinds == BoundaryKinds \cup {"user", "difficulty"}
TurnKinds == {"warmup", "llm"}
Idle == {"user", "difficulty"}       \* items that end no output
Results == Seq({"empty", "ok", "error"})
ReplyRecords == [text : {"none", "empty", "code", "blank", "dialog"}, calls : Nat, payload : BOOLEAN]
Items == [kind : Kinds, pos : Nat, id : Nat, reply : ReplyRecords, results : Results]
Lines == [by : Nat, error : {"none", "execution", "harness"}]
Answers(item) == item.reply.text = "none" => item.reply.calls = 0
JhTypes ==
    /\ def \in JobDefs /\ phase \in Phases /\ block \in Nat
    /\ log \in Seq(Items) /\ pending \in Seq(Items)
    /\ \A i \in DOMAIN pending : pending[i].kind \in {"note", "subtask"} /\ Answers(pending[i])
    /\ console \in Seq(Lines) /\ pushes \in Seq([at : Nat, msg : Nat])
    /\ sent \in Seq(Range(sent))

(* The block that runs is that of the last turn, and no other has begun.    *)
HasBlock(item) == item.kind = "warmup" => item.id + 1 \in DOMAIN def.warmup
Runs(b) == b \in Turns /\ \A i \in DOMAIN log : i > b => log[i].kind \in Idle
BlockInv ==
    /\ block <= Len(def.warmup)
    /\ phase \in {"ready", "warming"} => block < Len(def.warmup)
    /\ phase \in {"warming", "running"} => \E b \in Turns : Runs(b)
    /\ \A i \in DOMAIN log : HasBlock(log[i]) /\ Answers(log[i])

(* What a step adds.                                                        *)
NewItem(item) ==
    /\ item \in Items /\ HasBlock(item) /\ Answers(item)
    /\ IF item.kind = "user" THEN item.pos = 0 /\ item.id = Arrived + 1 /\ IsDialog
       ELSE item.pos = Len(console)
Same(item, other) ==
    /\ other.kind = item.kind /\ other.pos = item.pos /\ other.id = item.id
    /\ other.reply = item.reply
    /\ other.results = item.results \/ item.kind \in TurnKinds
LogGrows ==
    /\ log' \in Seq(Items) /\ Len(log) <= Len(log')
    /\ \A i \in 1..Len(log) : Same(log[i], log'[i])
    /\ \A i \in Len(log) + 1..Len(log') :
          /\ NewItem(log'[i])
          /\ log'[i].kind = "user" => i = Len(log) + 1 /\ pushes' = pushes /\ console' = console

LEMMA OwnRange == ASSUME NEW T, NEW q \in Seq(T) PROVE q \in Seq(Range(q))
<1>1. q = [i \in 1..Len(q) |-> q[i]] /\ Len(q) \in Nat
  OBVIOUS
<1>2. \A i \in 1..Len(q) : q[i] \in Range(q)
  BY DEF Range
<1> QED
  BY <1>1, <1>2

LEMMA LastOfIs ==
    ASSUME NEW n \in Nat, NEW at, at \subseteq 1..n, at # {}
    PROVE  LastOf(at) \in at /\ \A k \in at : k <= LastOf(at)
<1>1. at \subseteq 0..n
  OBVIOUS
<1>2. \E i \in at : \A k \in at : k <= i
  BY <1>1, GreatestNumber
<1> QED
  BY <1>2 DEF LastOf

LEMMA ItemMade ==
    ASSUME NEW kind \in Kinds, NEW pos \in Nat, NEW id \in Nat, NEW reply \in ReplyRecords,
           NEW results \in Results, NEW item, item = Item(kind, pos, id, reply, results)
    PROVE  /\ item \in Items /\ item.kind = kind /\ item.pos = pos /\ item.id = id
           /\ item.reply = reply /\ item.results = results
<1> HIDE DEF Results, ReplyRecords, Kinds
<1> QED
  BY DEF Item, Items

(* What is appended.                                                        *)
LEMMA Appended ==
    ASSUME JhTypes, NEW more \in Seq(Items), log' = log \o more,
           \A i \in 1..Len(more) : /\ NewItem(more[i])
                                   /\ more[i].kind = "user" => i = 1 /\ pushes' = pushes /\ console' = console
    PROVE  LogGrows /\ Len(log') = Len(log) + Len(more)
<1>1. log \in Seq(Items) /\ Len(log) \in Nat /\ Len(more) \in Nat
  BY DEF JhTypes
<1>2. PICK q : q = log \o more
  OBVIOUS
<1> HIDE DEF Items
<1>3. /\ q \in Seq(Items) /\ Len(q) = Len(log) + Len(more)
      /\ \A i \in 1..Len(log) : q[i] = log[i]
      /\ \A i \in Len(log) + 1..Len(log) + Len(more) : q[i] = more[i - Len(log)]
  BY <1>1, <1>2, ConcatProperties
<1>4. \A i \in 1..Len(log) : Same(log[i], q[i])
  BY <1>3 DEF Same
<1>5. ASSUME NEW i \in Len(log) + 1..Len(q)
      PROVE  NewItem(q[i]) /\ (q[i].kind = "user" => i = Len(log) + 1 /\ pushes' = pushes /\ console' = console)
  <2>1. PICK k \in 1..Len(more) : k = i - Len(log) /\ (k = 1 => i = Len(log) + 1)
    BY <1>1, <1>3
  <2>2. q[i] = more[k]
    BY <1>3, <2>1
  <2> QED
    BY <2>1, <2>2
<1> QED
  BY <1>1, <1>2, <1>3, <1>4, <1>5 DEF LogGrows

LEMMA Unchanged == ASSUME JhTypes, UNCHANGED log PROVE LogGrows
<1>1. log \in Seq(Items) /\ Len(log) \in Nat /\ \A i \in 1..Len(log) : Same(log[i], log'[i])
  BY DEF JhTypes, Same
<1> HIDE DEF Items
<1> QED
  BY <1>1 DEF LogGrows

LEMMA AppendedOne ==
    ASSUME JhTypes, NEW item, NewItem(item), log' = Append(log, item),
           item.kind = "user" => pushes' = pushes /\ console' = console
    PROVE  LogGrows /\ Len(log') = Len(log) + 1 /\ log'[Len(log) + 1] = item
<1>1. item \in Items /\ log \in Seq(Items)
  BY DEF NewItem, JhTypes
<1>2. <<item>> \in Seq(Items) /\ Len(<<item>>) = 1 /\ \A i \in 1..1 : i = 1 /\ <<item>>[i] = item
  BY <1>1
<1>3. Append(log, item) = log \o <<item>> /\ Append(log, item)[Len(log) + 1] = item
  <2> HIDE DEF Items
  <2> QED
    BY <1>1
<1> HIDE DEF Items
<1> QED
  BY <1>2, <1>3, Appended

LEMMA DrainedItems ==
    ASSUME JhTypes
    PROVE  LET more == [k \in DOMAIN pending |-> [pending[k] EXCEPT !.pos = Len(console)]]
           IN  more \in Seq(Items) /\ \A i \in 1..Len(more) : NewItem(more[i]) /\ more[i].kind \notin TurnKinds \cup Idle
<1> DEFINE more == [k \in DOMAIN pending |-> [pending[k] EXCEPT !.pos = Len(console)]]
<1>1. pending \in Seq(Items) /\ Len(pending) \in Nat /\ DOMAIN pending = 1..Len(pending) /\ Len(console) \in Nat
  BY DEF JhTypes
<1>2. ASSUME NEW k \in 1..Len(pending)
      PROVE  NewItem(more[k]) /\ more[k].kind \notin TurnKinds \cup Idle
  <2>1. PICK item : item = pending[k]
    OBVIOUS
  <2>2. PICK pos : pos = Len(console)
    OBVIOUS
  <2>3. item \in Items /\ pos \in Nat
    <3> HIDE DEF Items
    <3> QED
      BY <1>1, <2>1, <2>2
  <2>8. item.kind \in {"note", "subtask"} /\ Answers(item)
    BY <1>1, <2>1 DEF JhTypes
  <2>4. PICK drained : drained = [item EXCEPT !.pos = pos]
    OBVIOUS
  <2>5. drained \in Items /\ drained.pos = pos /\ drained.kind = item.kind /\ drained.reply = item.reply
    BY <2>3, <2>4 DEF Items
  <2>6. more[k] = drained
    BY <1>1, <2>1, <2>2, <2>4
  <2> HIDE DEF more
  <2> QED
    BY <2>2, <2>5, <2>6, <2>8 DEF NewItem, HasBlock, Answers, TurnKinds, Idle
<1>3. DOMAIN more = 1..Len(pending) /\ \A k \in 1..Len(pending) : more[k] \in Items
  BY <1>1, <1>2 DEF NewItem
<1>4. more = [k \in 1..Len(pending) |-> more[k]]
  BY <1>1
<1> HIDE DEF more
<1>5. more \in Seq(Items) /\ Len(more) = Len(pending)
  <2> HIDE DEF Items
  <2> QED
    BY <1>1, <1>3, <1>4
<1> QED
  BY <1>2, <1>5 DEF more

-----------------------------------------------------------------------------
(* Every step keeps to this shape.                                          *)
PrintedBy(by, error) ==
    /\ by \in DOMAIN log' /\ \A i \in DOMAIN log' : i > by => log'[i].kind \in Idle
    /\ log'[by].kind \in TurnKinds \/ (log'[by].kind = "reminder" /\ error = "none")
    /\ \E k \in DOMAIN log' : k <= by /\ log'[k].kind \in TurnKinds
ConsoleGrows ==
    \/ console' = console
    \/ \E line \in Lines : /\ console' = Append(console, line)
                           /\ line.by # 0 => PrintedBy(line.by, line.error)
PushesGrow ==
    \/ pushes' = pushes
    \/ /\ ~IsDialog /\ console' = console
       /\ pushes' = Append(pushes, [at |-> Len(console), msg |-> Arrived + 1])
Shape == LogGrows /\ ConsoleGrows /\ PushesGrow /\ def' = def
Control ==
    /\ phase' \in Phases /\ block' \in Nat /\ block' <= Len(def.warmup)
    /\ pending' \in Seq(Items)
    /\ \A i \in DOMAIN pending' : pending'[i].kind \in {"note", "subtask"} /\ Answers(pending'[i])
    /\ sent' \in Seq(Range(sent'))
    /\ phase' \in {"ready", "warming"} => block' < Len(def.warmup)
    /\ phase' \in {"warming", "running"} => \E b \in DOMAIN log' : Runs(b)'

LEMMA Sizes ==
    ASSUME JhTypes
    PROVE  /\ Len(log) \in Nat /\ DOMAIN log = 1..Len(log) /\ Len(console) \in Nat
           /\ Len(pushes) \in Nat /\ Len(def.warmup) \in Nat /\ Len(sent) \in Nat
           /\ \A i \in DOMAIN log : log[i] \in Items
           /\ Turns \subseteq 1..Len(log) /\ Conversation \subseteq 1..Len(log)
           /\ def.warmup \in Seq([hidden : BOOLEAN, calls : Nat, text : {"code"}])
           /\ def.style \in {"DIRECT", "MD_DIALOG", "PLAIN"}
<1>1. log \in Seq(Items) /\ def \in JobDefs
  BY DEF JhTypes
<1>2. \A i \in DOMAIN log : log[i] \in Items
  <2> HIDE DEF Items
  <2> QED
    BY <1>1
<1>3. def.warmup \in Seq([hidden : BOOLEAN, calls : Nat, text : {"code"}]) /\ Len(def.warmup) \in Nat
  BY <1>1, HistoryAssumption
<1>4. def.style \in {"DIRECT", "MD_DIALOG", "PLAIN"}
  BY <1>1, HistoryAssumption
<1> QED
  BY <1>2, <1>3, <1>4 DEF JhTypes, Turns, Conversation

LEMMA ExecIs == ASSUME JhTypes, NEW b, Runs(b) PROVE Exec = b /\ b \in Turns
<1>1. Turns \subseteq 1..Len(log) /\ Len(log) \in Nat /\ b \in Turns
  BY Sizes DEF Runs
<1>2. Exec \in Turns /\ \A k \in Turns : k <= Exec
  BY <1>1, LastOfIs DEF Exec
<1>3. ~(Exec > b)
  BY <1>2 DEF Runs, Turns, Idle
<1> QED
  BY <1>1, <1>2, <1>3

LEMMA RunsKept ==
    ASSUME JhTypes, LogGrows, NEW b, Runs(b),
           \A i \in Len(log) + 1..Len(log') : log'[i].kind \in Idle
    PROVE  b \in DOMAIN log' /\ Runs(b)'
<1>1. /\ Len(log) \in Nat /\ DOMAIN log = 1..Len(log) /\ Len(log') \in Nat
      /\ DOMAIN log' = 1..Len(log') /\ Len(log) <= Len(log')
  BY Sizes DEF LogGrows
<1>2. \A i \in 1..Len(log) : log'[i].kind = log[i].kind
  BY DEF LogGrows, Same
<1>3. b \in 1..Len(log) /\ log[b].kind \in TurnKinds
  BY <1>1 DEF Runs, Turns, TurnKinds
<1>4. b \in Turns'
  BY <1>1, <1>2, <1>3 DEF Turns, TurnKinds
<1>5. ASSUME NEW i \in 1..Len(log'), i > b PROVE log'[i].kind \in Idle
  <2>1. CASE i <= Len(log)
    BY <1>1, <1>2, <1>5, <2>1 DEF Runs
  <2>2. CASE i > Len(log)
    BY <1>1, <2>2
  <2> QED
    BY <1>1, <2>1, <2>2
<1> QED
  BY <1>1, <1>3, <1>4, <1>5 DEF Runs

LEMMA PrintsGrow ==
    ASSUME JhTypes, NEW by \in Nat, NEW error \in {"none", "execution", "harness"}, Prints(by, error),
           by # 0 => PrintedBy(by, error)
    PROVE  ConsoleGrows
<1>1. PICK line : line = Line(by, error)
  OBVIOUS
<1>2. line \in Lines /\ line.by = by /\ line.error = error
  BY <1>1 DEF Line, Lines
<1> QED
  BY <1>1, <1>2 DEF ConsoleGrows, Prints

(* The item a step appends, other than a reply and a message of a user.     *)
LEMMA PlainItem ==
    ASSUME JhTypes, NEW kind \in Kinds \ {"user", "warmup"}, NEW id \in Nat
    PROVE  NewItem(Plain(kind, id)) /\ Plain(kind, id).kind = kind /\ Plain(kind, id) \in Items
<1>1. PICK pos \in Nat : pos = Len(console)
  BY Sizes
<1>2. PICK item : item = Item(kind, pos, id, NoReply, <<>>)
  OBVIOUS
<1>3. NoReply \in ReplyRecords /\ <<>> \in Results /\ NoReply.calls = 0
  BY DEF NoReply, ReplyRecords, Results
<1>4. item \in Items /\ item.kind = kind /\ item.pos = pos /\ item.reply = NoReply
  BY <1>2, <1>3, ItemMade
<1>5. item = Plain(kind, id)
  BY <1>1, <1>2 DEF Plain
<1> HIDE DEF Items
<1> QED
  BY <1>1, <1>3, <1>4, <1>5 DEF NewItem, HasBlock, Answers

LEMMA CommittedItem ==
    ASSUME JhTypes, NEW r \in Replies
    PROVE  LET item == [Plain("llm", Len(sent)) EXCEPT !.reply = Stored(r)]
           IN  NewItem(item) /\ item.kind = "llm" /\ Stored(r) \in ReplyRecords
<1>1. PICK pos \in Nat, id \in Nat : pos = Len(console) /\ id = Len(sent)
  BY Sizes
<1>2. PICK reply : reply = Stored(r)
  OBVIOUS
<1>3. r \in [text : {"code", "blank", "dialog"}, calls : Nat, payload : BOOLEAN]
  BY HistoryAssumption
<1>4. reply \in ReplyRecords /\ (reply.text = "none" => reply.calls = 0)
  BY <1>2, <1>3 DEF Stored, ReplyRecords
<1>5. <<>> \in Results /\ "llm" \in Kinds
  BY DEF Results, Kinds, BoundaryKinds
<1>6. PICK item : item = Item("llm", pos, id, reply, <<>>)
  OBVIOUS
<1>7. item \in Items /\ item.kind = "llm" /\ item.pos = pos /\ item.reply = reply
  BY <1>4, <1>5, <1>6, ItemMade
<1>8. item = [Plain("llm", Len(sent)) EXCEPT !.reply = Stored(r)]
  BY <1>1, <1>2, <1>6 DEF Plain, Item
<1> HIDE DEF Items
<1> QED
  BY <1>1, <1>2, <1>4, <1>7, <1>8 DEF NewItem, HasBlock, Answers

LEMMA ExecRuns ==
    ASSUME JhTypes, BlockInv, phase \in {"warming", "running"}
    PROVE  Runs(Exec) /\ Exec \in Nat /\ Exec \in 1..Len(log)
<1>1. PICK b \in Turns : Runs(b)
  BY DEF BlockInv
<1> QED
  BY <1>1, ExecIs, Sizes

LEMMA StillRuns ==
    ASSUME JhTypes, UNCHANGED log, NEW b, Runs(b)
    PROVE  b \in DOMAIN log' /\ Runs(b)' /\ \A error : PrintedBy(b, error)
<1>1. LogGrows
  BY Unchanged
<1>2. ~(\E i : i \in Len(log) + 1..Len(log'))
  BY Sizes
<1>3. b \in DOMAIN log' /\ Runs(b)'
  BY <1>1, <1>2, RunsKept
<1>4. log'[b].kind \in TurnKinds /\ b \in Nat /\ \A i \in DOMAIN log' : i > b => log'[i].kind \in Idle
  BY Sizes DEF Runs, Turns, TurnKinds
<1>5. b \in DOMAIN log' /\ b <= b
  BY <1>3, <1>4
<1> QED
  BY <1>3, <1>4, <1>5 DEF PrintedBy

(* pending and sent, where a step leaves them alone.                        *)
LEMMA QueueKept ==
    ASSUME JhTypes, UNCHANGED <<pending, sent>>
    PROVE  /\ pending' \in Seq(Items) /\ sent' \in Seq(Range(sent'))
           /\ \A i \in DOMAIN pending' : pending'[i].kind \in {"note", "subtask"} /\ Answers(pending'[i])
  BY DEF JhTypes

LEMMA WarmupBlock ==
    ASSUME JhTypes, NEW k \in 1..Len(def.warmup)
    PROVE  def.warmup[k].calls \in Nat /\ def.warmup[k].hidden \in BOOLEAN /\ def.warmup[k].text = "code"
<1> DEFINE Blocks == [hidden : BOOLEAN, calls : Nat, text : {"code"}]
<1>1. def.warmup \in Seq(Blocks)
  BY Sizes
<1>2. PICK w : w = def.warmup[k]
  OBVIOUS
<1>3. w \in Blocks
  <2> HIDE DEF Blocks
  <2> QED
    BY <1>1, <1>2
<1> QED
  BY <1>2, <1>3

LEMMA BeginWarmupShape == ASSUME JhTypes, BlockInv, BeginWarmup PROVE Shape /\ Control
<1>1. PICK again \in BOOLEAN : again = (\E i \in DOMAIN log : log[i].kind = "warmup" /\ log[i].id = block)
  OBVIOUS
<1>2. block + 1 \in 1..Len(def.warmup) /\ block \in Nat /\ def.warmup[block + 1].calls \in Nat
  <2>1. block \in Nat /\ block < Len(def.warmup) /\ Len(def.warmup) \in Nat
    BY Sizes DEF BeginWarmup, BlockInv, JhTypes
  <2>2. block + 1 \in 1..Len(def.warmup)
    BY <2>1
  <2> QED
    BY <2>1, <2>2, WarmupBlock
<1>3. PICK results : results = IF again THEN <<>> ELSE Empty(def.warmup[block + 1].calls)
  OBVIOUS
<1>4. results \in Results
  BY <1>2, <1>3 DEF Empty, Results
<1>5. PICK pos \in Nat : pos = Len(console)
  BY Sizes
<1>6. PICK item : item = Item("warmup", pos, block, NoReply, results)
  OBVIOUS
<1>7. NoReply \in ReplyRecords /\ NoReply.calls = 0 /\ "warmup" \in Kinds
  BY DEF NoReply, ReplyRecords, Kinds, BoundaryKinds
<1>8. /\ item \in Items /\ item.kind = "warmup" /\ item.pos = pos /\ item.id = block
      /\ item.reply = NoReply
  BY <1>2, <1>4, <1>6, <1>7, ItemMade
<1>9. log' = Append(log, item)
  BY <1>1, <1>3, <1>5, <1>6 DEF BeginWarmup, Plain, Item
<1>10. NewItem(item)
  <2> HIDE DEF Items
  <2> QED
    BY <1>2, <1>5, <1>7, <1>8, Sizes DEF NewItem, HasBlock, Answers
<1>11. LogGrows /\ Len(log') = Len(log) + 1 /\ log'[Len(log) + 1] = item
  BY <1>8, <1>9, <1>10, AppendedOne
<1>12. \E b \in DOMAIN log' : Runs(b)'
  <2>1. DOMAIN log' = 1..Len(log') /\ Len(log) \in Nat
    BY <1>11, Sizes DEF LogGrows
  <2>2. PICK n \in Nat : n = Len(log) + 1
    BY <2>1
  <2>3. n \in DOMAIN log' /\ log'[n].kind = "warmup" /\ DOMAIN log' = 1..n
    BY <1>8, <1>11, <2>1, <2>2
  <2>4. ~(\E i \in DOMAIN log' : i > n)
    BY <2>3
  <2>5. Runs(n)'
    BY <2>3, <2>4 DEF Runs, Turns
  <2> QED
    BY <2>3, <2>5
<1>13. Shape
  BY <1>11 DEF Shape, ConsoleGrows, PushesGrow, BeginWarmup
<1>14. phase' = "warming" /\ block' = block /\ UNCHANGED <<pending, sent>>
  BY DEF BeginWarmup
<1> QED
  BY <1>2, <1>12, <1>13, <1>14, QueueKept, Sizes DEF Control, Phases, BlockInv

LEMMA BeginReplyShape == ASSUME JhTypes, BlockInv, BeginReply PROVE Shape /\ Control
<1>1. PICK runs \in BOOLEAN : runs = (Conversation # {} /\ Concrete(LastItem))
  OBVIOUS
<1>2. PICK nothing \in BOOLEAN : nothing = (runs /\ Calls(LastItem) = 0 /\ def.style # "DIRECT"
                                          /\ LastItem.reply.text # "code")
  OBVIOUS
<1>3. ASSUME runs = TRUE PROVE Runs(Exec) /\ Exec \in 1..Len(log) /\ Exec \in Nat
  <2>1. LastOf(Conversation) \in Conversation /\ \A k \in Conversation : k <= LastOf(Conversation)
    BY <1>1, <1>3, Sizes, LastOfIs
  <2>2. PICK b \in 1..Len(log) : b = LastOf(Conversation)
    BY <2>1, Sizes
  <2>3. b \in Turns
    BY <1>1, <1>3, <2>2, Sizes DEF LastItem, Concrete, Turns
  <2>4. ASSUME NEW i \in DOMAIN log, i > b PROVE log[i].kind \in Idle
    <3>1. i \notin Conversation
      BY <2>1, <2>2, <2>4, Sizes
    <3> QED
      BY <3>1 DEF Conversation, Idle
  <2>5. Runs(b)
    BY <2>3, <2>4 DEF Runs
  <2> QED
    BY <2>2, <2>5, ExecIs, Sizes
<1>4. /\ phase' = IF runs /\ ~nothing THEN "running" ELSE "request"
      /\ IF nothing THEN Prints(Exec, "execution") ELSE UNCHANGED console
      /\ log' = IF runs /\ ~nothing /\ phase = "replied"
                THEN [log EXCEPT ![Exec].results = Empty(Calls(log[Exec]))] ELSE log
      /\ UNCHANGED <<def, pending, block, pushes, sent>>
  BY <1>1, <1>2 DEF BeginReply
<1>5. ASSUME runs /\ ~nothing /\ phase = "replied"
      PROVE  LogGrows /\ \E b \in DOMAIN log' : Runs(b)'
  <2>1. PICK b \in 1..Len(log) : b = Exec /\ Runs(b) /\ b \in Turns
    BY <1>3, <1>5 DEF Runs
  <2>2. PICK item \in Items : item = log[b]
    BY <2>1, Sizes
  <2>3. Calls(item) \in Nat
    <3>1. CASE item.kind = "warmup"
      <4>1. item.id + 1 \in DOMAIN def.warmup
        BY <2>1, <2>2, <3>1, Sizes DEF BlockInv, HasBlock
      <4> QED
        BY <3>1, <4>1, WarmupBlock, Sizes DEF Calls, Block
    <3>2. CASE item.kind # "warmup"
      <4>1. PICK reply \in ReplyRecords : reply = item.reply
        BY DEF Items
      <4>2. reply.calls \in Nat
        BY DEF ReplyRecords
      <4> QED
        BY <3>2, <4>1, <4>2 DEF Calls, Block
    <3> QED
      BY <3>1, <3>2
  <2>4. PICK results \in Results : results = Empty(Calls(item))
    <3>1. PICK n \in Nat : n = Calls(item)
      BY <2>3
    <3>2. Empty(n) \in Results
      BY DEF Empty, Results
    <3> QED
      BY <3>1, <3>2
  <2>5. PICK item2 : item2 = [item EXCEPT !.results = results]
    OBVIOUS
  <2>6. item2 \in Items /\ Same(item, item2)
    BY <2>1, <2>2, <2>4, <2>5 DEF Items, Same, Turns, TurnKinds
  <2>7. log' = [log EXCEPT ![b] = item2]
    BY <1>4, <1>5, <2>1, <2>2, <2>4, <2>5
  <2>8. /\ log' \in Seq(Items) /\ Len(log') = Len(log) /\ log'[b] = item2
        /\ \A i \in 1..Len(log) : i # b => log'[i] = log[i]
    <3> HIDE DEF Items
    <3> QED
      BY <2>1, <2>6, <2>7 DEF JhTypes
  <2>9. \A i \in 1..Len(log) : Same(log[i], log'[i])
    BY <2>2, <2>6, <2>8 DEF Same
  <2>10. LogGrows /\ ~(\E i : i \in Len(log) + 1..Len(log'))
    BY <2>8, <2>9, Sizes DEF LogGrows
  <2> QED
    BY <2>1, <2>10, RunsKept
<1>6. ASSUME ~(runs /\ ~nothing /\ phase = "replied")
      PROVE  UNCHANGED log /\ LogGrows
  BY <1>4, <1>6, Unchanged
<1>7. ConsoleGrows
  <2>1. CASE nothing
    <3>1. UNCHANGED log /\ runs = TRUE
      BY <1>2, <1>4, <2>1
    <3>2. Prints(Exec, "execution")
      BY <1>4, <2>1
    <3>3. PrintedBy(Exec, "execution") /\ Exec \in Nat
      BY <1>3, <3>1, StillRuns
    <3> QED
      BY <3>2, <3>3, PrintsGrow
  <2>2. CASE ~nothing
    BY <1>4, <2>2 DEF ConsoleGrows
  <2> QED
    BY <2>1, <2>2
<1>8. Shape
  BY <1>4, <1>5, <1>6, <1>7 DEF Shape, PushesGrow
<1>9. phase' = "running" => \E b \in DOMAIN log' : Runs(b)'
  <2> SUFFICES ASSUME phase' = "running", ~(runs /\ ~nothing /\ phase = "replied")
               PROVE  \E b \in DOMAIN log' : Runs(b)'
    BY <1>5
  <2>1. PICK b \in 1..Len(log) : Runs(b)
    BY <1>3, <1>4
  <2> QED
    BY <1>6, <2>1, StillRuns
<1> QED
  BY <1>4, <1>8, <1>9, QueueKept DEF Control, Phases, JhTypes, BlockInv

LEMMA PrintLineShape == ASSUME JhTypes, BlockInv, PrintLine PROVE Shape /\ Control
<1>1. phase \in {"warming", "running"} /\ Prints(Exec, "none")
  BY DEF PrintLine, RunsCode
<1>2. UNCHANGED <<def, log, pending, block, pushes, phase, sent>>
  BY DEF PrintLine
<1>3. PICK b \in Nat : b = Exec /\ Runs(b)
  BY <1>1, ExecRuns
<1>4. b \in DOMAIN log' /\ Runs(b)' /\ PrintedBy(b, "none")
  BY <1>2, <1>3, StillRuns
<1>5. ConsoleGrows
  BY <1>1, <1>3, <1>4, PrintsGrow
<1> QED
  BY <1>2, <1>4, <1>5, Unchanged, QueueKept DEF Shape, PushesGrow, Control, JhTypes, BlockInv

LEMMA RaiseShape == ASSUME JhTypes, BlockInv, Raise PROVE Shape /\ Control
<1>1. phase \in {"warming", "running"} /\ Prints(Exec, "execution")
  BY DEF Raise, RunsCode
<1>2. UNCHANGED <<def, log, pending, block, pushes, sent>> /\ phase' \in {"done", "request"}
  BY DEF Raise
<1>3. PICK b \in Nat : b = Exec /\ Runs(b)
  BY <1>1, ExecRuns
<1>4. PrintedBy(b, "execution")
  BY <1>2, <1>3, StillRuns
<1>5. ConsoleGrows
  BY <1>1, <1>3, <1>4, PrintsGrow
<1> QED
  BY <1>2, <1>5, Unchanged, QueueKept DEF Shape, PushesGrow, Control, JhTypes, Phases, BlockInv

LEMMA ToolDoneShape == ASSUME JhTypes, BlockInv, ToolDone PROVE Shape /\ Control
<1>1. phase \in {"warming", "running"} /\ UNCHANGED <<def, pending, block, console, pushes, phase, sent>>
  BY DEF ToolDone
<1>2. PICK b \in 1..Len(log) : b = Exec /\ Runs(b) /\ b \in Turns
  BY <1>1, ExecRuns DEF Runs
<1>3. PICK item \in Items : item = log[b]
  BY <1>2, Sizes
<1>4. PICK k \in DOMAIN log[Exec].results, r \in {"ok", "error"} : log' = [log EXCEPT ![Exec].results[k] = r]
  BY DEF ToolDone
<1>5. PICK results : results = [item.results EXCEPT ![k] = r]
  OBVIOUS
<1>6. PICK item2 : item2 = [item EXCEPT !.results = results]
  OBVIOUS
<1>7. results \in Results
  <2>1. item.results \in Results /\ k \in DOMAIN item.results
    BY <1>2, <1>3, <1>4 DEF Items
  <2> QED
    BY <1>5, <2>1 DEF Results
<1>8. item2 \in Items /\ Same(item, item2)
  BY <1>2, <1>3, <1>6, <1>7 DEF Items, Same, Turns, TurnKinds
<1>9. log' = [log EXCEPT ![b] = item2]
  BY <1>2, <1>3, <1>4, <1>5, <1>6
<1>10. /\ log' \in Seq(Items) /\ Len(log') = Len(log) /\ log'[b] = item2
       /\ \A i \in 1..Len(log) : i # b => log'[i] = log[i]
  <2> HIDE DEF Items
  <2> QED
    BY <1>2, <1>8, <1>9 DEF JhTypes
<1>11. \A i \in 1..Len(log) : Same(log[i], log'[i])
  BY <1>3, <1>8, <1>10 DEF Same
<1>12. LogGrows /\ ~(\E i : i \in Len(log) + 1..Len(log'))
  BY <1>10, <1>11, Sizes DEF LogGrows
<1>13. b \in DOMAIN log' /\ Runs(b)'
  BY <1>2, <1>12, RunsKept
<1> QED
  BY <1>1, <1>12, <1>13, QueueKept DEF Shape, ConsoleGrows, PushesGrow, Control, JhTypes, BlockInv

LEMMA SuspendShape == ASSUME JhTypes, BlockInv, Suspend PROVE Shape /\ Control
<1>1. /\ UNCHANGED <<def, log, pending, block, console, pushes, sent>>
      /\ phase \in {"warming", "running"}
      /\ phase' = IF phase = "warming" THEN "ready" ELSE "suspended"
  BY DEF Suspend
<1> QED
  BY <1>1, Unchanged, QueueKept DEF Shape, ConsoleGrows, PushesGrow, Control, JhTypes, Phases, BlockInv

LEMMA EndBlockShape == ASSUME JhTypes, BlockInv, EndBlock PROVE Shape /\ Control
<1>1. /\ UNCHANGED <<def, log, pending, console, pushes, sent>>
      /\ phase' \in {"ready", "request"} /\ block' \in {block, block + 1}
      /\ phase' = "ready" => block' < Len(def.warmup)
  BY DEF EndBlock
<1>2. block' \in Nat /\ block' <= Len(def.warmup)
  <2>1. block \in Nat /\ Len(def.warmup) \in Nat /\ block <= Len(def.warmup)
        /\ (phase = "warming" => block < Len(def.warmup))
        /\ block' = IF phase = "warming" THEN block + 1 ELSE block
    BY Sizes DEF JhTypes, BlockInv, EndBlock
  <2> QED
    BY <2>1
<1> QED
  BY <1>1, <1>2, Unchanged, QueueKept DEF Shape, ConsoleGrows, PushesGrow, Control, JhTypes, Phases, BlockInv

LEMMA FailShape == ASSUME JhTypes, BlockInv, Fail PROVE Shape /\ Control
<1>1. UNCHANGED <<def, log, pending, block, pushes, sent>> /\ phase' = "done"
  BY DEF Fail
<1>2. PICK error \in {"none", "execution", "harness"} : Prints(0, error)
  BY DEF Fail
<1>3. ConsoleGrows
  BY <1>2, PrintsGrow
<1> QED
  BY <1>1, <1>3, Unchanged, QueueKept DEF Shape, PushesGrow, Control, JhTypes, Phases, BlockInv

LEMMA EscalateShape == ASSUME JhTypes, BlockInv, Escalate PROVE Shape /\ Control
<1>1. /\ UNCHANGED <<def, pending, block, console, pushes, phase, sent>>
      /\ phase \in {"running", "request"} /\ log' = Append(log, Plain("difficulty", 0))
  BY DEF Escalate
<1>2. PICK item : item = Plain("difficulty", 0)
  OBVIOUS
<1>3. NewItem(item) /\ item.kind = "difficulty"
  BY <1>2, PlainItem DEF Kinds, BoundaryKinds
<1>4. LogGrows /\ Len(log') = Len(log) + 1 /\ log'[Len(log) + 1] = item
  BY <1>1, <1>2, <1>3, AppendedOne
<1>5. \A i \in Len(log) + 1..Len(log') : log'[i].kind \in Idle
  BY <1>3, <1>4, Sizes DEF Idle
<1>6. phase' = "running" => \E b \in DOMAIN log' : Runs(b)'
  <2> SUFFICES ASSUME phase' = "running" PROVE \E b \in DOMAIN log' : Runs(b)'
    OBVIOUS
  <2>1. PICK b \in Nat : Runs(b)
    BY <1>1, ExecRuns
  <2> QED
    BY <1>4, <1>5, <2>1, RunsKept
<1> QED
  BY <1>1, <1>4, <1>6, QueueKept DEF Shape, ConsoleGrows, PushesGrow, Control, JhTypes, Phases, BlockInv

(* exit() and a request take in the pending items.                          *)
LEMMA DrainsShape ==
    ASSUME JhTypes, Drains
    PROVE  /\ LogGrows
           /\ \A i \in Len(log) + 1..Len(log') : log'[i].kind \notin {"user"} \cup TurnKinds
           /\ pending' \in Seq(Items)
           /\ \A i \in DOMAIN pending' : pending'[i].kind \in {"note", "subtask"} /\ Answers(pending'[i])
<1>1. CASE MayDrain
  <2>1. log' = Drained /\ pending' = <<>>
    BY <1>1 DEF Drains
  <2>2. PICK more : more = [k \in DOMAIN pending |-> [pending[k] EXCEPT !.pos = Len(console)]]
    OBVIOUS
  <2>3. more \in Seq(Items) /\ \A i \in 1..Len(more) : NewItem(more[i]) /\ more[i].kind \notin TurnKinds \cup Idle
    BY <2>2, DrainedItems
  <2>4. log' = log \o more
    BY <2>1, <2>2 DEF Drained
  <2>5. \A i \in 1..Len(more) : more[i].kind # "user"
    BY <2>3 DEF Idle
  <2>6. LogGrows /\ Len(log') = Len(log) + Len(more)
    BY <2>3, <2>4, <2>5, Appended
  <2>7. ASSUME NEW i \in Len(log) + 1..Len(log') PROVE log'[i].kind \notin {"user"} \cup TurnKinds
    <3>0. Len(more) \in Nat /\ Len(log) \in Nat /\ i \in Len(log) + 1..Len(log) + Len(more)
      BY <2>3, <2>6, Sizes
    <3>4. i - Len(log) \in 1..Len(more)
      BY <3>0
    <3>1. PICK k \in 1..Len(more) : k = i - Len(log)
      BY <3>4
    <3>2. log \in Seq(Items) /\ more \in Seq(Items) /\ i \in Len(log) + 1..Len(log) + Len(more)
      BY <2>3, <2>6 DEF JhTypes
    <3>3. log'[i] = more[k]
      <4> HIDE DEF Items
      <4> QED
        BY <2>4, <3>1, <3>2, ConcatProperties
    <3> QED
      BY <2>3, <3>3 DEF Idle
  <2>8. pending' \in Seq(Items) /\ DOMAIN pending' = {}
    <3> HIDE DEF Items
    <3> QED
      BY <2>1
  <2> QED
    BY <2>6, <2>7, <2>8
<1>2. CASE ~MayDrain
  <2>1. UNCHANGED <<log, pending>>
    BY <1>2 DEF Drains
  <2> QED
    BY <2>1, Unchanged, Sizes DEF JhTypes
<1> QED
  BY <1>1, <1>2

LEMMA ExitBlockShape == ASSUME JhTypes, BlockInv, ExitBlock PROVE Shape /\ Control
<1>1. Drains /\ phase' \in {"replied", "done"} /\ UNCHANGED <<def, block, console, pushes, sent>>
  BY DEF ExitBlock
<1> QED
  BY <1>1, DrainsShape DEF Shape, ConsoleGrows, PushesGrow, Control, JhTypes, Phases, BlockInv

LEMMA SentOneMore ==
    ASSUME JhTypes, NEW request, sent' = Append(sent, request)
    PROVE  sent' \in Seq(Range(sent'))
<1>1. PICK T : T = Range(sent) \cup {request}
  OBVIOUS
<1>2. sent \in Seq(T) /\ request \in T
  <2>1. sent = [i \in 1..Len(sent) |-> sent[i]] /\ Len(sent) \in Nat /\ DOMAIN sent = 1..Len(sent)
    BY DEF JhTypes
  <2>2. \A i \in 1..Len(sent) : sent[i] \in T
    BY <1>1, <2>1 DEF Range
  <2> QED
    BY <1>1, <2>1, <2>2
<1>3. sent' \in Seq(T)
  BY <1>2
<1> QED
  BY <1>3, OwnRange

LEMMA SendRequestShape == ASSUME JhTypes, BlockInv, SendRequest PROVE Shape /\ Control
<1>1. Drains /\ phase' = "llm" /\ UNCHANGED <<def, block, console, pushes>>
  BY DEF SendRequest
<1>2. \E request : sent' = Append(sent, request)
  BY DEF SendRequest
<1>3. sent' \in Seq(Range(sent'))
  BY <1>2, SentOneMore
<1> QED
  BY <1>1, <1>3, DrainsShape DEF Shape, ConsoleGrows, PushesGrow, Control, JhTypes, Phases, BlockInv

LEMMA ReplySuppressedShape == ASSUME JhTypes, BlockInv, ReplySuppressed PROVE Shape /\ Control
<1>1. /\ UNCHANGED <<def, pending, block, console, pushes, sent>> /\ phase' = "replied"
      /\ log' = Append(log, Plain("post", 0))
  BY DEF ReplySuppressed
<1>2. PICK item : item = Plain("post", 0)
  OBVIOUS
<1>3. NewItem(item) /\ item.kind = "post"
  BY <1>2, PlainItem DEF Kinds, BoundaryKinds
<1>4. LogGrows
  BY <1>1, <1>2, <1>3, AppendedOne
<1> QED
  BY <1>1, <1>4, QueueKept DEF Shape, ConsoleGrows, PushesGrow, Control, JhTypes, Phases, BlockInv

LEMMA ReplyCommittedShape == ASSUME JhTypes, BlockInv, ReplyCommitted PROVE Shape /\ Control
<1>1. UNCHANGED <<def, pending, block, console, pushes, sent>> /\ phase' = "replied"
  BY DEF ReplyCommitted
<1>2. PICK r \in Replies : log' = Committed(r)
  BY DEF ReplyCommitted
<1>3. PICK item : item = [Plain("llm", Len(sent)) EXCEPT !.reply = Stored(r)]
  OBVIOUS
<1>4. NewItem(item) /\ item.kind = "llm"
  BY <1>3, CommittedItem
<1>5. LogGrows
  BY <1>2, <1>3, <1>4, AppendedOne DEF Committed
<1> QED
  BY <1>1, <1>5, QueueKept DEF Shape, ConsoleGrows, PushesGrow, Control, JhTypes, Phases, BlockInv

LEMMA DialogFailsShape == ASSUME JhTypes, BlockInv, DialogFails PROVE Shape /\ Control
<1>1. /\ UNCHANGED <<def, pending, block, pushes, sent>> /\ phase' = "replied"
      /\ Prints(Len(log) + 1, "execution")
  BY DEF DialogFails
<1>2. PICK r \in Replies : log' = Committed(r)
  BY DEF DialogFails
<1>3. PICK item : item = [Plain("llm", Len(sent)) EXCEPT !.reply = Stored(r)]
  OBVIOUS
<1>4. NewItem(item) /\ item.kind = "llm"
  BY <1>3, CommittedItem
<1>5. LogGrows /\ Len(log') = Len(log) + 1 /\ log'[Len(log) + 1] = item
  BY <1>2, <1>3, <1>4, AppendedOne DEF Committed
<1>6. PICK n \in Nat : n = Len(log) + 1
  BY Sizes
<1>7. DOMAIN log' = 1..n /\ log'[n].kind = "llm"
  BY <1>4, <1>5, <1>6 DEF LogGrows
<1>8. PrintedBy(n, "execution")
  <2>1. n \in 1..n /\ n <= n
    BY <1>6, Sizes
  <2> QED
    BY <1>7, <2>1 DEF PrintedBy, TurnKinds
<1>9. ConsoleGrows
  BY <1>1, <1>6, <1>8, PrintsGrow
<1> QED
  BY <1>1, <1>5, <1>9, QueueKept DEF Shape, PushesGrow, Control, JhTypes, Phases, BlockInv

LEMMA FinalReplyRemindedShape == ASSUME JhTypes, BlockInv, FinalReplyReminded PROVE Shape /\ Control
<1>1. /\ UNCHANGED <<def, pending, block, pushes, sent>> /\ phase' = "replied"
      /\ Prints(Len(log) + 2, "none")
  BY DEF FinalReplyReminded
<1>2. PICK r \in Replies : log' = Append(Committed(r), Plain("reminder", 0))
  BY DEF FinalReplyReminded
<1>3. PICK item, after : /\ item = [Plain("llm", Len(sent)) EXCEPT !.reply = Stored(r)]
                         /\ after = Plain("reminder", 0)
  OBVIOUS
<1>4. /\ NewItem(item) /\ item.kind = "llm" /\ item \in Items
      /\ NewItem(after) /\ after.kind = "reminder" /\ after \in Items
  BY <1>3, CommittedItem, PlainItem DEF Kinds, BoundaryKinds, NewItem
<1>5. PICK more : more = <<item, after>>
  OBVIOUS
<1>6. more \in Seq(Items) /\ Len(more) = 2 /\ more[1] = item /\ more[2] = after
  <2> HIDE DEF Items
  <2> QED
    BY <1>4, <1>5
<1>7. log' = log \o more
  <2> HIDE DEF Items
  <2>1. log' = Append(Append(log, item), after) /\ log \in Seq(Items)
    BY <1>2, <1>3 DEF Committed, JhTypes
  <2> QED
    BY <1>4, <1>5, <2>1
<1>8. \A i \in 1..Len(more) : NewItem(more[i]) /\ more[i].kind # "user"
  <2>1. \A i \in 1..2 : i = 1 \/ i = 2
    OBVIOUS
  <2> QED
    BY <1>4, <1>6, <2>1
<1>9. LogGrows /\ Len(log') = Len(log) + 2
  BY <1>6, <1>7, <1>8, Appended
<1>10. PICK n \in Nat : n = Len(log) + 2
  BY Sizes
<1>11. DOMAIN log' = 1..n /\ n > 0
  BY <1>9, <1>10, Sizes DEF LogGrows
<1>12. log'[n] = after /\ log'[n - 1] = item
  <2> HIDE DEF Items
  <2>1. /\ n \in Len(log) + 1..Len(log) + Len(more) /\ n - Len(log) = 2
        /\ n - 1 \in Len(log) + 1..Len(log) + Len(more) /\ (n - 1) - Len(log) = 1
    BY <1>6, <1>10, Sizes
  <2>2. log \in Seq(Items) /\ more \in Seq(Items)
    BY <1>6 DEF JhTypes
  <2>3. (log \o more)[n] = more[n - Len(log)] /\ (log \o more)[n - 1] = more[(n - 1) - Len(log)]
    BY <2>1, <2>2, ConcatProperties
  <2> QED
    BY <1>6, <1>7, <2>1, <2>3
<1>13. PrintedBy(n, "none")
  <2>1. n - 1 \in 1..n /\ n - 1 <= n /\ n \in 1..n
    BY <1>10, <1>11, Sizes
  <2>2. log'[n - 1].kind \in TurnKinds
    BY <1>4, <1>12 DEF TurnKinds
  <2>3. \E k \in DOMAIN log' : k <= n /\ log'[k].kind \in TurnKinds
    BY <1>11, <2>1, <2>2
  <2> QED
    BY <1>4, <1>11, <1>12, <2>1, <2>3 DEF PrintedBy
<1>14. ConsoleGrows
  BY <1>1, <1>10, <1>13, PrintsGrow
<1> QED
  BY <1>1, <1>9, <1>14, QueueKept DEF Shape, PushesGrow, Control, JhTypes, Phases, BlockInv

LEMMA FinalReplyShape == ASSUME JhTypes, BlockInv, FinalReply PROVE Shape /\ Control
<1>1. UNCHANGED <<def, block, console, pushes, sent>>
  BY DEF FinalReply
<1>2. PICK r \in Replies :
         LET drains == pending # <<>> /\ Stored(r).text # "none" IN
         /\ log' = Committed(r) \o IF drains
                                   THEN [k \in DOMAIN pending |-> [pending[k] EXCEPT !.pos = Len(console)]]
                                   ELSE <<>>
         /\ pending' = IF drains THEN <<>> ELSE pending
         /\ phase' = IF drains THEN "replied" ELSE "done"
  BY DEF FinalReply
<1>3. PICK item : item = [Plain("llm", Len(sent)) EXCEPT !.reply = Stored(r)]
  OBVIOUS
<1>4. NewItem(item) /\ item.kind = "llm" /\ item \in Items
  BY <1>3, CommittedItem DEF NewItem
<1>5. PICK rest \in {<<>>, [k \in DOMAIN pending |-> [pending[k] EXCEPT !.pos = Len(console)]]} :
         log' = Append(log, item) \o rest
  BY <1>2, <1>3 DEF Committed
<1>6. rest \in Seq(Items) /\ \A i \in 1..Len(rest) : NewItem(rest[i]) /\ rest[i].kind # "user"
  <2>1. CASE rest = <<>>
    <3> HIDE DEF Items
    <3> QED
      BY <2>1
  <2>2. CASE rest # <<>>
    BY <2>2, <1>5, DrainedItems DEF Idle
  <2> QED
    BY <2>1, <2>2
<1>7. PICK more : more = <<item>> \o rest
  OBVIOUS
<1> HIDE DEF Items
<1>8. /\ more \in Seq(Items) /\ Len(more) = Len(rest) + 1 /\ more[1] = item
      /\ \A i \in 2..Len(more) : more[i] = rest[i - 1]
  <2>1. <<item>> \in Seq(Items) /\ Len(<<item>>) = 1 /\ <<item>>[1] = item
    BY <1>4
  <2> QED
    BY <1>6, <1>7, <2>1
<1>9. log' = log \o more
  <2>1. log \in Seq(Items)
    BY DEF JhTypes
  <2>2. Append(log, item) = log \o <<item>> /\ <<item>> \in Seq(Items)
    BY <1>4, <2>1
  <2> QED
    BY <1>5, <1>6, <1>7, <2>1, <2>2
<1>10. \A i \in 1..Len(more) : NewItem(more[i]) /\ more[i].kind # "user"
  <2> SUFFICES ASSUME NEW i \in 1..Len(more) PROVE NewItem(more[i]) /\ more[i].kind # "user"
    OBVIOUS
  <2>1. CASE i = 1
    BY <1>4, <1>8, <2>1
  <2>2. CASE i # 1
    <3>1. PICK k \in 1..Len(rest) : k = i - 1 /\ i \in 2..Len(more)
      BY <1>6, <1>8, <2>2
    <3> QED
      BY <1>6, <1>8, <3>1
  <2> QED
    BY <2>1, <2>2
<1>11. LogGrows
  BY <1>8, <1>9, <1>10, Appended
<1>12. /\ pending' \in Seq(Items)
       /\ \A i \in DOMAIN pending' : pending'[i].kind \in {"note", "subtask"} /\ Answers(pending'[i])
  <2>1. pending' = pending \/ pending' = <<>>
    BY <1>2
  <2>2. CASE pending' = <<>>
    BY <2>2
  <2> QED
    BY <2>1, <2>2 DEF JhTypes
<1>13. phase' \in {"replied", "done"}
  BY <1>2
<1> QED
  BY <1>1, <1>11, <1>12, <1>13 DEF Shape, ConsoleGrows, PushesGrow, Control, JhTypes, Phases, BlockInv

LEMMA RangeIsFinite ==
    ASSUME NEW f, IsFiniteSet(DOMAIN f), f = [x \in DOMAIN f |-> f[x]]
    PROVE  IsFiniteSet(Range(f))
<1>1. f \in Surjection(DOMAIN f, Range(f))
  BY DEF Surjection, Range
<1> QED
  BY <1>1, FS_Surjection

LEMMA KnownIsFinite == ASSUME JhTypes PROVE IsFiniteSet(Known) /\ Arrived \in Nat
<1> DEFINE at == {k \in DOMAIN log : log[k].kind = "user"}
           ids == [i \in at |-> log[i].id]
           msgs == [i \in DOMAIN pushes |-> pushes[i].msg]
<1>1. IsFiniteSet(at) /\ IsFiniteSet(DOMAIN pushes)
  <2>1. DOMAIN log = 1..Len(log) /\ DOMAIN pushes = 1..Len(pushes) /\ Len(log) \in Nat /\ Len(pushes) \in Nat
    BY Sizes DEF JhTypes
  <2>2. IsFiniteSet(DOMAIN log) /\ IsFiniteSet(DOMAIN pushes)
    BY <2>1, FS_Interval
  <2> QED
    BY <2>2, FS_Subset
<1>2. IsFiniteSet(Range(ids)) /\ IsFiniteSet(Range(msgs))
  BY <1>1, RangeIsFinite
<1>3. Known = Range(ids) \cup Range(msgs)
  BY DEF Known, UserMessages, Range
<1> HIDE DEF ids, msgs
<1> QED
  BY <1>2, <1>3, FS_Union, FS_CardinalityType DEF Arrived

LEMMA PushShape == ASSUME JhTypes, BlockInv, PushUserMessage PROVE Shape /\ Control
<1>1. /\ UNCHANGED <<def, pending, block, console, sent>>
      /\ phase' = IF phase = "done" THEN "replied" ELSE phase
      /\ pushes' = IF IsDialog THEN pushes
                   ELSE Append(pushes, [at |-> Len(console), msg |-> Arrived + 1])
      /\ LET logged == IF IsDialog THEN Append(log, UserItem(Arrived + 1)) ELSE log
         IN  log' = IF phase = "done" THEN Append(logged, Placeholder) ELSE logged
  BY DEF PushUserMessage
<1>2. PICK m \in Nat : m = Arrived + 1
  BY KnownIsFinite
<1>3. PICK user, open : user = UserItem(m) /\ open = Placeholder
  OBVIOUS
<1>4. NewItem(open) /\ open.kind = "llm" /\ open \in Items
  BY <1>3, PlainItem DEF Placeholder, Kinds, BoundaryKinds
<1>5. ASSUME IsDialog PROVE NewItem(user) /\ user.kind = "user" /\ user \in Items
  <2>1. NoReply \in ReplyRecords /\ <<>> \in Results /\ NoReply.calls = 0 /\ "user" \in Kinds /\ 0 \in Nat
    BY DEF NoReply, ReplyRecords, Results, Kinds
  <2>2. user = Item("user", 0, m, NoReply, <<>>)
    BY <1>3 DEF UserItem
  <2>3. user \in Items /\ user.kind = "user" /\ user.pos = 0 /\ user.id = m /\ user.reply = NoReply
    BY <2>1, <2>2, ItemMade
  <2> HIDE DEF Items
  <2> QED
    BY <1>2, <1>5, <2>1, <2>3 DEF NewItem, HasBlock, Answers
<1>6. LogGrows /\ (phase # "done" => \A i \in Len(log) + 1..Len(log') : log'[i].kind \in Idle)
  <2>1. CASE ~IsDialog /\ phase # "done"
    <3>1. UNCHANGED log
      BY <1>1, <2>1
    <3> QED
      BY <3>1, Unchanged, Sizes
  <2>2. CASE ~IsDialog /\ phase = "done"
    <3>1. log' = Append(log, open)
      BY <1>1, <1>3, <2>2
    <3> QED
      BY <1>4, <2>2, <3>1, AppendedOne
  <2>3. CASE IsDialog /\ phase # "done"
    <3>1. log' = Append(log, user) /\ pushes' = pushes /\ console' = console
      BY <1>1, <1>2, <1>3, <2>3
    <3>2. LogGrows /\ Len(log') = Len(log) + 1 /\ log'[Len(log) + 1] = user
      BY <1>5, <2>3, <3>1, AppendedOne
    <3> QED
      BY <1>5, <2>3, <3>2, Sizes DEF Idle
  <2>4. CASE IsDialog /\ phase = "done"
    <3>1. log' = Append(Append(log, user), open) /\ pushes' = pushes /\ console' = console
      BY <1>1, <1>2, <1>3, <2>4
    <3>2. PICK more : more = <<user, open>>
      OBVIOUS
    <3> HIDE DEF Items
    <3>3. more \in Seq(Items) /\ Len(more) = 2 /\ more[1] = user /\ more[2] = open
      BY <1>4, <1>5, <2>4, <3>2
    <3>4. log' = log \o more
      <4>1. log \in Seq(Items) /\ user \in Items /\ open \in Items
        BY <1>4, <1>5, <2>4 DEF JhTypes
      <4> QED
        BY <3>1, <3>2, <4>1
    <3>5. \A i \in 1..Len(more) : NewItem(more[i]) /\ (more[i].kind = "user" => i = 1)
      <4>1. \A i \in 1..2 : i = 1 \/ i = 2
        OBVIOUS
      <4> QED
        BY <1>4, <1>5, <2>4, <3>3, <4>1
    <3> QED
      BY <2>4, <3>1, <3>3, <3>4, <3>5, Appended
  <2> QED
    BY <2>1, <2>2, <2>3, <2>4
<1>7. phase' \in {"warming", "running"} => \E b \in DOMAIN log' : Runs(b)'
  <2> SUFFICES ASSUME phase' \in {"warming", "running"} PROVE \E b \in DOMAIN log' : Runs(b)'
    OBVIOUS
  <2>1. phase \in {"warming", "running"} /\ phase # "done"
    BY <1>1
  <2>2. PICK b \in Nat : Runs(b)
    BY <2>1, ExecRuns
  <2> QED
    BY <1>6, <2>1, <2>2, RunsKept
<1>8. PushesGrow /\ ConsoleGrows
  BY <1>1 DEF PushesGrow, ConsoleGrows
<1> QED
  BY <1>1, <1>6, <1>7, <1>8, QueueKept DEF Shape, Control, JhTypes, Phases, BlockInv

LEMMA NotifyShape == ASSUME JhTypes, BlockInv, Notify PROVE Shape /\ Control
<1>1. UNCHANGED <<def, block, console, pushes, sent>>
  BY DEF Notify
<1>2. PICK kind \in {"note", "subtask"}, done \in BOOLEAN :
         LET item == [Plain(kind, 0) EXCEPT !.results = IF done THEN <<"ok">> ELSE <<>>] IN
         IF phase = "done"
         THEN log' = Append(log, item) /\ phase' = "replied" /\ UNCHANGED pending
         ELSE pending' = Append(pending, item) /\ UNCHANGED <<log, phase>>
  BY DEF Notify
<1>3. PICK results : results = IF done THEN <<"ok">> ELSE <<>>
  OBVIOUS
<1>4. PICK item : item = [Plain(kind, 0) EXCEPT !.results = results]
  OBVIOUS
<1>5. /\ item \in Items /\ item.kind \in {"note", "subtask"} /\ NewItem(item) /\ Answers(item)
  <2>1. results \in Results
    <3>1. "ok" \in {"empty", "ok", "error"}
      OBVIOUS
    <3>2. <<"ok">> \in Seq({"empty", "ok", "error"}) /\ <<>> \in Seq({"empty", "ok", "error"})
      BY <3>1
    <3> QED
      BY <1>3, <3>2 DEF Results
  <2>2. PICK pos \in Nat : pos = Len(console)
    BY Sizes
  <2>3. NoReply \in ReplyRecords /\ NoReply.calls = 0 /\ kind \in Kinds /\ 0 \in Nat
    BY DEF NoReply, ReplyRecords, Kinds, BoundaryKinds
  <2>4. item = Item(kind, pos, 0, NoReply, results)
    BY <1>4, <2>2 DEF Plain, Item
  <2>5. item \in Items /\ item.kind = kind /\ item.pos = pos /\ item.reply = NoReply
    BY <2>1, <2>3, <2>4, ItemMade
  <2> HIDE DEF Items
  <2> QED
    BY <2>2, <2>3, <2>5 DEF NewItem, HasBlock, Answers
<1> HIDE DEF Items
<1>6. CASE phase = "done"
  <2>1. log' = Append(log, item) /\ phase' = "replied" /\ UNCHANGED pending
    BY <1>2, <1>3, <1>4, <1>6
  <2>2. LogGrows
    BY <1>5, <2>1, AppendedOne
  <2> QED
    BY <1>1, <2>1, <2>2, QueueKept DEF Shape, ConsoleGrows, PushesGrow, Control, JhTypes, Phases, BlockInv
<1>7. CASE phase # "done"
  <2>1. pending' = Append(pending, item) /\ UNCHANGED <<log, phase>>
    BY <1>2, <1>3, <1>4, <1>7
  <2>2. /\ pending' \in Seq(Items)
        /\ \A i \in DOMAIN pending' : pending'[i].kind \in {"note", "subtask"} /\ Answers(pending'[i])
    <3>1. pending \in Seq(Items) /\ Len(pending) \in Nat
      BY DEF JhTypes
    <3>2. /\ pending' \in Seq(Items) /\ DOMAIN pending' = 1..Len(pending) + 1
          /\ pending'[Len(pending) + 1] = item /\ \A i \in 1..Len(pending) : pending'[i] = pending[i]
      BY <1>5, <2>1, <3>1
    <3>3. \A i \in 1..Len(pending) + 1 : i \in 1..Len(pending) \/ i = Len(pending) + 1
      BY <3>1
    <3>4. \A i \in 1..Len(pending) : pending[i].kind \in {"note", "subtask"} /\ Answers(pending[i])
      BY <3>1 DEF JhTypes
    <3>5. ASSUME NEW i \in DOMAIN pending'
          PROVE  pending'[i].kind \in {"note", "subtask"} /\ Answers(pending'[i])
      <4>1. i \in 1..Len(pending) \/ i = Len(pending) + 1
        BY <3>2, <3>3, <3>5
      <4>2. CASE i \in 1..Len(pending)
        BY <3>2, <3>4, <4>2
      <4>3. CASE i = Len(pending) + 1
        BY <1>5, <3>2, <4>3
      <4> QED
        BY <4>1, <4>2, <4>3
    <3> QED
      BY <3>2, <3>5
  <2>3. LogGrows
    BY <2>1, Unchanged
  <2>4. phase' \in {"warming", "running"} => \E b \in DOMAIN log' : Runs(b)'
    BY <2>1, ExecRuns, StillRuns
  <2> QED
    BY <1>1, <2>1, <2>2, <2>3, <2>4 DEF Shape, ConsoleGrows, PushesGrow, Control, JhTypes, BlockInv, Phases
<1> QED
  BY <1>6, <1>7

LEMMA NothingShape == ASSUME JhTypes, BlockInv, UNCHANGED Data PROVE Shape /\ Control
<1>1. UNCHANGED <<def, log, pending, block, console, pushes, phase, sent>>
  BY DEF Data
<1>2. phase' \in {"warming", "running"} => \E b \in DOMAIN log' : Runs(b)'
  BY <1>1, ExecRuns, StillRuns
<1> QED
  BY <1>1, <1>2, Unchanged, QueueKept DEF Shape, ConsoleGrows, PushesGrow, Control, JhTypes, BlockInv

LEMMA StepShape == ASSUME JhTypes, BlockInv, [Next]_vars PROVE Shape /\ Control
<1>1. CASE UNCHANGED vars
  BY <1>1, NothingShape DEF vars, Data
<1>2. ASSUME JobStepNext PROVE Shape /\ Control
  BY <1>2, BeginWarmupShape, BeginReplyShape, PrintLineShape, RaiseShape, ToolDoneShape,
     SuspendShape, ExitBlockShape, EndBlockShape, EscalateShape, SendRequestShape,
     ReplySuppressedShape, ReplyCommittedShape, DialogFailsShape, FinalReplyRemindedShape,
     FinalReplyShape, FailShape DEF JobStepNext
<1>3. ASSUME Capture \/ ReadStep \/ ReadFails PROVE Shape /\ Control
  BY <1>3, NothingShape DEF Capture, ReadStep, ReadFails
<1> QED
  BY <1>1, <1>2, <1>3, PushShape, NotifyShape DEF Next

-----------------------------------------------------------------------------
(***************************************************************************)
(* The invariant.  Console positions follow the log; a line is printed by a *)
(* turn and before the next boundary; messages of the user are numbered in  *)
(* the order in which they arrive.                                          *)
(***************************************************************************)
PosInv ==
    /\ \A i \in DOMAIN log : /\ log[i].pos <= Len(console)
                             /\ log[i].kind = "user" => log[i].pos = 0 /\ IsDialog
    /\ \A i, k \in DOMAIN log : k <= i /\ log[i].kind # "user" => log[k].pos <= log[i].pos
    /\ \A i \in DOMAIN pushes : pushes[i].at <= Len(console) /\ ~IsDialog
PrintInv ==
    \A l \in DOMAIN console : console[l].by # 0 =>
        LET b == console[l].by IN
        /\ b \in DOMAIN log /\ log[b].pos < l
        /\ \A i \in DOMAIN log : i > b /\ log[i].kind \notin Idle => l <= log[i].pos
        /\ log[b].kind \in TurnKinds \/ (log[b].kind = "reminder" /\ console[l].error = "none")
        /\ \E k \in DOMAIN log : k <= b /\ log[k].kind \in TurnKinds
KnownInv ==
    /\ Known = 1..Arrived
    /\ \A i, k \in DOMAIN log : i < k /\ log[i].kind = "user" /\ log[k].kind = "user"
                                  => log[i].id < log[k].id
JhInv == JhTypes /\ BlockInv /\ PosInv /\ PrintInv /\ KnownInv

LEMMA TypesNext == ASSUME JhTypes, Shape, Control PROVE JhTypes'
<1>1. console' \in Seq(Lines)
  <2>1. console \in Seq(Lines)
    BY DEF JhTypes
  <2> HIDE DEF Lines
  <2> QED
    BY <2>1 DEF Shape, ConsoleGrows
<1>2. pushes' \in Seq([at : Nat, msg : Nat])
  <2>1. CASE pushes' = pushes
    BY <2>1 DEF JhTypes
  <2>2. CASE pushes' # pushes
    <3>1. PICK entry : entry = [at |-> Len(console), msg |-> Arrived + 1]
      OBVIOUS
    <3>2. entry \in [at : Nat, msg : Nat]
      BY <3>1, Sizes, KnownIsFinite
    <3>3. pushes' = Append(pushes, entry) /\ pushes \in Seq([at : Nat, msg : Nat])
      BY <2>2, <3>1 DEF Shape, PushesGrow, JhTypes
    <3> QED
      BY <3>2, <3>3
  <2> QED
    BY <2>1, <2>2
<1> QED
  BY <1>1, <1>2 DEF JhTypes, Shape, Control, LogGrows

LEMMA Before ==
    ASSUME JhTypes, LogGrows
    PROVE  /\ DOMAIN log = 1..Len(log) /\ DOMAIN log' = 1..Len(log') /\ Len(log) \in Nat /\ Len(log') \in Nat
           /\ Len(log) <= Len(log')
           /\ \A i \in 1..Len(log) : Same(log[i], log'[i])
           /\ \A i \in 1..Len(log') : i > Len(log) => NewItem(log'[i])
  BY Sizes DEF LogGrows

LEMMA BlockNext == ASSUME JhTypes, BlockInv, Shape, Control PROVE BlockInv'
<1>1. ASSUME NEW i \in DOMAIN log'
      PROVE  /\ log'[i].kind = "warmup" => log'[i].id + 1 \in DOMAIN def.warmup
             /\ log'[i].reply.text = "none" => log'[i].reply.calls = 0
  <2>1. CASE i <= Len(log)
    <3>1. HasBlock(log[i]) /\ Answers(log[i]) /\ Same(log[i], log'[i])
      BY <2>1, Before DEF BlockInv, Shape
    <3> QED
      BY <3>1 DEF Same, HasBlock, Answers
  <2>2. CASE i > Len(log)
    <3>1. NewItem(log'[i])
      BY <2>2, Before DEF Shape
    <3> QED
      BY <3>1 DEF NewItem, HasBlock, Answers
  <2> QED
    BY <2>1, <2>2, Before DEF Shape
<1>2. phase' \in {"warming", "running"} => \E b \in Turns' : Runs(b)'
  BY DEF Control, Runs
<1> QED
  BY <1>1, <1>2 DEF BlockInv, Control, Shape, HasBlock, Answers

LEMMA ConsoleSize ==
    ASSUME JhTypes, Shape
    PROVE  /\ Len(console) \in Nat /\ Len(console') \in Nat /\ Len(console) <= Len(console')
           /\ Len(console') <= Len(console) + 1
           /\ DOMAIN console = 1..Len(console) /\ DOMAIN console' = 1..Len(console')
           /\ \A l \in 1..Len(console) : console'[l] = console[l]
           /\ Len(console') # Len(console) =>
                 PrintedBy(console'[Len(console) + 1].by, console'[Len(console) + 1].error)
                 \/ console'[Len(console) + 1].by = 0
<1>1. console \in Seq(Lines) /\ Len(console) \in Nat
  BY DEF JhTypes
<1>2. CASE console' = console
  BY <1>1, <1>2
<1>3. CASE console' # console
  <2>1. PICK line \in Lines : console' = Append(console, line) /\ (line.by # 0 => PrintedBy(line.by, line.error))
    BY <1>3 DEF Shape, ConsoleGrows
  <2> HIDE DEF Lines
  <2>2. /\ console' \in Seq(Lines) /\ Len(console') = Len(console) + 1
        /\ console'[Len(console) + 1] = line /\ \A l \in 1..Len(console) : console'[l] = console[l]
    BY <1>1, <2>1
  <2> QED
    BY <1>1, <2>1, <2>2
<1> QED
  BY <1>2, <1>3

LEMMA PosNext == ASSUME JhTypes, PosInv, Shape PROVE PosInv'
<1>1. /\ Len(console) \in Nat /\ Len(console') \in Nat /\ Len(console) <= Len(console')
      /\ IsDialog' = IsDialog
  BY ConsoleSize DEF Shape, IsDialog
<1>2. /\ DOMAIN log = 1..Len(log) /\ DOMAIN log' = 1..Len(log') /\ Len(log) \in Nat /\ Len(log') \in Nat
      /\ Len(log) <= Len(log')
      /\ \A i \in 1..Len(log) : Same(log[i], log'[i])
      /\ \A i \in 1..Len(log') : i > Len(log) => NewItem(log'[i])
  BY Before DEF Shape
<1>3. ASSUME NEW i \in 1..Len(log')
      PROVE  /\ log'[i].pos \in Nat /\ log'[i].pos <= Len(console)
             /\ log'[i].kind = "user" => log'[i].pos = 0 /\ IsDialog
             /\ i > Len(log) /\ log'[i].kind # "user" => log'[i].pos = Len(console)
             /\ i <= Len(log) => log'[i].pos = log[i].pos /\ log'[i].kind = log[i].kind
  <2>1. CASE i <= Len(log)
    <3>1. Same(log[i], log'[i]) /\ i \in DOMAIN log /\ log[i] \in Items
      BY <1>2, <2>1, Sizes, SMTT(30)
    <3>2. log[i].pos \in Nat
      BY <3>1 DEF Items
    <3> QED
      BY <1>2, <2>1, <3>1, <3>2 DEF Same, PosInv
  <2>2. CASE i > Len(log)
    <3>1. NewItem(log'[i])
      BY <1>2, <2>2
    <3> QED
      BY <1>1, <1>2, <2>2, <3>1 DEF NewItem
  <2> QED
    BY <1>2, <2>1, <2>2
<1>4. ASSUME NEW i \in 1..Len(log'), NEW k \in 1..Len(log'), k <= i, log'[i].kind # "user"
      PROVE  log'[k].pos <= log'[i].pos
  <2>1. CASE i <= Len(log)
    <3>1. k <= Len(log) /\ k \in DOMAIN log /\ i \in DOMAIN log
      BY <1>2, <1>4, <2>1
    <3> QED
      BY <1>3, <1>4, <2>1, <3>1 DEF PosInv
  <2>2. CASE i > Len(log)
    BY <1>1, <1>3, <1>4, <2>2
  <2> QED
    BY <1>2, <2>1, <2>2
<1>5. ASSUME NEW i \in DOMAIN pushes' PROVE pushes'[i].at <= Len(console') /\ ~IsDialog
  <2>1. CASE pushes' = pushes
    <3>1. i \in 1..Len(pushes) /\ i \in DOMAIN pushes /\ pushes \in Seq([at : Nat, msg : Nat])
      BY <1>5, <2>1 DEF JhTypes
    <3>2. PICK entry \in [at : Nat, msg : Nat] : entry = pushes[i]
      BY <3>1, ElementOfSeq
    <3>3. entry.at \in Nat /\ entry.at <= Len(console) /\ ~IsDialog
      BY <3>1, <3>2 DEF PosInv
    <3> QED
      BY <1>1, <2>1, <3>2, <3>3
  <2>2. CASE pushes' # pushes
    <3>1. PICK entry : entry = [at |-> Len(console), msg |-> Arrived + 1]
      OBVIOUS
    <3>2. /\ pushes' = Append(pushes, entry) /\ pushes \in Seq([at : Nat, msg : Nat]) /\ ~IsDialog
          /\ entry.at = Len(console) /\ entry \in [at : Nat, msg : Nat]
      BY <2>2, <3>1, Sizes, KnownIsFinite DEF Shape, PushesGrow, JhTypes
    <3>3. i \in 1..Len(pushes) + 1 /\ Len(pushes) \in Nat
      BY <1>5, <3>2
    <3>4. CASE i \in 1..Len(pushes)
      <4>1. pushes'[i] = pushes[i] /\ i \in DOMAIN pushes
        BY <3>2, <3>4
      <4>2. PICK old \in [at : Nat, msg : Nat] : old = pushes[i]
        BY <3>2, <3>4, ElementOfSeq
      <4>3. old.at \in Nat /\ old.at <= Len(console)
        BY <4>1, <4>2 DEF PosInv
      <4> QED
        BY <1>1, <3>2, <4>1, <4>2, <4>3
    <3>5. CASE i = Len(pushes) + 1
      BY <1>1, <3>2, <3>5
    <3> QED
      BY <3>3, <3>4, <3>5
  <2> QED
    BY <2>1, <2>2
<1>6. \A i \in DOMAIN log' : log'[i].pos <= Len(console')
  BY <1>1, <1>2, <1>3
<1> QED
  BY <1>1, <1>2, <1>3, <1>4, <1>5, <1>6 DEF PosInv

LEMMA PrintNext == ASSUME JhTypes, PosInv, PrintInv, Shape PROVE PrintInv'
<1>1. /\ Len(console) \in Nat /\ Len(console') \in Nat /\ Len(console) <= Len(console')
      /\ Len(console') <= Len(console) + 1
      /\ DOMAIN console = 1..Len(console) /\ DOMAIN console' = 1..Len(console')
      /\ \A l \in 1..Len(console) : console'[l] = console[l]
  BY ConsoleSize
<1>2. /\ DOMAIN log = 1..Len(log) /\ DOMAIN log' = 1..Len(log') /\ Len(log) \in Nat /\ Len(log') \in Nat
      /\ Len(log) <= Len(log')
      /\ \A i \in 1..Len(log) : Same(log[i], log'[i])
      /\ \A i \in 1..Len(log') : i > Len(log) => NewItem(log'[i])
  BY Before DEF Shape
<1>3. SUFFICES ASSUME NEW l \in 1..Len(console'), NEW b, b = console'[l].by, b # 0
               PROVE  /\ b \in DOMAIN log' /\ log'[b].pos < l
                      /\ \A i \in DOMAIN log' : i > b /\ log'[i].kind \notin Idle => l <= log'[i].pos
                      /\ \/ log'[b].kind \in TurnKinds
                         \/ log'[b].kind = "reminder" /\ console'[l].error = "none"
                      /\ \E k \in DOMAIN log' : k <= b /\ log'[k].kind \in TurnKinds
  BY <1>1 DEF PrintInv
<1>4. CASE l <= Len(console)
  <2>1. l \in DOMAIN console /\ console'[l] = console[l] /\ b = console[l].by
    BY <1>1, <1>3, <1>4
  <2>2. /\ b \in DOMAIN log /\ log[b].pos < l
        /\ \A i \in DOMAIN log : i > b /\ log[i].kind \notin Idle => l <= log[i].pos
        /\ log[b].kind \in TurnKinds \/ (log[b].kind = "reminder" /\ console[l].error = "none")
    BY <1>3, <2>1 DEF PrintInv
  <2>3. Same(log[b], log'[b]) /\ b \in DOMAIN log'
    BY <1>2, <2>2
  <2>4. ASSUME NEW i \in DOMAIN log', i > b, log'[i].kind \notin Idle PROVE l <= log'[i].pos
    <3>1. CASE i <= Len(log)
      BY <1>2, <2>2, <2>4, <3>1 DEF Same
    <3>2. CASE i > Len(log)
      <4>1. NewItem(log'[i]) /\ log'[i].kind # "user"
        BY <1>2, <2>4, <3>2 DEF Idle
      <4> QED
        BY <1>1, <1>4, <4>1 DEF NewItem
    <3> QED
      BY <1>2, <3>1, <3>2
  <2>5. PICK k \in DOMAIN log : k <= b /\ log[k].kind \in TurnKinds
    BY <1>3, <2>1 DEF PrintInv
  <2>6. k \in DOMAIN log' /\ log'[k].kind \in TurnKinds
    BY <1>2, <2>5 DEF Same
  <2> QED
    BY <2>1, <2>2, <2>3, <2>4, <2>5, <2>6 DEF Same
<1>5. CASE l > Len(console)
  <2> PICK n \in Nat, m \in Nat : n = Len(console) /\ m = Len(console')
    BY <1>1
  <2>0. m <= n + 1 /\ l \in 1..m /\ l > n
    BY <1>1, <1>3, <1>5
  <2>1. l = n + 1 /\ m # n
    BY <2>0
  <2>2. PrintedBy(b, console'[l].error)
    BY <1>3, <2>1, ConsoleSize
  <2>3. b \in DOMAIN log' /\ log'[b].pos <= Len(console) /\ log'[b].pos \in Nat
    <3>1. b \in 1..Len(log')
      BY <1>2, <2>2 DEF PrintedBy
    <3>2. CASE b <= Len(log)
      <4>1. Same(log[b], log'[b]) /\ b \in DOMAIN log /\ log[b] \in Items
        BY <1>2, <3>1, <3>2, Sizes, SMTT(30)
      <4>2. log[b].pos \in Nat
        BY <4>1 DEF Items
      <4> QED
        BY <1>2, <3>1, <4>1, <4>2 DEF Same, PosInv
    <3>3. CASE b > Len(log)
      BY <1>1, <1>2, <3>1, <3>3 DEF NewItem
    <3> QED
      BY <1>2, <3>1, <3>2, <3>3
  <2>4. log'[b].pos < l
    <3>1. PICK pos \in Nat : pos = log'[b].pos /\ pos <= n
      BY <2>3
    <3> QED
      BY <2>1, <3>1
  <2> QED
    BY <2>2, <2>3, <2>4 DEF PrintedBy
<1> QED
  BY <1>1, <1>4, <1>5

LEMMA UserIds ==
    ASSUME JhTypes
    PROVE  \A i \in DOMAIN log : log[i].kind = "user" => log[i].id \in Known
  BY DEF Known, UserMessages

LEMMA KnownNext == ASSUME JhTypes, KnownInv, Shape PROVE KnownInv'
<1>1. /\ DOMAIN log = 1..Len(log) /\ DOMAIN log' = 1..Len(log') /\ Len(log) \in Nat /\ Len(log') \in Nat
      /\ Len(log) <= Len(log')
      /\ \A i \in 1..Len(log) : Same(log[i], log'[i])
      /\ \A i \in 1..Len(log') : i > Len(log) => NewItem(log'[i])
      /\ \A i \in Len(log) + 1..Len(log') : log'[i].kind = "user" => i = Len(log) + 1
  BY Before DEF Shape, LogGrows
<1>2. PICK a \in Nat : a = Arrived
  BY KnownIsFinite
<1>3. ASSUME NEW i \in DOMAIN log', log'[i].kind = "user"
      PROVE  \/ i \in DOMAIN log /\ log[i].kind = "user" /\ log'[i].id = log[i].id /\ log[i].id \in Known
             \/ i = Len(log) + 1 /\ log'[i].id = a + 1
  <2>1. CASE i <= Len(log)
    BY <1>1, <1>3, <2>1, UserIds DEF Same
  <2>2. CASE i > Len(log)
    BY <1>1, <1>2, <1>3, <2>2 DEF NewItem
  <2> QED
    BY <1>1, <2>1, <2>2
<1>4. \A i \in DOMAIN log : i \in DOMAIN log' /\ log'[i].kind = log[i].kind /\ log'[i].id = log[i].id
  BY <1>1 DEF Same
<1>5. UserMessages(log)' \subseteq UserMessages(log) \cup {a + 1} /\ UserMessages(log) \subseteq UserMessages(log)'
  <2>1. \A x \in UserMessages(log)' : \E i \in DOMAIN log' : log'[i].kind = "user" /\ log'[i].id = x
    BY DEF UserMessages
  <2>2. \A x \in UserMessages(log) : \E i \in DOMAIN log : log[i].kind = "user" /\ log[i].id = x
    BY DEF UserMessages
  <2>3. \A x \in UserMessages(log)' : x \in UserMessages(log) \cup {a + 1}
    BY <1>3, <2>1 DEF UserMessages
  <2>4. \A x \in UserMessages(log) : x \in UserMessages(log)'
    BY <1>4, <2>2 DEF UserMessages
  <2> QED
    BY <2>3, <2>4
<1>6. LET old == {pushes[i].msg : i \in DOMAIN pushes}
          new == {pushes'[i].msg : i \in DOMAIN pushes'}
      IN  new \subseteq old \cup {a + 1} /\ old \subseteq new
  <2>1. CASE pushes' = pushes
    BY <2>1
  <2>2. CASE pushes' # pushes
    <3>1. PICK entry : entry = [at |-> Len(console), msg |-> a + 1]
      OBVIOUS
    <3>2. pushes' = Append(pushes, entry) /\ entry.msg = a + 1
      BY <1>2, <2>2, <3>1 DEF Shape, PushesGrow
    <3>3. pushes \in Seq([at : Nat, msg : Nat]) /\ Len(pushes) \in Nat
      BY DEF JhTypes
    <3>4. /\ DOMAIN pushes = 1..Len(pushes) /\ DOMAIN pushes' = 1..Len(pushes) + 1
          /\ pushes'[Len(pushes) + 1] = entry /\ \A i \in 1..Len(pushes) : pushes'[i] = pushes[i]
      BY <3>2, <3>3
    <3>5. \A i \in 1..Len(pushes) + 1 : i \in 1..Len(pushes) \/ i = Len(pushes) + 1
      BY <3>3
    <3> QED
      BY <3>2, <3>4, <3>5
  <2> QED
    BY <2>1, <2>2
<1>7. Known' \subseteq Known \cup {a + 1} /\ Known \subseteq Known'
  BY <1>5, <1>6 DEF Known
<1>8. Known = 1..a
  BY <1>2 DEF KnownInv
<1>9. Known' = 1..Arrived'
  <2>1. Known' = 1..a \/ Known' = 1..a + 1
    <3>1. 1..a + 1 = (1..a) \cup {a + 1}
      OBVIOUS
    <3>2. CASE a + 1 \in Known'
      BY <1>7, <1>8, <3>1, <3>2
    <3>3. CASE a + 1 \notin Known'
      BY <1>7, <1>8, <3>3
    <3> QED
      BY <3>2, <3>3
  <2>2. PICK n \in Nat : Known' = 1..n
    BY <2>1
  <2>3. Cardinality(1..n) = n
    BY FS_Interval
  <2> QED
    BY <2>2, <2>3 DEF Arrived
<1>10. ASSUME NEW i \in DOMAIN log', NEW k \in DOMAIN log', i < k,
              log'[i].kind = "user", log'[k].kind = "user"
       PROVE  log'[i].id < log'[k].id
  <2>1. i # Len(log) + 1 \/ k # Len(log) + 1
    BY <1>10, <1>1
  <2>2. CASE k \in DOMAIN log
    BY <1>1, <1>3, <1>4, <1>10, <2>2 DEF KnownInv
  <2>3. CASE k \notin DOMAIN log
    <3>1. k = Len(log) + 1 /\ log'[k].id = a + 1 /\ log'[i].id \in Known
      BY <1>1, <1>3, <1>10, <2>3
    <3>2. log'[i].id \in 1..a
      BY <1>8, <3>1
    <3> QED
      BY <3>1, <3>2
  <2> QED
    BY <2>2, <2>3
<1> QED
  BY <1>9, <1>10 DEF KnownInv

LEMMA HistoryStart == Init => JhInv
<1> SUFFICES ASSUME Init PROVE JhInv
  OBVIOUS
<1>1. /\ def \in JobDefs /\ log = <<>> /\ pending = <<>> /\ block = 0 /\ console = <<>> /\ pushes = <<>>
      /\ sent = <<>> /\ phase = IF def.warmup = <<>> THEN "request" ELSE "ready"
  BY DEF Init
<1>2. JhTypes
  <2>1. <<>> \in Seq(Items) /\ <<>> \in Seq(Lines) /\ <<>> \in Seq([at : Nat, msg : Nat]) /\ <<>> \in Seq(Range(<<>>))
    OBVIOUS
  <2> HIDE DEF Items, Lines
  <2> QED
    BY <1>1, <2>1 DEF JhTypes, Phases
<1>3. Known = {} /\ Arrived = 0 /\ DOMAIN log = {} /\ DOMAIN console = {} /\ DOMAIN pushes = {}
  <2>1. Known = {} /\ DOMAIN log = {} /\ DOMAIN console = {} /\ DOMAIN pushes = {}
    BY <1>1 DEF Known, UserMessages
  <2> QED
    BY <2>1, FS_EmptySet DEF Arrived
<1>4. BlockInv
  <2>1. def.warmup \in Seq([hidden : BOOLEAN, calls : Nat, text : {"code"}]) /\ Len(def.warmup) \in Nat
    BY <1>2, Sizes
  <2>2. def.warmup # <<>> => Len(def.warmup) # 0
    BY <2>1
  <2> QED
    BY <1>1, <1>3, <2>1, <2>2 DEF BlockInv
<1>5. KnownInv
  BY <1>3 DEF KnownInv
<1> QED
  BY <1>2, <1>3, <1>4, <1>5 DEF JhInv, PosInv, PrintInv

LEMMA HistoryStep == JhInv /\ [Next]_vars => JhInv'
<1> SUFFICES ASSUME JhInv, [Next]_vars PROVE JhInv'
  OBVIOUS
<1>1. Shape /\ Control
  BY StepShape DEF JhInv
<1> QED
  BY <1>1, TypesNext, BlockNext, PosNext, PrintNext, KnownNext DEF JhInv

LEMMA HistoryInvariant == Spec => []JhInv
  BY HistoryStart, HistoryStep, PTL DEF Spec

(* job.py: the log, the console and the push log keep their types, and the  *)
(* console positions of the log do not decrease and stay in the console,    *)
(* for any definitions of jobs, replies and bounds.                         *)
THEOREM HistoryTypeCorrect == Spec => []TypeOK
<1>1. ASSUME JhInv PROVE TypeOK
  <2>1. /\ Len(console) \in Nat /\ Len(log) \in Nat /\ DOMAIN log = 1..Len(log)
        /\ \A i \in DOMAIN log : log[i] \in Items
    BY <1>1, Sizes DEF JhInv
  <2>2. ASSUME NEW i \in DOMAIN log
        PROVE  log[i].kind \in Kinds /\ log[i].pos \in 0..Len(console)
    <3>1. PICK item \in Items : item = log[i]
      BY <2>1
    <3>2. item.kind \in Kinds /\ item.pos \in Nat
      BY DEF Items
    <3>3. item.pos <= Len(console)
      BY <1>1, <3>1 DEF JhInv, PosInv
    <3> QED
      BY <2>1, <3>1, <3>2, <3>3
  <2>3. ASSUME NEW l \in DOMAIN console PROVE console[l].error \in {"none", "execution", "harness"}
    <3>1. console \in Seq(Lines) /\ l \in 1..Len(console)
      BY <1>1 DEF JhInv, JhTypes
    <3>2. PICK line \in Lines : line = console[l]
      BY <3>1, ElementOfSeq
    <3> QED
      BY <3>2 DEF Lines
  <2>4. ASSUME NEW i \in DOMAIN pushes PROVE pushes[i].at \in 0..Len(console)
    <3>1. pushes \in Seq([at : Nat, msg : Nat]) /\ i \in 1..Len(pushes)
      BY <1>1 DEF JhInv, JhTypes
    <3>2. PICK entry \in [at : Nat, msg : Nat] : entry = pushes[i]
      BY <3>1, ElementOfSeq
    <3>3. entry.at <= Len(console)
      BY <1>1, <3>1, <3>2 DEF JhInv, PosInv
    <3> QED
      BY <2>1, <3>2, <3>3
  <2>5. block \in 0..Len(def.warmup)
    BY <1>1, Sizes DEF JhInv, JhTypes, BlockInv
  <2>6. \A i \in DOMAIN log : \A k \in 1..i : log[i].kind # "user" => log[k].pos <= log[i].pos
    <3>1. \A i \in DOMAIN log : \A k \in 1..i : k \in DOMAIN log /\ k <= i
      BY <2>1
    <3> QED
      BY <1>1, <3>1 DEF JhInv, PosInv
  <2> QED
    BY <1>1, <2>2, <2>3, <2>4, <2>5, <2>6 DEF TypeOK, JhInv, JhTypes, Kinds
<1> QED
  BY <1>1, HistoryInvariant, PTL

-----------------------------------------------------------------------------
(* Metrics: the errors, the sizes and the numbers of turns.                 *)
LEMMA FirstOfIs ==
    ASSUME NEW n \in Nat, NEW at, at \subseteq 1..n, at # {}
    PROVE  FirstOf(at) \in at /\ \A k \in at : FirstOf(at) <= k
<1>1. at \subseteq Nat
  OBVIOUS
<1>2. \E i \in at : \A k \in at : i <= k
  BY <1>1, LeastNumber
<1> QED
  BY <1>2 DEF FirstOf

LEMMA LogPositions ==
    ASSUME JhInv
    PROVE  /\ Len(log) \in Nat /\ DOMAIN log = 1..Len(log) /\ Turns \subseteq 1..Len(log)
           /\ Len(console) \in Nat /\ DOMAIN console = 1..Len(console)
           /\ \A i \in DOMAIN log : log[i].pos \in Nat /\ log[i].pos <= Len(console)
           /\ \A i, k \in DOMAIN log : k <= i /\ log[i].kind # "user" => log[k].pos <= log[i].pos
<1>1. /\ Len(log) \in Nat /\ DOMAIN log = 1..Len(log) /\ Turns \subseteq 1..Len(log)
      /\ Len(console) \in Nat /\ \A i \in DOMAIN log : log[i] \in Items
  BY Sizes DEF JhInv
<1>2. ASSUME NEW i \in DOMAIN log PROVE log[i].pos \in Nat
  <2>1. PICK item \in Items : item = log[i]
    BY <1>1
  <2> QED
    BY <2>1 DEF Items
<1> QED
  BY <1>1, <1>2 DEF JhInv, JhTypes, PosInv

(* The output of a turn ends where the next begins.                         *)
LEMMA TurnEndIs ==
    ASSUME JhInv, NEW i \in Turns
    PROVE  /\ TurnEnd(i) \in Nat /\ TurnEnd(i) <= Len(console) /\ log[i].pos <= TurnEnd(i)
           /\ \A k \in Turns : k > i => TurnEnd(i) <= log[k].pos
           /\ \A l \in Nat : /\ l <= Len(console)
                             /\ \A k \in Turns : k > i => l <= log[k].pos
                             => l <= TurnEnd(i)
<1> DEFINE after == {k \in Turns : k > i}
<1>1. after \subseteq 1..Len(log) /\ i \in 1..Len(log)
  BY LogPositions
<1>2. CASE after = {}
  BY <1>1, <1>2, LogPositions DEF TurnEnd
<1>3. CASE after # {}
  <2>1. FirstOf(after) \in after /\ \A k \in after : FirstOf(after) <= k
    <3> HIDE DEF after
    <3> QED
      BY <1>1, <1>3, LogPositions, FirstOfIs
  <2>2. PICK f \in 1..Len(log) : f = FirstOf(after)
    BY <1>1, <2>1
  <2>3. f \in Turns /\ f > i /\ TurnEnd(i) = log[f].pos /\ \A k \in Turns : k > i => f <= k
    BY <1>3, <2>1, <2>2 DEF TurnEnd
  <2>4. \A k \in Turns : log[k].kind # "user" /\ k \in DOMAIN log
    BY DEF Turns
  <2>5. log[i].pos <= log[f].pos
    BY <1>1, <2>2, <2>3, <2>4, LogPositions
  <2>6. \A k \in Turns : k > i => log[f].pos <= log[k].pos
    BY <2>2, <2>3, <2>4, LogPositions
  <2>7. log[f].pos \in Nat /\ log[f].pos <= Len(console)
    BY <2>2, LogPositions
  <2> QED
    BY <2>3, <2>5, <2>6, <2>7
<1> QED
  BY <1>2, <1>3

LEMMA ErrorsCounted == JhInv => ErrorsCountForTheirTurn
<1> SUFFICES ASSUME JhInv, NEW l \in DOMAIN console, console[l].error = "execution", console[l].by # 0
             PROVE  {i \in Turns : l \in TurnErrors(i)} = {console[l].by}
  BY DEF ErrorsCountForTheirTurn
<1>1. PICK b : b = console[l].by
  OBVIOUS
<1>2. /\ b \in DOMAIN log /\ log[b].pos < l
      /\ \A i \in DOMAIN log : i > b /\ log[i].kind \notin Idle => l <= log[i].pos
      /\ log[b].kind \in TurnKinds
  BY <1>1 DEF JhInv, PrintInv
<1>3. b \in Turns /\ \A k \in Turns : k > b => l <= log[k].pos
  BY <1>2 DEF Turns, TurnKinds, Idle
<1>4. l \in Nat /\ l <= Len(console)
  BY LogPositions
<1>5. log[b].pos \in Nat /\ TurnEnd(b) \in Nat /\ l <= TurnEnd(b)
  BY <1>2, <1>3, <1>4, TurnEndIs, LogPositions
<1>6. l \in TurnErrors(b)
  BY <1>2, <1>4, <1>5 DEF TurnErrors
<1>7. ASSUME NEW i \in Turns, l \in TurnErrors(i) PROVE i = b
  <2>1. log[i].pos \in Nat /\ TurnEnd(i) \in Nat /\ i \in 1..Len(log) /\ b \in 1..Len(log)
    BY <1>2, TurnEndIs, LogPositions
  <2>2. log[i].pos < l /\ l <= TurnEnd(i)
    BY <1>4, <1>7, <2>1 DEF TurnErrors
  <2>3. ~(i > b)
    BY <1>3, <1>4, <2>1, <2>2
  <2>4. ~(b > i)
    <3> SUFFICES ASSUME b > i PROVE FALSE
      OBVIOUS
    <3>1. TurnEnd(i) <= log[b].pos
      BY <1>3, TurnEndIs
    <3> QED
      BY <1>2, <1>4, <1>5, <2>1, <2>2, <3>1
  <2> QED
    BY <2>1, <2>3, <2>4, LogPositions
<1> QED
  BY <1>1, <1>3, <1>6, <1>7

(* What the user had written before a position of the log.                  *)
LEMMA UsersUpTo ==
    ASSUME JhInv, NEW n \in 0..Len(log)
    PROVE  UserMessages(SubSeq(log, 1, n)) = {log[i].id : i \in {k \in 1..n : log[k].kind = "user"}}
<1>1. log \in Seq(Items) /\ Len(log) \in Nat
  BY DEF JhInv, JhTypes
<1>2. PICK q : q = SubSeq(log, 1, n)
  OBVIOUS
<1> HIDE DEF Items
<1>3. DOMAIN q = 1..n /\ \A i \in 1..n : q[i] = log[i]
  BY <1>1, <1>2
<1> QED
  BY <1>2, <1>3 DEF UserMessages

LEMMA ConcreteFacts ==
    ASSUME JhInv
    PROVE  /\ ConcreteItems \subseteq 1..Len(log)
           /\ \A i \in ConcreteItems : log[i].kind = "llm"
  BY LogPositions DEF ConcreteItems, Concrete

LEMMA BeforeIs ==
    ASSUME JhInv, NEW i \in ConcreteItems
    PROVE  /\ LastConcreteBefore(i) \in 0..i - 1
           /\ \A k \in ConcreteItems : k < i => k <= LastConcreteBefore(i)
           /\ LastConcreteBefore(i) # 0 => LastConcreteBefore(i) \in ConcreteItems
<1> DEFINE before == {k \in ConcreteItems : k < i}
<1>1. before \subseteq 1..Len(log) /\ i \in 1..Len(log) /\ Len(log) \in Nat
  BY ConcreteFacts, LogPositions
<1>2. CASE before = {}
  BY <1>1, <1>2 DEF LastConcreteBefore
<1>3. CASE before # {}
  <2>1. LastOf(before) \in before /\ \A k \in before : k <= LastOf(before)
    <3> HIDE DEF before
    <3> QED
      BY <1>1, <1>3, LastOfIs
  <2>2. LastConcreteBefore(i) = LastOf(before)
    BY <1>3 DEF LastConcreteBefore
  <2> QED
    BY <1>1, <2>1, <2>2
<1> QED
  BY <1>2, <1>3

(* The console position and the messages of the user a turn starts from.    *)
StartOf(i) == IF LastConcreteBefore(i) = 0 THEN 0 ELSE log[LastConcreteBefore(i)].pos
UsersIn(n) == {log[i].id : i \in {k \in 1..n : log[k].kind = "user"}}

LEMMA InputIs ==
    ASSUME JhInv, NEW i \in ConcreteItems
    PROVE  /\ StepInput(i).lines = StartOf(i) + 1..log[i].pos
           /\ StepInput(i).users = UsersIn(i) \ UsersIn(LastConcreteBefore(i))
           /\ StartOf(i) \in Nat
           /\ \A k \in ConcreteItems : k < i => log[k].pos <= StartOf(i)
           /\ LastConcreteBefore(i) # 0 => StartOf(i) = log[LastConcreteBefore(i)].pos
           /\ LastConcreteBefore(i) = 0 => StartOf(i) = 0
<1>1. PICK f \in 0..i - 1 : f = LastConcreteBefore(i)
  BY BeforeIs
<1>2. i \in 1..Len(log) /\ log[i].kind = "llm" /\ Len(log) \in Nat
  BY ConcreteFacts, LogPositions
<1>3. f \in 0..Len(log) /\ i - 1 \in 0..Len(log)
  BY <1>1, <1>2
<1>4. UserMessages(SubSeq(log, 1, i - 1)) = UsersIn(i - 1) /\ UserMessages(SubSeq(log, 1, f)) = UsersIn(f)
  BY <1>3, UsersUpTo DEF UsersIn
<1>5. UsersIn(i - 1) = UsersIn(i)
  <2>1. {k \in 1..i - 1 : log[k].kind = "user"} = {k \in 1..i : log[k].kind = "user"}
    BY <1>2
  <2> QED
    BY <2>1 DEF UsersIn
<1>6. StepInput(i) = [lines |-> StartOf(i) + 1..log[i].pos, users |-> UsersIn(i) \ UsersIn(f)]
  BY <1>1, <1>4, <1>5 DEF StepInput, StartOf
<1>7. f # 0 => f \in ConcreteItems /\ f \in 1..Len(log) /\ log[f].kind = "llm"
  BY <1>1, BeforeIs, ConcreteFacts
<1>8. ASSUME NEW k \in ConcreteItems, k < i PROVE log[k].pos <= StartOf(i)
  <2>1. k <= f /\ k \in 1..Len(log)
    BY <1>1, <1>8, BeforeIs, ConcreteFacts
  <2>2. f # 0
    BY <1>1, <2>1
  <2>3. log[k].pos <= log[f].pos
    BY <1>7, <2>1, <2>2, LogPositions
  <2> QED
    BY <1>1, <2>2, <2>3 DEF StartOf
<1>9. StartOf(i) \in Nat
  BY <1>1, <1>7, LogPositions DEF StartOf
<1>10. (f # 0 => StartOf(i) = log[f].pos) /\ (f = 0 => StartOf(i) = 0)
  BY <1>1 DEF StartOf
<1> QED
  BY <1>1, <1>6, <1>8, <1>9, <1>10

LEMMA SizesCounted == JhInv => StepSizesCountOnce
<1> SUFFICES ASSUME JhInv PROVE StepSizesCountOnce
  OBVIOUS
<1>1. ASSUME NEW i \in ConcreteItems, NEW k \in ConcreteItems, i < k
      PROVE  /\ StepInput(i).lines \cap StepInput(k).lines = {}
             /\ StepInput(i).users \cap StepInput(k).users = {}
  <2>1. log[i].pos <= StartOf(k) /\ log[i].pos \in Nat /\ log[k].pos \in Nat /\ StartOf(k) \in Nat
        /\ StartOf(i) \in Nat
    BY <1>1, InputIs, LogPositions, ConcreteFacts
  <2>2. ~(\E l : l \in StartOf(i) + 1..log[i].pos /\ l \in StartOf(k) + 1..log[k].pos)
    BY <2>1
  <2>3. PICK f \in 0..k - 1 : f = LastConcreteBefore(k) /\ i <= f
    BY <1>1, BeforeIs
  <2>4. 1..i \subseteq 1..f
    BY <2>3, ConcreteFacts
  <2>5. UsersIn(i) \subseteq UsersIn(f)
    BY <2>4 DEF UsersIn
  <2> QED
    BY <2>2, <2>3, <2>5, InputIs
<1>2. \A i, k \in ConcreteItems : i # k => i < k \/ k < i
  BY ConcreteFacts, LogPositions
<1>3. \A i, k \in ConcreteItems : i # k =>
         /\ StepInput(i).lines \cap StepInput(k).lines = {}
         /\ StepInput(i).users \cap StepInput(k).users = {}
  BY <1>1, <1>2
<1>4. ASSUME NEW k \in ConcreteItems, NEW l \in 1..log[k].pos
      PROVE  \E m \in ConcreteItems : l \in StepInput(m).lines
  <2> DEFINE T == {m \in ConcreteItems : l <= log[m].pos}
  <2>1. T \subseteq 1..Len(log) /\ T # {}
    <3>1. k \in T
      BY <1>4, LogPositions, ConcreteFacts
    <3> QED
      BY <3>1, ConcreteFacts
  <2>2. PICK m \in T : \A x \in T : m <= x
    <3>1. T \subseteq Nat
      BY <2>1
    <3> HIDE DEF T
    <3> QED
      BY <2>1, <3>1, LeastNumber
  <2>3. m \in ConcreteItems /\ l <= log[m].pos /\ m \in Nat
    BY <2>1, <2>2
  <2>4. PICK f \in 0..m - 1 : f = LastConcreteBefore(m)
    BY <2>3, BeforeIs
  <2>5. StartOf(m) < l
    <3>1. CASE f = 0
      <4>1. StartOf(m) = 0
        BY <2>3, <2>4, <3>1, InputIs
      <4> QED
        BY <4>1, <1>4, LogPositions, ConcreteFacts
    <3>2. CASE f # 0
      <4>1. f \in ConcreteItems /\ f < m
        BY <2>3, <2>4, <3>2, BeforeIs
      <4>2. f \notin T
        BY <2>2, <2>3, <2>4, <4>1
      <4>3. ~(l <= log[f].pos) /\ log[f].pos \in Nat /\ l \in Nat
        BY <4>1, <4>2, LogPositions, ConcreteFacts
      <4>4. StartOf(m) = log[f].pos
        BY <2>3, <2>4, <3>2, InputIs
      <4> QED
        BY <4>3, <4>4
    <3> QED
      BY <3>1, <3>2
  <2>6. StartOf(m) \in Nat /\ log[m].pos \in Nat /\ l \in Nat
    BY <2>3, InputIs, LogPositions, ConcreteFacts
  <2>7. l \in StartOf(m) + 1..log[m].pos
    BY <2>3, <2>5, <2>6
  <2> QED
    BY <2>3, <2>7, InputIs
<1>5. ASSUME NEW k \in ConcreteItems, NEW u \in UserMessages(SubSeq(log, 1, k))
      PROVE  \E n \in ConcreteItems : u \in StepInput(n).users
  <2> DEFINE T == {n \in ConcreteItems : u \in UsersIn(n)}
  <2>1. k \in T
    <3>1. k \in 0..Len(log)
      BY ConcreteFacts, LogPositions
    <3> QED
      BY <1>5, <3>1, UsersUpTo DEF UsersIn
  <2>2. PICK n \in T : \A x \in T : n <= x
    <3>1. T \subseteq Nat
      BY ConcreteFacts
    <3> HIDE DEF T
    <3> QED
      BY <2>1, <3>1, LeastNumber
  <2>3. n \in ConcreteItems /\ u \in UsersIn(n) /\ n \in Nat
    BY <2>2, ConcreteFacts
  <2>4. PICK f \in 0..n - 1 : f = LastConcreteBefore(n)
    BY <2>3, BeforeIs
  <2>5. u \notin UsersIn(f)
    <3>1. CASE f = 0
      BY <3>1 DEF UsersIn
    <3>2. CASE f # 0
      <4>1. f \in ConcreteItems /\ ~(n <= f)
        BY <2>3, <2>4, <3>2, BeforeIs
      <4> QED
        BY <2>2, <4>1
    <3> QED
      BY <3>1, <3>2
  <2> QED
    BY <2>3, <2>4, <2>5, InputIs
<1> QED
  BY <1>3, <1>4, <1>5 DEF StepSizesCountOnce

LEMMA TurnsNumbered == JhInv => TurnNumbersAgree
<1> SUFFICES ASSUME JhInv, \A i \in ConcreteItems : ShowsReply(i), NEW i \in ConcreteItems
             PROVE  TurnNum(i) = Cardinality({k \in ConcreteItems : k < i})
  BY DEF TurnNumbersAgree
<1>1. ASSUME NEW k \in LlmItems, k \notin ConcreteItems PROVE ~ShowsReply(k)
  <2>1. k \in DOMAIN log /\ log[k].kind = "llm" /\ log[k].reply.text = "none" /\ log[k].reply.calls = 0
    BY <1>1 DEF LlmItems, ConcreteItems, Concrete, JhInv, BlockInv, Answers
  <2>2. PICK item : item = log[k]
    OBVIOUS
  <2>3. Block(item) = item.reply /\ Calls(item) = 0
    BY <2>1, <2>2 DEF Block, Calls
  <2>4. ToolMessages(item, k) = <<>>
    BY <2>3 DEF ToolMessages
  <2>5. AssistantMessages(item, k) = <<>> \o <<>>
    BY <2>1, <2>2, <2>3, <2>4 DEF AssistantMessages
  <2>6. DOMAIN AssistantMessages(log[k], k) = {}
    BY <2>2, <2>5
  <2> QED
    BY <2>6 DEF ShowsReply
<1>2. ConcreteItems \subseteq LlmItems
  BY DEF ConcreteItems, LlmItems, Concrete
<1>3. {k \in LlmItems : k < i /\ ShowsReply(k)} = {k \in ConcreteItems : k < i}
  BY <1>1, <1>2
<1> QED
  BY <1>3 DEF TurnNum

-----------------------------------------------------------------------------
(* The messages of a history: what each shows, and of which item.           *)
Outcomes == {"empty", "ok", "error"}
Roles == {"user", "assistant", "system", "tool"}
Whats == {"user", "calls", "subtask", "note", "code", "payload", "console", "post", "reminder"}
         \cup Outcomes
MsgT == [role : Roles, what : Whats, refs : Seq(Nat)]
PushT == [at : Nat, msg : Nat]

LEMMA MsgMade ==
    ASSUME NEW role \in Roles, NEW what \in Whats, NEW refs \in Seq(Nat),
           NEW msg, msg = Msg(role, what, refs)
    PROVE  msg \in MsgT /\ msg.role = role /\ msg.what = what /\ msg.refs = refs
<1> HIDE DEF Roles, Whats
<1> QED
  BY DEF Msg, MsgT

LEMMA OneMessage ==
    ASSUME NEW role \in Roles, NEW what \in Whats, NEW refs \in Seq(Nat),
           NEW q, q = <<Msg(role, what, refs)>>
    PROVE  /\ q \in Seq(MsgT) /\ Len(q) = 1 /\ q[1] \in MsgT
           /\ q[1].role = role /\ q[1].what = what /\ q[1].refs = refs
<1>1. PICK msg : msg = Msg(role, what, refs)
  OBVIOUS
<1>2. msg \in MsgT /\ msg.role = role /\ msg.what = what /\ msg.refs = refs
  BY <1>1, MsgMade
<1> HIDE DEF MsgT
<1> QED
  BY <1>1, <1>2

LEMMA NumbersAre ==
    ASSUME NEW from \in Nat, NEW to \in Nat
    PROVE  /\ Numbers(from, to) \in Seq(Nat)
           /\ \A k \in DOMAIN Numbers(from, to) : Numbers(from, to)[k] = from + k /\ from + k <= to
           /\ \A l \in from + 1..to : l - from \in DOMAIN Numbers(from, to) /\ Numbers(from, to)[l - from] = l
           /\ {Numbers(from, to)[k] : k \in DOMAIN Numbers(from, to)} = from + 1..to
           /\ DOMAIN Numbers(from, to) = 1..to - from
<1> DEFINE q == Numbers(from, to)
<1>1. DOMAIN q = 1..to - from /\ \A k \in 1..to - from : q[k] = from + k
  BY DEF Numbers
<1>2. q \in Seq(Nat)
  <2>1. CASE to <= from
    <3>1. 1..to - from = {}
      BY <2>1
    <3>2. q = <<>>
      BY <3>1 DEF Numbers
    <3> QED
      BY <3>2
  <2>2. CASE to > from
    <3>1. PICK n \in Nat : n = to - from
      BY <2>2
    <3>2. q = [k \in 1..n |-> from + k]
      BY <3>1 DEF Numbers
    <3> QED
      BY <3>1, <3>2
  <2> QED
    BY <2>1, <2>2
<1>3. \A l \in from + 1..to : l - from \in 1..to - from /\ from + (l - from) = l
  OBVIOUS
<1>4. {q[k] : k \in DOMAIN q} = from + 1..to
  <2>1. \A k \in 1..to - from : q[k] \in from + 1..to
    BY <1>1
  <2>2. \A l \in from + 1..to : \E k \in 1..to - from : q[k] = l
    BY <1>1, <1>3
  <2> QED
    BY <1>1, <2>1, <2>2
<1> QED
  BY <1>1, <1>2, <1>3, <1>4

(* The block of a turn and what it calls.                                   *)
LEMMA BlockIs ==
    ASSUME JhTypes, NEW item \in Items, HasBlock(item), item.kind \in TurnKinds
    PROVE  Calls(item) \in Nat
<1>1. CASE item.kind = "warmup"
  <2>1. PICK k \in 1..Len(def.warmup) : k = item.id + 1
    BY <1>1, Sizes DEF HasBlock
  <2>2. Block(item) = def.warmup[k]
    BY <1>1, <2>1 DEF Block
  <2> QED
    BY <2>1, <2>2, WarmupBlock DEF Calls
<1>2. CASE item.kind # "warmup"
  <2>1. item.reply \in ReplyRecords /\ Block(item) = item.reply
    BY <1>2 DEF Items, Block
  <2>2. item.reply.calls \in Nat
    BY <2>1 DEF ReplyRecords
  <2> QED
    BY <2>1, <2>2 DEF Calls
<1> QED
  BY <1>1, <1>2

LEMMA ToolMessagesAre ==
    ASSUME JhTypes, NEW item \in Items, HasBlock(item), item.kind \in TurnKinds, NEW i \in Nat
    PROVE  /\ ToolMessages(item, i) \in Seq(MsgT)
           /\ DOMAIN ToolMessages(item, i) = 1..Calls(item)
           /\ \A k \in 1..Calls(item) :
                 /\ ToolMessages(item, i)[k].role = "tool" /\ ToolMessages(item, i)[k].refs = <<i, k>>
                 /\ ToolMessages(item, i)[k].what \in Outcomes
<1>1. PICK n \in Nat : n = Calls(item)
  BY BlockIs
<1>2. PICK results \in Results : results = item.results
  BY DEF Items
<1> DEFINE q == ToolMessages(item, i)
           Face(k) == Msg("tool", IF k \in DOMAIN results THEN results[k] ELSE "empty", <<i, k>>)
<1>3. q = [k \in 1..n |-> Face(k)]
  BY <1>1, <1>2 DEF ToolMessages
<1>4. ASSUME NEW k \in 1..n
      PROVE  /\ Face(k) \in MsgT /\ Face(k).role = "tool" /\ Face(k).refs = <<i, k>>
             /\ Face(k).what \in Outcomes
  <2>1. PICK what : what = IF k \in DOMAIN results THEN results[k] ELSE "empty"
    OBVIOUS
  <2>2. what \in Outcomes
    BY <1>2, <2>1 DEF Results, Outcomes
  <2>3. <<i, k>> \in Seq(Nat) /\ "tool" \in Roles /\ what \in Whats
    BY <2>2 DEF Roles, Whats
  <2>6. PICK refs \in Seq(Nat) : refs = <<i, k>>
    BY <2>3
  <2>4. PICK msg : msg = Msg("tool", what, refs)
    OBVIOUS
  <2>5. msg \in MsgT /\ msg.role = "tool" /\ msg.refs = refs /\ msg.what = what
    BY <2>3, <2>4, MsgMade
  <2> QED
    BY <2>1, <2>2, <2>4, <2>5, <2>6
<1> HIDE DEF MsgT, Face
<1>5. q \in Seq(MsgT) /\ DOMAIN q = 1..n /\ \A k \in 1..n : q[k] = Face(k)
  BY <1>1, <1>3, <1>4
<1> QED
  BY <1>1, <1>4, <1>5

(* Two sequences of messages that differ only in outcomes of tools.         *)
Alike(p, q) ==
    /\ p \in Seq(MsgT) /\ q \in Seq(MsgT) /\ Len(p) = Len(q)
    /\ \A k \in 1..Len(p) : p[k].role = q[k].role /\ p[k].refs = q[k].refs

LEMMA AlikeJoined ==
    ASSUME NEW a, NEW b, NEW c, NEW d, Alike(a, b), Alike(c, d)
    PROVE  Alike(a \o c, b \o d)
<1>6. a \in Seq(MsgT) /\ c \in Seq(MsgT)
  BY DEF Alike
<1>7. b \in Seq(MsgT) /\ d \in Seq(MsgT)
  BY DEF Alike
<1>1. /\ Len(a) = Len(b) /\ Len(c) = Len(d) /\ Len(a) \in Nat /\ Len(c) \in Nat
  BY DEF Alike
<1>2. PICK p, q : p = a \o c /\ q = b \o d
  OBVIOUS
<1> HIDE DEF MsgT
<1>3. /\ p \in Seq(MsgT) /\ Len(p) = Len(a) + Len(c)
      /\ (\A k \in 1..Len(a) : p[k] = a[k])
      /\ (\A k \in Len(a) + 1..Len(a) + Len(c) : p[k] = c[k - Len(a)])
  BY <1>6, <1>2, ConcatProperties
<1>4. /\ q \in Seq(MsgT) /\ Len(q) = Len(a) + Len(c)
      /\ (\A k \in 1..Len(a) : q[k] = b[k])
      /\ (\A k \in Len(a) + 1..Len(a) + Len(c) : q[k] = d[k - Len(a)])
  BY <1>1, <1>7, <1>2, ConcatProperties
<1>5. ASSUME NEW k \in 1..Len(p) PROVE p[k].role = q[k].role /\ p[k].refs = q[k].refs
  <2>1. CASE k <= Len(a)
    BY <1>1, <1>3, <1>4, <2>1, SMTT(30) DEF Alike
  <2>2. CASE k > Len(a)
    <3>1. k \in Len(a) + 1..Len(a) + Len(c) /\ k - Len(a) \in 1..Len(c)
      BY <1>1, <1>3, <2>2
    <3>2. PICK m \in 1..Len(c) : m = k - Len(a)
      BY <3>1
    <3>3. p[k] = c[m] /\ q[k] = d[m] /\ c[m].role = d[m].role /\ c[m].refs = d[m].refs
      BY <1>3, <1>4, <3>1, <3>2 DEF Alike
    <3> QED
      BY <3>3
  <2> QED
    BY <1>1, <1>3, <2>1, <2>2
<1> QED
  BY <1>2, <1>3, <1>4, <1>5 DEF Alike

LEMMA AlikeSelf == ASSUME NEW a \in Seq(MsgT) PROVE Alike(a, a)
  BY DEF Alike

(* Nothing of it is console output.                                         *)
NoOutput(p) == p \in Seq(MsgT) /\ \A k \in 1..Len(p) : p[k].what # "console"

LEMMA NoOutputOf ==
    ASSUME NEW role \in Roles, NEW what \in Whats \ {"console"}, NEW refs \in Seq(Nat)
    PROVE  NoOutput(<<Msg(role, what, refs)>>)
<1>1. PICK q : q = <<Msg(role, what, refs)>>
  OBVIOUS
<1>2. q \in Seq(MsgT) /\ Len(q) = 1 /\ q[1].what = what
  BY <1>1, OneMessage
<1> QED
  BY <1>1, <1>2 DEF NoOutput

LEMMA NoOutputJoined ==
    ASSUME NEW a, NEW b, NoOutput(a), NoOutput(b) PROVE NoOutput(a \o b)
<1>1. a \in Seq(MsgT) /\ b \in Seq(MsgT) /\ Len(a) \in Nat /\ Len(b) \in Nat
  BY DEF NoOutput
<1>2. PICK p : p = a \o b
  OBVIOUS
<1> HIDE DEF MsgT
<1>3. /\ p \in Seq(MsgT) /\ Len(p) = Len(a) + Len(b)
      /\ (\A k \in 1..Len(a) : p[k] = a[k])
      /\ (\A k \in Len(a) + 1..Len(a) + Len(b) : p[k] = b[k - Len(a)])
  BY <1>1, <1>2, ConcatProperties
<1>4. ASSUME NEW k \in 1..Len(p) PROVE p[k].what # "console"
  <2>1. CASE k <= Len(a)
    BY <1>1, <1>3, <2>1 DEF NoOutput
  <2>2. CASE k > Len(a)
    <3>1. k \in Len(a) + 1..Len(a) + Len(b) /\ k - Len(a) \in 1..Len(b)
      BY <1>1, <1>3, <2>2
    <3> QED
      BY <1>3, <3>1 DEF NoOutput
  <2> QED
    BY <1>1, <2>1, <2>2
<1> QED
  BY <1>2, <1>3, <1>4 DEF NoOutput

LEMMA AsUserIs ==
    ASSUME NEW values \in Seq(PushT) PROVE NoOutput(AsUser(values)) /\ Len(AsUser(values)) = Len(values)
<1>1. PICK n \in Nat : n = Len(values) /\ DOMAIN values = 1..n
  OBVIOUS
<1> DEFINE q == AsUser(values)
<1>2. DOMAIN q = 1..n /\ \A k \in 1..n : q[k] = Msg("user", "user", <<values[k].msg>>)
  BY <1>1 DEF AsUser
<1>3. ASSUME NEW k \in 1..n PROVE q[k] \in MsgT /\ q[k].what = "user"
  <2>1. PICK entry \in PushT : entry = values[k]
    BY <1>1, ElementOfSeq
  <2>2. entry.msg \in Nat
    BY DEF PushT
  <2>7. <<entry.msg>> \in Seq(Nat)
    BY <2>2
  <2>3. PICK refs \in Seq(Nat) : refs = <<entry.msg>>
    BY <2>7
  <2>4. PICK msg : msg = Msg("user", "user", refs)
    OBVIOUS
  <2>5. "user" \in Roles /\ "user" \in Whats
    BY DEF Roles, Whats
  <2>6. msg \in MsgT /\ msg.what = "user"
    BY <2>4, <2>5, MsgMade
  <2> QED
    BY <1>2, <2>1, <2>3, <2>4, <2>6
<1>4. q = [k \in 1..n |-> q[k]]
  BY <1>1 DEF AsUser
<1> HIDE DEF MsgT, q
<1>5. q \in Seq(MsgT) /\ Len(q) = n
  BY <1>2, <1>3, <1>4
<1> QED
  BY <1>1, <1>3, <1>5 DEF NoOutput, q

(* The text a turn shows, without its calls.                                *)
Said(item, i) ==
    LET said == Block(item)
        shown == said.text = "code" \/ said.text = "dialog"
    IN  IF shown \/ said.calls > 0 THEN <<Msg("assistant", "code", <<i>>)>>
        ELSE IF item.kind = "llm" /\ said.text = "blank" /\ said.payload
             THEN <<Msg("assistant", "payload", <<i>>)>> ELSE <<>>

LEMMA SaidIs ==
    ASSUME NEW item, NEW i \in Nat
    PROVE  /\ AssistantMessages(item, i) = Said(item, i) \o ToolMessages(item, i)
           /\ NoOutput(Said(item, i)) /\ Len(Said(item, i)) \in {0, 1}
           /\ \A k \in 1..Len(Said(item, i)) :
                 k = 1 /\ Said(item, i)[k].role = "assistant" /\ Said(item, i)[k].refs = <<i>>
<1>1. AssistantMessages(item, i) = Said(item, i) \o ToolMessages(item, i)
  BY DEF AssistantMessages, Said
<1>7. <<i>> \in Seq(Nat)
  OBVIOUS
<1>2. PICK refs \in Seq(Nat) : refs = <<i>>
  BY <1>7
<1>3. \/ Said(item, i) = <<>>
      \/ Said(item, i) = <<Msg("assistant", "code", refs)>>
      \/ Said(item, i) = <<Msg("assistant", "payload", refs)>>
  BY <1>2 DEF Said
<1>4. "assistant" \in Roles /\ "code" \in Whats \ {"console"} /\ "payload" \in Whats \ {"console"}
  BY DEF Roles, Whats, Outcomes
<1>5. ASSUME NEW what \in {"code", "payload"}, Said(item, i) = <<Msg("assistant", what, refs)>>
      PROVE  /\ NoOutput(Said(item, i)) /\ Len(Said(item, i)) = 1
             /\ Said(item, i)[1].role = "assistant" /\ Said(item, i)[1].refs = refs
  <2>1. what \in Whats \ {"console"} /\ what \in Whats
    BY <1>4
  <2>2. PICK q : q = Said(item, i)
    OBVIOUS
  <2>3. Len(q) = 1 /\ q[1].role = "assistant" /\ q[1].refs = refs
    BY <1>4, <1>5, <2>1, <2>2, OneMessage
  <2>4. NoOutput(q)
    BY <1>4, <1>5, <2>1, <2>2, NoOutputOf
  <2> QED
    BY <2>2, <2>3, <2>4
<1>6. Said(item, i) = <<>> => NoOutput(Said(item, i)) /\ Len(Said(item, i)) = 0
  BY DEF NoOutput
<1> QED
  BY <1>1, <1>2, <1>3, <1>5, <1>6

LEMMA AssistantMessagesAre ==
    ASSUME JhTypes, NEW item \in Items, HasBlock(item), item.kind \in TurnKinds, NEW i \in Nat
    PROVE  /\ NoOutput(AssistantMessages(item, i))
           /\ Calls(item) = 0 => AssistantMessages(item, i) = Said(item, i)
<1>1. PICK p, q : p = Said(item, i) /\ q = ToolMessages(item, i)
  OBVIOUS
<1>2. NoOutput(p) /\ AssistantMessages(item, i) = p \o q
  BY <1>1, SaidIs
<1>3. /\ q \in Seq(MsgT) /\ DOMAIN q = 1..Calls(item) /\ Calls(item) \in Nat
      /\ \A k \in 1..Calls(item) : q[k].what \in Outcomes
  BY <1>1, ToolMessagesAre, BlockIs
<1>4. Len(q) = Calls(item) /\ NoOutput(q)
  <2> HIDE DEF MsgT
  <2>1. Len(q) = Calls(item)
    BY <1>3
  <2> QED
    BY <1>3, <2>1 DEF NoOutput, Outcomes
<1>5. Calls(item) = 0 => p \o q = p
  <2>1. Calls(item) = 0 => q = <<>>
    BY <1>3, <1>4, EmptySeq
  <2> QED
    BY <1>2, <2>1 DEF NoOutput
<1> QED
  BY <1>1, <1>2, <1>4, <1>5, NoOutputJoined

(* A message of console output, after the message of the turn.              *)
Framed(a, c, u) ==
    /\ NoOutput(a) /\ NoOutput(u) /\ c \in Seq(MsgT) /\ Len(a) \in {0, 1} /\ Len(c) \in {0, 1}
    /\ \A k \in 1..Len(c) : c[k].what = "console"
OutputAfter(a, c, q) ==
    /\ q \in Seq(MsgT)
    /\ \A k \in 1..Len(q) : q[k].what = "console" => Len(c) = 1 /\ k = Len(a) + 1 /\ q[k] = c[1]
    /\ Len(c) = 1 => Len(a) + 1 \in 1..Len(q) /\ q[Len(a) + 1] = c[1] /\ c[1].what = "console"
    /\ Len(a) = 1 => q[1] = a[1]
LEMMA OneOutput == ASSUME NEW a, NEW c, NEW u, Framed(a, c, u) PROVE OutputAfter(a, c, (a \o c) \o u)
<1> HIDE DEF MsgT
<1>11. PICK q : q = (a \o c) \o u
  OBVIOUS
<1>1. a \in Seq(MsgT) /\ u \in Seq(MsgT) /\ c \in Seq(MsgT) /\ Len(a) \in {0, 1} /\ Len(c) \in {0, 1}
      /\ \A k \in 1..Len(c) : c[k].what = "console"
  BY DEF NoOutput, Framed
<1>10. NoOutput(a) /\ NoOutput(u)
  BY DEF Framed
<1>2. PICK p : p = a \o c
  OBVIOUS
<1>3. /\ p \in Seq(MsgT) /\ Len(p) = Len(a) + Len(c)
      /\ (\A k \in 1..Len(a) : p[k] = a[k])
      /\ (\A k \in Len(a) + 1..Len(a) + Len(c) : p[k] = c[k - Len(a)])
  BY <1>1, <1>2, ConcatProperties
<1>4. /\ q \in Seq(MsgT) /\ Len(q) = Len(p) + Len(u)
      /\ (\A k \in 1..Len(p) : q[k] = p[k])
      /\ (\A k \in Len(p) + 1..Len(p) + Len(u) : q[k] = u[k - Len(p)])
  <2>1. q = p \o u
    BY <1>11, <1>2
  <2> QED
    BY <1>1, <1>3, <2>1, ConcatProperties, SMTT(30)
<1>5. PICK m, n, r \in Nat : m = Len(a) /\ n = Len(c) /\ r = Len(u)
  BY <1>1
<1>6. Len(p) = m + n /\ Len(q) = (m + n) + r /\ m \in {0, 1} /\ n \in {0, 1}
  BY <1>1, <1>3, <1>4, <1>5
<1>7. ASSUME NEW k \in 1..Len(q), q[k].what = "console"
      PROVE  n = 1 /\ k = m + 1 /\ q[k] = c[1]
  <2>1. ~(k <= m)
    <3> SUFFICES ASSUME k <= m PROVE FALSE
      OBVIOUS
    <3>1. k \in 1..Len(a) /\ k \in 1..Len(p)
      BY <1>5, <1>6
    <3>2. q[k] = a[k]
      BY <1>3, <1>4, <3>1
    <3> QED
      BY <1>10, <1>7, <3>1, <3>2 DEF NoOutput
  <2>2. ~(k > m + n)
    <3> SUFFICES ASSUME k > m + n PROVE FALSE
      OBVIOUS
    <3>1. k \in Len(p) + 1..Len(p) + Len(u) /\ k - Len(p) \in 1..Len(u)
      BY <1>5, <1>6
    <3>2. q[k] = u[k - Len(p)]
      BY <1>4, <3>1
    <3> QED
      BY <1>10, <1>7, <3>1, <3>2 DEF NoOutput
  <2>3. n = 1 /\ k = m + 1
    BY <1>6, <2>1, <2>2
  <2>4. k \in 1..Len(p) /\ k \in Len(a) + 1..Len(a) + Len(c) /\ k - Len(a) = 1
    BY <1>5, <1>6, <2>3
  <2> QED
    BY <1>3, <1>4, <2>3, <2>4
<1>8. n = 1 => m + 1 \in 1..Len(q) /\ q[m + 1] = c[1] /\ c[1].what = "console"
  <2> SUFFICES ASSUME n = 1 PROVE m + 1 \in 1..Len(q) /\ q[m + 1] = c[1] /\ c[1].what = "console"
    OBVIOUS
  <2>1. PICK k : k = m + 1
    OBVIOUS
  <2>2. k \in 1..Len(p) /\ k \in Len(a) + 1..Len(a) + Len(c) /\ k - Len(a) = 1 /\ k \in 1..Len(q) /\ 1 \in 1..Len(c)
    BY <1>5, <1>6, <2>1, SMTT(30)
  <2> QED
    BY <1>1, <1>3, <1>4, <2>1, <2>2
<1>9. m = 1 => q[1] = a[1]
  <2> SUFFICES ASSUME m = 1 PROVE q[1] = a[1]
    OBVIOUS
  <2>3. Len(p) = 1 + n /\ Len(a) = 1
    BY <1>5, <1>6
  <2>1. 1 \in 1..Len(p) /\ 1 \in 1..Len(a)
    BY <2>3
  <2> QED
    BY <1>3, <1>4, <2>1
<1> QED
  BY <1>11, <1>4, <1>5, <1>7, <1>8, <1>9 DEF OutputAfter

(* What the messages of an entry say of the output of its turn.             *)
OutputAt(q) == {k \in 1..Len(q) : q[k].what = "console"}
ShowsOnce(q, item, i, end) ==
    /\ \A k, m \in OutputAt(q) : k = m
    /\ \A k \in OutputAt(q) :
          /\ q[k].refs = Numbers(item.pos, end)
          /\ Said(item, i) # <<>> => k - 1 \in 1..Len(q) /\ q[k - 1].role = "assistant" /\ q[k - 1].refs = <<i>>
    /\ end > item.pos => OutputAt(q) # {}

LEMMA ExecutionIs ==
    ASSUME JhTypes, NEW item \in Items, HasBlock(item), item.kind \in TurnKinds, NEW i \in Nat,
           NEW end \in Nat, NEW pushed \in Seq(PushT),
           NEW q, q = ExecutionMessages(item, i, end, pushed)
    PROVE  /\ q \in Seq(MsgT)
           /\ Hidden(item) \/ Calls(item) # 0 => NoOutput(q)
           /\ ~Hidden(item) /\ Calls(item) = 0 => ShowsOnce(q, item, i, end)
<1>1. PICK u : u = AsUser(PushedIn(pushed, item.pos, end))
  OBVIOUS
<1>2. NoOutput(u)
  <2>1. PushedIn(pushed, item.pos, end) \in Seq(PushT)
    <3>1. {k \in DOMAIN pushed : item.pos < pushed[k].at /\ pushed[k].at <= end} \subseteq DOMAIN pushed
      OBVIOUS
    <3> QED
      BY <3>1, PickedIs DEF PushedIn
  <2> QED
    BY <1>1, <2>1, AsUserIs
<1>3. item.pos \in Nat
  BY DEF Items
<1>4. PICK refs \in Seq(Nat) : refs = Numbers(item.pos, end)
  BY <1>3, NumbersAre
<1>5. PICK s : s = Said(item, i)
  OBVIOUS
<1>6. NoOutput(s) /\ Len(s) \in {0, 1} /\ \A k \in 1..Len(s) : k = 1 /\ s[k].role = "assistant" /\ s[k].refs = <<i>>
  BY <1>5, SaidIs
<1>7. {"assistant", "tool", "user"} \subseteq Roles /\ "console" \in Whats /\ "calls" \in Whats \ {"console"} /\ "calls" \in Whats
  BY DEF Roles, Whats, Outcomes
<1>8. CASE Hidden(item)
  <2>1. q = <<>>
    BY <1>8 DEF ExecutionMessages
  <2> QED
    BY <1>8, <2>1 DEF NoOutput
<1>9. CASE ~Hidden(item) /\ Calls(item) # 0
  <2>1. PICK p : p = AssistantMessages(item, i)
    OBVIOUS
  <2>2. NoOutput(p)
    BY <2>1, AssistantMessagesAre
  <2>3. q = (p \o <<>>) \o u
    BY <1>1, <1>9, <2>1 DEF ExecutionMessages, DirectWarmup
  <2>4. NoOutput(<<>>)
    BY DEF NoOutput
  <2>5. NoOutput(q)
    BY <1>2, <2>2, <2>3, <2>4, NoOutputJoined
  <2> QED
    BY <1>9, <2>5 DEF NoOutput
<1>10. CASE ~Hidden(item) /\ Calls(item) = 0
  <2>1. \E a, c : /\ NoOutput(a) /\ Len(a) \in {0, 1} /\ c \in Seq(MsgT) /\ Len(c) \in {0, 1}
                  /\ (\A k \in 1..Len(c) : c[k].what = "console" /\ c[k].refs = refs)
                  /\ (s # <<>> => Len(a) = 1)
                  /\ (Len(a) = 1 => a[1].role = "assistant" /\ a[1].refs = <<i>>)
                  /\ (end > item.pos => Len(c) = 1)
                  /\ q = (a \o c) \o u
    <3>1. CASE DirectWarmup(item)
      <4>1. PICK one \in Seq(Nat) : one = <<i>>
        <5>1. <<i>> \in Seq(Nat)
          OBVIOUS
        <5> QED
          BY <5>1
      <4>2. PICK a, c : a = <<Msg("assistant", "calls", one)>> /\ c = <<Msg("tool", "console", refs)>>
        OBVIOUS
      <4>3. NoOutput(a) /\ Len(a) = 1 /\ a[1].role = "assistant" /\ a[1].refs = one
        BY <1>7, <4>2, OneMessage, NoOutputOf, SMTT(30)
      <4>4. c \in Seq(MsgT) /\ Len(c) = 1 /\ c[1].what = "console" /\ c[1].refs = refs
        BY <1>7, <4>2, OneMessage
      <4>5. q = Synthetic(i, [what |-> "console", refs |-> refs]) \o u
        BY <1>1, <1>4, <1>10, <3>1 DEF ExecutionMessages
      <4>6. Synthetic(i, [what |-> "console", refs |-> refs]) = <<Msg("assistant", "calls", one), Msg("tool", "console", refs)>>
        BY <4>1 DEF Synthetic
      <4>7. Synthetic(i, [what |-> "console", refs |-> refs]) = a \o c
        BY <4>2, <4>6
      <4>8. \A k \in 1..1 : k = 1
        OBVIOUS
      <4> QED
        BY <4>1, <4>3, <4>4, <4>5, <4>7, <4>8
    <3>2. CASE ~DirectWarmup(item)
      <4>1. PICK c : c = ConsoleMessage(item.pos, end)
        OBVIOUS
      <4>2. q = (s \o c) \o u
        <5>1. AssistantMessages(item, i) = s
          BY <1>5, <1>10, AssistantMessagesAre
        <5> QED
          BY <1>1, <1>10, <3>2, <4>1, <5>1 DEF ExecutionMessages
      <4>3. CASE end > item.pos
        <5>1. c = <<Msg("user", "console", refs)>>
          BY <1>4, <4>1, <4>3 DEF ConsoleMessage
        <5>2. c \in Seq(MsgT) /\ Len(c) = 1 /\ c[1].what = "console" /\ c[1].refs = refs
          BY <1>7, <5>1, OneMessage
        <5>3. (\A k \in 1..1 : k = 1) /\ 1 \in 1..1
          OBVIOUS
        <5>4. s # <<>> => Len(s) = 1
          BY <1>6, EmptySeq DEF NoOutput
        <5> QED
          BY <1>6, <4>2, <5>2, <5>3, <5>4
      <4>4. CASE ~(end > item.pos)
        <5>1. c = <<>>
          BY <4>1, <4>4 DEF ConsoleMessage
        <5>2. c \in Seq(MsgT) /\ Len(c) = 0 /\ ~(\E k : k \in 1..0)
          BY <5>1
        <5>3. 1 \in 1..1
          OBVIOUS
        <5>4. s # <<>> => Len(s) = 1
          BY <1>6, EmptySeq DEF NoOutput
        <5> QED
          BY <1>6, <4>2, <4>4, <5>2, <5>3, <5>4
      <4> QED
        BY <4>3, <4>4
    <3> QED
      BY <3>1, <3>2
  <2>2. PICK a, c : /\ NoOutput(a) /\ Len(a) \in {0, 1} /\ c \in Seq(MsgT) /\ Len(c) \in {0, 1}
                  /\ (\A k \in 1..Len(c) : c[k].what = "console" /\ c[k].refs = refs)
                  /\ (s # <<>> => Len(a) = 1)
                  /\ (Len(a) = 1 => a[1].role = "assistant" /\ a[1].refs = <<i>>)
                  /\ (end > item.pos => Len(c) = 1)
                  /\ q = (a \o c) \o u
    BY <2>1
  <2>3. /\ q \in Seq(MsgT)
        /\ \A k \in 1..Len(q) : q[k].what = "console" => Len(c) = 1 /\ k = Len(a) + 1 /\ q[k] = c[1]
        /\ Len(c) = 1 => Len(a) + 1 \in 1..Len(q) /\ q[Len(a) + 1] = c[1] /\ c[1].what = "console"
        /\ Len(a) = 1 => q[1] = a[1]
    <3>1. Framed(a, c, u)
      BY <1>2, <2>2 DEF Framed
    <3>2. OutputAfter(a, c, q)
      BY <2>2, <3>1, OneOutput
    <3> QED
      BY <3>2 DEF OutputAfter
  <2>4. \A k, m \in OutputAt(q) : k = m
    BY <2>3 DEF OutputAt
  <2>5. ASSUME NEW k \in OutputAt(q)
        PROVE  /\ q[k].refs = refs
               /\ s # <<>> => k - 1 \in 1..Len(q) /\ q[k - 1].role = "assistant" /\ q[k - 1].refs = <<i>>
    <3>1. k \in 1..Len(q) /\ Len(c) = 1 /\ k = Len(a) + 1 /\ q[k] = c[1] /\ 1 \in 1..1
      BY <2>3 DEF OutputAt
    <3>2. q[k].refs = refs
      BY <2>2, <3>1
    <3>3. s # <<>> => k - 1 = 1 /\ 1 \in 1..Len(q)
      <4>1. Len(q) \in Nat
        <5> HIDE DEF MsgT
        <5> QED
          BY <2>3
      <4> QED
        BY <2>2, <3>1, <4>1
    <3> QED
      BY <2>2, <2>3, <3>2, <3>3
  <2>6. end > item.pos => OutputAt(q) # {}
    BY <2>2, <2>3 DEF OutputAt
  <2> QED
    BY <1>4, <1>5, <1>10, <2>3, <2>4, <2>5, <2>6 DEF ShowsOnce
<1> QED
  BY <1>8, <1>9, <1>10

LEMMA SyntheticIs ==
    ASSUME NEW i \in Nat, NEW what \in {"subtask", "note"}
    PROVE  NoOutput(Synthetic(i, [what |-> what, refs |-> <<i>>]))
<1>1. <<i>> \in Seq(Nat)
  OBVIOUS
<1>2. PICK refs \in Seq(Nat) : refs = <<i>>
  BY <1>1
<1>3. PICK a, b : a = <<Msg("assistant", "calls", refs)>> /\ b = <<Msg("tool", what, refs)>>
  OBVIOUS
<1>4. "assistant" \in Roles /\ "tool" \in Roles /\ "calls" \in Whats \ {"console"} /\ what \in Whats \ {"console"}
  BY DEF Roles, Whats, Outcomes
<1>5. NoOutput(a)
  BY <1>3, <1>4, NoOutputOf
<1>6. NoOutput(b)
  BY <1>3, <1>4, NoOutputOf
<1>7. Synthetic(i, [what |-> what, refs |-> <<i>>]) = <<Msg("assistant", "calls", refs), Msg("tool", what, refs)>>
  BY <1>2 DEF Synthetic
<1>8. Synthetic(i, [what |-> what, refs |-> <<i>>]) = a \o b
  BY <1>3, <1>7
<1> QED
  BY <1>5, <1>6, <1>8, NoOutputJoined

Shows(item) == item.kind \in TurnKinds /\ ~Hidden(item) /\ Calls(item) = 0

LEMMA MessagesAre ==
    ASSUME JhTypes, NEW items, NEW i \in Nat, NEW item \in Items, item = items[i], HasBlock(item),
           NEW end \in Nat, NEW pushed \in Seq(PushT), NEW q, q = Messages(items, i, end, pushed)
    PROVE  /\ q \in Seq(MsgT)
           /\ ~Shows(item) => NoOutput(q)
           /\ Shows(item) => ShowsOnce(q, item, i, end)
<1>1. <<i>> \in Seq(Nat) /\ item.id \in Nat /\ item.kind \in Kinds
  BY DEF Items
<1>2. PICK refs \in Seq(Nat) : refs = <<i>>
  BY <1>1
<1>3. /\ "user" \in Roles /\ "system" \in Roles /\ "user" \in Whats \ {"console"}
      /\ \A kind \in {"post", "reminder", "subtask"} : kind \in Whats \ {"console"}
  BY DEF Roles, Whats, Outcomes
<1>4. \A kind \in {"user", "post", "reminder", "subtask", "note", "difficulty"} : kind \notin TurnKinds
  BY DEF TurnKinds
<1>5. CASE item.kind = "user"
  <2>1. <<item.id>> \in Seq(Nat)
    BY <1>1
  <2>2. PICK id \in Seq(Nat) : id = <<item.id>>
    BY <2>1
  <2>3. q = <<Msg("user", "user", id)>>
    BY <1>5, <2>2 DEF Messages
  <2>4. NoOutput(q)
    BY <1>3, <2>3, NoOutputOf
  <2> QED
    BY <1>4, <1>5, <2>4 DEF Shows, NoOutput
<1>6. CASE item.kind \in {"post", "reminder"}
  <2>1. PICK kind \in {"post", "reminder"} : kind = item.kind
    BY <1>6
  <2>2. q = <<Msg("system", kind, refs)>>
    BY <1>2, <2>1 DEF Messages
  <2>3. kind \in Whats \ {"console"}
    BY <1>3
  <2>4. NoOutput(q)
    BY <1>3, <2>2, <2>3, NoOutputOf
  <2> QED
    BY <1>4, <1>6, <2>4 DEF Shows, NoOutput
<1>7. CASE item.kind = "subtask"
  <2>1. PICK a, b : /\ a = <<Msg("system", "subtask", refs)>>
                    /\ b = IF item.results = <<>> THEN <<>>
                           ELSE Synthetic(i, [what |-> "subtask", refs |-> <<i>>])
    OBVIOUS
  <2>2. q = a \o b
    BY <1>2, <1>7, <2>1 DEF Messages
  <2>3. NoOutput(a)
    BY <1>3, <2>1, NoOutputOf
  <2>4. NoOutput(b)
    <3>1. NoOutput(<<>>)
      BY DEF NoOutput
    <3>2. "subtask" \in {"subtask", "note"}
      OBVIOUS
    <3> QED
      BY <2>1, <3>1, <3>2, SyntheticIs
  <2>5. NoOutput(q)
    BY <2>2, <2>3, <2>4, NoOutputJoined
  <2> QED
    BY <1>4, <1>7, <2>5 DEF Shows, NoOutput
<1>8. CASE item.kind = "note"
  <2>1. q = Synthetic(i, [what |-> "note", refs |-> <<i>>])
    BY <1>8 DEF Messages
  <2>2. "note" \in {"subtask", "note"}
    OBVIOUS
  <2>3. NoOutput(q)
    BY <2>1, <2>2, SyntheticIs
  <2> QED
    BY <1>4, <1>8, <2>3 DEF Shows, NoOutput
<1>9. CASE item.kind = "difficulty"
  <2>1. q = <<>>
    BY <1>9 DEF Messages
  <2> QED
    BY <1>4, <1>9, <2>1 DEF Shows, NoOutput
<1>10. CASE item.kind \in TurnKinds
  <2>1. item.kind \notin {"user", "post", "reminder", "subtask", "note", "difficulty"}
    BY <1>4, <1>10
  <2>2. q = ExecutionMessages(item, i, end, pushed)
    BY <2>1 DEF Messages
  <2> QED
    BY <1>10, <2>2, ExecutionIs DEF Shows
<1> QED
  BY <1>1, <1>5, <1>6, <1>7, <1>8, <1>9, <1>10 DEF Kinds, BoundaryKinds, TurnKinds

LEMMA InitialIs ==
    ASSUME NEW items \in Seq(Items), NEW pushed \in Seq(PushT)
    PROVE  NoOutput(InitialMessages(items, pushed))
<1>1. PICK first : first = IF items # <<>> /\ items[1].kind = "user" THEN <<items[1].id>> ELSE <<>>
  OBVIOUS
<1>2. PICK early : early = PushedIn(pushed, -1, 0)
  OBVIOUS
<1>3. early \in Seq(PushT)
  <2>1. {k \in DOMAIN pushed : -1 < pushed[k].at /\ pushed[k].at <= 0} \subseteq DOMAIN pushed
    OBVIOUS
  <2> QED
    BY <1>2, <2>1, PickedIs DEF PushedIn
<1>4. first \in Seq(Nat)
  <2>1. CASE items # <<>>
    <3>1. 1 \in 1..Len(items)
      <4> HIDE DEF Items
      <4> QED
        BY <2>1, EmptySeq
    <3>2. PICK item \in Items : item = items[1]
      BY <3>1, ElementOfSeq
    <3>3. item.id \in Nat
      BY DEF Items
    <3> QED
      BY <1>1, <3>2, <3>3
  <2> QED
    BY <1>1, <2>1
<1>5. PICK n \in Nat : n = Len(early) /\ DOMAIN early = 1..n
  BY <1>3
<1> DEFINE late == [k \in DOMAIN early |-> early[k].msg]
<1>6. late \in Seq(Nat)
  <2>1. \A k \in 1..n : early[k].msg \in Nat
    <3> SUFFICES ASSUME NEW k \in 1..n PROVE early[k].msg \in Nat
      OBVIOUS
    <3>1. PICK entry \in PushT : entry = early[k]
      BY <1>3, <1>5, ElementOfSeq
    <3> QED
      BY <3>1 DEF PushT
  <2> QED
    BY <1>5, <2>1
<1>7. PICK parts \in Seq(Nat) : parts = first \o late
  <2> HIDE DEF late
  <2>1. first \o late \in Seq(Nat)
    BY <1>4, <1>6
  <2> QED
    BY <2>1
<1>8. InitialMessages(items, pushed) = IF parts = <<>> THEN <<>> ELSE <<Msg("user", "user", parts)>>
  BY <1>1, <1>2, <1>7 DEF InitialMessages
<1>9. NoOutput(<<>>)
  BY DEF NoOutput
<1>10. "user" \in Roles /\ "user" \in Whats \ {"console"}
  BY DEF Roles, Whats, Outcomes
<1>11. NoOutput(<<Msg("user", "user", parts)>>)
  BY <1>10, NoOutputOf
<1> QED
  BY <1>8, <1>9, <1>11

-----------------------------------------------------------------------------
(* The steps of a history without summaries: one for the messages before    *)
(* the first item, if there are any, and one for every item.                *)
FirstStep(items, pushed) ==
    IF InitialMessages(items, pushed) = <<>> THEN <<>>
    ELSE <<Step(0, 0, 0, InitialMessages(items, pushed))>>
Entry(items, lines, pushed, i) ==
    IF Skipped(items, i) THEN <<>> ELSE <<EntryStep(items, lines, pushed, i)>>
Entries(items, lines, pushed) == [i \in 1..Len(items) |-> Entry(items, lines, pushed, i)]
EntrySteps(items, lines, pushed) == {EntryStep(items, lines, pushed, i) : i \in 1..Len(items)}

LEMMA EntriesAre ==
    ASSUME NEW T, NEW items \in Seq(T), NEW lines, NEW pushed
    PROVE  /\ Entries(items, lines, pushed) \in Seq(Seq(EntrySteps(items, lines, pushed)))
           /\ Len(Entries(items, lines, pushed)) = Len(items)
           /\ \A i \in 1..Len(items) : Entries(items, lines, pushed)[i] = Entry(items, lines, pushed, i)
<1>1. PICK n \in Nat : n = Len(items)
  OBVIOUS
<1>2. PICK S : S = EntrySteps(items, lines, pushed)
  OBVIOUS
<1>3. ASSUME NEW i \in 1..n PROVE Entry(items, lines, pushed, i) \in Seq(S)
  <2>1. PICK step : step = EntryStep(items, lines, pushed, i)
    OBVIOUS
  <2>2. step \in S
    BY <1>1, <1>2, <2>1 DEF EntrySteps
  <2>3. <<step>> \in Seq(S) /\ <<>> \in Seq(S)
    BY <2>2
  <2> QED
    BY <2>1, <2>3 DEF Entry
<1>4. PICK q : q = Entries(items, lines, pushed)
  OBVIOUS
<1>5. q = [i \in 1..n |-> Entry(items, lines, pushed, i)]
  BY <1>1, <1>4 DEF Entries
<1>6. q \in Seq(Seq(S)) /\ Len(q) = n
  BY <1>3, <1>5
<1> QED
  BY <1>1, <1>2, <1>4, <1>5, <1>6

LEMMA NoSummaries ==
    ASSUME NEW T, NEW items \in Seq(T), NEW lines, NEW pushed
    PROVE  BuildSteps(items, lines, pushed, {})
              = FirstStep(items, pushed) \o FlattenSeq(Entries(items, lines, pushed))
<1>1. InOrder({}) = <<>>
  <2>1. Cardinality({}) = 0 /\ 1..0 = {}
    BY FS_EmptySet
  <2> QED
    BY <2>1 DEF InOrder
<1> DEFINE Summaries(ss) == [k \in DOMAIN ss |-> SummaryStep(ss[k])]
           entries == {i \in DOMAIN items : ~Skipped(items, i)}
           Opens(i) == i > 0 /\ \A k \in entries : k > 0 => i <= k
           Old(i) ==
              IF i \notin entries THEN Summaries(<<>>)
              ELSE (IF Opens(i) THEN Summaries(<<>>) ELSE <<>>)
                   \o Summaries(<<>>)
                   \o IF FALSE THEN <<>> ELSE <<EntryStep(items, lines, pushed, i)>>
<1>2. Summaries(<<>>) = <<>>
  OBVIOUS
<1>3. PICK n \in Nat : n = Len(items) /\ DOMAIN items = 1..n
  OBVIOUS
<1>4. ASSUME NEW i \in 1..n PROVE Old(i) = Entry(items, lines, pushed, i)
  <2>1. PICK step : step = EntryStep(items, lines, pushed, i)
    OBVIOUS
  <2>2. <<>> \o <<>> \o <<step>> = <<step>>
    OBVIOUS
  <2> HIDE DEF Summaries, Opens
  <2>3. i \in entries <=> ~Skipped(items, i)
    BY <1>3
  <2> HIDE DEF entries
  <2> QED
    BY <1>2, <2>1, <2>2, <2>3 DEF Entry
<1>5. [i \in DOMAIN items |-> Old(i)] = Entries(items, lines, pushed)
  <2> HIDE DEF Old
  <2> QED
    BY <1>3, <1>4 DEF Entries
<1>6. BuildSteps(items, lines, pushed, {})
        = (IF InitialMessages(items, pushed) = <<>> THEN <<>>
           ELSE <<Step(0, 0, 0, InitialMessages(items, pushed))>>)
          \o FlattenSeq([i \in DOMAIN items |-> Old(i)])
          \o IF \E i \in entries : Opens(i) THEN <<>> ELSE Summaries(<<>>)
  <2>2. LastWarmup(items, {}) = 0
    BY DEF LastWarmup
  <2> QED
    BY <1>1, <2>2 DEF BuildSteps
<1>7. PICK U : U = EntrySteps(items, lines, pushed) \cup {Step(0, 0, 0, InitialMessages(items, pushed))}
  OBVIOUS
<1>8. PICK a, b : a = FirstStep(items, pushed) /\ b = FlattenSeq(Entries(items, lines, pushed))
  OBVIOUS
<1>9. a \in Seq(U)
  <2>1. PICK step \in U : step = Step(0, 0, 0, InitialMessages(items, pushed))
    BY <1>7
  <2>2. a = <<>> \/ a = <<step>>
    BY <1>8, <2>1 DEF FirstStep
  <2> QED
    BY <2>2, OneOrNone
<1>10. b \in Seq(U)
  <2>1. b \in Seq(EntrySteps(items, lines, pushed))
    BY <1>8, EntriesAre, FlattenType
  <2>2. EntrySteps(items, lines, pushed) \subseteq U
    BY <1>7
  <2> QED
    BY <2>1, <2>2
<1>11. (a \o b) \o <<>> = a \o b
  BY <1>9, <1>10
<1>12. BuildSteps(items, lines, pushed, {}) = (a \o b) \o <<>>
  <2>1. (IF \E i \in entries : Opens(i) THEN <<>> ELSE Summaries(<<>>)) = <<>>
    BY <1>2
  <2>2. (IF InitialMessages(items, pushed) = <<>> THEN <<>>
           ELSE <<Step(0, 0, 0, InitialMessages(items, pushed))>>) = a
    BY <1>8 DEF FirstStep
  <2>3. FlattenSeq([i \in DOMAIN items |-> Old(i)]) = b
    BY <1>5, <1>8
  <2> HIDE DEF Old, Opens, Summaries, entries
  <2>4. BuildSteps(items, lines, pushed, {}) = a \o b \o <<>>
    BY <1>6, <2>1, <2>2, <2>3
  <2> QED
    BY <2>4
<1> QED
  BY <1>8, <1>11, <1>12

(* Where the step of an item stands.                                        *)
StepAt(items, lines, pushed, i) ==
    Len(FirstStep(items, pushed)) + Offsets(Lengths(Entries(items, lines, pushed)))[i - 1] + 1

OneStepEach(items, lines, pushed, q) ==
    /\ \E U : q \in Seq(U)
    /\ InitialMessages(items, pushed) # <<>> =>
          1 \in 1..Len(q) /\ q[1] = Step(0, 0, 0, InitialMessages(items, pushed))
    /\ \A i \in 1..Len(items) : ~Skipped(items, i) =>
          /\ StepAt(items, lines, pushed, i) \in 1..Len(q)
          /\ q[StepAt(items, lines, pushed, i)] = EntryStep(items, lines, pushed, i)
    /\ \A k \in 1..Len(q) :
          \/ k = 1 /\ InitialMessages(items, pushed) # <<>>
          \/ \E i \in 1..Len(items) : ~Skipped(items, i) /\ k = StepAt(items, lines, pushed, i)
    /\ Len(q) = Len(FirstStep(items, pushed))
                + Offsets(Lengths(Entries(items, lines, pushed)))[Len(items)]
LEMMA StepsAre ==
    ASSUME NEW T, NEW items \in Seq(T), NEW lines, NEW pushed
    PROVE  OneStepEach(items, lines, pushed, BuildSteps(items, lines, pushed, {}))
<1>20. PICK q : q = BuildSteps(items, lines, pushed, {})
  OBVIOUS
<1>1. PICK U : U = EntrySteps(items, lines, pushed) \cup {Step(0, 0, 0, InitialMessages(items, pushed))}
  OBVIOUS
<1>2. PICK a, b, e : /\ a = FirstStep(items, pushed) /\ e = Entries(items, lines, pushed)
                     /\ b = FlattenSeq(e)
  OBVIOUS
<1>3. PICK o : o = Offsets(Lengths(e))
  OBVIOUS
<1>4. PICK n \in Nat : n = Len(items)
  OBVIOUS
<1>5. e \in Seq(Seq(EntrySteps(items, lines, pushed))) /\ Len(e) = n
      /\ \A i \in 1..n : e[i] = Entry(items, lines, pushed, i)
  BY <1>2, <1>4, EntriesAre
<1>6. /\ AreOffsets(o, Lengths(e), n)
      /\ b \in Seq(EntrySteps(items, lines, pushed)) /\ Len(b) = o[n]
      /\ \A i \in 1..n : \A j \in 1..Len(e[i]) : o[i - 1] + j \in DOMAIN b /\ b[o[i - 1] + j] = e[i][j]
      /\ \A k \in DOMAIN b : \E i \in 1..n : \E j \in 1..Len(e[i]) : k = o[i - 1] + j /\ b[k] = e[i][j]
  <2>1. PICK S : S = EntrySteps(items, lines, pushed)
    OBVIOUS
  <2>2. e \in Seq(Seq(S)) /\ o = Offsets(Lengths(e))
    BY <1>3, <1>5, <2>1
  <2>3. b \in Seq(S) /\ FlatAt(e, o, b)
    BY <1>2, <2>2, FlattenAt
  <2> QED
    BY <1>5, <2>1, <2>3 DEF FlatAt
<1>7. b \in Seq(U)
  <2>1. EntrySteps(items, lines, pushed) \subseteq U
    BY <1>1
  <2> QED
    BY <1>6, <2>1
<1>8. a \in Seq(U) /\ Len(a) \in {0, 1} /\ (Len(a) = 1 <=> InitialMessages(items, pushed) # <<>>)
      /\ (Len(a) = 1 => a[1] = Step(0, 0, 0, InitialMessages(items, pushed)))
  <2>1. PICK step \in U : step = Step(0, 0, 0, InitialMessages(items, pushed))
    BY <1>1
  <2>2. \/ InitialMessages(items, pushed) = <<>> /\ a = <<>>
        \/ InitialMessages(items, pushed) # <<>> /\ a = <<step>>
    BY <1>2, <2>1 DEF FirstStep
  <2>3. a \in Seq(U) /\ Len(a) \in {0, 1} /\ (Len(a) = 1 <=> a # <<>>) /\ (Len(a) = 1 => a[1] = step)
    BY <2>2, OneOrNone
  <2>4. a # <<>> <=> InitialMessages(items, pushed) # <<>>
    <3>1. <<step>> # <<>>
      OBVIOUS
    <3> QED
      BY <2>2, <3>1
  <2> QED
    BY <2>1, <2>3, <2>4
<1>9. q = a \o b
  BY <1>2, <1>20, NoSummaries
<1>10. /\ q \in Seq(U) /\ Len(q) = Len(a) + Len(b)
       /\ (\A k \in 1..Len(a) : q[k] = a[k])
       /\ (\A k \in Len(a) + 1..Len(a) + Len(b) : q[k] = b[k - Len(a)])
  <2>1. a \in Seq(U) /\ b \in Seq(U)
    BY <1>7, <1>8
  <2>2. q \in Seq(U) /\ JoinAt(a, b, q)
    BY <1>9, <2>1, Joined
  <2> QED
    BY <2>2 DEF JoinAt
<1>11. PICK h, m \in Nat : h = Len(a) /\ m = Len(b)
  BY <1>7, <1>8
<1>12. Len(q) = h + m /\ h \in {0, 1} /\ DOMAIN b = 1..m
  BY <1>7, <1>8, <1>10, <1>11
<1>13. \A i \in 0..n : o[i] \in Nat
  BY <1>6 DEF AreOffsets
<1>14. \A i \in 1..n : StepAt(items, lines, pushed, i) = (h + o[i - 1]) + 1
  BY <1>2, <1>3, <1>11 DEF StepAt
<1>15. ASSUME NEW i \in 1..n, ~Skipped(items, i)
       PROVE  /\ StepAt(items, lines, pushed, i) \in 1..Len(q)
              /\ q[StepAt(items, lines, pushed, i)] = EntryStep(items, lines, pushed, i)
  <2>1. e[i] = <<EntryStep(items, lines, pushed, i)>>
    BY <1>5, <1>15 DEF Entry
  <2>2. Len(e[i]) = 1 /\ e[i][1] = EntryStep(items, lines, pushed, i) /\ 1 \in 1..1
    BY <2>1
  <2>3. o[i - 1] + 1 \in 1..m /\ b[o[i - 1] + 1] = EntryStep(items, lines, pushed, i)
    BY <1>6, <1>12, <2>2
  <2>4. PICK k \in 1..m : k = o[i - 1] + 1
    BY <2>3
  <2>5. i - 1 \in 0..n
    OBVIOUS
  <2>6. StepAt(items, lines, pushed, i) = h + k
    BY <1>13, <1>14, <2>4, <2>5
  <2>7. h + k \in Len(a) + 1..Len(a) + Len(b) /\ (h + k) - Len(a) = k /\ h + k \in 1..Len(q)
    BY <1>11, <1>12
  <2> QED
    BY <1>10, <2>3, <2>4, <2>6, <2>7
<1>16. ASSUME NEW k \in 1..Len(q)
       PROVE  \/ k = 1 /\ InitialMessages(items, pushed) # <<>>
              \/ \E i \in 1..n : ~Skipped(items, i) /\ k = StepAt(items, lines, pushed, i)
  <2>1. CASE k <= h
    BY <1>8, <1>11, <1>12, <2>1
  <2>2. CASE k > h
    <3>1. PICK r \in 1..m : r = k - h
      BY <1>12, <2>2
    <3>2. PICK i \in 1..n : \E j \in 1..Len(e[i]) : r = o[i - 1] + j
      <4>1. r \in DOMAIN b
        BY <1>12
      <4> QED
        BY <1>6, <4>1
    <3>3. PICK j \in 1..Len(e[i]) : r = o[i - 1] + j
      BY <3>2
    <3>4. e[i] = <<>> \/ e[i] = <<EntryStep(items, lines, pushed, i)>>
      BY <1>5 DEF Entry
    <3>9. Len(e[i]) \in {0, 1} /\ (Len(e[i]) = 1 <=> e[i] # <<>>)
      <4>1. PICK S, step : S = {step} /\ step = EntryStep(items, lines, pushed, i)
        OBVIOUS
      <4> QED
        BY <3>4, <4>1, OneOrNone
    <3>10. PICK size \in {0, 1} : size = Len(e[i])
      BY <3>9
    <3>11. j \in 1..size
      BY <3>10
    <3>12. size = 1 /\ j = 1
      BY <3>11
    <3>5. e[i] # <<>> /\ j = 1
      BY <3>9, <3>10, <3>12
    <3>6. ~Skipped(items, i)
      BY <1>5, <3>5 DEF Entry
    <3>7. o[i - 1] \in Nat
      BY <1>13
    <3>13. PICK x \in Nat : x = o[i - 1]
      BY <3>7
    <3>14. r = x + 1
      BY <3>3, <3>5, <3>13
    <3>15. k = (h + x) + 1
      BY <3>1, <3>14
    <3>8. k = (h + o[i - 1]) + 1
      BY <3>13, <3>15
    <3> QED
      BY <1>14, <3>6, <3>8
  <2> QED
    BY <1>12, <2>1, <2>2
<1>17. \E S : q \in Seq(S)
  BY <1>10
<1>18. InitialMessages(items, pushed) # <<>> => 1 \in 1..Len(q) /\ q[1] = Step(0, 0, 0, InitialMessages(items, pushed))
  <2> SUFFICES ASSUME InitialMessages(items, pushed) # <<>>
               PROVE  1 \in 1..Len(q) /\ q[1] = Step(0, 0, 0, InitialMessages(items, pushed))
    OBVIOUS
  <2>1. Len(a) = 1 /\ h = 1
    BY <1>8, <1>11
  <2>2. 1 \in 1..Len(q) /\ 1 \in 1..Len(a)
    BY <1>12, <2>1
  <2> QED
    BY <1>8, <1>10, <2>1, <2>2
<1>19. Len(q) = Len(a) + o[n]
  BY <1>6, <1>10
<1> QED
  BY <1>2, <1>3, <1>4, <1>15, <1>16, <1>17, <1>18, <1>19, <1>20 DEF OneStepEach

-----------------------------------------------------------------------------
(* What is logged later changes nothing in an entry but outcomes of tools.  *)
LEMMA SameItem ==
    ASSUME NEW item \in Items, NEW other \in Items, Same(item, other), item.kind \notin TurnKinds
    PROVE  item = other
  BY DEF Items, Same

LEMMA SameMessages ==
    ASSUME JhTypes, NEW items, NEW others, NEW i \in Nat, NEW item \in Items, NEW other \in Items,
           item = items[i], other = others[i], Same(item, other), HasBlock(item), HasBlock(other),
           NEW end \in Nat, NEW pushed \in Seq(PushT)
    PROVE  Alike(Messages(items, i, end, pushed), Messages(others, i, end, pushed))
<1>1. CASE item.kind \notin TurnKinds
  <2>1. item = other
    BY <1>1, SameItem
  <2>2. PICK q : q = Messages(items, i, end, pushed)
    OBVIOUS
  <2>3. q = Messages(others, i, end, pushed)
    BY <2>1, <2>2 DEF Messages
  <2>4. q \in Seq(MsgT)
    BY <2>2, MessagesAre
  <2> QED
    BY <2>2, <2>3, <2>4, AlikeSelf
<1>2. CASE item.kind \in TurnKinds
  <2>1. /\ other.kind = item.kind /\ other.pos = item.pos /\ other.id = item.id
        /\ other.reply = item.reply
    BY DEF Same
  <2>2. /\ Block(other) = Block(item) /\ Calls(other) = Calls(item)
        /\ (Hidden(other) <=> Hidden(item)) /\ (DirectWarmup(other) <=> DirectWarmup(item))
    BY <2>1 DEF Block, Calls, Hidden, DirectWarmup
  <2>3. PICK q, r : q = ExecutionMessages(item, i, end, pushed) /\ r = ExecutionMessages(other, i, end, pushed)
    OBVIOUS
  <2>4. Messages(items, i, end, pushed) = q /\ Messages(others, i, end, pushed) = r
    BY <1>2, <2>1, <2>3 DEF Messages, TurnKinds
  <2>5. q \in Seq(MsgT)
    BY <1>2, <2>3, ExecutionIs
  <2>6. CASE Hidden(item) \/ DirectWarmup(item)
    <3>1. q = r
      BY <2>1, <2>2, <2>3, <2>6 DEF ExecutionMessages
    <3> QED
      BY <2>4, <2>5, <3>1, AlikeSelf
  <2>7. CASE ~Hidden(item) /\ ~DirectWarmup(item)
    <3>1. PICK c, u, a, b :
             /\ c = IF Calls(item) = 0 THEN ConsoleMessage(item.pos, end) ELSE <<>>
             /\ u = AsUser(PushedIn(pushed, item.pos, end))
             /\ a = AssistantMessages(item, i) /\ b = AssistantMessages(other, i)
      OBVIOUS
    <3>2. q = (a \o c) \o u /\ r = (b \o c) \o u
      BY <2>1, <2>2, <2>3, <2>7, <3>1 DEF ExecutionMessages
    <3>3. Alike(a, b)
      <4>1. PICK s, p, t : s = Said(item, i) /\ p = ToolMessages(item, i) /\ t = ToolMessages(other, i)
        OBVIOUS
      <4>2. Said(other, i) = s
        BY <2>1, <2>2, <4>1 DEF Said
      <4>3. a = s \o p /\ b = s \o t /\ s \in Seq(MsgT)
        <5>1. NoOutput(Said(item, i)) /\ AssistantMessages(item, i) = Said(item, i) \o ToolMessages(item, i)
          BY SaidIs
        <5>2. AssistantMessages(other, i) = Said(other, i) \o ToolMessages(other, i)
          BY SaidIs
        <5> QED
          BY <3>1, <4>1, <4>2, <5>1, <5>2 DEF NoOutput
      <4>4. PICK n \in Nat : n = Calls(item)
        BY <1>2, BlockIs
      <4>5. p \in Seq(MsgT) /\ DOMAIN p = 1..n /\ \A k \in 1..n : p[k].role = "tool" /\ p[k].refs = <<i, k>>
        BY <1>2, <4>1, <4>4, ToolMessagesAre
      <4>6. t \in Seq(MsgT) /\ DOMAIN t = 1..n /\ \A k \in 1..n : t[k].role = "tool" /\ t[k].refs = <<i, k>>
        BY <1>2, <2>1, <2>2, <4>1, <4>4, ToolMessagesAre
      <4>7. Len(p) = n /\ Len(t) = n
        <5> HIDE DEF MsgT
        <5> QED
          BY <4>5, <4>6
      <4>8. Alike(p, t)
        BY <4>5, <4>6, <4>7 DEF Alike
      <4> QED
        BY <4>3, <4>8, AlikeSelf, AlikeJoined
    <3>4. c \in Seq(MsgT) /\ u \in Seq(MsgT)
      <4>1. u \in Seq(MsgT)
        <5>1. {k \in DOMAIN pushed : item.pos < pushed[k].at /\ pushed[k].at <= end} \subseteq DOMAIN pushed
          OBVIOUS
        <5>2. PushedIn(pushed, item.pos, end) \in Seq(PushT)
          BY <5>1, PickedIs DEF PushedIn
        <5> QED
          BY <3>1, <5>2, AsUserIs DEF NoOutput
      <4>2. item.pos \in Nat
        BY DEF Items
      <4>3. PICK refs \in Seq(Nat) : refs = Numbers(item.pos, end)
        BY <4>2, NumbersAre
      <4>4. c = <<>> \/ c = <<Msg("user", "console", refs)>>
        BY <3>1, <4>3 DEF ConsoleMessage
      <4>5. "user" \in Roles /\ "console" \in Whats
        BY DEF Roles, Whats
      <4>6. c = <<Msg("user", "console", refs)>> => c \in Seq(MsgT)
        BY <4>5, OneMessage
      <4>7. <<>> \in Seq(MsgT)
        OBVIOUS
      <4> QED
        BY <4>1, <4>4, <4>6, <4>7, Zenon
    <3>5. Alike(a \o c, b \o c)
      BY <3>3, <3>4, AlikeSelf, AlikeJoined
    <3>6. Alike((a \o c) \o u, (b \o c) \o u)
      BY <3>4, <3>5, AlikeSelf, AlikeJoined
    <3> QED
      BY <2>4, <3>2, <3>6
  <2> QED
    BY <2>6, <2>7
<1> QED
  BY <1>1, <1>2

(* The logs a history may be read from.                                     *)
SameLogs(items, others) ==
    /\ items \in Seq(Items) /\ others \in Seq(Items) /\ Len(items) = Len(others)
    /\ \A i \in 1..Len(items) : Same(items[i], others[i]) /\ HasBlock(items[i]) /\ HasBlock(others[i])

LEMMA SameEnds ==
    ASSUME NEW items, NEW others, SameLogs(items, others), NEW lines, NEW i \in 1..Len(items)
    PROVE  EndAt(items, lines, i) = EndAt(others, lines, i)
<1>1. PICK n \in Nat : n = Len(items) /\ n = Len(others)
  <2> HIDE DEF Items
  <2> QED
    BY DEF SameLogs
<1>2. \A k \in 1..n : items[k].kind = others[k].kind /\ items[k].pos = others[k].pos
  BY <1>1 DEF SameLogs, Same
<1>3. PICK after : after = {k \in i + 1..n : IsBoundary(items[k])}
  OBVIOUS
<1>4. \A k \in i + 1..n : k \in 1..n
  BY <1>1
<1>5. after = {k \in i + 1..n : IsBoundary(others[k])}
  BY <1>2, <1>3, <1>4 DEF IsBoundary
<1>6. after # {} => FirstOf(after) \in 1..n
  <2>1. after \subseteq 1..n
    BY <1>3, <1>4
  <2> QED
    BY <2>1, FirstOfIs
<1>7. EndAt(items, lines, i) = IF after = {} THEN lines ELSE items[FirstOf(after)].pos
  BY <1>1, <1>3 DEF EndAt
<1>8. EndAt(others, lines, i) = IF after = {} THEN lines ELSE others[FirstOf(after)].pos
  BY <1>1, <1>5 DEF EndAt
<1> QED
  BY <1>2, <1>6, <1>7, <1>8

LEMMA EndIsNumber ==
    ASSUME NEW items \in Seq(Items), NEW lines \in Nat, NEW i \in 1..Len(items)
    PROVE  EndAt(items, lines, i) \in Nat
<1>1. PICK n \in Nat : n = Len(items)
  <2> HIDE DEF Items
  <2> QED
    OBVIOUS
<1>2. \A k \in 1..n : items[k].pos \in Nat
  <2> SUFFICES ASSUME NEW k \in 1..n PROVE items[k].pos \in Nat
    OBVIOUS
  <2>1. PICK item \in Items : item = items[k]
    BY <1>1, ElementOfSeq
  <2> QED
    BY <2>1 DEF Items
<1>3. PICK after : after = {k \in i + 1..n : IsBoundary(items[k])}
  OBVIOUS
<1>4. after # {} => FirstOf(after) \in 1..n
  <2>1. after \subseteq 1..n
    BY <1>1, <1>3
  <2> QED
    BY <2>1, FirstOfIs
<1>5. EndAt(items, lines, i) = IF after = {} THEN lines ELSE items[FirstOf(after)].pos
  BY <1>1, <1>3 DEF EndAt
<1> QED
  BY <1>2, <1>4, <1>5

LEMMA SameFirst ==
    ASSUME NEW items, NEW others, SameLogs(items, others), NEW pushed
    PROVE  /\ InitialMessages(items, pushed) = InitialMessages(others, pushed)
           /\ \A i \in 1..Len(items) : Skipped(items, i) <=> Skipped(others, i)
<1>1. PICK n \in Nat : n = Len(items) /\ n = Len(others) /\ (n = 0 <=> items = <<>>) /\ (n = 0 <=> others = <<>>)
  <2> HIDE DEF Items
  <2> QED
    BY EmptySeq DEF SameLogs
<1>2. \A k \in 1..n : items[k].kind = others[k].kind /\ items[k].id = others[k].id
  BY <1>1 DEF SameLogs, Same
<1>3. n # 0 => 1 \in 1..n
  BY <1>1
<1>4. (IF items # <<>> /\ items[1].kind = "user" THEN <<items[1].id>> ELSE <<>>)
        = (IF others # <<>> /\ others[1].kind = "user" THEN <<others[1].id>> ELSE <<>>)
  BY <1>1, <1>2, <1>3
<1>5. InitialMessages(items, pushed) = InitialMessages(others, pushed)
  BY <1>4 DEF InitialMessages
<1>6. \A i \in 1..n : Skipped(items, i) <=> Skipped(others, i)
  BY <1>2 DEF Skipped
<1> QED
  BY <1>1, <1>5, <1>6

LEMMA SameEntries ==
    ASSUME NEW items, NEW others, SameLogs(items, others), NEW lines, NEW pushed
    PROVE  Lengths(Entries(items, lines, pushed)) = Lengths(Entries(others, lines, pushed))
<1>1. PICK n \in Nat : n = Len(items) /\ n = Len(others)
  <2> HIDE DEF Items
  <2> QED
    BY DEF SameLogs
<1>2. PICK p, q : p = Entries(items, lines, pushed) /\ q = Entries(others, lines, pushed)
  OBVIOUS
<1>3. Len(p) = n /\ \A i \in 1..n : p[i] = Entry(items, lines, pushed, i)
  BY <1>1, <1>2, EntriesAre DEF SameLogs
<1>4. Len(q) = n /\ \A i \in 1..n : q[i] = Entry(others, lines, pushed, i)
  BY <1>1, <1>2, EntriesAre DEF SameLogs
<1>5. ASSUME NEW i \in 1..n PROVE Len(p[i]) = Len(q[i])
  <2>1. Skipped(items, i) <=> Skipped(others, i)
    BY <1>1, SameFirst
  <2>2. PICK x, y : x = EntryStep(items, lines, pushed, i) /\ y = EntryStep(others, lines, pushed, i)
    OBVIOUS
  <2>3. \/ p[i] = <<>> /\ q[i] = <<>>
        \/ p[i] = <<x>> /\ q[i] = <<y>>
    BY <1>3, <1>4, <2>1, <2>2 DEF Entry
  <2> QED
    BY <2>3
<1> QED
  BY <1>2, <1>3, <1>4, <1>5 DEF Lengths

LEMMA SameFace ==
    ASSUME NEW a, NEW b, Alike(a, b), NEW item, NEW start, NEW end
    PROVE  Skeleton(Step(item, start, end, a)) = Skeleton(Step(item, start, end, b))
<1>1. PICK x, y : x = Step(item, start, end, a) /\ y = Step(item, start, end, b)
  OBVIOUS
<1>2. x.item = item /\ x.start = start /\ x.end = end /\ x.msgs = a
  BY <1>1 DEF Step
<1>3. y.item = item /\ y.start = start /\ y.end = end /\ y.msgs = b
  BY <1>1 DEF Step
<1>4. [k \in DOMAIN a |-> <<a[k].role, a[k].refs>>] = [k \in DOMAIN b |-> <<b[k].role, b[k].refs>>]
  <2>1. PICK n \in Nat : n = Len(a) /\ n = Len(b) /\ DOMAIN a = 1..n /\ DOMAIN b = 1..n
    <3> HIDE DEF MsgT
    <3> QED
      BY DEF Alike
  <2>2. \A k \in 1..n : a[k].role = b[k].role /\ a[k].refs = b[k].refs
    BY <2>1 DEF Alike
  <2> QED
    BY <2>1, <2>2
<1> QED
  BY <1>1, <1>2, <1>3, <1>4 DEF Skeleton

LEMMA SameStep ==
    ASSUME JhTypes, NEW items, NEW others, SameLogs(items, others), NEW lines \in Nat,
           NEW pushed \in Seq(PushT), NEW i \in 1..Len(items)
    PROVE  Skeleton(EntryStep(items, lines, pushed, i)) = Skeleton(EntryStep(others, lines, pushed, i))
<1>1. PICK end \in Nat : end = EndAt(items, lines, i) /\ end = EndAt(others, lines, i)
  <2>1. EndAt(items, lines, i) = EndAt(others, lines, i)
    BY SameEnds
  <2>2. items \in Seq(Items)
    BY DEF SameLogs
  <2>3. EndAt(items, lines, i) \in Nat
    BY <2>2, EndIsNumber
  <2> QED
    BY <2>1, <2>3
<1>2. PICK n \in Nat : n = Len(items) /\ n = Len(others)
  <2> HIDE DEF Items
  <2> QED
    BY DEF SameLogs
<1>3. PICK item \in Items : item = items[i]
  BY ElementOfSeq DEF SameLogs
<1>4. PICK other \in Items : other = others[i]
  BY <1>2, ElementOfSeq DEF SameLogs
<1>5. Same(item, other) /\ HasBlock(item) /\ HasBlock(other)
  BY <1>3, <1>4 DEF SameLogs
<1>6. i \in Nat
  BY <1>2
<1>7. PICK a, b : a = Messages(items, i, end, pushed) /\ b = Messages(others, i, end, pushed)
  OBVIOUS
<1>8. Alike(a, b)
  BY <1>3, <1>4, <1>5, <1>6, <1>7, SameMessages
<1>9. item.kind = other.kind /\ item.pos = other.pos
  BY <1>5 DEF Same
<1>10. PICK start : start = IF item.kind = "user" THEN end ELSE item.pos
  OBVIOUS
<1>11. EntryStep(items, lines, pushed, i) = Step(i, start, end, a)
  BY <1>1, <1>3, <1>7, <1>10 DEF EntryStep
<1>12. EntryStep(others, lines, pushed, i) = Step(i, start, end, b)
  BY <1>1, <1>4, <1>7, <1>9, <1>10 DEF EntryStep
<1> QED
  BY <1>8, <1>11, <1>12, SameFace

Faces(steps) == [k \in DOMAIN steps |-> Skeleton(steps[k])]
LEMMA SameHistory ==
    ASSUME JhTypes, NEW items, NEW others, SameLogs(items, others), NEW lines \in Nat,
           NEW pushed \in Seq(PushT)
    PROVE  Faces(BuildSteps(items, lines, pushed, {})) = Faces(BuildSteps(others, lines, pushed, {}))
<1>1. PICK q, r : q = BuildSteps(items, lines, pushed, {}) /\ r = BuildSteps(others, lines, pushed, {})
  OBVIOUS
<1>2. PICK n \in Nat : n = Len(items) /\ n = Len(others)
  <2> HIDE DEF Items
  <2> QED
    BY DEF SameLogs
<1>3. /\ InitialMessages(items, pushed) = InitialMessages(others, pushed)
      /\ \A i \in 1..n : Skipped(items, i) <=> Skipped(others, i)
  BY <1>2, SameFirst
<1>4. FirstStep(items, pushed) = FirstStep(others, pushed)
  BY <1>3 DEF FirstStep
<1>5. \A i \in 1..n : StepAt(items, lines, pushed, i) = StepAt(others, lines, pushed, i)
  BY <1>4, SameEntries DEF StepAt
<1>6. /\ \E U : q \in Seq(U)
      /\ InitialMessages(items, pushed) # <<>> => q[1] = Step(0, 0, 0, InitialMessages(items, pushed))
      /\ \A i \in 1..n : ~Skipped(items, i) =>
            q[StepAt(items, lines, pushed, i)] = EntryStep(items, lines, pushed, i)
      /\ \A k \in 1..Len(q) :
            \/ k = 1 /\ InitialMessages(items, pushed) # <<>>
            \/ \E i \in 1..n : ~Skipped(items, i) /\ k = StepAt(items, lines, pushed, i)
      /\ Len(q) = Len(FirstStep(items, pushed)) + Offsets(Lengths(Entries(items, lines, pushed)))[n]
  <2>1. items \in Seq(Items)
    BY DEF SameLogs
  <2>2. OneStepEach(items, lines, pushed, q)
    BY <1>1, <2>1, StepsAre
  <2> QED
    BY <1>2, <2>2 DEF OneStepEach
<1>7. /\ \E U : r \in Seq(U)
      /\ InitialMessages(others, pushed) # <<>> => r[1] = Step(0, 0, 0, InitialMessages(others, pushed))
      /\ \A i \in 1..n : ~Skipped(others, i) =>
            r[StepAt(others, lines, pushed, i)] = EntryStep(others, lines, pushed, i)
      /\ Len(r) = Len(FirstStep(others, pushed)) + Offsets(Lengths(Entries(others, lines, pushed)))[n]
  <2>1. others \in Seq(Items)
    BY DEF SameLogs
  <2>2. OneStepEach(others, lines, pushed, r)
    BY <1>1, <2>1, StepsAre
  <2> QED
    BY <1>2, <2>2 DEF OneStepEach
<1>8. Len(q) = Len(r)
  BY <1>4, <1>6, <1>7, SameEntries
<1>9. PICK size \in Nat : size = Len(q) /\ DOMAIN q = 1..size /\ DOMAIN r = 1..size
  BY <1>6, <1>7, <1>8
<1>10. ASSUME NEW k \in 1..size PROVE Skeleton(q[k]) = Skeleton(r[k])
  <2>1. CASE k = 1 /\ InitialMessages(items, pushed) # <<>>
    BY <1>3, <1>6, <1>7, <2>1
  <2>2. ASSUME NEW i \in 1..n, ~Skipped(items, i), k = StepAt(items, lines, pushed, i)
        PROVE  Skeleton(q[k]) = Skeleton(r[k])
    <3>1. q[k] = EntryStep(items, lines, pushed, i)
      BY <1>6, <2>2
    <3>2. r[k] = EntryStep(others, lines, pushed, i)
      BY <1>3, <1>5, <1>7, <2>2
    <3>3. i \in 1..Len(items)
      BY <1>2
    <3>4. Skeleton(EntryStep(items, lines, pushed, i)) = Skeleton(EntryStep(others, lines, pushed, i))
      BY <3>3, SameStep
    <3> QED
      BY <3>1, <3>2, <3>4
  <2>3. k \in 1..Len(q)
    BY <1>9
  <2>4. \/ k = 1 /\ InitialMessages(items, pushed) # <<>>
        \/ \E i \in 1..n : ~Skipped(items, i) /\ k = StepAt(items, lines, pushed, i)
    BY <1>6, <2>3, Zenon
  <2> QED
    BY <2>1, <2>2, <2>4
<1> QED
  BY <1>1, <1>9, <1>10 DEF Faces

-----------------------------------------------------------------------------
(* iter_history_steps: the steps of the capture are those that are read     *)
(* later, and an iterator goes on where the one before it stopped.          *)
Bounded(bounds) ==
    bounds.items \in 0..Len(log) /\ bounds.lines \in Nat /\ bounds.pushes \in Seq(PushT)
Delivered(out, steps) ==
    /\ out \in Seq(Range(out)) /\ steps \in Seq(Range(steps)) /\ Len(out) <= Len(steps)
    /\ \A k \in 1..Len(out) : out[k] = steps[k]
Captured(bounds, steps) ==
    /\ snap = <<[bounds |-> bounds, steps |-> steps]>>
    /\ Bounded(bounds) /\ steps = Faces(StepsOf(bounds))
    /\ Delivered(reader.out, steps) /\ (reader.live => reader.at = Len(reader.out))
SnapInv ==
    /\ reader.live \in BOOLEAN
    /\ snap = <<>> => ~reader.live /\ reader.out = <<>>
    /\ snap # <<>> => \E bounds \in {snap[1].bounds}, steps \in {snap[1].steps} : Captured(bounds, steps)

LEMMA HistoryKept ==
    ASSUME UNCHANGED def, NEW items, NEW lines, NEW pushed
    PROVE  BuildSteps(items, lines, pushed, {})' = BuildSteps(items, lines, pushed, {})
  BY DEF BuildSteps, EntryStep, Messages, ExecutionMessages, AssistantMessages, ToolMessages,
         Hidden, DirectWarmup, Calls, Block, Step, Synthetic, ConsoleMessage, EndAt

LEMMA StepsKept ==
    ASSUME UNCHANGED def, NEW bounds, NEW items, items = SubSeq(log', 1, bounds.items)
    PROVE  StepsOf(bounds)' = BuildSteps(items, bounds.lines, bounds.pushes, {})
<1>1. PICK lines, pushed : lines = bounds.lines /\ pushed = bounds.pushes
  OBVIOUS
<1>2. BuildSteps(items, lines, pushed, {})' = BuildSteps(items, lines, pushed, {})
  BY HistoryKept
<1> QED
  BY <1>1, <1>2 DEF StepsOf

LEMMA FacesKept ==
    ASSUME JhTypes, BlockInv, Shape, NEW bounds, Bounded(bounds)
    PROVE  Faces(StepsOf(bounds)') = Faces(StepsOf(bounds)) /\ Bounded(bounds)'
<1>1. PICK n \in Nat : n = bounds.items /\ n <= Len(log) /\ n <= Len(log') /\ Len(log) \in Nat /\ Len(log') \in Nat
  BY Before DEF Shape, Bounded
<1>2. PICK items, others : items = SubSeq(log, 1, bounds.items) /\ others = SubSeq(log', 1, bounds.items)
  OBVIOUS
<1>3. log \in Seq(Items) /\ log' \in Seq(Items)
  BY DEF JhTypes, Shape, LogGrows
<1>4. /\ items \in Seq(Items) /\ others \in Seq(Items) /\ Len(items) = n /\ Len(others) = n
      /\ \A i \in 1..n : items[i] = log[i] /\ others[i] = log'[i]
  <2> HIDE DEF Items
  <2> QED
    BY <1>1, <1>2, <1>3
<1>5. ASSUME NEW i \in 1..n
      PROVE  Same(items[i], others[i]) /\ HasBlock(items[i]) /\ HasBlock(others[i])
  <2>1. i \in 1..Len(log) /\ i \in DOMAIN log
    BY <1>1, Sizes
  <2>2. Same(log[i], log'[i]) /\ HasBlock(log[i])
    BY <2>1 DEF Shape, LogGrows, BlockInv
  <2>3. PICK item, other : item = items[i] /\ other = others[i]
    OBVIOUS
  <2>4. Same(item, other) /\ HasBlock(item)
    BY <1>4, <2>2, <2>3
  <2>5. HasBlock(other)
    BY <2>4 DEF Same, HasBlock
  <2> QED
    BY <2>3, <2>4, <2>5
<1>6. SameLogs(items, others)
  BY <1>4, <1>5 DEF SameLogs
<1>7. PICK lines \in Nat, pushed \in Seq(PushT) : lines = bounds.lines /\ pushed = bounds.pushes
  BY DEF Bounded
<1>8. Faces(BuildSteps(items, lines, pushed, {})) = Faces(BuildSteps(others, lines, pushed, {}))
  BY <1>6, SameHistory
<1>9. StepsOf(bounds)' = BuildSteps(others, lines, pushed, {})
  BY <1>2, <1>7, StepsKept DEF Shape
<1>10. StepsOf(bounds) = BuildSteps(items, lines, pushed, {})
  BY <1>2, <1>7 DEF StepsOf
<1>11. Bounded(bounds)'
  BY <1>1, <1>7 DEF Bounded
<1> QED
  BY <1>8, <1>9, <1>10, <1>11

LEMMA FacesAre ==
    ASSUME JhTypes, NEW bounds, Bounded(bounds)
    PROVE  \E n \in Nat : /\ DOMAIN StepsOf(bounds) = 1..n /\ Len(Faces(StepsOf(bounds))) = n
                          /\ Faces(StepsOf(bounds)) \in Seq(Range(Faces(StepsOf(bounds))))
                          /\ \A k \in 1..n : Faces(StepsOf(bounds))[k] = Skeleton(StepsOf(bounds)[k])
<1>1. PICK items : items = SubSeq(log, 1, bounds.items)
  OBVIOUS
<1>2. items \in Seq(Items)
  <2>1. log \in Seq(Items) /\ Len(log) \in Nat /\ bounds.items \in 0..Len(log)
    BY Sizes DEF JhTypes, Bounded
  <2> HIDE DEF Items
  <2> QED
    BY <1>1, <2>1
<1>3. PICK q : q = StepsOf(bounds)
  OBVIOUS
<1>4. \E U : q \in Seq(U)
  <2>1. q = BuildSteps(items, bounds.lines, bounds.pushes, {})
    BY <1>1, <1>3 DEF StepsOf
  <2> QED
    BY <1>2, <2>1, StepsAre DEF OneStepEach
<1>5. PICK n \in Nat : n = Len(q) /\ DOMAIN q = 1..n
  BY <1>4
<1>6. PICK f : f = Faces(q)
  OBVIOUS
<1>7. f = [k \in 1..n |-> Skeleton(q[k])]
  BY <1>5, <1>6 DEF Faces
<1>8. DOMAIN f = 1..n /\ f = [k \in 1..n |-> f[k]] /\ \A k \in 1..n : f[k] = Skeleton(q[k])
  BY <1>7
<1>9. \A k \in 1..n : f[k] \in Range(f)
  BY <1>8 DEF Range
<1>10. f \in Seq(Range(f)) /\ Len(f) = n
  BY <1>8, <1>9
<1> QED
  BY <1>3, <1>5, <1>6, <1>8, <1>10

LEMMA SnapStart == Init => SnapInv
<1> SUFFICES ASSUME Init PROVE SnapInv
  OBVIOUS
<1>1. snap = <<>> /\ reader = [live |-> FALSE, at |-> 0, out |-> <<>>]
  BY DEF Init
<1>2. reader.live = FALSE /\ reader.at = 0 /\ reader.out = <<>>
  BY <1>1
<1> QED
  BY <1>1, <1>2 DEF SnapInv

(* The capture of the next state.                                           *)
CapturedNext(bounds, steps) ==
    /\ snap' = <<[bounds |-> bounds, steps |-> steps]>>
    /\ Bounded(bounds) /\ steps = Faces(StepsOf(bounds))
    /\ reader'.live \in BOOLEAN
    /\ Delivered(reader'.out, steps) /\ (reader'.live => reader'.at = Len(reader'.out))

LEMMA CaptureKept ==
    ASSUME JhTypes, BlockInv, Shape, NEW bounds, NEW steps, CapturedNext(bounds, steps) PROVE SnapInv'
<1>1. Faces(StepsOf(bounds)') = Faces(StepsOf(bounds)) /\ Bounded(bounds)'
  BY FacesKept DEF CapturedNext
<1>2. Captured(bounds, steps)'
  BY <1>1 DEF Captured, CapturedNext
<1>3. PICK capture : capture = [bounds |-> bounds, steps |-> steps]
  OBVIOUS
<1>4. capture.bounds = bounds /\ capture.steps = steps /\ <<capture>> # <<>> /\ <<capture>>[1] = capture
  BY <1>3
<1>5. snap' # <<>> /\ bounds \in {snap[1].bounds}' /\ steps \in {snap[1].steps}'
  BY <1>3, <1>4 DEF CapturedNext
<1> QED
  BY <1>2, <1>5 DEF SnapInv, CapturedNext

LEMMA CaptureSnap == ASSUME JhTypes, BlockInv, SnapInv, Shape, Capture PROVE SnapInv'
<1>1. PICK bounds : bounds = [items |-> Len(log), lines |-> Len(console), pushes |-> pushes]
  OBVIOUS
<1>2. bounds.items = Len(log) /\ bounds.lines = Len(console) /\ bounds.pushes = pushes
  BY <1>1
<1>3. Bounded(bounds)
  <2>1. Len(log) \in Nat /\ Len(console) \in Nat /\ pushes \in Seq(PushT)
    BY Sizes DEF JhTypes, PushT
  <2> QED
    BY <1>2, <2>1 DEF Bounded
<1>4. SubSeq(log, 1, Len(log)) = log
  <2>1. log \in Seq(Items)
    BY DEF JhTypes
  <2> HIDE DEF Items
  <2> QED
    BY <2>1
<1>5. StepsOf(bounds) = BuildSteps(log, Len(console), pushes, {})
  BY <1>2, <1>4 DEF StepsOf
<1>6. PICK steps : steps = Faces(StepsOf(bounds))
  OBVIOUS
<1>7. snap' = <<[bounds |-> bounds, steps |-> steps]>> /\ snap = <<>> /\ reader' = reader
  BY <1>1, <1>5, <1>6 DEF Capture, Faces
<1>9. reader.live = FALSE /\ reader.out = <<>>
  BY <1>7 DEF SnapInv
<1>10. steps \in Seq(Range(steps)) /\ Len(steps) \in Nat
  BY <1>3, <1>6, FacesAre
<1>11. Delivered(reader'.out, steps)
  <2>1. <<>> \in Seq(Range(<<>>)) /\ Len(<<>>) = 0 /\ 1..0 = {}
    OBVIOUS
  <2> QED
    BY <1>7, <1>9, <1>10, <2>1 DEF Delivered
<1>12. CapturedNext(bounds, steps)
  BY <1>3, <1>6, <1>7, <1>9, <1>11 DEF CapturedNext
<1> QED
  BY <1>12, CaptureKept

LEMMA ReadSnap == ASSUME JhTypes, BlockInv, SnapInv, Shape, ReadStep PROVE SnapInv'
<1>1. PICK bounds, steps : Captured(bounds, steps)
  BY DEF SnapInv, ReadStep
<1>2. snap[1].bounds = bounds /\ snap' = snap
  BY <1>1 DEF Captured, ReadStep
<1>3. PICK out : out = reader.out
  OBVIOUS
<1>4. Delivered(out, steps)
  BY <1>1, <1>3 DEF Captured
<1>5. NextStep = Len(out) + 1
  BY <1>1, <1>3 DEF NextStep, Captured
<1>6. PICK n \in Nat : /\ DOMAIN StepsOf(bounds) = 1..n /\ Len(steps) = n
                       /\ \A k \in 1..n : steps[k] = Skeleton(StepsOf(bounds)[k])
  BY <1>1, FacesAre DEF Captured
<1>7. PICK m \in Nat : m = Len(out) /\ m + 1 \in 1..n /\ m + 1 = Len(out) + 1
  <2>1. NextStep \in DOMAIN StepsOf(bounds)
    BY <1>2 DEF ReadStep
  <2> QED
    BY <1>4, <1>5, <1>6, <2>1 DEF Delivered
<1>8. PICK more : more = Append(out, steps[m + 1])
  OBVIOUS
<1>9. reader' = [live |-> TRUE, at |-> m + 1, out |-> more]
  <2>1. reader' = [live |-> TRUE, at |-> NextStep, out |-> Append(reader.out, Skeleton(StepsOf(bounds)[NextStep]))]
    BY <1>2 DEF ReadStep
  <2> QED
    BY <1>3, <1>5, <1>6, <1>7, <1>8, <2>1
<1>10. reader'.live = TRUE /\ reader'.at = m + 1 /\ reader'.out = more
  BY <1>9
<1>11. Delivered(more, steps) /\ Len(more) = m + 1
  <2>1. PICK T : T = Range(out) \cup {steps[m + 1]}
    OBVIOUS
  <2>2. out \in Seq(T) /\ steps[m + 1] \in T
    <3>1. out \in Seq(Range(out)) /\ Range(out) \subseteq T
      BY <1>4, <2>1 DEF Delivered
    <3> QED
      BY <2>1, <3>1
  <2>3. more \in Seq(T) /\ Len(more) = m + 1 /\ more[m + 1] = steps[m + 1] /\ \A k \in 1..m : more[k] = out[k]
    BY <1>7, <1>8, <2>2
  <2>4. more \in Seq(Range(more))
    BY <2>3, OwnRange
  <2>5. \A k \in 1..m + 1 : k \in 1..m \/ k = m + 1
    OBVIOUS
  <2> QED
    BY <1>4, <1>6, <1>7, <2>3, <2>4, <2>5 DEF Delivered
<1>12. CapturedNext(bounds, steps)
  BY <1>1, <1>2, <1>9, <1>10, <1>11 DEF CapturedNext, Captured
<1> QED
  BY <1>12, CaptureKept

LEMMA FailsSnap == ASSUME JhTypes, BlockInv, SnapInv, Shape, ReadFails PROVE SnapInv'
<1>1. PICK bounds, steps : Captured(bounds, steps)
  BY DEF SnapInv, ReadFails
<1>3. PICK out : out = reader.out
  OBVIOUS
<1>7. reader' = [live |-> FALSE, at |-> 0, out |-> out] /\ snap' = snap
  BY <1>3 DEF ReadFails
<1>8. reader'.live = FALSE /\ reader'.at = 0 /\ reader'.out = out
  BY <1>7
<1>9. CapturedNext(bounds, steps)
  BY <1>1, <1>3, <1>7, <1>8 DEF CapturedNext, Captured
<1> QED
  BY <1>9, CaptureKept

LEMMA SnapNext == ASSUME JhTypes, BlockInv, SnapInv, [Next]_vars PROVE SnapInv'
<1>1. Shape
  BY StepShape
<1>2. ASSUME UNCHANGED View PROVE SnapInv'
  <2>1. snap' = snap /\ reader' = reader
    BY <1>2 DEF View
  <2>2. CASE snap = <<>>
    BY <2>1, <2>2 DEF SnapInv
  <2>3. CASE snap # <<>>
    <3>1. PICK bounds, steps : Captured(bounds, steps)
      BY <2>3 DEF SnapInv
    <3>2. CapturedNext(bounds, steps)
      BY <2>1, <3>1 DEF CapturedNext, Captured, SnapInv
    <3> QED
      BY <1>1, <3>2, CaptureKept
  <2> QED
    BY <2>2, <2>3
<1>3. CASE UNCHANGED vars
  BY <1>2, <1>3 DEF vars, View
<1>4. CASE JobStepNext
  BY <1>2, <1>4 DEF JobStepNext, BeginWarmup, BeginReply, PrintLine, Raise, ToolDone, Suspend,
     ExitBlock, EndBlock, Escalate, SendRequest, ReplySuppressed, ReplyCommitted, DialogFails,
     FinalReplyReminded, FinalReply, Fail
<1>5. CASE PushUserMessage \/ Notify
  BY <1>2, <1>5 DEF PushUserMessage, Notify
<1> QED
  BY <1>1, <1>3, <1>4, <1>5, CaptureSnap, ReadSnap, FailsSnap DEF Next

(* job.py, _HistoryStepIterator: what an iterator delivers is the beginning *)
(* of the history at the capture, each step once and in order, although the *)
(* job goes on between two reads, tools of a logged turn report later, and  *)
(* a failed read starts over.                                               *)
THEOREM CapturedHistoryStays == Spec => []SnapshotIsStable
<1>1. SnapInv => SnapshotIsStable
  <2> SUFFICES ASSUME SnapInv, snap # <<>> PROVE IsPrefix(reader.out, snap[1].steps)
    BY DEF SnapshotIsStable
  <2>1. PICK bounds, steps : Captured(bounds, steps)
    BY DEF SnapInv
  <2>2. snap[1].steps = steps /\ Delivered(reader.out, steps)
    BY <2>1 DEF Captured
  <2> QED
    BY <2>2 DEF IsPrefix, Delivered
<1>2. JhInv /\ SnapInv /\ [Next]_vars => SnapInv'
  BY SnapNext DEF JhInv
<1> QED
  BY <1>1, <1>2, SnapStart, HistoryInvariant, PTL DEF Spec

-----------------------------------------------------------------------------
(* The history that is rendered now, message by message.                    *)
NowSteps == BuildSteps(log, Len(console), pushes, {})
NowMessages == [k \in DOMAIN NowSteps |-> NowSteps[k].msgs]
EntryMessages(i) == Messages(log, i, EndAt(log, Len(console), i), pushes)
Base(i) == Offsets(Lengths(NowMessages))[StepAt(log, Len(console), pushes, i) - 1]
RenderedAt(q) ==
    /\ \A i \in 1..Len(log) : ~Skipped(log, i) =>
          \A j \in 1..Len(EntryMessages(i)) :
             Base(i) + j \in DOMAIN q /\ q[Base(i) + j] = EntryMessages(i)[j]
    /\ \A k \in DOMAIN q : q[k].what = "console" =>
          \E i \in 1..Len(log) : \E j \in 1..Len(EntryMessages(i)) :
             /\ ~Skipped(log, i) /\ k = Base(i) + j /\ q[k] = EntryMessages(i)[j]
    /\ \A i \in 1..Len(log) : ~Skipped(log, i) => Base(i) \in Nat

(* Where the output of an item ends.                                        *)
LEMMA EndAtIs ==
    ASSUME JhInv, NEW i \in DOMAIN log, NEW end, end = EndAt(log, Len(console), i)
    PROVE  /\ end \in Nat /\ end <= Len(console)
           /\ \A k \in DOMAIN log : k > i /\ log[k].kind \notin Idle => end <= log[k].pos
           /\ \A l \in Nat : /\ l <= Len(console)
                             /\ \A k \in DOMAIN log : k > i /\ log[k].kind \notin Idle => l <= log[k].pos
                             => l <= end
<1> DEFINE after == {k \in i + 1..Len(log) : IsBoundary(log[k])}
<1>1. /\ Len(log) \in Nat /\ DOMAIN log = 1..Len(log) /\ i \in 1..Len(log) /\ after \subseteq 1..Len(log)
      /\ Len(console) \in Nat
  BY LogPositions
<1>2. ASSUME NEW k \in DOMAIN log PROVE (k > i /\ log[k].kind \notin Idle) <=> k \in after
  <2>1. PICK item \in Items : item = log[k]
    BY Sizes DEF JhInv
  <2>2. item.kind \in BoundaryKinds \cup {"user", "difficulty"}
    BY DEF Items, Kinds
  <2>3. item.kind \notin Idle <=> IsBoundary(item)
    BY <2>2 DEF Idle, IsBoundary, BoundaryKinds
  <2>4. k \in 1..Len(log) /\ (k > i <=> k \in i + 1..Len(log))
    BY <1>1
  <2> QED
    BY <2>1, <2>3, <2>4
<1>3. CASE after = {}
  BY <1>1, <1>2, <1>3 DEF EndAt
<1>4. CASE after # {}
  <2>1. FirstOf(after) \in after /\ \A k \in after : FirstOf(after) <= k
    <3> HIDE DEF after
    <3> QED
      BY <1>1, <1>4, FirstOfIs
  <2>2. PICK f \in 1..Len(log) : f = FirstOf(after)
    BY <1>1, <2>1
  <2>3. end = log[f].pos /\ f > i /\ log[f].kind \notin Idle
    BY <1>1, <1>2, <1>4, <2>1, <2>2 DEF EndAt
  <2>4. ASSUME NEW k \in DOMAIN log, k > i, log[k].kind \notin Idle PROVE log[f].pos <= log[k].pos
    <3>1. k \in after /\ log[k].kind # "user"
      BY <1>2, <2>4 DEF Idle
    <3>2. f <= k
      BY <2>1, <2>2, <3>1
    <3> QED
      BY <1>1, <2>2, <3>1, <3>2, LogPositions
  <2>5. log[f].pos \in Nat /\ log[f].pos <= Len(console)
    BY <1>1, <2>2, LogPositions
  <2> QED
    BY <1>1, <2>2, <2>3, <2>4, <2>5
<1> QED
  BY <1>3, <1>4

LEMMA RenderedIs == ASSUME JhInv PROVE Rendered \in Seq(MsgT) /\ RenderedAt(Rendered)
<1>1. PICK steps, ss, q : /\ steps = NowSteps /\ ss = NowMessages /\ q = Rendered
  OBVIOUS
<1>2. PICK n \in Nat, lines \in Nat : n = Len(log) /\ lines = Len(console) /\ DOMAIN log = 1..n
  BY LogPositions
<1>3. OneStepEach(log, lines, pushes, steps)
  <2>1. log \in Seq(Items)
    BY DEF JhInv, JhTypes
  <2> HIDE DEF Items
  <2> QED
    BY <1>1, <1>2, <2>1, StepsAre DEF NowSteps
<1>4. PICK U : steps \in Seq(U)
  BY <1>3 DEF OneStepEach
<1>5. PICK m \in Nat : m = Len(steps) /\ DOMAIN steps = 1..m
  BY <1>4
<1>6. ss = [k \in 1..m |-> steps[k].msgs]
  BY <1>1, <1>5 DEF NowMessages
<1>7. ASSUME NEW i \in 1..n
      PROVE  /\ EntryMessages(i) \in Seq(MsgT)
             /\ EntryStep(log, lines, pushes, i).msgs = EntryMessages(i)
  <2>1. PICK item \in Items : item = log[i] /\ HasBlock(item)
    BY <1>2, Sizes DEF JhInv, BlockInv
  <2>2. PICK end \in Nat : end = EndAt(log, Len(console), i)
    BY <1>2, EndAtIs
  <2>3. pushes \in Seq(PushT)
    BY DEF JhInv, JhTypes, PushT
  <2>4. JhTypes
    BY DEF JhInv
  <2>5. PICK p : p = Messages(log, i, end, pushes)
    OBVIOUS
  <2>6. p \in Seq(MsgT)
    <3> HIDE DEF Items, MsgT, PushT
    <3> QED
      BY <2>1, <2>2, <2>3, <2>4, <2>5, MessagesAre
  <2> QED
    BY <1>2, <2>2, <2>5, <2>6 DEF EntryMessages, EntryStep, Step
<1>8. NoOutput(InitialMessages(log, pushes)) /\ Step(0, 0, 0, InitialMessages(log, pushes)).msgs = InitialMessages(log, pushes)
  <2>1. log \in Seq(Items) /\ pushes \in Seq(PushT)
    BY DEF JhInv, JhTypes, PushT
  <2> HIDE DEF Items, PushT
  <2> QED
    BY <2>1, InitialIs DEF Step
<1>9. ASSUME NEW s \in 1..m
      PROVE  \/ s = 1 /\ ss[s] = InitialMessages(log, pushes)
             \/ \E i \in 1..n : /\ ~Skipped(log, i) /\ s = StepAt(log, lines, pushes, i)
                                /\ ss[s] = EntryMessages(i)
  <2>1. ss[s] = steps[s].msgs
    BY <1>6
  <2>2. \/ s = 1 /\ InitialMessages(log, pushes) # <<>>
        \/ \E i \in 1..n : ~Skipped(log, i) /\ s = StepAt(log, lines, pushes, i)
    BY <1>2, <1>3, <1>5 DEF OneStepEach
  <2>3. CASE s = 1 /\ InitialMessages(log, pushes) # <<>>
    <3>1. steps[1] = Step(0, 0, 0, InitialMessages(log, pushes))
      BY <1>3, <2>3 DEF OneStepEach
    <3> QED
      BY <1>8, <2>1, <2>3, <3>1
  <2>4. CASE \E i \in 1..n : ~Skipped(log, i) /\ s = StepAt(log, lines, pushes, i)
    <3>1. PICK i \in 1..n : ~Skipped(log, i) /\ s = StepAt(log, lines, pushes, i)
      BY <2>4
    <3>2. steps[s] = EntryStep(log, lines, pushes, i)
      BY <1>2, <1>3, <3>1 DEF OneStepEach
    <3> QED
      BY <1>7, <2>1, <3>1, <3>2
  <2> QED
    BY <2>2, <2>3, <2>4
<1>10. \A s \in 1..m : ss[s] \in Seq(MsgT)
  <2> HIDE DEF MsgT
  <2> QED
    BY <1>7, <1>8, <1>9 DEF NoOutput
<1>11. ss \in Seq(Seq(MsgT)) /\ Len(ss) = m
  <2> HIDE DEF MsgT
  <2> QED
    BY <1>6, <1>10
<1>12. PICK o : o = Offsets(Lengths(ss))
  OBVIOUS
<1>13. q = FlattenSeq(ss)
  BY <1>1 DEF Rendered, ChatHistory, Flat, NowMessages, NowSteps
<1>14. q \in Seq(MsgT) /\ FlatAt(ss, o, q)
  <2> HIDE DEF MsgT
  <2> QED
    BY <1>11, <1>12, <1>13, FlattenAt
<1>15. ASSUME NEW i \in 1..n, ~Skipped(log, i)
       PROVE  /\ Base(i) = o[StepAt(log, lines, pushes, i) - 1]
              /\ StepAt(log, lines, pushes, i) \in 1..m
              /\ ss[StepAt(log, lines, pushes, i)] = EntryMessages(i)
  BY <1>1, <1>2, <1>3, <1>5, <1>6, <1>7, <1>12, <1>15 DEF Base, OneStepEach
<1>16. ASSUME NEW i \in 1..n, ~Skipped(log, i) PROVE Base(i) \in Nat
  <2>1. PICK s \in 1..m : s = StepAt(log, lines, pushes, i)
    BY <1>15, <1>16
  <2>2. o \in [0..m -> Nat] /\ s - 1 \in 0..m
    BY <1>11, <1>14 DEF FlatAt, AreOffsets
  <2> QED
    BY <1>15, <1>16, <2>1, <2>2
<1>17. ASSUME NEW i \in 1..n, ~Skipped(log, i), NEW j \in 1..Len(EntryMessages(i))
       PROVE  Base(i) + j \in DOMAIN q /\ q[Base(i) + j] = EntryMessages(i)[j]
  <2>1. PICK s \in 1..m : s = StepAt(log, lines, pushes, i)
    BY <1>15, <1>17
  <2>2. ss[s] = EntryMessages(i) /\ Base(i) = o[s - 1]
    BY <1>15, <1>17, <2>1
  <2>3. \A t \in 1..Len(ss[s]) : o[s - 1] + t \in DOMAIN q /\ q[o[s - 1] + t] = ss[s][t]
    BY <1>11, <1>14 DEF FlatAt
  <2> QED
    BY <2>2, <2>3
<1>18. ASSUME NEW k \in DOMAIN q, q[k].what = "console"
       PROVE  \E i \in 1..n : \E j \in 1..Len(EntryMessages(i)) :
                 /\ ~Skipped(log, i) /\ k = Base(i) + j /\ q[k] = EntryMessages(i)[j]
  <2>5. PICK s \in 1..m : \E j \in 1..Len(ss[s]) : k = o[s - 1] + j /\ q[k] = ss[s][j]
    BY <1>11, <1>14 DEF FlatAt
  <2>1. PICK j \in 1..Len(ss[s]) : k = o[s - 1] + j /\ q[k] = ss[s][j]
    BY <2>5
  <2>2. ss[s] # InitialMessages(log, pushes)
    BY <1>8, <1>18, <2>1 DEF NoOutput
  <2>3. PICK i \in 1..n : /\ ~Skipped(log, i) /\ s = StepAt(log, lines, pushes, i)
                          /\ ss[s] = EntryMessages(i)
    BY <1>9, <2>2
  <2>4. Base(i) = o[s - 1]
    BY <1>15, <2>3
  <2> QED
    BY <2>1, <2>3, <2>4
<1> QED
  BY <1>1, <1>2, <1>14, <1>16, <1>17, <1>18 DEF RenderedAt

LEMMA EntryOutputIs ==
    ASSUME JhInv, NEW i \in 1..Len(log), NEW end, end = EndAt(log, Len(console), i)
    PROVE  /\ EntryMessages(i) \in Seq(MsgT)
           /\ ~Shows(log[i]) => NoOutput(EntryMessages(i))
           /\ Shows(log[i]) => ShowsOnce(EntryMessages(i), log[i], i, end)
<1>1. PICK item \in Items : item = log[i] /\ HasBlock(item)
  BY Sizes DEF JhInv, BlockInv
<1>2. end \in Nat /\ i \in Nat
  BY EndAtIs, LogPositions
<1>3. pushes \in Seq(PushT) /\ JhTypes
  BY DEF JhInv, JhTypes, PushT
<1>4. PICK p : p = Messages(log, i, end, pushes) /\ p = EntryMessages(i)
  BY DEF EntryMessages
<1>5. /\ p \in Seq(MsgT)
      /\ ~Shows(item) => NoOutput(p)
      /\ Shows(item) => ShowsOnce(p, item, i, end)
  <2> HIDE DEF Items, MsgT, PushT
  <2> QED
    BY <1>1, <1>2, <1>3, <1>4, MessagesAre
<1> QED
  BY <1>1, <1>4, <1>5

RangeOf(q) == {q[n] : n \in DOMAIN q}
LEMMA NumbersRange ==
    ASSUME NEW a \in Nat, NEW b \in Nat
    PROVE  RangeOf(Numbers(a, b)) = a + 1..b
<1>1. \A n \in a + 1..b : n - a \in 1..b - a /\ a + (n - a) = n
  OBVIOUS
<1>2. \A n \in 1..b - a : a + n \in a + 1..b
  OBVIOUS
<1> QED
  BY <1>1, <1>2 DEF RangeOf, Numbers

(* Output is shown in the entry of the turn that printed it.                *)
LEMMA OutputFrom ==
    ASSUME JhInv, NEW k \in DOMAIN Rendered, Rendered[k].what = "console",
           NEW l \in DOMAIN console, NEW b, b = console[l].by, b # 0,
           l \in RangeOf(Rendered[k].refs)
    PROVE  /\ b \in Turns /\ b \in 1..Len(log) /\ Shows(log[b])
           /\ \E j \in OutputAt(EntryMessages(b)) : k = Base(b) + j /\ Rendered[k] = EntryMessages(b)[j]
<1>1. /\ Len(log) \in Nat /\ DOMAIN log = 1..Len(log) /\ Turns \subseteq 1..Len(log)
      /\ Len(console) \in Nat /\ l \in 1..Len(console)
      /\ \A i \in 1..Len(log) : log[i].pos \in Nat
  BY LogPositions
<1>2. /\ b \in DOMAIN log /\ log[b].pos < l
      /\ \A i \in DOMAIN log : i > b /\ log[i].kind \notin Idle => l <= log[i].pos
      /\ log[b].kind \in TurnKinds \/ log[b].kind = "reminder"
  BY DEF JhInv, PrintInv
<1>3. PICK i \in 1..Len(log) : \E j \in 1..Len(EntryMessages(i)) :
             /\ ~Skipped(log, i) /\ k = Base(i) + j /\ Rendered[k] = EntryMessages(i)[j]
  BY RenderedIs DEF RenderedAt
<1>4. PICK j \in 1..Len(EntryMessages(i)) :
             /\ ~Skipped(log, i) /\ k = Base(i) + j /\ Rendered[k] = EntryMessages(i)[j]
  BY <1>3
<1>5. PICK end \in Nat : /\ end = EndAt(log, Len(console), i)
                         /\ \A m \in DOMAIN log : m > i /\ log[m].kind \notin Idle => end <= log[m].pos
  BY <1>1, EndAtIs
<1>6. Shows(log[i]) /\ ShowsOnce(EntryMessages(i), log[i], i, end) /\ j \in OutputAt(EntryMessages(i))
  <2>1. ~NoOutput(EntryMessages(i)) /\ j \in OutputAt(EntryMessages(i))
    BY <1>4 DEF NoOutput, OutputAt
  <2> QED
    BY <1>5, <2>1, EntryOutputIs
<1>7. Rendered[k].refs = Numbers(log[i].pos, end) /\ log[i].kind \in TurnKinds
  BY <1>4, <1>6 DEF ShowsOnce, Shows
<1>8. l \in log[i].pos + 1..end
  BY <1>1, <1>7, NumbersRange
<1>13. PICK pos \in Nat : pos = log[i].pos /\ pos < l
  BY <1>1, <1>8
<1>9. ~(i > b)
  <2> SUFFICES ASSUME i > b PROVE FALSE
    OBVIOUS
  <2>1. log[i].kind \notin Idle
    BY <1>7 DEF TurnKinds, Idle
  <2>2. l <= pos
    BY <1>1, <1>2, <1>13, <2>1
  <2> QED
    BY <1>1, <1>13, <2>2
<1>10. ~(b > i)
  <2> SUFFICES ASSUME b > i PROVE FALSE
    OBVIOUS
  <2>1. end <= log[b].pos
    BY <1>2, <1>5 DEF TurnKinds, Idle
  <2> QED
    BY <1>1, <1>2, <1>8, <2>1
<1>11. b = i
  BY <1>1, <1>2, <1>9, <1>10
<1>12. i \in Turns
  BY <1>1, <1>7 DEF Turns, TurnKinds
<1> QED
  BY <1>4, <1>6, <1>11, <1>12

LEMMA OutputFollows == JhInv => OutputFollowsItsCode
<1> SUFFICES ASSUME JhInv PROVE OutputFollowsItsCode
  OBVIOUS
<1> DEFINE at == {k \in DOMAIN Rendered : Rendered[k].what = "console"}
<1>1. /\ Len(log) \in Nat /\ DOMAIN log = 1..Len(log) /\ Turns \subseteq 1..Len(log)
      /\ Len(console) \in Nat /\ DOMAIN console = 1..Len(console)
      /\ \A i \in 1..Len(log) : log[i].pos \in Nat
  BY LogPositions
<1>2. Rendered \in Seq(MsgT) /\ RenderedAt(Rendered)
  BY RenderedIs
<1>3. ASSUME NEW k \in at, NEW l \in DOMAIN console, NEW b, b = console[l].by,
             l \in RangeOf(Rendered[k].refs), b # 0
      PROVE  b \in Turns /\ (ShowsReply(b) => Rendered[k - 1].role = "assistant" /\ Rendered[k - 1].refs = <<b>>)
  <2>1. /\ b \in Turns /\ b \in 1..Len(log) /\ Shows(log[b])
        /\ \E j \in OutputAt(EntryMessages(b)) : k = Base(b) + j /\ Rendered[k] = EntryMessages(b)[j]
    BY <1>3, OutputFrom
  <2>2. PICK j \in OutputAt(EntryMessages(b)) : k = Base(b) + j
    BY <2>1
  <2>3. PICK end : end = EndAt(log, Len(console), b)
    OBVIOUS
  <2>4. ShowsOnce(EntryMessages(b), log[b], b, end)
    BY <2>1, <2>3, EntryOutputIs
  <2>5. ASSUME ShowsReply(b) PROVE Said(log[b], b) # <<>>
    <3>1. PICK item \in Items : item = log[b] /\ HasBlock(item)
      BY <2>1, Sizes DEF JhInv, BlockInv
    <3>2. AssistantMessages(item, b) = Said(item, b)
      <4>1. item.kind \in TurnKinds /\ Calls(item) = 0
        BY <2>1, <3>1 DEF Shows
      <4> HIDE DEF Items
      <4> QED
        BY <1>1, <2>1, <3>1, <4>1, AssistantMessagesAre DEF JhInv
    <3>3. DOMAIN AssistantMessages(item, b) # {}
      BY <2>5, <3>1 DEF ShowsReply
    <3> QED
      BY <3>1, <3>2, <3>3
  <2>6. ASSUME ShowsReply(b) PROVE Rendered[k - 1].role = "assistant" /\ Rendered[k - 1].refs = <<b>>
    <3>1. PICK m \in 1..Len(EntryMessages(b)) : /\ m = j - 1 /\ EntryMessages(b)[m].role = "assistant"
                                                /\ EntryMessages(b)[m].refs = <<b>>
      BY <2>2, <2>4, <2>5, <2>6 DEF ShowsOnce
    <3>2. ~Skipped(log, b)
      BY <2>1 DEF Shows, Skipped, TurnKinds
    <3>3. Base(b) \in Nat /\ Rendered[Base(b) + m] = EntryMessages(b)[m]
      BY <1>2, <2>1, <3>1, <3>2 DEF RenderedAt
    <3>4. j \in Nat
      BY <2>2 DEF OutputAt
    <3>5. k - 1 = Base(b) + m
      BY <2>2, <3>1, <3>3, <3>4
    <3> QED
      BY <3>1, <3>3, <3>5
  <2> QED
    BY <2>1, <2>6
<1>4. ASSUME NEW l \in DOMAIN console, ShowsOutput(console[l].by)
      PROVE  Cardinality({k \in at : l \in RangeOf(Rendered[k].refs)}) = 1
  <2>1. PICK b : b = console[l].by
    OBVIOUS
  <2>2. b \in Turns /\ b \in 1..Len(log) /\ b # 0 /\ Shows(log[b])
    BY <1>1, <1>4, <2>1 DEF ShowsOutput, Shows, Turns, TurnKinds
  <2>3. PICK end \in Nat : /\ end = EndAt(log, Len(console), b)
                           /\ \A x \in Nat : /\ x <= Len(console)
                                             /\ \A k \in DOMAIN log : k > b /\ log[k].kind \notin Idle => x <= log[k].pos
                                             => x <= end
    BY <1>1, <2>2, EndAtIs
  <2>4. l <= end /\ log[b].pos < l /\ l \in Nat
    BY <1>1, <2>1, <2>2, <2>3 DEF JhInv, PrintInv
  <2>5. ShowsOnce(EntryMessages(b), log[b], b, end) /\ EntryMessages(b) \in Seq(MsgT)
    BY <2>2, <2>3, EntryOutputIs
  <2>6. PICK j \in OutputAt(EntryMessages(b)) : TRUE
    BY <1>1, <2>2, <2>4, <2>5 DEF ShowsOnce
  <2>7. j \in 1..Len(EntryMessages(b)) /\ EntryMessages(b)[j].what = "console"
        /\ EntryMessages(b)[j].refs = Numbers(log[b].pos, end)
    BY <2>5, <2>6 DEF ShowsOnce, OutputAt
  <2>8. ~Skipped(log, b)
    BY <2>2 DEF Shows, Skipped, TurnKinds
  <2>9. PICK m : m = Base(b) + j /\ m \in DOMAIN Rendered /\ Rendered[m] = EntryMessages(b)[j]
    BY <1>2, <2>2, <2>7, <2>8 DEF RenderedAt
  <2>10. m \in at /\ l \in RangeOf(Rendered[m].refs)
    <3>1. PICK pos \in Nat : pos = log[b].pos
      BY <1>1, <2>2
    <3>2. l \in pos + 1..end
      BY <2>3, <2>4, <3>1
    <3>3. RangeOf(Numbers(pos, end)) = pos + 1..end
      BY <2>3, <3>1, NumbersRange
    <3>4. Rendered[m].refs = Numbers(pos, end) /\ Rendered[m].what = "console"
      BY <2>7, <2>9, <3>1
    <3> QED
      BY <2>9, <3>2, <3>3, <3>4
  <2>11. ASSUME NEW k \in at, l \in RangeOf(Rendered[k].refs) PROVE k = m
    <3>1. PICK i \in OutputAt(EntryMessages(b)) : k = Base(b) + i
      BY <2>1, <2>2, <2>11, OutputFrom
    <3>2. i = j
      BY <2>5, <2>6, <3>1 DEF ShowsOnce
    <3> QED
      BY <2>9, <3>1, <3>2
  <2>12. {k \in at : l \in RangeOf(Rendered[k].refs)} = {m}
    BY <2>10, <2>11
  <2> QED
    BY <2>12, FS_Singleton
<1> QED
  BY <1>3, <1>4 DEF OutputFollowsItsCode, RangeOf

(* The messages of a dialog with one reference each, and the references of  *)
(* those of a kind.                                                         *)
DialogMsgs == [role : {"user", "assistant"}, what : {"user", "said", "answer"}, refs : {<<x>> : x \in Nat}]
Ref(m) == m.refs[1]
RefsOf(d, what) ==
    FlattenSeq([k \in DOMAIN d |-> IF d[k].what = what THEN d[k].refs ELSE <<>>])
AscendsIn(d, what) ==
    \A k, m \in 1..Len(d) : k < m /\ d[k].what = what /\ d[m].what = what => Ref(d[k]) < Ref(d[m])
Ascends(q) == \A a, b \in 1..Len(q) : a < b => q[a] < q[b]

AreRefs(q, d, what) ==
    /\ q \in Seq(Nat) /\ Ascends(q)
    /\ {q[a] : a \in DOMAIN q} = {Ref(d[k]) : k \in {x \in 1..Len(d) : d[x].what = what}}

LEMMA RefsAre ==
    ASSUME NEW d \in Seq(DialogMsgs), NEW what, AscendsIn(d, what)
    PROVE  AreRefs(RefsOf(d, what), d, what)
<1>0. PICK q : q = RefsOf(d, what)
  OBVIOUS
<1>1. PICK n \in Nat : n = Len(d) /\ DOMAIN d = 1..n
  OBVIOUS
<1>2. PICK ss : ss = [k \in 1..n |-> IF d[k].what = what THEN d[k].refs ELSE <<>>]
  OBVIOUS
<1>3. ASSUME NEW k \in 1..n
      PROVE  /\ ss[k] \in Seq(Nat) /\ Len(ss[k]) \in {0, 1}
             /\ d[k].what = what => Len(ss[k]) = 1 /\ ss[k][1] = Ref(d[k])
             /\ d[k].what # what => Len(ss[k]) = 0
  <2>1. PICK m \in DialogMsgs : m = d[k]
    BY <1>1, ElementOfSeq
  <2>2. PICK x \in Nat : m.refs = <<x>>
    BY DEF DialogMsgs
  <2>3. <<x>> \in Seq(Nat) /\ Len(<<x>>) = 1 /\ <<x>>[1] = x /\ <<>> \in Seq(Nat) /\ Len(<<>>) = 0
    OBVIOUS
  <2>4. ss[k] = IF m.what = what THEN <<x>> ELSE <<>>
    BY <1>2, <2>1, <2>2
  <2>5. Ref(m) = x
    BY <2>2 DEF Ref
  <2> QED
    BY <2>1, <2>3, <2>4, <2>5
<1>4. ss \in Seq(Seq(Nat)) /\ Len(ss) = n
  BY <1>2, <1>3
<1>5. PICK o : o = Offsets(Lengths(ss))
  OBVIOUS
<1>6. q = FlattenSeq(ss)
  BY <1>0, <1>1, <1>2 DEF RefsOf
<1>7. q \in Seq(Nat) /\ FlatAt(ss, o, q)
  BY <1>4, <1>5, <1>6, FlattenAt
<1>8. ASSUME NEW a \in DOMAIN q
      PROVE  \E k \in 1..n : /\ d[k].what = what /\ q[a] = Ref(d[k]) /\ a = o[k - 1] + 1 /\ 1 \in 1..Len(ss[k])
  <2>1. PICK k \in 1..n : \E j \in 1..Len(ss[k]) : a = o[k - 1] + j /\ q[a] = ss[k][j]
    BY <1>4, <1>7 DEF FlatAt
  <2>2. PICK j \in 1..Len(ss[k]) : a = o[k - 1] + j /\ q[a] = ss[k][j]
    BY <2>1
  <2>3. Len(ss[k]) = 1 /\ j = 1 /\ d[k].what = what
    BY <1>3, <2>2
  <2>4. a = o[k - 1] + 1 /\ q[a] = ss[k][1] /\ 1 \in 1..Len(ss[k])
    BY <2>2, <2>3
  <2>5. ss[k][1] = Ref(d[k])
    BY <1>3, <2>3
  <2> QED
    BY <2>3, <2>4, <2>5
<1>9. Ascends(q)
  <2> SUFFICES ASSUME NEW a \in 1..Len(q), NEW b \in 1..Len(q), a < b PROVE q[a] < q[b]
    BY DEF Ascends
  <2>4. a \in DOMAIN q /\ b \in DOMAIN q
    BY <1>7
  <2>1. PICK k \in 1..n : d[k].what = what /\ q[a] = Ref(d[k]) /\ a = o[k - 1] + 1 /\ 1 \in 1..Len(ss[k])
    BY <1>8, <2>4
  <2>2. PICK m \in 1..n : d[m].what = what /\ q[b] = Ref(d[m]) /\ b = o[m - 1] + 1 /\ 1 \in 1..Len(ss[m])
    BY <1>8, <2>4
  <2>3. k < m \/ (k = m /\ 1 < 1)
    <3>1. o[k - 1] + 1 < o[m - 1] + 1
      BY <2>1, <2>2
    <3> QED
      BY <1>4, <1>7, <2>1, <2>2, <3>1, FlatOrder
  <2> QED
    BY <1>1, <2>1, <2>2, <2>3 DEF AscendsIn
<1>10. ASSUME NEW k \in 1..n, d[k].what = what PROVE \E a \in DOMAIN q : q[a] = Ref(d[k])
  <2>1. 1 \in 1..Len(ss[k]) /\ ss[k][1] = Ref(d[k])
    BY <1>3, <1>10
  <2>2. \A j \in 1..Len(ss[k]) : o[k - 1] + j \in DOMAIN q /\ q[o[k - 1] + j] = ss[k][j]
    BY <1>4, <1>7 DEF FlatAt
  <2> QED
    BY <2>1, <2>2
<1>11. {q[a] : a \in DOMAIN q} \subseteq {Ref(d[k]) : k \in {x \in 1..n : d[x].what = what}}
  BY <1>8
<1>12. {Ref(d[k]) : k \in {x \in 1..n : d[x].what = what}} \subseteq {q[a] : a \in DOMAIN q}
  BY <1>10
<1> QED
  BY <1>0, <1>1, <1>7, <1>9, <1>11, <1>12 DEF AreRefs

(* What an item of the log contributes to the dialog.                       *)
DialogPart(q, i) ==
    /\ q \in Seq(DialogMsgs)
    /\ \A j \in 1..Len(q) :
          /\ q[j].what = "user" => log[i].kind = "user" /\ j = 1 /\ Ref(q[j]) = log[i].id
          /\ q[j].what = "answer" => i \in Turns /\ log[i].pos < Ref(q[j]) /\ Ref(q[j]) <= TurnEnd(i)
    /\ AscendsIn(q, "answer")
    /\ log[i].kind = "user" => 1 \in 1..Len(q) /\ q[1].what = "user"
    /\ i \in Turns => \A l \in log[i].pos + 1..TurnEnd(i) :
          \E j \in 1..Len(q) : q[j].what = "answer" /\ Ref(q[j]) = l

LEMMA DialogMade ==
    ASSUME NEW role \in {"user", "assistant"}, NEW what \in {"user", "said", "answer"}, NEW x \in Nat,
           NEW m, m = Msg(role, what, <<x>>)
    PROVE  m \in DialogMsgs /\ m.what = what /\ Ref(m) = x
<1>1. PICK refs : refs = <<x>>
  OBVIOUS
<1>2. refs \in {<<y>> : y \in Nat} /\ refs[1] = x
  BY <1>1
<1>3. m = [role |-> role, what |-> what, refs |-> refs]
  BY <1>1 DEF Msg
<1> QED
  BY <1>2, <1>3 DEF DialogMsgs, Ref

LEMMA DialogOfIs == ASSUME JhInv, NEW i \in 1..Len(log) PROVE DialogPart(DialogOf(i), i)
<1>1. PICK item \in Items : item = log[i]
  BY Sizes DEF JhInv
<1>2. item.id \in Nat /\ item.pos \in Nat /\ i \in Nat
  BY <1>1, LogPositions DEF Items
<1>3. PICK q : q = DialogOf(i)
  OBVIOUS
<1>4. CASE item.kind = "user"
  <2>1. PICK m : m = Msg("user", "user", <<item.id>>)
    OBVIOUS
  <2>2. m \in DialogMsgs /\ m.what = "user" /\ Ref(m) = item.id
    BY <1>2, <2>1, DialogMade
  <2>3. q = <<m>>
    BY <1>1, <1>3, <1>4, <2>1 DEF DialogOf
  <2>4. q \in Seq(DialogMsgs) /\ Len(q) = 1 /\ q[1] = m
    <3> HIDE DEF DialogMsgs
    <3> QED
      BY <2>2, <2>3
  <2>5. \A j \in 1..Len(q) : j = 1
    BY <2>4
  <2>6. i \notin Turns
    BY <1>1, <1>4 DEF Turns
  <2> QED
    BY <1>1, <1>3, <1>4, <2>2, <2>4, <2>5, <2>6 DEF DialogPart, AscendsIn
<1>5. CASE item.kind # "user" /\ i \notin Turns
  <2>1. q = <<>>
    BY <1>1, <1>3, <1>5 DEF DialogOf
  <2> QED
    BY <1>1, <1>3, <1>5, <2>1 DEF DialogPart, AscendsIn
<1>6. CASE i \in Turns
  <2>1. PICK n \in Nat, pos \in Nat : n = TurnEnd(i) /\ pos = item.pos /\ pos <= n
    BY <1>1, <1>2, <1>6, TurnEndIs
  <2>2. PICK a, b : /\ a = (IF log[i].kind = "llm" /\ log[i].reply.text = "dialog"
                            THEN <<Msg("assistant", "said", <<i>>)>> ELSE <<>>)
                    /\ b = [k \in 1..n - pos |-> Msg("assistant", "answer", <<pos + k>>)]
    OBVIOUS
  <2>3. q = a \o b
    BY <1>1, <1>3, <1>4, <1>6, <2>1, <2>2 DEF DialogOf, Turns
  <2>4. a \in Seq(DialogMsgs) /\ Len(a) \in {0, 1} /\ (Len(a) = 1 => a[1].what = "said")
    <3>1. PICK m : m = Msg("assistant", "said", <<i>>)
      OBVIOUS
    <3>2. m \in DialogMsgs /\ m.what = "said"
      BY <1>2, <3>1, DialogMade
    <3>3. a = <<>> \/ a = <<m>>
      BY <2>2, <3>1
    <3> HIDE DEF DialogMsgs
    <3> QED
      BY <3>2, <3>3, OneOrNone
  <2>5. ASSUME NEW k \in 1..n - pos PROVE b[k] \in DialogMsgs /\ b[k].what = "answer" /\ Ref(b[k]) = pos + k
    <3>1. PICK x \in Nat : x = pos + k
      BY <2>1
    <3>2. b[k] = Msg("assistant", "answer", <<x>>)
      BY <2>2, <3>1
    <3> QED
      BY <3>1, <3>2, DialogMade
  <2>6. b \in Seq(DialogMsgs) /\ Len(b) = n - pos
    <3> HIDE DEF DialogMsgs
    <3>1. n - pos \in Nat
      BY <2>1
    <3>2. DOMAIN b = 1..n - pos /\ b = [k \in 1..n - pos |-> b[k]]
      BY <2>2
    <3> QED
      BY <2>5, <3>1, <3>2
  <2>7. q \in Seq(DialogMsgs) /\ JoinAt(a, b, q)
    <3> HIDE DEF DialogMsgs
    <3> QED
      BY <2>3, <2>4, <2>6, Joined
  <2>8. ASSUME NEW j \in 1..Len(q)
        PROVE  \/ q[j].what = "said"
               \/ /\ j - Len(a) \in 1..n - pos /\ q[j].what = "answer" /\ Ref(q[j]) = pos + (j - Len(a))
    <3>1. CASE j <= Len(a)
      <4>1. Len(a) = 1 /\ j = 1 /\ q[j] = a[j]
        BY <2>4, <2>7, <3>1 DEF JoinAt
      <4> QED
        BY <2>4, <4>1
    <3>2. CASE j > Len(a)
      <4>4. Len(q) = Len(a) + (n - pos) /\ j \in Nat /\ j <= Len(q) /\ Len(a) \in Nat
        BY <2>4, <2>6, <2>7 DEF JoinAt
      <4>5. PICK x \in Nat, size \in Nat : x = Len(a) /\ size = n - pos
        BY <2>1, <4>4
      <4>6. j - x \in 1..size
        BY <3>2, <4>4, <4>5
      <4>1. PICK k \in 1..n - pos : k = j - Len(a)
        BY <4>5, <4>6
      <4>2. j \in Len(a) + 1..Len(a) + Len(b)
        BY <2>1, <2>6, <3>2, <4>4
      <4>3. q[j] = b[k]
        BY <2>7, <4>1, <4>2 DEF JoinAt
      <4> QED
        BY <2>5, <4>1, <4>3
    <3> QED
      BY <2>4, <3>1, <3>2
  <2>9. AscendsIn(q, "answer")
    <3> SUFFICES ASSUME NEW j \in 1..Len(q), NEW m \in 1..Len(q), j < m,
                        q[j].what = "answer", q[m].what = "answer"
                 PROVE  Ref(q[j]) < Ref(q[m])
      BY DEF AscendsIn
    <3>1. Ref(q[j]) = pos + (j - Len(a)) /\ Ref(q[m]) = pos + (m - Len(a))
      BY <2>8
    <3> QED
      BY <2>1, <2>4, <3>1
  <2>10. ASSUME NEW l \in pos + 1..n PROVE \E j \in 1..Len(q) : q[j].what = "answer" /\ Ref(q[j]) = l
    <3>1. PICK k \in 1..n - pos : k = l - pos
      BY <2>1
    <3>2. k \in 1..Len(b) /\ Len(a) + k \in 1..Len(q) /\ q[Len(a) + k] = b[k]
      <4>1. k \in 1..Len(b) /\ Len(q) = Len(a) + Len(b) /\ Len(b) \in Nat
        BY <2>1, <2>6, <2>7 DEF JoinAt
      <4>2. Len(a) + k \in 1..Len(q)
        BY <2>4, <4>1
      <4> QED
        BY <2>7, <4>1, <4>2 DEF JoinAt
    <3>3. Ref(b[k]) = l /\ b[k].what = "answer"
      BY <2>1, <2>5, <3>1, SMTT(30)
    <3> QED
      BY <3>2, <3>3
  <2>11. ASSUME NEW j \in 1..Len(q)
         PROVE  /\ q[j].what # "user"
                /\ q[j].what = "answer" => log[i].pos < Ref(q[j]) /\ Ref(q[j]) <= TurnEnd(i)
    BY <1>1, <2>1, <2>4, <2>8, SMTT(30)
  <2> QED
    BY <1>1, <1>3, <1>6, <2>1, <2>7, <2>9, <2>10, <2>11 DEF DialogPart, Turns
<1> QED
  BY <1>1, <1>4, <1>5, <1>6

(* The message k of the dialog is what the item i contributes at j.         *)
DialogFrom(k, i, j) ==
    /\ j \in 1..Len(DialogOf(i)) /\ Dialog[k] = DialogOf(i)[j]
    /\ k = Offsets(Lengths([x \in DOMAIN log |-> DialogOf(x)]))[i - 1] + j
DialogParts ==
    /\ \A k \in 1..Len(Dialog) : \E i \in 1..Len(log) : \E j \in 1..Len(DialogOf(i)) : DialogFrom(k, i, j)
    /\ \A i \in 1..Len(log) : \A j \in 1..Len(DialogOf(i)) : \E k \in 1..Len(Dialog) : DialogFrom(k, i, j)
    /\ \A i, h \in 1..Len(log) : \A k, m \in 1..Len(Dialog) : \A j, t \in Nat :
          k < m /\ DialogFrom(k, i, j) /\ DialogFrom(m, h, t) => i < h \/ (i = h /\ j < t)

LEMMA DialogIs == ASSUME JhInv PROVE Dialog \in Seq(DialogMsgs) /\ DialogParts
<1>1. PICK n \in Nat : n = Len(log) /\ DOMAIN log = 1..n
  BY LogPositions
<1>2. PICK ss, q : ss = [x \in DOMAIN log |-> DialogOf(x)] /\ q = Dialog /\ q = FlattenSeq(ss)
  BY DEF Dialog
<1>3. ASSUME NEW i \in 1..n PROVE ss[i] = DialogOf(i) /\ ss[i] \in Seq(DialogMsgs)
  BY <1>1, <1>2, DialogOfIs DEF DialogPart
<1>4. ss \in Seq(Seq(DialogMsgs)) /\ Len(ss) = n
  <2> HIDE DEF DialogMsgs
  <2>1. ss = [x \in 1..n |-> ss[x]]
    BY <1>1, <1>2
  <2> QED
    BY <1>3, <2>1
<1>5. PICK o : o = Offsets(Lengths(ss))
  OBVIOUS
<1>6. q \in Seq(DialogMsgs) /\ FlatAt(ss, o, q)
  <2> HIDE DEF DialogMsgs
  <2> QED
    BY <1>2, <1>4, <1>5, FlattenAt
<1>7. ASSUME NEW k, NEW i \in 1..n, NEW j
      PROVE  DialogFrom(k, i, j) <=> j \in 1..Len(ss[i]) /\ q[k] = ss[i][j] /\ k = o[i - 1] + j
  BY <1>2, <1>3, <1>5 DEF DialogFrom
<1>8. \A k \in 1..Len(q) : \E i \in 1..n : \E j \in 1..Len(DialogOf(i)) : DialogFrom(k, i, j)
  <2> SUFFICES ASSUME NEW k \in 1..Len(q)
               PROVE  \E i \in 1..n : \E j \in 1..Len(DialogOf(i)) : DialogFrom(k, i, j)
    OBVIOUS
  <2>4. k \in DOMAIN q
    <3> HIDE DEF DialogMsgs
    <3> QED
      BY <1>6
  <2>1. PICK i \in 1..n : \E j \in 1..Len(ss[i]) : k = o[i - 1] + j /\ q[k] = ss[i][j]
    BY <1>4, <1>6, <2>4 DEF FlatAt
  <2>2. PICK j \in 1..Len(ss[i]) : k = o[i - 1] + j /\ q[k] = ss[i][j]
    BY <2>1
  <2>3. DialogFrom(k, i, j) /\ j \in 1..Len(DialogOf(i))
    BY <1>3, <1>7, <2>2
  <2> QED
    BY <2>3
<1>9. ASSUME NEW i \in 1..n, NEW j \in 1..Len(DialogOf(i)) PROVE \E k \in 1..Len(q) : DialogFrom(k, i, j)
  <2>1. j \in 1..Len(ss[i]) /\ \A t \in 1..Len(ss[i]) : o[i - 1] + t \in DOMAIN q /\ q[o[i - 1] + t] = ss[i][t]
    BY <1>3, <1>4, <1>6 DEF FlatAt
  <2>2. PICK k : k = o[i - 1] + j
    OBVIOUS
  <2>3. k \in 1..Len(q) /\ q[k] = ss[i][j]
    <3> HIDE DEF DialogMsgs
    <3> QED
      BY <1>6, <2>1, <2>2
  <2> QED
    BY <1>7, <2>1, <2>2, <2>3
<1>10. ASSUME NEW i \in 1..n, NEW h \in 1..n, NEW k \in 1..Len(q), NEW m \in 1..Len(q), NEW j \in Nat, NEW t \in Nat,
              k < m, DialogFrom(k, i, j), DialogFrom(m, h, t)
       PROVE  i < h \/ (i = h /\ j < t)
  <2>1. /\ j \in 1..Len(ss[i]) /\ k = o[i - 1] + j
        /\ t \in 1..Len(ss[h]) /\ m = o[h - 1] + t
    BY <1>7, <1>10, ZenonT(30)
  <2>2. o[i - 1] + j < o[h - 1] + t
    BY <1>10, <2>1
  <2> HIDE DEF DialogMsgs
  <2> QED
    BY <1>4, <1>6, <2>1, <2>2, FlatOrder
<1> QED
  BY <1>1, <1>2, <1>6, <1>8, <1>9, <1>10 DEF DialogParts

(* Answers and messages of the user come in the order of the log.           *)
LEMMA DialogAscends ==
    ASSUME JhInv PROVE AscendsIn(Dialog, "answer") /\ AscendsIn(Dialog, "user")
<1>1. Dialog \in Seq(DialogMsgs) /\ DialogParts
  BY DialogIs
<1>2. /\ Len(log) \in Nat /\ DOMAIN log = 1..Len(log) /\ Turns \subseteq 1..Len(log)
      /\ \A i \in 1..Len(log) : log[i].pos \in Nat
  BY LogPositions
<1>3. ASSUME NEW what \in {"answer", "user"}, NEW k \in 1..Len(Dialog), NEW m \in 1..Len(Dialog), k < m,
             Dialog[k].what = what, Dialog[m].what = what
      PROVE  Ref(Dialog[k]) < Ref(Dialog[m])
  <2>1. PICK i \in 1..Len(log) : \E j \in 1..Len(DialogOf(i)) : DialogFrom(k, i, j)
    BY <1>1 DEF DialogParts
  <2>2. PICK j \in 1..Len(DialogOf(i)) : DialogFrom(k, i, j)
    BY <2>1
  <2>3. PICK h \in 1..Len(log) : \E t \in 1..Len(DialogOf(h)) : DialogFrom(m, h, t)
    BY <1>1 DEF DialogParts
  <2>4. PICK t \in 1..Len(DialogOf(h)) : DialogFrom(m, h, t)
    BY <2>3
  <2>10. j \in Nat /\ t \in Nat
    OBVIOUS
  <2>5. i < h \/ (i = h /\ j < t)
    <3>1. \A x, y \in Nat : DialogFrom(k, i, x) /\ DialogFrom(m, h, y) => i < h \/ (i = h /\ x < y)
      BY <1>1, <1>3 DEF DialogParts
    <3> QED
      BY <2>2, <2>4, <2>10, <3>1
  <2>6. PICK p, q : p = DialogOf(i) /\ q = DialogOf(h) /\ DialogPart(p, i) /\ DialogPart(q, h)
    BY DialogOfIs
  <2>7. p[j] = Dialog[k] /\ q[t] = Dialog[m] /\ j \in 1..Len(p) /\ t \in 1..Len(q)
    BY <2>2, <2>4, <2>6 DEF DialogFrom
  <2>8. CASE what = "answer"
    <3>1. i \in Turns /\ h \in Turns /\ Ref(p[j]) <= TurnEnd(i) /\ log[h].pos < Ref(q[t])
      BY <1>3, <2>6, <2>7, <2>8 DEF DialogPart
    <3>2. CASE i < h
      <4>1. TurnEnd(i) <= log[h].pos /\ TurnEnd(i) \in Nat
        BY <3>1, <3>2, TurnEndIs
      <4>2. PICK a \in Nat, b \in Nat : a = Ref(p[j]) /\ b = Ref(q[t])
        <5>1. p[j] \in DialogMsgs /\ q[t] \in DialogMsgs
          BY <1>1, <2>7, ElementOfSeq
        <5> QED
          BY <5>1, SMTT(30) DEF DialogMsgs, Ref
      <4> QED
        BY <1>2, <2>7, <3>1, <4>1, <4>2, SMTT(30)
    <3>3. CASE i = h /\ j < t
      BY <1>3, <2>6, <2>7, <2>8, <3>3 DEF DialogPart, AscendsIn
    <3> QED
      BY <2>5, <3>2, <3>3
  <2>9. CASE what = "user"
    <3>1. /\ log[i].kind = "user" /\ log[h].kind = "user" /\ j = 1 /\ t = 1
          /\ Ref(p[j]) = log[i].id /\ Ref(q[t]) = log[h].id
      BY <1>3, <2>6, <2>7, <2>9, SMTT(30) DEF DialogPart
    <3>2. i < h
      BY <2>5, <3>1
    <3>3. log[i].id < log[h].id
      BY <1>2, <3>1, <3>2 DEF JhInv, KnownInv
    <3> QED
      BY <2>7, <3>1, <3>3
  <2> QED
    BY <2>8, <2>9
<1> QED
  BY <1>3 DEF AscendsIn

LEMMA DialogComplete == JhInv => DialogIsComplete
<1> SUFFICES ASSUME JhInv PROVE DialogIsComplete
  OBVIOUS
<1>1. Dialog \in Seq(DialogMsgs) /\ DialogParts
  BY DialogIs
<1>2. /\ Len(log) \in Nat /\ DOMAIN log = 1..Len(log) /\ Turns \subseteq 1..Len(log)
      /\ Len(console) \in Nat /\ DOMAIN console = 1..Len(console)
      /\ \A i \in 1..Len(log) : log[i].pos \in Nat
      /\ \A i, k \in DOMAIN log : k <= i /\ log[i].kind # "user" => log[k].pos <= log[i].pos
  BY LogPositions
<1>3. PICK answers, users : answers = RefsOf(Dialog, "answer") /\ users = RefsOf(Dialog, "user")
  OBVIOUS
<1>4. AreRefs(answers, Dialog, "answer") /\ AreRefs(users, Dialog, "user")
  <2> HIDE DEF DialogMsgs
  <2> QED
    BY <1>1, <1>3, DialogAscends, RefsAre
<1>5. \A k \in 1..Len(answers) - 1 : answers[k] < answers[k + 1]
  <2>1. answers \in Seq(Nat) /\ Ascends(answers)
    BY <1>4 DEF AreRefs
  <2>2. \A k \in 1..Len(answers) - 1 : k \in 1..Len(answers) /\ k + 1 \in 1..Len(answers) /\ k < k + 1
    BY <2>1
  <2> QED
    BY <2>1, <2>2 DEF Ascends
<1>6. ASSUME NEW l \in DOMAIN console, console[l].by # 0 PROVE l \in {answers[k] : k \in DOMAIN answers}
  <2>1. PICK b : b = console[l].by
    OBVIOUS
  <2>2. /\ b \in DOMAIN log /\ log[b].pos < l
        /\ \A i \in DOMAIN log : i > b /\ log[i].kind \notin Idle => l <= log[i].pos
        /\ log[b].kind \in TurnKinds \/ log[b].kind = "reminder"
        /\ \E k \in DOMAIN log : k <= b /\ log[k].kind \in TurnKinds
    BY <1>6, <2>1 DEF JhInv, PrintInv
  <2> DEFINE T == {k \in Turns : k <= b}
  <2>3. T \subseteq 1..Len(log) /\ T # {}
    BY <1>2, <2>2 DEF Turns, TurnKinds
  <2>4. PICK i \in T : \A k \in T : k <= i
    <3> HIDE DEF T
    <3> QED
      BY <1>2, <2>3, LastOfIs
  <2>5. i \in Turns /\ i <= b /\ i \in 1..Len(log) /\ l \in Nat /\ l <= Len(console)
    BY <1>2, <2>4
  <2>6. log[i].pos <= log[b].pos
    BY <1>2, <2>2, <2>5 DEF TurnKinds
  <2>7. ASSUME NEW k \in Turns, k > i PROVE l <= log[k].pos
    <3>1. k > b /\ k \in DOMAIN log /\ log[k].kind \notin Idle
      BY <1>2, <2>2, <2>4, <2>7 DEF Turns, Idle
    <3> QED
      BY <2>2, <3>1
  <2>8. l <= TurnEnd(i) /\ TurnEnd(i) \in Nat
    BY <2>5, <2>7, TurnEndIs
  <2>9. l \in log[i].pos + 1..TurnEnd(i)
    BY <1>2, <2>2, <2>5, <2>6, <2>8
  <2>10. PICK q : q = DialogOf(i) /\ DialogPart(q, i)
    BY <2>5, DialogOfIs
  <2>11. PICK j \in 1..Len(q) : q[j].what = "answer" /\ Ref(q[j]) = l
    BY <2>5, <2>9, <2>10 DEF DialogPart
  <2>12. PICK k \in 1..Len(Dialog) : DialogFrom(k, i, j)
    BY <1>1, <2>5, <2>10, <2>11 DEF DialogParts
  <2>13. Dialog[k].what = "answer" /\ Ref(Dialog[k]) = l
    BY <2>10, <2>11, <2>12 DEF DialogFrom
  <2>14. l \in {Ref(Dialog[x]) : x \in {y \in 1..Len(Dialog) : Dialog[y].what = "answer"}}
    BY <2>13
  <2> QED
    BY <1>4, <2>14 DEF AreRefs
<1>7. ASSUME IsDialog PROVE users = Numbers(0, Arrived)
  <2>1. Known = 1..Arrived /\ Arrived \in Nat
    BY KnownIsFinite DEF JhInv, KnownInv
  <2>2. DOMAIN pushes = {}
    BY <1>7 DEF JhInv, PosInv
  <2>3. Known = {log[i].id : i \in {k \in 1..Len(log) : log[k].kind = "user"}}
    BY <1>2, <2>2 DEF Known, UserMessages
  <2>4. users \in Seq(Nat) /\ Ascends(users)
        /\ {users[a] : a \in DOMAIN users} = {Ref(Dialog[k]) : k \in {x \in 1..Len(Dialog) : Dialog[x].what = "user"}}
    BY <1>4 DEF AreRefs
  <2>5. ASSUME NEW k \in 1..Len(Dialog), Dialog[k].what = "user" PROVE Ref(Dialog[k]) \in Known
    <3>1. PICK i \in 1..Len(log) : \E j \in 1..Len(DialogOf(i)) : DialogFrom(k, i, j)
      BY <1>1 DEF DialogParts
    <3>2. PICK j \in 1..Len(DialogOf(i)) : DialogFrom(k, i, j)
      BY <3>1
    <3>3. log[i].kind = "user" /\ Ref(Dialog[k]) = log[i].id
      BY <2>5, <3>2, DialogOfIs DEF DialogPart, DialogFrom
    <3> QED
      BY <2>3, <3>3
  <2>6. ASSUME NEW i \in 1..Len(log), log[i].kind = "user"
        PROVE  \E k \in 1..Len(Dialog) : Dialog[k].what = "user" /\ Ref(Dialog[k]) = log[i].id
    <3>1. PICK q : q = DialogOf(i) /\ DialogPart(q, i)
      BY DialogOfIs
    <3>2. 1 \in 1..Len(q) /\ q[1].what = "user" /\ Ref(q[1]) = log[i].id
      BY <2>6, <3>1 DEF DialogPart
    <3>3. PICK k \in 1..Len(Dialog) : DialogFrom(k, i, 1)
      BY <1>1, <3>1, <3>2 DEF DialogParts
    <3>4. Dialog[k] = q[1]
      BY <3>1, <3>3 DEF DialogFrom
    <3> QED
      BY <3>2, <3>4
  <2>7. {users[a] : a \in DOMAIN users} = Known
    BY <2>3, <2>4, <2>5, <2>6, ZenonT(30)
  <2>8. Len(users) = Arrived /\ \A i \in 1..Arrived : users[i] = i
    BY <2>1, <2>4, <2>7, Ascending DEF Ascends
  <2>9. users = [k \in 1..Arrived |-> users[k]]
    BY <2>4, <2>8
  <2>10. PICK n \in Nat : n = Arrived
    BY <2>1
  <2>11. users = [k \in 1..n |-> k]
    BY <2>8, <2>9, <2>10
  <2>12. Numbers(0, n) = [k \in 1..n |-> k]
    BY DEF Numbers
  <2> QED
    BY <2>10, <2>11, <2>12
<1> QED
  BY <1>3, <1>5, <1>6, <1>7 DEF DialogIsComplete, RefsOf

(* Every view of the history counts each thing once and where it belongs:   *)
(* the chat, the errors, the dialog, the sizes and the turn numbers read    *)
(* from one log and one console, whatever was logged in between.            *)
THEOREM HistoryIsCountedOnce == Spec => []HistoryCountsOnce
<1>1. JhInv => HistoryCountsOnce
  BY OutputFollows, ErrorsCounted, DialogComplete, SizesCounted, TurnsNumbered DEF HistoryCountsOnce
<1> QED
  BY <1>1, HistoryInvariant, PTL

(***************************************************************************)
(* A history is what its entries show, one after the other, and Cut takes   *)
(* each message for itself.                                                 *)
(***************************************************************************)
Part(items, lines, pushed, i) ==
    IF Skipped(items, i) THEN <<>> ELSE Messages(items, i, EndAt(items, lines, i), pushed)
Parts(items, lines, pushed) == [i \in 1..Len(items) |-> Part(items, lines, pushed, i)]
MsgsOf(S) == [step \in S |-> step.msgs]
(* The items of a log, and their blocks.                                    *)
AreItems(items) == items \in Seq(Items) /\ \A i \in 1..Len(items) : HasBlock(items[i])

LEMMA PartIs ==
    ASSUME JhTypes, NEW items, AreItems(items), NEW lines \in Nat, NEW pushed \in Seq(PushT),
           NEW i \in 1..Len(items)
    PROVE  /\ Messages(items, i, EndAt(items, lines, i), pushed) \in Seq(MsgT)
           /\ Part(items, lines, pushed, i) \in Seq(MsgT)
<1>1. items \in Seq(Items) /\ HasBlock(items[i])
  BY DEF AreItems
<1>2. PICK item \in Items : item = items[i]
  BY <1>1, ElementOfSeq
<1>3. PICK end \in Nat : end = EndAt(items, lines, i)
  BY <1>1, EndIsNumber
<1>4. Messages(items, i, end, pushed) \in Seq(MsgT)
  <2>1. PICK q : q = Messages(items, i, end, pushed)
    OBVIOUS
  <2>2. i \in Nat
    OBVIOUS
  <2> HIDE DEF MsgT, PushT, Items
  <2> QED
    BY <1>1, <1>2, <2>1, <2>2, MessagesAre
<1>5. <<>> \in Seq(MsgT)
  OBVIOUS
<1> HIDE DEF MsgT
<1> QED
  BY <1>3, <1>4, <1>5 DEF Part

LEMMA PartsAre ==
    ASSUME JhTypes, NEW items, AreItems(items), NEW lines \in Nat, NEW pushed \in Seq(PushT)
    PROVE  /\ Parts(items, lines, pushed) \in Seq(Seq(MsgT))
           /\ Len(Parts(items, lines, pushed)) = Len(items)
           /\ \A i \in 1..Len(items) : Parts(items, lines, pushed)[i] = Part(items, lines, pushed, i)
<1>1. PICK n \in Nat : n = Len(items)
  BY DEF AreItems
<1>2. PICK S : S = Seq(MsgT)
  OBVIOUS
<1>3. \A i \in 1..n : Part(items, lines, pushed, i) \in S
  BY <1>1, <1>2, PartIs
<1>4. PICK q : q = [i \in 1..n |-> Part(items, lines, pushed, i)]
  OBVIOUS
<1>5. q \in Seq(S) /\ Len(q) = n
  BY <1>3, <1>4
<1> QED
  BY <1>1, <1>2, <1>4, <1>5 DEF Parts

HistoryOf(items, lines, pushed) == InitialMessages(items, pushed) \o FlattenSeq(Parts(items, lines, pushed))

LEMMA HistoryIs ==
    ASSUME JhTypes, NEW items, AreItems(items), NEW lines \in Nat, NEW pushed \in Seq(PushT)
    PROVE  /\ ChatHistory(items, lines, pushed, {}) = HistoryOf(items, lines, pushed)
           /\ InitialMessages(items, pushed) \in Seq(MsgT)
           /\ FlattenSeq(Parts(items, lines, pushed)) \in Seq(MsgT)
<1> PICK initial : initial = InitialMessages(items, pushed)
  OBVIOUS
<1> PICK M : M = MsgT
  OBVIOUS
<1>1. items \in Seq(Items) /\ initial \in Seq(M)
  BY InitialIs DEF AreItems, NoOutput
<1>2. PICK n \in Nat : n = Len(items)
  BY <1>1
<1>3. PICK opening : opening = Step(0, 0, 0, initial)
  OBVIOUS
<1>4. opening.msgs = initial
  BY <1>3 DEF Step
<1>5. PICK S : S = EntrySteps(items, lines, pushed) \cup {opening}
  OBVIOUS
<1>6. ASSUME NEW i \in 1..n
      PROVE  /\ EntryStep(items, lines, pushed, i) \in S
             /\ EntryStep(items, lines, pushed, i).msgs = Messages(items, i, EndAt(items, lines, i), pushed)
             /\ EntryStep(items, lines, pushed, i).msgs \in Seq(M)
  <2>1. EntryStep(items, lines, pushed, i).msgs = Messages(items, i, EndAt(items, lines, i), pushed)
    BY DEF EntryStep, Step
  <2> QED
    BY <1>2, <1>5, <2>1, PartIs DEF EntrySteps
<1>7. \A step \in S : step.msgs \in Seq(M)
  BY <1>1, <1>2, <1>4, <1>5, <1>6 DEF EntrySteps
<1>8. PICK f \in Maps(S, Seq(M)) : f = MsgsOf(S) /\ \A step \in S : f[step] = step.msgs
  <2>1. PICK N : N = Seq(M)
    OBVIOUS
  <2>2. PICK f : f = [step \in S |-> step.msgs]
    OBVIOUS
  <2>3. \A step \in S : f[step] = step.msgs /\ f[step] \in N
    BY <1>7, <2>1, <2>2
  <2>4. f \in [S -> N]
    BY <2>2, <2>3
  <2> QED
    BY <2>1, <2>2, <2>3, <2>4 DEF Maps, MsgsOf
<1>9. PICK E : E = Entries(items, lines, pushed)
  OBVIOUS
<1>10. E \in Seq(Seq(S)) /\ Len(E) = n /\ \A i \in 1..n : E[i] = Entry(items, lines, pushed, i)
  <2>1. E \in Seq(Seq(EntrySteps(items, lines, pushed))) /\ EntrySteps(items, lines, pushed) \subseteq S
    BY <1>1, <1>5, <1>9, EntriesAre
  <2>2. E \in Seq(Seq(S))
    BY <2>1
  <2>3. Len(E) = n /\ \A i \in 1..n : E[i] = Entry(items, lines, pushed, i)
    BY <1>1, <1>2, <1>9, EntriesAre
  <2> QED
    BY <2>2, <2>3
<1>11. PICK first \in Seq(S) : first = FirstStep(items, pushed)
  <2>1. FirstStep(items, pushed) = <<>> \/ FirstStep(items, pushed) = <<opening>>
    BY <1>3 DEF FirstStep
  <2>2. opening \in S
    BY <1>5
  <2> QED
    BY <2>1, <2>2, OneOrNone
<1>12. PICK g \in Seq(S) : g = FlattenSeq(E)
  BY <1>10, FlattenType
<1>13. ChatHistory(items, lines, pushed, {}) = Spread(f, first \o g)
  <2>1. PICK steps \in Seq(S) : steps = first \o g
    BY ConcatProperties
  <2>2. BuildSteps(items, lines, pushed, {}) = steps
    BY <1>1, <1>9, <1>11, <1>12, <2>1, NoSummaries
  <2>3. \A k \in DOMAIN steps : steps[k] \in S
    BY ElementOfSeq
  <2>4. [k \in DOMAIN steps |-> steps[k].msgs] = [k \in DOMAIN steps |-> f[steps[k]]]
    BY <1>8, <2>3
  <2> QED
    BY <2>1, <2>2, <2>4 DEF ChatHistory, Flat, Spread, Each
<1>14. Spread(f, first) \in Seq(M) /\ Spread(f, first \o g) = Spread(f, first) \o Spread(f, g)
  BY SpreadJoined
<1>15. Spread(f, first) = initial
  <2>1. Spread(f, <<>>) = <<>> /\ Spread(f, <<opening>>) = f[opening]
    <3>1. opening \in S
      BY <1>5
    <3> QED
      BY <3>1, SpreadOne
  <2>2. f[opening] = initial
    BY <1>4, <1>5, <1>8
  <2> QED
    BY <1>3, <1>11, <2>1, <2>2 DEF FirstStep
<1>16. Spread(f, g) = FlattenSeq(SpreadParts(f, E))
  BY <1>10, <1>12, SpreadFlat
<1>17. SpreadParts(f, E) = Parts(items, lines, pushed)
  <2>1. ASSUME NEW i \in 1..n PROVE Spread(f, E[i]) = Part(items, lines, pushed, i)
    <3>1. PICK step \in S : /\ step = EntryStep(items, lines, pushed, i)
                            /\ f[step] = Messages(items, i, EndAt(items, lines, i), pushed)
      BY <1>6, <1>8
    <3>2. Spread(f, <<>>) = <<>> /\ Spread(f, <<step>>) = f[step]
      BY SpreadOne
    <3> QED
      BY <1>10, <3>1, <3>2 DEF Entry, Part
  <2> QED
    BY <1>2, <1>10, <2>1 DEF SpreadParts, Parts
<1>18. FlattenSeq(Parts(items, lines, pushed)) \in Seq(M)
  BY PartsAre, FlattenType
<1> QED
  BY <1>1, <1>13, <1>14, <1>15, <1>16, <1>17, <1>18 DEF HistoryOf

-----------------------------------------------------------------------------
CutMap(users, lines) == [m \in MsgT |-> CutOne(m, users, lines)]
CutT == MsgT
Rest(m, users, lines) == Filtered(m.refs, Nat \ Unwanted(m, users, lines))

LEMMA CutOneIs ==
    ASSUME NEW m \in MsgT, NEW users, NEW lines
    PROVE  /\ CutOne(m, users, lines) \in Seq(MsgT)
           /\ CutOne(m, users, lines) = IF m.role = "user" /\ Rest(m, users, lines) = <<>> THEN <<>>
                                        ELSE <<[m EXCEPT !.refs = Rest(m, users, lines)]>>
           /\ (\A k \in 1..Len(m.refs) : m.refs[k] \notin Unwanted(m, users, lines))
                 /\ (m.role = "user" => m.refs # <<>>)
              => CutOne(m, users, lines) = <<m>>
<1>1. PICK refs \in Seq(Nat) : refs = m.refs
  BY DEF MsgT
<1>2. PICK D : D = Unwanted(m, users, lines)
  OBVIOUS
<1>3. {k \in DOMAIN refs : refs[k] \notin D} = {k \in DOMAIN refs : refs[k] \in Nat \ D}
  <2>1. \A k \in DOMAIN refs : refs[k] \in Nat
    BY <1>1
  <2> QED
    BY <2>1
<1>4. PICK rest \in Seq(Nat) : rest = Filtered(refs, Nat \ D)
  <2>1. Filtered(refs, Nat \ D) \in Seq(Nat)
    <3>1. {k \in DOMAIN refs : refs[k] \in Nat \ D} \subseteq DOMAIN refs
      OBVIOUS
    <3> QED
      BY <3>1, PickedIs DEF Filtered
  <2> QED
    BY <2>1
<1>5. rest = Rest(m, users, lines) /\ rest = Picked(m.refs, {k \in DOMAIN m.refs : m.refs[k] \notin D})
  BY <1>1, <1>2, <1>3, <1>4 DEF Rest, Filtered
<1>6. CutOne(m, users, lines) = IF m.role = "user" /\ rest = <<>> THEN <<>> ELSE <<[m EXCEPT !.refs = rest]>>
  BY <1>2, <1>5 DEF CutOne
<1>7. [m EXCEPT !.refs = rest] \in MsgT
  BY DEF MsgT
<1>8. CutOne(m, users, lines) \in Seq(MsgT)
  <2>1. PICK c \in MsgT : c = [m EXCEPT !.refs = rest]
    BY <1>7
  <2>2. <<c>> \in Seq(MsgT) /\ <<>> \in Seq(MsgT)
    OBVIOUS
  <2> HIDE DEF MsgT
  <2> QED
    BY <1>6, <2>1, <2>2
<1>9. ASSUME \A k \in 1..Len(m.refs) : m.refs[k] \notin D, m.role = "user" => m.refs # <<>>
      PROVE  CutOne(m, users, lines) = <<m>>
  <2>1. \A k \in 1..Len(refs) : refs[k] \in Nat \ D
    BY <1>1, <1>9
  <2>2. rest = refs
    BY <1>4, <2>1, FilteredAll
  <2>3. [m EXCEPT !.refs = refs] = m
    BY <1>1 DEF MsgT
  <2> QED
    BY <1>1, <1>6, <1>9, <2>2, <2>3
<1> QED
  BY <1>2, <1>5, <1>6, <1>8, <1>9

LEMMA CutMapIs ==
    ASSUME NEW users, NEW lines
    PROVE  /\ CutMap(users, lines) \in Maps(MsgT, Seq(CutT))
           /\ \A m \in MsgT : CutMap(users, lines)[m] = CutOne(m, users, lines)
<1>1. \A m \in MsgT : CutOne(m, users, lines) \in Seq(CutT)
  <2> HIDE DEF MsgT
  <2> QED
    BY CutOneIs DEF CutT
<1> HIDE DEF MsgT
<1> QED
  BY <1>1 DEF CutMap, Maps

LEMMA CutIs ==
    ASSUME NEW msgs \in Seq(MsgT), NEW users, NEW lines
    PROVE  Cut(msgs, users, lines) = Spread(CutMap(users, lines), msgs)
<1>1. PICK f \in Maps(MsgT, Seq(CutT)) : f = CutMap(users, lines) /\ \A m \in MsgT : f[m] = CutOne(m, users, lines)
  BY CutMapIs
<1>2. \A k \in DOMAIN msgs : msgs[k] \in MsgT
  <2> HIDE DEF MsgT
  <2> QED
    BY ElementOfSeq
<1>3. [k \in DOMAIN msgs |-> CutOne(msgs[k], users, lines)] = [k \in DOMAIN msgs |-> f[msgs[k]]]
  <2> HIDE DEF MsgT
  <2> QED
    BY <1>1, <1>2
<1> QED
  BY <1>1, <1>3 DEF Cut, Spread, Each

LEMMA CutJoined ==
    ASSUME NEW a \in Seq(MsgT), NEW b \in Seq(MsgT), NEW users, NEW lines
    PROVE  /\ Cut(a, users, lines) \in Seq(MsgT)
           /\ Cut(a \o b, users, lines) = Cut(a, users, lines) \o Cut(b, users, lines)
<1> HIDE DEF MsgT
<1>1. PICK f \in Maps(MsgT, Seq(CutT)) : f = CutMap(users, lines)
  BY CutMapIs
<1>2. Spread(f, a) \in Seq(CutT) /\ Spread(f, a \o b) = Spread(f, a) \o Spread(f, b)
  BY SpreadJoined
<1>3. a \o b \in Seq(MsgT)
  BY ConcatProperties
<1>4. Spread(f, a) \in Seq(MsgT)
  BY <1>2 DEF CutT
<1> QED
  BY <1>1, <1>2, <1>3, <1>4, CutIs

CutEach(ss, users, lines) == [i \in 1..Len(ss) |-> Cut(ss[i], users, lines)]

LEMMA CutParts ==
    ASSUME NEW ss \in Seq(Seq(MsgT)), NEW users, NEW lines
    PROVE  /\ Cut(FlattenSeq(ss), users, lines) = FlattenSeq(CutEach(ss, users, lines))
           /\ CutEach(ss, users, lines) \in Seq(Seq(MsgT)) /\ Len(CutEach(ss, users, lines)) = Len(ss)
           /\ \A i \in 1..Len(ss) : CutEach(ss, users, lines)[i] = Cut(ss[i], users, lines)
<1> HIDE DEF MsgT
<1>1. PICK f \in Maps(MsgT, Seq(CutT)) : f = CutMap(users, lines)
  BY CutMapIs
<1>2. PICK n \in Nat : n = Len(ss)
  OBVIOUS
<1>3. \A i \in 1..n : ss[i] \in Seq(MsgT)
  BY <1>2, ElementOfSeq
<1>4. \A i \in 1..n : Cut(ss[i], users, lines) = Spread(f, ss[i])
  BY <1>1, <1>3, CutIs
<1>5. SpreadParts(f, ss) = CutEach(ss, users, lines)
  BY <1>2, <1>4 DEF SpreadParts, CutEach
<1>6. PICK flat \in Seq(MsgT) : flat = FlattenSeq(ss)
  BY FlattenType
<1>7. Spread(f, FlattenSeq(ss)) = FlattenSeq(SpreadParts(f, ss))
  BY SpreadFlat
<1>8. Cut(flat, users, lines) = Spread(f, flat)
  BY <1>1, CutIs
<1>9. PICK q : q = [i \in 1..n |-> Cut(ss[i], users, lines)]
  OBVIOUS
<1>10. \A i \in 1..n : q[i] \in Seq(MsgT)
  BY <1>3, <1>9, CutJoined
<1>11. q \in Seq(Seq(MsgT)) /\ Len(q) = n
  BY <1>9, <1>10
<1> QED
  BY <1>2, <1>5, <1>6, <1>7, <1>8, <1>9, <1>11 DEF CutEach

LEMMA CutKeeps ==
    ASSUME NEW q \in Seq(MsgT), NEW users, NEW lines,
           \A k \in 1..Len(q) : CutOne(q[k], users, lines) = <<q[k]>>
    PROVE  Cut(q, users, lines) = q
<1> HIDE DEF MsgT
<1>1. PICK f : f = CutMap(users, lines)
  OBVIOUS
<1>2. f \in Maps(MsgT, Seq(MsgT)) /\ \A m \in MsgT : f[m] = CutOne(m, users, lines)
  BY <1>1, CutMapIs DEF CutT
<1>3. \A k \in 1..Len(q) : f[q[k]] = <<q[k]>>
  BY <1>2, ElementOfSeq
<1>4. Spread(f, q) = q
  BY <1>2, <1>3, SpreadKeeps
<1> QED
  BY <1>1, <1>4, CutIs

LEMMA CutDrops ==
    ASSUME NEW q \in Seq(MsgT), NEW users, NEW lines,
           \A k \in 1..Len(q) : CutOne(q[k], users, lines) = <<>>
    PROVE  Cut(q, users, lines) = <<>>
<1> HIDE DEF MsgT
<1>1. PICK f \in Maps(MsgT, Seq(CutT)) : f = CutMap(users, lines) /\ \A m \in MsgT : f[m] = CutOne(m, users, lines)
  BY CutMapIs
<1>2. \A k \in 1..Len(q) : f[q[k]] = <<>>
  BY <1>1, ElementOfSeq
<1>3. Spread(f, q) = <<>>
  BY <1>2, SpreadDrops
<1> QED
  BY <1>1, <1>3, CutIs

(***************************************************************************)
(* Requests.  While a reply is run, the item at Exec may still change and   *)
(* lines are printed for it; everything else in the log is final.           *)
(***************************************************************************)
Busy ==
    \/ phase \in {"warming", "running"}
    \/ phase \in {"suspended", "replied"} /\ Conversation # {} /\ Concrete(LastItem)
Fresh == Len(log) + 1..Len(log')       \* where a step appends
ItemsKept == \A i \in 1..Len(log) : log'[i] = log[i] \/ (i = Exec /\ Busy)
LinesBy ==
    \/ console' = console
    \/ \E line \in Lines : /\ console' = Append(console, line)
                           /\ line.by = 0 \/ line.by > Len(log) \/ (line.by = Exec /\ Busy)
NoReplies == \A i \in Fresh : ~Concrete(log'[i])
OneReply ==
    /\ phase = "llm" /\ sent' = sent
    /\ \A i \in Fresh : Concrete(log'[i]) => i = Len(log) + 1 /\ log'[i].id = Len(sent)
NoUsers == \A i \in Fresh : log'[i].kind # "user"
Sends ==
    /\ phase' = "llm" /\ console' = console /\ pushes' = pushes /\ NoReplies /\ NoUsers
    /\ sent' = Append(sent, [msgs |-> ChatHistory(log', Len(console), pushes, {}), known |-> Known])
Awaits ==
    phase' = "llm" /\ sent' = sent =>
        phase = "llm" /\ console' = console /\ \A i \in Fresh : log'[i].kind = "user"
Begins == Busy' => Busy \/ \E i \in Fresh : i \in Turns'
RequestStep ==
    /\ ItemsKept /\ LinesBy /\ (NoReplies \/ OneReply)
    /\ (sent' = sent \/ Sends) /\ Awaits /\ Begins

LEMMA NothingFresh ==
    ASSUME JhTypes, UNCHANGED log
    PROVE  ItemsKept /\ NoReplies /\ ~(\E i : i \in Fresh)
<1>1. ~(\E i : i \in Fresh)
  BY Sizes DEF Fresh
<1> QED
  BY <1>1 DEF ItemsKept, NoReplies

(* What is appended after a log.                                            *)
LEMMA FreshItems ==
    ASSUME JhTypes, NEW more \in Seq(Items), log' = log \o more
    PROVE  /\ ItemsKept /\ log' \in Seq(Items) /\ Len(log') = Len(log) + Len(more)
           /\ \A i \in Fresh : i - Len(log) \in 1..Len(more) /\ log'[i] = more[i - Len(log)]
           /\ \A k \in 1..Len(more) : Len(log) + k \in Fresh /\ log'[Len(log) + k] = more[k]
<1> HIDE DEF Items
<1>1. log \in Seq(Items)
  BY DEF JhTypes
<1>2. PICK n \in Nat, m \in Nat : n = Len(log) /\ m = Len(more)
  BY <1>1
<1>3. log' \in Seq(Items) /\ JoinAt(log, more, log')
  BY <1>1, Joined
<1>4. /\ Len(log') = n + m /\ \A i \in 1..n : log'[i] = log[i]
      /\ \A i \in n + 1..n + m : log'[i] = more[i - n]
  BY <1>2, <1>3 DEF JoinAt
<1>5. Fresh = n + 1..n + m
  BY <1>2, <1>4 DEF Fresh
<1>6. \A i \in n + 1..n + m : i - n \in 1..m
  OBVIOUS
<1>7. \A k \in 1..m : n + k \in n + 1..n + m /\ (n + k) - n = k
  OBVIOUS
<1> QED
  BY <1>2, <1>3, <1>4, <1>5, <1>6, <1>7 DEF ItemsKept

LEMMA FreshItem ==
    ASSUME JhTypes, NEW item \in Items, log' = Append(log, item)
    PROVE  /\ ItemsKept /\ Len(log') = Len(log) + 1 /\ Fresh = {Len(log) + 1}
           /\ log'[Len(log) + 1] = item /\ DOMAIN log' = 1..Len(log) + 1
<1> HIDE DEF Items
<1>1. log \in Seq(Items)
  BY DEF JhTypes
<1>2. PICK n \in Nat : n = Len(log)
  BY <1>1
<1>3. Len(log') = n + 1 /\ log'[n + 1] = item /\ DOMAIN log' = 1..n + 1 /\ \A i \in 1..n : log'[i] = log[i]
  BY <1>1, <1>2
<1>4. n + 1..n + 1 = {n + 1}
  OBVIOUS
<1> QED
  BY <1>2, <1>3, <1>4 DEF ItemsKept, Fresh

LEMMA LastOfTop == ASSUME NEW n \in Nat, NEW at, at \subseteq 1..n, n \in at PROVE LastOf(at) = n
<1>1. LastOf(at) \in at /\ n <= LastOf(at)
  BY LastOfIs
<1>2. PICK k \in 1..n : k = LastOf(at)
  BY <1>1
<1> QED
  BY <1>1, <1>2

(* The job does not run a reply when another item came last.                *)
LEMMA LastIsFresh ==
    ASSUME NEW n \in Nat \ {0}, DOMAIN log' = 1..n, log'[n].kind # "difficulty", ~Concrete(log'[n]),
           phase' # "running", phase' # "warming"
    PROVE  ~Busy'
<1>1. Conversation' \subseteq 1..n /\ n \in Conversation'
  BY DEF Conversation
<1>2. LastOf(Conversation') = n
  BY <1>1, LastOfTop
<1> QED
  BY <1>2 DEF Busy, LastItem

(* The steps of a block that runs.                                          *)
LEMMA RunningStep ==
    ASSUME JhTypes, BlockInv, phase \in {"warming", "running"}, phase' # "llm", ItemsKept, NoReplies,
           console' = console \/ Prints(Exec, "none") \/ Prints(Exec, "execution"), sent' = sent
    PROVE  RequestStep
<1>1. Busy
  BY DEF Busy
<1>2. LinesBy
  <2> SUFFICES ASSUME NEW error \in {"none", "execution", "harness"}, Prints(Exec, error) PROVE LinesBy
    BY DEF LinesBy
  <2>1. PICK line : line = Line(Exec, error)
    OBVIOUS
  <2>2. Exec \in Nat
    BY ExecRuns
  <2>3. line \in Lines /\ line.by = Exec
    BY <2>1, <2>2 DEF Line, Lines
  <2> QED
    BY <1>1, <2>1, <2>3 DEF LinesBy, Prints
<1> QED
  BY <1>1, <1>2 DEF RequestStep, Awaits, Begins

LEMMA PrintLineRequests == ASSUME JhTypes, BlockInv, PrintLine PROVE RequestStep
<1>1. phase \in {"warming", "running"} /\ phase' # "llm"
  BY DEF PrintLine, RunsCode
<1>2. ItemsKept /\ NoReplies
  BY NothingFresh DEF PrintLine
<1> QED
  BY <1>1, <1>2, RunningStep DEF PrintLine

LEMMA RaiseRequests == ASSUME JhTypes, BlockInv, Raise PROVE RequestStep
<1>1. phase \in {"warming", "running"} /\ phase' # "llm"
  BY DEF Raise, RunsCode
<1>2. ItemsKept /\ NoReplies
  BY NothingFresh DEF Raise
<1> QED
  BY <1>1, <1>2, RunningStep DEF Raise

LEMMA ToolDoneRequests == ASSUME JhTypes, BlockInv, ToolDone PROVE RequestStep
<1>1. phase \in {"warming", "running"} /\ UNCHANGED <<console, phase, sent>>
  BY DEF ToolDone
<1>2. PICK b \in 1..Len(log) : b = Exec
  BY <1>1, ExecRuns
<1>3. PICK item : log' = [log EXCEPT ![b] = item]
  BY <1>2 DEF ToolDone
<1>4. Len(log') = Len(log) /\ \A i \in 1..Len(log) : i # b => log'[i] = log[i]
  BY <1>3 DEF JhTypes
<1>5. ItemsKept
  BY <1>1, <1>2, <1>4 DEF ItemsKept, Busy
<1>6. NoReplies
  BY <1>4, Sizes DEF NoReplies, Fresh
<1> QED
  BY <1>1, <1>5, <1>6, RunningStep

LEMMA SuspendRequests == ASSUME JhTypes, BlockInv, Suspend PROVE RequestStep
<1>1. phase \in {"warming", "running"} /\ phase' # "llm" /\ UNCHANGED <<log, console, sent>>
  BY DEF Suspend
<1> QED
  BY <1>1, NothingFresh, RunningStep

LEMMA EndBlockRequests == ASSUME JhTypes, BlockInv, EndBlock PROVE RequestStep
<1>1. phase \in {"warming", "running"} /\ phase' # "llm" /\ UNCHANGED <<log, console, sent>>
  BY DEF EndBlock
<1> QED
  BY <1>1, NothingFresh, RunningStep

LEMMA DrainsFresh ==
    ASSUME JhTypes, Drains
    PROVE  ItemsKept /\ NoReplies /\ NoUsers
<1>1. \A i \in Fresh : log'[i].kind \notin {"user"} \cup TurnKinds
  BY DrainsShape DEF Fresh
<1>2. ItemsKept
  <2>1. CASE MayDrain
    <3>1. PICK more : more = [k \in DOMAIN pending |-> [pending[k] EXCEPT !.pos = Len(console)]]
      OBVIOUS
    <3>2. more \in Seq(Items)
      BY <3>1, DrainedItems
    <3>3. log' = log \o more
      BY <2>1, <3>1 DEF Drains, Drained
    <3> QED
      BY <3>2, <3>3, FreshItems
  <2>2. CASE ~MayDrain
    BY <2>2, NothingFresh DEF Drains
  <2> QED
    BY <2>1, <2>2
<1> QED
  BY <1>1, <1>2 DEF NoReplies, NoUsers, Concrete, TurnKinds

LEMMA ExitBlockRequests == ASSUME JhTypes, BlockInv, ExitBlock PROVE RequestStep
<1>1. phase \in {"warming", "running"} /\ phase' # "llm" /\ Drains /\ UNCHANGED <<console, sent>>
  BY DEF ExitBlock
<1> QED
  BY <1>1, DrainsFresh, RunningStep

LEMMA SendRequestRequests == ASSUME JhTypes, BlockInv, SendRequest PROVE RequestStep
<1>1. /\ phase' = "llm" /\ Drains /\ UNCHANGED <<console, pushes>>
      /\ sent' = Append(sent, [msgs |-> ChatHistory(log', Len(console), pushes, {}), known |-> Known])
  BY DEF SendRequest
<1>2. ItemsKept /\ NoReplies /\ NoUsers
  BY <1>1, DrainsFresh
<1>3. sent' # sent
  <2>1. PICK request : sent' = Append(sent, request)
    BY <1>1
  <2>2. Len(sent') = Len(sent) + 1 /\ Len(sent) \in Nat
    BY <2>1 DEF JhTypes
  <2> QED
    BY <2>2
<1> QED
  BY <1>1, <1>2, <1>3 DEF RequestStep, Sends, LinesBy, Awaits, Begins, Busy

LEMMA BeginWarmupRequests == ASSUME JhTypes, BlockInv, BeginWarmup PROVE RequestStep
<1>1. phase' = "warming" /\ UNCHANGED <<console, sent>>
  BY DEF BeginWarmup
<1>2. PICK item : log' = Append(log, item) /\ item.kind = "warmup"
  BY DEF BeginWarmup, Plain, Item
<1>3. item \in Items
  <2>1. log' \in Seq(Items) /\ log \in Seq(Items)
    BY BeginWarmupShape DEF Shape, LogGrows, JhTypes
  <2>2. PICK n \in Nat : n = Len(log) + 1
    BY <2>1
  <2>3. n \in 1..Len(log') /\ log'[n] = item
    <3> HIDE DEF Items
    <3> QED
      BY <1>2, <2>1, <2>2
  <2> HIDE DEF Items
  <2> QED
    BY <2>1, <2>3
<1>4. /\ ItemsKept /\ Fresh = {Len(log) + 1} /\ log'[Len(log) + 1] = item
      /\ DOMAIN log' = 1..Len(log) + 1
  BY <1>2, <1>3, FreshItem
<1>5. NoReplies
  BY <1>2, <1>4 DEF NoReplies, Concrete
<1>6. \E i \in Fresh : i \in Turns'
  <2>1. Len(log) + 1 \in 1..Len(log) + 1
    BY Sizes
  <2> QED
    BY <1>2, <1>4, <2>1 DEF Turns
<1> QED
  BY <1>1, <1>4, <1>5, <1>6 DEF RequestStep, LinesBy, Awaits, Begins

LEMMA BeginReplyRequests == ASSUME JhTypes, BlockInv, BeginReply PROVE RequestStep
<1>1. PICK runs \in BOOLEAN : runs = (Conversation # {} /\ Concrete(LastItem))
  OBVIOUS
<1>2. PICK nothing \in BOOLEAN : nothing = (runs /\ Calls(LastItem) = 0 /\ def.style # "DIRECT"
                                          /\ LastItem.reply.text # "code")
  OBVIOUS
<1>3. /\ phase' = IF runs /\ ~nothing THEN "running" ELSE "request"
      /\ IF nothing THEN Prints(Exec, "execution") ELSE UNCHANGED console
      /\ log' = IF runs /\ ~nothing /\ phase = "replied"
                THEN [log EXCEPT ![Exec].results = Empty(Calls(log[Exec]))] ELSE log
      /\ UNCHANGED <<def, pending, block, pushes, sent>> /\ phase \in {"replied", "suspended"}
  BY <1>1, <1>2 DEF BeginReply
<1>4. runs => Busy /\ Turns # {}
  <2> SUFFICES ASSUME runs PROVE Busy /\ Turns # {}
    OBVIOUS
  <2>1. LastOf(Conversation) \in Conversation
    BY <1>1, Sizes, LastOfIs
  <2>2. LastOf(Conversation) \in Turns
    BY <1>1, <2>1 DEF LastItem, Concrete, Turns, Conversation
  <2> QED
    BY <1>1, <1>3, <2>2 DEF Busy
<1>5. ItemsKept /\ NoReplies
  <2>1. CASE log' = log
    BY <2>1, NothingFresh
  <2>2. CASE log' # log
    <3>1. runs
      BY <1>3, <2>2
    <3>2. PICK item : log' = [log EXCEPT ![Exec] = item]
      BY <1>3, <2>2
    <3>3. Len(log') = Len(log) /\ \A i \in 1..Len(log) : i # Exec => log'[i] = log[i]
      BY <3>2 DEF JhTypes
    <3> QED
      BY <1>4, <3>1, <3>3, Sizes DEF ItemsKept, NoReplies, Fresh
  <2> QED
    BY <2>1, <2>2
<1>6. LinesBy
  <2> SUFFICES ASSUME nothing PROVE LinesBy
    BY <1>3 DEF LinesBy
  <2>1. PICK line : line = Line(Exec, "execution")
    OBVIOUS
  <2>2. Turns \subseteq 1..Len(log) /\ Len(log) \in Nat /\ Turns # {} /\ Busy
    BY <1>2, <1>4, Sizes
  <2>3. Exec \in Nat
    <3>1. LastOf(Turns) \in Turns
      BY <2>2, LastOfIs
    <3>2. LastOf(Turns) \in 1..Len(log)
      BY <2>2, <3>1
    <3>3. PICK e \in 1..Len(log) : e = LastOf(Turns)
      BY <3>2
    <3> QED
      BY <2>2, <3>3 DEF Exec
  <2>4. line \in Lines /\ line.by = Exec
    BY <2>1, <2>3 DEF Line, Lines
  <2> QED
    BY <1>3, <2>1, <2>2, <2>4 DEF LinesBy, Prints
<1>7. Begins
  BY <1>3, <1>4 DEF Begins, Busy
<1> QED
  BY <1>3, <1>5, <1>6, <1>7 DEF RequestStep, Awaits

LEMMA EscalateRequests == ASSUME JhTypes, BlockInv, Escalate PROVE RequestStep
<1>1. /\ UNCHANGED <<console, phase, sent>>
      /\ phase \in {"running", "request"} /\ log' = Append(log, Plain("difficulty", 0))
  BY DEF Escalate
<1>2. PICK item \in Items : item = Plain("difficulty", 0) /\ item.kind = "difficulty"
  BY PlainItem DEF Kinds, BoundaryKinds
<1>3. ItemsKept /\ Fresh = {Len(log) + 1} /\ log'[Len(log) + 1] = item
  BY <1>1, <1>2, FreshItem
<1>4. NoReplies
  BY <1>2, <1>3 DEF NoReplies, Concrete
<1> QED
  BY <1>1, <1>3, <1>4 DEF RequestStep, LinesBy, Awaits, Begins, Busy

LEMMA ReplySuppressedRequests == ASSUME JhTypes, BlockInv, ReplySuppressed PROVE RequestStep
<1>1. UNCHANGED <<console, sent>> /\ phase' = "replied" /\ log' = Append(log, Plain("post", 0))
  BY DEF ReplySuppressed
<1>2. PICK item \in Items : item = Plain("post", 0) /\ item.kind = "post"
  BY PlainItem DEF Kinds, BoundaryKinds
<1>3. ItemsKept /\ Fresh = {Len(log) + 1} /\ log'[Len(log) + 1] = item /\ DOMAIN log' = 1..Len(log) + 1
  BY <1>1, <1>2, FreshItem
<1>4. NoReplies
  BY <1>2, <1>3 DEF NoReplies, Concrete
<1>5. ~Busy'
  <2>1. PICK n \in Nat \ {0} : n = Len(log) + 1
    BY Sizes
  <2>2. DOMAIN log' = 1..n /\ log'[n].kind # "difficulty" /\ ~Concrete(log'[n])
    BY <1>2, <1>3, <2>1 DEF Concrete
  <2> QED
    BY <1>1, <2>2, LastIsFresh
<1> QED
  BY <1>1, <1>3, <1>4, <1>5 DEF RequestStep, LinesBy, Awaits, Begins

(* A reply is committed: it comes first of what is appended.                *)
LEMMA ReplyRequests ==
    ASSUME JhTypes, NEW item \in Items, item.kind = "llm", item.id = Len(sent),
           NEW rest \in Seq(Items), log' = Append(log, item) \o rest,
           \A i \in 1..Len(rest) : rest[i].kind # "llm",
           phase = "llm", phase' # "llm", sent' = sent
    PROVE  ItemsKept /\ OneReply /\ Awaits /\ Begins
<1>1. PICK more : more = <<item>> \o rest
  OBVIOUS
<1>2. more \in Seq(Items) /\ Len(more) = Len(rest) + 1 /\ more[1] = item
      /\ \A k \in 2..Len(more) : more[k] = rest[k - 1]
  <2> HIDE DEF Items
  <2>1. <<item>> \in Seq(Items) /\ Len(<<item>>) = 1 /\ <<item>>[1] = item
    OBVIOUS
  <2> QED
    BY <1>1, <2>1
<1>3. log' = log \o more
  <2> HIDE DEF Items
  <2>1. log \in Seq(Items)
    BY DEF JhTypes
  <2>2. Append(log, item) = log \o <<item>> /\ <<item>> \in Seq(Items)
    BY <2>1
  <2> QED
    BY <1>1, <2>1, <2>2
<1>4. PICK n \in Nat, m \in Nat : n = Len(log) /\ m = Len(rest)
  <2>1. Len(log) \in Nat /\ Len(rest) \in Nat
    <3> HIDE DEF Items
    <3> QED
      BY Sizes
  <2> QED
    BY <2>1
<1>5. /\ ItemsKept /\ log' \in Seq(Items) /\ Len(log') = n + (m + 1)
      /\ \A i \in Fresh : i - n \in 1..m + 1 /\ log'[i] = more[i - n]
      /\ n + 1 \in Fresh /\ log'[n + 1] = item
  <2>1. /\ ItemsKept /\ log' \in Seq(Items) /\ Len(log') = Len(log) + Len(more)
        /\ \A i \in Fresh : i - Len(log) \in 1..Len(more) /\ log'[i] = more[i - Len(log)]
        /\ \A k \in 1..Len(more) : Len(log) + k \in Fresh /\ log'[Len(log) + k] = more[k]
    BY <1>2, <1>3, FreshItems
  <2>2. 1 \in 1..Len(more)
    BY <1>2, <1>4
  <2> QED
    BY <1>2, <1>4, <2>1, <2>2
<1>6. ASSUME NEW i \in Fresh, Concrete(log'[i]) PROVE i = n + 1 /\ log'[i].id = Len(sent)
  <2>1. PICK k \in 1..m + 1 : k = i - n /\ log'[i] = more[k]
    BY <1>5
  <2>2. CASE k = 1
    <3>1. i = n + 1
      BY <1>4, <1>5, <2>1, <2>2 DEF Fresh
    <3> QED
      BY <1>5, <3>1
  <2>3. CASE k # 1
    <3>1. k \in 2..m + 1 /\ k - 1 \in 1..m
      BY <2>3
    <3>2. log'[i] = rest[k - 1] /\ rest[k - 1].kind # "llm"
      BY <1>2, <1>4, <2>1, <3>1
    <3> QED
      BY <1>6, <3>2 DEF Concrete
  <2> QED
    BY <2>2, <2>3
<1>7. n + 1 \in Turns'
  <2>1. n + 1 \in 1..n + (m + 1) /\ DOMAIN log' = 1..n + (m + 1)
    BY <1>4, <1>5
  <2> QED
    BY <1>5, <2>1 DEF Turns
<1> QED
  BY <1>4, <1>5, <1>6, <1>7 DEF OneReply, Awaits, Begins

LEMMA CommittedAt ==
    ASSUME JhTypes, NEW r \in Replies
    PROVE  \E item \in Items : /\ item.kind = "llm" /\ item.id = Len(sent)
                               /\ item = [Plain("llm", Len(sent)) EXCEPT !.reply = Stored(r)]
                               /\ Committed(r) = Append(log, item)
<1>1. PICK item : item = [Plain("llm", Len(sent)) EXCEPT !.reply = Stored(r)]
  OBVIOUS
<1>2. item \in Items /\ item.kind = "llm"
  BY <1>1, CommittedItem DEF NewItem
<1>3. item.id = Len(sent)
  BY <1>1 DEF Plain, Item
<1> QED
  BY <1>1, <1>2, <1>3 DEF Committed

LEMMA AloneIsRest == ASSUME NEW item \in Items, JhTypes PROVE Append(log, item) = Append(log, item) \o <<>>
<1> HIDE DEF Items
<1>1. log \in Seq(Items)
  BY DEF JhTypes
<1>2. Append(log, item) \in Seq(Items)
  BY <1>1
<1> QED
  BY <1>2

LEMMA ReplyCommittedRequests == ASSUME JhTypes, BlockInv, ReplyCommitted PROVE RequestStep
<1>1. phase = "llm" /\ phase' = "replied" /\ UNCHANGED <<console, sent>>
  BY DEF ReplyCommitted
<1>2. PICK r \in Replies : log' = Committed(r)
  BY DEF ReplyCommitted
<1>3. PICK item \in Items : item.kind = "llm" /\ item.id = Len(sent) /\ log' = Append(log, item)
  BY <1>2, CommittedAt
<1>4. PICK rest \in Seq(Items) : Len(rest) = 0 /\ log' = Append(log, item) \o rest
  <2>1. <<>> \in Seq(Items) /\ Len(<<>>) = 0
    OBVIOUS
  <2> QED
    BY <1>3, <2>1, AloneIsRest
<1>5. \A i \in 1..Len(rest) : rest[i].kind # "llm"
  BY <1>4
<1>6. ItemsKept /\ OneReply /\ Awaits /\ Begins
  BY <1>1, <1>3, <1>4, <1>5, ReplyRequests
<1> QED
  BY <1>1, <1>6 DEF RequestStep, LinesBy

LEMMA PrintsAfter ==
    ASSUME JhTypes, NEW by \in Nat, by > Len(log) \/ by = 0,
           NEW error \in {"none", "execution", "harness"}, Prints(by, error)
    PROVE  LinesBy
<1>1. PICK line : line = Line(by, error)
  OBVIOUS
<1>2. line \in Lines /\ line.by = by
  BY <1>1 DEF Line, Lines
<1> QED
  BY <1>1, <1>2 DEF LinesBy, Prints

LEMMA DialogFailsRequests == ASSUME JhTypes, BlockInv, DialogFails PROVE RequestStep
<1>1. phase = "llm" /\ phase' = "replied" /\ UNCHANGED sent /\ Prints(Len(log) + 1, "execution")
  BY DEF DialogFails
<1>2. PICK r \in Replies : log' = Committed(r)
  BY DEF DialogFails
<1>3. PICK item \in Items : item.kind = "llm" /\ item.id = Len(sent) /\ log' = Append(log, item)
  BY <1>2, CommittedAt
<1>4. PICK rest \in Seq(Items) : Len(rest) = 0 /\ log' = Append(log, item) \o rest
  <2>1. <<>> \in Seq(Items) /\ Len(<<>>) = 0
    OBVIOUS
  <2> QED
    BY <1>3, <2>1, AloneIsRest
<1>5. \A i \in 1..Len(rest) : rest[i].kind # "llm"
  BY <1>4
<1>6. ItemsKept /\ OneReply /\ Awaits /\ Begins
  BY <1>1, <1>3, <1>4, <1>5, ReplyRequests
<1>7. Len(log) + 1 \in Nat /\ Len(log) + 1 > Len(log)
  BY Sizes
<1>8. LinesBy
  BY <1>1, <1>7, PrintsAfter
<1> QED
  BY <1>1, <1>6, <1>8 DEF RequestStep

LEMMA FinalReplyRemindedRequests == ASSUME JhTypes, BlockInv, FinalReplyReminded PROVE RequestStep
<1>1. phase = "llm" /\ phase' = "replied" /\ UNCHANGED sent /\ Prints(Len(log) + 2, "none")
  BY DEF FinalReplyReminded
<1>2. PICK r \in Replies : log' = Append(Committed(r), Plain("reminder", 0))
  BY DEF FinalReplyReminded
<1>3. PICK item \in Items : item.kind = "llm" /\ item.id = Len(sent) /\ Committed(r) = Append(log, item)
  BY CommittedAt
<1>4. PICK after \in Items : after = Plain("reminder", 0) /\ after.kind = "reminder"
  BY PlainItem DEF Kinds, BoundaryKinds
<1>5. <<after>> \in Seq(Items) /\ Len(<<after>>) = 1 /\ <<after>>[1] = after
  OBVIOUS
<1>6. log' = Append(log, item) \o <<after>>
  <2> HIDE DEF Items
  <2>1. Append(log, item) \in Seq(Items)
    BY DEF JhTypes
  <2> QED
    BY <1>2, <1>3, <1>4, <2>1
<1>7. \A i \in 1..Len(<<after>>) : <<after>>[i].kind # "llm"
  <2>1. \A i \in 1..1 : i = 1
    OBVIOUS
  <2> QED
    BY <1>4, <1>5, <2>1
<1>8. ItemsKept /\ OneReply /\ Awaits /\ Begins
  BY <1>1, <1>3, <1>5, <1>6, <1>7, ReplyRequests
<1>9. Len(log) + 2 \in Nat /\ Len(log) + 2 > Len(log)
  BY Sizes
<1>10. LinesBy
  BY <1>1, <1>9, PrintsAfter
<1> QED
  BY <1>1, <1>8, <1>10 DEF RequestStep

LEMMA FinalReplyRequests == ASSUME JhTypes, BlockInv, FinalReply PROVE RequestStep
<1>1. phase = "llm" /\ phase' # "llm" /\ UNCHANGED <<console, sent>>
  BY DEF FinalReply
<1>2. PICK r \in Replies, rest \in {<<>>, [k \in DOMAIN pending |-> [pending[k] EXCEPT !.pos = Len(console)]]} :
         log' = Committed(r) \o rest
  BY DEF FinalReply
<1>3. PICK item \in Items : item.kind = "llm" /\ item.id = Len(sent) /\ Committed(r) = Append(log, item)
  BY CommittedAt
<1>4. rest \in Seq(Items) /\ \A i \in 1..Len(rest) : rest[i].kind # "llm"
  <2>1. CASE rest = <<>>
    <3> HIDE DEF Items
    <3> QED
      BY <2>1
  <2>2. CASE rest # <<>>
    BY <2>2, <1>2, DrainedItems DEF TurnKinds
  <2> QED
    BY <2>1, <2>2
<1>5. log' = Append(log, item) \o rest
  BY <1>2, <1>3
<1>6. ItemsKept /\ OneReply /\ Awaits /\ Begins
  BY <1>1, <1>3, <1>4, <1>5, ReplyRequests
<1> QED
  BY <1>1, <1>6 DEF RequestStep, LinesBy

LEMMA FailRequests == ASSUME JhTypes, BlockInv, Fail PROVE RequestStep
<1>1. phase' = "done" /\ UNCHANGED <<log, sent>>
  BY DEF Fail
<1>2. PICK error \in {"none", "execution", "harness"} : Prints(0, error)
  BY DEF Fail
<1>3. LinesBy
  BY <1>2, PrintsAfter
<1> QED
  BY <1>1, <1>3, NothingFresh DEF RequestStep, Awaits, Begins, Busy

LEMMA NotifyRequests == ASSUME JhTypes, BlockInv, Notify PROVE RequestStep
<1>1. UNCHANGED <<console, sent>>
  BY DEF Notify
<1>2. PICK kind \in {"note", "subtask"}, done \in BOOLEAN :
        LET item == [Plain(kind, 0) EXCEPT !.results = IF done THEN <<"ok">> ELSE <<>>] IN
          IF phase = "done" THEN log' = Append(log, item) /\ phase' = "replied"
          ELSE UNCHANGED <<log, phase>>
  BY DEF Notify
<1>3. CASE phase # "done"
  <2>1. UNCHANGED <<log, phase>>
    BY <1>2, <1>3
  <2>2. Busy' = Busy
    BY <2>1 DEF Busy, LastItem, Conversation
  <2>3. Awaits
    BY <1>1, <2>1, NothingFresh DEF Awaits
  <2> QED
    BY <1>1, <2>1, <2>2, <2>3, NothingFresh DEF RequestStep, LinesBy, Begins
<1>4. CASE phase = "done"
  <2>1. PICK item : item = [Plain(kind, 0) EXCEPT !.results = IF done THEN <<"ok">> ELSE <<>>]
    OBVIOUS
  <2>2. log' = Append(log, item) /\ phase' = "replied"
    BY <1>2, <1>4, <2>1
  <2>3. item.kind = kind
    BY <2>1 DEF Plain, Item
  <2>4. item \in Items
    <3>1. log' \in Seq(Items) /\ log \in Seq(Items)
      BY NotifyShape DEF Shape, LogGrows, JhTypes
    <3>2. PICK n \in Nat : n = Len(log) + 1
      BY <3>1
    <3>3. n \in 1..Len(log') /\ log'[n] = item
      <4> HIDE DEF Items
      <4> QED
        BY <2>2, <3>1, <3>2
    <3> HIDE DEF Items
    <3> QED
      BY <3>1, <3>3
  <2>5. ItemsKept /\ Fresh = {Len(log) + 1} /\ log'[Len(log) + 1] = item /\ DOMAIN log' = 1..Len(log) + 1
    BY <2>2, <2>4, FreshItem
  <2>6. NoReplies
    BY <2>3, <2>5 DEF NoReplies, Concrete
  <2>7. ~Busy'
    <3>1. PICK n \in Nat \ {0} : n = Len(log) + 1
      BY Sizes
    <3>2. DOMAIN log' = 1..n /\ log'[n].kind # "difficulty" /\ ~Concrete(log'[n])
      BY <2>3, <2>5, <3>1 DEF Concrete
    <3> QED
      BY <2>2, <3>2, LastIsFresh
  <2> QED
    BY <1>1, <2>2, <2>5, <2>6, <2>7 DEF RequestStep, LinesBy, Awaits, Begins
<1> QED
  BY <1>3, <1>4

LEMMA PushRequests == ASSUME JhTypes, BlockInv, PushUserMessage PROVE RequestStep
<1>1. /\ UNCHANGED <<console, sent>>
      /\ phase' = IF phase = "done" THEN "replied" ELSE phase
      /\ LET logged == IF IsDialog THEN Append(log, UserItem(Arrived + 1)) ELSE log
         IN  log' = IF phase = "done" THEN Append(logged, Placeholder) ELSE logged
  BY DEF PushUserMessage
<1>2. PICK m \in Nat : m = Arrived + 1
  BY KnownIsFinite
<1>3. PICK user, open : user = UserItem(m) /\ open = Placeholder
  OBVIOUS
<1>4. open \in Items /\ open.kind = "llm" /\ open.reply.text = "none"
  <2>1. open \in Items /\ open.kind = "llm"
    BY <1>3, PlainItem DEF Placeholder, Kinds, BoundaryKinds
  <2>2. open.reply = NoReply
    BY <1>3 DEF Placeholder, Plain, Item
  <2> QED
    BY <2>1, <2>2 DEF NoReply
<1>5. user \in Items /\ user.kind = "user"
  <2>1. NoReply \in ReplyRecords /\ <<>> \in Results /\ "user" \in Kinds /\ 0 \in Nat
    BY DEF NoReply, ReplyRecords, Results, Kinds
  <2>2. user = Item("user", 0, m, NoReply, <<>>)
    BY <1>3 DEF UserItem
  <2> QED
    BY <2>1, <2>2, ItemMade
<1>6. ~Concrete(open) /\ ~Concrete(user)
  BY <1>4, <1>5 DEF Concrete
<1>7. LinesBy
  BY <1>1 DEF LinesBy
<1>8. CASE phase # "done"
  <2>1. CASE ~IsDialog
    <3>1. UNCHANGED <<log, phase>>
      BY <1>1, <1>8, <2>1
    <3>2. Busy' = Busy
      BY <3>1 DEF Busy, LastItem, Conversation
    <3>3. Awaits
      BY <1>1, <3>1, NothingFresh DEF Awaits
    <3> QED
      BY <1>1, <1>7, <3>1, <3>2, <3>3, NothingFresh DEF RequestStep, Begins
  <2>2. CASE IsDialog
    <3>1. log' = Append(log, user) /\ phase' = phase
      BY <1>1, <1>2, <1>3, <1>8, <2>2
    <3>2. ItemsKept /\ Fresh = {Len(log) + 1} /\ log'[Len(log) + 1] = user /\ DOMAIN log' = 1..Len(log) + 1
      BY <1>5, <3>1, FreshItem
    <3>3. NoReplies /\ Awaits
      BY <1>1, <1>5, <1>6, <3>1, <3>2 DEF NoReplies, Awaits
    <3>4. Busy' => Busy
      <4>1. PICK n \in Nat \ {0} : n = Len(log) + 1
        BY Sizes
      <4>2. DOMAIN log' = 1..n /\ log'[n].kind # "difficulty" /\ ~Concrete(log'[n])
        BY <1>5, <1>6, <3>2, <4>1
      <4>3. phase' # "running" /\ phase' # "warming" => ~Busy'
        BY <4>2, LastIsFresh
      <4> QED
        BY <3>1, <4>3 DEF Busy
    <3> QED
      BY <1>1, <1>7, <3>2, <3>3, <3>4 DEF RequestStep, Begins
  <2> QED
    BY <2>1, <2>2
<1>9. CASE phase = "done"
  <2>1. PICK more \in Seq(Items) :
           /\ log' = log \o more /\ Len(more) \in {1, 2}
           /\ \A k \in 1..Len(more) : more[k] \in {user, open}
           /\ more[Len(more)] = open
    <3>1. log \in Seq(Items)
      BY DEF JhTypes
    <3> HIDE DEF Items
    <3>2. CASE IsDialog
      <4>1. log' = Append(Append(log, user), open)
        BY <1>1, <1>2, <1>3, <1>9, <3>2
      <4>6. <<user, open>> \in Seq(Items)
        BY <1>4, <1>5
      <4>2. PICK more \in Seq(Items) : more = <<user, open>>
        BY <4>6
      <4>3. Len(more) = 2 /\ more[1] = user /\ more[2] = open
        BY <4>2
      <4>4. \A k \in 1..2 : k = 1 \/ k = 2
        OBVIOUS
      <4>5. log' = log \o more
        BY <1>4, <1>5, <3>1, <4>1, <4>2
      <4> QED
        BY <4>3, <4>4, <4>5
    <3>3. CASE ~IsDialog
      <4>1. log' = Append(log, open)
        BY <1>1, <1>3, <1>9, <3>3
      <4>6. <<open>> \in Seq(Items)
        BY <1>4
      <4>2. PICK more \in Seq(Items) : more = <<open>>
        BY <4>6
      <4>3. Len(more) = 1 /\ more[1] = open
        BY <4>2
      <4>4. \A k \in 1..1 : k = 1
        OBVIOUS
      <4>5. log' = log \o more
        BY <1>4, <3>1, <4>1, <4>2
      <4> QED
        BY <4>3, <4>4, <4>5
    <3> QED
      BY <3>2, <3>3
  <2>2. /\ ItemsKept /\ log' \in Seq(Items) /\ Len(log') = Len(log) + Len(more)
        /\ \A i \in Fresh : i - Len(log) \in 1..Len(more) /\ log'[i] = more[i - Len(log)]
        /\ \A k \in 1..Len(more) : Len(log) + k \in Fresh /\ log'[Len(log) + k] = more[k]
    BY <2>1, FreshItems
  <2>3. NoReplies
    BY <1>6, <2>1, <2>2 DEF NoReplies
  <2>4. ~Busy'
    <3>5. PICK l \in Nat, k \in {1, 2} : l = Len(log) /\ k = Len(more)
      BY <2>1, Sizes
    <3>6. l + k \in Nat \ {0} /\ k \in 1..k
      BY <3>5
    <3>1. PICK n \in Nat \ {0} : n = Len(log')
      BY <2>2, <3>5, <3>6
    <3>2. Len(more) \in 1..Len(more)
      BY <3>5, <3>6
    <3>3. log'[n] = open
      BY <2>1, <2>2, <3>1, <3>2
    <3>4. DOMAIN log' = 1..n
      BY <2>2, <3>1
    <3> QED
      BY <1>1, <1>4, <1>6, <1>9, <3>3, <3>4, LastIsFresh
  <2> QED
    BY <1>1, <1>7, <1>9, <2>2, <2>3, <2>4 DEF RequestStep, Awaits, Begins
<1> QED
  BY <1>8, <1>9

LEMMA NothingRequests == ASSUME JhTypes, UNCHANGED Data PROVE RequestStep
<1>1. UNCHANGED <<log, console, phase, sent>>
  BY DEF Data
<1>2. Busy' = Busy
  BY <1>1 DEF Busy, LastItem, Conversation
<1>3. Awaits
  BY <1>1, NothingFresh DEF Awaits
<1> QED
  BY <1>1, <1>2, <1>3, NothingFresh DEF RequestStep, LinesBy, Begins

LEMMA RequestSteps == ASSUME JhTypes, BlockInv, [Next]_vars PROVE RequestStep
<1>1. CASE UNCHANGED vars
  BY <1>1, NothingRequests DEF vars, Data
<1>2. ASSUME JobStepNext PROVE RequestStep
  BY <1>2, BeginWarmupRequests, BeginReplyRequests, PrintLineRequests, RaiseRequests,
     ToolDoneRequests, SuspendRequests, ExitBlockRequests, EndBlockRequests, EscalateRequests,
     SendRequestRequests, ReplySuppressedRequests, ReplyCommittedRequests, DialogFailsRequests,
     FinalReplyRemindedRequests, FinalReplyRequests, FailRequests DEF JobStepNext
<1>3. ASSUME Capture \/ ReadStep \/ ReadFails PROVE RequestStep
  BY <1>3, NothingRequests DEF Capture, ReadStep, ReadFails
<1> QED
  BY <1>1, <1>2, <1>3, PushRequests, NotifyRequests DEF Next

(***************************************************************************)
(* The invariant of the requests.  The k-th request was built from the      *)
(* first n items, L lines and p pushes; what came later neither changes     *)
(* them nor prints before them.                                             *)
(***************************************************************************)
BoundT == [items : Nat, lines : Nat, pushes : Nat]
KnownAt(n, p) == UserMessages(SubSeq(log, 1, n)) \cup {pushes[j].msg : j \in 1..p}
Within(n, L, p) == n <= Len(log) /\ L <= Len(console) /\ p <= Len(pushes)
WasSent(k, n, L, p) ==
    sent[k] = [msgs |-> ChatHistory(SubSeq(log, 1, n), L, SubSeq(pushes, 1, p), {}), known |-> KnownAt(n, p)]
LogSplit(n, L) ==
    \A i \in 1..Len(log) : IF i <= n THEN log[i].pos <= L ELSE log[i].kind = "user" \/ log[i].pos >= L
ConsoleSplit(n, L) ==
    \A l \in 1..Len(console) : IF l <= L THEN console[l].by <= n ELSE console[l].by = 0 \/ console[l].by > n
PushesSplit(L, p) ==
    \A j \in 1..Len(pushes) : IF j <= p THEN pushes[j].at <= L ELSE pushes[j].at >= L
Unknown(n, p) ==
    /\ \A i \in 1..Len(log) : i > n /\ log[i].kind = "user" => log[i].id \notin KnownAt(n, p)
    /\ \A j \in 1..Len(pushes) : j > p => pushes[j].msg \notin KnownAt(n, p)
AnsweredAt(k, n, L) ==
    \A i \in 1..Len(log) : Concrete(log[i]) /\ log[i].id = k =>
        i > n /\ log[i].pos = L /\ \A m \in n + 1..i - 1 : log[m].kind = "user"
AwaitedAt(k, n, L) ==
    phase = "llm" /\ k = Len(sent) =>
        L = Len(console) /\ \A i \in 1..Len(log) : i > n => log[i].kind = "user"
RunsAfter(n) == Busy => Exec > n
RequestAt(k, n, L, p) ==
    /\ Within(n, L, p) /\ WasSent(k, n, L, p)
    /\ LogSplit(n, L) /\ ConsoleSplit(n, L) /\ PushesSplit(L, p) /\ Unknown(n, p)
    /\ AnsweredAt(k, n, L) /\ AwaitedAt(k, n, L) /\ RunsAfter(n)
BoundsOf(b) ==
    /\ Len(b) = Len(sent)
    /\ \A k \in 1..Len(b) : RequestAt(k, b[k].items, b[k].lines, b[k].pushes)
    /\ \A k \in 1..Len(b) - 1 : b[k].items <= b[k + 1].items /\ b[k].lines <= b[k + 1].lines
RequestInv ==
    /\ phase = "llm" => Len(sent) > 0
    /\ \A i \in 1..Len(log) : Concrete(log[i]) => log[i].id \in 1..Len(sent)
    /\ \E b \in Seq(BoundT) : BoundsOf(b)

LEMMA SamePrefix ==
    ASSUME NEW T, NEW q \in Seq(T), NEW r \in Seq(T), NEW n \in Nat, n <= Len(q), n <= Len(r),
           \A i \in 1..n : q[i] = r[i]
    PROVE  SubSeq(q, 1, n) = SubSeq(r, 1, n)
<1>1. SubSeq(q, 1, n) = [i \in 1..n |-> q[i]] /\ SubSeq(r, 1, n) = [i \in 1..n |-> r[i]]
  BY PrefixIs
<1> QED
  BY <1>1

(* Pushes only come after those there are.                                  *)
LEMMA PushesKept ==
    ASSUME JhTypes, Shape, JhTypes'
    PROVE  /\ pushes \in Seq(PushT) /\ pushes' \in Seq(PushT) /\ Len(pushes) \in Nat /\ Len(pushes') \in Nat
           /\ Len(pushes) <= Len(pushes')
           /\ \A j \in 1..Len(pushes) : pushes'[j] = pushes[j]
           /\ \A j \in 1..Len(pushes') : j > Len(pushes) =>
                 pushes'[j].at = Len(console) /\ pushes'[j].msg = Arrived + 1
<1>1. pushes \in Seq(PushT) /\ pushes' \in Seq(PushT) /\ Len(pushes) \in Nat /\ Len(pushes') \in Nat
  BY DEF JhTypes, PushT
<1>2. CASE pushes' = pushes
  BY <1>1, <1>2
<1>3. CASE pushes' # pushes
  <2>1. PICK entry : entry = [at |-> Len(console), msg |-> Arrived + 1]
    OBVIOUS
  <2>2. pushes' = Append(pushes, entry)
    BY <1>3, <2>1 DEF Shape, PushesGrow
  <2>3. PICK n \in Nat : n = Len(pushes)
    BY <1>1
  <2>4. Len(pushes') = n + 1 /\ pushes'[n + 1] = entry /\ \A j \in 1..n : pushes'[j] = pushes[j]
    <3> HIDE DEF PushT
    <3> QED
      BY <1>1, <2>2, <2>3
  <2>5. entry.at = Len(console) /\ entry.msg = Arrived + 1
    BY <2>1
  <2>6. \A j \in 1..n + 1 : j > n => j = n + 1
    OBVIOUS
  <2> QED
    BY <1>1, <2>3, <2>4, <2>5, <2>6
<1> QED
  BY <1>2, <1>3

LEMMA HistoryStays ==
    ASSUME UNCHANGED def, NEW items, NEW lines, NEW pushed
    PROVE  ChatHistory(items, lines, pushed, {})' = ChatHistory(items, lines, pushed, {})
<1>1. BuildSteps(items, lines, pushed, {})' = BuildSteps(items, lines, pushed, {})
  BY HistoryKept
<1> QED
  BY <1>1 DEF ChatHistory, Flat

LEMMA SentKept ==
    ASSUME JhTypes, RequestStep
    PROVE  /\ Len(sent) \in Nat /\ Len(sent') \in Nat /\ Len(sent) <= Len(sent')
           /\ \A k \in 1..Len(sent) : sent'[k] = sent[k]
           /\ sent' # sent => Sends /\ Len(sent') = Len(sent) + 1
<1>1. Len(sent) \in Nat /\ sent \in Seq(Range(sent))
  BY DEF JhTypes
<1>2. CASE sent' = sent
  BY <1>1, <1>2
<1>3. CASE sent' # sent
  <2>1. Sends
    BY <1>3 DEF RequestStep
  <2>2. PICK request : sent' = Append(sent, request)
    BY <2>1 DEF Sends
  <2>3. Len(sent') = Len(sent) + 1 /\ \A k \in 1..Len(sent) : sent'[k] = sent[k]
    BY <1>1, <2>2
  <2> QED
    BY <1>1, <2>1, <2>3
<1> QED
  BY <1>2, <1>3

(* What a request was built from stays.                                     *)
LEMMA PrefixesKept ==
    ASSUME JhTypes, JhTypes', Shape, RequestStep, NEW n \in Nat, NEW L \in Nat, NEW p \in Nat,
           Within(n, L, p), RunsAfter(n)
    PROVE  /\ SubSeq(log', 1, n) = SubSeq(log, 1, n) /\ SubSeq(pushes', 1, p) = SubSeq(pushes, 1, p)
           /\ KnownAt(n, p)' = KnownAt(n, p) /\ Within(n, L, p)'
<1>1. /\ log \in Seq(Items) /\ log' \in Seq(Items) /\ Len(log) \in Nat /\ Len(log') \in Nat
      /\ n <= Len(log) /\ Len(log) <= Len(log')
  BY Before DEF JhTypes, Within, Shape
<1>2. \A i \in 1..n : log'[i] = log[i]
  <2> SUFFICES ASSUME NEW i \in 1..n PROVE log'[i] = log[i]
    OBVIOUS
  <2>1. i \in 1..Len(log)
    BY <1>1
  <2>2. log'[i] = log[i] \/ (i = Exec /\ Busy)
    BY <2>1 DEF RequestStep, ItemsKept
  <2>3. ~(i = Exec /\ Busy)
    BY DEF RunsAfter
  <2> QED
    BY <2>2, <2>3
<1>3. SubSeq(log', 1, n) = SubSeq(log, 1, n)
  <2>1. n <= Len(log')
    BY <1>1
  <2> HIDE DEF Items
  <2> QED
    BY <1>1, <1>2, <2>1, SamePrefix
<1>4. /\ pushes \in Seq(PushT) /\ pushes' \in Seq(PushT) /\ p <= Len(pushes) /\ p <= Len(pushes')
      /\ \A j \in 1..p : pushes'[j] = pushes[j]
  BY PushesKept DEF Within
<1>5. SubSeq(pushes', 1, p) = SubSeq(pushes, 1, p)
  <2> HIDE DEF PushT
  <2> QED
    BY <1>4, SamePrefix
<1>6. KnownAt(n, p)' = KnownAt(n, p)
  BY <1>3, <1>4 DEF KnownAt, UserMessages
<1>7. Within(n, L, p)'
  <2>1. L <= Len(console) /\ Len(console) \in Nat /\ Len(console') \in Nat /\ Len(console) <= Len(console')
    BY ConsoleSize DEF Within
  <2>2. L <= Len(console')
    BY <2>1
  <2>3. n <= Len(log')
    BY <1>1
  <2> QED
    BY <1>4, <2>2, <2>3 DEF Within
<1> QED
  BY <1>3, <1>5, <1>6, <1>7

LEMMA WasSentKept ==
    ASSUME JhTypes, JhTypes', Shape, RequestStep, NEW n \in Nat, NEW L \in Nat, NEW p \in Nat,
           Within(n, L, p), RunsAfter(n), NEW k \in 1..Len(sent), WasSent(k, n, L, p)
    PROVE  WasSent(k, n, L, p)'
<1>1. PICK items, pushed : items = SubSeq(log, 1, n) /\ pushed = SubSeq(pushes, 1, p)
  OBVIOUS
<1>2. items = SubSeq(log', 1, n) /\ pushed = SubSeq(pushes', 1, p) /\ KnownAt(n, p)' = KnownAt(n, p)
  BY <1>1, PrefixesKept
<1>3. ChatHistory(items, L, pushed, {})' = ChatHistory(items, L, pushed, {})
  BY HistoryStays DEF Shape
<1>4. sent'[k] = sent[k]
  BY SentKept
<1> QED
  BY <1>1, <1>2, <1>3, <1>4 DEF WasSent

LEMMA LogSplitKept ==
    ASSUME JhTypes, Shape, NEW n \in Nat, NEW L \in Nat, n <= Len(log), L <= Len(console), LogSplit(n, L)
    PROVE  LogSplit(n, L)'
<1>1. /\ Len(log) \in Nat /\ Len(log') \in Nat /\ Len(log) <= Len(log')
      /\ \A i \in 1..Len(log) : Same(log[i], log'[i])
      /\ \A i \in 1..Len(log') : i > Len(log) => NewItem(log'[i])
  BY Before DEF Shape
<1> SUFFICES ASSUME NEW i \in 1..Len(log')
             PROVE  IF i <= n THEN log'[i].pos <= L ELSE log'[i].kind = "user" \/ log'[i].pos >= L
  BY DEF LogSplit
<1>2. CASE i <= Len(log)
  BY <1>1, <1>2 DEF Same, LogSplit
<1>3. CASE i > Len(log)
  <2>1. log'[i].kind = "user" \/ log'[i].pos = Len(console)
    BY <1>1, <1>3 DEF NewItem
  <2> QED
    BY <1>1, <1>3, <2>1, Sizes
<1> QED
  BY <1>1, <1>2, <1>3

LEMMA ConsoleSplitKept ==
    ASSUME JhTypes, Shape, RequestStep, NEW n \in Nat, NEW L \in Nat, n <= Len(log), L <= Len(console),
           ConsoleSplit(n, L), RunsAfter(n)
    PROVE  ConsoleSplit(n, L)'
<1>1. /\ Len(console) \in Nat /\ Len(console') \in Nat
      /\ \A l \in 1..Len(console) : console'[l] = console[l]
  BY ConsoleSize
<1> SUFFICES ASSUME NEW l \in 1..Len(console')
             PROVE  IF l <= L THEN console'[l].by <= n ELSE console'[l].by = 0 \/ console'[l].by > n
  BY DEF ConsoleSplit
<1>2. CASE l <= Len(console)
  BY <1>1, <1>2 DEF ConsoleSplit
<1>3. CASE l > Len(console)
  <2>1. PICK line \in Lines : /\ console' = Append(console, line)
                              /\ line.by = 0 \/ line.by > Len(log) \/ (line.by = Exec /\ Busy)
    BY <1>1, <1>3 DEF RequestStep, LinesBy
  <2>2. console'[l] = line
    <3>1. console \in Seq(Lines)
      BY DEF JhTypes
    <3>2. PICK m \in Nat : m = Len(console)
      BY <1>1
    <3>3. Len(console') = m + 1 /\ console'[m + 1] = line
      <4> HIDE DEF Lines
      <4> QED
        BY <2>1, <3>1, <3>2
    <3> QED
      BY <1>3, <3>2, <3>3
  <2>3. PICK by \in Nat : by = line.by
    BY DEF Lines
  <2>4. by = 0 \/ by > n
    BY <2>1, <2>3, Sizes DEF RunsAfter
  <2> QED
    BY <1>1, <1>3, <2>2, <2>3, <2>4
<1> QED
  BY <1>1, <1>2, <1>3

LEMMA PushesSplitKept ==
    ASSUME JhTypes, JhTypes', Shape, NEW L \in Nat, NEW p \in Nat, L <= Len(console), p <= Len(pushes),
           PushesSplit(L, p)
    PROVE  PushesSplit(L, p)'
<1> SUFFICES ASSUME NEW j \in 1..Len(pushes')
             PROVE  IF j <= p THEN pushes'[j].at <= L ELSE pushes'[j].at >= L
  BY DEF PushesSplit
<1>1. CASE j <= Len(pushes)
  BY <1>1, PushesKept DEF PushesSplit
<1>2. CASE j > Len(pushes)
  BY <1>2, PushesKept, Sizes
<1> QED
  BY <1>1, <1>2, PushesKept

(* A message that arrives is new to every request.                          *)
LEMMA UnknownKept ==
    ASSUME JhTypes, JhTypes', KnownInv, Shape, RequestStep, NEW n \in Nat, NEW L \in Nat, NEW p \in Nat,
           Within(n, L, p), RunsAfter(n), Unknown(n, p)
    PROVE  Unknown(n, p)'
<1>1. PICK K : K = KnownAt(n, p) /\ K = KnownAt(n, p)'
  BY PrefixesKept
<1>2. PICK a \in Nat : a = Arrived
  BY KnownIsFinite
<1>3. a + 1 \notin K
  <2>1. KnownAt(n, p) \subseteq Known
    <3>1. log \in Seq(Items) /\ n <= Len(log) /\ p <= Len(pushes) /\ Len(pushes) \in Nat /\ DOMAIN pushes = 1..Len(pushes)
      BY Sizes DEF JhTypes, Within
    <3>2. DOMAIN SubSeq(log, 1, n) = 1..n /\ \A i \in 1..n : SubSeq(log, 1, n)[i] = log[i] /\ i \in DOMAIN log
      <4> HIDE DEF Items
      <4> QED
        BY <3>1, PrefixIs
    <3>3. UserMessages(SubSeq(log, 1, n)) \subseteq UserMessages(log)
      BY <3>2 DEF UserMessages
    <3>4. \A j \in 1..p : j \in DOMAIN pushes
      BY <3>1
    <3> QED
      BY <3>3, <3>4 DEF KnownAt, Known
  <2>2. Known = 1..a
    BY <1>2 DEF KnownInv
  <2> QED
    BY <1>1, <2>1, <2>2
<1>4. ASSUME NEW i \in 1..Len(log'), i > n, log'[i].kind = "user" PROVE log'[i].id \notin K
  <2>1. CASE i <= Len(log)
    <3>1. i \in 1..Len(log) /\ Same(log[i], log'[i])
      BY <2>1, Before DEF Shape
    <3> QED
      BY <1>1, <1>4, <3>1 DEF Same, Unknown
  <2>2. CASE i > Len(log)
    <3>1. NewItem(log'[i])
      BY <2>2, Before DEF Shape
    <3> QED
      BY <1>2, <1>3, <1>4, <3>1 DEF NewItem
  <2> QED
    BY <2>1, <2>2, Sizes
<1>5. ASSUME NEW j \in 1..Len(pushes'), j > p PROVE pushes'[j].msg \notin K
  <2>1. CASE j <= Len(pushes)
    BY <1>1, <1>5, <2>1, PushesKept DEF Unknown
  <2>2. CASE j > Len(pushes)
    BY <1>2, <1>3, <2>2, PushesKept
  <2> QED
    BY <2>1, <2>2, PushesKept
<1> QED
  BY <1>1, <1>4, <1>5 DEF Unknown

LEMMA AnsweredKept ==
    ASSUME JhTypes, Shape, RequestStep, NEW n \in Nat, NEW L \in Nat, NEW k \in 1..Len(sent),
           n <= Len(log), AnsweredAt(k, n, L), AwaitedAt(k, n, L)
    PROVE  AnsweredAt(k, n, L)'
<1>1. /\ Len(log) \in Nat /\ Len(log') \in Nat /\ Len(log) <= Len(log')
      /\ \A i \in 1..Len(log) : Same(log[i], log'[i])
      /\ \A i \in 1..Len(log') : i > Len(log) => NewItem(log'[i])
  BY Before DEF Shape
<1> SUFFICES ASSUME NEW i \in 1..Len(log'), Concrete(log'[i]), log'[i].id = k
             PROVE  i > n /\ log'[i].pos = L /\ \A m \in n + 1..i - 1 : log'[m].kind = "user"
  BY DEF AnsweredAt
<1>2. CASE i <= Len(log)
  <2>1. i \in 1..Len(log) /\ Concrete(log[i]) /\ log[i].id = k /\ log'[i].pos = log[i].pos
    BY <1>1, <1>2 DEF Same, Concrete
  <2>2. i > n /\ log[i].pos = L /\ \A m \in n + 1..i - 1 : log[m].kind = "user"
    BY <2>1 DEF AnsweredAt
  <2>3. \A m \in n + 1..i - 1 : m \in 1..Len(log) /\ log'[m].kind = log[m].kind
    BY <1>1, <1>2 DEF Same
  <2> QED
    BY <2>1, <2>2, <2>3
<1>3. CASE i > Len(log)
  <2>1. OneReply /\ i \in Fresh
    BY <1>1, <1>3 DEF RequestStep, NoReplies, Fresh
  <2>2. phase = "llm" /\ i = Len(log) + 1 /\ k = Len(sent)
    BY <2>1 DEF OneReply
  <2>3. L = Len(console) /\ \A m \in 1..Len(log) : m > n => log[m].kind = "user"
    BY <2>2 DEF AwaitedAt
  <2>4. log'[i].pos = L
    BY <1>1, <1>3, <2>3 DEF NewItem, Concrete
  <2>5. \A m \in n + 1..i - 1 : m \in 1..Len(log) /\ m > n /\ log'[m].kind = log[m].kind
    BY <1>1, <2>2 DEF Same
  <2>6. ASSUME NEW m \in n + 1..i - 1 PROVE log'[m].kind = "user"
    BY <2>3, <2>5
  <2>7. i > n
    BY <1>3
  <2> QED
    BY <2>4, <2>6, <2>7
<1> QED
  BY <1>1, <1>2, <1>3

LEMMA AwaitedKept ==
    ASSUME JhTypes, Shape, RequestStep, NEW n \in Nat, NEW L \in Nat, NEW k \in 1..Len(sent),
           n <= Len(log), AwaitedAt(k, n, L)
    PROVE  AwaitedAt(k, n, L)'
<1>1. /\ Len(log) \in Nat /\ Len(log') \in Nat /\ Len(log) <= Len(log')
      /\ \A i \in 1..Len(log) : Same(log[i], log'[i])
  BY Before DEF Shape
<1> SUFFICES ASSUME phase' = "llm", k = Len(sent')
             PROVE  L = Len(console') /\ \A i \in 1..Len(log') : i > n => log'[i].kind = "user"
  BY DEF AwaitedAt
<1>2. sent' = sent
  BY SentKept
<1>3. phase = "llm" /\ console' = console /\ \A i \in Fresh : log'[i].kind = "user"
  BY <1>2 DEF RequestStep, Awaits
<1>4. L = Len(console) /\ \A i \in 1..Len(log) : i > n => log[i].kind = "user"
  BY <1>2, <1>3 DEF AwaitedAt
<1>5. ASSUME NEW i \in 1..Len(log'), i > n PROVE log'[i].kind = "user"
  <2>1. CASE i <= Len(log)
    BY <1>1, <1>4, <1>5, <2>1 DEF Same
  <2>2. CASE i > Len(log)
    BY <1>1, <1>3, <2>2 DEF Fresh
  <2> QED
    BY <1>1, <2>1, <2>2
<1> QED
  BY <1>3, <1>4, <1>5

(* The block that runs is never before a request.                           *)
LEMMA RunsAfterKept ==
    ASSUME JhTypes, BlockInv, JhTypes', Shape, RequestStep, NEW n \in Nat, n <= Len(log), RunsAfter(n)
    PROVE  RunsAfter(n)'
<1> SUFFICES ASSUME Busy' PROVE Exec' > n
  BY DEF RunsAfter
<1>1. /\ Len(log) \in Nat /\ Len(log') \in Nat /\ Len(log) <= Len(log') /\ DOMAIN log' = 1..Len(log')
      /\ DOMAIN log = 1..Len(log) /\ \A i \in 1..Len(log) : Same(log[i], log'[i])
  BY Before DEF Shape
<1>2. Turns' \subseteq 1..Len(log')
  BY <1>1 DEF Turns
<1>3. ASSUME NEW t \in Turns', t > n PROVE Exec' > n
  <2>1. LastOf(Turns') \in Turns' /\ t <= LastOf(Turns')
    BY <1>1, <1>2, <1>3, LastOfIs
  <2>2. PICK e \in 1..Len(log'), u \in 1..Len(log') : e = LastOf(Turns') /\ u = t
    BY <1>2, <2>1
  <2> QED
    BY <1>1, <1>3, <2>1, <2>2 DEF Exec
<1>4. CASE Busy
  <2>1. Turns # {}
    <3>1. CASE phase \in {"warming", "running"}
      BY <3>1 DEF BlockInv
    <3>2. CASE Conversation # {} /\ Concrete(LastItem)
      <4>1. LastOf(Conversation) \in Conversation
        BY <3>2, Sizes, LastOfIs
      <4> QED
        BY <3>2, <4>1 DEF LastItem, Concrete, Turns, Conversation
    <3> QED
      BY <1>4, <3>1, <3>2 DEF Busy
  <2>2. Exec \in Turns
    BY <2>1, Sizes, LastOfIs DEF Exec
  <2>3. PICK e \in 1..Len(log) : e = Exec /\ e \in Turns
    BY <2>2, Sizes
  <2>4. e \in Turns'
    BY <1>1, <2>3 DEF Turns, Same
  <2>5. e > n
    BY <1>4, <2>3 DEF RunsAfter
  <2> QED
    BY <1>3, <2>4, <2>5
<1>5. CASE ~Busy
  <2>1. PICK i \in Fresh : i \in Turns'
    BY <1>5 DEF RequestStep, Begins
  <2>2. i > n
    BY <1>1, <2>1 DEF Fresh
  <2> QED
    BY <1>3, <2>1, <2>2
<1> QED
  BY <1>4, <1>5

LEMMA RequestKept ==
    ASSUME JhInv, JhInv', Shape, RequestStep, NEW k \in 1..Len(sent), NEW n \in Nat, NEW L \in Nat,
           NEW p \in Nat, RequestAt(k, n, L, p)
    PROVE  RequestAt(k, n, L, p)'
<1>1. JhTypes /\ JhTypes' /\ BlockInv /\ KnownInv
  BY DEF JhInv
<1>2. /\ Within(n, L, p) /\ WasSent(k, n, L, p)
      /\ LogSplit(n, L) /\ ConsoleSplit(n, L) /\ PushesSplit(L, p) /\ Unknown(n, p)
      /\ AnsweredAt(k, n, L) /\ AwaitedAt(k, n, L) /\ RunsAfter(n)
  BY DEF RequestAt
<1>3. n <= Len(log) /\ L <= Len(console) /\ p <= Len(pushes)
  BY <1>2 DEF Within
<1>4. Within(n, L, p)' /\ WasSent(k, n, L, p)'
  BY <1>1, <1>2, PrefixesKept, WasSentKept
<1>5. LogSplit(n, L)' /\ ConsoleSplit(n, L)' /\ PushesSplit(L, p)'
  BY <1>1, <1>2, <1>3, LogSplitKept, ConsoleSplitKept, PushesSplitKept
<1>6. Unknown(n, p)'
  BY <1>1, <1>2, UnknownKept
<1>7. AnsweredAt(k, n, L)' /\ AwaitedAt(k, n, L)' /\ RunsAfter(n)'
  BY <1>1, <1>2, <1>3, AnsweredKept, AwaitedKept, RunsAfterKept
<1> QED
  BY <1>4, <1>5, <1>6, <1>7 DEF RequestAt

LEMMA RequestNew ==
    ASSUME JhInv, JhInv', RequestInv, Shape, RequestStep, sent' # sent,
           NEW k \in Nat, k = Len(sent'), NEW n \in Nat, n = Len(log'), NEW L \in Nat, L = Len(console'),
           NEW p \in Nat, p = Len(pushes')
    PROVE  RequestAt(k, n, L, p)'
<1>1. JhTypes /\ JhTypes' /\ PosInv' /\ PrintInv' /\ PosInv
  BY DEF JhInv
<1>2. Sends /\ k = Len(sent) + 1 /\ Len(sent) \in Nat
  BY <1>1, SentKept
<1>3. /\ phase' = "llm" /\ console' = console /\ pushes' = pushes /\ NoReplies /\ NoUsers /\ def' = def
      /\ sent' = Append(sent, [msgs |-> ChatHistory(log', Len(console), pushes, {}), known |-> Known])
  BY <1>2 DEF Sends, Shape
<1>4. Within(n, L, p)'
  BY DEF Within
<1>5. PICK items \in Seq(Items), pushed \in Seq(PushT) : items = log' /\ pushed = pushes /\ pushed = pushes'
  BY <1>1, <1>3 DEF JhTypes, PushT
<1>6. SubSeq(items, 1, n) = items /\ SubSeq(pushed, 1, p) = pushed
  <2>1. n = Len(items) /\ p = Len(pushed)
    BY <1>5
  <2> HIDE DEF Items, PushT
  <2> QED
    BY <2>1
<1>7. WasSent(k, n, L, p)'
  <2>1. UserMessages(log') = UserMessages(log)
    <3>1. /\ DOMAIN log = 1..Len(log) /\ DOMAIN log' = 1..Len(log') /\ Len(log) \in Nat /\ Len(log') \in Nat
          /\ Len(log) <= Len(log') /\ \A i \in 1..Len(log) : Same(log[i], log'[i])
      BY <1>1, Before DEF Shape
    <3>2. \A i \in DOMAIN log' : log'[i].kind = "user" => i \in DOMAIN log /\ log[i].kind = "user" /\ log[i].id = log'[i].id
      <4> SUFFICES ASSUME NEW i \in DOMAIN log', log'[i].kind = "user"
                   PROVE  i \in DOMAIN log /\ log[i].kind = "user" /\ log[i].id = log'[i].id
        OBVIOUS
      <4>1. i <= Len(log)
        BY <1>3, <3>1 DEF NoUsers, Fresh
      <4> QED
        BY <3>1, <4>1 DEF Same
    <3>3. \A i \in DOMAIN log : i \in DOMAIN log' /\ log'[i].kind = log[i].kind /\ log'[i].id = log[i].id
      BY <3>1 DEF Same
    <3> QED
      BY <3>2, <3>3 DEF UserMessages
  <2>2. KnownAt(n, p)' = Known
    <3>1. KnownAt(n, p)' = UserMessages(items) \cup {pushed[j].msg : j \in 1..p}
      BY <1>5, <1>6 DEF KnownAt, UserMessages
    <3>2. DOMAIN pushes = 1..p
      BY <1>3, <1>5
    <3> QED
      BY <1>5, <2>1, <3>1, <3>2 DEF Known
  <2>3. ChatHistory(items, L, pushed, {})' = ChatHistory(items, L, pushed, {})
    BY <1>3, HistoryStays
  <2>4. sent'[k] = [msgs |-> ChatHistory(items, L, pushed, {}), known |-> Known]
    <3>1. PICK request : request = [msgs |-> ChatHistory(log', Len(console), pushes, {}), known |-> Known]
      OBVIOUS
    <3>2. sent'[k] = request
      BY <1>1, <1>2, <1>3, <3>1 DEF JhTypes
    <3> QED
      BY <1>3, <1>5, <3>1, <3>2
  <2> QED
    BY <1>5, <1>6, <2>2, <2>3, <2>4 DEF WasSent
<1>8. DOMAIN log' = 1..n /\ DOMAIN console' = 1..L /\ DOMAIN pushes' = 1..p
  BY <1>1 DEF JhTypes
<1>9. LogSplit(n, L)' /\ PushesSplit(L, p)' /\ Unknown(n, p)'
  <2>1. \A i \in 1..n : i <= n /\ log'[i].pos <= L
    BY <1>1, <1>8 DEF PosInv
  <2>2. \A j \in 1..p : j <= p /\ pushes'[j].at <= L
    BY <1>1, <1>8 DEF PosInv
  <2>3. ~(\E i \in 1..n : i > n) /\ ~(\E j \in 1..p : j > p)
    OBVIOUS
  <2> QED
    BY <2>1, <2>2, <2>3 DEF LogSplit, PushesSplit, Unknown
<1>10. ConsoleSplit(n, L)'
  <2> SUFFICES ASSUME NEW l \in 1..L PROVE console'[l].by <= n
    BY DEF ConsoleSplit
  <2>1. l \in DOMAIN console'
    BY <1>8
  <2> QED
    BY <1>1, <1>8, <2>1 DEF PrintInv
<1>11. AnsweredAt(k, n, L)'
  <2> SUFFICES ASSUME NEW i \in 1..n, Concrete(log'[i]), log'[i].id = k PROVE FALSE
    BY DEF AnsweredAt
  <2>1. i <= Len(log)
    <3>1. i \notin Len(log) + 1..Len(log')
      BY <1>3 DEF NoReplies, Fresh
    <3>2. Len(log) \in Nat
      BY <1>1, Sizes
    <3> QED
      BY <3>1, <3>2
  <2>2. i \in 1..Len(log) /\ Same(log[i], log'[i])
    <3>1. Len(log) \in Nat /\ \A j \in 1..Len(log) : Same(log[j], log'[j])
      BY <1>1, Before DEF Shape
    <3>2. i \in 1..Len(log)
      BY <2>1, <3>1
    <3> QED
      BY <3>1, <3>2
  <2>3. log[i].id \in 1..Len(sent) /\ log[i].id = k
    BY <2>2 DEF RequestInv, Same, Concrete
  <2> QED
    BY <1>2, <2>3
<1>12. AwaitedAt(k, n, L)' /\ RunsAfter(n)'
  BY <1>3 DEF AwaitedAt, RunsAfter, Busy
<1> QED
  BY <1>4, <1>7, <1>9, <1>10, <1>11, <1>12 DEF RequestAt

LEMMA RepliesNext ==
    ASSUME JhInv, RequestInv, Shape, RequestStep
    PROVE  /\ phase' = "llm" => Len(sent') > 0
           /\ \A i \in 1..Len(log') : Concrete(log'[i]) => log'[i].id \in 1..Len(sent')
<1>1. JhTypes
  BY DEF JhInv
<1>2. PICK m \in Nat, m2 \in Nat : m = Len(sent) /\ m2 = Len(sent') /\ m <= m2 /\ (sent' # sent => m2 = m + 1)
  BY <1>1, SentKept
<1>3. phase' = "llm" => m2 > 0
  BY <1>2 DEF RequestStep, Awaits, RequestInv
<1>4. ASSUME NEW i \in 1..Len(log'), Concrete(log'[i]) PROVE log'[i].id \in 1..m2
  <2>1. CASE i <= Len(log)
    <3>1. i \in 1..Len(log) /\ Same(log[i], log'[i])
      BY <1>1, <2>1, Before DEF Shape
    <3>2. log'[i].id \in 1..m
      BY <1>2, <1>4, <3>1 DEF RequestInv, Same, Concrete
    <3> QED
      BY <1>2, <3>2
  <2>2. CASE i > Len(log)
    <3>1. i \in Fresh
      BY <1>1, <2>2, Sizes DEF Fresh
    <3>2. phase = "llm" /\ log'[i].id = m
      BY <1>2, <1>4, <3>1 DEF RequestStep, NoReplies, OneReply
    <3>3. m > 0
      BY <1>2, <3>2 DEF RequestInv
    <3> QED
      BY <1>2, <3>2, <3>3
  <2> QED
    BY <1>1, <2>1, <2>2, Sizes
<1> QED
  BY <1>2, <1>3, <1>4

LEMMA BoundIs ==
    ASSUME NEW b \in Seq(BoundT), NEW k \in 1..Len(b)
    PROVE  b[k].items \in Nat /\ b[k].lines \in Nat /\ b[k].pushes \in Nat
<1>1. PICK x \in BoundT : x = b[k]
  <2> HIDE DEF BoundT
  <2> QED
    BY ElementOfSeq
<1> QED
  BY <1>1 DEF BoundT

LEMMA BoundsNext ==
    ASSUME JhInv, JhInv', RequestInv, Shape, RequestStep
    PROVE  \E b \in Seq(BoundT) : BoundsOf(b)'
<1>1. PICK b \in Seq(BoundT) : BoundsOf(b)
  BY DEF RequestInv
<1>2. JhTypes /\ JhTypes'
  BY DEF JhInv
<1>3. PICK m \in Nat : m = Len(sent) /\ m = Len(b)
  BY <1>1, <1>2 DEF BoundsOf, JhTypes
<1>4. ASSUME NEW k \in 1..m
      PROVE  RequestAt(k, b[k].items, b[k].lines, b[k].pushes)' /\ b[k].items <= Len(log') /\ b[k].lines <= Len(console')
  <2>1. PICK n \in Nat, L \in Nat, p \in Nat : n = b[k].items /\ L = b[k].lines /\ p = b[k].pushes
    BY <1>3, BoundIs
  <2>2. RequestAt(k, n, L, p)
    BY <1>1, <1>3, <2>1 DEF BoundsOf
  <2>3. k \in 1..Len(sent)
    BY <1>3
  <2>4. RequestAt(k, n, L, p)'
    BY <2>2, <2>3, RequestKept
  <2>5. Within(n, L, p)'
    BY <2>4 DEF RequestAt
  <2> QED
    BY <2>1, <2>4, <2>5 DEF Within
<1>5. CASE sent' = sent
  BY <1>1, <1>3, <1>4, <1>5 DEF BoundsOf
<1>6. CASE sent' # sent
  <2>1. PICK n \in Nat, L \in Nat, p \in Nat : n = Len(log') /\ L = Len(console') /\ p = Len(pushes')
    BY <1>2 DEF JhTypes
  <2>2. PICK x \in BoundT : x.items = n /\ x.lines = L /\ x.pushes = p
    <3>1. [items |-> n, lines |-> L, pushes |-> p] \in BoundT
      BY DEF BoundT
    <3> QED
      BY <3>1
  <2>3. PICK c \in Seq(BoundT) : Len(c) = m + 1 /\ c[m + 1] = x /\ \A k \in 1..m : c[k] = b[k]
    <3> HIDE DEF BoundT
    <3>1. /\ Append(b, x) \in Seq(BoundT) /\ Len(Append(b, x)) = m + 1 /\ Append(b, x)[m + 1] = x
          /\ \A k \in 1..m : Append(b, x)[k] = b[k]
      BY <1>3
    <3> QED
      BY <3>1
  <2>4. m + 1 = Len(sent')
    BY <1>2, <1>3, <1>6, SentKept
  <2>5. RequestAt(m + 1, n, L, p)'
    <3>1. PICK k \in Nat : k = m + 1
      OBVIOUS
    <3> QED
      BY <1>6, <2>1, <2>4, <3>1, RequestNew
  <2>6. ASSUME NEW k \in 1..m + 1 PROVE RequestAt(k, c[k].items, c[k].lines, c[k].pushes)'
    <3>1. CASE k = m + 1
      BY <2>2, <2>3, <2>5, <3>1
    <3>2. CASE k # m + 1
      <4>1. k \in 1..m
        BY <3>2
      <4> QED
        BY <1>4, <2>3, <4>1
    <3> QED
      BY <3>1, <3>2
  <2>7. ASSUME NEW k \in 1..m PROVE c[k].items <= c[k + 1].items /\ c[k].lines <= c[k + 1].lines
    <3>1. CASE k = m
      BY <1>4, <2>1, <2>2, <2>3, <3>1
    <3>2. CASE k # m
      <4>1. k \in 1..m - 1 /\ k + 1 \in 1..m
        BY <3>2
      <4> QED
        BY <1>1, <1>3, <2>3, <4>1 DEF BoundsOf
    <3> QED
      BY <3>1, <3>2
  <2>8. (m + 1) - 1 = m
    OBVIOUS
  <2>9. BoundsOf(c)'
    BY <2>3, <2>4, <2>6, <2>7, <2>8 DEF BoundsOf
  <2> QED
    BY <2>9
<1> QED
  BY <1>5, <1>6

LEMMA RequestStart == Init => RequestInv
<1> SUFFICES ASSUME Init PROVE RequestInv
  OBVIOUS
<1>1. log = <<>> /\ sent = <<>> /\ phase \in {"request", "ready"}
  BY DEF Init
<1>2. Len(log) = 0 /\ Len(sent) = 0
  BY <1>1
<1>3. <<>> \in Seq(BoundT) /\ Len(<<>>) = 0
  OBVIOUS
<1>4. BoundsOf(<<>>)
  BY <1>2, <1>3 DEF BoundsOf
<1>5. ~(\E i : i \in 1..Len(log)) /\ phase # "llm"
  BY <1>1, <1>2
<1>6. \E b \in Seq(BoundT) : BoundsOf(b)
  BY <1>3, <1>4
<1> QED
  BY <1>5, <1>6 DEF RequestInv

LEMMA RequestNext == JhInv /\ RequestInv /\ [Next]_vars => RequestInv'
<1> SUFFICES ASSUME JhInv, RequestInv, [Next]_vars PROVE RequestInv'
  OBVIOUS
<1>1. JhInv'
  BY HistoryStep
<1>2. Shape /\ RequestStep
  BY StepShape, RequestSteps DEF JhInv
<1>3. \E b \in Seq(BoundT) : BoundsOf(b)'
  BY <1>1, <1>2, BoundsNext
<1> QED
  BY <1>2, <1>3, RepliesNext DEF RequestInv

LEMMA RequestInvariant == Spec => []RequestInv
  BY HistoryInvariant, RequestStart, RequestNext, PTL DEF Spec

(***************************************************************************)
(* What is left of a history when some messages and lines are cut.          *)
(***************************************************************************)
LEMMA CutSingle ==
    ASSUME NEW m \in MsgT, NEW users, NEW lines
    PROVE  Cut(<<m>>, users, lines) = CutOne(m, users, lines) /\ Cut(<<>>, users, lines) = <<>>
<1> HIDE DEF MsgT
<1>1. PICK f \in Maps(MsgT, Seq(CutT)) : f = CutMap(users, lines) /\ \A x \in MsgT : f[x] = CutOne(x, users, lines)
  BY CutMapIs
<1>2. Spread(f, <<>>) = <<>> /\ Spread(f, <<m>>) = f[m]
  BY SpreadOne
<1>3. <<>> \in Seq(MsgT) /\ <<m>> \in Seq(MsgT)
  OBVIOUS
<1>4. Cut(<<>>, users, lines) = Spread(f, <<>>) /\ Cut(<<m>>, users, lines) = Spread(f, <<m>>)
  BY <1>1, <1>3, CutIs
<1> QED
  BY <1>1, <1>2, <1>4

LEMMA CutNothing == ASSUME NEW users, NEW lines PROVE Cut(<<>>, users, lines) = <<>>
<1>1. "user" \in Roles /\ "user" \in Whats
  BY DEF Roles, Whats
<1>2. Msg("user", "user", <<>>) \in MsgT
  BY <1>1 DEF Msg, MsgT
<1> HIDE DEF MsgT
<1> QED
  BY <1>2, CutSingle

(* Output of which the same lines are left.                                 *)
Left(refs, lines) == Filtered(refs, Nat \ lines)
LEMMA CutOutput ==
    ASSUME NEW role \in Roles, NEW refs \in Seq(Nat), NEW users, NEW lines
    PROVE  Cut(<<Msg(role, "console", refs)>>, users, lines)
             = IF role = "user" /\ Left(refs, lines) = <<>> THEN <<>>
               ELSE <<Msg(role, "console", Left(refs, lines))>>
<1>1. PICK m : m = Msg(role, "console", refs)
  OBVIOUS
<1>2. m \in MsgT /\ m.refs = refs /\ m.role = role /\ m.what = "console"
  BY <1>1 DEF Msg, MsgT, Whats
<1>3. Rest(m, users, lines) = Left(refs, lines)
  BY <1>2 DEF Rest, Unwanted, Left
<1>4. [m EXCEPT !.refs = Left(refs, lines)] = Msg(role, "console", Left(refs, lines))
  BY <1>1 DEF Msg
<1>5. CutOne(m, users, lines) = IF m.role = "user" /\ Rest(m, users, lines) = <<>> THEN <<>>
                                ELSE <<[m EXCEPT !.refs = Rest(m, users, lines)]>>
  <2> HIDE DEF MsgT
  <2> QED
    BY <1>2, CutOneIs
<1>6. Cut(<<m>>, users, lines) = CutOne(m, users, lines)
  <2> HIDE DEF MsgT
  <2> QED
    BY <1>2, CutSingle
<1> QED
  BY <1>1, <1>2, <1>3, <1>4, <1>5, <1>6

LEMMA CutConsoleMessage ==
    ASSUME NEW start \in Nat, NEW end \in Nat, NEW users, NEW lines
    PROVE  /\ Cut(ConsoleMessage(start, end), users, lines)
                = IF Left(Numbers(start, end), lines) = <<>> THEN <<>>
                  ELSE <<Msg("user", "console", Left(Numbers(start, end), lines))>>
           /\ ConsoleMessage(start, end) \in Seq(MsgT)
<1>1. PICK refs \in Seq(Nat) : refs = Numbers(start, end)
  BY NumbersAre
<1>2. "user" \in Roles /\ "console" \in Whats
  BY DEF Roles, Whats
<1>3. Msg("user", "console", refs) \in MsgT
  BY <1>2 DEF Msg, MsgT
<1> HIDE DEF MsgT
<1>4. CASE end > start
  <2>1. ConsoleMessage(start, end) = <<Msg("user", "console", refs)>>
    BY <1>1, <1>4 DEF ConsoleMessage
  <2>2. <<Msg("user", "console", refs)>> \in Seq(MsgT)
    BY <1>3
  <2> QED
    BY <1>1, <1>2, <2>1, <2>2, CutOutput
<1>5. CASE ~(end > start)
  <2>1. ConsoleMessage(start, end) = <<>>
    BY <1>5 DEF ConsoleMessage
  <2>2. Len(refs) = 0
    <3>1. DOMAIN Numbers(start, end) = 1..end - start
      BY NumbersAre
    <3>2. 1..end - start = {}
      BY <1>5
    <3> QED
      BY <1>1, <3>1, <3>2
  <2>3. Left(refs, lines) = <<>>
    <3>1. \A k \in 1..Len(refs) : refs[k] \notin Nat \ lines
      BY <2>2
    <3> QED
      BY <3>1, FilteredNone DEF Left
  <2>4. <<>> \in Seq(MsgT)
    OBVIOUS
  <2> QED
    BY <1>1, <2>1, <2>3, <2>4, CutNothing
<1> QED
  BY <1>4, <1>5

PushedAt(pushed, start, end) == AsUser(PushedIn(pushed, start, end))
SameShown(start, end, end2, pushed, pushed2, users, lines) ==
    /\ Left(Numbers(start, end), lines) = Left(Numbers(start, end2), lines)
    /\ Cut(PushedAt(pushed, start, end), users, lines) = Cut(PushedAt(pushed2, start, end2), users, lines)

LEMMA PushedIs ==
    ASSUME NEW pushed \in Seq(PushT), NEW start, NEW end
    PROVE  PushedIn(pushed, start, end) \in Seq(PushT) /\ PushedAt(pushed, start, end) \in Seq(MsgT)
<1>1. {k \in DOMAIN pushed : start < pushed[k].at /\ pushed[k].at <= end} \subseteq DOMAIN pushed
  OBVIOUS
<1>2. PushedIn(pushed, start, end) \in Seq(PushT)
  BY <1>1, PickedIs DEF PushedIn
<1> QED
  BY <1>2, AsUserIs DEF PushedAt, NoOutput

CutsApart(a, b, users, lines) ==
    Cut(a \o b, users, lines) = Cut(a, users, lines) \o Cut(b, users, lines)

LEMMA CutApart ==
    ASSUME NEW a \in Seq(MsgT), NEW b \in Seq(MsgT), NEW users, NEW lines
    PROVE  CutsApart(a, b, users, lines)
<1> HIDE DEF MsgT
<1>1. PICK f \in Maps(MsgT, Seq(CutT)) : f = CutMap(users, lines)
  BY CutMapIs
<1>2. Spread(f, a) \in Seq(CutT) /\ Spread(f, a \o b) = Spread(f, a) \o Spread(f, b)
  BY SpreadJoined
<1>3. a \o b \in Seq(MsgT)
  BY ConcatProperties
<1> QED
  BY <1>1, <1>2, <1>3, CutIs DEF CutsApart

LEMMA CutType ==
    ASSUME NEW q \in Seq(MsgT), NEW users, NEW lines PROVE Cut(q, users, lines) \in Seq(MsgT)
<1> HIDE DEF MsgT
<1>1. PICK f \in Maps(MsgT, Seq(CutT)) : f = CutMap(users, lines)
  BY CutMapIs
<1>2. Spread(f, q) \in Seq(CutT) /\ Spread(f, q \o q) = Spread(f, q) \o Spread(f, q)
  BY SpreadJoined
<1>3. Spread(f, q) \in Seq(MsgT)
  BY <1>2 DEF CutT
<1> QED
  BY <1>1, <1>3, CutIs

LEMMA CutTriple ==
    ASSUME NEW a \in Seq(MsgT), NEW c \in Seq(MsgT), NEW c2 \in Seq(MsgT), NEW u \in Seq(MsgT),
           NEW u2 \in Seq(MsgT), NEW users, NEW lines,
           Cut(c, users, lines) = Cut(c2, users, lines), Cut(u, users, lines) = Cut(u2, users, lines)
    PROVE  Cut((a \o c) \o u, users, lines) = Cut((a \o c2) \o u2, users, lines)
<1> HIDE DEF MsgT
<1>1. PICK ac \in Seq(MsgT) : ac = a \o c
  BY ConcatProperties
<1>2. PICK ac2 \in Seq(MsgT) : ac2 = a \o c2
  BY ConcatProperties
<1>3. CutsApart(a, c, users, lines)
  BY CutApart
<1>4. CutsApart(a, c2, users, lines)
  BY CutApart
<1>5. CutsApart(ac, u, users, lines)
  BY CutApart
<1>6. CutsApart(ac2, u2, users, lines)
  BY CutApart
<1> QED
  BY <1>1, <1>2, <1>3, <1>4, <1>5, <1>6 DEF CutsApart

LEMMA CutExecution ==
    ASSUME JhTypes, NEW item \in Items, HasBlock(item), item.kind \in TurnKinds, NEW i \in Nat,
           NEW end \in Nat, NEW end2 \in Nat, NEW pushed \in Seq(PushT), NEW pushed2 \in Seq(PushT),
           NEW users, NEW lines, SameShown(item.pos, end, end2, pushed, pushed2, users, lines)
    PROVE  Cut(ExecutionMessages(item, i, end, pushed), users, lines)
             = Cut(ExecutionMessages(item, i, end2, pushed2), users, lines)
<1>1. PICK u \in Seq(MsgT), u2 \in Seq(MsgT) :
         u = PushedAt(pushed, item.pos, end) /\ u2 = PushedAt(pushed2, item.pos, end2)
  BY PushedIs
<1>2. Cut(u, users, lines) = Cut(u2, users, lines)
  BY <1>1 DEF SameShown
<1>3. PICK pos \in Nat : pos = item.pos
  BY DEF Items
<1>4. PICK refs \in Seq(Nat), refs2 \in Seq(Nat) : refs = Numbers(pos, end) /\ refs2 = Numbers(pos, end2)
  BY NumbersAre
<1>5. Left(refs, lines) = Left(refs2, lines)
  BY <1>3, <1>4 DEF SameShown
<1>6. CASE Hidden(item)
  BY <1>6 DEF ExecutionMessages
<1>7. ASSUME NEW a \in Seq(MsgT), NEW c \in Seq(MsgT), NEW c2 \in Seq(MsgT),
             ExecutionMessages(item, i, end, pushed) = (a \o c) \o u,
             ExecutionMessages(item, i, end2, pushed2) = (a \o c2) \o u2,
             Cut(c, users, lines) = Cut(c2, users, lines)
      PROVE  Cut(ExecutionMessages(item, i, end, pushed), users, lines)
               = Cut(ExecutionMessages(item, i, end2, pushed2), users, lines)
  BY <1>2, <1>7, CutTriple
<1>8. CASE ~Hidden(item) /\ DirectWarmup(item)
  <2>1. PICK one \in Seq(Nat) : one = <<i>>
    <3>1. <<i>> \in Seq(Nat)
      OBVIOUS
    <3> QED
      BY <3>1
  <2>2. PICK a, c, c2 : /\ a = <<Msg("assistant", "calls", one)>>
                        /\ c = <<Msg("tool", "console", refs)>> /\ c2 = <<Msg("tool", "console", refs2)>>
    OBVIOUS
  <2>3. {"assistant", "tool"} \subseteq Roles /\ "calls" \in Whats /\ "console" \in Whats
    BY DEF Roles, Whats
  <2>4. a \in Seq(MsgT) /\ c \in Seq(MsgT) /\ c2 \in Seq(MsgT)
    BY <2>2, <2>3, OneMessage
  <2>5. /\ ExecutionMessages(item, i, end, pushed) = (a \o c) \o u
        /\ ExecutionMessages(item, i, end2, pushed2) = (a \o c2) \o u2
    <3>1. /\ <<Msg("assistant", "calls", one), Msg("tool", "console", refs)>> = a \o c
          /\ <<Msg("assistant", "calls", one), Msg("tool", "console", refs2)>> = a \o c2
      BY <2>2
    <3> QED
      BY <1>1, <1>3, <1>4, <1>8, <2>1, <3>1 DEF ExecutionMessages, Synthetic, PushedAt
  <2>6. Cut(c, users, lines) = Cut(c2, users, lines)
    <3>1. PICK role \in Roles : role = "tool"
      BY <2>3
    <3>2. Cut(<<Msg(role, "console", refs)>>, users, lines)
            = IF role = "user" /\ Left(refs, lines) = <<>> THEN <<>>
              ELSE <<Msg(role, "console", Left(refs, lines))>>
      BY CutOutput
    <3>3. Cut(<<Msg(role, "console", refs2)>>, users, lines)
            = IF role = "user" /\ Left(refs2, lines) = <<>> THEN <<>>
              ELSE <<Msg(role, "console", Left(refs2, lines))>>
      BY CutOutput
    <3> QED
      BY <1>5, <2>2, <3>1, <3>2, <3>3
  <2> QED
    BY <1>7, <2>4, <2>5, <2>6
<1>9. CASE ~Hidden(item) /\ ~DirectWarmup(item)
  <2>1. PICK a \in Seq(MsgT) : a = AssistantMessages(item, i)
    BY AssistantMessagesAre DEF NoOutput
  <2>2. CASE Calls(item) = 0
    <3>1. PICK c \in Seq(MsgT), c2 \in Seq(MsgT) : c = ConsoleMessage(pos, end) /\ c2 = ConsoleMessage(pos, end2)
      BY CutConsoleMessage
    <3>2. Cut(c, users, lines) = Cut(c2, users, lines)
      BY <1>4, <1>5, <3>1, CutConsoleMessage, SMTT(30)
    <3>3. /\ ExecutionMessages(item, i, end, pushed) = (a \o c) \o u
          /\ ExecutionMessages(item, i, end2, pushed2) = (a \o c2) \o u2
      BY <1>1, <1>3, <1>9, <2>1, <2>2, <3>1 DEF ExecutionMessages, PushedAt
    <3> QED
      BY <1>7, <3>2, <3>3
  <2>3. CASE Calls(item) # 0
    <3>1. PICK c \in Seq(MsgT) : c = <<>>
      <4>1. <<>> \in Seq(MsgT)
        OBVIOUS
      <4> QED
        BY <4>1
    <3>2. /\ ExecutionMessages(item, i, end, pushed) = (a \o c) \o u
          /\ ExecutionMessages(item, i, end2, pushed2) = (a \o c) \o u2
      BY <1>1, <1>3, <1>9, <2>1, <2>3, <3>1 DEF ExecutionMessages, PushedAt
    <3> QED
      BY <1>7, <3>2
  <2> QED
    BY <2>2, <2>3
<1> QED
  BY <1>6, <1>8, <1>9

LEMMA CutMessages ==
    ASSUME JhTypes, NEW items, NEW others, NEW i \in Nat, NEW item \in Items, HasBlock(item),
           items[i] = item, others[i] = item,
           NEW end \in Nat, NEW end2 \in Nat, NEW pushed \in Seq(PushT), NEW pushed2 \in Seq(PushT),
           NEW users, NEW lines,
           item.kind \in TurnKinds => SameShown(item.pos, end, end2, pushed, pushed2, users, lines)
    PROVE  Cut(Messages(items, i, end, pushed), users, lines) = Cut(Messages(others, i, end2, pushed2), users, lines)
<1>1. CASE item.kind \in TurnKinds
  <2>1. item.kind \notin {"user", "post", "reminder", "subtask", "note", "difficulty"}
    BY <1>1 DEF TurnKinds
  <2>2. /\ Messages(items, i, end, pushed) = ExecutionMessages(item, i, end, pushed)
        /\ Messages(others, i, end2, pushed2) = ExecutionMessages(item, i, end2, pushed2)
    BY <2>1 DEF Messages
  <2> QED
    BY <1>1, <2>2, CutExecution
<1>2. CASE item.kind \notin TurnKinds
  <2>1. item.kind \in {"user", "post", "reminder", "subtask", "note", "difficulty"}
    BY <1>2 DEF Items, Kinds, BoundaryKinds, TurnKinds
  <2>2. Messages(items, i, end, pushed) = Messages(others, i, end2, pushed2)
    BY <2>1 DEF Messages
  <2> QED
    BY <2>2
<1> QED
  BY <1>1, <1>2

(* An item shows the same in two histories when its output does.            *)
ItemAlike(items, l1, p1, others, l2, p2, i, users, lines) ==
    /\ items[i] = others[i]
    /\ items[i].kind \in TurnKinds =>
          SameShown(items[i].pos, EndAt(items, l1, i), EndAt(others, l2, i), p1, p2, users, lines)

PartSame(items, l1, p1, others, l2, p2, i, users, lines) ==
    Cut(Part(items, l1, p1, i), users, lines) = Cut(Part(others, l2, p2, i), users, lines)
LEMMA CutPart ==
    ASSUME JhTypes, NEW items, AreItems(items), NEW others, AreItems(others), NEW l1 \in Nat, NEW l2 \in Nat,
           NEW p1 \in Seq(PushT), NEW p2 \in Seq(PushT), NEW i \in 1..Len(items), i \in 1..Len(others),
           NEW users, NEW lines, ItemAlike(items, l1, p1, others, l2, p2, i, users, lines)
    PROVE  PartSame(items, l1, p1, others, l2, p2, i, users, lines)
<1>1. PICK end \in Nat, end2 \in Nat : end = EndAt(items, l1, i) /\ end2 = EndAt(others, l2, i)
  <2>1. EndAt(items, l1, i) \in Nat
    BY EndIsNumber DEF AreItems
  <2>2. EndAt(others, l2, i) \in Nat
    BY EndIsNumber DEF AreItems
  <2> QED
    BY <2>1, <2>2
<1>2. PICK item \in Items : item = items[i] /\ HasBlock(item) /\ items[i] = others[i]
  BY ElementOfSeq DEF AreItems, ItemAlike
<1>3. Cut(Messages(items, i, end, p1), users, lines) = Cut(Messages(others, i, end2, p2), users, lines)
  <2>1. i \in Nat
    OBVIOUS
  <2>2. item.kind \in TurnKinds => SameShown(item.pos, end, end2, p1, p2, users, lines)
    BY <1>1, <1>2 DEF ItemAlike
  <2> HIDE DEF Items, PushT
  <2> QED
    BY <1>2, <2>1, <2>2, CutMessages
<1>4. Skipped(items, i) <=> Skipped(others, i)
  BY <1>2 DEF Skipped
<1> QED
  BY <1>1, <1>3, <1>4 DEF Part, PartSame

(* A history that is longer repeats what is left of the shorter one.        *)
Longer(ss, tt, users, lines) ==
    \E more \in Seq(MsgT) :
       /\ Cut(FlattenSeq(tt), users, lines) = Cut(FlattenSeq(ss), users, lines) \o more
       /\ (\A i \in Len(ss) + 1..Len(tt) : Cut(tt[i], users, lines) = <<>>) => more = <<>>
LEMMA CutLonger ==
    ASSUME NEW ss \in Seq(Seq(MsgT)), NEW tt \in Seq(Seq(MsgT)), NEW users, NEW lines, Len(ss) <= Len(tt),
           \A i \in 1..Len(ss) : Cut(ss[i], users, lines) = Cut(tt[i], users, lines)
    PROVE  Longer(ss, tt, users, lines)
<1> HIDE DEF MsgT
<1>1. PICK n \in Nat, m \in Nat : n = Len(ss) /\ m = Len(tt) /\ n <= m
  OBVIOUS
<1>2. PICK S : S = Seq(MsgT)
  OBVIOUS
<1>3. PICK a \in Seq(S) : /\ a = CutEach(ss, users, lines) /\ Len(a) = n
                          /\ \A i \in 1..n : a[i] = Cut(ss[i], users, lines)
  BY <1>1, <1>2, CutParts
<1>4. PICK b \in Seq(S) : /\ b = CutEach(tt, users, lines) /\ Len(b) = m
                          /\ \A i \in 1..m : b[i] = Cut(tt[i], users, lines)
  BY <1>1, <1>2, CutParts
<1>5. PICK c \in Seq(S), d \in Seq(S) :
         /\ c = SubSeq(b, 1, n) /\ d = TailOf(b, n) /\ b = c \o d /\ Len(d) = m - n
         /\ \A k \in 1..m - n : d[k] = b[n + k]
  <2>1. n <= Len(b)
    BY <1>1, <1>4
  <2>2. /\ SubSeq(b, 1, n) \in Seq(S) /\ TailOf(b, n) \in Seq(S)
        /\ b = SubSeq(b, 1, n) \o TailOf(b, n)
        /\ Len(TailOf(b, n)) = Len(b) - n
        /\ \A k \in 1..Len(b) - n : TailOf(b, n)[k] = b[n + k]
    BY <2>1, SplitAt
  <2>3. Len(b) - n = m - n
    BY <1>4
  <2> QED
    BY <2>2, <2>3
<1>6. c = a
  <2>1. Len(c) = n /\ \A i \in 1..n : c[i] = b[i]
    BY <1>1, <1>4, <1>5
  <2>2. \A i \in 1..n : c[i] = a[i]
    BY <1>1, <1>3, <1>4, <2>1
  <2> QED
    BY <1>3, <2>1, <2>2
<1>7. FlattenSeq(a \o d) = FlattenSeq(a) \o FlattenSeq(d)
  BY <1>2, FlattenJoined
<1>8. PICK more \in Seq(MsgT) : more = FlattenSeq(d)
  BY <1>2, FlattenType
<1>9. /\ Cut(FlattenSeq(ss), users, lines) = FlattenSeq(a) /\ Cut(FlattenSeq(tt), users, lines) = FlattenSeq(b)
  BY <1>3, <1>4, CutParts
<1>10. ASSUME \A i \in n + 1..m : Cut(tt[i], users, lines) = <<>> PROVE more = <<>>
  <2>1. \A k \in 1..m - n : n + k \in n + 1..m /\ n + k \in 1..m
    BY <1>1
  <2>2. \A k \in 1..m - n : d[k] = Cut(tt[n + k], users, lines)
    BY <1>4, <1>5, <2>1
  <2>3. \A k \in 1..m - n : d[k] = <<>>
    BY <1>10, <2>1, <2>2
  <2>4. \A k \in 1..Len(d) : d[k] = <<>>
    BY <1>5, <2>3
  <2> QED
    BY <1>2, <1>8, <2>4, FlattenBlank
<1> QED
  BY <1>1, <1>5, <1>6, <1>7, <1>8, <1>9, <1>10 DEF Longer

(***************************************************************************)
(* In a dialog a request repeats the one before it.                         *)
(***************************************************************************)
AfterIn(n, j) == {k \in j + 1..n : IsBoundary(log[k])}
EndIn(n, L, j) == IF AfterIn(n, j) = {} THEN L ELSE log[FirstOf(AfterIn(n, j))].pos

LEMMA EndInLog ==
    ASSUME JhTypes, NEW n \in Nat, n <= Len(log), NEW L, NEW j \in 1..n
    PROVE  EndAt(SubSeq(log, 1, n), L, j) = EndIn(n, L, j)
<1>1. PICK items : /\ items = SubSeq(log, 1, n) /\ Len(items) = n
                   /\ \A i \in 1..n : items[i] = log[i]
  <2>1. log \in Seq(Items)
    BY DEF JhTypes
  <2>2. /\ SubSeq(log, 1, n) \in Seq(Items) /\ Len(SubSeq(log, 1, n)) = n
        /\ SubSeq(log, 1, n) = [i \in 1..n |-> log[i]]
        /\ \A i \in 1..n : SubSeq(log, 1, n)[i] = log[i]
    <3> HIDE DEF Items
    <3> QED
      BY <2>1, PrefixIs
  <2> QED
    BY <2>2
<1>2. PICK after : after = {k \in j + 1..Len(items) : IsBoundary(items[k])}
  OBVIOUS
<1>3. after = AfterIn(n, j)
  <2>1. \A k \in j + 1..n : k \in 1..n
    OBVIOUS
  <2>2. \A k \in j + 1..n : items[k] = log[k]
    BY <1>1, <2>1
  <2> QED
    BY <1>1, <1>2, <2>2 DEF AfterIn
<1>4. EndAt(items, L, j) = IF after = {} THEN L ELSE items[FirstOf(after)].pos
  BY <1>2 DEF EndAt
<1>5. CASE after = {}
  BY <1>1, <1>3, <1>4, <1>5 DEF EndIn
<1>6. CASE after # {}
  <2>1. after \subseteq 1..n
    BY <1>3 DEF AfterIn
  <2>2. FirstOf(after) \in 1..n
    BY <1>6, <2>1, FirstOfIs
  <2>3. items[FirstOf(after)] = log[FirstOf(after)]
    BY <1>1, <2>2
  <2> QED
    BY <1>1, <1>3, <1>4, <1>6, <2>3 DEF EndIn
<1> QED
  BY <1>5, <1>6

LEMMA PrefixItems ==
    ASSUME JhTypes, BlockInv, NEW n \in Nat, n <= Len(log)
    PROVE  /\ AreItems(SubSeq(log, 1, n)) /\ Len(SubSeq(log, 1, n)) = n
           /\ \A i \in 1..n : SubSeq(log, 1, n)[i] = log[i]
<1>1. log \in Seq(Items) /\ Len(log) \in Nat /\ DOMAIN log = 1..Len(log)
  BY Sizes DEF JhTypes
<1>2. PICK items : /\ items = SubSeq(log, 1, n) /\ items \in Seq(Items) /\ Len(items) = n
                   /\ \A i \in 1..n : items[i] = log[i]
  <2>1. /\ SubSeq(log, 1, n) \in Seq(Items) /\ Len(SubSeq(log, 1, n)) = n
        /\ SubSeq(log, 1, n) = [i \in 1..n |-> log[i]]
        /\ \A i \in 1..n : SubSeq(log, 1, n)[i] = log[i]
    <3> HIDE DEF Items
    <3> QED
      BY <1>1, PrefixIs
  <2> QED
    BY <2>1
<1>3. ASSUME NEW i \in 1..n PROVE HasBlock(items[i])
  <2>1. i \in DOMAIN log
    BY <1>1
  <2>2. HasBlock(log[i]) /\ items[i] = log[i]
    BY <1>2, <2>1 DEF BlockInv
  <2> QED
    BY <2>2
<1> QED
  BY <1>2, <1>3 DEF AreItems

LEMMA NumberAt ==
    ASSUME NEW a \in Nat, NEW b \in Nat, a <= b, NEW q, q = Numbers(a, b)
    PROVE  Len(q) = b - a /\ \A k \in 1..b - a : q[k] = a + k
<1>1. q = [k \in 1..b - a |-> a + k] /\ b - a \in Nat
  BY DEF Numbers
<1> QED
  BY <1>1

LEMMA NumbersJoined ==
    ASSUME NEW a \in Nat, NEW b \in Nat, NEW c \in Nat, a <= b, b <= c
    PROVE  Numbers(a, c) = Numbers(a, b) \o Numbers(b, c)
<1>1. PICK p \in Seq(Nat), q \in Seq(Nat), s \in Seq(Nat) :
         p = Numbers(a, b) /\ q = Numbers(b, c) /\ s = Numbers(a, c)
  BY NumbersAre
<1>2. /\ Len(p) = b - a /\ \A k \in 1..b - a : p[k] = a + k
  BY <1>1, NumberAt, ZenonT(30)
<1>8. /\ Len(q) = c - b /\ \A k \in 1..c - b : q[k] = b + k
  BY <1>1, NumberAt, ZenonT(30)
<1>3. /\ Len(s) = c - a /\ \A k \in 1..c - a : s[k] = a + k
  <2>1. a <= c
    OBVIOUS
  <2> QED
    BY <1>1, <2>1, NumberAt, ZenonT(30)
<1>4. PICK r \in Seq(Nat) : r = p \o q /\ JoinAt(p, q, r)
  BY Joined
<1>5. Len(r) = c - a
  <2>1. (b - a) + (c - b) = c - a
    OBVIOUS
  <2> QED
    BY <1>2, <1>8, <1>4, <2>1 DEF JoinAt
<1>6. ASSUME NEW k \in 1..c - a PROVE r[k] = a + k
  <2>1. CASE k <= b - a
    BY <1>2, <1>4, <2>1 DEF JoinAt
  <2>2. CASE k > b - a
    <3>1. k - (b - a) \in 1..c - b /\ b + (k - (b - a)) = a + k /\ k \in (b - a) + 1..(b - a) + (c - b)
      BY <2>2
    <3>2. r[k] = q[k - (b - a)]
      BY <1>2, <1>8, <1>4, <3>1 DEF JoinAt
    <3>3. q[k - (b - a)] = b + (k - (b - a))
      BY <1>8, <3>1
    <3> QED
      BY <3>1, <3>2, <3>3
  <2> QED
    BY <2>1, <2>2
<1>7. r = s
  BY <1>3, <1>5, <1>6
<1> QED
  BY <1>1, <1>4, <1>7

(* Output that a failure may have followed is the same without it.          *)
LEMMA LeftSame ==
    ASSUME NEW a \in Nat, NEW b \in Nat, NEW c \in Nat, a <= b, b <= c, NEW lines,
           \A l \in b + 1..c : l \in lines
    PROVE  Left(Numbers(a, c), lines) = Left(Numbers(a, b), lines)
<1>1. PICK p \in Seq(Nat), q \in Seq(Nat) : p = Numbers(a, b) /\ q = Numbers(b, c)
  BY NumbersAre
<1>2. PICK G : G = Nat \ lines
  OBVIOUS
<1>3. Filtered(p, G) \in Seq(Nat) /\ FiltersApart(p, q, G)
  BY FilteredApart
<1>4. Filtered(q, G) = <<>>
  <2>1. \A k \in DOMAIN Numbers(b, c) : Numbers(b, c)[k] = b + k /\ b + k <= c
    BY NumbersAre
  <2>2. \A k \in 1..Len(q) : q[k] \notin G
    BY <1>1, <1>2, <2>1
  <2> QED
    BY <2>2, FilteredNone
<1>5. Numbers(a, c) = p \o q
  BY <1>1, NumbersJoined
<1>6. PICK f \in Seq(Nat) : f = Filtered(p, G)
  BY <1>3
<1>7. f \o <<>> = f
  BY ConcatEmptySeq
<1> QED
  BY <1>1, <1>2, <1>3, <1>4, <1>5, <1>6, <1>7 DEF Left, FiltersApart

OutputSame(n, L, n2, L2, j) ==
    Left(Numbers(log[j].pos, EndIn(n, L, j)), Failures) = Left(Numbers(log[j].pos, EndIn(n2, L2, j)), Failures)
LEMMA OutputGrows ==
    ASSUME JhTypes, PosInv, PrintInv, NEW n \in Nat, NEW L \in Nat, NEW n2 \in Nat, NEW L2 \in Nat,
           n <= n2, n2 <= Len(log), L <= L2, L2 <= Len(console),
           LogSplit(n, L), ConsoleSplit(n, L), LogSplit(n2, L2), ConsoleSplit(n2, L2),
           NEW j \in 1..n
    PROVE  OutputSame(n, L, n2, L2, j)
<1>1. /\ Len(log) \in Nat /\ DOMAIN log = 1..Len(log) /\ Len(console) \in Nat /\ DOMAIN console = 1..Len(console)
      /\ \A i \in 1..Len(log) : log[i].pos \in Nat
  <2>1. console \in Seq(Lines)
    BY DEF JhTypes
  <2>2. DOMAIN console = 1..Len(console)
    <3> HIDE DEF Lines
    <3> QED
      BY <2>1
  <2>3. \A i \in 1..Len(log) : log[i].pos \in Nat
    BY Sizes DEF Items
  <2> QED
    BY <2>2, <2>3, Sizes
<1>2. PICK B : B = AfterIn(n, j)
  OBVIOUS
<1>3. PICK C : C = AfterIn(n2, j)
  OBVIOUS
<1>4. B \subseteq C /\ C \subseteq 1..n2 /\ \A k \in C : k <= n => k \in B
  BY <1>2, <1>3 DEF AfterIn
<1>5. CASE B # {}
  <2>1. PICK f \in B : f = FirstOf(B) /\ \A k \in B : f <= k
    <3>1. B \subseteq 1..n
      BY <1>2 DEF AfterIn
    <3> QED
      BY <1>5, <3>1, FirstOfIs
  <2>2. PICK g \in C : g = FirstOf(C) /\ \A k \in C : g <= k
    BY <1>4, <1>5, FirstOfIs
  <2>3. f \in 1..n /\ g \in 1..n2
    BY <1>2, <1>4 DEF AfterIn
  <2>4. f \in C /\ g <= f /\ f <= n
    BY <1>4, <2>2, <2>3
  <2>5. g \in B
    BY <1>4, <2>3, <2>4
  <2>6. f = g
    BY <2>1, <2>3, <2>4, <2>5
  <2>7. C # {}
    BY <2>2
  <2> QED
    BY <1>2, <1>3, <1>5, <2>1, <2>2, <2>6, <2>7 DEF EndIn, OutputSame
<1>6. CASE B = {}
  <2>1. PICK pos \in Nat, end \in Nat : pos = log[j].pos /\ end = EndIn(n2, L2, j) /\ pos <= L
        /\ L <= end /\ end <= L2
        /\ \A k \in C : end <= log[k].pos
    <3>1. log[j].pos \in Nat /\ log[j].pos <= L
      <4>1. j \in 1..Len(log) /\ j <= n
        OBVIOUS
      <4> QED
        BY <1>1, <4>1 DEF LogSplit
    <3>2. CASE C = {}
      BY <1>3, <3>1, <3>2 DEF EndIn
    <3>3. CASE C # {}
      <4>1. PICK g \in C : g = FirstOf(C) /\ \A k \in C : g <= k
        BY <1>4, <3>3, FirstOfIs
      <4>2. g \in 1..Len(log) /\ g <= n2 /\ g > n
        BY <1>1, <1>4, <1>6, <4>1
      <4>3. log[g].kind # "user"
        BY <1>3, <4>1 DEF AfterIn, IsBoundary, BoundaryKinds
      <4>4. L <= log[g].pos
        BY <4>2, <4>3, <1>1 DEF LogSplit
      <4>5. log[g].pos <= L2
        BY <4>2 DEF LogSplit
      <4>6. ASSUME NEW k \in C PROVE log[g].pos <= log[k].pos
        <5>1. log[k].kind # "user"
          BY <1>3, <4>6 DEF AfterIn, IsBoundary, BoundaryKinds
        <5>2. g <= k /\ k \in DOMAIN log /\ g \in DOMAIN log
          BY <1>1, <1>4, <4>1, <4>2
        <5> QED
          BY <5>1, <5>2 DEF PosInv
      <4>7. EndIn(n2, L2, j) = log[g].pos
        BY <1>3, <3>3, <4>1 DEF EndIn
      <4> QED
        BY <1>1, <3>1, <4>2, <4>4, <4>5, <4>6, <4>7
    <3> QED
      BY <3>2, <3>3
  <2>2. EndIn(n, L, j) = L
    BY <1>2, <1>6 DEF EndIn
  <2>3. ASSUME NEW l \in L + 1..end PROVE l \in Failures
    <3>1. l \in 1..Len(console) /\ l \in DOMAIN console /\ l > L /\ l <= L2
      BY <1>1, <2>1
    <3>2. PICK w : w = console[l].by
      OBVIOUS
    <3>3. CASE w = 0
      BY <3>1, <3>2, <3>3 DEF Failures
    <3>4. CASE w # 0
      <4>1. /\ w \in DOMAIN log /\ log[w].pos < l
            /\ log[w].kind \in TurnKinds \/ log[w].kind = "reminder"
        BY <3>1, <3>2, <3>4 DEF PrintInv
      <4>2. w \in 1..Len(log)
        BY <1>1, <4>1
      <4>3. w > n
        BY <3>1, <3>2, <3>4 DEF ConsoleSplit
      <4>4. w <= n2
        BY <3>1, <3>2 DEF ConsoleSplit
      <4>5. IsBoundary(log[w])
        BY <4>1 DEF IsBoundary, BoundaryKinds, TurnKinds
      <4>6. w \in C
        BY <1>3, <4>2, <4>3, <4>4, <4>5 DEF AfterIn
      <4>7. end <= log[w].pos /\ log[w].pos \in Nat
        BY <1>1, <2>1, <4>2, <4>6
      <4> QED
        BY <2>1, <4>1, <4>7
    <3> QED
      BY <3>3, <3>4
  <2> QED
    BY <2>1, <2>2, <2>3, LeftSame, SMTT(30) DEF OutputSame
<1> QED
  BY <1>5, <1>6

LEMMA NoPushes ==
    ASSUME NEW start, NEW end
    PROVE  PushedIn(<<>>, start, end) = <<>>
<1>1. {k \in DOMAIN <<>> : start < <<>>[k].at /\ <<>>[k].at <= end} = {}
  OBVIOUS
<1>2. Cardinality({}) = 0 /\ 1..0 = {}
  BY FS_EmptySet
<1> QED
  BY <1>1, <1>2 DEF PushedIn, Picked

LEMMA PrefixOf ==
    ASSUME NEW T, NEW s \in Seq(T), NEW more \in Seq(T)
    PROVE  IsPrefix(s, s \o more)
<1>1. s \o more \in Seq(T) /\ JoinAt(s, more, s \o more)
  BY Joined
<1>2. PICK r \in Seq(T) : r = s \o more
  BY <1>1
<1>3. PICK n \in Nat : n = Len(s)
  OBVIOUS
<1>4. n <= Len(r) /\ \A i \in 1..n : s[i] = r[i]
  BY <1>1, <1>2, <1>3 DEF JoinAt
<1>5. SubSeq(s, 1, n) = SubSeq(r, 1, n)
  BY <1>3, <1>4, SamePrefix
<1> QED
  BY <1>2, <1>3, <1>4, <1>5 DEF IsPrefix

LEMMA PrefixOfThree ==
    ASSUME NEW T, NEW f \in Seq(T), NEW r \in Seq(T), NEW more \in Seq(T)
    PROVE  IsPrefix(f \o r, f \o (r \o more))
<1>1. PICK s \in Seq(T) : s = f \o r
  BY ConcatProperties
<1>2. IsPrefix(s, s \o more)
  BY PrefixOf
<1>3. (f \o r) \o more = f \o (r \o more)
  BY ConcatAssociative, SMTT(30)
<1> QED
  BY <1>1, <1>2, <1>3

LEMMA RequestsGrow == ASSUME JhInv, RequestInv PROVE RequestsOnlyGrow
<1> HIDE DEF MsgT, PushT
<1> SUFFICES ASSUME IsDialog, NEW k \in 1..Len(sent) - 1
             PROVE  IsPrefix(Cut(sent[k].msgs, {}, Failures), Cut(sent[k + 1].msgs, {}, Failures))
  BY DEF RequestsOnlyGrow
<1>1. JhTypes /\ BlockInv /\ PosInv /\ PrintInv
  BY DEF JhInv
<1>2. pushes = <<>>
  <2>1. pushes \in Seq(PushT) /\ Len(pushes) \in Nat
    BY <1>1 DEF JhTypes, PushT
  <2>2. ~(\E i : i \in DOMAIN pushes)
    BY <1>1 DEF PosInv
  <2> QED
    BY <2>1, <2>2
<1>3. PICK b \in Seq(BoundT) : BoundsOf(b)
  BY DEF RequestInv
<1>4. k \in 1..Len(b) /\ k + 1 \in 1..Len(b) /\ k \in 1..Len(b) - 1
  BY <1>1, <1>3, Sizes DEF BoundsOf
<1>5. PICK n \in Nat, L \in Nat, p \in Nat : n = b[k].items /\ L = b[k].lines /\ p = b[k].pushes /\ RequestAt(k, n, L, p)
  <2>1. b[k] \in BoundT
    <3> HIDE DEF BoundT
    <3> QED
      BY <1>4, ElementOfSeq
  <2> QED
    BY <1>3, <1>4, <2>1 DEF BoundT, BoundsOf
<1>6. PICK n2 \in Nat, L2 \in Nat, p2 \in Nat :
         n2 = b[k + 1].items /\ L2 = b[k + 1].lines /\ p2 = b[k + 1].pushes /\ RequestAt(k + 1, n2, L2, p2)
  <2>1. b[k + 1] \in BoundT
    <3> HIDE DEF BoundT
    <3> QED
      BY <1>4, ElementOfSeq
  <2> QED
    BY <1>3, <1>4, <2>1 DEF BoundT, BoundsOf
<1>7. n <= n2 /\ L <= L2
  BY <1>3, <1>4, <1>5, <1>6 DEF BoundsOf
<1>8. /\ n <= Len(log) /\ n2 <= Len(log) /\ L2 <= Len(console) /\ p = 0 /\ p2 = 0
      /\ LogSplit(n, L) /\ ConsoleSplit(n, L) /\ LogSplit(n2, L2) /\ ConsoleSplit(n2, L2)
  BY <1>2, <1>5, <1>6 DEF RequestAt, Within
<1>9. PICK items, others : items = SubSeq(log, 1, n) /\ others = SubSeq(log, 1, n2)
  OBVIOUS
<1>10. /\ AreItems(items) /\ Len(items) = n /\ \A i \in 1..n : items[i] = log[i]
       /\ AreItems(others) /\ Len(others) = n2 /\ \A i \in 1..n2 : others[i] = log[i]
  BY <1>1, <1>8, <1>9, PrefixItems
<1>11. sent[k].msgs = ChatHistory(items, L, <<>>, {}) /\ sent[k + 1].msgs = ChatHistory(others, L2, <<>>, {})
  <2>1. SubSeq(<<>>, 1, 0) = <<>>
    OBVIOUS
  <2>2. SubSeq(pushes, 1, p) = <<>> /\ SubSeq(pushes, 1, p2) = <<>>
    BY <1>2, <1>8, <2>1
  <2>3. WasSent(k, n, L, p) /\ WasSent(k + 1, n2, L2, p2)
    BY <1>5, <1>6 DEF RequestAt
  <2>4. sent[k].msgs = ChatHistory(SubSeq(log, 1, n), L, SubSeq(pushes, 1, p), {})
    BY <2>3 DEF WasSent
  <2>5. sent[k + 1].msgs = ChatHistory(SubSeq(log, 1, n2), L2, SubSeq(pushes, 1, p2), {})
    BY <2>3 DEF WasSent
  <2> QED
    BY <1>9, <2>2, <2>4, <2>5
<1>12. PICK none \in Seq(PushT) : none = <<>>
  <2>1. <<>> \in Seq(PushT)
    OBVIOUS
  <2> QED
    BY <2>1
<1>13. PICK first \in Seq(MsgT), rest \in Seq(MsgT) :
          /\ first = InitialMessages(items, none) /\ rest = FlattenSeq(Parts(items, L, none))
          /\ sent[k].msgs = first \o rest
  <2>1. /\ ChatHistory(items, L, none, {}) = HistoryOf(items, L, none)
        /\ InitialMessages(items, none) \in Seq(MsgT)
        /\ FlattenSeq(Parts(items, L, none)) \in Seq(MsgT)
    BY <1>1, <1>10, HistoryIs
  <2> QED
    BY <1>11, <1>12, <2>1 DEF HistoryOf
<1>14. PICK first2 \in Seq(MsgT), rest2 \in Seq(MsgT) :
          /\ first2 = InitialMessages(others, none) /\ rest2 = FlattenSeq(Parts(others, L2, none))
          /\ sent[k + 1].msgs = first2 \o rest2
  <2>1. /\ ChatHistory(others, L2, none, {}) = HistoryOf(others, L2, none)
        /\ InitialMessages(others, none) \in Seq(MsgT)
        /\ FlattenSeq(Parts(others, L2, none)) \in Seq(MsgT)
    BY <1>1, <1>10, HistoryIs
  <2> QED
    BY <1>11, <1>12, <2>1 DEF HistoryOf
<1>15. ASSUME NEW i \in 1..n
       PROVE  Cut(Part(items, L, none, i), {}, Failures) = Cut(Part(others, L2, none, i), {}, Failures)
  <2>1. i \in 1..Len(items) /\ i \in 1..Len(others) /\ items[i] = log[i] /\ others[i] = log[i]
    BY <1>7, <1>10
  <2>2. EndAt(items, L, i) = EndIn(n, L, i) /\ EndAt(others, L2, i) = EndIn(n2, L2, i)
    <3>1. i \in 1..n2
      BY <1>7
    <3> QED
      BY <1>1, <1>8, <1>9, <3>1, EndInLog
  <2>3. OutputSame(n, L, n2, L2, i)
    BY <1>1, <1>7, <1>8, OutputGrows
  <2>4. PushedAt(none, log[i].pos, EndIn(n, L, i)) = PushedAt(none, log[i].pos, EndIn(n2, L2, i))
    BY <1>12, NoPushes DEF PushedAt
  <2>5. ItemAlike(items, L, none, others, L2, none, i, {}, Failures)
    BY <2>1, <2>2, <2>3, <2>4 DEF ItemAlike, SameShown, OutputSame
  <2>6. PartSame(items, L, none, others, L2, none, i, {}, Failures)
    BY <1>1, <1>10, <2>1, <2>5, CutPart
  <2> QED
    BY <2>6 DEF PartSame
<1>16. PICK more \in Seq(MsgT) : Cut(rest2, {}, Failures) = Cut(rest, {}, Failures) \o more
  <2>1. PICK ss \in Seq(Seq(MsgT)) : /\ ss = Parts(items, L, none) /\ Len(ss) = n
                                     /\ \A i \in 1..n : ss[i] = Part(items, L, none, i)
    BY <1>1, <1>10, PartsAre
  <2>2. PICK tt \in Seq(Seq(MsgT)) : /\ tt = Parts(others, L2, none) /\ Len(tt) = n2
                                     /\ \A i \in 1..n2 : tt[i] = Part(others, L2, none, i)
    BY <1>1, <1>10, PartsAre
  <2>3. Len(ss) <= Len(tt) /\ \A i \in 1..Len(ss) : Cut(ss[i], {}, Failures) = Cut(tt[i], {}, Failures)
    BY <1>7, <1>15, <2>1, <2>2
  <2>4. Longer(ss, tt, {}, Failures)
    BY <2>3, CutLonger
  <2> QED
    BY <1>13, <1>14, <2>1, <2>2, <2>4 DEF Longer
<1>17. CutsApart(first, rest, {}, Failures) /\ CutsApart(first2, rest2, {}, Failures)
  BY CutApart
<1>18. PICK f \in Seq(MsgT), r \in Seq(MsgT), f2 \in Seq(MsgT) :
          f = Cut(first, {}, Failures) /\ r = Cut(rest, {}, Failures) /\ f2 = Cut(first2, {}, Failures)
  BY CutType
<1>19. Cut(sent[k].msgs, {}, Failures) = f \o r /\ Cut(sent[k + 1].msgs, {}, Failures) = f2 \o (r \o more)
  BY <1>13, <1>14, <1>16, <1>17, <1>18 DEF CutsApart
<1>20. CASE n > 0
  <2>1. first2 = first
    <3>2. Len(items) # 0 /\ Len(others) # 0 /\ 1 \in 1..n /\ 1 \in 1..n2
      BY <1>7, <1>10, <1>20
    <3>3. items[1] = log[1] /\ others[1] = log[1]
      BY <1>10, <3>2
    <3>4. Len(<<>>) = 0
      OBVIOUS
    <3>1. items # <<>> /\ others # <<>> /\ items[1] = others[1]
      BY <3>2, <3>3, <3>4
    <3> QED
      BY <1>13, <1>14, <3>1 DEF InitialMessages
  <2>2. IsPrefix(f \o r, f \o (r \o more))
    BY PrefixOfThree
  <2> QED
    BY <1>18, <1>19, <2>1, <2>2
<1>21. CASE n = 0
  <2>1. items = <<>>
    BY <1>10, <1>21
  <2>2. first = <<>>
    BY <1>12, <1>13, <2>1, NoPushes DEF InitialMessages
  <2>3. rest = <<>>
    BY <1>13, <2>1, FlattenNone DEF Parts
  <2>4. Cut(sent[k].msgs, {}, Failures) = <<>>
    BY <1>13, <2>2, <2>3, CutNothing
  <2>5. PICK a \in Seq(MsgT) : a = r \o more
    BY ConcatProperties
  <2>6. PICK t \in Seq(MsgT) : t = f2 \o a
    BY ConcatProperties
  <2>7. PICK s \in Seq(MsgT) : s = <<>>
    <3>1. <<>> \in Seq(MsgT)
      OBVIOUS
    <3> QED
      BY <3>1
  <2>8. IsPrefix(s, s \o t)
    BY PrefixOf
  <2>9. <<>> \o t = t
    BY ConcatEmptySeq
  <2> QED
    BY <1>19, <2>4, <2>5, <2>6, <2>7, <2>8, <2>9
<1> QED
  BY <1>20, <1>21

(***************************************************************************)
(* A request names no user message that it does not know.                   *)
(***************************************************************************)
Kept(q, users) == q \in Seq(MsgT) /\ Cut(q, users, {}) = q
Bare(m, users) ==
    /\ m.what = "user" => \A k \in 1..Len(m.refs) : m.refs[k] \notin users
    /\ m.role = "user" => m.refs # <<>>

LEMMA KeptJoined == ASSUME NEW a, NEW b, NEW users, Kept(a, users), Kept(b, users) PROVE Kept(a \o b, users)
<1> HIDE DEF MsgT
<1>1. a \in Seq(MsgT) /\ b \in Seq(MsgT)
  BY DEF Kept
<1>2. CutsApart(a, b, users, {})
  BY <1>1, CutApart
<1>3. a \o b \in Seq(MsgT)
  BY <1>1, ConcatProperties
<1> QED
  BY <1>2, <1>3 DEF CutsApart, Kept

LEMMA KeptNone == ASSUME NEW users PROVE Kept(<<>>, users)
<1>1. <<>> \in Seq(MsgT)
  OBVIOUS
<1> HIDE DEF MsgT
<1> QED
  BY <1>1, CutNothing DEF Kept

LEMMA KeptAll ==
    ASSUME NEW users, NEW q \in Seq(MsgT), \A k \in 1..Len(q) : Bare(q[k], users)
    PROVE  Kept(q, users)
<1>1. ASSUME NEW k \in 1..Len(q) PROVE CutOne(q[k], users, {}) = <<q[k]>>
  <2>1. PICK m \in MsgT : m = q[k]
    <3> HIDE DEF MsgT
    <3> QED
      BY ElementOfSeq
  <2>2. Bare(m, users)
    BY <2>1
  <2>3. \A j \in 1..Len(m.refs) : m.refs[j] \notin Unwanted(m, users, {})
    BY <2>2 DEF Bare, Unwanted
  <2>4. m.role = "user" => m.refs # <<>>
    BY <2>2 DEF Bare
  <2>5. CutOne(m, users, {}) = <<m>>
    <3> HIDE DEF MsgT
    <3> QED
      BY <2>3, <2>4, CutOneIs
  <2> QED
    BY <2>1, <2>5
<1> HIDE DEF MsgT
<1> QED
  BY <1>1, CutKeeps DEF Kept

LEMMA KeptOne ==
    ASSUME NEW users, NEW role \in Roles, NEW what \in Whats, NEW refs \in Seq(Nat),
           what = "user" => \A k \in 1..Len(refs) : refs[k] \notin users, role = "user" => refs # <<>>
    PROVE  Kept(<<Msg(role, what, refs)>>, users)
<1>1. PICK q : q = <<Msg(role, what, refs)>>
  OBVIOUS
<1>2. /\ q \in Seq(MsgT) /\ Len(q) = 1 /\ q[1] \in MsgT
      /\ q[1].role = role /\ q[1].what = what /\ q[1].refs = refs
  BY <1>1, OneMessage
<1>3. \A k \in 1..1 : k = 1
  OBVIOUS
<1>4. Bare(q[1], users)
  BY <1>2 DEF Bare
<1>5. \A k \in 1..Len(q) : Bare(q[k], users)
  BY <1>2, <1>3, <1>4
<1> HIDE DEF MsgT
<1> QED
  BY <1>1, <1>2, <1>5, KeptAll

LEMMA KeptOther ==
    ASSUME NEW users, NEW role \in Roles \ {"user"}, NEW what \in Whats \ {"user"}, NEW refs \in Seq(Nat)
    PROVE  Kept(<<Msg(role, what, refs)>>, users)
  BY KeptOne

LEMMA KeptSaid ==
    ASSUME JhTypes, NEW item \in Items, HasBlock(item), item.kind \in TurnKinds, NEW i \in Nat, NEW users
    PROVE  Kept(AssistantMessages(item, i), users)
<1>1. PICK s, t : s = Said(item, i) /\ t = ToolMessages(item, i)
  OBVIOUS
<1>2. AssistantMessages(item, i) = s \o t
  BY <1>1, SaidIs
<1>3. Kept(s, users)
  <2>1. <<i>> \in Seq(Nat)
    OBVIOUS
  <2>2. PICK refs \in Seq(Nat) : refs = <<i>>
    BY <2>1
  <2>3. "assistant" \in Roles \ {"user"} /\ "code" \in Whats \ {"user"} /\ "payload" \in Whats \ {"user"}
    BY DEF Roles, Whats
  <2>4. Kept(<<Msg("assistant", "code", refs)>>, users)
    BY <2>3, KeptOther
  <2>5. Kept(<<Msg("assistant", "payload", refs)>>, users)
    BY <2>3, KeptOther
  <2>6. \/ s = <<>> \/ s = <<Msg("assistant", "code", refs)>> \/ s = <<Msg("assistant", "payload", refs)>>
    BY <1>1, <2>2 DEF Said
  <2> QED
    BY <2>4, <2>5, <2>6, KeptNone
<1>4. Kept(t, users)
  <2>1. /\ t \in Seq(MsgT) /\ DOMAIN t = 1..Calls(item) /\ Calls(item) \in Nat
        /\ \A k \in 1..Calls(item) : t[k].role = "tool" /\ t[k].what \in Outcomes
    BY <1>1, ToolMessagesAre, BlockIs
  <2>2. "tool" # "user" /\ "user" \notin Outcomes
    BY DEF Outcomes
  <2>3. \A k \in 1..Len(t) : k \in 1..Calls(item)
    <3> HIDE DEF MsgT
    <3> QED
      BY <2>1
  <2>4. \A k \in 1..Len(t) : t[k].role # "user" /\ t[k].what # "user"
    BY <2>1, <2>2, <2>3
  <2>5. \A k \in 1..Len(t) : Bare(t[k], users)
    BY <2>4 DEF Bare
  <2> HIDE DEF MsgT
  <2> QED
    BY <2>1, <2>5, KeptAll
<1> QED
  BY <1>2, <1>3, <1>4, KeptJoined

LEMMA KeptPushed ==
    ASSUME NEW users, NEW values \in Seq(PushT), \A k \in 1..Len(values) : values[k].msg \notin users
    PROVE  Kept(AsUser(values), users)
<1>1. PICK n \in Nat : n = Len(values) /\ DOMAIN values = 1..n
  OBVIOUS
<1>2. PICK q \in Seq(MsgT) : q = AsUser(values) /\ Len(q) = n
  BY <1>1, AsUserIs DEF NoOutput
<1>3. \A k \in 1..n : q[k] = Msg("user", "user", <<values[k].msg>>)
  BY <1>1, <1>2 DEF AsUser
<1>4. ASSUME NEW k \in 1..n PROVE Bare(q[k], users)
  <2>1. PICK id : id = values[k].msg /\ id \notin users
    BY <1>1
  <2>2. PICK refs : refs = <<id>>
    OBVIOUS
  <2>5. Len(refs) = 1 /\ refs[1] = id /\ refs # <<>>
    BY <2>2
  <2>6. q[k] = Msg("user", "user", refs)
    BY <1>3, <2>1, <2>2
  <2>3. q[k].what = "user" /\ q[k].role = "user" /\ q[k].refs = refs
    BY <2>6 DEF Msg
  <2>4. \A j \in 1..1 : j = 1
    OBVIOUS
  <2> QED
    BY <2>1, <2>3, <2>4, <2>5 DEF Bare
<1> HIDE DEF MsgT
<1> QED
  BY <1>2, <1>4, KeptAll
LEMMA KeptSynthetic ==
    ASSUME NEW users, NEW i \in Nat, NEW what \in {"subtask", "note", "console"}, NEW refs \in Seq(Nat)
    PROVE  Kept(Synthetic(i, [what |-> what, refs |-> refs]), users)
<1>1. <<i>> \in Seq(Nat)
  OBVIOUS
<1>2. PICK one \in Seq(Nat) : one = <<i>>
  BY <1>1
<1>3. /\ "assistant" \in Roles \ {"user"} /\ "tool" \in Roles \ {"user"}
      /\ "calls" \in Whats \ {"user"} /\ what \in Whats \ {"user"}
  BY DEF Roles, Whats
<1>4. Kept(<<Msg("assistant", "calls", one)>>, users)
  BY <1>3, KeptOther
<1>5. Kept(<<Msg("tool", what, refs)>>, users)
  BY <1>3, KeptOther
<1>6. Synthetic(i, [what |-> what, refs |-> refs]) = <<Msg("assistant", "calls", one), Msg("tool", what, refs)>>
  BY <1>2 DEF Synthetic
<1>7. <<Msg("assistant", "calls", one), Msg("tool", what, refs)>>
        = <<Msg("assistant", "calls", one)>> \o <<Msg("tool", what, refs)>>
  OBVIOUS
<1> QED
  BY <1>4, <1>5, <1>6, <1>7, KeptJoined

LEMMA KeptConsole ==
    ASSUME NEW users, NEW start \in Nat, NEW end \in Nat
    PROVE  Kept(ConsoleMessage(start, end), users)
<1>1. PICK refs \in Seq(Nat) : refs = Numbers(start, end)
  BY NumbersAre
<1>2. CASE end > start
  <2>1. end \in start + 1..end
    BY <1>2
  <2>2. DOMAIN refs # {}
    BY <1>1, <2>1, NumbersAre
  <2>3. refs # <<>>
    BY <2>2
  <2>4. "user" \in Roles /\ "console" \in Whats /\ "console" # "user"
    BY DEF Roles, Whats
  <2>5. Kept(<<Msg("user", "console", refs)>>, users)
    BY <2>3, <2>4, KeptOne
  <2> QED
    BY <1>1, <1>2, <2>5 DEF ConsoleMessage
<1>3. CASE ~(end > start)
  BY <1>3, KeptNone DEF ConsoleMessage
<1> QED
  BY <1>2, <1>3

LEMMA KeptExecution ==
    ASSUME JhTypes, NEW item \in Items, HasBlock(item), item.kind \in TurnKinds, NEW i \in Nat, NEW users,
           NEW end \in Nat, NEW pushed, Kept(PushedAt(pushed, item.pos, end), users)
    PROVE  Kept(ExecutionMessages(item, i, end, pushed), users)
<1>1. PICK u : u = PushedAt(pushed, item.pos, end) /\ Kept(u, users)
  OBVIOUS
<1>2. PICK pos \in Nat : pos = item.pos
  BY DEF Items
<1>3. CASE Hidden(item)
  BY <1>3, KeptNone DEF ExecutionMessages
<1>4. CASE ~Hidden(item) /\ DirectWarmup(item)
  <2>1. PICK refs \in Seq(Nat) : refs = Numbers(pos, end)
    BY NumbersAre
  <2>2. PICK s : s = Synthetic(i, [what |-> "console", refs |-> refs])
    OBVIOUS
  <2>3. ExecutionMessages(item, i, end, pushed) = s \o u
    BY <1>1, <1>2, <1>4, <2>1, <2>2 DEF ExecutionMessages, PushedAt
  <2>4. "console" \in {"subtask", "note", "console"}
    OBVIOUS
  <2>5. Kept(s, users)
    BY <2>2, <2>4, KeptSynthetic
  <2> QED
    BY <1>1, <2>3, <2>5, KeptJoined
<1>5. CASE ~Hidden(item) /\ ~DirectWarmup(item)
  <2>1. PICK a : a = AssistantMessages(item, i) /\ Kept(a, users)
    BY KeptSaid
  <2>2. PICK c : c = (IF Calls(item) = 0 THEN ConsoleMessage(pos, end) ELSE <<>>) /\ Kept(c, users)
    BY KeptNone, KeptConsole
  <2>3. ExecutionMessages(item, i, end, pushed) = (a \o c) \o u
    BY <1>1, <1>2, <1>5, <2>1, <2>2 DEF ExecutionMessages, PushedAt
  <2>4. Kept(a \o c, users)
    BY <2>1, <2>2, KeptJoined
  <2> QED
    BY <1>1, <2>3, <2>4, KeptJoined
<1> QED
  BY <1>3, <1>4, <1>5

LEMMA KeptMessages ==
    ASSUME JhTypes, NEW items, NEW i \in Nat, NEW item \in Items, items[i] = item, HasBlock(item), NEW users,
           NEW end \in Nat, NEW pushed,
           item.kind = "user" => item.id \notin users,
           item.kind \in TurnKinds => Kept(PushedAt(pushed, item.pos, end), users)
    PROVE  Kept(Messages(items, i, end, pushed), users)
<1>1. <<i>> \in Seq(Nat) /\ item.id \in Nat /\ item.kind \in Kinds
  BY DEF Items
<1>2. PICK refs \in Seq(Nat) : refs = <<i>>
  BY <1>1
<1>3. /\ "user" \in Roles /\ "system" \in Roles \ {"user"} /\ "user" \in Whats
      /\ \A kind \in {"post", "reminder", "subtask"} : kind \in Whats \ {"user"}
  BY DEF Roles, Whats
<1>4. PICK q : q = Messages(items, i, end, pushed)
  OBVIOUS
<1>5. CASE item.kind = "user"
  <2>1. <<item.id>> \in Seq(Nat)
    BY <1>1
  <2>2. PICK id \in Seq(Nat) : id = <<item.id>>
    BY <2>1
  <2>3. Len(id) = 1 /\ id[1] = item.id /\ id # <<>>
    BY <2>2
  <2>4. \A k \in 1..1 : k = 1
    OBVIOUS
  <2>5. \A k \in 1..Len(id) : id[k] \notin users
    BY <1>5, <2>3, <2>4
  <2>6. Kept(<<Msg("user", "user", id)>>, users)
    BY <1>3, <2>3, <2>5, KeptOne
  <2> QED
    BY <1>5, <2>2, <2>6 DEF Messages
<1>6. CASE item.kind \in {"post", "reminder"}
  <2>1. PICK kind \in {"post", "reminder"} : kind = item.kind
    BY <1>6
  <2>2. q = <<Msg("system", kind, refs)>>
    BY <1>2, <1>4, <2>1 DEF Messages
  <2>3. Kept(<<Msg("system", kind, refs)>>, users)
    BY <1>3, KeptOther
  <2> QED
    BY <1>4, <2>2, <2>3
<1>7. CASE item.kind = "subtask"
  <2>1. PICK a, b : /\ a = <<Msg("system", "subtask", refs)>>
                    /\ b = IF item.results = <<>> THEN <<>>
                           ELSE Synthetic(i, [what |-> "subtask", refs |-> refs])
    OBVIOUS
  <2>2. q = a \o b
    BY <1>2, <1>4, <1>7, <2>1 DEF Messages
  <2>3. Kept(a, users)
    BY <1>3, <2>1, KeptOther
  <2>4. "subtask" \in {"subtask", "note", "console"}
    OBVIOUS
  <2>5. Kept(b, users)
    BY <2>1, <2>4, KeptNone, KeptSynthetic
  <2> QED
    BY <1>4, <2>2, <2>3, <2>5, KeptJoined
<1>8. CASE item.kind = "note"
  <2>1. q = Synthetic(i, [what |-> "note", refs |-> refs])
    BY <1>2, <1>4, <1>8 DEF Messages
  <2>2. "note" \in {"subtask", "note", "console"}
    OBVIOUS
  <2> QED
    BY <1>4, <2>1, <2>2, KeptSynthetic
<1>9. CASE item.kind = "difficulty"
  BY <1>9, KeptNone DEF Messages
<1>10. CASE item.kind \in TurnKinds
  <2>1. item.kind \notin {"user", "post", "reminder", "subtask", "note", "difficulty"}
    BY <1>10 DEF TurnKinds
  <2>2. q = ExecutionMessages(item, i, end, pushed)
    BY <1>4, <2>1 DEF Messages
  <2>3. Kept(ExecutionMessages(item, i, end, pushed), users)
    BY <1>10, KeptExecution
  <2> QED
    BY <1>4, <2>2, <2>3
<1> QED
  BY <1>1, <1>5, <1>6, <1>7, <1>8, <1>9, <1>10 DEF Kinds, BoundaryKinds, TurnKinds

At(start, end) == {x \in PushT : start < x.at /\ x.at <= end}
LEMMA PushedFiltered ==
    ASSUME NEW q \in Seq(PushT), NEW start, NEW end
    PROVE  PushedIn(q, start, end) = Filtered(q, At(start, end))
<1>1. \A k \in DOMAIN q : q[k] \in PushT
  <2> HIDE DEF PushT
  <2> QED
    BY ElementOfSeq
<1>2. {k \in DOMAIN q : start < q[k].at /\ q[k].at <= end} = {k \in DOMAIN q : q[k] \in At(start, end)}
  <2> HIDE DEF PushT
  <2> QED
    BY <1>1 DEF At
<1> QED
  BY <1>2 DEF PushedIn, Filtered

(* Messages pushed after a request come after those before it, wherever the *)
(* log is read.                                                             *)
Later(p, L, start, end, users) ==
    \E rest \in Seq(PushT) :
       /\ PushedIn(PushedIn(pushes, -1, L), start, end) = PushedIn(SubSeq(pushes, 1, p), start, end) \o rest
       /\ \A k \in 1..Len(rest) : rest[k].msg \in users
LEMMA PushedLater ==
    ASSUME JhTypes, NEW L \in Nat, NEW p \in Nat, p <= Len(pushes), PushesSplit(L, p), NEW users,
           \A j \in 1..Len(pushes) : j > p => pushes[j].msg \in users, NEW start, NEW end
    PROVE  Later(p, L, start, end, users)
<1>1. PICK q \in Seq(PushT) : q = pushes
  BY DEF JhTypes, PushT
<1>2. PICK n \in Nat : n = Len(q) /\ p <= n
  BY <1>1
<1>3. PICK a \in Seq(PushT), b \in Seq(PushT) :
         /\ a = SubSeq(q, 1, p) /\ b = TailOf(q, p) /\ q = a \o b /\ Len(b) = n - p
         /\ \A k \in 1..n - p : b[k] = q[p + k]
  <2> HIDE DEF PushT
  <2>1. /\ SubSeq(q, 1, p) \in Seq(PushT) /\ TailOf(q, p) \in Seq(PushT)
        /\ q = SubSeq(q, 1, p) \o TailOf(q, p)
        /\ Len(TailOf(q, p)) = Len(q) - p
        /\ \A k \in 1..Len(q) - p : TailOf(q, p)[k] = q[p + k]
    BY <1>2, SplitAt
  <2> QED
    BY <1>2, <2>1
<1>4. Len(a) = p /\ \A k \in 1..p : a[k] = q[k]
  <2> HIDE DEF PushT
  <2> QED
    BY <1>2, <1>3, PrefixIs
<1>5. PICK G, H : G = At(-1, L) /\ H = At(start, end)
  OBVIOUS
<1>6. Filtered(a, G) = a
  <2>1. ASSUME NEW k \in 1..Len(a) PROVE a[k] \in G
    <3>1. PICK x \in PushT : x = a[k]
      <4> HIDE DEF PushT
      <4> QED
        BY ElementOfSeq
    <3>2. k \in 1..Len(pushes) /\ k <= p /\ x = pushes[k]
      BY <1>1, <1>2, <1>4, <3>1
    <3>3. x.at <= L
      BY <3>2 DEF PushesSplit
    <3>4. x.at \in Nat
      BY DEF PushT
    <3>5. -1 < x.at
      BY <3>4
    <3> QED
      BY <1>5, <3>1, <3>3, <3>5 DEF At
  <2> HIDE DEF PushT
  <2> QED
    BY <2>1, FilteredAll
<1>7. PICK r \in Seq(PushT) : r = Filtered(b, G)
  <2> HIDE DEF PushT
  <2> QED
    BY FilteredFrom
<1>8. PICK rest \in Seq(PushT) : rest = Filtered(r, H)
  <2> HIDE DEF PushT
  <2> QED
    BY FilteredFrom
<1>9. FiltersApart(a, b, G) /\ FiltersApart(a, r, H)
  <2> HIDE DEF PushT
  <2> QED
    BY FilteredApart
<1>10. PushedIn(pushes, -1, L) = a \o r
  <2>1. PushedIn(q, -1, L) = Filtered(q, G)
    BY <1>5, PushedFiltered
  <2>2. Filtered(q, G) = Filtered(a, G) \o Filtered(b, G)
    BY <1>3, <1>9 DEF FiltersApart
  <2> QED
    BY <1>1, <1>6, <1>7, <2>1, <2>2
<1>11. PushedIn(a \o r, start, end) = PushedIn(a, start, end) \o rest
  <2>1. PICK ar \in Seq(PushT) : ar = a \o r
    <3> HIDE DEF PushT
    <3> QED
      BY ConcatProperties
  <2>2. PushedIn(ar, start, end) = Filtered(ar, H)
    BY <1>5, PushedFiltered
  <2>3. PushedIn(a, start, end) = Filtered(a, H)
    BY <1>5, PushedFiltered
  <2> QED
    BY <1>8, <1>9, <2>1, <2>2, <2>3 DEF FiltersApart
<1>12. ASSUME NEW k \in 1..Len(rest) PROVE rest[k].msg \in users
  <2>1. PICK j \in 1..Len(r) : rest[k] = r[j]
    <3>1. \A i \in 1..Len(Filtered(r, H)) :
             \E j \in 1..Len(r) : Filtered(r, H)[i] = r[j] /\ r[j] \in H
      <4> HIDE DEF PushT
      <4> QED
        BY FilteredFrom
    <3> QED
      BY <1>8, <3>1
  <2>2. PICK m \in 1..Len(b) : r[j] = b[m]
    <3> HIDE DEF PushT
    <3> QED
      BY <1>7, FilteredFrom
  <2>3. b[m] = pushes[p + m] /\ p + m \in 1..Len(pushes) /\ p + m > p
    BY <1>1, <1>2, <1>3, SMTT(30)
  <2> QED
    BY <2>1, <2>2, <2>3
<1> QED
  BY <1>1, <1>3, <1>10, <1>11, <1>12, ZenonT(30) DEF Later

AsUserMap == [x \in PushT |-> Msg("user", "user", <<x.msg>>)]
IdMap == [x \in PushT |-> x.msg]

LEMMA AsUserMaps ==
    /\ AsUserMap \in Maps(PushT, MsgT) /\ \A q \in Seq(PushT) : AsUser(q) = Each(AsUserMap, q)
    /\ IdMap \in Maps(PushT, Nat) /\ \A x \in PushT : IdMap[x] = x.msg
<1>1. ASSUME NEW x \in PushT PROVE Msg("user", "user", <<x.msg>>) \in MsgT /\ x.msg \in Nat
  <2>1. x.msg \in Nat
    BY DEF PushT
  <2>2. <<x.msg>> \in Seq(Nat)
    BY <2>1
  <2>3. PICK refs \in Seq(Nat) : refs = <<x.msg>>
    BY <2>2
  <2>4. "user" \in Roles /\ "user" \in Whats
    BY DEF Roles, Whats
  <2>5. Msg("user", "user", refs) \in MsgT
    BY <2>4, MsgMade
  <2> QED
    BY <2>1, <2>3, <2>5
<1> HIDE DEF PushT, MsgT
<1>2. AsUserMap \in Maps(PushT, MsgT) /\ IdMap \in Maps(PushT, Nat) /\ \A x \in PushT : IdMap[x] = x.msg
  BY <1>1 DEF AsUserMap, IdMap, Maps
<1>3. ASSUME NEW q \in Seq(PushT) PROVE AsUser(q) = Each(AsUserMap, q)
  <2>1. \A k \in DOMAIN q : q[k] \in PushT
    BY ElementOfSeq
  <2>2. \A k \in DOMAIN q : AsUserMap[q[k]] = Msg("user", "user", <<q[k].msg>>)
    BY <2>1 DEF AsUserMap
  <2> QED
    BY <2>2 DEF AsUser, Each
<1> QED
  BY <1>2, <1>3

LEMMA CutUser ==
    ASSUME NEW refs \in Seq(Nat), NEW users, NEW lines
    PROVE  /\ Msg("user", "user", refs) \in MsgT
           /\ CutOne(Msg("user", "user", refs), users, lines)
                = IF Left(refs, users) = <<>> THEN <<>> ELSE <<Msg("user", "user", Left(refs, users))>>
<1>1. "user" \in Roles /\ "user" \in Whats
  BY DEF Roles, Whats
<1>2. PICK m \in MsgT : m = Msg("user", "user", refs) /\ m.role = "user" /\ m.what = "user" /\ m.refs = refs
  BY <1>1, MsgMade
<1>3. Rest(m, users, lines) = Left(refs, users)
  BY <1>2 DEF Rest, Unwanted, Left
<1>4. [m EXCEPT !.refs = Left(refs, users)] = Msg("user", "user", Left(refs, users))
  BY <1>2 DEF Msg
<1>5. CutOne(m, users, lines) = IF m.role = "user" /\ Rest(m, users, lines) = <<>> THEN <<>>
                                ELSE <<[m EXCEPT !.refs = Rest(m, users, lines)]>>
  <2> HIDE DEF MsgT
  <2> QED
    BY CutOneIs
<1> QED
  BY <1>2, <1>3, <1>4, <1>5

(* What was pushed after a request is cut from it.                          *)
LEMMA PushedCut ==
    ASSUME JhTypes, NEW L \in Nat, NEW p \in Nat, p <= Len(pushes), NEW start, NEW end, NEW users,
           Later(p, L, start, end, users)
    PROVE  /\ PushedIn(pushes, -1, L) \in Seq(PushT) /\ SubSeq(pushes, 1, p) \in Seq(PushT)
           /\ Cut(PushedAt(PushedIn(pushes, -1, L), start, end), users, {})
                = Cut(PushedAt(SubSeq(pushes, 1, p), start, end), users, {})
<1>1. PICK all \in Seq(PushT) : all = pushes
  BY DEF JhTypes, PushT
<1>2. PICK q \in Seq(PushT), known \in Seq(PushT) : q = PushedIn(pushes, -1, L) /\ known = SubSeq(pushes, 1, p)
  <2>1. PushedIn(all, -1, L) \in Seq(PushT)
    BY PushedIs
  <2>2. SubSeq(all, 1, p) \in Seq(PushT)
    <3> HIDE DEF PushT
    <3> QED
      BY <1>1, PrefixIs
  <2> QED
    BY <1>1, <2>1, <2>2
<1>3. PICK rest \in Seq(PushT) :
         /\ PushedIn(q, start, end) = PushedIn(known, start, end) \o rest
         /\ \A k \in 1..Len(rest) : rest[k].msg \in users
  BY <1>2 DEF Later
<1>4. PICK a \in Seq(PushT) : a = PushedIn(known, start, end)
  BY PushedIs
<1>5. PICK b \in Seq(MsgT), c \in Seq(MsgT) : b = AsUser(a) /\ c = AsUser(rest) /\ Len(c) = Len(rest)
  BY AsUserIs DEF NoOutput
<1>6. AsUser(a \o rest) = b \o c
  <2> HIDE DEF PushT, MsgT
  <2>1. PICK f \in Maps(PushT, MsgT) : f = AsUserMap /\ \A s \in Seq(PushT) : AsUser(s) = Each(f, s)
    BY AsUserMaps
  <2>2. EachApart(f, a, rest)
    BY EachJoined
  <2>3. a \o rest \in Seq(PushT)
    BY ConcatProperties
  <2> QED
    BY <1>5, <2>1, <2>2, <2>3 DEF EachApart
<1>7. Cut(c, users, {}) = <<>>
  <2>1. ASSUME NEW k \in 1..Len(c) PROVE CutOne(c[k], users, {}) = <<>>
    <3>1. PICK x \in PushT : x = rest[k] /\ x.msg \in users
      <4>1. k \in 1..Len(rest)
        BY <1>5
      <4>2. rest[k] \in PushT
        <5> HIDE DEF PushT
        <5> QED
          BY <4>1, ElementOfSeq
      <4> QED
        BY <1>3, <4>1, <4>2
    <3>2. <<x.msg>> \in Seq(Nat)
      BY DEF PushT
    <3>3. PICK refs \in Seq(Nat) : refs = <<x.msg>>
      BY <3>2
    <3>4. c[k] = Msg("user", "user", refs)
      <4>1. k \in DOMAIN rest
        <5> HIDE DEF PushT
        <5> QED
          BY <1>5
      <4> QED
        BY <1>5, <3>1, <3>3, <4>1 DEF AsUser
    <3>5. Left(refs, users) = <<>>
      <4>1. Len(refs) = 1 /\ refs[1] = x.msg /\ \A j \in 1..1 : j = 1
        BY <3>3
      <4>2. \A j \in 1..Len(refs) : refs[j] \notin Nat \ users
        BY <3>1, <4>1
      <4> QED
        BY <4>2, FilteredNone DEF Left
    <3> QED
      BY <3>4, <3>5, CutUser
  <2> HIDE DEF MsgT
  <2> QED
    BY <2>1, CutDrops
<1>8. PICK d \in Seq(MsgT) : d = Cut(b, users, {})
  BY CutType
<1>9. d \o <<>> = d
  <2> HIDE DEF MsgT
  <2> QED
    BY ConcatEmptySeq
<1>10. CutsApart(b, c, users, {})
  BY CutApart
<1>11. Cut(AsUser(PushedIn(q, start, end)), users, {}) = d
  BY <1>3, <1>4, <1>6, <1>7, <1>8, <1>9, <1>10 DEF CutsApart
<1> QED
  BY <1>2, <1>4, <1>5, <1>8, <1>11 DEF PushedAt

FirstRef(items) == IF items # <<>> /\ items[1].kind = "user" THEN <<items[1].id>> ELSE <<>>
InitialRefs(items, pushed) == FirstRef(items) \o Each(IdMap, PushedIn(pushed, -1, 0))

LEMMA FirstRefIs == ASSUME NEW items \in Seq(Items) PROVE FirstRef(items) \in Seq(Nat)
<1>1. <<>> \in Seq(Nat)
  OBVIOUS
<1>2. CASE items # <<>>
  <2>1. 1 \in 1..Len(items)
    <3> HIDE DEF Items
    <3> QED
      BY <1>2, EmptySeq
  <2>2. PICK item \in Items : item = items[1]
    BY <2>1, ElementOfSeq
  <2>3. item.id \in Nat
    BY DEF Items
  <2>4. <<item.id>> \in Seq(Nat)
    BY <2>3
  <2> QED
    BY <1>1, <2>2, <2>4 DEF FirstRef
<1> QED
  BY <1>1, <1>2 DEF FirstRef

LEMMA IdsAre ==
    ASSUME NEW q \in Seq(PushT)
    PROVE  /\ Each(IdMap, q) \in Seq(Nat) /\ Len(Each(IdMap, q)) = Len(q)
           /\ \A k \in 1..Len(q) : Each(IdMap, q)[k] = q[k].msg
           /\ [k \in DOMAIN q |-> q[k].msg] = Each(IdMap, q)
<1> HIDE DEF PushT
<1>1. PICK f \in Maps(PushT, Nat) : f = IdMap /\ \A x \in PushT : f[x] = x.msg
  BY AsUserMaps
<1>2. Each(f, q) \in Seq(Nat) /\ Len(Each(f, q)) = Len(q) /\ \A k \in 1..Len(q) : Each(f, q)[k] = f[q[k]]
  BY EachIs
<1>3. \A k \in DOMAIN q : k \in 1..Len(q) /\ f[q[k]] = q[k].msg
  <2>1. \A k \in 1..Len(q) : q[k] \in PushT
    BY ElementOfSeq
  <2>2. DOMAIN q = 1..Len(q)
    OBVIOUS
  <2> QED
    BY <1>1, <2>1, <2>2
<1>4. \A k \in 1..Len(q) : f[q[k]] = q[k].msg
  BY <1>3
<1>5. [k \in DOMAIN q |-> q[k].msg] = Each(f, q)
  BY <1>3 DEF Each
<1> QED
  BY <1>1, <1>2, <1>4, <1>5

LEMMA CutInitial ==
    ASSUME NEW items \in Seq(Items), NEW pushed \in Seq(PushT), NEW users
    PROVE  /\ InitialRefs(items, pushed) \in Seq(Nat)
           /\ Cut(InitialMessages(items, pushed), users, {})
                = IF Left(InitialRefs(items, pushed), users) = <<>> THEN <<>>
                  ELSE <<Msg("user", "user", Left(InitialRefs(items, pushed), users))>>
           /\ InitialMessages(items, pushed) = IF InitialRefs(items, pushed) = <<>> THEN <<>>
                                               ELSE <<Msg("user", "user", InitialRefs(items, pushed))>>
<1>1. PICK early \in Seq(PushT) : early = PushedIn(pushed, -1, 0)
  BY PushedIs
<1>2. PICK first \in Seq(Nat), ids \in Seq(Nat) :
         first = FirstRef(items) /\ ids = Each(IdMap, early) /\ ids = [k \in DOMAIN early |-> early[k].msg]
  BY FirstRefIs, IdsAre
<1>3. PICK refs \in Seq(Nat) : refs = first \o ids
  BY ConcatProperties
<1>4. refs = InitialRefs(items, pushed)
  BY <1>1, <1>2, <1>3 DEF InitialRefs
<1>5. InitialMessages(items, pushed) = IF refs = <<>> THEN <<>> ELSE <<Msg("user", "user", refs)>>
  BY <1>1, <1>2, <1>3 DEF InitialMessages, FirstRef
<1>6. CASE refs = <<>>
  <2>1. ~(\E k : k \in 1..Len(refs))
    BY <1>6
  <2>2. Left(refs, users) = <<>>
    BY <2>1, FilteredNone DEF Left
  <2>3. Cut(<<>>, users, {}) = <<>>
    BY CutNothing
  <2> QED
    BY <1>4, <1>5, <1>6, <2>2, <2>3
<1>7. CASE refs # <<>>
  <2>1. PICK m \in MsgT : m = Msg("user", "user", refs)
    BY CutUser
  <2>2. Cut(<<m>>, users, {}) = CutOne(m, users, {})
    <3> HIDE DEF MsgT
    <3> QED
      BY CutSingle
  <2>3. CutOne(m, users, {}) = IF Left(refs, users) = <<>> THEN <<>> ELSE <<Msg("user", "user", Left(refs, users))>>
    BY <2>1, CutUser
  <2> QED
    BY <1>4, <1>5, <1>7, <2>1, <2>2, <2>3
<1> QED
  BY <1>6, <1>7

(* The messages before the first step are cut alike.                        *)
LEMMA InitialCut ==
    ASSUME JhTypes, NEW L \in Nat, NEW p \in Nat, p <= Len(pushes), NEW users, Later(p, L, -1, 0, users),
           NEW items \in Seq(Items), NEW others \in Seq(Items),
           Left(FirstRef(others), users) = Left(FirstRef(items), users)
    PROVE  Cut(InitialMessages(others, PushedIn(pushes, -1, L)), users, {})
             = Cut(InitialMessages(items, SubSeq(pushes, 1, p)), users, {})
<1>1. PICK q \in Seq(PushT), known \in Seq(PushT) : q = PushedIn(pushes, -1, L) /\ known = SubSeq(pushes, 1, p)
  BY PushedCut
<1>2. PICK rest \in Seq(PushT) :
         /\ PushedIn(q, -1, 0) = PushedIn(known, -1, 0) \o rest
         /\ \A k \in 1..Len(rest) : rest[k].msg \in users
  BY <1>1 DEF Later
<1>3. PICK a \in Seq(PushT) : a = PushedIn(known, -1, 0)
  BY PushedIs
<1>4. PICK f1 \in Seq(Nat), f2 \in Seq(Nat), b \in Seq(Nat), c \in Seq(Nat) :
         /\ f1 = FirstRef(items) /\ f2 = FirstRef(others) /\ b = Each(IdMap, a) /\ c = Each(IdMap, rest)
         /\ Len(c) = Len(rest) /\ \A k \in 1..Len(c) : c[k] \in users
  <2>1. FirstRef(items) \in Seq(Nat) /\ FirstRef(others) \in Seq(Nat)
    BY FirstRefIs
  <2>2. Each(IdMap, a) \in Seq(Nat) /\ Each(IdMap, rest) \in Seq(Nat)
    BY IdsAre
  <2>3. Len(Each(IdMap, rest)) = Len(rest) /\ \A k \in 1..Len(rest) : Each(IdMap, rest)[k] = rest[k].msg
    BY IdsAre
  <2>4. PICK c \in Seq(Nat) : c = Each(IdMap, rest)
    BY <2>2
  <2>5. Len(c) = Len(rest) /\ \A k \in 1..Len(rest) : c[k] = rest[k].msg
    BY <2>3, <2>4
  <2>6. Len(c) = Len(rest) /\ \A k \in 1..Len(c) : c[k] \in users
    BY <1>2, <2>5
  <2> QED
    BY <2>1, <2>2, <2>4, <2>6
<1>5. Each(IdMap, a \o rest) = b \o c
  <2> HIDE DEF PushT
  <2>1. PICK f \in Maps(PushT, Nat) : f = IdMap
    BY AsUserMaps
  <2>2. EachApart(f, a, rest)
    BY EachJoined
  <2> QED
    BY <1>4, <2>1, <2>2 DEF EachApart
<1>6. PICK G : G = Nat \ users
  OBVIOUS
<1>7. PICK bc \in Seq(Nat) : bc = b \o c
  BY ConcatProperties
<1>8. FiltersApart(f1, b, G) /\ FiltersApart(f2, bc, G) /\ FiltersApart(b, c, G)
  BY FilteredApart
<1>9. Filtered(c, G) = <<>>
  <2>1. \A k \in 1..Len(c) : c[k] \notin G
    BY <1>4, <1>6
  <2> QED
    BY <2>1, FilteredNone
<1>10. PICK fb \in Seq(Nat) : fb = Filtered(b, G) /\ fb \o <<>> = fb
  <2>1. Filtered(b, G) \in Seq(Nat)
    BY FilteredFrom
  <2> QED
    BY <2>1, ConcatEmptySeq
<1>11. Filtered(f2 \o bc, G) = Filtered(f1 \o b, G)
  BY <1>4, <1>6, <1>7, <1>8, <1>9, <1>10 DEF FiltersApart, Left
<1>12. Left(InitialRefs(others, q), users) = Left(InitialRefs(items, known), users)
  BY <1>2, <1>3, <1>4, <1>5, <1>6, <1>7, <1>11 DEF InitialRefs, Left
<1> QED
  <2>1. Cut(InitialMessages(others, q), users, {})
          = IF Left(InitialRefs(others, q), users) = <<>> THEN <<>>
            ELSE <<Msg("user", "user", Left(InitialRefs(others, q), users))>>
    BY CutInitial
  <2>2. Cut(InitialMessages(items, known), users, {})
          = IF Left(InitialRefs(items, known), users) = <<>> THEN <<>>
            ELSE <<Msg("user", "user", Left(InitialRefs(items, known), users))>>
    BY CutInitial
  <2> QED
    BY <1>1, <1>12, <2>1, <2>2

LEMMA KeptInitial ==
    ASSUME NEW items \in Seq(Items), NEW pushed \in Seq(PushT), NEW users,
           items # <<>> /\ items[1].kind = "user" => items[1].id \notin users,
           \A k \in 1..Len(pushed) : pushed[k].msg \notin users
    PROVE  Kept(InitialMessages(items, pushed), users)
<1>1. PICK early \in Seq(PushT) : early = PushedIn(pushed, -1, 0)
  BY PushedIs
<1>2. PICK first \in Seq(Nat), ids \in Seq(Nat) :
         /\ first = FirstRef(items) /\ ids = Each(IdMap, early) /\ Len(ids) = Len(early)
         /\ \A k \in 1..Len(ids) : ids[k] = early[k].msg
  BY FirstRefIs, IdsAre
<1>3. \A k \in 1..Len(ids) : ids[k] \notin users
  <2> SUFFICES ASSUME NEW k \in 1..Len(ids) PROVE early[k].msg \notin users
    BY <1>2
  <2>1. early = Filtered(pushed, At(-1, 0))
    BY <1>1, PushedFiltered
  <2>2. \A i \in 1..Len(Filtered(pushed, At(-1, 0))) :
           \E j \in 1..Len(pushed) : Filtered(pushed, At(-1, 0))[i] = pushed[j] /\ pushed[j] \in At(-1, 0)
    <3> HIDE DEF PushT
    <3> QED
      BY FilteredFrom
  <2>3. PICK j \in 1..Len(pushed) : early[k] = pushed[j]
    BY <1>2, <2>1, <2>2
  <2> QED
    BY <2>3
<1>4. \A k \in 1..Len(first) : first[k] \notin users
  <2>1. first = <<>> \/ (items # <<>> /\ items[1].kind = "user" /\ first = <<items[1].id>>)
    BY <1>2 DEF FirstRef
  <2>2. CASE first = <<>>
    BY <2>2
  <2>3. CASE first # <<>>
    <3>1. first = <<items[1].id>> /\ items[1].id \notin users
      BY <2>1, <2>3
    <3>2. Len(first) = 1 /\ first[1] = items[1].id /\ \A k \in 1..1 : k = 1
      BY <3>1
    <3> QED
      BY <3>1, <3>2
  <2> QED
    BY <2>2, <2>3
<1>5. PICK refs \in Seq(Nat) : refs = first \o ids /\ JoinAt(first, ids, refs)
  BY Joined
<1>6. ASSUME NEW k \in 1..Len(refs) PROVE refs[k] \notin users
  <2>1. PICK n \in Nat, m \in Nat : n = Len(first) /\ m = Len(ids) /\ Len(refs) = n + m
    BY <1>5 DEF JoinAt
  <2>2. CASE k <= n
    BY <1>4, <1>5, <2>1, <2>2 DEF JoinAt
  <2>3. CASE k > n
    <3>1. k - n \in 1..m /\ k \in n + 1..n + m
      BY <2>1, <2>3
    <3>2. refs[k] = ids[k - n]
      BY <1>5, <2>1, <3>1 DEF JoinAt
    <3> QED
      BY <1>3, <2>1, <3>1, <3>2
  <2> QED
    BY <2>2, <2>3
<1>7. refs = InitialRefs(items, pushed)
  BY <1>1, <1>2, <1>5 DEF InitialRefs
<1>8. CASE refs = <<>>
  BY <1>7, <1>8, CutInitial, KeptNone
<1>9. CASE refs # <<>>
  <2>1. "user" \in Roles /\ "user" \in Whats
    BY DEF Roles, Whats
  <2>2. Kept(<<Msg("user", "user", refs)>>, users)
    BY <1>6, <1>9, <2>1, KeptOne
  <2> QED
    BY <1>7, <1>9, <2>2, CutInitial
<1> QED
  BY <1>8, <1>9

(***************************************************************************)
(* A request is rebuilt from the log.                                       *)
(***************************************************************************)
Missed(n, p) == Known \ KnownAt(n, p)       \* what a request does not know

LEMMA MissedIs ==
    ASSUME JhTypes, NEW k, NEW n \in Nat, NEW L \in Nat, NEW p \in Nat, RequestAt(k, n, L, p)
    PROVE  /\ \A j \in 1..n : log[j].kind = "user" => log[j].id \notin Missed(n, p)
           /\ \A j \in 1..p : pushes[j].msg \notin Missed(n, p)
           /\ \A j \in 1..Len(log) : j > n /\ log[j].kind = "user" => log[j].id \in Missed(n, p)
           /\ \A j \in 1..Len(pushes) : j > p => pushes[j].msg \in Missed(n, p)
<1>1. Unknown(n, p) /\ n <= Len(log) /\ p <= Len(pushes)
  BY DEF RequestAt, Within
<1>2. /\ Len(log) \in Nat /\ DOMAIN log = 1..Len(log) /\ log \in Seq(Items) /\ pushes \in Seq(PushT)
      /\ Len(pushes) \in Nat
  BY Sizes DEF JhTypes, PushT
<1>3. DOMAIN pushes = 1..Len(pushes)
  <2> HIDE DEF PushT
  <2> QED
    BY <1>2
<1>4. PICK items : items = SubSeq(log, 1, n) /\ Len(items) = n /\ \A j \in 1..n : items[j] = log[j]
  <2>1. /\ SubSeq(log, 1, n) \in Seq(Items) /\ Len(SubSeq(log, 1, n)) = n
        /\ SubSeq(log, 1, n) = [j \in 1..n |-> log[j]]
        /\ \A j \in 1..n : SubSeq(log, 1, n)[j] = log[j]
    <3> HIDE DEF Items
    <3> QED
      BY <1>1, <1>2, PrefixIs
  <2> QED
    BY <2>1
<1>5. DOMAIN items = 1..n
  <2>1. items = [j \in 1..n |-> log[j]]
    <3> HIDE DEF Items
    <3> QED
      BY <1>1, <1>2, <1>4, PrefixIs
  <2> QED
    BY <2>1
<1>6. ASSUME NEW j \in 1..n, log[j].kind = "user" PROVE log[j].id \in KnownAt(n, p)
  BY <1>4, <1>5, <1>6 DEF KnownAt, UserMessages
<1>7. ASSUME NEW j \in 1..p PROVE pushes[j].msg \in KnownAt(n, p)
  BY DEF KnownAt
<1>8. ASSUME NEW j \in 1..Len(log), j > n, log[j].kind = "user" PROVE log[j].id \in Missed(n, p)
  <2>1. log[j].id \in Known
    BY <1>2, <1>8 DEF Known, UserMessages
  <2> QED
    BY <1>1, <1>8, <2>1 DEF Unknown, Missed
<1>9. ASSUME NEW j \in 1..Len(pushes), j > p PROVE pushes[j].msg \in Missed(n, p)
  <2>1. pushes[j].msg \in Known
    BY <1>3 DEF Known
  <2> QED
    BY <1>1, <1>9, <2>1 DEF Unknown, Missed
<1> QED
  BY <1>6, <1>7, <1>8, <1>9 DEF Missed

(* The pushes that a request showed, and those it is rebuilt from.          *)
PushesOf(p) == SubSeq(pushes, 1, p)
PushesTo(L) == PushedIn(pushes, -1, L)

Shown(L, p, start, end, users) ==
    /\ Cut(PushedAt(PushesTo(L), start, end), users, {}) = Cut(PushedAt(PushesOf(p), start, end), users, {})
    /\ Kept(PushedAt(PushesOf(p), start, end), users)
LEMMA MissedPushes ==
    ASSUME JhTypes, NEW k, NEW n \in Nat, NEW L \in Nat, NEW p \in Nat, RequestAt(k, n, L, p), NEW start, NEW end
    PROVE  /\ PushesTo(L) \in Seq(PushT) /\ PushesOf(p) \in Seq(PushT)
           /\ Later(p, L, start, end, Missed(n, p))
           /\ \A j \in 1..Len(PushesOf(p)) : PushesOf(p)[j].msg \notin Missed(n, p)
           /\ Shown(L, p, start, end, Missed(n, p))
<1>1. PICK users : users = Missed(n, p)
  OBVIOUS
<1>2. /\ p <= Len(pushes) /\ PushesSplit(L, p)
      /\ \A j \in 1..p : pushes[j].msg \notin users
      /\ \A j \in 1..Len(pushes) : j > p => pushes[j].msg \in users
  BY <1>1, MissedIs DEF RequestAt, Within
<1>3. Later(p, L, start, end, users)
  BY <1>2, PushedLater
<1>4. /\ PushedIn(pushes, -1, L) \in Seq(PushT) /\ SubSeq(pushes, 1, p) \in Seq(PushT)
      /\ Cut(PushedAt(PushedIn(pushes, -1, L), start, end), users, {})
           = Cut(PushedAt(SubSeq(pushes, 1, p), start, end), users, {})
  BY <1>2, <1>3, PushedCut
<1>5. PICK known \in Seq(PushT) : known = PushesOf(p)
  BY <1>4 DEF PushesOf
<1>6. ASSUME NEW j \in 1..Len(known) PROVE known[j].msg \notin users
  <2>1. pushes \in Seq(PushT)
    BY DEF JhTypes, PushT
  <2>2. /\ SubSeq(pushes, 1, p) \in Seq(PushT) /\ Len(SubSeq(pushes, 1, p)) = p
        /\ SubSeq(pushes, 1, p) = [m \in 1..p |-> pushes[m]]
        /\ \A m \in 1..p : SubSeq(pushes, 1, p)[m] = pushes[m]
    <3> HIDE DEF PushT
    <3> QED
      BY <1>2, <2>1, PrefixIs
  <2> QED
    BY <1>2, <1>5, <2>2 DEF PushesOf
<1>7. PICK shown \in Seq(PushT) : shown = PushedIn(known, start, end)
  BY PushedIs
<1>8. ASSUME NEW j \in 1..Len(shown) PROVE shown[j].msg \notin users
  <2>1. shown = Filtered(known, At(start, end))
    BY <1>7, PushedFiltered
  <2>2. \A i \in 1..Len(Filtered(known, At(start, end))) :
           \E m \in 1..Len(known) : Filtered(known, At(start, end))[i] = known[m] /\ known[m] \in At(start, end)
    <3> HIDE DEF PushT
    <3> QED
      BY FilteredFrom
  <2>3. PICK m \in 1..Len(known) : shown[j] = known[m]
    BY <2>1, <2>2
  <2> QED
    BY <1>6, <2>3
<1>9. Kept(AsUser(shown), users)
  BY <1>8, KeptPushed
<1> QED
  BY <1>1, <1>3, <1>4, <1>5, <1>6, <1>7, <1>9 DEF PushedAt, PushesOf, PushesTo, Shown

(* Between the request and its reply only user messages were logged.        *)
Rebuilds(n, L, i) ==
    i > n /\ i <= Len(log) /\ \A m \in n + 1..i - 1 : log[m].kind = "user"

LEMMA RebuiltEnd ==
    ASSUME JhTypes, NEW n \in Nat, NEW L \in Nat, NEW i \in Nat, Rebuilds(n, L, i), NEW j \in 1..n
    PROVE  EndIn(i - 1, L, j) = EndIn(n, L, j)
<1>1. AfterIn(i - 1, j) = AfterIn(n, j)
  <2>1. ASSUME NEW m \in AfterIn(i - 1, j) PROVE m \in AfterIn(n, j)
    <3>1. m \in j + 1..i - 1 /\ IsBoundary(log[m])
      BY DEF AfterIn
    <3>2. log[m].kind # "user"
      BY <3>1 DEF IsBoundary, BoundaryKinds
    <3>3. ~(m \in n + 1..i - 1)
      BY <3>2 DEF Rebuilds
    <3>4. m \in j + 1..n
      BY <3>1, <3>3
    <3> QED
      BY <3>1, <3>4 DEF AfterIn
  <2>2. ASSUME NEW m \in AfterIn(n, j) PROVE m \in AfterIn(i - 1, j)
    <3>1. m \in j + 1..n /\ IsBoundary(log[m])
      BY DEF AfterIn
    <3>2. m \in j + 1..i - 1
      BY <3>1 DEF Rebuilds
    <3> QED
      BY <3>1, <3>2 DEF AfterIn
  <2> QED
    BY <2>1, <2>2
<1> QED
  BY <1>1 DEF EndIn

PartRebuilt(n, L, p, i, j) ==
    /\ Cut(Part(SubSeq(log, 1, i - 1), L, PushesTo(L), j), Missed(n, p), {})
         = Cut(Part(SubSeq(log, 1, n), L, PushesOf(p), j), Missed(n, p), {})
    /\ Kept(Part(SubSeq(log, 1, n), L, PushesOf(p), j), Missed(n, p))

LEMMA RebuiltPart ==
    ASSUME JhInv, NEW k, NEW n \in Nat, NEW L \in Nat, NEW p \in Nat, RequestAt(k, n, L, p),
           NEW i \in Nat, Rebuilds(n, L, i), NEW j \in 1..n
    PROVE  PartRebuilt(n, L, p, i, j)
<1>1. JhTypes /\ BlockInv
  BY DEF JhInv
<1>2. PICK users : users = Missed(n, p)
  OBVIOUS
<1>3. i - 1 \in Nat /\ n <= i - 1 /\ i - 1 <= Len(log) /\ n <= Len(log) /\ Len(log) \in Nat /\ j \in 1..i - 1
  BY <1>1, Sizes DEF Rebuilds
<1>4. PICK items, others : items = SubSeq(log, 1, n) /\ others = SubSeq(log, 1, i - 1)
  OBVIOUS
<1>5. /\ AreItems(items) /\ Len(items) = n /\ items[j] = log[j]
      /\ AreItems(others) /\ Len(others) = i - 1 /\ others[j] = log[j]
  <2>1. AreItems(items) /\ Len(items) = n /\ \A m \in 1..n : items[m] = log[m]
    BY <1>1, <1>3, <1>4, PrefixItems
  <2>2. AreItems(others) /\ Len(others) = i - 1 /\ \A m \in 1..i - 1 : others[m] = log[m]
    BY <1>1, <1>3, <1>4, PrefixItems
  <2> QED
    BY <1>3, <2>1, <2>2
<1>6. PICK item \in Items : item = log[j] /\ HasBlock(item)
  <2>1. items \in Seq(Items) /\ HasBlock(items[j])
    BY <1>5 DEF AreItems
  <2>2. items[j] \in Items
    BY <1>5, <2>1, ElementOfSeq
  <2> QED
    BY <1>5, <2>1, <2>2
<1>7. PICK q \in Seq(PushT), known \in Seq(PushT) : q = PushesTo(L) /\ known = PushesOf(p)
  BY <1>1, MissedPushes
<1>8. PICK end \in Nat : end = EndAt(items, L, j) /\ end = EndAt(others, L, j)
  <2>1. EndAt(items, L, j) \in Nat
    BY <1>5, EndIsNumber DEF AreItems
  <2>2. EndAt(items, L, j) = EndIn(n, L, j)
    BY <1>1, <1>3, <1>4, EndInLog
  <2>3. EndAt(others, L, j) = EndIn(i - 1, L, j)
    BY <1>1, <1>3, <1>4, EndInLog
  <2>4. EndIn(i - 1, L, j) = EndIn(n, L, j)
    BY <1>1, RebuiltEnd
  <2> QED
    BY <2>1, <2>2, <2>3, <2>4
<1>9. /\ Cut(PushedAt(q, item.pos, end), users, {}) = Cut(PushedAt(known, item.pos, end), users, {})
      /\ Kept(PushedAt(known, item.pos, end), users)
  <2>1. PICK pos : pos = item.pos
    OBVIOUS
  <2>2. Shown(L, p, pos, end, users)
    BY <1>1, <1>2, MissedPushes
  <2> QED
    BY <1>7, <2>1, <2>2 DEF Shown
<1>10. Cut(Part(others, L, q, j), users, {}) = Cut(Part(items, L, known, j), users, {})
  <2>1. ItemAlike(others, L, q, items, L, known, j, users, {})
    BY <1>5, <1>6, <1>8, <1>9 DEF ItemAlike, SameShown
  <2>2. j \in 1..Len(others) /\ j \in 1..Len(items)
    BY <1>3, <1>5
  <2>3. PartSame(others, L, q, items, L, known, j, users, {})
    BY <1>1, <1>5, <2>1, <2>2, CutPart
  <2> QED
    BY <2>3 DEF PartSame
<1>11. Kept(Part(items, L, known, j), users)
  <2>1. item.kind = "user" => item.id \notin users
    BY <1>1, <1>2, <1>6, MissedIs
  <2>2. Kept(Messages(items, j, end, known), users)
    <3>1. j \in Nat /\ items[j] = item
      BY <1>5, <1>6
    <3> QED
      BY <1>1, <1>6, <1>9, <2>1, <3>1, KeptMessages
  <2> QED
    BY <1>8, <2>2, KeptNone DEF Part
<1> QED
  BY <1>2, <1>4, <1>7, <1>10, <1>11 DEF PartRebuilt

(* What was logged after the request is cut from its history.               *)
LEMMA RebuiltUser ==
    ASSUME JhInv, NEW k, NEW n \in Nat, NEW L \in Nat, NEW p \in Nat, RequestAt(k, n, L, p),
           NEW i \in Nat, Rebuilds(n, L, i), NEW j \in n + 1..i - 1
    PROVE  Cut(Part(SubSeq(log, 1, i - 1), L, PushesTo(L), j), Missed(n, p), {}) = <<>>
<1>1. JhTypes /\ BlockInv
  BY DEF JhInv
<1>2. PICK users : users = Missed(n, p)
  OBVIOUS
<1>3. i - 1 \in Nat /\ i - 1 <= Len(log) /\ j \in 1..i - 1 /\ j > n /\ Len(log) \in Nat /\ j \in 1..Len(log)
  BY <1>1, Sizes DEF Rebuilds
<1>4. PICK others : others = SubSeq(log, 1, i - 1)
  OBVIOUS
<1>5. AreItems(others) /\ Len(others) = i - 1 /\ others[j] = log[j]
  BY <1>1, <1>3, <1>4, PrefixItems
<1>6. log[j].kind = "user"
  BY DEF Rebuilds
<1>7. log[j].id \in users
  BY <1>1, <1>2, <1>3, <1>6, MissedIs
<1>8. PICK id \in Nat : id = log[j].id
  <2>1. log[j] \in Items
    BY <1>1, <1>3, Sizes
  <2> QED
    BY <2>1 DEF Items
<1>9. <<id>> \in Seq(Nat)
  OBVIOUS
<1>10. PICK refs \in Seq(Nat) : refs = <<id>>
  BY <1>9
<1>11. PICK m \in MsgT : m = Msg("user", "user", refs)
  BY CutUser
<1>12. Part(others, L, PushesTo(L), j) \in {<<>>, <<m>>}
  BY <1>5, <1>6, <1>8, <1>10, <1>11 DEF Part, Messages
<1>13. Cut(<<m>>, users, {}) = CutOne(m, users, {}) /\ Cut(<<>>, users, {}) = <<>>
  <2> HIDE DEF MsgT
  <2> QED
    BY CutSingle
<1>14. Left(refs, users) = <<>>
  <2>1. Len(refs) = 1 /\ refs[1] = id /\ \A a \in 1..1 : a = 1
    BY <1>10
  <2>2. \A a \in 1..Len(refs) : refs[a] \notin Nat \ users
    BY <1>7, <1>8, <2>1
  <2> QED
    BY <2>2, FilteredNone DEF Left
<1>15. CutOne(m, users, {}) = <<>>
  BY <1>11, <1>14, CutUser
<1> QED
  BY <1>2, <1>4, <1>12, <1>13, <1>15

LEMMA RebuiltParts ==
    ASSUME JhInv, NEW k, NEW n \in Nat, NEW L \in Nat, NEW p \in Nat, RequestAt(k, n, L, p),
           NEW i \in Nat, Rebuilds(n, L, i)
    PROVE  Cut(FlattenSeq(Parts(SubSeq(log, 1, i - 1), L, PushesTo(L))), Missed(n, p), {})
             = FlattenSeq(Parts(SubSeq(log, 1, n), L, PushesOf(p)))
<1> HIDE DEF MsgT, PushT
<1>1. JhTypes /\ BlockInv
  BY DEF JhInv
<1>2. PICK users : users = Missed(n, p)
  OBVIOUS
<1>3. i - 1 \in Nat /\ n <= i - 1 /\ i - 1 <= Len(log) /\ n <= Len(log) /\ Len(log) \in Nat
  BY <1>1, Sizes DEF Rebuilds
<1>4. PICK items, others : items = SubSeq(log, 1, n) /\ others = SubSeq(log, 1, i - 1)
  OBVIOUS
<1>5. AreItems(items) /\ Len(items) = n /\ AreItems(others) /\ Len(others) = i - 1
  BY <1>1, <1>3, <1>4, PrefixItems
<1>6. PICK q \in Seq(PushT), known \in Seq(PushT) : q = PushesTo(L) /\ known = PushesOf(p)
  BY <1>1, MissedPushes
<1>7. PICK ss \in Seq(Seq(MsgT)) : /\ ss = Parts(items, L, known) /\ Len(ss) = n
                                   /\ \A j \in 1..n : ss[j] = Part(items, L, known, j)
  BY <1>1, <1>5, PartsAre, SMTT(30)
<1>8. PICK tt \in Seq(Seq(MsgT)) : /\ tt = Parts(others, L, q) /\ Len(tt) = i - 1
                                   /\ \A j \in 1..i - 1 : tt[j] = Part(others, L, q, j)
  BY <1>1, <1>5, PartsAre, SMTT(30)
<1>9. ASSUME NEW j \in 1..n PROVE Cut(tt[j], users, {}) = Cut(ss[j], users, {}) /\ Cut(ss[j], users, {}) = ss[j]
  <2>1. /\ Cut(Part(others, L, q, j), users, {}) = Cut(Part(items, L, known, j), users, {})
        /\ Kept(Part(items, L, known, j), users)
    <3>1. PartRebuilt(n, L, p, i, j)
      BY RebuiltPart
    <3> QED
      BY <1>2, <1>4, <1>6, <3>1 DEF PartRebuilt
  <2>2. j \in 1..i - 1
    BY <1>3
  <2> QED
    BY <1>7, <1>8, <2>1, <2>2 DEF Kept
<1>10. ASSUME NEW j \in n + 1..i - 1 PROVE Cut(tt[j], users, {}) = <<>>
  <2>1. Cut(Part(others, L, q, j), users, {}) = <<>>
    BY <1>2, <1>4, <1>6, RebuiltUser
  <2>2. j \in 1..i - 1
    OBVIOUS
  <2> QED
    BY <1>8, <2>1, <2>2
<1>11. Longer(ss, tt, users, {})
  <2>1. Len(ss) <= Len(tt) /\ \A j \in 1..Len(ss) : Cut(ss[j], users, {}) = Cut(tt[j], users, {})
    BY <1>3, <1>7, <1>8, <1>9
  <2> QED
    BY <2>1, CutLonger
<1>12. PICK flat \in Seq(MsgT) : flat = FlattenSeq(ss)
  BY FlattenType
<1>13. Cut(flat, users, {}) = flat
  <2>1. PICK c : c = CutEach(ss, users, {})
    OBVIOUS
  <2>2. /\ Cut(FlattenSeq(ss), users, {}) = FlattenSeq(c)
        /\ c \in Seq(Seq(MsgT)) /\ Len(c) = Len(ss)
        /\ \A j \in 1..Len(ss) : c[j] = Cut(ss[j], users, {})
    BY <2>1, CutParts, SMTT(30)
  <2>3. \A j \in 1..Len(ss) : c[j] = ss[j]
    BY <1>7, <1>9, <2>2
  <2>4. c = ss
    <3>1. PICK S : S = Seq(MsgT)
      OBVIOUS
    <3>2. c \in Seq(S) /\ ss \in Seq(S)
      BY <2>2, <3>1
    <3> QED
      BY <2>2, <2>3, <3>2, SeqEqual
  <2> QED
    BY <1>12, <2>2, <2>4
<1>14. Cut(FlattenSeq(tt), users, {}) = flat
  <2>1. PICK more \in Seq(MsgT) :
          /\ Cut(FlattenSeq(tt), users, {}) = Cut(FlattenSeq(ss), users, {}) \o more
          /\ (\A j \in Len(ss) + 1..Len(tt) : Cut(tt[j], users, {}) = <<>>) => more = <<>>
    BY <1>11 DEF Longer
  <2>2. \A j \in Len(ss) + 1..Len(tt) : Cut(tt[j], users, {}) = <<>>
    BY <1>7, <1>8, <1>10
  <2>3. flat \o <<>> = flat
    BY ConcatEmptySeq
  <2> QED
    BY <1>12, <1>13, <2>1, <2>2, <2>3
<1> QED
  BY <1>2, <1>4, <1>6, <1>7, <1>8, <1>12, <1>14

LEMMA RebuiltInitial ==
    ASSUME JhInv, NEW k, NEW n \in Nat, NEW L \in Nat, NEW p \in Nat, RequestAt(k, n, L, p),
           NEW i \in Nat, Rebuilds(n, L, i)
    PROVE  Cut(InitialMessages(SubSeq(log, 1, i - 1), PushesTo(L)), Missed(n, p), {})
             = InitialMessages(SubSeq(log, 1, n), PushesOf(p))
<1>1. JhTypes /\ BlockInv
  BY DEF JhInv
<1>2. PICK users : users = Missed(n, p)
  OBVIOUS
<1>3. /\ i - 1 \in Nat /\ n <= i - 1 /\ i - 1 <= Len(log) /\ n <= Len(log) /\ Len(log) \in Nat
      /\ p <= Len(pushes)
  BY <1>1, Sizes DEF Rebuilds, RequestAt, Within
<1>4. PICK items, others : items = SubSeq(log, 1, n) /\ others = SubSeq(log, 1, i - 1)
  OBVIOUS
<1>5. /\ items \in Seq(Items) /\ Len(items) = n /\ \A j \in 1..n : items[j] = log[j]
      /\ others \in Seq(Items) /\ Len(others) = i - 1 /\ \A j \in 1..i - 1 : others[j] = log[j]
  <2>1. AreItems(items) /\ Len(items) = n /\ \A j \in 1..n : items[j] = log[j]
    BY <1>1, <1>3, <1>4, PrefixItems
  <2>2. AreItems(others) /\ Len(others) = i - 1 /\ \A j \in 1..i - 1 : others[j] = log[j]
    BY <1>1, <1>3, <1>4, PrefixItems
  <2> QED
    BY <2>1, <2>2 DEF AreItems
<1>6. /\ PushesOf(p) \in Seq(PushT) /\ Later(p, L, -1, 0, users)
      /\ \A j \in 1..Len(PushesOf(p)) : PushesOf(p)[j].msg \notin users
  BY <1>1, <1>2, MissedPushes
<1>7. n > 0 => /\ items # <<>> /\ others # <<>> /\ items[1] = log[1] /\ others[1] = log[1]
               /\ items[1].kind = "user" => items[1].id \notin users
  <2> SUFFICES ASSUME n > 0
               PROVE  /\ items # <<>> /\ others # <<>> /\ items[1] = log[1] /\ others[1] = log[1]
                      /\ items[1].kind = "user" => items[1].id \notin users
    OBVIOUS
  <2>1. 1 \in 1..n /\ 1 \in 1..i - 1 /\ Len(<<>>) = 0
    BY <1>3
  <2>2. items[1] = log[1] /\ others[1] = log[1]
    BY <1>5, <2>1
  <2>3. items # <<>> /\ others # <<>>
    BY <1>3, <1>5, <2>1
  <2>4. log[1].kind = "user" => log[1].id \notin users
    <3>1. \A j \in 1..n : log[j].kind = "user" => log[j].id \notin Missed(n, p)
      BY <1>1, MissedIs
    <3> QED
      BY <1>2, <2>1, <3>1
  <2> QED
    BY <2>2, <2>3, <2>4
<1>8. Left(FirstRef(others), users) = Left(FirstRef(items), users)
  <2>1. CASE n > 0
    BY <1>7, <2>1 DEF FirstRef
  <2>2. CASE n = 0
    <3>1. items = <<>>
      <4> HIDE DEF Items
      <4> QED
        BY <1>5, <2>2, EmptySeq
    <3>2. FirstRef(items) = <<>>
      BY <3>1 DEF FirstRef
    <3>3. <<>> \in Seq(Nat) /\ ~(\E j : j \in 1..Len(<<>>))
      OBVIOUS
    <3>4. Left(<<>>, users) = <<>>
      BY <3>3, FilteredNone DEF Left
    <3>5. CASE others = <<>>
      BY <3>1, <3>5 DEF FirstRef
    <3>6. CASE others # <<>>
      <4>1. 1 \in 1..i - 1 /\ 1 \in n + 1..i - 1 /\ 1 \in 1..Len(log) /\ 1 > n
        <5>1. Len(others) # 0
          <6> HIDE DEF Items
          <6> QED
            BY <1>5, <3>6, EmptySeq
        <5> QED
          BY <1>3, <1>5, <2>2, <5>1
      <4>2. log[1].kind = "user" /\ others[1] = log[1]
        BY <1>5, <4>1 DEF Rebuilds
      <4>3. log[1].id \in users
        BY <1>1, <1>2, <4>1, <4>2, MissedIs
      <4>4. PICK refs \in Seq(Nat) : refs = FirstRef(others)
        BY <1>5, FirstRefIs
      <4>5. refs = <<log[1].id>>
        BY <3>6, <4>2, <4>4 DEF FirstRef
      <4>6. Len(refs) = 1 /\ refs[1] = log[1].id /\ \A a \in 1..1 : a = 1
        BY <4>5
      <4>7. \A a \in 1..Len(refs) : refs[a] \notin Nat \ users
        BY <4>3, <4>6
      <4>8. Left(refs, users) = <<>>
        BY <4>7, FilteredNone DEF Left
      <4> QED
        BY <3>2, <3>4, <4>4, <4>8
    <3> QED
      BY <3>5, <3>6
  <2> QED
    BY <2>1, <2>2
<1>9. Cut(InitialMessages(others, PushedIn(pushes, -1, L)), users, {})
        = Cut(InitialMessages(items, SubSeq(pushes, 1, p)), users, {})
  BY <1>1, <1>3, <1>5, <1>6, <1>8, InitialCut
<1>10. Kept(InitialMessages(items, PushesOf(p)), users)
  <2>1. items # <<>> => n > 0
    <3> HIDE DEF Items
    <3> QED
      BY <1>5, EmptySeq
  <2>2. items # <<>> /\ items[1].kind = "user" => items[1].id \notin users
    BY <1>7, <2>1
  <2> QED
    BY <1>5, <1>6, <2>2, KeptInitial
<1> QED
  BY <1>2, <1>4, <1>9, <1>10 DEF Kept, PushesOf, PushesTo

LEMMA RequestsRebuilt == ASSUME JhInv, RequestInv PROVE OldRequestsAreReconstructed
<1> HIDE DEF MsgT, PushT
<1> SUFFICES ASSUME NEW i \in ConcreteItems
             PROVE  Cut(RequestData(i), Known \ sent[log[i].id].known, {}) = sent[log[i].id].msgs
  BY DEF OldRequestsAreReconstructed
<1>1. JhTypes /\ BlockInv
  BY DEF JhInv
<1>2. i \in 1..Len(log) /\ Concrete(log[i]) /\ Len(log) \in Nat
  BY <1>1, Sizes DEF ConcreteItems
<1>3. PICK k \in 1..Len(sent) : k = log[i].id
  BY <1>2 DEF RequestInv
<1>4. PICK b \in Seq(BoundT) : BoundsOf(b)
  BY DEF RequestInv
<1>5. PICK n \in Nat, L \in Nat, p \in Nat : RequestAt(k, n, L, p)
  <2>1. k \in 1..Len(b)
    BY <1>3, <1>4 DEF BoundsOf
  <2>2. b[k] \in BoundT
    <3> HIDE DEF BoundT
    <3> QED
      BY <2>1, ElementOfSeq
  <2> QED
    BY <1>4, <2>1, <2>2 DEF BoundT, BoundsOf
<1>6. i > n /\ log[i].pos = L /\ \A m \in n + 1..i - 1 : log[m].kind = "user"
  BY <1>2, <1>3, <1>5 DEF RequestAt, AnsweredAt
<1>7. i \in Nat /\ Rebuilds(n, L, i)
  BY <1>2, <1>6 DEF Rebuilds
<1>8. PICK items, others, q, known, users :
         /\ items = SubSeq(log, 1, n) /\ others = SubSeq(log, 1, i - 1)
         /\ q = PushesTo(L) /\ known = PushesOf(p) /\ users = Missed(n, p)
  OBVIOUS
<1>9. AreItems(items) /\ AreItems(others)
  <2>1. n \in Nat /\ n <= Len(log) /\ i - 1 \in Nat /\ i - 1 <= Len(log)
    BY <1>2, <1>6
  <2> QED
    BY <1>1, <1>8, <2>1, PrefixItems
<1>10. q \in Seq(PushT) /\ known \in Seq(PushT)
  BY <1>1, <1>5, <1>8, MissedPushes
<1>11. PICK a \in Seq(MsgT), c \in Seq(MsgT) :
          /\ a = InitialMessages(others, q) /\ c = FlattenSeq(Parts(others, L, q))
          /\ RequestData(i) = a \o c
  <2>1. /\ ChatHistory(others, L, q, {}) = HistoryOf(others, L, q)
        /\ InitialMessages(others, q) \in Seq(MsgT)
        /\ FlattenSeq(Parts(others, L, q)) \in Seq(MsgT)
    BY <1>1, <1>9, <1>10, HistoryIs
  <2>2. RequestData(i) = ChatHistory(others, L, q, {})
    BY <1>6, <1>8 DEF RequestData, PushesTo
  <2> QED
    BY <2>1, <2>2 DEF HistoryOf
<1>12. PICK d, e :
          /\ d = InitialMessages(items, known) /\ e = FlattenSeq(Parts(items, L, known))
          /\ sent[k].msgs = d \o e /\ sent[k].known = KnownAt(n, p)
  <2>1. /\ ChatHistory(items, L, known, {}) = HistoryOf(items, L, known)
        /\ InitialMessages(items, known) \in Seq(MsgT)
        /\ FlattenSeq(Parts(items, L, known)) \in Seq(MsgT)
    BY <1>1, <1>9, <1>10, HistoryIs
  <2>2. WasSent(k, n, L, p)
    BY <1>5 DEF RequestAt
  <2>3. sent[k].msgs = ChatHistory(SubSeq(log, 1, n), L, SubSeq(pushes, 1, p), {}) /\ sent[k].known = KnownAt(n, p)
    BY <2>2 DEF WasSent
  <2> QED
    BY <1>8, <2>1, <2>3 DEF HistoryOf, PushesOf
<1>13. CutsApart(a, c, users, {})
  BY CutApart
<1>14. Cut(a, users, {}) = d
  BY <1>5, <1>7, <1>8, <1>11, <1>12, RebuiltInitial
<1>15. Cut(c, users, {}) = e
  BY <1>5, <1>7, <1>8, <1>11, <1>12, RebuiltParts
<1> QED
  BY <1>3, <1>8, <1>11, <1>12, <1>13, <1>14, <1>15 DEF CutsApart, Missed

(* job_history.py: what an LLM was sent is repeated by later requests and is *)
(* what get_request_data rebuilds from the log of a job.                     *)
THEOREM RequestsReproduced == Spec => []RequestsAreReproduced
<1>1. JhInv /\ RequestInv => RequestsAreReproduced
  BY RequestsGrow, RequestsRebuilt DEF RequestsAreReproduced
<1> QED
  BY <1>1, HistoryInvariant, RequestInvariant, PTL

(***************************************************************************)
(* Compaction: summaries in place of ranges of the history.                 *)
(***************************************************************************)
(* q lists the summaries of A by their positions.                           *)
Sorted(q, A) ==
    /\ q \in Seq(A)
    /\ \A i, k \in 1..Len(q) : i < k => q[i].pos < q[k].pos
    /\ \A s \in A : \E k \in 1..Len(q) : q[k] = s
LEMMA InOrderIs ==
    ASSUME NEW n \in Nat, NEW A, PositionsOf(A) \subseteq 1..n, OneEach(A)
    PROVE  Sorted(InOrder(A), A)
<1> DEFINE at == PositionsOf(A)
           Low(x) == {t \in A : t.pos < x}
           Place(k) == CHOOSE s \in A : Cardinality(Low(s.pos)) = k - 1
<1>1. IsFiniteSet(at) /\ at \subseteq 1..n
  BY FS_Interval, FS_Subset, 1 \in Int, n \in Int
<1>2. IsFiniteSet(A) /\ Cardinality(A) = Cardinality(at) /\ Cardinality(at) \in Nat
  BY <1>1, CountedByPosition, FS_CardinalityType
<1>3. PICK N \in Nat : N = Cardinality(A) /\ N = Cardinality(at)
  BY <1>2
<1>4. ASSUME NEW s \in A
      PROVE  s.pos \in at /\ s.pos \in Nat /\ Cardinality(Low(s.pos)) \in Nat /\ RankIn(at, s.pos) = Cardinality(Low(s.pos)) + 1
  <2>1. PICK x \in at : x = s.pos
    BY DEF PositionsOf
  <2>2. x \in Nat /\ \A y \in at : y \in Nat
    BY <1>1
  <2>3. PICK B : B = PositionsOf(Low(x))
    OBVIOUS
  <2>4. B = {y \in at : y < x}
    BY <2>3 DEF PositionsOf
  <2>5. IsFiniteSet(B) /\ Cardinality(B) \in Nat
    <3>1. B \subseteq at
      BY <2>4
    <3> QED
      BY <1>1, <3>1, FS_Subset, FS_CardinalityType
  <2>6. Cardinality(Low(x)) = Cardinality(B)
    <3>1. OneEach(Low(x))
      BY DEF OneEach
    <3> HIDE DEF Low
    <3> QED
      BY <2>3, <2>5, <3>1, CountedByPosition
  <2>7. {y \in at : y <= x} = B \cup {x} /\ x \notin B
    <3>1. \A y \in at : y <= x <=> (y < x \/ y = x)
      BY <2>2
    <3>2. ~(x < x)
      BY <2>2
    <3> QED
      BY <2>4, <3>1, <3>2
  <2>8. Cardinality(B \cup {x}) = Cardinality(B) + 1
    BY <2>5, <2>7, FS_AddElement
  <2> HIDE DEF at, Low
  <2> QED
    BY <2>1, <2>2, <2>5, <2>6, <2>7, <2>8 DEF RankIn
<1>5. PICK q : q = InOrder(A)
  OBVIOUS
<1>6. q = [k \in 1..N |-> Place(k)]
  BY <1>3, <1>5 DEF InOrder
<1>7. ASSUME NEW k \in 1..N PROVE q[k] \in A /\ RankIn(at, q[k].pos) = k
  <2>1. PICK x \in at : RankIn(at, x) = k
    BY <1>1, <1>3, RankedNumber
  <2>2. PICK s \in A : s.pos = x
    BY DEF PositionsOf
  <2>3. Cardinality(Low(s.pos)) = k - 1
    <3> HIDE DEF at, Low
    <3> QED
      BY <1>4, <2>1, <2>2
  <2>4. q[k] \in A /\ Cardinality(Low(q[k].pos)) = k - 1
    BY <1>6, <2>3
  <2>5. RankIn(at, q[k].pos) = (k - 1) + 1
    <3> HIDE DEF at, Low
    <3> QED
      BY <1>4, <2>4
  <2> QED
    BY <2>4, <2>5
<1>8. q \in Seq(A) /\ Len(q) = N
  <2>1. q = [k \in 1..N |-> q[k]]
    <3> HIDE DEF Place
    <3> QED
      BY <1>6
  <2>2. \A k \in 1..N : q[k] \in A
    BY <1>7
  <2> QED
    BY <2>1, <2>2
<1>9. \A x, y \in at : x < y => RankIn(at, x) < RankIn(at, y)
  BY <1>1, RankGrows DEF RankIn
<1>10. ASSUME NEW i \in 1..N, NEW k \in 1..N, i < k PROVE q[i].pos < q[k].pos
  <2>1. PICK x, y \in at : x = q[i].pos /\ y = q[k].pos /\ x \in Nat /\ y \in Nat
    BY <1>4, <1>7
  <2>2. RankIn(at, x) = i /\ RankIn(at, y) = k
    BY <1>7, <2>1
  <2> HIDE DEF at
  <2>3. x # y /\ ~(y < x)
    BY <1>9, <2>2, <1>10
  <2> QED
    BY <2>1, <2>3
<1>11. ASSUME NEW s \in A PROVE \E k \in 1..N : q[k] = s
  <2>1. s.pos \in at /\ s.pos \in Nat
    BY <1>4
  <2>2. PICK x \in at : x = s.pos
    BY <2>1
  <2>3. PICK k \in Nat : k = RankIn(at, x) /\ k \in 1..N
    <3>1. PICK U : U = {y \in at : y <= x}
      OBVIOUS
    <3>2. U \subseteq at
      BY <3>1
    <3> HIDE DEF at, Low
    <3>3. Cardinality(U) <= N
      BY <1>1, <1>3, <3>2, FS_Subset
    <3>4. RankIn(at, x) = Cardinality(U)
      BY <3>1 DEF RankIn
    <3>5. RankIn(at, x) \in Nat /\ RankIn(at, x) >= 1
      BY <1>4, <2>2
    <3>6. RankIn(at, x) \in 1..N
      BY <3>3, <3>4, <3>5
    <3> QED
      BY <3>6
  <2>4. q[k] \in A /\ RankIn(at, q[k].pos) = k
    BY <1>7, <2>3
  <2>5. PICK y \in at : y = q[k].pos /\ y \in Nat
    BY <1>4, <2>4
  <2> HIDE DEF at
  <2>6. ~(x < y) /\ ~(y < x)
    BY <1>9, <2>3, <2>4, <2>5
  <2>7. x = y
    BY <2>1, <2>2, <2>5, <2>6
  <2>8. q[k] = s
    BY <2>2, <2>4, <2>5, <2>7 DEF OneEach
  <2> QED
    BY <2>3, <2>8
<1> QED
  BY <1>5, <1>8, <1>10, <1>11 DEF Sorted

(* Sets of summaries that do not overlap.                                   *)
AreSummaries(ss) == ss \subseteq [pos : Nat, len : Nat] /\ ValidSummaries(log, ss)
Early(ss) == {s \in ss : s.pos <= LastWarmup(log, ss)}
HereIn(ss, i) == {s \in ss : s.pos = i /\ i > LastWarmup(log, ss)}

LEMMA LogLength == ASSUME JhInv PROVE \E n \in Nat : n = Len(log) /\ DOMAIN log = 1..n
<1>1. Len(log) \in Nat /\ DOMAIN log = 1..Len(log)
  BY LogPositions, ZenonT(30)
<1> QED
  BY <1>1

LEMMA SummariesAre ==
    ASSUME JhInv, NEW ss, AreSummaries(ss)
    PROVE  /\ Len(log) \in Nat /\ PositionsOf(ss) \subseteq 1..Len(log) /\ OneEach(ss)
           /\ \A s \in ss : s.pos \in 1..Len(log) /\ Covers(s, s.pos)
<1>1. PICK n \in Nat : n = Len(log) /\ DOMAIN log = 1..n
  BY LogLength
<1>2. ASSUME NEW s \in ss PROVE s.pos \in 1..n /\ s.len \in Nat /\ s.len > 0 /\ Covers(s, s.pos)
  <2>1. s.pos \in Nat /\ s.len \in Nat
    BY DEF AreSummaries
  <2>2. s.len > 0 /\ s.pos >= 1 /\ s.pos + s.len - 1 <= n
    BY <1>1 DEF AreSummaries, ValidSummaries
  <2> QED
    BY <2>1, <2>2 DEF Covers
<1>3. ASSUME NEW s \in ss, NEW t \in ss, s.pos = t.pos PROVE s = t
  <2> SUFFICES ASSUME s # t PROVE FALSE
    OBVIOUS
  <2>1. s.pos <= t.pos
    BY <1>2, <1>3
  <2>2. s.pos + s.len <= t.pos
    BY <2>1 DEF AreSummaries, ValidSummaries
  <2> QED
    BY <1>2, <1>3, <2>2
<1> QED
  BY <1>1, <1>2, <1>3 DEF PositionsOf, OneEach

LEMMA NoneAreSummaries == AreSummaries({})
BY DEF AreSummaries, ValidSummaries

LEMMA LastWarmupIs ==
    ASSUME JhInv, NEW ss
    PROVE  /\ LastWarmup(log, ss) \in 0..Len(log)
           /\ ss # {} => \A i \in 1..Len(log) : i > LastWarmup(log, ss) => log[i].kind # "warmup"
<1>1. Len(log) \in Nat /\ DOMAIN log = 1..Len(log)
  BY LogPositions
<1>2. PICK w : w = {i \in DOMAIN log : log[i].kind = "warmup"}
  OBVIOUS
<1>3. w \subseteq 1..Len(log)
  BY <1>1, <1>2
<1>4. CASE ss = {} \/ w = {}
  <2>1. LastWarmup(log, ss) = 0
    BY <1>2, <1>4 DEF LastWarmup
  <2>2. ss # {} => \A i \in 1..Len(log) : log[i].kind # "warmup"
    BY <1>1, <1>2, <1>4
  <2> QED
    BY <1>1, <2>1, <2>2
<1>5. CASE ~(ss = {} \/ w = {})
  <2>1. LastWarmup(log, ss) = LastOf(w)
    BY <1>2, <1>5 DEF LastWarmup
  <2>2. LastOf(w) \in w /\ \A k \in w : k <= LastOf(w)
    BY <1>1, <1>3, <1>5, LastOfIs
  <2>3. PICK x \in 1..Len(log) : x = LastOf(w) /\ \A k \in w : k <= x
    BY <1>3, <2>2
  <2>4. ASSUME NEW i \in 1..Len(log), i > x PROVE log[i].kind # "warmup"
    <3>1. i \notin w
      BY <2>3, <2>4
    <3> QED
      BY <1>1, <1>2, <3>1
  <2>5. x \in 0..Len(log)
    BY <1>1
  <2> QED
    BY <2>1, <2>3, <2>4, <2>5
<1> QED
  BY <1>4, <1>5

(* The kinds of steps: of summaries, of items, and of the first messages.   *)
StepsOfAll(ss) ==
    EntrySteps(log, Len(console), pushes) \cup {Step(0, 0, 0, InitialMessages(log, pushes))}
    \cup {SummaryStep(s) : s \in ss}

LEMMA SummaryStepIs ==
    ASSUME NEW s
    PROVE  IsSummary(SummaryStep(s)) /\ SummaryRef(SummaryStep(s)) = s.pos /\ SummaryStep(s).item = 0
<1>1. PICK m : m = Msg("user", "summary", <<s.pos>>)
  OBVIOUS
<1>2. m.what = "summary" /\ m.refs[1] = s.pos
  BY <1>1 DEF Msg
<1>3. SummaryStep(s).msgs = <<m>> /\ SummaryStep(s).item = 0
  BY <1>1 DEF SummaryStep, Step
<1>4. <<m>> # <<>> /\ <<m>>[1] = m
  OBVIOUS
<1> QED
  BY <1>2, <1>3, <1>4 DEF IsSummary, SummaryRef

LEMMA NoSummaryIn == ASSUME NEW step, step.msgs \in Seq(MsgT) PROVE ~IsSummary(step)
<1> SUFFICES ASSUME IsSummary(step) PROVE FALSE
  OBVIOUS
<1>1. PICK q \in Seq(MsgT) : q = step.msgs
  OBVIOUS
<1>2. q # <<>> /\ q[1].what = "summary"
  BY <1>1 DEF IsSummary
<1>3. PICK m \in MsgT : m = q[1]
  <2> HIDE DEF MsgT
  <2>1. 1 \in 1..Len(q)
    BY <1>2
  <2> QED
    BY <2>1
<1>4. m.what \in Whats
  BY DEF MsgT
<1>5. m.what = "summary"
  BY <1>2, <1>3
<1> QED
  BY <1>4, <1>5 DEF Whats, Outcomes

LEMMA OwnStepIs ==
    ASSUME JhInv, NEW i \in 1..Len(log)
    PROVE  LET step == EntryStep(log, Len(console), pushes, i)
           IN  step \in EntrySteps(log, Len(console), pushes) /\ step.item = i /\ ~IsSummary(step)
<1>1. PICK step : step = EntryStep(log, Len(console), pushes, i)
  OBVIOUS
<1>2. step.item = i /\ step.msgs = Messages(log, i, EndAt(log, Len(console), i), pushes)
  BY <1>1 DEF EntryStep, Step
<1>3. Messages(log, i, EndAt(log, Len(console), i), pushes) \in Seq(MsgT)
  <2>1. JhTypes /\ AreItems(log) /\ Len(console) \in Nat /\ pushes \in Seq(PushT)
    BY LogPositions DEF JhInv, JhTypes, BlockInv, AreItems, PushT
  <2> QED
    BY <2>1, PartIs
<1>4. ~IsSummary(step)
  BY <1>2, <1>3, NoSummaryIn
<1>5. step \in EntrySteps(log, Len(console), pushes)
  BY <1>1 DEF EntrySteps
<1> QED
  BY <1>1, <1>2, <1>4, <1>5

LEMMA FirstStepIs ==
    ASSUME JhInv
    PROVE  LET step == Step(0, 0, 0, InitialMessages(log, pushes))
           IN  step.item = 0 /\ ~IsSummary(step)
<1>1. PICK step : step = Step(0, 0, 0, InitialMessages(log, pushes))
  OBVIOUS
<1>2. step.item = 0 /\ step.msgs = InitialMessages(log, pushes)
  BY <1>1 DEF Step
<1>3. InitialMessages(log, pushes) \in Seq(MsgT)
  <2>1. log \in Seq(Items) /\ pushes \in Seq(PushT)
    BY DEF JhInv, JhTypes, PushT
  <2> QED
    BY <2>1, InitialIs DEF NoOutput
<1> QED
  BY <1>1, <1>2, <1>3, NoSummaryIn

(* The history with summaries, as one segment for the first messages, one   *)
(* for each item and one for what is left: the summaries whose ranges are   *)
(* among the warm-up blocks where the first item behind these stands, then  *)
(* the summary whose range begins here, then the step of the item itself.   *)
EntryItems == {i \in DOMAIN log : ~Skipped(log, i)}
OpensIn(ss, i) ==
    i > LastWarmup(log, ss) /\ \A k \in EntryItems : k > LastWarmup(log, ss) => i <= k
OpensSegment(ss, i) ==
    \/ i - 1 \in EntryItems /\ OpensIn(ss, i - 1)
    \/ i = Len(log) + 2 /\ ~\E k \in EntryItems : OpensIn(ss, k)
SummarySteps(q) == [k \in DOMAIN q |-> SummaryStep(q[k])]
EarlyPart(ss, i) == IF OpensSegment(ss, i) THEN SummarySteps(InOrder(Early(ss))) ELSE <<>>
HerePart(ss, i) == IF i - 1 \in DOMAIN log THEN SummarySteps(InOrder(HereIn(ss, i - 1))) ELSE <<>>
OwnPart(ss, i) ==
    IF i = 1 THEN FirstStep(log, pushes)
    ELSE IF i - 1 \in EntryItems /\ ~\E s \in ss : Covers(s, i - 1)
         THEN <<EntryStep(log, Len(console), pushes, i - 1)>> ELSE <<>>
Segment(ss, i) == (EarlyPart(ss, i) \o HerePart(ss, i)) \o OwnPart(ss, i)
Segments(ss) == [i \in 1..Len(log) + 2 |-> Segment(ss, i)]

LEMMA SummaryStepsAre ==
    ASSUME NEW ss, NEW A, A \subseteq ss, Sorted(InOrder(A), A)
    PROVE  /\ SummarySteps(InOrder(A)) \in Seq(StepsOfAll(ss))
           /\ Len(SummarySteps(InOrder(A))) = Len(InOrder(A))
           /\ \A k \in 1..Len(InOrder(A)) : InOrder(A)[k] \in A /\ SummarySteps(InOrder(A))[k] = SummaryStep(InOrder(A)[k])
<1>1. PICK q \in Seq(A) : q = InOrder(A)
  BY DEF Sorted
<1>2. PICK n \in Nat : n = Len(q) /\ DOMAIN q = 1..n
  OBVIOUS
<1>3. PICK U : U = StepsOfAll(ss)
  OBVIOUS
<1>4. ASSUME NEW k \in 1..n PROVE q[k] \in A /\ SummaryStep(q[k]) \in U
  <2>1. q[k] \in A
    BY <1>1, <1>2
  <2> QED
    BY <1>3, <2>1 DEF StepsOfAll
<1>5. PICK r : r = SummarySteps(q)
  OBVIOUS
<1>6. r = [k \in 1..n |-> SummaryStep(q[k])]
  BY <1>2, <1>5 DEF SummarySteps
<1>7. r \in Seq(U) /\ Len(r) = n /\ \A k \in 1..n : r[k] = SummaryStep(q[k])
  BY <1>4, <1>6
<1> QED
  BY <1>1, <1>2, <1>3, <1>4, <1>5, <1>7

LEMMA SubSummaries ==
    ASSUME JhInv, NEW ss, AreSummaries(ss), NEW A, A \subseteq ss
    PROVE  Sorted(InOrder(A), A)
<1>1. Len(log) \in Nat /\ PositionsOf(ss) \subseteq 1..Len(log) /\ OneEach(ss)
  BY SummariesAre
<1>2. PositionsOf(A) \subseteq 1..Len(log)
  BY <1>1 DEF PositionsOf
<1>3. OneEach(A)
  BY <1>1 DEF OneEach
<1> QED
  BY <1>1, <1>2, <1>3, InOrderIs

LEMMA PartsOfSegment ==
    ASSUME JhInv, NEW ss, AreSummaries(ss), NEW i \in 1..Len(log) + 2
    PROVE  /\ EarlyPart(ss, i) \in Seq(StepsOfAll(ss)) /\ HerePart(ss, i) \in Seq(StepsOfAll(ss))
           /\ OwnPart(ss, i) \in Seq(StepsOfAll(ss)) /\ Segment(ss, i) \in Seq(StepsOfAll(ss))
<1>1. PICK U : U = StepsOfAll(ss)
  OBVIOUS
<1>2. <<>> \in Seq(U)
  OBVIOUS
<1>3. EarlyPart(ss, i) \in Seq(U)
  <2>1. SummarySteps(InOrder(Early(ss))) \in Seq(U)
    <3>1. Early(ss) \subseteq ss
      BY DEF Early
    <3> QED
      BY <1>1, <3>1, SubSummaries, SummaryStepsAre
  <2> QED
    BY <1>2, <2>1 DEF EarlyPart
<1>4. HerePart(ss, i) \in Seq(U)
  <2>1. SummarySteps(InOrder(HereIn(ss, i - 1))) \in Seq(U)
    <3>1. HereIn(ss, i - 1) \subseteq ss
      BY DEF HereIn
    <3> QED
      BY <1>1, <3>1, SubSummaries, SummaryStepsAre
  <2> QED
    BY <1>2, <2>1 DEF HerePart
<1>5. OwnPart(ss, i) \in Seq(U)
  <2>1. CASE i = 1
    <3>1. PICK step \in U : step = Step(0, 0, 0, InitialMessages(log, pushes))
      BY <1>1 DEF StepsOfAll
    <3>2. OwnPart(ss, i) = <<>> \/ OwnPart(ss, i) = <<step>>
      BY <2>1, <3>1 DEF OwnPart, FirstStep
    <3> QED
      BY <3>2, OneOrNone
  <2>2. CASE i # 1 /\ i - 1 \in EntryItems
    <3>1. PICK k : k = i - 1 /\ k \in 1..Len(log)
      BY <2>2, LogPositions DEF EntryItems
    <3>2. PICK step \in U : step = EntryStep(log, Len(console), pushes, k)
      BY <1>1, <3>1 DEF StepsOfAll, EntrySteps
    <3>3. OwnPart(ss, i) = <<>> \/ OwnPart(ss, i) = <<step>>
      BY <2>2, <3>1, <3>2 DEF OwnPart
    <3> QED
      BY <3>3, OneOrNone
  <2>3. CASE i # 1 /\ i - 1 \notin EntryItems
    BY <1>2, <2>3 DEF OwnPart
  <2> QED
    BY <2>1, <2>2, <2>3
<1>6. Segment(ss, i) \in Seq(U)
  <2>1. PICK a, b, c : a = EarlyPart(ss, i) /\ b = HerePart(ss, i) /\ c = OwnPart(ss, i)
    OBVIOUS
  <2>2. (a \o b) \o c \in Seq(U)
    BY <1>3, <1>4, <1>5, <2>1
  <2> QED
    BY <2>1, <2>2 DEF Segment
<1> QED
  BY <1>1, <1>3, <1>4, <1>5, <1>6

LEMMA SegmentsAre ==
    ASSUME JhInv, NEW ss, AreSummaries(ss)
    PROVE  /\ Segments(ss) \in Seq(Seq(StepsOfAll(ss))) /\ Len(Segments(ss)) = Len(log) + 2
           /\ \A i \in 1..Len(log) + 2 : Segments(ss)[i] = Segment(ss, i)
<1>1. PICK n \in Nat : n = Len(log) + 2
  BY LogPositions
<1>2. PICK S : S = Seq(StepsOfAll(ss))
  OBVIOUS
<1>3. \A i \in 1..n : Segment(ss, i) \in S
  BY <1>1, <1>2, PartsOfSegment
<1>4. PICK q : q = Segments(ss)
  OBVIOUS
<1>5. q = [i \in 1..n |-> Segment(ss, i)]
  BY <1>1, <1>4 DEF Segments
<1>6. q \in Seq(S) /\ Len(q) = n /\ \A i \in 1..n : q[i] = Segment(ss, i)
  BY <1>3, <1>5
<1> QED
  BY <1>1, <1>2, <1>4, <1>6

(* Between its first and its last segment a history has one for each item.  *)
MiddleOf(ss) == [i \in 1..Len(log) |-> Segment(ss, i + 1)]
LEMMA SegmentsJoined ==
    ASSUME JhInv, NEW ss, AreSummaries(ss)
    PROVE  /\ Segment(ss, 1) \in Seq(StepsOfAll(ss)) /\ FlattenSeq(MiddleOf(ss)) \in Seq(StepsOfAll(ss))
           /\ Segment(ss, Len(log) + 2) \in Seq(StepsOfAll(ss))
           /\ FlattenSeq(Segments(ss))
                 = (Segment(ss, 1) \o FlattenSeq(MiddleOf(ss))) \o Segment(ss, Len(log) + 2)
<1>1. PICK n \in Nat : n = Len(log) /\ DOMAIN log = 1..n
  BY LogLength
<1>2. PICK T : T = StepsOfAll(ss)
  OBVIOUS
<1>3. PICK S : S = Seq(T)
  OBVIOUS
<1>4. \A i \in 1..n + 2 : Segment(ss, i) \in S
  BY <1>1, <1>2, <1>3, PartsOfSegment
<1>5. PICK a \in S, c \in S : a = Segment(ss, 1) /\ c = Segment(ss, n + 2)
  <2>1. 1 \in 1..n + 2 /\ n + 2 \in 1..n + 2
    OBVIOUS
  <2> QED
    BY <1>4, <2>1
<1>6. PICK m : m = MiddleOf(ss)
  OBVIOUS
<1>7. m \in Seq(S) /\ Len(m) = n /\ \A i \in 1..n : m[i] = Segment(ss, i + 1)
  <2>1. m = [i \in 1..n |-> Segment(ss, i + 1)]
    BY <1>1, <1>6 DEF MiddleOf
  <2>2. \A i \in 1..n : Segment(ss, i + 1) \in S
    <3>1. \A i \in 1..n : i + 1 \in 1..n + 2
      OBVIOUS
    <3> QED
      BY <1>4, <3>1
  <2> QED
    BY <2>1, <2>2
<1>8. PICK p \in Seq(S) : p = Segments(ss) /\ Len(p) = n + 2 /\ \A i \in 1..n + 2 : p[i] = Segment(ss, i)
  BY <1>1, <1>2, <1>3, SegmentsAre
<1>9. PICK f \in Seq(S), l \in Seq(S) : f = <<a>> /\ l = <<c>> /\ Len(f) = 1 /\ f[1] = a /\ Len(l) = 1 /\ l[1] = c
  <2>1. <<a>> \in Seq(S) /\ <<c>> \in Seq(S) /\ Len(<<a>>) = 1 /\ <<a>>[1] = a /\ Len(<<c>>) = 1 /\ <<c>>[1] = c
    OBVIOUS
  <2> QED
    BY <2>1
<1>10. PICK fm \in Seq(S) : fm = f \o m /\ JoinAt(f, m, fm)
  BY <1>7, Joined
<1>11. PICK r \in Seq(S) : r = fm \o l /\ JoinAt(fm, l, r)
  BY Joined
<1>12. Len(fm) = n + 1 /\ Len(r) = n + 2
  BY <1>7, <1>9, <1>10, <1>11 DEF JoinAt
<1>13. ASSUME NEW i \in 1..n + 2 PROVE r[i] = p[i]
  <2>1. CASE i = 1
    <3>1. 1 \in 1..Len(f) /\ 1 \in 1..Len(fm)
      BY <1>9, <1>12
    <3>2. r[1] = fm[1] /\ fm[1] = f[1]
      BY <1>10, <1>11, <3>1 DEF JoinAt
    <3> QED
      BY <1>5, <1>8, <1>9, <2>1, <3>2
  <2>2. CASE i \in 2..n + 1
    <3>1. PICK j \in 1..n : i = j + 1
      <4>1. i - 1 \in 1..n /\ i = (i - 1) + 1
        BY <2>2
      <4> QED
        BY <4>1
    <3>2. fm[1 + j] = m[j]
      BY <1>7, <1>9, <1>10 DEF JoinAt
    <3>3. i \in 1..Len(fm)
      BY <1>12, <2>2
    <3>4. r[i] = fm[i]
      BY <1>11, <3>3 DEF JoinAt
    <3>5. 1 + j = i
      BY <3>1
    <3> QED
      BY <1>7, <1>8, <3>1, <3>2, <3>4, <3>5
  <2>3. CASE i = n + 2
    <3>1. r[Len(fm) + 1] = l[1]
      BY <1>9, <1>11 DEF JoinAt
    <3>2. Len(fm) + 1 = i
      BY <1>12, <2>3
    <3> QED
      BY <1>5, <1>8, <1>9, <2>3, <3>1, <3>2
  <2>4. i = 1 \/ i \in 2..n + 1 \/ i = n + 2
    OBVIOUS
  <2> QED
    BY <2>1, <2>2, <2>3, <2>4
<1>14. r = p
  <2>1. Len(r) = Len(p) /\ \A i \in 1..Len(r) : r[i] = p[i]
    BY <1>8, <1>12, <1>13
  <2> QED
    BY <2>1, SeqEqual
<1>15. f \in Seq(Seq(T)) /\ m \in Seq(Seq(T)) /\ fm \in Seq(Seq(T)) /\ l \in Seq(Seq(T)) /\ a \in Seq(T) /\ c \in Seq(T)
  BY <1>3, <1>5, <1>7, <1>9, <1>10
<1>16. FlattenSeq(f) = a /\ FlattenSeq(l) = c
  BY <1>9, <1>15, FlattenOne
<1>17. FlattenSeq(f \o m) = FlattenSeq(f) \o FlattenSeq(m)
  BY <1>15, FlattenJoined
<1>18. FlattenSeq(fm \o l) = FlattenSeq(fm) \o FlattenSeq(l)
  BY <1>15, FlattenJoined
<1>19. FlattenSeq(m) \in Seq(T)
  BY <1>15, FlattenType
<1>20. FlattenSeq(p) = (a \o FlattenSeq(m)) \o c
  BY <1>10, <1>11, <1>14, <1>16, <1>17, <1>18
<1> QED
  BY <1>1, <1>2, <1>5, <1>6, <1>8, <1>15, <1>19, <1>20

LEMMA BesideNothing ==
    ASSUME NEW T, NEW q \in Seq(T)
    PROVE  (<<>> \o q) \o <<>> = q /\ (<<>> \o <<>>) \o q = q /\ (q \o <<>>) \o <<>> = q
OBVIOUS

LEMMA StepsInSegments ==
    ASSUME JhInv, NEW ss, AreSummaries(ss)
    PROVE  BuildSteps(log, Len(console), pushes, ss) = FlattenSeq(Segments(ss))
<1> DEFINE Old(i) ==
              IF i \notin EntryItems THEN SummarySteps(InOrder(HereIn(ss, i)))
              ELSE (IF OpensIn(ss, i) THEN SummarySteps(InOrder(Early(ss))) ELSE <<>>)
                   \o SummarySteps(InOrder(HereIn(ss, i)))
                   \o IF \E s \in ss : Covers(s, i) THEN <<>>
                      ELSE <<EntryStep(log, Len(console), pushes, i)>>
           Behind == IF \E i \in EntryItems : OpensIn(ss, i) THEN <<>> ELSE SummarySteps(InOrder(Early(ss)))
<1>1. BuildSteps(log, Len(console), pushes, ss)
        = FirstStep(log, pushes) \o FlattenSeq([i \in DOMAIN log |-> Old(i)]) \o Behind
  BY DEF BuildSteps, EntryItems, OpensIn, SummarySteps, Early, HereIn, FirstStep
<1>2. PICK n \in Nat : n = Len(log) /\ DOMAIN log = 1..n
  BY LogLength
<1>3. PICK T : T = StepsOfAll(ss)
  OBVIOUS
<1>4. \A i \in 1..n + 2 : EarlyPart(ss, i) \in Seq(T) /\ HerePart(ss, i) \in Seq(T) /\ OwnPart(ss, i) \in Seq(T)
  BY <1>2, <1>3, PartsOfSegment
<1>5. EntryItems \subseteq 1..n
  BY <1>2 DEF EntryItems
<1>6. ASSUME NEW i \in 1..n PROVE Old(i) = Segment(ss, i + 1)
  <2>1. PICK j \in 1..n + 2 : j = i + 1 /\ j - 1 = i /\ j # 1 /\ j # n + 2
    <3>1. i + 1 \in 1..n + 2 /\ (i + 1) - 1 = i /\ i + 1 # 1 /\ i + 1 # n + 2
      OBVIOUS
    <3> QED
      BY <3>1
  <2>2. OpensSegment(ss, j) <=> i \in EntryItems /\ OpensIn(ss, i)
    BY <1>2, <2>1 DEF OpensSegment
  <2>3. HerePart(ss, j) = SummarySteps(InOrder(HereIn(ss, i)))
    BY <1>2, <2>1 DEF HerePart
  <2>4. CASE i \in EntryItems
    <3>1. EarlyPart(ss, j) = IF OpensIn(ss, i) THEN SummarySteps(InOrder(Early(ss))) ELSE <<>>
      BY <2>2, <2>4 DEF EarlyPart
    <3>2. OwnPart(ss, j) = IF \E s \in ss : Covers(s, i) THEN <<>> ELSE <<EntryStep(log, Len(console), pushes, i)>>
      <4>1. OwnPart(ss, j) = IF i \in EntryItems /\ ~\E s \in ss : Covers(s, i)
                             THEN <<EntryStep(log, Len(console), pushes, i)>> ELSE <<>>
        BY <2>1 DEF OwnPart
      <4> QED
        BY <2>4, <4>1
    <3>3. Old(i) = (EarlyPart(ss, j) \o HerePart(ss, j)) \o OwnPart(ss, j)
      BY <2>3, <2>4, <3>1, <3>2
    <3> QED
      BY <2>1, <3>3 DEF Segment
  <2>5. CASE i \notin EntryItems
    <3>1. EarlyPart(ss, j) = <<>>
      BY <2>2, <2>5 DEF EarlyPart
    <3>2. OwnPart(ss, j) = <<>>
      BY <2>1, <2>5 DEF OwnPart
    <3>3. PICK h \in Seq(T) : h = HerePart(ss, j)
      BY <1>4
    <3>4. (<<>> \o h) \o <<>> = h
      BY BesideNothing
    <3>5. Segment(ss, j) = h
      BY <3>1, <3>2, <3>3, <3>4 DEF Segment
    <3>6. Old(i) = h
      BY <2>3, <2>5, <3>3
    <3> QED
      BY <2>1, <3>5, <3>6
  <2> QED
    BY <2>4, <2>5
<1>7. [i \in DOMAIN log |-> Old(i)] = MiddleOf(ss)
  <2> HIDE DEF Old
  <2> QED
    BY <1>2, <1>6 DEF MiddleOf
<1>8. Segment(ss, 1) = FirstStep(log, pushes)
  <2>1. PICK j \in 1..n + 2 : j = 1
    OBVIOUS
  <2>2. j - 1 \notin 1..n /\ j # n + 2
    BY <2>1
  <2>3. EarlyPart(ss, j) = <<>> /\ HerePart(ss, j) = <<>>
    BY <1>2, <1>5, <2>2 DEF EarlyPart, HerePart, OpensSegment
  <2>4. OwnPart(ss, j) = FirstStep(log, pushes)
    BY <2>1 DEF OwnPart
  <2>5. PICK f \in Seq(T) : f = OwnPart(ss, j)
    BY <1>4
  <2>6. (<<>> \o <<>>) \o f = f
    BY BesideNothing
  <2> QED
    BY <2>1, <2>3, <2>4, <2>5, <2>6 DEF Segment
<1>9. Segment(ss, n + 2) = Behind
  <2>1. PICK j \in 1..n + 2 : j = n + 2
    OBVIOUS
  <2>2. j - 1 \notin 1..n /\ j # 1
    BY <2>1
  <2>3. HerePart(ss, j) = <<>> /\ OwnPart(ss, j) = <<>>
    BY <1>2, <1>5, <2>2 DEF HerePart, OwnPart
  <2>4. OpensSegment(ss, j) <=> ~\E k \in EntryItems : OpensIn(ss, k)
    BY <1>2, <1>5, <2>1, <2>2 DEF OpensSegment
  <2>5. EarlyPart(ss, j) = Behind
    BY <2>4 DEF EarlyPart
  <2>6. PICK f \in Seq(T) : f = EarlyPart(ss, j)
    BY <1>4
  <2>7. (f \o <<>>) \o <<>> = f
    BY BesideNothing
  <2> HIDE DEF Behind
  <2>8. Segment(ss, j) = f
    BY <2>3, <2>6, <2>7 DEF Segment
  <2> QED
    BY <2>1, <2>5, <2>6, <2>8
<1>10. FlattenSeq(Segments(ss)) = (Segment(ss, 1) \o FlattenSeq(MiddleOf(ss))) \o Segment(ss, n + 2)
  BY <1>2, SegmentsJoined
<1> HIDE DEF Old, Behind
<1>11. BuildSteps(log, Len(console), pushes, ss) = (FirstStep(log, pushes) \o FlattenSeq(MiddleOf(ss))) \o Behind
  BY <1>1, <1>7
<1> QED
  BY <1>8, <1>9, <1>10, <1>11

(* What stands in the parts of a segment.                                   *)
EarlyElement(ss, i, x) == OpensSegment(ss, i) /\ \E s \in Early(ss) : x = SummaryStep(s)
HereElement(ss, i, x) == i - 1 \in DOMAIN log /\ \E s \in HereIn(ss, i - 1) : x = SummaryStep(s)
OwnElement(ss, i, x) ==
    /\ ~IsSummary(x) /\ x.item = i - 1
    /\ i # 1 => i - 1 \in EntryItems /\ ~\E s \in ss : Covers(s, i - 1)

LEMMA EarlyElements ==
    ASSUME JhInv, NEW ss, AreSummaries(ss), NEW i \in 1..Len(log) + 2
    PROVE  /\ \A k \in 1..Len(EarlyPart(ss, i)) : EarlyElement(ss, i, EarlyPart(ss, i)[k])
           /\ \A k, m \in 1..Len(EarlyPart(ss, i)) :
                 k < m => SummaryRef(EarlyPart(ss, i)[k]) < SummaryRef(EarlyPart(ss, i)[m])
           /\ OpensSegment(ss, i) =>
                 \A s \in Early(ss) : \E k \in 1..Len(EarlyPart(ss, i)) : EarlyPart(ss, i)[k] = SummaryStep(s)
<1>1. CASE ~OpensSegment(ss, i)
  <2>1. EarlyPart(ss, i) = <<>>
    BY <1>1 DEF EarlyPart
  <2>2. 1..Len(<<>>) = {}
    OBVIOUS
  <2> QED
    BY <1>1, <2>1, <2>2
<1>2. CASE OpensSegment(ss, i)
  <2>1. PICK A : A = Early(ss) /\ A \subseteq ss
    BY DEF Early
  <2>2. Sorted(InOrder(A), A)
    BY <2>1, SubSummaries
  <2>3. PICK q : q = InOrder(A)
    OBVIOUS
  <2>4. PICK r : r = EarlyPart(ss, i)
    OBVIOUS
  <2>5. r = SummarySteps(q)
    BY <1>2, <2>1, <2>3, <2>4 DEF EarlyPart
  <2>6. Len(r) = Len(q) /\ \A k \in 1..Len(q) : q[k] \in A /\ r[k] = SummaryStep(q[k])
    <3>1. A \subseteq ss
      BY <2>1
    <3> QED
      BY <2>2, <2>3, <2>5, <3>1, SummaryStepsAre
  <2>7. (\A k, m \in 1..Len(q) : k < m => q[k].pos < q[m].pos) /\ \A s \in A : \E k \in 1..Len(q) : q[k] = s
    BY <2>2, <2>3 DEF Sorted
  <2>8. \A k \in 1..Len(q) : SummaryRef(r[k]) = q[k].pos
    BY <2>6, SummaryStepIs
  <2>9. \A k \in 1..Len(r) : EarlyElement(ss, i, r[k])
    BY <1>2, <2>1, <2>6 DEF EarlyElement
  <2>10. \A k, m \in 1..Len(r) : k < m => SummaryRef(r[k]) < SummaryRef(r[m])
    BY <2>6, <2>7, <2>8
  <2>11. \A s \in A : \E k \in 1..Len(r) : r[k] = SummaryStep(s)
    BY <2>6, <2>7
  <2> QED
    BY <2>1, <2>4, <2>9, <2>10, <2>11
<1> QED
  BY <1>1, <1>2

LEMMA HereElements ==
    ASSUME JhInv, NEW ss, AreSummaries(ss), NEW i \in 1..Len(log) + 2
    PROVE  /\ \A k \in 1..Len(HerePart(ss, i)) : HereElement(ss, i, HerePart(ss, i)[k]) /\ k = 1
           /\ i - 1 \in DOMAIN log =>
                 \A s \in HereIn(ss, i - 1) : \E k \in 1..Len(HerePart(ss, i)) : HerePart(ss, i)[k] = SummaryStep(s)
<1>1. CASE i - 1 \notin DOMAIN log
  <2>1. HerePart(ss, i) = <<>>
    BY <1>1 DEF HerePart
  <2>2. 1..Len(<<>>) = {}
    OBVIOUS
  <2> QED
    BY <1>1, <2>1, <2>2
<1>2. CASE i - 1 \in DOMAIN log
  <2>0. PICK A : A = HereIn(ss, i - 1)
    OBVIOUS
  <2>1. A = HereIn(ss, i - 1) /\ A \subseteq ss /\ \A s \in A : s.pos = i - 1
    BY <2>0 DEF HereIn
  <2>2. Sorted(InOrder(A), A)
    BY <2>1, SubSummaries
  <2>3. PICK q : q = InOrder(A)
    OBVIOUS
  <2>4. PICK r : r = HerePart(ss, i)
    OBVIOUS
  <2>5. r = SummarySteps(q)
    BY <1>2, <2>1, <2>3, <2>4 DEF HerePart
  <2>6. Len(r) = Len(q) /\ \A k \in 1..Len(q) : q[k] \in A /\ r[k] = SummaryStep(q[k])
    <3>1. A \subseteq ss
      BY <2>1
    <3> QED
      BY <2>2, <2>3, <2>5, <3>1, SummaryStepsAre
  <2>7. (\A k, m \in 1..Len(q) : k < m => q[k].pos < q[m].pos) /\ \A s \in A : \E k \in 1..Len(q) : q[k] = s
    BY <2>2, <2>3 DEF Sorted
  <2>8. ASSUME NEW k \in 1..Len(q) PROVE k = 1
    <3> SUFFICES ASSUME k # 1 PROVE FALSE
      OBVIOUS
    <3>1. 1 \in 1..Len(q) /\ 1 < k
      OBVIOUS
    <3>2. q[1].pos < q[k].pos
      BY <2>7, <3>1
    <3>3. q[1].pos = i - 1 /\ q[k].pos = i - 1
      BY <2>1, <2>6, <3>1
    <3> QED
      BY <3>2, <3>3
  <2>9. \A k \in 1..Len(r) : HereElement(ss, i, r[k])
    BY <1>2, <2>1, <2>6 DEF HereElement
  <2>10. \A s \in A : \E k \in 1..Len(r) : r[k] = SummaryStep(s)
    BY <2>6, <2>7
  <2> QED
    BY <2>1, <2>4, <2>6, <2>8, <2>9, <2>10
<1> QED
  BY <1>1, <1>2

LEMMA OwnElements ==
    ASSUME JhInv, NEW ss, NEW i \in 1..Len(log) + 2
    PROVE  \A k \in 1..Len(OwnPart(ss, i)) : OwnElement(ss, i, OwnPart(ss, i)[k]) /\ k = 1
<1>1. SUFFICES ASSUME NEW k \in 1..Len(OwnPart(ss, i))
               PROVE  OwnElement(ss, i, OwnPart(ss, i)[k]) /\ k = 1
  OBVIOUS
<1>2. 1..Len(<<>>) = {}
  OBVIOUS
<1>3. CASE i = 1
  <2>1. PICK step : step = Step(0, 0, 0, InitialMessages(log, pushes))
    OBVIOUS
  <2>2. step.item = 0 /\ ~IsSummary(step)
    BY <2>1, FirstStepIs
  <2>3. OwnPart(ss, i) = <<>> \/ OwnPart(ss, i) = <<step>>
    BY <1>3, <2>1 DEF OwnPart, FirstStep
  <2>4. OwnPart(ss, i) = <<step>>
    BY <1>1, <1>2, <2>3
  <2>5. Len(<<step>>) = 1 /\ <<step>>[1] = step
    OBVIOUS
  <2>6. k = 1 /\ OwnPart(ss, i)[k] = step
    BY <2>4, <2>5
  <2>7. i - 1 = 0
    BY <1>3
  <2> QED
    BY <1>3, <2>2, <2>6, <2>7 DEF OwnElement
<1>4. CASE i # 1
  <2>1. i - 1 \in EntryItems /\ ~\E s \in ss : Covers(s, i - 1)
    BY <1>1, <1>2, <1>4 DEF OwnPart
  <2>2. PICK j \in 1..Len(log) : j = i - 1
    BY <2>1, LogPositions DEF EntryItems
  <2>3. PICK step : step = EntryStep(log, Len(console), pushes, j)
    OBVIOUS
  <2>4. step.item = j /\ ~IsSummary(step)
    BY <2>3, OwnStepIs
  <2>5. OwnPart(ss, i) = <<step>>
    BY <1>4, <2>1, <2>2, <2>3 DEF OwnPart
  <2>6. Len(<<step>>) = 1 /\ <<step>>[1] = step
    OBVIOUS
  <2>7. k = 1 /\ OwnPart(ss, i)[k] = step
    BY <2>5, <2>6
  <2> QED
    BY <2>1, <2>2, <2>4, <2>7 DEF OwnElement
<1> QED
  BY <1>3, <1>4

(* What is not of a summary: the items whose steps no summary covers.       *)
OwnParts(ss) == [i \in 1..Len(log) + 2 |-> OwnPart(ss, i)]
Unsummarized(ss) == {x \in StepsOfAll(ss) : ~IsSummary(x)}
Uncovered(ss) == {x \in StepsOfAll({}) : ~\E s \in ss : x.item \in s.pos..s.pos + s.len - 1}

LEMMA RestOfSegment ==
    ASSUME JhInv, NEW ss, AreSummaries(ss), NEW i \in 1..Len(log) + 2
    PROVE  Filtered(Segment(ss, i), Unsummarized(ss)) = OwnPart(ss, i)
<1>1. PICK T, G : T = StepsOfAll(ss) /\ G = Unsummarized(ss)
  OBVIOUS
<1>2. PICK a \in Seq(T), b \in Seq(T), c \in Seq(T) :
         a = EarlyPart(ss, i) /\ b = HerePart(ss, i) /\ c = OwnPart(ss, i)
  BY <1>1, PartsOfSegment
<1>3. Filtered(a, G) = <<>>
  <2>1. ASSUME NEW k \in 1..Len(a) PROVE a[k] \notin G
    <3>1. EarlyElement(ss, i, a[k])
      BY <1>2, <2>1, EarlyElements
    <3>2. IsSummary(a[k])
      BY <3>1, SummaryStepIs DEF EarlyElement
    <3> QED
      BY <1>1, <3>2 DEF Unsummarized
  <2> QED
    BY <2>1, FilteredNone
<1>4. Filtered(b, G) = <<>>
  <2>1. ASSUME NEW k \in 1..Len(b) PROVE b[k] \notin G
    <3>1. HereElement(ss, i, b[k])
      BY <1>2, <2>1, HereElements
    <3>2. IsSummary(b[k])
      BY <3>1, SummaryStepIs DEF HereElement
    <3> QED
      BY <1>1, <3>2 DEF Unsummarized
  <2> QED
    BY <2>1, FilteredNone
<1>5. Filtered(c, G) = c
  <2>1. ASSUME NEW k \in 1..Len(c) PROVE c[k] \in G
    <3>1. OwnElement(ss, i, c[k])
      BY <1>2, <2>1, OwnElements
    <3>2. c[k] \in T
      OBVIOUS
    <3> QED
      BY <1>1, <3>1, <3>2 DEF Unsummarized, OwnElement
  <2> QED
    BY <2>1, FilteredAll
<1>6. PICK ab \in Seq(T) : ab = a \o b
  <2>1. a \o b \in Seq(T)
    BY ConcatProperties
  <2> QED
    BY <2>1
<1>7. Filtered(ab, G) = <<>> \o <<>>
  <2>1. FiltersApart(a, b, G)
    BY FilteredApart
  <2> QED
    BY <1>3, <1>4, <1>6, <2>1 DEF FiltersApart
<1>8. Filtered(ab \o c, G) = (<<>> \o <<>>) \o c
  <2>1. FiltersApart(ab, c, G)
    BY FilteredApart
  <2> QED
    BY <1>5, <1>7, <2>1 DEF FiltersApart
<1>9. (<<>> \o <<>>) \o c = c
  BY BesideNothing
<1> QED
  BY <1>1, <1>2, <1>6, <1>8, <1>9 DEF Segment

LEMMA SegmentWithoutSummaries ==
    ASSUME JhInv, NEW i \in 1..Len(log) + 2
    PROVE  Segment({}, i) = OwnPart({}, i)
<1>1. InOrder({}) = <<>>
  <2>1. Cardinality({}) = 0 /\ 1..0 = {}
    BY FS_EmptySet
  <2> QED
    BY <2>1 DEF InOrder
<1>2. SummarySteps(<<>>) = <<>>
  BY DEF SummarySteps
<1>3. Early({}) = {} /\ HereIn({}, i - 1) = {}
  BY DEF Early, HereIn
<1>4. EarlyPart({}, i) = <<>> /\ HerePart({}, i) = <<>>
  BY <1>1, <1>2, <1>3 DEF EarlyPart, HerePart
<1>5. PICK c \in Seq(StepsOfAll({})) : c = OwnPart({}, i)
  BY PartsOfSegment, NoneAreSummaries
<1>6. (<<>> \o <<>>) \o c = c
  BY BesideNothing
<1> QED
  BY <1>4, <1>5, <1>6 DEF Segment

LEMMA CoveredItem ==
    ASSUME JhInv, NEW ss, AreSummaries(ss), NEW i \in Nat
    PROVE  /\ (\E s \in ss : i \in s.pos..s.pos + s.len - 1) <=> (\E s \in ss : Covers(s, i))
           /\ i = 0 => ~\E s \in ss : Covers(s, i)
<1>1. ASSUME NEW s \in ss PROVE i \in s.pos..s.pos + s.len - 1 <=> Covers(s, i)
  <2>1. s.pos \in Nat /\ s.len \in Nat
    BY DEF AreSummaries
  <2>2. PICK p \in Nat, l \in Nat : p = s.pos /\ l = s.len
    BY <2>1
  <2>3. i \in p..p + l - 1 <=> p <= i /\ i < p + l
    OBVIOUS
  <2> QED
    BY <2>2, <2>3 DEF Covers
<1>2. ASSUME NEW s \in ss, i = 0 PROVE ~Covers(s, i)
  <2>1. s.pos \in 1..Len(log)
    BY SummariesAre
  <2> QED
    BY <1>2, <2>1 DEF Covers
<1> QED
  BY <1>1, <1>2

LEMMA RestOfItem ==
    ASSUME JhInv, NEW ss, AreSummaries(ss), NEW i \in 1..Len(log) + 2
    PROVE  Filtered(OwnPart({}, i), Uncovered(ss)) = OwnPart(ss, i)
<1>1. PICK T, G : T = StepsOfAll({}) /\ G = Uncovered(ss)
  OBVIOUS
<1>2. PICK c \in Seq(T) : c = OwnPart({}, i)
  BY <1>1, PartsOfSegment, NoneAreSummaries
<1>3. PICK j \in Nat : j = i - 1
  <2>1. i - 1 \in Nat
    BY LogPositions
  <2> QED
    BY <2>1
<1>4. ASSUME NEW k \in 1..Len(c) PROVE c[k].item = j /\ c[k] \in T
  <2>1. OwnElement({}, i, c[k])
    BY <1>2, <1>4, OwnElements
  <2> QED
    BY <1>3, <2>1 DEF OwnElement
<1>5. (\E s \in ss : j \in s.pos..s.pos + s.len - 1) <=> (\E s \in ss : Covers(s, j))
  BY CoveredItem
<1>6. CASE \E s \in ss : Covers(s, j)
  <2>1. \A k \in 1..Len(c) : c[k] \notin G
    BY <1>1, <1>4, <1>5, <1>6 DEF Uncovered
  <2>2. Filtered(c, G) = <<>>
    BY <2>1, FilteredNone
  <2>3. i # 1
    <3>1. j # 0
      BY <1>6, CoveredItem
    <3> QED
      BY <1>3, <3>1
  <2>4. OwnPart(ss, i) = <<>>
    BY <1>3, <1>6, <2>3 DEF OwnPart
  <2> QED
    BY <1>1, <1>2, <2>2, <2>4
<1>7. CASE ~\E s \in ss : Covers(s, j)
  <2>1. \A k \in 1..Len(c) : c[k] \in G
    BY <1>1, <1>4, <1>5, <1>7 DEF Uncovered
  <2>2. Filtered(c, G) = c
    BY <2>1, FilteredAll
  <2>3. OwnPart(ss, i) = OwnPart({}, i)
    BY <1>3, <1>7 DEF OwnPart
  <2> QED
    BY <1>1, <1>2, <2>2, <2>3
<1> QED
  BY <1>6, <1>7

LEMMA RestIsTheSame ==
    ASSUME JhInv, NEW ss, AreSummaries(ss),
           NEW steps, steps = BuildSteps(log, Len(console), pushes, ss),
           NEW whole, whole = BuildSteps(log, Len(console), pushes, {})
    PROVE  /\ steps \in Seq(StepsOfAll(ss)) /\ whole \in Seq(StepsOfAll({}))
           /\ Filtered(steps, Unsummarized(ss)) = Filtered(whole, Uncovered(ss))
<1>1. PICK n \in Nat : n = Len(log) + 2
  BY LogPositions
<1>2. AreSummaries({})
  BY NoneAreSummaries
<1>3. PICK T, G : T = StepsOfAll(ss) /\ G = Unsummarized(ss)
  OBVIOUS
<1>4. PICK V, H : V = StepsOfAll({}) /\ H = Uncovered(ss)
  OBVIOUS
<1>5. PICK p \in Seq(Seq(T)) : p = Segments(ss) /\ Len(p) = n /\ \A i \in 1..n : p[i] = Segment(ss, i)
  BY <1>1, <1>3, SegmentsAre
<1>6. PICK q \in Seq(Seq(V)) : q = Segments({}) /\ Len(q) = n /\ \A i \in 1..n : q[i] = Segment({}, i)
  BY <1>1, <1>2, <1>4, SegmentsAre
<1>7. steps = FlattenSeq(p) /\ whole = FlattenSeq(q)
  BY <1>2, <1>5, <1>6, StepsInSegments
<1>8. steps \in Seq(T) /\ whole \in Seq(V)
  BY <1>7, FlattenType
<1>9. Filtered(steps, G) = FlattenSeq(FilteredParts(p, G))
  BY <1>7, FilteredFlat
<1>10. Filtered(whole, H) = FlattenSeq(FilteredParts(q, H))
  BY <1>7, FilteredFlat
<1>11. ASSUME NEW i \in 1..n PROVE Filtered(p[i], G) = OwnPart(ss, i)
  BY <1>1, <1>3, <1>5, RestOfSegment
<1>12. ASSUME NEW i \in 1..n PROVE Filtered(q[i], H) = OwnPart(ss, i)
  <2>1. q[i] = OwnPart({}, i)
    BY <1>1, <1>6, SegmentWithoutSummaries
  <2> QED
    BY <1>1, <1>4, <2>1, RestOfItem
<1>13. FilteredParts(p, G) = OwnParts(ss)
  BY <1>1, <1>5, <1>11 DEF FilteredParts, OwnParts
<1>14. FilteredParts(q, H) = OwnParts(ss)
  BY <1>1, <1>6, <1>12 DEF FilteredParts, OwnParts
<1> QED
  BY <1>3, <1>4, <1>8, <1>9, <1>10, <1>13, <1>14

(* What a summary may stand before: a summary of a later range, and the     *)
(* step of an item behind the warm-up blocks and behind its range, unless   *)
(* the range is among these blocks.                                         *)
InPlace(ss, x, y) ==
    IsSummary(x) =>
        /\ IsSummary(y) => SummaryRef(x) < SummaryRef(y)
        /\ y.item # 0 =>
              /\ log[y.item].kind # "warmup"
              /\ y.item > SummaryRef(x) \/ SummaryRef(x) <= LastWarmup(log, ss)

LEMMA OpeningIsLate ==
    ASSUME JhInv, NEW ss, NEW i \in 1..Len(log) + 2, OpensSegment(ss, i)
    PROVE  i - 1 > LastWarmup(log, ss)
<1>1. CASE OpensIn(ss, i - 1)
  BY <1>1 DEF OpensIn
<1>2. CASE i = Len(log) + 2
  <2>1. PICK n \in Nat, l \in Nat : n = Len(log) /\ l = LastWarmup(log, ss) /\ l <= n
    <3>1. Len(log) \in Nat /\ LastWarmup(log, ss) \in 0..Len(log)
      BY LogPositions, LastWarmupIs
    <3> QED
      BY <3>1
  <2>2. (n + 2) - 1 > l
    BY <2>1
  <2> QED
    BY <1>2, <2>1, <2>2
<1> QED
  BY <1>1, <1>2 DEF OpensSegment

LEMMA AfterOpening ==
    ASSUME JhInv, NEW ss, NEW i \in 1..Len(log) + 2, OpensSegment(ss, i),
           NEW j \in 1..Len(log) + 2, j - 1 \in EntryItems, j - 1 > LastWarmup(log, ss)
    PROVE  i <= j
<1>1. PICK n \in Nat : n = Len(log) /\ DOMAIN log = 1..n
  BY LogLength
<1>2. PICK B : B = {k \in EntryItems : k > LastWarmup(log, ss)}
  OBVIOUS
<1>3. j - 1 \in B /\ B \subseteq Nat
  BY <1>1, <1>2 DEF EntryItems
<1>4. PICK x \in B : \A y \in B : x <= y
  BY <1>3, LeastNumber
<1>5. x \in EntryItems /\ OpensIn(ss, x)
  BY <1>2, <1>4 DEF OpensIn
<1>6. i - 1 \in EntryItems /\ OpensIn(ss, i - 1)
  BY <1>5 DEF OpensSegment
<1>7. i - 1 <= j - 1
  BY <1>6 DEF OpensIn
<1>8. i \in Nat /\ j \in Nat
  BY <1>1
<1> QED
  BY <1>7, <1>8

LEMMA OneOpening ==
    ASSUME JhInv, NEW ss, NEW i \in 1..Len(log) + 2, OpensSegment(ss, i),
           NEW j \in 1..Len(log) + 2, OpensSegment(ss, j)
    PROVE  i = j
<1>1. i \in Nat /\ j \in Nat
  BY LogPositions
<1>2. CASE i - 1 \in EntryItems /\ j - 1 \in EntryItems
  <2>1. i - 1 > LastWarmup(log, ss) /\ j - 1 > LastWarmup(log, ss)
    BY OpeningIsLate
  <2>2. i <= j /\ j <= i
    BY <1>2, <2>1, AfterOpening
  <2> QED
    BY <1>1, <2>2
<1>3. CASE ~(i - 1 \in EntryItems /\ j - 1 \in EntryItems)
  BY <1>3 DEF OpensSegment
<1> QED
  BY <1>2, <1>3

LEMMA OwnIsBehind ==
    ASSUME JhInv, NEW ss, ss # {}, NEW j \in 1..Len(log) + 2, NEW y, OwnElement(ss, j, y),
           y.item # 0, j - 1 > LastWarmup(log, ss)
    PROVE  y.item = j - 1 /\ log[y.item].kind # "warmup"
<1>1. j # 1 /\ y.item = j - 1
  BY DEF OwnElement
<1>2. j - 1 \in 1..Len(log)
  BY <1>1, LogPositions DEF OwnElement, EntryItems
<1> QED
  BY <1>1, <1>2, LastWarmupIs

LEMMA EarlyIsPlaced ==
    ASSUME JhInv, NEW ss, AreSummaries(ss), NEW i \in 1..Len(log) + 2, NEW j \in 1..Len(log) + 2, i <= j,
           NEW x, EarlyElement(ss, i, x), NEW y, HereElement(ss, j, y) \/ OwnElement(ss, j, y)
    PROVE  InPlace(ss, x, y)
<1>1. PICK s \in Early(ss) : x = SummaryStep(s)
  BY DEF EarlyElement
<1>2. s \in ss /\ s.pos <= LastWarmup(log, ss) /\ s.pos \in 1..Len(log) /\ SummaryRef(x) = s.pos
  BY <1>1, SummariesAre, SummaryStepIs DEF Early
<1>3. PICK l \in Nat, p \in Nat : l = LastWarmup(log, ss) /\ p = s.pos /\ p <= l
  <2>1. LastWarmup(log, ss) \in 0..Len(log) /\ Len(log) \in Nat
    BY LastWarmupIs, LogPositions
  <2> QED
    BY <1>2, <2>1
<1>4. i \in Nat /\ j \in Nat
  BY LogPositions
<1>5. i - 1 > l
  BY <1>3, OpeningIsLate DEF EarlyElement
<1>6. CASE HereElement(ss, j, y)
  <2>1. PICK t \in HereIn(ss, j - 1) : y = SummaryStep(t)
    BY <1>6 DEF HereElement
  <2>2. t.pos = j - 1 /\ j - 1 > l
    BY <1>3, <2>1 DEF HereIn
  <2>3. y.item = 0 /\ SummaryRef(y) = j - 1
    BY <2>1, <2>2, SummaryStepIs
  <2>4. p < j - 1
    BY <1>3, <1>4, <2>2
  <2> QED
    BY <1>2, <1>3, <2>3, <2>4 DEF InPlace
<1>7. CASE OwnElement(ss, j, y)
  <2>1. ~IsSummary(y)
    BY <1>7 DEF OwnElement
  <2>2. j - 1 > l /\ ss # {}
    BY <1>2, <1>3, <1>4, <1>5
  <2>3. y.item # 0 => log[y.item].kind # "warmup"
    BY <1>3, <1>7, <2>2, OwnIsBehind
  <2> QED
    BY <1>2, <2>1, <2>3 DEF InPlace
<1> QED
  BY <1>6, <1>7

LEMMA HereIsPlaced ==
    ASSUME JhInv, NEW ss, AreSummaries(ss), NEW i \in 1..Len(log) + 2, NEW j \in 1..Len(log) + 2,
           NEW x, HereElement(ss, i, x), NEW y,
           \/ i < j /\ (EarlyElement(ss, j, y) \/ HereElement(ss, j, y))
           \/ i <= j /\ OwnElement(ss, j, y)
    PROVE  InPlace(ss, x, y)
<1>1. PICK s \in HereIn(ss, i - 1) : x = SummaryStep(s)
  BY DEF HereElement
<1>2. s \in ss /\ s.pos = i - 1 /\ i - 1 > LastWarmup(log, ss) /\ i - 1 \in DOMAIN log /\ SummaryRef(x) = i - 1
  BY <1>1, SummaryStepIs DEF HereIn, HereElement
<1>3. PICK l \in Nat : l = LastWarmup(log, ss) /\ i - 1 > l
  <2>1. LastWarmup(log, ss) \in 0..Len(log) /\ Len(log) \in Nat
    BY LastWarmupIs, LogPositions
  <2> QED
    BY <1>2, <2>1
<1>4. i \in Nat /\ j \in Nat
  BY LogPositions
<1>5. CASE i < j /\ EarlyElement(ss, j, y)
  <2>1. PICK t \in Early(ss) : y = SummaryStep(t)
    BY <1>5 DEF EarlyElement
  <2>2. t.pos <= l /\ t.pos \in 1..Len(log)
    BY <1>3, <2>1, SummariesAre DEF Early
  <2>3. PICK p \in Nat : p = t.pos /\ p >= 1 /\ p <= l
    BY <2>2, LogPositions
  <2>4. i - 1 # 1
    BY <1>3, <1>4, <2>3
  <2>5. i - 1 \in EntryItems
    BY <1>2, <2>4 DEF EntryItems, Skipped
  <2>6. j <= i
    BY <1>2, <1>5, <2>5, AfterOpening DEF EarlyElement
  <2> QED
    BY <1>4, <1>5, <2>6
<1>6. CASE i < j /\ HereElement(ss, j, y)
  <2>1. PICK t \in HereIn(ss, j - 1) : y = SummaryStep(t)
    BY <1>6 DEF HereElement
  <2>2. y.item = 0 /\ SummaryRef(y) = j - 1
    BY <2>1, SummaryStepIs DEF HereIn
  <2>3. i - 1 < j - 1
    BY <1>4, <1>6
  <2> QED
    BY <1>2, <2>2, <2>3 DEF InPlace
<1>7. CASE i = j /\ OwnElement(ss, j, y)
  <2>1. Covers(s, i - 1)
    BY <1>2, SummariesAre
  <2>2. i # 1
    BY <1>3, <1>4
  <2> QED
    BY <1>2, <1>7, <2>1, <2>2 DEF OwnElement
<1>8. CASE i < j /\ OwnElement(ss, j, y)
  <2>1. ~IsSummary(y)
    BY <1>8 DEF OwnElement
  <2>2. j - 1 > l /\ ss # {} /\ j - 1 > i - 1
    BY <1>2, <1>3, <1>4, <1>8
  <2>3. y.item # 0 => y.item = j - 1 /\ log[y.item].kind # "warmup"
    BY <1>3, <1>8, <2>2, OwnIsBehind
  <2> QED
    BY <1>2, <2>1, <2>2, <2>3 DEF InPlace
<1>9. i = j \/ i < j
  BY <1>4
<1> QED
  BY <1>5, <1>6, <1>7, <1>8, <1>9

LEMMA OwnIsPlaced ==
    ASSUME NEW ss, NEW i, NEW x, OwnElement(ss, i, x), NEW y PROVE InPlace(ss, x, y)
BY DEF OwnElement, InPlace

(* The steps of a history, segment by segment.                              *)
ElementIn(ss, i, x) == EarlyElement(ss, i, x) \/ HereElement(ss, i, x) \/ OwnElement(ss, i, x)

LEMMA ElementsPlaced ==
    ASSUME JhInv, NEW ss, AreSummaries(ss), NEW i \in 1..Len(log) + 2, NEW j \in 1..Len(log) + 2, i < j,
           NEW x, ElementIn(ss, i, x), NEW y, ElementIn(ss, j, y)
    PROVE  InPlace(ss, x, y)
<1>1. i <= j /\ i # j
  BY LogPositions
<1>2. CASE OwnElement(ss, i, x)
  BY <1>2, OwnIsPlaced
<1>3. CASE EarlyElement(ss, i, x)
  <2>1. ~EarlyElement(ss, j, y)
    BY <1>1, <1>3, OneOpening DEF EarlyElement
  <2>2. HereElement(ss, j, y) \/ OwnElement(ss, j, y)
    BY <2>1 DEF ElementIn
  <2> QED
    BY <1>1, <1>3, <2>2, EarlyIsPlaced
<1>4. CASE HereElement(ss, i, x)
  <2>1. \/ i < j /\ (EarlyElement(ss, j, y) \/ HereElement(ss, j, y))
        \/ i <= j /\ OwnElement(ss, j, y)
    BY <1>1 DEF ElementIn
  <2> QED
    BY <1>4, <2>1, HereIsPlaced
<1> QED
  BY <1>2, <1>3, <1>4 DEF ElementIn

LEMMA SegmentPlaced ==
    ASSUME JhInv, NEW ss, AreSummaries(ss), NEW i \in 1..Len(log) + 2
    PROVE  /\ \A k \in 1..Len(Segment(ss, i)) : ElementIn(ss, i, Segment(ss, i)[k])
           /\ \A k, m \in 1..Len(Segment(ss, i)) : k < m => InPlace(ss, Segment(ss, i)[k], Segment(ss, i)[m])
           /\ \A k \in 1..Len(EarlyPart(ss, i)) :
                 \E m \in 1..Len(Segment(ss, i)) : Segment(ss, i)[m] = EarlyPart(ss, i)[k]
           /\ \A k \in 1..Len(HerePart(ss, i)) :
                 \E m \in 1..Len(Segment(ss, i)) : Segment(ss, i)[m] = HerePart(ss, i)[k]
<1>1. PICK T : T = StepsOfAll(ss)
  OBVIOUS
<1>2. PICK a \in Seq(T), b \in Seq(T), c \in Seq(T) :
         a = EarlyPart(ss, i) /\ b = HerePart(ss, i) /\ c = OwnPart(ss, i)
  BY <1>1, PartsOfSegment
<1>3. PICK p \in Seq(Seq(T)) : /\ FlattenSeq(p) = (a \o b) \o c
                               /\ Len(p) = 3 /\ p[1] = a /\ p[2] = b /\ p[3] = c
  <2>1. PICK p : IsThree(T, a, b, c, p)
    BY FlattenThree
  <2> QED
    BY <2>1 DEF IsThree
<1>4. PICK q \in Seq(T) : q = Segment(ss, i) /\ q = FlattenSeq(p)
  BY <1>1, <1>2, <1>3, PartsOfSegment DEF Segment
<1>5. \A k \in 1..Len(a) : EarlyElement(ss, i, a[k])
  BY <1>2, EarlyElements
<1>6. \A k \in 1..Len(b) : HereElement(ss, i, b[k]) /\ k = 1
  BY <1>2, HereElements
<1>7. \A k \in 1..Len(c) : OwnElement(ss, i, c[k]) /\ k = 1
  BY <1>2, OwnElements
<1>8. ASSUME NEW e \in 1..3, NEW k \in 1..Len(p[e]) PROVE ElementIn(ss, i, p[e][k])
  <2>1. e = 1 \/ e = 2 \/ e = 3
    OBVIOUS
  <2> QED
    BY <1>3, <1>5, <1>6, <1>7, <1>8, <2>1 DEF ElementIn
<1>9. ASSUME NEW k \in 1..Len(q) PROVE ElementIn(ss, i, q[k])
  <2>1. \E e \in 1..Len(p) : \E j \in 1..Len(p[e]) : q[k] = p[e][j]
    <3>1. FlatBoth(p, q)
      BY <1>4, FlatBothWays
    <3> QED
      BY <3>1 DEF FlatBoth
  <2> QED
    BY <1>3, <1>8, <2>1
<1>10. ASSUME NEW k \in 1..Len(q), NEW m \in 1..Len(q), k < m PROVE InPlace(ss, q[k], q[m])
  <2>1. \E e, f \in 1..Len(p) : \E u \in 1..Len(p[e]), v \in 1..Len(p[f]) : PlacesOf(p, q[k], q[m], e, f, u, v)
    BY <1>4, <1>10, FlatPairs
  <2>2. PICK e \in 1..3, f \in 1..3 : \E u \in 1..Len(p[e]), v \in 1..Len(p[f]) : PlacesOf(p, q[k], q[m], e, f, u, v)
    BY <1>3, <2>1
  <2>3. PICK u \in 1..Len(p[e]), v \in 1..Len(p[f]) :
           q[k] = p[e][u] /\ q[m] = p[f][v] /\ (e < f \/ (e = f /\ u < v))
    BY <2>2 DEF PlacesOf
  <2>4. i <= i
    BY LogPositions
  <2>5. CASE e = 1 /\ f = 1
    <3>1. u \in 1..Len(a) /\ v \in 1..Len(a) /\ u < v /\ q[k] = a[u] /\ q[m] = a[v]
      <4>1. p[e] = a /\ p[f] = a
        BY <1>3, <2>5
      <4> QED
        BY <2>3, <2>5, <4>1
    <3>2. SummaryRef(a[u]) < SummaryRef(a[v])
      BY <1>2, <3>1, EarlyElements
    <3>3. a[v].item = 0
      BY <1>5, <3>1, SummaryStepIs DEF EarlyElement
    <3> QED
      BY <3>1, <3>2, <3>3 DEF InPlace
  <2>6. CASE e = 1 /\ f # 1
    <3>1. EarlyElement(ss, i, q[k])
      BY <1>3, <1>5, <2>3, <2>6
    <3>2. f = 2 \/ f = 3
      BY <2>6
    <3>3. HereElement(ss, i, q[m]) \/ OwnElement(ss, i, q[m])
      BY <1>3, <1>6, <1>7, <2>3, <3>2
    <3> QED
      BY <2>4, <3>1, <3>3, EarlyIsPlaced
  <2>7. CASE e = 2
    <3>1. HereElement(ss, i, q[k]) /\ u = 1
      BY <1>3, <1>6, <2>3, <2>7
    <3>2. f = 2 \/ f = 3
      BY <2>3, <2>7
    <3>3. f # 2
      <4> SUFFICES ASSUME f = 2 PROVE FALSE
        OBVIOUS
      <4>1. v = 1 /\ u < v
        BY <1>3, <1>6, <2>3, <2>7
      <4> QED
        BY <3>1, <4>1
    <3>4. OwnElement(ss, i, q[m])
      BY <1>3, <1>7, <2>3, <3>2, <3>3
    <3> QED
      BY <2>4, <3>1, <3>4, HereIsPlaced
  <2>8. CASE e = 3
    <3>1. OwnElement(ss, i, q[k])
      BY <1>3, <1>7, <2>3, <2>8
    <3> QED
      BY <3>1, OwnIsPlaced
  <2>9. e = 1 \/ e = 2 \/ e = 3
    OBVIOUS
  <2> QED
    BY <2>5, <2>6, <2>7, <2>8, <2>9
<1>11. \A e \in 1..3 : \A k \in 1..Len(p[e]) : \E m \in 1..Len(q) : q[m] = p[e][k]
  <2>1. \A e \in 1..Len(p) : \A k \in 1..Len(p[e]) : \E m \in 1..Len(q) : q[m] = p[e][k]
    <3>1. FlatBoth(p, q)
      BY <1>4, FlatBothWays
    <3> QED
      BY <3>1 DEF FlatBoth
  <2> QED
    BY <1>3, <2>1
<1>12. \A k \in 1..Len(a) : \E m \in 1..Len(q) : q[m] = a[k]
  <2>1. 1 \in 1..3
    OBVIOUS
  <2> QED
    BY <1>3, <1>11, <2>1
<1>13. \A k \in 1..Len(b) : \E m \in 1..Len(q) : q[m] = b[k]
  <2>1. 2 \in 1..3
    OBVIOUS
  <2> QED
    BY <1>3, <1>11, <2>1
<1> QED
  BY <1>2, <1>4, <1>9, <1>10, <1>12, <1>13

LEMMA SomeOpening ==
    ASSUME JhInv, NEW ss PROVE \E i \in 1..Len(log) + 2 : OpensSegment(ss, i)
<1>1. PICK n \in Nat : n = Len(log) /\ DOMAIN log = 1..n
  BY LogLength
<1>2. CASE \E k \in EntryItems : OpensIn(ss, k)
  <2>1. PICK k \in 1..n : k \in EntryItems /\ OpensIn(ss, k)
    BY <1>1, <1>2 DEF EntryItems
  <2>2. k + 1 \in 1..n + 2 /\ (k + 1) - 1 = k
    OBVIOUS
  <2> QED
    BY <1>1, <2>1, <2>2 DEF OpensSegment
<1>3. CASE ~\E k \in EntryItems : OpensIn(ss, k)
  <2>1. n + 2 \in 1..n + 2
    OBVIOUS
  <2> QED
    BY <1>1, <1>3, <2>1 DEF OpensSegment
<1> QED
  BY <1>2, <1>3

LEMMA SummaryIsPlaced ==
    ASSUME JhInv, NEW ss, AreSummaries(ss), NEW s \in ss
    PROVE  \E i \in 1..Len(log) + 2 : \E k \in 1..Len(Segment(ss, i)) : Segment(ss, i)[k] = SummaryStep(s)
<1>1. CASE s \in Early(ss)
  <2>1. PICK i \in 1..Len(log) + 2 : OpensSegment(ss, i)
    BY SomeOpening
  <2>2. PICK k \in 1..Len(EarlyPart(ss, i)) : EarlyPart(ss, i)[k] = SummaryStep(s)
    BY <1>1, <2>1, EarlyElements
  <2>3. \E m \in 1..Len(Segment(ss, i)) : Segment(ss, i)[m] = EarlyPart(ss, i)[k]
    BY SegmentPlaced
  <2> QED
    BY <2>2, <2>3
<1>2. CASE s \notin Early(ss)
  <2>1. PICK n \in Nat : n = Len(log) /\ DOMAIN log = 1..n
    BY LogLength
  <2>2. PICK x \in 1..n : x = s.pos
    BY <2>1, SummariesAre
  <2>3. PICK i \in 1..n + 2 : i - 1 = x
    <3>1. x + 1 \in 1..n + 2 /\ (x + 1) - 1 = x
      OBVIOUS
    <3> QED
      BY <3>1
  <2>4. x > LastWarmup(log, ss)
    <3>1. LastWarmup(log, ss) \in 0..n
      BY <2>1, LastWarmupIs
    <3>2. ~(x <= LastWarmup(log, ss))
      BY <1>2, <2>2 DEF Early
    <3> QED
      BY <3>1, <3>2
  <2>5. s \in HereIn(ss, i - 1) /\ i - 1 \in DOMAIN log
    BY <2>1, <2>2, <2>3, <2>4 DEF HereIn
  <2>6. PICK k \in 1..Len(HerePart(ss, i)) : HerePart(ss, i)[k] = SummaryStep(s)
    BY <2>1, <2>5, HereElements
  <2>7. \E m \in 1..Len(Segment(ss, i)) : Segment(ss, i)[m] = HerePart(ss, i)[k]
    BY <2>1, SegmentPlaced
  <2> QED
    BY <2>1, <2>6, <2>7
<1> QED
  BY <1>1, <1>2

LEMMA StepsPlaced ==
    ASSUME JhInv, NEW ss, AreSummaries(ss), NEW steps, steps = BuildSteps(log, Len(console), pushes, ss)
    PROVE  /\ \A k, m \in 1..Len(steps) : k < m => InPlace(ss, steps[k], steps[m])
           /\ \A k \in 1..Len(steps) : IsSummary(steps[k]) => \E s \in ss : steps[k] = SummaryStep(s)
           /\ \A s \in ss : \E k \in 1..Len(steps) : steps[k] = SummaryStep(s)
<1>1. PICK n \in Nat : n = Len(log) + 2
  BY LogPositions
<1>2. PICK T : T = StepsOfAll(ss)
  OBVIOUS
<1>3. PICK p \in Seq(Seq(T)) : p = Segments(ss) /\ Len(p) = n /\ \A i \in 1..n : p[i] = Segment(ss, i)
  BY <1>1, <1>2, SegmentsAre
<1>4. steps = FlattenSeq(p)
  BY <1>3, StepsInSegments
<1>5. ASSUME NEW i \in 1..n, NEW k \in 1..Len(p[i]) PROVE ElementIn(ss, i, p[i][k])
  BY <1>1, <1>3, <1>5, SegmentPlaced
<1>6. ASSUME NEW k \in 1..Len(steps), NEW m \in 1..Len(steps), k < m PROVE InPlace(ss, steps[k], steps[m])
  <2>1. \E i, j \in 1..Len(p) : \E a \in 1..Len(p[i]), b \in 1..Len(p[j]) : PlacesOf(p, steps[k], steps[m], i, j, a, b)
    BY <1>4, <1>6, FlatPairs
  <2>2. PICK i \in 1..n, j \in 1..n : \E a \in 1..Len(p[i]), b \in 1..Len(p[j]) : PlacesOf(p, steps[k], steps[m], i, j, a, b)
    BY <1>3, <2>1
  <2>3. PICK a \in 1..Len(p[i]), b \in 1..Len(p[j]) :
           steps[k] = p[i][a] /\ steps[m] = p[j][b] /\ (i < j \/ (i = j /\ a < b))
    BY <2>2 DEF PlacesOf
  <2>4. CASE i < j
    <3>1. ElementIn(ss, i, steps[k]) /\ ElementIn(ss, j, steps[m])
      BY <1>5, <2>3
    <3> QED
      BY <1>1, <2>4, <3>1, ElementsPlaced
  <2>5. CASE i = j /\ a < b
    <3>1. p[i] = Segment(ss, i) /\ i \in 1..Len(log) + 2
      BY <1>1, <1>3
    <3>2. \A u, v \in 1..Len(Segment(ss, i)) : u < v => InPlace(ss, Segment(ss, i)[u], Segment(ss, i)[v])
      BY <3>1, SegmentPlaced
    <3> QED
      BY <2>3, <2>5, <3>1, <3>2
  <2> QED
    BY <2>3, <2>4, <2>5
<1>7. ASSUME NEW k \in 1..Len(steps), IsSummary(steps[k]) PROVE \E s \in ss : steps[k] = SummaryStep(s)
  <2>1. \E i \in 1..Len(p) : \E j \in 1..Len(p[i]) : steps[k] = p[i][j]
    <3>1. FlatBoth(p, steps)
      BY <1>4, FlatBothWays
    <3> QED
      BY <3>1 DEF FlatBoth
  <2>2. PICK i \in 1..n : ElementIn(ss, i, steps[k])
    BY <1>3, <1>5, <2>1
  <2> QED
    BY <1>7, <2>2 DEF ElementIn, EarlyElement, HereElement, OwnElement, Early, HereIn
<1>8. ASSUME NEW s \in ss PROVE \E k \in 1..Len(steps) : steps[k] = SummaryStep(s)
  <2>1. PICK i \in 1..n : \E k \in 1..Len(Segment(ss, i)) : Segment(ss, i)[k] = SummaryStep(s)
    BY <1>1, SummaryIsPlaced
  <2>2. i \in 1..Len(p) /\ \E k \in 1..Len(p[i]) : p[i][k] = SummaryStep(s)
    BY <1>3, <2>1
  <2>3. FlatBoth(p, steps)
    BY <1>4, FlatBothWays
  <2>4. PICK k \in 1..Len(p[i]) : p[i][k] = SummaryStep(s)
    BY <2>2
  <2>5. \E m \in 1..Len(steps) : steps[m] = p[i][k]
    BY <2>2, <2>3 DEF FlatBoth
  <2> QED
    BY <2>4, <2>5
<1> QED
  BY <1>6, <1>7, <1>8

LEMMA SummariesInOrder ==
    ASSUME JhInv, NEW ss, AreSummaries(ss), NEW steps, steps = BuildSteps(log, Len(console), pushes, ss),
           NEW q, q = Picked(steps, {k \in DOMAIN steps : IsSummary(steps[k])})
    PROVE  [k \in DOMAIN q |-> SummaryRef(q[k])] = [k \in DOMAIN InOrder(ss) |-> InOrder(ss)[k].pos]
<1>1. PICK T : T = StepsOfAll(ss) /\ steps \in Seq(T)
  BY RestIsTheSame
<1>2. PICK at : at = {k \in DOMAIN steps : IsSummary(steps[k])} /\ at \subseteq DOMAIN steps
  OBVIOUS
<1>3. DOMAIN steps = 1..Len(steps) /\ Len(steps) \in Nat
  BY <1>1
<1>4. q = Picked(steps, at)
  BY <1>2
<1>5. PICK n \in Nat : n = Len(q) /\ DOMAIN q = 1..n /\ ToSet(q) = {steps[i] : i \in at}
  <2>1. Picked(steps, at) \in Seq(T) /\ ToSet(Picked(steps, at)) = {steps[i] : i \in at}
    BY <1>1, <1>2, PickedIs
  <2>2. q \in Seq(T)
    BY <1>4, <2>1
  <2>3. Len(q) \in Nat /\ DOMAIN q = 1..Len(q)
    BY <2>2
  <2> QED
    BY <1>4, <2>1, <2>3
<1>6. ASSUME NEW k \in 1..n PROVE \E s \in ss : q[k] = SummaryStep(s) /\ SummaryRef(q[k]) = s.pos
  <2>1. PICK i \in at : q[k] = steps[i]
    <3>1. q[k] \in ToSet(q)
      BY <1>5 DEF ToSet
    <3> QED
      BY <1>5, <3>1
  <2>2. i \in 1..Len(steps) /\ IsSummary(steps[i])
    BY <1>2, <1>3
  <2>3. PICK s \in ss : steps[i] = SummaryStep(s)
    BY <2>2, StepsPlaced
  <2> QED
    BY <2>1, <2>3, SummaryStepIs
<1>7. ASSUME NEW s \in ss PROVE \E k \in 1..n : SummaryRef(q[k]) = s.pos
  <2>1. PICK i \in 1..Len(steps) : steps[i] = SummaryStep(s)
    BY StepsPlaced
  <2>2. i \in at
    BY <1>2, <1>3, <2>1, SummaryStepIs
  <2>3. steps[i] \in ToSet(q)
    BY <1>5, <2>2
  <2>4. PICK k \in 1..n : q[k] = steps[i]
    BY <1>5, <2>3 DEF ToSet
  <2> QED
    BY <2>1, <2>4, SummaryStepIs
<1>8. ASSUME NEW i \in 1..n, NEW k \in 1..n, i < k PROVE SummaryRef(q[i]) < SummaryRef(q[k])
  <2>1. i \in 1..k - 1
    BY <1>8
  <2>2. PICK a \in at, b \in at : a < b /\ q[i] = steps[a] /\ q[k] = steps[b]
    <3>1. PicksUp(steps, at, q)
      BY <1>1, <1>2, <1>4, PickedUp
    <3> QED
      BY <1>5, <2>1, <3>1 DEF PicksUp
  <2>3. a \in 1..Len(steps) /\ b \in 1..Len(steps) /\ IsSummary(steps[a]) /\ IsSummary(steps[b])
    BY <1>2, <1>3
  <2>4. InPlace(ss, steps[a], steps[b])
    BY <2>2, <2>3, StepsPlaced
  <2> QED
    BY <2>2, <2>3, <2>4 DEF InPlace
<1>9. \A s \in ss : s.pos \in Nat
  BY DEF AreSummaries
<1>10. PICK r : r = [k \in 1..n |-> SummaryRef(q[k])]
  OBVIOUS
<1>11. r \in Seq(Nat) /\ Len(r) = n
  <2>1. \A k \in 1..n : SummaryRef(q[k]) \in Nat
    BY <1>6, <1>9
  <2> QED
    BY <1>10, <2>1
<1>12. PICK o : o = InOrder(ss) /\ Sorted(o, ss)
  BY SubSummaries
<1>13. PICK m \in Nat : m = Len(o) /\ DOMAIN o = 1..m /\ \A k \in 1..m : o[k] \in ss
  BY <1>12 DEF Sorted
<1>14. PICK t : t = [k \in 1..m |-> o[k].pos]
  OBVIOUS
<1>15. t \in Seq(Nat) /\ Len(t) = m
  <2>1. \A k \in 1..m : o[k].pos \in Nat
    BY <1>9, <1>13
  <2> QED
    BY <1>14, <2>1
<1>16. \A i, k \in 1..n : i < k => r[i] < r[k]
  BY <1>8, <1>10
<1>17. \A i, k \in 1..m : i < k => t[i] < t[k]
  BY <1>12, <1>13, <1>14 DEF Sorted
<1>18. ASSUME NEW i \in 1..n PROVE \E k \in 1..m : t[k] = r[i]
  <2>1. PICK s \in ss : SummaryRef(q[i]) = s.pos
    BY <1>6
  <2>2. PICK k \in 1..m : o[k] = s
    BY <1>12, <1>13 DEF Sorted
  <2> QED
    BY <1>10, <1>14, <2>1, <2>2
<1>19. \A i \in 1..m : \E k \in 1..n : r[k] = t[i]
  BY <1>7, <1>10, <1>13, <1>14
<1>20. r = t
  BY <1>11, <1>15, <1>16, <1>17, <1>18, <1>19, SameAscending
<1> QED
  BY <1>5, <1>10, <1>12, <1>13, <1>14, <1>20

LEMMA RestKept == ASSUME JhInv, NEW ss, AreSummaries(ss) PROVE RestIsKept(ss)
<1>1. PICK steps, whole : /\ steps = BuildSteps(log, Len(console), pushes, ss)
                          /\ whole = BuildSteps(log, Len(console), pushes, {})
  OBVIOUS
<1>2. /\ steps \in Seq(StepsOfAll(ss)) /\ whole \in Seq(StepsOfAll({}))
      /\ Filtered(steps, Unsummarized(ss)) = Filtered(whole, Uncovered(ss))
  BY <1>1, RestIsTheSame
<1>3. PICK summarized : summarized = {k \in DOMAIN steps : IsSummary(steps[k])}
  OBVIOUS
<1>4. PICK covered : covered = {k \in DOMAIN whole : \E s \in ss : whole[k].item \in s.pos..s.pos + s.len - 1}
  OBVIOUS
<1>5. DOMAIN steps \ summarized = {k \in DOMAIN steps : steps[k] \in Unsummarized(ss)}
  <2>1. \A k \in DOMAIN steps : steps[k] \in StepsOfAll(ss)
    BY <1>2
  <2> QED
    BY <1>3, <2>1 DEF Unsummarized
<1>6. DOMAIN whole \ covered = {k \in DOMAIN whole : whole[k] \in Uncovered(ss)}
  <2>1. \A k \in DOMAIN whole : whole[k] \in StepsOfAll({})
    BY <1>2
  <2> QED
    BY <1>4, <2>1 DEF Uncovered
<1>7. Picked(steps, DOMAIN steps \ summarized) = Picked(whole, DOMAIN whole \ covered)
  BY <1>2, <1>5, <1>6 DEF Filtered
<1>8. PICK q : q = Picked(steps, summarized)
  OBVIOUS
<1>9. [k \in DOMAIN q |-> SummaryRef(q[k])] = [k \in DOMAIN InOrder(ss) |-> InOrder(ss)[k].pos]
  BY <1>1, <1>3, <1>8, SummariesInOrder
<1>10. ASSUME NEW k \in summarized, NEW m \in DOMAIN steps, k < m, steps[m].item # 0
       PROVE  /\ log[steps[m].item].kind # "warmup"
              /\ steps[m].item > SummaryRef(steps[k]) \/ SummaryRef(steps[k]) <= LastWarmup(log, ss)
  <2>1. k \in 1..Len(steps) /\ m \in 1..Len(steps) /\ IsSummary(steps[k])
    BY <1>2, <1>3
  <2>2. InPlace(ss, steps[k], steps[m])
    BY <1>1, <1>10, <2>1, StepsPlaced
  <2> QED
    BY <1>10, <2>1, <2>2 DEF InPlace
<1> QED
  BY <1>1, <1>3, <1>4, <1>7, <1>8, <1>9, <1>10 DEF RestIsKept

(* job_history.py: whatever ranges of a history are compacted, the rest of   *)
(* it stays, and each summary stands once where its range was.              *)
THEOREM CompactionsKeepTheRest == Spec => []CompactionKeepsTheRest
<1>1. ASSUME JhInv, NEW ss \in Compactions PROVE AreSummaries(ss)
  <2>1. DOMAIN log \subseteq Nat
    BY <1>1, LogPositions
  <2>2. \A s \in Ranges : s \in [pos : Nat, len : Nat]
    BY <2>1 DEF Ranges
  <2> QED
    BY <1>1, <2>2 DEF Compactions, AreSummaries
<1>2. JhInv => CompactionKeepsTheRest
  BY <1>1, RestKept DEF CompactionKeepsTheRest
<1> QED
  BY <1>2, HistoryInvariant, PTL

=============================================================================
