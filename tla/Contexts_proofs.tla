-------------------------- MODULE Contexts_proofs --------------------------
(***************************************************************************)
(* Proofs about ExecContext, SharedContext and ToolScope: contexts nest until *)
(* a job goes on inside another one's context, with one permit always, names *)
(* keep their meaning in a block, and requests and calls keep to the scope   *)
(* of the tools.                                                            *)
(***************************************************************************)
EXTENDS ExecContext, SharedContext, ToolScope, SequenceLemmas

-----------------------------------------------------------------------------
(* Names of shared variables.                                               *)
Fields == {"runs", "context", "names", "statement", "resolved", "meant"}

(* What a block knows of one name: it was read as nothing but what it       *)
(* resolved to, a local of the last statement is one of the running one,    *)
(* and a name that was made local was absent, or a local before the block.  *)
NameOK(j, n) ==
    /\ n \notin DOMAIN block[j].resolved => block[j].meant[n] = {}
    /\ n \in DOMAIN block[j].resolved =>
          block[j].meant[n] \subseteq {block[j].resolved[n]} \ {Absent}
    /\ block[j].meant[n] # {} => n \notin block[j].statement
    /\ n \in block[j].statement /\ n \notin locals[j] =>
          n \in DOMAIN block[j].resolved /\ block[j].resolved[n] = Absent

(* The inductive invariant.                                                 *)
ScInv ==
    /\ DOMAIN block = SharingJobs /\ block = [j \in SharingJobs |-> block[j]]
    /\ DOMAIN locals = SharingJobs
    /\ \A j \in SharingJobs :
          /\ block[j] = NoBlock \/ DOMAIN block[j] = Fields
          /\ block[j] # NoBlock => /\ block[j].runs /\ DOMAIN block[j].meant = Names
                                    /\ block[j].names \subseteq block[j].statement
          /\ InBlock(j) => \A n \in Names : NameOK(j, n)

LEMMA ScInitInv == ScInit => ScInv
  BY DEF ScInit, ScInv, NoBlock, InBlock

(* A step of one job keeps the invariant if it keeps it of the job's block. *)
LEMMA OneBlockMoves ==
    ASSUME ScInv, NEW j \in SharingJobs, NEW b,
           block' = [block EXCEPT ![j] = b],
           b = NoBlock \/ (/\ DOMAIN b = Fields /\ b.runs /\ DOMAIN b.meant = Names
                            /\ b.names \subseteq b.statement),
           DOMAIN locals' = SharingJobs,
           \A i \in SharingJobs : i # j => locals'[i] = locals[i],
           InBlock(j)' => \A n \in Names : NameOK(j, n)'
    PROVE  ScInv'
<1>1. /\ DOMAIN block' = SharingJobs /\ block' = [i \in SharingJobs |-> block'[i]]
      /\ block'[j] = b /\ \A i \in SharingJobs : i # j => block'[i] = block[i]
  BY DEF ScInv
<1>2. ASSUME NEW i \in SharingJobs
      PROVE  /\ block'[i] = NoBlock \/ DOMAIN block'[i] = Fields
             /\ block'[i] # NoBlock => /\ block'[i].runs /\ DOMAIN block'[i].meant = Names
                                      /\ block'[i].names \subseteq block'[i].statement
             /\ InBlock(i)' => \A n \in Names : NameOK(i, n)'
  <2>1. CASE i = j
    BY <2>1, <1>1
  <2>2. CASE i # j
    BY <2>2, <1>1 DEF ScInv, InBlock, NameOK
  <2> QED
    BY <2>1, <2>2
<1> QED
  BY <1>1, <1>2 DEF ScInv

(* The block of a job that is in one.                                       *)
LEMMA Running ==
    ASSUME ScInv, NEW j \in SharingJobs, InBlock(j)
    PROVE  /\ block[j] # NoBlock /\ DOMAIN block[j] = Fields /\ block[j].runs
           /\ DOMAIN block[j].meant = Names /\ block[j].names \subseteq block[j].statement
           /\ \A n \in Names : NameOK(j, n)
<1>1. block[j] # NoBlock
  BY DEF InBlock, NoBlock
<1> QED
  BY <1>1 DEF ScInv

LEMMA StartKeeps ==
    ASSUME ScInv, NEW j \in SharingJobs, StartBlock(j) PROVE ScInv'
<1> DEFINE b == [runs |-> TRUE, context |-> binding[j], names |-> locals[j],
                 statement |-> locals[j], resolved |-> <<>>, meant |-> [n \in Names |-> {}]]
<1>1. block' = [block EXCEPT ![j] = b] /\ locals' = locals
  BY DEF StartBlock
<1>2. block'[j] = b /\ DOMAIN b = Fields
  BY <1>1 DEF ScInv, Fields
<1>3. \A n \in Names : NameOK(j, n)'
  BY <1>1, <1>2 DEF NameOK
<1> HIDE DEF b
<1>4. b.runs /\ DOMAIN b.meant = Names /\ b.names \subseteq b.statement /\ DOMAIN locals' = SharingJobs
  BY <1>1 DEF b, ScInv
<1> QED
  BY <1>1, <1>2, <1>3, <1>4, OneBlockMoves

(* A block in which a name was looked up.                                   *)
LEMMA ResolutionExtends ==
    ASSUME NEW j \in SharingJobs, NEW n
    PROVE  /\ DOMAIN Resolution(j, n) = DOMAIN block[j].resolved \cup {n}
           /\ Resolution(j, n)[n] = Resolved(j, n)
           /\ \A m \in DOMAIN block[j].resolved :
                 m # n => Resolution(j, n)[m] = block[j].resolved[m]
           /\ n \in DOMAIN block[j].resolved => Resolved(j, n) = block[j].resolved[n]
  BY DEF Resolution, Resolved

LEMMA ReadKeeps ==
    ASSUME ScInv, NEW j \in SharingJobs, NEW n \in Names, ReadName(j, n) PROVE ScInv'
<1> DEFINE b == [block[j] EXCEPT !.resolved = Resolution(j, n),
                                 !.meant[n] = @ \cup ({Resolved(j, n)} \ {Absent})]
<1>1. block' = [block EXCEPT ![j] = b] /\ locals' = locals /\ n \notin block[j].statement
  BY DEF ReadName
<1>2. InBlock(j)
  BY DEF ReadName
<1>3. /\ DOMAIN b = Fields /\ DOMAIN b.meant = Names /\ b.runs
      /\ b.names = block[j].names /\ b.statement = block[j].statement
      /\ b.names \subseteq b.statement
      /\ b.resolved = Resolution(j, n)
      /\ b.meant[n] = block[j].meant[n] \cup ({Resolved(j, n)} \ {Absent})
      /\ \A m \in Names : m # n => b.meant[m] = block[j].meant[m]
  BY <1>2, Running DEF Fields
<1> HIDE DEF b
<1>4. block'[j] = b
  BY <1>1 DEF ScInv
<1>5. ASSUME NEW m \in Names PROVE NameOK(j, m)'
  <2>1. NameOK(j, m)
    BY <1>2, Running
  <2> DEFINE new == Resolution(j, n)
             now == Resolved(j, n)
  <2>2. /\ DOMAIN new = DOMAIN block[j].resolved \cup {n} /\ new[n] = now
        /\ m # n /\ m \in DOMAIN block[j].resolved => new[m] = block[j].resolved[m]
        /\ n \in DOMAIN block[j].resolved => now = block[j].resolved[n]
    BY ResolutionExtends
  <2>3. b.resolved = new /\ b.meant[n] = block[j].meant[n] \cup ({now} \ {Absent})
    BY <1>3
  <2> HIDE DEF new, now
  <2>4. CASE m = n
    BY <2>1, <2>2, <2>3, <2>4, <1>1, <1>3, <1>4 DEF NameOK
  <2>5. CASE m # n
    BY <2>1, <2>2, <2>3, <2>5, <1>1, <1>3, <1>4 DEF NameOK
  <2> QED
    BY <2>4, <2>5
<1> QED
  BY <1>1, <1>3, <1>5, OneBlockMoves DEF ScInv

LEMMA AssignKeeps ==
    ASSUME ScInv, NEW j \in SharingJobs, NEW n \in Names, AssignName(j, n) PROVE ScInv'
<1>1. InBlock(j) /\ locals' = locals
  BY DEF AssignName
<1>2. CASE n \in block[j].names
  <2> DEFINE b == [block[j] EXCEPT !.statement = @ \cup {n}]
  <2>1. block' = [block EXCEPT ![j] = b]
    BY <1>2 DEF AssignName
  <2>2. /\ DOMAIN b = Fields /\ DOMAIN b.meant = Names /\ b.runs
        /\ b.names = block[j].names /\ b.statement = block[j].statement
        /\ b.names \subseteq b.statement
        /\ b.resolved = block[j].resolved /\ b.meant = block[j].meant
    BY <1>1, <1>2, Running DEF Fields
  <2> HIDE DEF b
  <2>3. block'[j] = b
    BY <2>1 DEF ScInv
  <2>4. ASSUME NEW m \in Names PROVE NameOK(j, m)'
    <3>1. NameOK(j, m)
      BY <1>1, Running
    <3> QED
      BY <3>1, <1>1, <2>2, <2>3 DEF NameOK
  <2> QED
    BY <1>1, <2>1, <2>2, <2>4, OneBlockMoves DEF ScInv
<1>3. CASE n \notin block[j].names
  <2> DEFINE b == [block[j] EXCEPT !.resolved = Resolution(j, n),
                     !.statement = IF Resolved(j, n) = Absent THEN @ \cup {n} ELSE @]
  <2>1. block' = [block EXCEPT ![j] = b]
    BY <1>3 DEF AssignName
  <2>2. /\ DOMAIN b = Fields /\ DOMAIN b.meant = Names /\ b.runs
        /\ b.names = block[j].names /\ b.meant = block[j].meant
        /\ b.names \subseteq b.statement
        /\ b.resolved = Resolution(j, n)
        /\ b.statement = IF Resolved(j, n) = Absent THEN block[j].statement \cup {n}
                         ELSE block[j].statement
    BY <1>1, Running DEF Fields
  <2> HIDE DEF b
  <2>3. block'[j] = b
    BY <2>1 DEF ScInv
  <2>4. ASSUME NEW m \in Names PROVE NameOK(j, m)'
    <3>1. NameOK(j, m)
      BY <1>1, Running
    <3> DEFINE new == Resolution(j, n)
               now == Resolved(j, n)
    <3>2. /\ DOMAIN new = DOMAIN block[j].resolved \cup {n} /\ new[n] = now
          /\ m # n /\ m \in DOMAIN block[j].resolved => new[m] = block[j].resolved[m]
          /\ n \in DOMAIN block[j].resolved => now = block[j].resolved[n]
      BY ResolutionExtends
    <3>3. /\ b.resolved = new
          /\ b.statement = IF now = Absent THEN block[j].statement \cup {n}
                           ELSE block[j].statement
      BY <2>2
    <3> HIDE DEF new, now
    <3>4. CASE m = n
      BY <3>1, <3>2, <3>3, <3>4, <1>1, <1>3, <2>2, <2>3 DEF NameOK
    <3>5. CASE m # n
      BY <3>1, <3>2, <3>3, <3>5, <1>1, <2>2, <2>3 DEF NameOK
    <3> QED
      BY <3>4, <3>5
  <2> QED
    BY <1>1, <2>1, <2>2, <2>4, OneBlockMoves DEF ScInv
<1> QED
  BY <1>2, <1>3

(* Taking names out of a block, or keeping those of a statement.            *)
LEMMA NarrowingKeeps ==
    ASSUME ScInv, NEW j \in SharingJobs, NEW names, NEW statement, InBlock(j),
           block' = [block EXCEPT ![j].names = names, ![j].statement = statement],
           names \subseteq statement, statement \subseteq block[j].statement,
           locals' = locals
    PROVE  ScInv'
<1> DEFINE b == [block[j] EXCEPT !.names = names, !.statement = statement]
<1>1. block' = [block EXCEPT ![j] = b]
  OBVIOUS
<1>2. /\ DOMAIN b = Fields /\ DOMAIN b.meant = Names /\ b.runs
      /\ b.names = names /\ b.statement = statement
      /\ b.resolved = block[j].resolved /\ b.meant = block[j].meant
  BY Running DEF Fields
<1> HIDE DEF b
<1>3. block'[j] = b
  BY <1>1 DEF ScInv
<1>4. ASSUME NEW m \in Names PROVE NameOK(j, m)'
  <2>1. NameOK(j, m)
    BY Running
  <2> QED
    BY <2>1, <1>2, <1>3 DEF NameOK
<1> QED
  BY <1>1, <1>2, <1>4, OneBlockMoves DEF ScInv

LEMMA DeleteKeeps ==
    ASSUME ScInv, NEW j \in SharingJobs, NEW n \in Names, DeleteName(j, n) PROVE ScInv'
<1> DEFINE names == block[j].names \ {n}
           statement == block[j].statement \ {n}
<1>1. /\ InBlock(j) /\ locals' = locals
      /\ block' = [block EXCEPT ![j].names = names, ![j].statement = statement]
  BY DEF DeleteName
<1>2. names \subseteq statement /\ statement \subseteq block[j].statement
  BY <1>1, Running
<1> HIDE DEF names, statement
<1> QED
  BY <1>1, <1>2, NarrowingKeeps

LEMMA EndStatementKeeps ==
    ASSUME ScInv, NEW j \in SharingJobs, EndStatement(j) PROVE ScInv'
<1>1. InBlock(j) /\ locals' = locals
  BY DEF EndStatement
<1>2. PICK functions \in SUBSET block[j].statement :
        LET kept == (block[j].names \cup block[j].statement) \ functions IN
        block' = [block EXCEPT ![j].names = kept, ![j].statement = kept]
  BY DEF EndStatement
<1> DEFINE kept == (block[j].names \cup block[j].statement) \ functions
<1>3. block' = [block EXCEPT ![j].names = kept, ![j].statement = kept]
  BY <1>2
<1>4. kept \subseteq block[j].statement
  BY <1>1, Running
<1> HIDE DEF kept
<1> QED
  BY <1>1, <1>3, <1>4, NarrowingKeeps

LEMMA LeaveKeeps ==
    ASSUME ScInv, NEW j \in SharingJobs, LeaveBlock(j) PROVE ScInv'
<1>1. /\ block' = [block EXCEPT ![j] = NoBlock] /\ DOMAIN locals' = SharingJobs
      /\ \A i \in SharingJobs : i # j => locals'[i] = locals[i]
  BY DEF LeaveBlock, ScInv
<1>2. ~InBlock(j)'
  BY <1>1 DEF ScInv, InBlock, NoBlock
<1> QED
  BY <1>1, <1>2, OneBlockMoves

LEMMA ScNextKeeps == ScInv /\ [ScNext]_scVars => ScInv'
<1> SUFFICES ASSUME ScInv, [ScNext]_scVars PROVE ScInv'
  OBVIOUS
<1>1. ASSUME UNCHANGED <<block, locals>> PROVE ScInv'
  BY <1>1 DEF ScInv, InBlock, NameOK
<1>2. ASSUME NEW j \in SharingJobs, InitContext(j) PROVE ScInv'
  BY <1>1, <1>2 DEF InitContext
<1>3. ASSUME NEW j \in SharingJobs, SetVar(j) PROVE ScInv'
  BY <1>1, <1>3 DEF SetVar
<1>4. CASE RemoveCategory
  BY <1>1, <1>4 DEF RemoveCategory
<1>5. CASE UNCHANGED scVars
  BY <1>1, <1>5 DEF scVars
<1> QED
  BY <1>2, <1>3, <1>4, <1>5, StartKeeps, EndStatementKeeps, LeaveKeeps, ReadKeeps,
     AssignKeeps, DeleteKeeps DEF ScNext

(* For any jobs, names and contexts, and any number of blocks and of        *)
(* variables that are set: a name that is not local stands for one shared    *)
(* variable until the block ends, and no local comes to hide it.            *)
THEOREM NamesKeepTheirMeaningAlways == ScSpec => []NamesKeepTheirMeaning
<1>1. ScInv => NamesKeepTheirMeaning
  <2> SUFFICES ASSUME ScInv, NEW j \in SharingJobs, InBlock(j), NEW n \in Names
               PROVE  /\ Cardinality(block[j].meant[n]) <= 1
                      /\ block[j].meant[n] # {} =>
                            n \notin block[j].names \cup block[j].statement
                      /\ n \in block[j].names \ locals[j] =>
                            n \in DOMAIN block[j].resolved /\ block[j].resolved[n] = Absent
    BY DEF NamesKeepTheirMeaning
  <2>1. NameOK(j, n) /\ block[j].names \subseteq block[j].statement
    BY Running
  <2>2. block[j].meant[n] = {} \/ \E v : block[j].meant[n] = {v}
    BY <2>1 DEF NameOK
  <2>3. Cardinality(block[j].meant[n]) \in {0, 1}
    BY <2>2, FS_EmptySet, FS_Singleton
  <2> QED
    BY <2>1, <2>3 DEF NameOK
<1> QED
  BY <1>1, ScInitInv, ScNextKeeps, PTL DEF ScSpec

-----------------------------------------------------------------------------
(* The contexts on the stack.                                               *)
USE ExecContextAssumption

(* What leaving the top frame does to a stack without repetition.          *)
LEMMA PopStack ==
    ASSUME stack \in Seq(Jobs), stack # <<>>
    PROVE  /\ Below \in Seq(Jobs)
           /\ Len(Below) = Len(stack) - 1
           /\ \A i \in DOMAIN Below : i \in DOMAIN stack /\ Below[i] = stack[i]
           /\ Len(stack) \in DOMAIN stack /\ Top \in Jobs
           /\ DOMAIN stack = DOMAIN Below \cup {Len(stack)}
           /\ Len(stack) \notin DOMAIN Below
<1>1. Len(stack) \in Nat \ {0}
    BY EmptySeq
<1>2. /\ Below \in Seq(Jobs) /\ Len(Below) = Len(stack) - 1
      /\ \A i \in 1..(Len(stack) - 1) : Below[i] = stack[i]
  <2> DEFINE n == Len(stack) - 1
  <2>1. n \in Nat /\ \A i \in 1..n : stack[i] \in Jobs
      BY <1>1
  <2>2. /\ SubSeq(stack, 1, n) \in Seq(Jobs)
        /\ Len(SubSeq(stack, 1, n)) = (IF 1 <= n THEN n - 1 + 1 ELSE 0)
        /\ \A i \in 1..(n - 1 + 1) : SubSeq(stack, 1, n)[i] = stack[1 + i - 1]
    <3> HIDE DEF n
    <3>1. QED
        BY <2>1, SubSeqProperties
  <2>3. /\ Len(SubSeq(stack, 1, n)) = n
        /\ \A i \in 1..n : SubSeq(stack, 1, n)[i] = stack[i]
    <3> HIDE DEF n
    <3>1. \A i \in 1..n : i \in 1..(n - 1 + 1) /\ 1 + i - 1 = i
        BY <2>1
    <3>2. QED
        BY <2>1, <2>2, <3>1
  <2>4. QED
      BY <2>2, <2>3, Zenon DEF Below, n
<1>3. DOMAIN stack = 1..Len(stack) /\ DOMAIN Below = 1..(Len(stack) - 1)
    BY <1>1, <1>2
<1>4. Top \in Jobs
    BY <1>1, <1>3 DEF Top
<1>5. QED
    BY <1>1, <1>2, <1>3, <1>4

LEMMA PushStack ==
    ASSUME stack \in Seq(Jobs), NEW j \in Jobs, stack' = Append(stack, j)
    PROVE  /\ stack' \in Seq(Jobs) /\ stack' # <<>>
           /\ Len(stack') = Len(stack) + 1 /\ stack'[Len(stack')] = j
           /\ DOMAIN stack' = DOMAIN stack \cup {Len(stack')}
           /\ Len(stack') \notin DOMAIN stack
           /\ \A i \in DOMAIN stack : stack'[i] = stack[i]
    OBVIOUS

LEMMA InitType == Init => TypeOK
<1> SUFFICES ASSUME Init PROVE TypeOK
    OBVIOUS
<1>1. FramesOK
    BY DEF Init, FramesOK, Framed
<1>2. within \in [Jobs -> SUBSET Jobs] /\ overtaken \in BOOLEAN
    BY DEF Init
<1>3. QED
    BY <1>1, <1>2 DEF Init, TypeOK, Patches

LEMMA TypeEnter ==
    ASSUME TypeOK, NEW j \in Jobs, NEW k \in {"code", "tool"}, OpenContext(j, k)
    PROVE  TypeOK'
<1> USE DEF OpenContext, MayEnter, Enter, Open
<1>1. /\ stack' \in Seq(Jobs) /\ j \notin Framed
      /\ kind[j] = "none" /\ where[j] = "out"
    BY PushStack DEF TypeOK, FramesOK
<1>2. FramesOK'
  <2>1. \A i, m \in DOMAIN stack' : stack'[i] = stack'[m] => i = m
      BY <1>1, PushStack, SMTT(30) DEF TypeOK, FramesOK, Framed
  <2>2. Framed' = Framed \cup {j}
      BY <1>1, PushStack, SMTT(30) DEF Framed, TypeOK
  <2>3. \A m \in Jobs : where'[m] \in {"running", "driving"} <=> m \in Framed'
      BY <1>1, <2>2 DEF TypeOK, FramesOK
  <2>4. \A i \in DOMAIN stack' : where'[stack'[i]] = "running" => i = Len(stack')
    <3>1. \A i \in DOMAIN stack : where[stack[i]] # "running"
        BY PopStack DEF TypeOK, FramesOK, LoopRuns, Top
    <3>2. \A i \in DOMAIN stack : stack[i] # j
        BY <1>1 DEF Framed
    <3>3. QED
        BY <3>1, <3>2, PushStack DEF TypeOK
  <2>5. \A m \in Jobs : kind'[m] = "none" <=> where'[m] = "out"
      BY <1>1 DEF TypeOK, FramesOK
  <2>6. QED
      BY <2>1, <2>3, <2>4, <2>5 DEF FramesOK
<1>3. /\ patch' \in Patches /\ saved' \in [Jobs -> [patch: Patches, current: Jobs \cup {NoJob}]]
      /\ current' \in Jobs \cup {NoJob} /\ opened' \in [Jobs -> 0..MaxContexts]
      /\ within' \in [Jobs -> SUBSET Jobs]
  <2>1. opened[j] + 1 \in 1..MaxContexts
      BY DEF TypeOK
  <2>2. QED
      BY <2>1 DEF TypeOK, Patches
<1>4. QED
    BY <1>1, <1>2, <1>3 DEF TypeOK

(* A frame that keeps its place on the stack and runs or drives.           *)
LEMMA TypeStay ==
    ASSUME TypeOK, NEW j \in Jobs, NEW w \in {"running", "driving"},
           IsTop(j), where[j] \in {"running", "driving"},
           where' = [where EXCEPT ![j] = w],
           UNCHANGED <<patch, current, saved, kind, stack, opened, within>>,
           driven' \subseteq Jobs, overtaken' \in BOOLEAN
    PROVE  TypeOK'
<1>1. \A i \in DOMAIN stack : stack[i] = j => i = Len(stack)
    BY PopStack DEF IsTop, Top, TypeOK, FramesOK
<1>2. FramesOK'
    BY <1>1 DEF TypeOK, FramesOK, Framed
<1>3. QED
    BY <1>2 DEF TypeOK, Patches

(* The top frame leaves the stack, for an await or for good.               *)
LEMMA TypePop ==
    ASSUME TypeOK, NEW j \in Jobs, IsTop(j), where[j] = "running", stack' = Below,
           NEW w \in {"out", "awaiting"}, where' = [where EXCEPT ![j] = w],
           kind' \in [Jobs -> {"none", "code", "tool"}],
           \A m \in Jobs : kind'[m] = "none" <=> where'[m] = "out",
           patch' \in Patches, current' \in Jobs \cup {NoJob},
           within' \in [Jobs -> SUBSET Jobs], UNCHANGED <<saved, driven, opened, overtaken>>
    PROVE  TypeOK'
<1>1. \A i \in DOMAIN Below : stack[i] # j
    BY PopStack DEF IsTop, Top, TypeOK, FramesOK
<1>2. \A m \in Jobs : m \in Framed' <=> m \in Framed /\ m # j
  <2>1. \A m \in Jobs : m \in Framed' <=> \E i \in DOMAIN Below : stack[i] = m
      BY PopStack DEF IsTop, TypeOK, Framed
  <2>2. \A m \in Jobs : m \in Framed <=> m = j \/ \E i \in DOMAIN Below : stack[i] = m
      BY PopStack DEF IsTop, Top, TypeOK, Framed
  <2>3. QED
      BY <1>1, <2>1, <2>2
<1>3. \A i \in DOMAIN Below : where'[Below[i]] # "running"
    BY <1>1, PopStack DEF TypeOK, FramesOK, IsTop
<1>4. \A i, k \in DOMAIN Below : Below[i] = Below[k] => i = k
    BY PopStack DEF TypeOK, FramesOK, IsTop
<1>5. \A m \in Jobs : where'[m] \in {"running", "driving"} <=> m \in Framed'
    BY <1>2 DEF TypeOK, FramesOK
<1>6. FramesOK'
    BY <1>3, <1>4, <1>5 DEF FramesOK
<1>7. QED
    BY <1>6, PopStack DEF TypeOK, Patches, IsTop

LEMMA GoesOnFlag == ASSUME TypeOK, NEW j \in Jobs, GoesOn(j) PROVE overtaken' \in BOOLEAN
  BY Zenon DEF GoesOn, TypeOK

LEMMA TypeContinue == ASSUME TypeOK, NEW j \in Jobs, ContinueTool(j) PROVE TypeOK'
<1>0. overtaken' \in BOOLEAN
    BY GoesOnFlag DEF ContinueTool
<1>a. where' = [where EXCEPT ![j] = "running"]
    BY DEF ContinueTool, GoesOn
<1> USE <1>a DEF ContinueTool
<1>1. stack' \in Seq(Jobs) /\ j \notin Framed
    BY PushStack DEF TypeOK, FramesOK
<1>2. Framed' = Framed \cup {j}
    BY <1>1, PushStack DEF Framed, TypeOK
<1>3. \A i \in DOMAIN stack : where[stack[i]] # "running" /\ stack[i] # j
    BY <1>1, PopStack DEF TypeOK, FramesOK, LoopRuns, Top, Framed
<1>4. \A i \in DOMAIN stack' : where'[stack'[i]] = "running" => i = Len(stack')
    BY <1>3, PushStack DEF TypeOK
<1>5. \A i, m \in DOMAIN stack' : stack'[i] = stack'[m] => i = m
    BY <1>3, PushStack DEF TypeOK, FramesOK
<1>6. FramesOK'
    BY <1>2, <1>4, <1>5 DEF TypeOK, FramesOK
<1>7. QED
    BY <1>0, <1>1, <1>6 DEF TypeOK, Patches

LEMMA TypeStep == TypeOK /\ [Next]_vars => TypeOK'
<1> SUFFICES ASSUME TypeOK, [Next]_vars PROVE TypeOK'
    OBVIOUS
<1>1. CASE UNCHANGED vars
    BY <1>1 DEF vars, TypeOK, FramesOK, Framed, Patches
<1>2. ASSUME NEW j \in Jobs, NEW k \in {"code", "tool"}, OpenContext(j, k) PROVE TypeOK'
    BY <1>2, TypeEnter
<1>3. ASSUME NEW j \in Jobs, Drive(j) PROVE TypeOK'
    BY <1>3, TypeStay DEF Drive, TypeOK
<1>4. ASSUME NEW j \in Jobs, DriveEnds(j) PROVE TypeOK'
    BY <1>4 DEF DriveEnds, TypeOK, FramesOK, Framed, Patches
<1>5. ASSUME NEW j \in Jobs, DriveReturns(j) PROVE TypeOK'
  <2>1. /\ IsTop(j) /\ where[j] = "driving" /\ overtaken' \in BOOLEAN
        /\ where' = [where EXCEPT ![j] = "running"] /\ driven' = driven
        /\ UNCHANGED <<patch, current, saved, kind, stack, opened, within>>
      BY <1>5, GoesOnFlag DEF DriveReturns, GoesOn
  <2>2. driven' \subseteq Jobs
      BY <2>1 DEF TypeOK
  <2>3. QED
      BY <2>1, <2>2, TypeStay
<1>6. ASSUME NEW j \in Jobs, AwaitTool(j) PROVE TypeOK'
    BY <1>6, TypePop DEF AwaitTool, TypeOK, FramesOK
<1>7. ASSUME NEW j \in Jobs, ContinueTool(j) PROVE TypeOK'
    BY <1>7, TypeContinue
<1>8. ASSUME NEW j \in Jobs, CloseContext(j) PROVE TypeOK'
  <2>1. /\ patch' \in Patches /\ current' \in Jobs \cup {NoJob}
        /\ kind' \in [Jobs -> {"none", "code", "tool"}]
        /\ \A m \in Jobs : kind'[m] = "none" <=> where'[m] = "out"
        /\ within' \in [Jobs -> SUBSET Jobs]
      BY <1>8 DEF CloseContext, Leave, TypeOK, FramesOK
  <2>2. QED
      BY <1>8, <2>1, TypePop DEF CloseContext, Leave
<1>9. QED
    BY <1>1, <1>2, <1>3, <1>4, <1>5, <1>6, <1>7, <1>8 DEF Next

(* Types, and one frame per job of which only the top one runs.            *)
THEOREM ContextTypeCorrect == Spec => []TypeOK
    BY InitType, TypeStep, PTL DEF Spec

-----------------------------------------------------------------------------
(* Until a job is overtaken the open contexts form a chain: the patch is    *)
(* that of the innermost one, and each of them saved what the innermost of  *)
(* those it was opened in had in place.                                     *)
Chain(S, s) ==
    \/ S = {} /\ s.patch = Python /\ s.current = NoJob
    \/ \E k \in S : s.patch = Context(k) /\ s.current = k /\ S \ {k} \subseteq within[k]
InPlace == [patch |-> patch, current |-> current]
Nested ==
    /\ \A j \in Jobs : within[j] \subseteq Open \ {j} /\ (j \notin Open => within[j] = {})
    /\ ~overtaken =>
          /\ \A j \in Jobs : where[j] = "running" => Inside(j) = {}
          /\ Chain(Open, InPlace)
          /\ \A j \in Open : Chain(within[j], saved[j])

(* A chain stands as long as its contexts stay as they are.                *)
LEMMA ChainStays ==
    ASSUME NEW S, NEW s, Chain(S, s),
           \A k \in S : Context(k)' = Context(k) /\ within'[k] = within[k]
    PROVE  Chain(S, s)'
  BY DEF Chain

LEMMA NestedOpen ==
    ASSUME TypeOK, Nested, NEW j \in Jobs, NEW k \in {"code", "tool"}, OpenContext(j, k)
    PROVE  Nested'
<1>1. /\ LoopRuns /\ j \notin Open
      /\ kind' = [kind EXCEPT ![j] = k] /\ where' = [where EXCEPT ![j] = "running"]
      /\ opened' = [opened EXCEPT ![j] = @ + 1] /\ within' = [within EXCEPT ![j] = Open]
      /\ saved' = [saved EXCEPT ![j] = [patch |-> patch, current |-> current]]
      /\ patch' = <<j, opened[j] + 1>> /\ current' = j /\ overtaken' = overtaken
  BY DEF OpenContext, MayEnter, Enter
<1>2. Open' = Open \cup {j} /\ Open \subseteq Jobs
  BY <1>1 DEF Open, TypeOK
<1>3. within'[j] = Open /\ \A i \in Jobs : i # j => within'[i] = within[i] /\ saved'[i] = saved[i]
  BY <1>1 DEF TypeOK
<1>4. \A i \in Open : Context(i)' = Context(i) /\ within'[i] = within[i] /\ i # j
  BY <1>1, <1>2, <1>3 DEF Context, TypeOK
<1>5. \A i \in Jobs : within'[i] \subseteq Open' \ {i} /\ (i \notin Open' => within'[i] = {})
  BY <1>1, <1>2, <1>3 DEF Nested
<1>6. ASSUME ~overtaken
      PROVE  /\ \A i \in Jobs : where'[i] = "running" => Inside(i)' = {}
             /\ Chain(Open, InPlace)'
             /\ \A i \in Open' : Chain(within[i], saved[i])'
  <2>1. ASSUME NEW i \in Jobs, where'[i] = "running" PROVE Inside(i)' = {}
    <3>1. i = j
      <4> SUFFICES ASSUME i # j PROVE FALSE
        OBVIOUS
      <4>1. where[i] = "running"
        BY <1>1, <2>1 DEF TypeOK
      <4>2. PICK n \in DOMAIN stack : stack[n] = i
        BY <4>1 DEF TypeOK, FramesOK, Framed
      <4>3. n = Len(stack) /\ stack # <<>>
        BY <4>1, <4>2 DEF TypeOK, FramesOK
      <4> QED
        BY <1>1, <4>1, <4>2, <4>3 DEF LoopRuns, Top
    <3>2. \A m \in Jobs : j \notin within'[m]
      BY <1>1, <1>3 DEF Nested
    <3> QED
      BY <3>1, <3>2 DEF Inside
  <2>2. Chain(Open, InPlace)'
    <3>1. Context(j)' = patch' /\ InPlace'.patch = patch' /\ InPlace'.current = j
      BY <1>1 DEF Context, InPlace, TypeOK
    <3>2. j \in Open' /\ Open' \ {j} \subseteq within'[j]
      BY <1>1, <1>2, <1>3
    <3> QED
      BY <3>1, <3>2 DEF Chain
  <2>3. ASSUME NEW i \in Open' PROVE Chain(within[i], saved[i])'
    <3>1. CASE i = j
      <4>1. saved'[i] = InPlace /\ within'[i] = Open
        BY <1>1, <1>3, <3>1 DEF InPlace, TypeOK
      <4> DEFINE S == Open
                 s == InPlace
      <4>2. Chain(S, s) /\ \A m \in S : Context(m)' = Context(m) /\ within'[m] = within[m]
        BY <1>4, <1>6 DEF Nested
      <4>3. within'[i] = S /\ saved'[i] = s
        BY <4>1
      <4> HIDE DEF S, s
      <4> QED
        BY <4>2, <4>3 DEF Chain
    <3>2. CASE i # j
      <4>1. i \in Open /\ i \in Jobs
        BY <1>2, <3>2
      <4>2. Chain(within[i], saved[i]) /\ within[i] \subseteq Open
        BY <1>6, <4>1 DEF Nested
      <4>3. within'[i] = within[i] /\ saved'[i] = saved[i]
        BY <1>3, <3>2, <4>1
      <4> QED
        BY <1>4, <4>2, <4>3 DEF Chain
    <3> QED
      BY <3>1, <3>2
  <2> QED
    BY <2>1, <2>2, <2>3
<1> QED
  BY <1>1, <1>5, <1>6, Zenon DEF Nested

LEMMA NestedClose ==
    ASSUME TypeOK, Nested, NEW j \in Jobs, CloseContext(j) PROVE Nested'
<1>1. /\ where[j] = "running"
      /\ kind' = [kind EXCEPT ![j] = "none"] /\ where' = [where EXCEPT ![j] = "out"]
      /\ within' = [i \in Jobs |-> IF i = j THEN {} ELSE within[i] \ {j}]
      /\ patch' = saved[j].patch /\ current' = saved[j].current
      /\ saved' = saved /\ opened' = opened /\ overtaken' = overtaken
  BY DEF CloseContext, Leave
<1>2. Open' = Open \ {j} /\ Open \subseteq Jobs /\ j \in Open
  BY <1>1 DEF Open, TypeOK, FramesOK
<1>3. \A i \in Jobs : within'[i] \subseteq Open' \ {i} /\ (i \notin Open' => within'[i] = {})
  BY <1>1, <1>2 DEF Nested
<1>4. ASSUME ~overtaken
      PROVE  /\ \A i \in Jobs : where'[i] = "running" => Inside(i)' = {}
             /\ Chain(Open, InPlace)'
             /\ \A i \in Open' : Chain(within[i], saved[i])'
  <2>1. Inside(j) = {}
    BY <1>1, <1>4 DEF Nested
  <2>2. \A i \in Jobs : j \notin within[i]
    BY <2>1 DEF Inside
  <2>3. \A i \in Jobs : i # j => within'[i] = within[i]
    BY <1>1, <2>2
  <2>4. \A i \in Open' : Context(i)' = Context(i) /\ within'[i] = within[i] /\ i \in Jobs
    BY <1>1, <1>2, <2>3 DEF Context
  <2>5. ASSUME NEW i \in Jobs, where'[i] = "running" PROVE Inside(i)' = {}
    <3>1. i # j /\ where[i] = "running"
      BY <1>1, <2>5 DEF TypeOK
    <3>2. \A m \in Jobs : i \notin within[m]
      BY <1>4, <3>1 DEF Nested, Inside
    <3> QED
      BY <1>1, <3>2 DEF Inside
  <2>6. within[j] = Open'
    <3>1. Chain(Open, InPlace) /\ within[j] \subseteq Open \ {j}
      BY <1>4 DEF Nested
    <3>2. PICK k \in Open : Open \ {k} \subseteq within[k]
      BY <1>2, <3>1 DEF Chain
    <3>3. k = j
      BY <1>2, <2>2, <3>2
    <3> QED
      BY <1>2, <3>1, <3>2, <3>3
  <2>7. Chain(Open, InPlace)'
    <3>1. Chain(within[j], saved[j])
      BY <1>2, <1>4 DEF Nested
    <3>2. InPlace'.patch = saved[j].patch /\ InPlace'.current = saved[j].current
      BY <1>1 DEF InPlace
    <3> QED
      BY <2>4, <2>6, <3>1, <3>2 DEF Chain
  <2>8. ASSUME NEW i \in Open' PROVE Chain(within[i], saved[i])'
    <3>1. i \in Jobs /\ i # j /\ i \in Open
      BY <1>2, <2>8
    <3>2. Chain(within[i], saved[i]) /\ within[i] \subseteq Open'
      BY <1>2, <1>4, <2>2, <3>1 DEF Nested
    <3>3. within'[i] = within[i] /\ saved'[i] = saved[i]
      BY <1>1, <2>3, <3>1
    <3> QED
      BY <2>4, <3>2, <3>3 DEF Chain
  <2> QED
    BY <2>5, <2>7, <2>8
<1> QED
  BY <1>1, <1>3, <1>4, Zenon DEF Nested

(* Steps that open and close nothing.                                       *)
LEMMA NestedStay ==
    ASSUME Nested, UNCHANGED <<patch, current, saved, kind, opened, within>>,
           ~overtaken' => ~overtaken /\ \A i \in Jobs :
               where'[i] = "running" => where[i] = "running" \/ Inside(i) = {}
    PROVE  Nested'
<1>1. /\ Open' = Open /\ InPlace' = InPlace /\ \A i \in Jobs : Inside(i)' = Inside(i)
      /\ \A S, s : Chain(S, s)' = Chain(S, s)
  BY DEF Open, InPlace, Inside, Chain, Context
<1> QED
  BY <1>1 DEF Nested

LEMMA NestedStep == TypeOK /\ Nested /\ [Next]_vars => Nested'
<1> SUFFICES ASSUME TypeOK, Nested, [Next]_vars PROVE Nested'
    OBVIOUS
<1>1. CASE UNCHANGED vars
    BY <1>1, NestedStay DEF vars
<1>2. ASSUME NEW j \in Jobs, NEW k \in {"code", "tool"}, OpenContext(j, k) PROVE Nested'
    BY <1>2, NestedOpen
<1>3. ASSUME NEW j \in Jobs, Drive(j) \/ DriveEnds(j) \/ AwaitTool(j) PROVE Nested'
    BY <1>3, NestedStay DEF Drive, DriveEnds, AwaitTool, TypeOK
<1>4. ASSUME NEW j \in Jobs, DriveReturns(j) \/ ContinueTool(j) PROVE Nested'
  <2>1. /\ where' = [where EXCEPT ![j] = "running"]
        /\ overtaken' = (overtaken \/ Inside(j) # {})
        /\ UNCHANGED <<patch, current, saved, kind, opened, within>>
    BY <1>4 DEF DriveReturns, ContinueTool, GoesOn
  <2>2. ASSUME ~overtaken'
        PROVE  ~overtaken /\ \A i \in Jobs :
                  where'[i] = "running" => where[i] = "running" \/ Inside(i) = {}
    <3>1. ~overtaken /\ Inside(j) = {}
      BY <2>1, <2>2, Zenon
    <3> QED
      BY <2>1, <3>1 DEF TypeOK
  <2> QED
    BY <2>1, <2>2, NestedStay
<1>5. ASSUME NEW j \in Jobs, CloseContext(j) PROVE Nested'
    BY <1>5, NestedClose
<1>6. QED
    BY <1>1, <1>2, <1>3, <1>4, <1>5 DEF Next

LEMMA NestedInit == Init => Nested
<1> SUFFICES ASSUME Init PROVE Nested
  OBVIOUS
<1>1. Open = {} /\ \A j \in Jobs : within[j] = {} /\ Inside(j) = {}
  BY DEF Init, Open, Inside
<1>2. Chain(Open, InPlace)
  BY <1>1 DEF Init, Chain, InPlace
<1> QED
  BY <1>1, <1>2 DEF Nested

(* What the invariant says of running code, and with no context open.      *)
LEMMA NestedMeans ==
    ASSUME TypeOK, Nested, ~overtaken
    PROVE  RunningCodeKeepsItsContext /\ BuiltinsAreRestored
<1>1. Chain(Open, InPlace)
  BY DEF Nested
<1>2. ASSUME NEW j \in Jobs, where[j] = "running" PROVE patch = Context(j) /\ current = j
  <2>1. j \in Open /\ Inside(j) = {}
    BY <1>2 DEF Open, TypeOK, FramesOK, Nested
  <2>2. PICK k \in Open : patch = Context(k) /\ current = k /\ Open \ {k} \subseteq within[k]
    BY <1>1, <2>1 DEF Chain, InPlace
  <2>3. k = j
    BY <2>1, <2>2 DEF Inside, Open
  <2> QED
    BY <2>2, <2>3
<1>3. BuiltinsAreRestored
  BY <1>1 DEF BuiltinsAreRestored, Chain, InPlace
<1> QED
  BY <1>2, <1>3 DEF RunningCodeKeepsItsContext

(* executors/utils.py, src/statek/utils.py: for any number of jobs and       *)
(* permits, however deep the loops nest and wherever tools are awaited,     *)
(* running code keeps its print, exit and current job and the interpreter's *)
(* own ones come back, until a job goes on with a context inside its own    *)
(* still open.                                                              *)
THEOREM ContextsNestAlways == Spec => []ContextsNest
<1>1. TypeOK /\ Nested => ContextsNest
  BY NestedMeans DEF ContextsNest
<1>2. Init => TypeOK /\ Nested
  BY InitType, NestedInit
<1>3. TypeOK /\ Nested /\ [Next]_vars => TypeOK' /\ Nested'
  BY TypeStep, NestedStep
<1> QED
  BY <1>1, <1>2, <1>3, PTL DEF Spec

(* As long as tools are awaited alone nobody is overtaken: the jobs on the   *)
(* stack were opened in one another, the lower ones first.                  *)
Stacked ==
    /\ ~overtaken
    /\ \A i, k \in DOMAIN stack : i < k => stack[k] \notin within[stack[i]]

LEMMA StackedReturn ==
    ASSUME TypeOK, Nested, Stacked, AwaitedAlone, NEW j \in Jobs, DriveReturns(j)
    PROVE  Inside(j) = {}
<1>1. /\ stack # <<>> /\ Len(stack) \in DOMAIN stack /\ stack[Len(stack)] = j
      /\ where[j] = "driving" /\ j \in Open
  BY PopStack DEF DriveReturns, IsTop, Top, TypeOK, FramesOK, Open
<1> SUFFICES ASSUME NEW i \in Inside(j) PROVE FALSE
  OBVIOUS
<1>2. i \in Jobs /\ j \in within[i] /\ i # j /\ i \in Open
  <2>1. i \in Jobs /\ j \in within[i]
    BY DEF Inside
  <2>2. within[i] # {}
    BY <2>1
  <2> QED
    BY <2>1, <2>2 DEF Nested
<1>3. where[i] # "awaiting"
  BY <1>1, <1>2 DEF AwaitedAlone
<1>4. PICK n \in DOMAIN stack : stack[n] = i
  <2>1. kind[i] # "none" /\ where[i] # "out"
    BY <1>2 DEF Open, TypeOK, FramesOK
  <2>2. where[i] \in {"running", "driving"}
    BY <1>2, <1>3, <2>1 DEF TypeOK
  <2> QED
    BY <1>2, <2>2 DEF TypeOK, FramesOK, Framed
<1>5. n < Len(stack)
  BY <1>1, <1>2, <1>4 DEF TypeOK
<1> QED
  BY <1>1, <1>2, <1>4, <1>5 DEF Stacked

LEMMA StackedContinue ==
    ASSUME TypeOK, Nested, AwaitedAlone, NEW j \in Jobs, ContinueTool(j)
    PROVE  Inside(j) = {} /\ stack = <<>>
<1>1. where[j] = "awaiting" /\ Open = {j}
  BY DEF ContinueTool, AwaitedAlone
<1>2. \A i \in Jobs : j \notin within[i]
  BY <1>1 DEF Nested
<1>3. stack = <<>>
  <2> SUFFICES ASSUME stack # <<>> PROVE FALSE
    OBVIOUS
  <2>1. Top \in Jobs /\ Top \in Framed
    BY PopStack DEF TypeOK, Framed, Top
  <2> QED
    BY <1>1, <2>1 DEF TypeOK, FramesOK, Open
<1> QED
  BY <1>2, <1>3 DEF Inside

LEMMA StackedStep ==
    ASSUME TypeOK, Nested, Stacked, AwaitedAlone, [Next]_vars PROVE Stacked'
<1>1. ASSUME UNCHANGED <<stack, within>>, ~overtaken' PROVE Stacked'
  BY <1>1 DEF Stacked
<1>2. ASSUME NEW j \in Jobs, stack' = Below, stack # <<>>, ~overtaken',
             \A i \in Jobs : within'[i] \subseteq within[i]
      PROVE  Stacked'
  <2>1. \A i \in DOMAIN Below : i \in DOMAIN stack /\ Below[i] = stack[i] /\ stack[i] \in Jobs
    BY <1>2, PopStack DEF TypeOK
  <2> QED
    BY <1>2, <2>1 DEF Stacked
<1>3. CASE UNCHANGED vars
  BY <1>1, <1>3 DEF vars, Stacked
<1>4. ASSUME NEW j \in Jobs, NEW k \in {"code", "tool"}, OpenContext(j, k) PROVE Stacked'
  <2>1. /\ stack' = Append(stack, j) /\ within' = [within EXCEPT ![j] = Open]
        /\ overtaken' = overtaken /\ j \notin Open
    BY <1>4 DEF OpenContext, MayEnter, Enter
  <2>2. \A i \in DOMAIN stack : stack[i] \in Jobs /\ stack[i] # j
    BY <2>1, SMTT(30) DEF TypeOK, FramesOK, Framed, Open
  <2>3. \A i \in Jobs : j \notin within[i]
    BY <2>1 DEF Nested
  <2>4. \A i \in DOMAIN stack : stack'[i] = stack[i] /\ within'[stack[i]] = within[stack[i]]
    BY <2>1, <2>2, PushStack DEF TypeOK
  <2>5. ASSUME NEW i \in DOMAIN stack', NEW n \in DOMAIN stack', i < n
        PROVE  stack'[n] \notin within'[stack'[i]]
    <3>1. /\ DOMAIN stack' = DOMAIN stack \cup {Len(stack')} /\ stack'[Len(stack')] = j
          /\ i \in DOMAIN stack
      BY <2>1, <2>5, PushStack DEF TypeOK
    <3>2. CASE n \in DOMAIN stack
      BY <2>4, <2>5, <3>1, <3>2 DEF Stacked
    <3>3. CASE n = Len(stack')
      BY <2>2, <2>3, <2>4, <3>1, <3>3
    <3> QED
      BY <3>1, <3>2, <3>3
  <2> QED
    BY <2>1, <2>5 DEF Stacked
<1>5. ASSUME NEW j \in Jobs, Drive(j) \/ DriveEnds(j) PROVE Stacked'
  BY <1>1, <1>5 DEF Drive, DriveEnds, Stacked
<1>6. ASSUME NEW j \in Jobs, DriveReturns(j) PROVE Stacked'
  <2>1. ~overtaken'
    BY <1>6, StackedReturn, Zenon DEF DriveReturns, GoesOn, Stacked
  <2> QED
    BY <1>1, <1>6, <2>1 DEF DriveReturns
<1>7. ASSUME NEW j \in Jobs, AwaitTool(j) PROVE Stacked'
  BY <1>2, <1>7 DEF AwaitTool, IsTop, Stacked
<1>8. ASSUME NEW j \in Jobs, ContinueTool(j) PROVE Stacked'
  <2>1. Inside(j) = {} /\ stack = <<>>
    BY <1>8, StackedContinue
  <2>2. ~overtaken'
    BY <1>8, <2>1, Zenon DEF ContinueTool, GoesOn, Stacked
  <2>3. stack' = <<j>>
    BY <1>8, <2>1 DEF ContinueTool
  <2> QED
    BY <2>2, <2>3 DEF Stacked
<1>9. ASSUME NEW j \in Jobs, CloseContext(j) PROVE Stacked'
  <2>1. /\ stack' = Below /\ stack # <<>> /\ overtaken' = overtaken
        /\ \A i \in Jobs : within'[i] \subseteq within[i]
    BY <1>9 DEF CloseContext, Leave, IsTop
  <2> QED
    BY <1>2, <2>1 DEF Stacked
<1> QED
  BY <1>3, <1>4, <1>5, <1>6, <1>7, <1>8, <1>9 DEF Next

(* executors/utils.py: contexts nest without reserve in every behaviour in  *)
(* which no tool is awaited while another job has a context open; nested    *)
(* loops alone never break them, whatever the number of jobs and permits.   *)
THEOREM AwaitedAloneNests ==
    Spec /\ []AwaitedAlone => [](RunningCodeKeepsItsContext /\ BuiltinsAreRestored)
<1> DEFINE Inv == TypeOK /\ Nested /\ Stacked
           Keeps == RunningCodeKeepsItsContext /\ BuiltinsAreRestored
<1>1. Init => Inv
  BY InitType, NestedInit DEF Init, Stacked
<1>2. Inv /\ AwaitedAlone /\ [Next]_vars => Inv'
  BY TypeStep, NestedStep, StackedStep
<1>3. Inv => Keeps
  BY NestedMeans DEF Stacked
<1> HIDE DEF Inv, Keeps
<1>4. Spec /\ []AwaitedAlone => []Keeps
  BY <1>1, <1>2, <1>3, PTL DEF Spec
<1> QED
  BY <1>4 DEF Keeps

-----------------------------------------------------------------------------
(* With one permit one context is open at a time, and it is in place from   *)
(* the moment it opens, on the stack, in a loop it drives or awaited.       *)
OneContext ==
    \A j \in Open : Open = {j} /\ patch = Context(j) /\ current = j

LEMMA OneContextOpen ==
    ASSUME MaxConcurrency = 1, TypeOK, OneContext, NEW j \in Jobs,
           NEW k \in {"code", "tool"}, OpenContext(j, k)
    PROVE  OneContext'
<1>1. Open = {}
  <2>1. SUFFICES ASSUME NEW i \in Open PROVE FALSE
    OBVIOUS
  <2>2. Open = {i} /\ Cardinality(Open) < 1
    BY DEF OneContext, OpenContext, MayEnter
  <2>3. Cardinality({i}) = 1
    BY FS_Singleton
  <2>4. QED
    BY <2>2, <2>3
<1>2. kind' = [kind EXCEPT ![j] = k] /\ patch' = <<j, opened[j] + 1>> /\ current' = j
      /\ opened' = [opened EXCEPT ![j] = @ + 1]
  BY DEF OpenContext, Enter
<1>3. Open' = {j}
  BY <1>1, <1>2 DEF Open, TypeOK
<1>4. Context(j)' = <<j, opened[j] + 1>>
  BY <1>2 DEF Context, TypeOK
<1>5. ASSUME NEW i \in Open' PROVE i = j
  BY <1>3, <1>5
<1>6. QED
  BY <1>2, <1>3, <1>4, <1>5 DEF OneContext, Context

LEMMA OneContextStep ==
    ASSUME MaxConcurrency = 1, TypeOK, OneContext, [Next]_vars PROVE OneContext'
<1>1. ASSUME UNCHANGED <<patch, current, kind, opened>> PROVE OneContext'
  BY <1>1 DEF OneContext, Open, Context
<1>2. CASE UNCHANGED vars
  BY <1>1, <1>2 DEF vars
<1>3. ASSUME NEW j \in Jobs, NEW k \in {"code", "tool"}, OpenContext(j, k) PROVE OneContext'
  BY <1>3, OneContextOpen
<1>4. ASSUME NEW j \in Jobs, \/ Drive(j) \/ DriveEnds(j) \/ DriveReturns(j)
                             \/ AwaitTool(j) \/ ContinueTool(j)
      PROVE  OneContext'
  BY <1>1, <1>4 DEF Drive, DriveEnds, DriveReturns, AwaitTool, ContinueTool
<1>5. ASSUME NEW j \in Jobs, CloseContext(j) PROVE OneContext'
  <2>1. j \in Open /\ Open' = Open \ {j}
    BY <1>5 DEF CloseContext, Leave, Open, TypeOK, FramesOK
  <2>2. Open' = {}
    BY <2>1 DEF OneContext
  <2>3. QED
    BY <2>2 DEF OneContext
<1>6. QED
  BY <1>2, <1>3, <1>4, <1>5 DEF Next

(* With one permit, what a job prints is captured by its own console, also  *)
(* in the coroutines that its code drives and in the tools it awaits.       *)
THEOREM OnePermitOutput == MaxConcurrency = 1 => (Spec => []OutputStaysWithItsJob)
<1> SUFFICES ASSUME MaxConcurrency = 1 PROVE Spec => []OutputStaysWithItsJob
  OBVIOUS
<1>1. Init => TypeOK /\ OneContext
  BY InitType DEF Init, OneContext, Open
<1>2. TypeOK /\ OneContext /\ [Next]_vars => TypeOK' /\ OneContext'
  BY TypeStep, OneContextStep
<1>3. TypeOK /\ OneContext => OutputStaysWithItsJob
  BY DEF OneContext, OutputStaysWithItsJob, Speakers, Open, TypeOK, FramesOK
<1>4. QED
  BY <1>1, <1>2, <1>3, PTL DEF Spec

-----------------------------------------------------------------------------
(***************************************************************************)
(* Tools: whatever they are called and whatever the scope says, a request   *)
(* offers what the scope names, and a tool that is offered is the one that  *)
(* runs.                                                                    *)
(***************************************************************************)
(***************************************************************************)
(* FirstNamed, and the operations on lists of tools.                        *)
(***************************************************************************)
First(q, n, i) == i \in DOMAIN q /\ NameOf(q[i]) = n /\ \A k \in 1..i - 1 : NameOf(q[k]) # n

NoNameTwice(q) == \A i, k \in DOMAIN q : NameOf(q[i]) = NameOf(q[k]) => i = k

LEMMA FirstNamedIs ==
    ASSUME NEW q \in Seq(Tools), NEW n
    PROVE  /\ \A i : First(q, n, i) => FirstNamed(q, n) = q[i]
           /\ n \in NamesOf(q) =>
                 /\ \E i \in DOMAIN q : First(q, n, i)
                 /\ FirstNamed(q, n) \in ToSet(q) /\ NameOf(FirstNamed(q, n)) = n
<1>1. Len(q) \in Nat /\ DOMAIN q = 1..Len(q)
  OBVIOUS
<1>2. \A i, k : First(q, n, i) /\ First(q, n, k) => i = k
  <2> SUFFICES ASSUME NEW i \in DOMAIN q, NEW k \in DOMAIN q, First(q, n, i), First(q, n, k)
               PROVE  i = k
    BY DEF First
  <2>1. i \notin 1..k - 1 /\ k \notin 1..i - 1
    BY DEF First
  <2> QED
    BY <1>1, <2>1
<1>3. \A i : First(q, n, i) => FirstNamed(q, n) = q[i]
  BY <1>2 DEF First, FirstNamed
<1>4. ASSUME n \in NamesOf(q) PROVE \E i \in DOMAIN q : First(q, n, i)
  <2> DEFINE T == {i \in DOMAIN q : NameOf(q[i]) = n}
  <2>1. T \subseteq Nat /\ T # {}
    BY <1>1, <1>4 DEF NamesOf
  <2>2. PICK i \in T : \A k \in T : i <= k
    BY <2>1, LeastNumber
  <2>3. ASSUME NEW k \in 1..i - 1 PROVE NameOf(q[k]) # n
    BY <1>1, <2>2
  <2> QED
    BY <2>2, <2>3 DEF First
<1> QED
  BY <1>3, <1>4 DEF First, ToSet

LEMMA NamesAre ==
    ASSUME NEW q \in Seq(Tools) PROVE NamesOf(q) = {NameOf(t) : t \in ToSet(q)}
  BY DEF NamesOf, ToSet

LEMMA AmongIs ==
    ASSUME NEW q \in Seq(Tools), NEW S
    PROVE  /\ Among(q, S) \in Seq(Tools) /\ ToSet(Among(q, S)) = ToSet(q) \cap S
           /\ \A n \in NamesOf(q) : FirstNamed(q, n) \in S =>
                 n \in NamesOf(Among(q, S)) /\ FirstNamed(Among(q, S), n) = FirstNamed(q, n)
           /\ NoNameTwice(q) => NoNameTwice(Among(q, S))
<1> DEFINE at == {i \in DOMAIN q : q[i] \in S}
<1>1. PICK s : s = Picked(q, at)
  OBVIOUS
<1>2. at \subseteq DOMAIN q
  OBVIOUS
<1>3. /\ s \in Seq(Tools) /\ ToSet(s) = {q[i] : i \in at}
      /\ \A k \in DOMAIN s : \A m \in 1..k - 1 : \E p, r \in at : p < r /\ s[m] = q[p] /\ s[k] = q[r]
      /\ \A p \in at : \E k \in DOMAIN s :
            s[k] = q[p] /\ \A m \in 1..k - 1 : m \in DOMAIN s /\ \E r \in at : r < p /\ s[m] = q[r]
  <2> HIDE DEF at
  <2>1. /\ Picked(q, at) \in Seq(Tools) /\ ToSet(Picked(q, at)) = {q[i] : i \in at}
        /\ \A k \in DOMAIN Picked(q, at) : \A m \in 1..k - 1 :
              \E p, r \in at : p < r /\ Picked(q, at)[m] = q[p] /\ Picked(q, at)[k] = q[r]
        /\ \A p \in at : \E k \in DOMAIN Picked(q, at) :
              /\ Picked(q, at)[k] = q[p]
              /\ \A m \in 1..k - 1 :
                    m \in DOMAIN Picked(q, at) /\ \E r \in at : r < p /\ Picked(q, at)[m] = q[r]
    BY <1>2, PickedIs
  <2> QED
    BY <1>1, <2>1
<1>4. ToSet(s) = ToSet(q) \cap S
  <2>1. ToSet(q) \cap S = {q[i] : i \in at}
    BY DEF ToSet
  <2> QED
    BY <1>3, <2>1
<1>5. ASSUME NEW n \in NamesOf(q), FirstNamed(q, n) \in S
      PROVE  n \in NamesOf(s) /\ FirstNamed(s, n) = FirstNamed(q, n)
  <2>1. PICK i \in DOMAIN q : First(q, n, i)
    BY FirstNamedIs
  <2>2. FirstNamed(q, n) = q[i]
    BY <2>1, FirstNamedIs
  <2>3. i \in at
    BY <1>5, <2>2
  <2>4. PICK k \in DOMAIN s :
          s[k] = q[i] /\ \A m \in 1..k - 1 : m \in DOMAIN s /\ \E r \in at : r < i /\ s[m] = q[r]
    BY <1>3, <2>3
  <2>5. ASSUME NEW m \in 1..k - 1 PROVE NameOf(s[m]) # n
    <3>1. PICK r \in at : r < i /\ s[m] = q[r]
      BY <2>4
    <3>2. r \in 1..i - 1
      BY <1>2, <3>1
    <3> QED
      BY <2>1, <3>1, <3>2 DEF First
  <2>6. First(s, n, k)
    BY <2>1, <2>4, <2>5 DEF First
  <2> QED
    BY <1>3, <2>2, <2>4, <2>6, FirstNamedIs DEF First, NamesOf
<1>6. ASSUME NoNameTwice(q) PROVE NoNameTwice(s)
  <2> SUFFICES ASSUME NEW i \in DOMAIN s, NEW k \in DOMAIN s, i # k
               PROVE  NameOf(s[i]) # NameOf(s[k])
    BY DEF NoNameTwice
  <2>1. i \in 1..k - 1 \/ k \in 1..i - 1
    BY <1>3
  <2>2. PICK p, r \in at : (p < r \/ r < p) /\ s[i] = q[p] /\ s[k] = q[r]
    <3> HIDE DEF at
    <3>1. CASE i \in 1..k - 1
      BY <1>3, <3>1
    <3>2. CASE k \in 1..i - 1
      BY <1>3, <3>2, SMTT(30)
    <3> QED
      BY <2>1, <3>1, <3>2
  <2>3. p # r /\ p \in DOMAIN q /\ r \in DOMAIN q
    BY <1>2, <2>2
  <2> QED
    BY <1>6, <2>2, <2>3 DEF NoNameTwice
<1> HIDE DEF at
<1> QED
  BY <1>1, <1>3, <1>4, <1>5, <1>6 DEF Among, at

LEMMA ConcatIs ==
    ASSUME NEW a \in Seq(Tools), NEW b \in Seq(Tools)
    PROVE  /\ a \o b \in Seq(Tools) /\ ToSet(a \o b) = ToSet(a) \cup ToSet(b)
           /\ NamesOf(a \o b) = NamesOf(a) \cup NamesOf(b)
           /\ \A n \in NamesOf(a) : FirstNamed(a \o b, n) = FirstNamed(a, n)
           /\ \A n \in NamesOf(b) \ NamesOf(a) : FirstNamed(a \o b, n) = FirstNamed(b, n)
<1>1. PICK c : c = a \o b
  OBVIOUS
<1>2. /\ c \in Seq(Tools) /\ Len(c) = Len(a) + Len(b)
      /\ \A i \in 1..Len(a) : c[i] = a[i]
      /\ \A i \in Len(a) + 1..Len(a) + Len(b) : c[i] = b[i - Len(a)]
  BY <1>1, ConcatProperties
<1>3. /\ Len(a) \in Nat /\ Len(b) \in Nat /\ DOMAIN a = 1..Len(a) /\ DOMAIN b = 1..Len(b)
      /\ DOMAIN c = 1..Len(a) + Len(b)
  BY <1>2
<1>4. \A i \in DOMAIN a : i \in DOMAIN c /\ c[i] = a[i]
  BY <1>2, <1>3
<1>5. \A i \in DOMAIN b : i + Len(a) \in DOMAIN c /\ c[i + Len(a)] = b[i]
  <2> SUFFICES ASSUME NEW i \in DOMAIN b PROVE i + Len(a) \in DOMAIN c /\ c[i + Len(a)] = b[i]
    OBVIOUS
  <2>1. PICK k \in Nat : k = i + Len(a) /\ k - Len(a) = i /\ k \in Len(a) + 1..Len(a) + Len(b)
    BY <1>3, SMTT(30)
  <2>2. k \in DOMAIN c /\ c[k] = b[k - Len(a)]
    BY <1>2, <1>3, <2>1
  <2> QED
    BY <2>1, <2>2
<1>6. \A i \in DOMAIN c : i \in DOMAIN a \/ (i - Len(a) \in DOMAIN b /\ c[i] = b[i - Len(a)])
  BY <1>2, <1>3
<1>7. ToSet(c) = ToSet(a) \cup ToSet(b)
  <2>1. \A t \in ToSet(c) : t \in ToSet(a) \cup ToSet(b)
    BY <1>4, <1>6 DEF ToSet
  <2>2. (\A t \in ToSet(a) : t \in ToSet(c)) /\ (\A t \in ToSet(b) : t \in ToSet(c))
    BY <1>4, <1>5 DEF ToSet
  <2> QED
    BY <2>1, <2>2
<1>8. NamesOf(c) = NamesOf(a) \cup NamesOf(b)
  BY <1>2, <1>7, NamesAre
<1>9. ASSUME NEW n \in NamesOf(a) PROVE FirstNamed(c, n) = FirstNamed(a, n)
  <2>1. PICK i \in DOMAIN a : First(a, n, i)
    BY FirstNamedIs
  <2>2. \A k \in 1..i - 1 : k \in DOMAIN a
    BY <1>3
  <2>3. First(c, n, i)
    BY <1>4, <2>1, <2>2 DEF First
  <2> QED
    BY <1>2, <1>4, <2>1, <2>3, FirstNamedIs
<1>10. ASSUME NEW n \in NamesOf(b) \ NamesOf(a) PROVE FirstNamed(c, n) = FirstNamed(b, n)
  <2>1. PICK i \in DOMAIN b : First(b, n, i)
    BY FirstNamedIs
  <2>2. PICK k \in Nat : k = i + Len(a)
    BY <1>3
  <2>3. k \in DOMAIN c /\ c[k] = b[i]
    BY <1>5, <2>2
  <2>4. ASSUME NEW m \in 1..k - 1 PROVE NameOf(c[m]) # n
    <3>1. CASE m \in DOMAIN a
      BY <1>4, <1>10, <3>1 DEF NamesOf
    <3>2. CASE m \notin DOMAIN a
      <4>1. m \in DOMAIN c
        BY <1>3, <2>2
      <4>2. m - Len(a) \in 1..i - 1 /\ c[m] = b[m - Len(a)]
        BY <1>3, <1>6, <2>2, <3>2, <4>1
      <4> QED
        BY <2>1, <4>2 DEF First
    <3> QED
      BY <3>1, <3>2
  <2>5. First(c, n, k)
    BY <2>1, <2>3, <2>4 DEF First
  <2> QED
    BY <1>2, <2>1, <2>3, <2>5, FirstNamedIs
<1> QED
  BY <1>1, <1>2, <1>7, <1>8, <1>9, <1>10

(* Deduped: the first tool of each name, and nothing else.                  *)
LEMMA DedupedIs ==
    ASSUME NEW q \in Seq(Tools)
    PROVE  /\ Deduped(q) \in Seq(Tools) /\ NamesOf(Deduped(q)) = NamesOf(q)
           /\ ToSet(Deduped(q)) = {FirstNamed(q, n) : n \in NamesOf(q)}
           /\ \A n \in NamesOf(q) : FirstNamed(Deduped(q), n) = FirstNamed(q, n)
           /\ NoNameTwice(Deduped(q))
<1> DEFINE at == {i \in DOMAIN q : \A k \in 1..i - 1 : NameOf(q[k]) # NameOf(q[i])}
<1>1. PICK s : s = Picked(q, at)
  OBVIOUS
<1>2. at \subseteq DOMAIN q /\ \A i \in at : First(q, NameOf(q[i]), i)
  BY DEF First
<1>3. \A n, i : First(q, n, i) => i \in at
  BY DEF First
<1>4. Deduped(q) = s
  BY <1>1 DEF Deduped
<1> HIDE DEF at
<1>5. /\ s \in Seq(Tools) /\ ToSet(s) = {q[i] : i \in at}
      /\ \A k \in DOMAIN s : \A m \in 1..k - 1 : \E p, r \in at : p < r /\ s[m] = q[p] /\ s[k] = q[r]
  <2>1. /\ Picked(q, at) \in Seq(Tools) /\ ToSet(Picked(q, at)) = {q[i] : i \in at}
        /\ \A k \in DOMAIN Picked(q, at) : \A m \in 1..k - 1 :
              \E p, r \in at : p < r /\ Picked(q, at)[m] = q[p] /\ Picked(q, at)[k] = q[r]
    BY <1>2, PickedIs
  <2> QED
    BY <1>1, <2>1
<1>6. \A i \in at : NameOf(q[i]) \in NamesOf(q) /\ q[i] = FirstNamed(q, NameOf(q[i]))
  BY <1>2, FirstNamedIs DEF NamesOf
<1>7. \A n \in NamesOf(q) : \E i \in at : FirstNamed(q, n) = q[i] /\ NameOf(q[i]) = n
  <2> SUFFICES ASSUME NEW n \in NamesOf(q)
               PROVE  \E i \in at : FirstNamed(q, n) = q[i] /\ NameOf(q[i]) = n
    OBVIOUS
  <2>1. PICK i \in DOMAIN q : First(q, n, i)
    BY FirstNamedIs
  <2> QED
    BY <1>3, <2>1, FirstNamedIs DEF First
<1>8. ToSet(s) = {FirstNamed(q, n) : n \in NamesOf(q)}
  BY <1>5, <1>6, <1>7
<1>9. NamesOf(s) = NamesOf(q)
  <2>1. NamesOf(s) = {NameOf(t) : t \in ToSet(s)}
    BY <1>5, NamesAre
  <2>2. \A n \in NamesOf(q) : NameOf(FirstNamed(q, n)) = n
    BY FirstNamedIs
  <2> QED
    BY <1>8, <2>1, <2>2
<1>10. ASSUME NEW n \in NamesOf(q) PROVE FirstNamed(s, n) = FirstNamed(q, n)
  <2>1. FirstNamed(s, n) \in ToSet(s) /\ NameOf(FirstNamed(s, n)) = n
    BY <1>5, <1>9, FirstNamedIs
  <2>2. PICK m \in NamesOf(q) : FirstNamed(s, n) = FirstNamed(q, m)
    BY <1>8, <2>1
  <2>3. NameOf(FirstNamed(q, m)) = m
    BY FirstNamedIs
  <2> QED
    BY <2>1, <2>2, <2>3
<1>11. ASSUME NEW k \in DOMAIN s, NEW m \in 1..k - 1 PROVE NameOf(s[m]) # NameOf(s[k])
  <2>1. PICK p, r \in at : p < r /\ s[m] = q[p] /\ s[k] = q[r]
    BY <1>5
  <2>2. p \in 1..r - 1
    BY <1>2, <2>1
  <2> QED
    BY <1>2, <2>1, <2>2 DEF First
<1>12. NoNameTwice(s)
  <2> SUFFICES ASSUME NEW i \in DOMAIN s, NEW k \in DOMAIN s, NameOf(s[i]) = NameOf(s[k])
               PROVE  i = k
    BY DEF NoNameTwice
  <2>1. i \notin 1..k - 1 /\ k \notin 1..i - 1
    BY <1>11
  <2>2. Len(s) \in Nat /\ DOMAIN s = 1..Len(s)
    BY <1>5
  <2> QED
    BY <2>1, <2>2
<1> QED
  BY <1>4, <1>5, <1>8, <1>9, <1>10, <1>12

(***************************************************************************)
(* Where the tools of a request come from.                                  *)
(***************************************************************************)
LEMMA ToolboxIs ==
    ASSUME toolbox \in ToolSetups
    PROVE  /\ toolbox.receiver \in Seq(Tools) /\ toolbox.donor \in Seq(Tools)
           /\ toolbox.registry \in Seq(Tools)
           /\ \A t \in ToSet(toolbox.registry) : ToolInfo[t].system
           /\ \A mark : Len(ScopeNames(mark)) \in Nat
                        /\ DOMAIN ScopeNames(mark) = 1..Len(ScopeNames(mark))
<1>1. /\ toolbox.receiver \in Seq(Tools) /\ toolbox.donor \in Seq(Tools)
      /\ toolbox.registry \in Seq(Tools)
      /\ \A t \in ToSet(toolbox.registry) : ToolInfo[t].system
  BY ToolAssumption DEF ToSet
<1>2. ASSUME NEW mark
      PROVE  Len(ScopeNames(mark)) \in Nat /\ DOMAIN ScopeNames(mark) = 1..Len(ScopeNames(mark))
  <2> DEFINE parts == toolbox.scope
             lists == [i \in DOMAIN parts |-> IF parts[i].mark = mark THEN parts[i].names ELSE <<>>]
             T == UNION {Range(parts[i].names) : i \in DOMAIN parts}
  <2>1. /\ parts \in Seq(Range(parts))
        /\ \A i \in DOMAIN parts : parts[i].names \in Seq(Range(parts[i].names))
    BY ToolAssumption
  <2>2. \A i \in DOMAIN parts : lists[i] \in Seq(T)
    <3> SUFFICES ASSUME NEW i \in DOMAIN parts PROVE lists[i] \in Seq(T)
      OBVIOUS
    <3>1. parts[i].names \in Seq(Range(parts[i].names)) /\ Range(parts[i].names) \subseteq T
      BY <2>1
    <3> HIDE DEF T, parts
    <3>2. parts[i].names \in Seq(T)
      BY <3>1, SeqMonotonic
    <3> QED
      BY <3>2
  <2>3. DOMAIN lists = 1..Len(parts) /\ Len(parts) \in Nat /\ lists = [i \in 1..Len(parts) |-> lists[i]]
    BY <2>1
  <2> HIDE DEF T, lists, parts
  <2>4. lists \in Seq(Seq(T))
    BY <2>2, <2>3 DEF lists
  <2>5. FlattenSeq(lists) \in Seq(T)
    BY <2>4, FlattenType
  <2> QED
    BY <2>5 DEF ScopeNames, lists, parts
<1> QED
  BY <1>1, <1>2

LEMMA ResourceIs ==
    ASSUME toolbox \in ToolSetups, NEW donors \in BOOLEAN
    PROVE  /\ ResourceTools(donors) \in Seq(Tools)
           /\ NotHidden(ResourceTools(donors)) \in Seq(Tools)
           /\ ToSet(NotHidden(ResourceTools(donors))) = ToSet(ResourceTools(donors)) \cap Shown
           /\ ToSet(ResourceTools(donors)) \subseteq ToSet(toolbox.receiver \o toolbox.donor)
           /\ \A n \in NamesOf(toolbox.receiver) :
                 /\ n \in NamesOf(ResourceTools(donors))
                 /\ FirstNamed(ResourceTools(donors), n) = FirstNamed(toolbox.receiver, n)
           /\ \A t \in ToSet(ResourceTools(donors)) :
                 /\ NameOf(t) \in NamesOf(ResourceTools(donors))
                 /\ t = FirstNamed(ResourceTools(donors), NameOf(t))
           /\ \A t \in ToSet(ResourceTools(donors)) :
                 \/ NameOf(t) \in NamesOf(toolbox.receiver)
                 \/ (donors /\ t \in ToSet(toolbox.donor))
<1>1. PICK a : a = toolbox.receiver
  OBVIOUS
<1>2. PICK b : b = IF donors THEN toolbox.donor ELSE <<>>
  OBVIOUS
<1>3. a \in Seq(Tools) /\ b \in Seq(Tools) /\ toolbox.donor \in Seq(Tools)
  BY <1>1, <1>2, ToolboxIs
<1>4. PICK r : r = ResourceTools(donors) /\ r = Deduped(a \o b)
  BY <1>1, <1>2 DEF ResourceTools
<1>5. /\ a \o b \in Seq(Tools) /\ ToSet(a \o b) = ToSet(a) \cup ToSet(b)
      /\ NamesOf(a \o b) = NamesOf(a) \cup NamesOf(b)
      /\ \A n \in NamesOf(a) : FirstNamed(a \o b, n) = FirstNamed(a, n)
      /\ \A n \in NamesOf(b) \ NamesOf(a) : FirstNamed(a \o b, n) = FirstNamed(b, n)
  BY <1>3, ConcatIs
<1>6. /\ r \in Seq(Tools) /\ NamesOf(r) = NamesOf(a \o b)
      /\ ToSet(r) = {FirstNamed(a \o b, n) : n \in NamesOf(a \o b)}
      /\ \A n \in NamesOf(a \o b) : FirstNamed(r, n) = FirstNamed(a \o b, n)
  BY <1>4, <1>5, DedupedIs
<1>7. \A n \in NamesOf(a \o b) : FirstNamed(a \o b, n) \in ToSet(a \o b)
                                 /\ NameOf(FirstNamed(a \o b, n)) = n
  BY <1>5, FirstNamedIs
<1>8. \A n \in NamesOf(b) : FirstNamed(b, n) \in ToSet(b)
  BY <1>3, FirstNamedIs
<1>9. ToSet(b) # {} => donors /\ b = toolbox.donor
  BY <1>2 DEF ToSet
<1>10. ToSet(r) \subseteq ToSet(toolbox.receiver \o toolbox.donor)
  <2>1. ToSet(toolbox.receiver \o toolbox.donor) = ToSet(a) \cup ToSet(toolbox.donor)
    BY <1>1, <1>3, ConcatIs
  <2> QED
    BY <1>5, <1>6, <1>7, <1>9, <2>1
<1>11. ASSUME NEW t \in ToSet(r)
       PROVE  /\ NameOf(t) \in NamesOf(r) /\ t = FirstNamed(r, NameOf(t))
              /\ NameOf(t) \in NamesOf(a) \/ (donors /\ t \in ToSet(toolbox.donor))
  <2>1. PICK n \in NamesOf(a \o b) : t = FirstNamed(a \o b, n) /\ NameOf(t) = n
    BY <1>6, <1>7
  <2>2. n \notin NamesOf(a) => n \in NamesOf(b) /\ t = FirstNamed(b, n) /\ t \in ToSet(b)
    BY <1>5, <1>8, <2>1
  <2> QED
    BY <1>6, <1>9, <2>1, <2>2
<1>12. NotHidden(r) \in Seq(Tools) /\ ToSet(NotHidden(r)) = ToSet(r) \cap Shown
  BY <1>6, AmongIs DEF NotHidden
<1> QED
  BY <1>1, <1>4, <1>5, <1>6, <1>10, <1>11, <1>12

LEMMA FoundIs ==
    ASSUME toolbox \in ToolSetups, NEW style, NEW S, S = OfStyle(style)
    PROVE  /\ FoundTools(style) \in Seq(Tools)
           /\ ToSet(FoundTools(style)) \subseteq ToSet(toolbox.registry) \cap Shown \cap S
           /\ NamesOf(FoundTools(style)) =
                 {NameOf(t) : t \in ToSet(toolbox.registry) \cap Shown \cap S}
           /\ \A n \in NamesOf(toolbox.registry) : FirstNamed(toolbox.registry, n) \in Shown \cap S =>
                 FirstNamed(FoundTools(style), n) = FirstNamed(toolbox.registry, n)
           /\ \A t \in ToSet(FoundTools(style)) : t = FirstNamed(FoundTools(style), NameOf(t))
<1>1. PICK q \in Seq(Tools) : q = toolbox.registry
  BY ToolboxIs
<1>2. PICK v : v = NotHidden(q)
  OBVIOUS
<1>3. /\ v \in Seq(Tools) /\ ToSet(v) = ToSet(q) \cap Shown
      /\ \A n \in NamesOf(q) : FirstNamed(q, n) \in Shown =>
            n \in NamesOf(v) /\ FirstNamed(v, n) = FirstNamed(q, n)
  BY <1>2, AmongIs DEF NotHidden
<1>4. PICK u : u = Among(v, S)
  OBVIOUS
<1>5. /\ u \in Seq(Tools) /\ ToSet(u) = ToSet(v) \cap S
      /\ \A n \in NamesOf(v) : FirstNamed(v, n) \in S =>
            n \in NamesOf(u) /\ FirstNamed(u, n) = FirstNamed(v, n)
  BY <1>3, <1>4, AmongIs
<1>6. PICK f : f = FoundTools(style) /\ f = Deduped(u)
  BY <1>1, <1>2, <1>4 DEF FoundTools
<1>7. /\ f \in Seq(Tools) /\ NamesOf(f) = NamesOf(u)
      /\ ToSet(f) = {FirstNamed(u, n) : n \in NamesOf(u)}
      /\ \A n \in NamesOf(u) : FirstNamed(f, n) = FirstNamed(u, n)
  BY <1>5, <1>6, DedupedIs
<1>8. \A n \in NamesOf(u) : FirstNamed(u, n) \in ToSet(u) /\ NameOf(FirstNamed(u, n)) = n
  BY <1>5, FirstNamedIs
<1>9. NamesOf(u) = {NameOf(t) : t \in ToSet(u)}
  BY <1>5, NamesAre
<1>10. ToSet(u) = ToSet(q) \cap Shown \cap S
  BY <1>3, <1>5
<1>11. ToSet(f) \subseteq ToSet(q) \cap Shown \cap S
  BY <1>7, <1>8, <1>10
<1>12. \A n \in NamesOf(q) : FirstNamed(q, n) \in Shown \cap S =>
          FirstNamed(f, n) = FirstNamed(q, n)
  BY <1>3, <1>5, <1>7
<1>13. \A t \in ToSet(f) : t = FirstNamed(f, NameOf(t))
  BY <1>7, <1>8
<1>14. NamesOf(f) = {NameOf(t) : t \in ToSet(q) \cap Shown \cap S}
  BY <1>7, <1>9, <1>10
<1> QED
  BY <1>1, <1>6, <1>7, <1>11, <1>12, <1>13, <1>14

(* The tools of the category: those of the agents, then registered ones.    *)
Own(available) == ToSet(available) \cap OfCategory(Category) \cap OfStyle(toolbox.style)
InScope(available) ==
    CASE Category = "none" -> {}
      [] Category \in {"SYSTEM", "ALL"} ->
            Own(available) \cup (ToSet(toolbox.registry) \cap Shown \cap OfStyle(toolbox.style))
      [] OTHER -> Own(available)

LEMMA CategoryIs ==
    ASSUME toolbox \in ToolSetups, NEW av \in Seq(Tools)
    PROVE  /\ CategoryTools(av) \in Seq(Tools)
           /\ NamesOf(CategoryTools(av)) = {NameOf(t) : t \in InScope(av)}
           /\ \A t \in ToSet(CategoryTools(av)) :
                 \/ t \in Own(av)
                 \/ /\ Category \in {"SYSTEM", "ALL"} /\ t \in ToSet(FoundTools(toolbox.style))
                    /\ \A o \in Own(av) : NameOf(o) # NameOf(t)
<1>1. PICK style : style = toolbox.style
  OBVIOUS
<1>2. PICK f : f = FoundTools(style)
  OBVIOUS
<1>3. /\ f \in Seq(Tools)
      /\ NamesOf(f) = {NameOf(t) : t \in ToSet(toolbox.registry) \cap Shown \cap OfStyle(style)}
      /\ \A t \in ToSet(f) : t = FirstNamed(f, NameOf(t))
  BY <1>1, <1>2, FoundIs
<1>4. PICK c : c = Among(av, OfCategory(Category))
  OBVIOUS
<1>5. PICK own : own = Among(c, OfStyle(style))
  OBVIOUS
<1>6. own \in Seq(Tools) /\ ToSet(own) = Own(av)
  <2>1. c \in Seq(Tools) /\ ToSet(c) = ToSet(av) \cap OfCategory(Category)
    BY <1>4, AmongIs
  <2> QED
    BY <1>1, <1>5, <2>1, AmongIs DEF Own
<1>7. NamesOf(own) = {NameOf(t) : t \in Own(av)}
  BY <1>6, NamesAre
<1>8. PICK r : r = CategoryTools(av)
  OBVIOUS
<1>9. r = CASE Category = "none" -> <<>>
            [] Category \in {"SYSTEM", "ALL"} -> Deduped(own \o f)
            [] OTHER -> own
  BY <1>1, <1>2, <1>4, <1>5, <1>8 DEF CategoryTools
<1>10. CASE Category = "none"
  <2>1. r = <<>> /\ InScope(av) = {}
    BY <1>9, <1>10 DEF InScope
  <2> QED
    BY <1>8, <2>1 DEF NamesOf, ToSet
<1>11. CASE Category \in {"SYSTEM", "ALL"}
  <2>1. PICK q : q = own \o f
    OBVIOUS
  <2>2. /\ q \in Seq(Tools) /\ NamesOf(q) = NamesOf(own) \cup NamesOf(f)
        /\ \A n \in NamesOf(own) : FirstNamed(q, n) = FirstNamed(own, n)
        /\ \A n \in NamesOf(f) \ NamesOf(own) : FirstNamed(q, n) = FirstNamed(f, n)
    BY <1>3, <1>6, <2>1, ConcatIs
  <2>3. r = Deduped(q)
    BY <1>9, <1>11, <2>1
  <2>4. /\ r \in Seq(Tools) /\ NamesOf(r) = NamesOf(q)
        /\ ToSet(r) = {FirstNamed(q, n) : n \in NamesOf(q)}
    BY <2>2, <2>3, DedupedIs
  <2>5. NamesOf(r) = {NameOf(t) : t \in InScope(av)}
    BY <1>1, <1>3, <1>7, <1>11, <2>2, <2>4 DEF InScope
  <2>6. ASSUME NEW t \in ToSet(r), t \notin Own(av)
        PROVE  t \in ToSet(f) /\ \A o \in Own(av) : NameOf(o) # NameOf(t)
    <3>1. PICK n \in NamesOf(q) : t = FirstNamed(q, n)
      BY <2>4
    <3>2. n \notin NamesOf(own)
      BY <1>6, <2>2, <2>6, <3>1, FirstNamedIs
    <3>3. n \in NamesOf(f) /\ t = FirstNamed(f, n)
      BY <2>2, <3>1, <3>2
    <3>4. t \in ToSet(f) /\ NameOf(t) = n
      BY <1>3, <3>3, FirstNamedIs
    <3> QED
      BY <1>7, <3>2, <3>4
  <2> QED
    BY <1>1, <1>2, <1>8, <1>11, <2>4, <2>5, <2>6
<1>12. CASE Category \notin {"none", "SYSTEM", "ALL"}
  <2>1. r = own /\ InScope(av) = Own(av)
    BY <1>9, <1>12 DEF InScope
  <2> QED
    BY <1>6, <1>7, <1>8, <2>1
<1> QED
  BY <1>10, <1>11, <1>12

LEMMA ExplicitIs ==
    ASSUME toolbox \in ToolSetups, NEW av \in Seq(Tools), NEW n, ResolvesTool(n, av)
    PROVE  LET t == FirstNamed(Explicit(av), n) IN
           /\ t \in Tools /\ NameOf(t) = n /\ t \in OfStyle(toolbox.style)
           /\ \/ t \in ToSet(av)
              \/ t \in ToSet(FoundTools(AnyStyle)) /\ n \notin NamesOf(av)
<1>1. PICK f : f = FoundTools(AnyStyle)
  OBVIOUS
<1>2. f \in Seq(Tools)
  BY <1>1, FoundIs
<1>3. PICK q : q = Explicit(av) /\ q = av \o f
  BY <1>1 DEF Explicit
<1>4. /\ q \in Seq(Tools) /\ NamesOf(q) = NamesOf(av) \cup NamesOf(f)
      /\ \A m \in NamesOf(av) : FirstNamed(q, m) = FirstNamed(av, m)
      /\ \A m \in NamesOf(f) \ NamesOf(av) : FirstNamed(q, m) = FirstNamed(f, m)
  BY <1>2, <1>3, ConcatIs
<1>5. PICK t : t = FirstNamed(q, n)
  OBVIOUS
<1>6. n \in NamesOf(q) /\ InStyle(t, toolbox.style)
  BY <1>3, <1>5 DEF ResolvesTool
<1>7. t \in ToSet(q) /\ NameOf(t) = n
  BY <1>4, <1>5, <1>6, FirstNamedIs
<1>8. t \in Tools
  BY <1>4, <1>7, ElementOfSeq DEF ToSet
<1>9. n \in NamesOf(av) => t \in ToSet(av)
  BY <1>4, <1>5, FirstNamedIs
<1>10. n \notin NamesOf(av) => t \in ToSet(f)
  BY <1>2, <1>4, <1>5, <1>6, FirstNamedIs
<1> QED
  BY <1>1, <1>3, <1>5, <1>6, <1>7, <1>8, <1>9, <1>10 DEF OfStyle

LEMMA AddedIs ==
    ASSUME toolbox \in ToolSetups, NEW av \in Seq(Tools),
           \A n \in ToSet(ScopeNames("+")) : ResolvesTool(n, av)
    PROVE  /\ AddedTools(av) \in Seq(Tools) /\ NoNameTwice(AddedTools(av))
           /\ NamesOf(AddedTools(av)) =
                 {NameOf(t) : t \in InScope(av)} \cup ToSet(ScopeNames("+"))
           /\ \A t \in ToSet(AddedTools(av)) :
                 \/ t \in ToSet(CategoryTools(av))
                 \/ \E n \in ToSet(ScopeNames("+")) : t = FirstNamed(Explicit(av), n)
<1>1. PICK names : names = ScopeNames("+")
  OBVIOUS
<1>2. Len(names) \in Nat /\ DOMAIN names = 1..Len(names)
  BY <1>1, ToolboxIs
<1>3. ToSet(names) = {names[i] : i \in DOMAIN names}
  BY DEF ToSet
<1> DEFINE more == [i \in DOMAIN names |-> FirstNamed(Explicit(av), names[i])]
<1>4. /\ DOMAIN more = 1..Len(names)
      /\ \A i \in 1..Len(names) : more[i] \in Tools /\ NameOf(more[i]) = names[i]
  <2> SUFFICES ASSUME NEW i \in 1..Len(names) PROVE more[i] \in Tools /\ NameOf(more[i]) = names[i]
    BY <1>2
  <2>1. ResolvesTool(names[i], av)
    BY <1>1, <1>2, <1>3
  <2>2. more[i] = FirstNamed(Explicit(av), names[i])
    BY <1>2
  <2> QED
    BY <2>1, <2>2, ExplicitIs
<1>5. more \in Seq(Tools)
  <2>1. more = [i \in 1..Len(names) |-> more[i]]
    BY <1>2
  <2> HIDE DEF more
  <2> QED
    BY <1>2, <1>4, <2>1
<1>6. NamesOf(more) = ToSet(names)
  <2> HIDE DEF more
  <2> QED
    BY <1>2, <1>3, <1>4 DEF NamesOf
<1>7. \A t \in ToSet(more) : \E n \in ToSet(names) : t = FirstNamed(Explicit(av), n)
  BY <1>3 DEF ToSet
<1>8. AddedTools(av) = Deduped(CategoryTools(av) \o more)
  BY <1>1 DEF AddedTools
<1> HIDE DEF more
<1>9. PICK c : c = CategoryTools(av)
  OBVIOUS
<1>10. c \in Seq(Tools) /\ NamesOf(c) = {NameOf(t) : t \in InScope(av)}
  BY <1>9, CategoryIs
<1>11. PICK q : q = c \o more
  OBVIOUS
<1>12. /\ q \in Seq(Tools) /\ ToSet(q) = ToSet(c) \cup ToSet(more)
       /\ NamesOf(q) = NamesOf(c) \cup NamesOf(more)
  BY <1>5, <1>10, <1>11, ConcatIs
<1>13. PICK r : r = AddedTools(av) /\ r = Deduped(q)
  BY <1>8, <1>9, <1>11
<1>14. /\ r \in Seq(Tools) /\ NamesOf(r) = NamesOf(q) /\ NoNameTwice(r)
       /\ ToSet(r) = {FirstNamed(q, n) : n \in NamesOf(q)}
  BY <1>12, <1>13, DedupedIs
<1>15. \A t \in ToSet(r) : t \in ToSet(c) \/ t \in ToSet(more)
  BY <1>12, <1>14, FirstNamedIs
<1> QED
  BY <1>1, <1>6, <1>7, <1>9, <1>10, <1>12, <1>13, <1>14, <1>15

(* A tool that a request offers: one of the agents, or a registered one     *)
(* where the request takes no tool of that name from the agents.            *)
LEMMA OfferedFrom ==
    ASSUME toolbox \in ToolSetups, NEW av \in Seq(Tools),
           ToSet(av) \subseteq Shown,
           Selected(av).as = "tools", NEW t \in ToSet(Selected(av).tools)
    PROVE  /\ t \in Shown \cap OfStyle(toolbox.style)
           /\ \/ t \in ToSet(av)
              \/ /\ t \in ToSet(toolbox.registry)
                 /\ \A o \in ToSet(av) : NameOf(o) = NameOf(t) /\ InStyle(o, toolbox.style) =>
                       Category = "SYSTEM" /\ ~ToolInfo[o].system
                 /\ NameOf(t) \in NamesOf(toolbox.registry)
                 /\ FirstNamed(toolbox.registry, NameOf(t)) \in Shown \cap OfStyle(toolbox.style) =>
                       FirstNamed(toolbox.registry, NameOf(t)) = t
<1>1. /\ \A n \in ToSet(ScopeNames("+")) : ResolvesTool(n, av)
      /\ Selected(av).tools =
            Among(AddedTools(av), {x \in Tools : NameOf(x) \notin ToSet(ScopeNames("-"))})
  BY DEF Selected, NoTools, Raised
<1>2. AddedTools(av) \in Seq(Tools)
  BY <1>1, AddedIs
<1>3. t \in ToSet(AddedTools(av))
  BY <1>1, <1>2, AmongIs
<1>4. t \in Tools
  BY <1>2, <1>3, ElementOfSeq DEF ToSet
<1>5. NamesOf(av) = {NameOf(o) : o \in ToSet(av)}
  BY NamesAre
<1>6. \A o \in ToSet(av) : o \in Tools
  BY ElementOfSeq DEF ToSet
<1>7. ASSUME NEW style \in {toolbox.style, AnyStyle}, t \in ToSet(FoundTools(style)),
             t \in OfStyle(toolbox.style)
      PROVE  /\ t \in Shown /\ t \in ToSet(toolbox.registry)
             /\ NameOf(t) \in NamesOf(toolbox.registry)
             /\ FirstNamed(toolbox.registry, NameOf(t)) \in Shown \cap OfStyle(toolbox.style) =>
                   FirstNamed(toolbox.registry, NameOf(t)) = t
  <2>1. PICK S : S = OfStyle(style)
    OBVIOUS
  <2>2. OfStyle(toolbox.style) \subseteq S
    BY <1>7, <2>1 DEF OfStyle, InStyle
  <2>3. /\ t \in ToSet(toolbox.registry) \cap Shown
        /\ \A n \in NamesOf(toolbox.registry) : FirstNamed(toolbox.registry, n) \in Shown \cap S =>
              FirstNamed(FoundTools(style), n) = FirstNamed(toolbox.registry, n)
        /\ t = FirstNamed(FoundTools(style), NameOf(t))
    BY <1>7, <2>1, FoundIs
  <2>4. NameOf(t) \in NamesOf(toolbox.registry)
    BY <2>3, ToolboxIs, NamesAre
  <2> QED
    BY <2>2, <2>3, <2>4
<1>8. CASE t \in ToSet(CategoryTools(av))
  <2>1. \/ t \in Own(av)
        \/ /\ Category \in {"SYSTEM", "ALL"} /\ t \in ToSet(FoundTools(toolbox.style))
           /\ \A o \in Own(av) : NameOf(o) # NameOf(t)
    BY <1>8, CategoryIs
  <2>2. CASE t \in Own(av)
    BY <2>2 DEF Own
  <2>3. CASE /\ Category \in {"SYSTEM", "ALL"} /\ t \in ToSet(FoundTools(toolbox.style))
             /\ \A o \in Own(av) : NameOf(o) # NameOf(t)
    <3>1. t \in OfStyle(toolbox.style)
      BY <2>3, FoundIs
    <3>2. ASSUME NEW o \in ToSet(av), NameOf(o) = NameOf(t), InStyle(o, toolbox.style)
          PROVE  Category = "SYSTEM" /\ ~ToolInfo[o].system
      <4>1. o \in OfStyle(toolbox.style)
        BY <1>6, <3>2 DEF OfStyle
      <4>2. o \notin OfCategory(Category)
        BY <2>3, <3>2, <4>1 DEF Own
      <4> QED
        BY <1>6, <2>3, <4>2 DEF OfCategory
    <3> QED
      BY <1>7, <2>3, <3>1, <3>2
  <2> QED
    BY <2>1, <2>2, <2>3
<1>9. CASE t \notin ToSet(CategoryTools(av))
  <2>1. PICK n \in ToSet(ScopeNames("+")) : t = FirstNamed(Explicit(av), n)
    BY <1>1, <1>3, <1>9, AddedIs
  <2>2. /\ NameOf(t) = n /\ t \in OfStyle(toolbox.style)
        /\ \/ t \in ToSet(av)
           \/ t \in ToSet(FoundTools(AnyStyle)) /\ n \notin NamesOf(av)
    BY <1>1, <2>1, ExplicitIs
  <2>3. CASE t \in ToSet(av)
    BY <2>2, <2>3
  <2>4. CASE t \in ToSet(FoundTools(AnyStyle)) /\ n \notin NamesOf(av)
    BY <1>5, <1>7, <2>2, <2>4
  <2> QED
    BY <2>2, <2>3, <2>4
<1> QED
  BY <1>8, <1>9

(***************************************************************************)
(* The inductive invariant: what was offered was selected from the tools of *)
(* the agents then, and what ran was called with those of the agents then;  *)
(* donors are only ever activated.                                          *)
(***************************************************************************)
Request(donors) == Selected(NotHidden(ResourceTools(donors)))
RanBy(donors) ==
    \/ ran = NotYetRun
    \/ offered.as = "tools" /\ \E t \in ToSet(offered.tools) : ran = Call(t, donors)
ToolInv ==
    /\ toolbox \in ToolSetups /\ donorsOn \in BOOLEAN
    /\ \/ offered = NoOffer /\ ran = NotYetRun
       \/ \E d, e \in {FALSE, donorsOn} : (d => e) /\ offered = Request(d) /\ RanBy(e)

LEMMA ToolStart == TsInit => ToolInv
  BY DEF TsInit, ToolInv

LEMMA ToolStep == ToolInv /\ [TsNext]_tsVars => ToolInv'
<1> SUFFICES ASSUME ToolInv, [TsNext]_tsVars PROVE ToolInv'
  OBVIOUS
<1>1. ASSUME toolbox' = toolbox, NEW donors
      PROVE  Request(donors)' = Request(donors)
  BY <1>1 DEF Request, Selected, WellFormed, Category, ScopeNames, ResolvesTool, Explicit, FoundTools,
              MayRemove, AddedTools, CategoryTools, ResourceTools
<1>2. ASSUME toolbox' = toolbox, NEW t, NEW donors
      PROVE  Call(t, donors)' = Call(t, donors)
  BY <1>2 DEF Call, CalledTool, ResourceTools
<1>3. ASSUME UNCHANGED <<toolbox, offered, ran>>, NEW d PROVE RanBy(d) => RanBy(d)'
  <2> SUFFICES ASSUME RanBy(d) PROVE RanBy(d)'
    OBVIOUS
  <2>1. CASE ran = NotYetRun
    BY <1>3, <2>1 DEF RanBy, NotYetRun
  <2>2. ASSUME offered.as = "tools", NEW t \in ToSet(offered.tools), ran = Call(t, d)
        PROVE  RanBy(d)'
    <3>1. ran' = Call(t, d)'
      BY <1>2, <1>3, <2>2
    <3> QED
      BY <1>3, <2>2, <3>1 DEF RanBy
  <2> QED
    BY <2>1, <2>2 DEF RanBy
<1>4. ASSUME UNCHANGED <<toolbox, offered, ran>>, donorsOn' \in BOOLEAN, donorsOn => donorsOn'
      PROVE  ToolInv'
  <2>1. CASE offered = NoOffer /\ ran = NotYetRun
    BY <1>4, <2>1 DEF ToolInv, NoOffer, NotYetRun
  <2>2. ASSUME NEW d \in {FALSE, donorsOn}, NEW e \in {FALSE, donorsOn},
               (d => e) /\ offered = Request(d) /\ RanBy(e)
        PROVE  ToolInv'
    <3>1. offered' = Request(d)' /\ RanBy(e)'
      BY <1>1, <1>3, <1>4, <2>2
    <3>2. d \in {FALSE, donorsOn'} /\ e \in {FALSE, donorsOn'}
      BY <1>4 DEF ToolInv
    <3> QED
      BY <1>4, <2>2, <3>1, <3>2 DEF ToolInv
  <2> QED
    BY <2>1, <2>2 DEF ToolInv
<1>5. CASE UNCHANGED tsVars
  BY <1>4, <1>5 DEF tsVars, ToolInv
<1>6. CASE ActivateDonors
  BY <1>4, <1>6 DEF ActivateDonors
<1>7. CASE OfferTools
  <2>1. /\ UNCHANGED <<toolbox, donorsOn>> /\ offered' = Request(donorsOn) /\ ran' = NotYetRun
    BY <1>7 DEF OfferTools, Request
  <2>2. PICK d \in BOOLEAN : d = donorsOn
    BY DEF ToolInv
  <2>3. offered' = Request(d)'
    BY <1>1, <2>1, <2>2
  <2>4. RanBy(d)'
    BY <2>1 DEF RanBy, NotYetRun
  <2> QED
    BY <2>1, <2>2, <2>3, <2>4 DEF ToolInv
<1>8. CASE CallTool
  <2>1. UNCHANGED <<toolbox, donorsOn, offered>> /\ offered.as = "tools"
    BY <1>8 DEF CallTool
  <2>2. PICK t \in ToSet(offered.tools) : ran' = Call(t, donorsOn)
    BY <1>8 DEF CallTool
  <2>3. PICK e \in BOOLEAN : e = donorsOn
    BY DEF ToolInv
  <2>4. PICK d \in {FALSE, donorsOn} : offered = Request(d)
    <3>1. offered # NoOffer
      BY <2>1 DEF NoOffer
    <3> QED
      BY <3>1 DEF ToolInv
  <2>5. offered' = Request(d)'
    BY <1>1, <2>1, <2>4
  <2>6. ran' = Call(t, e)'
    BY <1>2, <2>1, <2>2, <2>3
  <2>7. RanBy(e)'
    BY <2>1, <2>2, <2>6 DEF RanBy
  <2> QED
    BY <2>1, <2>3, <2>4, <2>5, <2>7 DEF ToolInv
<1> QED
  BY <1>5, <1>6, <1>7, <1>8 DEF TsNext

LEMMA AvailableIs ==
    ASSUME toolbox \in ToolSetups, NEW d \in BOOLEAN, NEW av, av = NotHidden(ResourceTools(d))
    PROVE  av \in Seq(Tools) /\ ToSet(av) \subseteq Shown /\ ToSet(av) = ToSet(ResourceTools(d)) \cap Shown
  BY ResourceIs

LEMMA OfferIs ==
    ASSUME ToolInv, offered # NoOffer
    PROVE  \E d \in {FALSE, donorsOn} : offered = Request(d) /\ d \in BOOLEAN
  BY DEF ToolInv

LEMMA ScopeTypes == ToolInv => ScopeTypeOK
<1> SUFFICES ASSUME ToolInv PROVE ScopeTypeOK
  OBVIOUS
<1>1. CASE offered.as # "tools" /\ offered.tools = <<>> /\ offered.as \in {"nothing", "none", "raised"}
  BY <1>1 DEF ScopeTypeOK, IsInjective, ToSet
<1>2. CASE offered = NoOffer
  <2>1. offered.as = "nothing" /\ offered.tools = <<>>
    BY <1>2 DEF NoOffer
  <2> QED
    BY <1>1, <2>1
<1>3. CASE offered # NoOffer
  <2>1. PICK d \in BOOLEAN : offered = Request(d)
    BY <1>3, OfferIs
  <2>2. PICK av : av = NotHidden(ResourceTools(d))
    OBVIOUS
  <2>3. offered = Selected(av) /\ av \in Seq(Tools) /\ ToSet(av) \subseteq Shown /\ toolbox \in ToolSetups
    BY <2>1, <2>2, AvailableIs DEF Request, ToolInv
  <2>4. \/ offered = NoTools \/ offered = Raised
        \/ /\ \A n \in ToSet(ScopeNames("+")) : ResolvesTool(n, av)
           /\ offered = [as |-> "tools", tools |->
                Among(AddedTools(av), {x \in Tools : NameOf(x) \notin ToSet(ScopeNames("-"))})]
    BY <2>3 DEF Selected
  <2>5. CASE offered = NoTools \/ offered = Raised
    <3>1. offered.as \in {"none", "raised"} /\ offered.tools = <<>>
      BY <2>5 DEF NoTools, Raised
    <3> QED
      BY <1>1, <3>1
  <2>6. CASE /\ \A n \in ToSet(ScopeNames("+")) : ResolvesTool(n, av)
             /\ offered = [as |-> "tools", tools |->
                  Among(AddedTools(av), {x \in Tools : NameOf(x) \notin ToSet(ScopeNames("-"))})]
    <3>1. PICK q : q = Among(AddedTools(av), {x \in Tools : NameOf(x) \notin ToSet(ScopeNames("-"))})
      OBVIOUS
    <3>2. offered.as = "tools" /\ offered.tools = q
      BY <2>6, <3>1
    <3>3. NoNameTwice(q) /\ q \in Seq(Tools)
      <4>1. AddedTools(av) \in Seq(Tools) /\ NoNameTwice(AddedTools(av))
        BY <2>3, <2>6, AddedIs
      <4> QED
        BY <3>1, <4>1, AmongIs
    <3>4. IsInjective([i \in DOMAIN q |-> NameOf(q[i])])
      BY <3>3 DEF NoNameTwice, IsInjective
    <3>5. \A t \in ToSet(q) : t \in Shown \cap OfStyle(toolbox.style)
      BY <2>3, <3>2, OfferedFrom
    <3> QED
      BY <3>2, <3>4, <3>5 DEF ScopeTypeOK, Shown, OfStyle
  <2> QED
    BY <2>4, <2>5, <2>6
<1> QED
  BY <1>2, <1>3

LEMMA ScopeMeans == ToolInv => ScopeMeansItsSets
<1> SUFFICES ASSUME ToolInv, offered.as = "tools" PROVE ScopeMeansItsSets
  BY DEF ScopeMeansItsSets
<1>1. PICK d \in BOOLEAN : d \in {FALSE, donorsOn} /\ offered = Request(d)
  <2>1. offered # NoOffer
    BY DEF NoOffer
  <2> QED
    BY <2>1, OfferIs
<1>2. PICK av : av = NotHidden(ResourceTools(d))
  OBVIOUS
<1>3. offered = Selected(av) /\ av \in Seq(Tools) /\ toolbox \in ToolSetups
  BY <1>1, <1>2, AvailableIs DEF Request, ToolInv
<1>4. PICK removed : removed = ToSet(ScopeNames("-"))
  OBVIOUS
<1>5. /\ \A n \in ToSet(ScopeNames("+")) : ResolvesTool(n, av)
      /\ offered.tools = Among(AddedTools(av), {x \in Tools : NameOf(x) \notin removed})
      /\ WellFormed /\ removed \subseteq NamesOf(AddedTools(av)) /\ toolbox.scope # <<>>
  BY <1>3, <1>4 DEF Selected, NoTools, Raised, MayRemove
<1>6. PICK q : q = AddedTools(av)
  OBVIOUS
<1>7. q \in Seq(Tools) /\ NamesOf(q) = {NameOf(t) : t \in InScope(av)} \cup ToSet(ScopeNames("+"))
  BY <1>3, <1>5, <1>6, AddedIs
<1>8. NamesOf(offered.tools) = NamesOf(q) \ removed
  <2>1. PICK r : r = offered.tools
    OBVIOUS
  <2>2. r \in Seq(Tools) /\ ToSet(r) = ToSet(q) \cap {x \in Tools : NameOf(x) \notin removed}
    BY <1>5, <1>6, <1>7, <2>1, AmongIs
  <2>3. NamesOf(r) = {NameOf(t) : t \in ToSet(r)} /\ NamesOf(q) = {NameOf(t) : t \in ToSet(q)}
    BY <1>7, <2>2, NamesAre
  <2>4. \A t \in ToSet(q) : t \in Tools
    BY <1>7, ElementOfSeq DEF ToSet
  <2> QED
    BY <2>1, <2>2, <2>3, <2>4
<1>9. Category \in {"none", "SYSTEM", "APPLICATION", "ALL"}
  <2>1. CASE toolbox.scope[1].mark = "category"
    <3>1. 1 \in DOMAIN toolbox.scope
      BY <1>3, <1>5, ToolAssumption
    <3> QED
      BY <1>5, <2>1, <3>1 DEF WellFormed
  <2>2. CASE toolbox.scope[1].mark # "category"
    BY <2>2 DEF Category
  <2> QED
    BY <2>1, <2>2
<1> DEFINE reach(donors) == ToSet(NotHidden(ResourceTools(donors)))
           ofRegistry == {t \in ToSet(toolbox.registry) :
                             ~ToolInfo[t].hidden /\ InStyle(t, toolbox.style)}
           own(donors) == {t \in reach(donors) : InStyle(t, toolbox.style)}
           inCategory(donors) ==
               CASE Category = "APPLICATION" -> {t \in own(donors) : ~ToolInfo[t].system}
                 [] Category = "SYSTEM" -> {t \in own(donors) : ToolInfo[t].system} \cup ofRegistry
                 [] Category = "ALL" -> own(donors) \cup ofRegistry
                 [] OTHER -> {}
           names(donors) == {NameOf(t) : t \in inCategory(donors)} \cup ToSet(ScopeNames("+"))
<1>10. InScope(av) = inCategory(d)
  <2>1. \A t \in ToSet(av) : t \in Tools
    BY <1>3, ElementOfSeq DEF ToSet
  <2>2. \A t \in ToSet(toolbox.registry) : t \in Tools
    BY <1>3, ToolboxIs, ElementOfSeq DEF ToSet
  <2>3. Own(av) = {t \in own(d) : t \in OfCategory(Category)}
    BY <1>2, <2>1 DEF Own, OfStyle
  <2>4. ofRegistry = ToSet(toolbox.registry) \cap Shown \cap OfStyle(toolbox.style)
    BY <2>2 DEF Shown, OfStyle
  <2>5. \A t \in own(d) : t \in OfCategory(Category) <=>
          CASE Category = "SYSTEM" -> ToolInfo[t].system
            [] Category = "APPLICATION" -> ~ToolInfo[t].system
            [] OTHER -> TRUE
    BY <1>2, <2>1 DEF OfCategory
  <2> HIDE DEF own, ofRegistry
  <2>6. CASE Category = "none"
    BY <2>6 DEF InScope
  <2>7. CASE Category = "SYSTEM"
    BY <2>3, <2>4, <2>5, <2>7 DEF InScope
  <2>8. CASE Category = "APPLICATION"
    BY <2>3, <2>4, <2>5, <2>8 DEF InScope
  <2>9. CASE Category = "ALL"
    BY <2>3, <2>4, <2>5, <2>9 DEF InScope
  <2> QED
    BY <1>9, <2>6, <2>7, <2>8, <2>9
<1>11. removed \subseteq names(d) /\ NamesOf(offered.tools) = names(d) \ removed
  <2> HIDE DEF inCategory
  <2> QED
    BY <1>5, <1>6, <1>7, <1>8, <1>10
<1> HIDE DEF names
<1> QED
  BY <1>1, <1>4, <1>11 DEF ScopeMeansItsSets, names

(***************************************************************************)
(* What runs: the tool of an agent that was offered still comes first when  *)
(* more donors are active.                                                  *)
(***************************************************************************)
LEMMA OwnToolStays ==
    ASSUME toolbox \in ToolSetups, NEW d \in BOOLEAN, NEW e \in BOOLEAN, d => e,
           NEW t \in ToSet(ResourceTools(d))
    PROVE  /\ NameOf(t) \in NamesOf(ResourceTools(e))
           /\ FirstNamed(ResourceTools(e), NameOf(t)) = t
<1>1. CASE d = e
  BY <1>1, ResourceIs
<1>2. CASE d # e
  <2>1. d = FALSE
    BY <1>2
  <2>2. NameOf(t) \in NamesOf(toolbox.receiver)
    BY <2>1, ResourceIs
  <2>3. t = FirstNamed(ResourceTools(d), NameOf(t))
    BY ResourceIs
  <2> QED
    BY <2>2, <2>3, ResourceIs
<1> QED
  BY <1>1, <1>2

LEMMA ToolRuns == ToolInv => OfferedToolRuns
<1> SUFFICES ASSUME ToolInv, ran # NotYetRun, ran.tool # ran.wanted PROVE OfferedToolRuns
  BY DEF OfferedToolRuns
<1>1. PICK d \in BOOLEAN, e \in BOOLEAN : (d => e) /\ offered = Request(d) /\ RanBy(e)
  BY DEF ToolInv
<1>2. PICK av : av = NotHidden(ResourceTools(d))
  OBVIOUS
<1>3. /\ offered = Selected(av) /\ av \in Seq(Tools) /\ ToSet(av) \subseteq Shown
      /\ ToSet(av) = ToSet(ResourceTools(d)) \cap Shown /\ toolbox \in ToolSetups
  BY <1>1, <1>2, AvailableIs DEF Request, ToolInv
<1>4. PICK t \in ToSet(offered.tools) : ran = Call(t, e)
  BY <1>1 DEF RanBy
<1>5. offered.as = "tools"
  BY <1>1 DEF RanBy
<1>6. PICK n : n = NameOf(t)
  OBVIOUS
<1>7. PICK x : x = CalledTool(n, e)
  OBVIOUS
<1>8. ran.wanted = t /\ ran.tool = IF Refused(x) THEN "none" ELSE x
  BY <1>4, <1>6, <1>7 DEF Call
<1>9. PICK registry \in Seq(Tools) : registry = toolbox.registry
  BY <1>3, ToolboxIs
<1>10. /\ t \in Shown \cap OfStyle(toolbox.style)
       /\ \/ t \in ToSet(av)
          \/ /\ t \in ToSet(registry)
             /\ \A o \in ToSet(av) : NameOf(o) = n /\ InStyle(o, toolbox.style) =>
                   Category = "SYSTEM" /\ ~ToolInfo[o].system
             /\ n \in NamesOf(registry)
             /\ FirstNamed(registry, n) \in Shown \cap OfStyle(toolbox.style) =>
                   FirstNamed(registry, n) = t
  BY <1>3, <1>4, <1>5, <1>6, <1>9, OfferedFrom
<1>11. PICK own \in Seq(Tools) : own = ResourceTools(e)
  BY <1>3, ResourceIs
<1>12. PICK f : f = Deduped(registry)
  OBVIOUS
<1>13. NamesOf(f) = NamesOf(registry) /\ \A m \in NamesOf(registry) : FirstNamed(f, m) = FirstNamed(registry, m)
  BY <1>9, <1>12, DedupedIs
<1>14. x = IF n \in NamesOf(own) THEN FirstNamed(own, n)
           ELSE IF n \in NamesOf(registry) THEN FirstNamed(registry, n) ELSE "none"
  BY <1>7, <1>9, <1>11, <1>12, <1>13 DEF CalledTool
<1>15. PICK every \in Seq(Tools) : every = toolbox.receiver \o toolbox.donor \o registry
  BY <1>3, <1>9, ToolboxIs, ConcatIs
<1>16. ToSet(every) = ToSet(toolbox.receiver \o toolbox.donor) \cup ToSet(registry)
  <2>1. toolbox.receiver \o toolbox.donor \in Seq(Tools)
    BY <1>3, ToolboxIs, ConcatIs
  <2> QED
    BY <1>9, <1>15, <2>1, ConcatIs
<1>17. ~(t \in ToSet(av))
  <2> SUFFICES ASSUME t \in ToSet(av) PROVE FALSE
    OBVIOUS
  <2>1. n \in NamesOf(own) /\ FirstNamed(own, n) = t
    BY <1>1, <1>3, <1>6, <1>11, OwnToolStays
  <2>2. x = t /\ ~Refused(x)
    BY <1>10, <1>14, <2>1 DEF Refused, Shown
  <2> QED
    BY <1>8, <2>2
<1>18. /\ t \in ToSet(registry) /\ n \in NamesOf(registry)
       /\ \A o \in ToSet(av) : NameOf(o) = n /\ InStyle(o, toolbox.style) =>
             Category = "SYSTEM" /\ ~ToolInfo[o].system
       /\ FirstNamed(registry, n) \in Shown \cap OfStyle(toolbox.style) => FirstNamed(registry, n) = t
  BY <1>10, <1>17
<1>19. x \in ToSet(every) /\ NameOf(x) = n /\ x \in Tools
  <2>1. CASE n \in NamesOf(own)
    <3>1. x \in ToSet(own) /\ NameOf(x) = n
      BY <1>14, <2>1, FirstNamedIs
    <3>2. x \in Tools
      BY <3>1, ElementOfSeq DEF ToSet
    <3> QED
      BY <1>3, <1>11, <1>16, <3>1, <3>2, ResourceIs
  <2>2. CASE n \notin NamesOf(own)
    <3>1. x \in ToSet(registry) /\ NameOf(x) = n
      BY <1>14, <1>18, <2>2, FirstNamedIs
    <3>2. x \in Tools
      BY <3>1, ElementOfSeq DEF ToSet
    <3> QED
      BY <1>16, <3>1, <3>2
  <2> QED
    BY <2>1, <2>2
<1>20. x # t
  <2>1. x = t => ~Refused(x)
    BY <1>10 DEF Refused, Shown
  <2> QED
    BY <1>8, <2>1
<1>21. ToolInfo[t].system
  BY <1>3, <1>9, <1>18, ToolboxIs
<1>22. ASSUME x \in Shown, InStyle(x, toolbox.style)
       PROVE  (Category = "SYSTEM" /\ ~ToolInfo[x].system) \/ x \in ToSet(toolbox.donor)
  <2>1. CASE n \in NamesOf(own)
    <3>1. x \in ToSet(ResourceTools(e))
      BY <1>11, <1>14, <2>1, FirstNamedIs
    <3>2. CASE x \in ToSet(ResourceTools(d))
      BY <1>3, <1>18, <1>19, <1>22, <3>2
    <3>3. CASE x \notin ToSet(ResourceTools(d))
      <4>1. n \notin NamesOf(toolbox.receiver)
        <5> SUFFICES ASSUME n \in NamesOf(toolbox.receiver) PROVE FALSE
          OBVIOUS
        <5>1. /\ n \in NamesOf(ResourceTools(d))
              /\ FirstNamed(ResourceTools(d), n) = FirstNamed(toolbox.receiver, n)
              /\ FirstNamed(ResourceTools(e), n) = FirstNamed(toolbox.receiver, n)
              /\ ResourceTools(d) \in Seq(Tools)
          BY <1>3, ResourceIs
        <5>2. x = FirstNamed(ResourceTools(d), n)
          BY <1>11, <1>14, <2>1, <5>1
        <5> QED
          BY <3>3, <5>1, <5>2, FirstNamedIs
      <4> QED
        BY <1>3, <1>19, <3>1, <4>1, ResourceIs
    <3> QED
      BY <3>2, <3>3
  <2>2. CASE n \notin NamesOf(own)
    <3>1. x = FirstNamed(registry, n)
      BY <1>14, <1>18, <2>2
    <3>2. x \in OfStyle(toolbox.style)
      BY <1>19, <1>22 DEF OfStyle
    <3> QED
      BY <1>18, <1>20, <1>22, <3>1, <3>2
  <2> QED
    BY <2>1, <2>2
<1>23. \/ ToolInfo[x].hidden \/ ~InStyle(x, toolbox.style)
       \/ (~ToolInfo[x].system /\ Category = "SYSTEM")
       \/ (ToolInfo[t].system /\ x \in ToSet(toolbox.donor))
  BY <1>19, <1>21, <1>22 DEF Shown
<1> QED
  BY <1>6, <1>8, <1>9, <1>15, <1>19, <1>20, <1>23 DEF OfferedToolRuns

(* llm_tools_scope.py, llm_api.py, executors/utils.py: whatever the tools   *)
(* of the agents and of the registry are called and whatever the scope      *)
(* says, a request offers the tools of its scope and a call runs the tool   *)
(* that was offered, also after the job rose to a higher difficulty.        *)
THEOREM ToolsAreScoped == TsSpec => []ToolsAreAsScoped
<1>1. ToolInv => ToolsAreAsScoped
  BY ScopeMeans, ToolRuns DEF ToolsAreAsScoped
<1> QED
  BY <1>1, ToolStart, ToolStep, PTL DEF TsSpec

(* No request offers one name twice, a hidden tool or one of another style. *)
THEOREM ScopeTypeCorrect == TsSpec => []ScopeTypeOK
  BY ScopeTypes, ToolStart, ToolStep, PTL DEF TsSpec
=============================================================================
