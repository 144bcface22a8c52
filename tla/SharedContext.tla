--------------------------- MODULE SharedContext ---------------------------
(***************************************************************************)
(* Variables that jobs share by the contexts they are bound to              *)
(* (shared_context.py), and how the names of running code resolve to them:  *)
(* ContextFallbackProxy below the namespace of a block (exec_step), and     *)
(* _MirrorDict below that of one statement (executors/utils.py).            *)
(*                                                                         *)
(* A statement may drive an event loop in which other jobs run, and other   *)
(* processes use the same contexts: their steps come between any two reads  *)
(* and writes of a block.                                                   *)
(***************************************************************************)
EXTENDS Integers, FiniteSets

CONSTANTS
    SharingJobs,
    Specifiers,      (* strings or objects that contexts are bound to          *)
    Names,           (* names of variables                                    *)
    Categories,      (* categories registered at the start                    *)
    MaxSets,         (* bound: calls of shared_context_set_var                *)
    MaxInits,        (* bound: calls of init_shared_context                   *)
    MaxBlocks        (* bound: blocks                                         *)

ASSUME SharingAssumption == MaxSets \in Nat /\ MaxInits \in Nat /\ MaxBlocks \in Nat

VARIABLES
    registered,   \* ContextCategoryDict
    contexts,     \* the variables of each context, by the keys it is bound to
    sets,         \* calls of set_var so far; their created_at differ
    binding,      \* the shared context of each job: [writable, reads], or Unbound
    locals,       \* py_env.local_state of each job: its names
    block,        \* the block that a job runs, or NoBlock
    inits, blocks \* how many contexts were initialized, and blocks started

scVars == <<registered, contexts, sets, binding, locals, block, inits, blocks>>

NoVar == [id |-> 0]
NoKeys == {"read-only"}     \* the proxy has no writable context
Unbound == [writable |-> NoKeys, reads |-> {}]
NoBlock == [runs |-> FALSE]
Absent == 0                 \* resolved, and there is no such variable

ScInit ==
    /\ registered = Categories /\ contexts = <<>> /\ sets = 0
    /\ binding = [j \in SharingJobs |-> Unbound]
    /\ locals = [j \in SharingJobs |-> {}]
    /\ block = [j \in SharingJobs |-> NoBlock] /\ inits = 0 /\ blocks = 0

RemoveCategory ==
    /\ \E c \in registered : registered' = registered \ {c}
    /\ UNCHANGED <<contexts, sets, binding, locals, block, inits, blocks>>

(* init_shared_context: the broader contexts that exist now are merged for  *)
(* reads; the exact one is created and written to, unless read_only.        *)
Created(keys) ==
    [k \in DOMAIN contexts \cup {keys} |->
        IF k \in DOMAIN contexts THEN contexts[k] ELSE [n \in Names |-> NoVar]]
InitContext(j) ==
    /\ inits < MaxInits /\ inits' = inits + 1
    /\ \E keys \in SUBSET Specifiers, readOnly \in BOOLEAN :
          /\ contexts' = Created(keys)
          /\ binding' = [binding EXCEPT ![j] =
                [writable |-> IF readOnly THEN NoKeys ELSE keys,
                 reads |-> {k \in DOMAIN contexts' : k \subseteq keys}]]
    /\ UNCHANGED <<registered, sets, locals, block, blocks>>

(* shared_context_set_var: PermissionError where nothing is writable; a     *)
(* category that is not registered is ignored.                             *)
SetVar(j) ==
    /\ sets < MaxSets /\ sets' = sets + 1 /\ binding[j].writable # NoKeys
    /\ \E n \in Names, c \in registered :
          contexts' = [contexts EXCEPT ![binding[j].writable][n] = [id |-> sets', category |-> c]]
    /\ UNCHANGED <<registered, binding, locals, block, inits, blocks>>

(* SharedContextProxy.get_var: the newest variable of the name, unless its  *)
(* category is not registered any more.                                     *)
Visible(b, n) == {contexts[k][n] : k \in b.reads} \ {NoVar}
Newest(b, n) == CHOOSE v \in Visible(b, n) : \A o \in Visible(b, n) : o.id <= v.id
Resolves(b, n) ==     \* the id of the variable
    IF Visible(b, n) = {} \/ Newest(b, n).category \notin registered THEN Absent
    ELSE Newest(b, n).id

(* ContextFallbackProxy.__resolve: once per block and name.  The use_count  *)
(* of the variable, which nothing reads, is left out.                       *)
ResolvedAnew(j, n) ==            \* mutated: the result is not kept
    Resolves(block[j].context, n)
Resolved(j, n) ==
    IF n \in DOMAIN block[j].resolved THEN block[j].resolved[n]
    ELSE Resolves(block[j].context, n)
Resolution(j, n) ==
    [m \in DOMAIN block[j].resolved \cup {n} |->
        IF m = n THEN Resolved(j, n) ELSE block[j].resolved[m]]

InBlock(j) == block[j].runs
(* exec_step; an init_shared_context in the block is for the next one.      *)
StartBlock(j) ==
    /\ ~InBlock(j) /\ blocks < MaxBlocks
    /\ blocks' = blocks + 1
    /\ block' = [block EXCEPT ![j] =
          [runs |-> TRUE, context |-> binding[j], names |-> locals[j], statement |-> locals[j],
           resolved |-> <<>>, meant |-> [n \in Names |-> {}]]]
    /\ UNCHANGED <<registered, contexts, sets, binding, locals, inits>>

(* A name that the statement does not have is looked up in the context.     *)
ReadName(j, n) ==
    /\ InBlock(j) /\ n \notin block[j].statement
    /\ block' = [block EXCEPT ![j].resolved = Resolution(j, n),
                              ![j].meant[n] = @ \cup ({Resolved(j, n)} \ {Absent})]
    /\ UNCHANGED <<registered, contexts, sets, binding, locals, inits, blocks>>

(* _MirrorDict.__setitem__ with ensure_writable: PermissionError where the  *)
(* name is no local of the block and resolves to a shared variable.         *)
AssignName(j, n) ==
    /\ InBlock(j)
    /\ IF n \in block[j].names
       THEN block' = [block EXCEPT ![j].statement = @ \cup {n}]
       ELSE block' = [block EXCEPT
                ![j].resolved = Resolution(j, n),
                ![j].statement = IF Resolved(j, n) = Absent THEN @ \cup {n} ELSE @]
    /\ UNCHANGED <<registered, contexts, sets, binding, locals, inits, blocks>>

(* __delitem__ takes the name from the block at once.                       *)
DeleteName(j, n) ==
    /\ InBlock(j) /\ n \in block[j].statement
    /\ block' = [block EXCEPT ![j].statement = @ \ {n}, ![j].names = @ \ {n}]
    /\ UNCHANGED <<registered, contexts, sets, binding, locals, inits, blocks>>

(* local_context.update(sync_local), whose keys are checked once more; a    *)
(* function stays callable in the block but is no local of it.              *)
EndStatement(j) ==
    /\ InBlock(j)
    /\ \E functions \in SUBSET block[j].statement :
          LET kept == (block[j].names \cup block[j].statement) \ functions IN
          block' = [block EXCEPT ![j].names = kept, ![j].statement = kept]
    /\ UNCHANGED <<registered, contexts, sets, binding, locals, inits, blocks>>

(* The block has ended, raised, or is suspended: _copy_modified_locals      *)
(* keeps the locals of the statements that ended, and never drops one.      *)
LeaveBlock(j) ==
    /\ InBlock(j)
    /\ locals' = [locals EXCEPT ![j] = @ \cup block[j].names]
    /\ block' = [block EXCEPT ![j] = NoBlock]
    /\ UNCHANGED <<registered, contexts, sets, binding, inits, blocks>>

ScNext ==
    \/ RemoveCategory
    \/ \E j \in SharingJobs :
          \/ InitContext(j) \/ SetVar(j) \/ StartBlock(j) \/ EndStatement(j) \/ LeaveBlock(j)
          \/ \E n \in Names : ReadName(j, n) \/ AssignName(j, n) \/ DeleteName(j, n)

ScSpec == ScInit /\ [][ScNext]_scVars

-----------------------------------------------------------------------------
(* Types of the contexts, bindings and blocks.                              *)
ScTypeOK ==
    /\ registered \subseteq Categories /\ sets \in 0..MaxSets
    /\ DOMAIN contexts \subseteq SUBSET Specifiers
    /\ \A j \in SharingJobs :
          /\ binding[j].reads \subseteq DOMAIN contexts
          /\ binding[j].writable \in DOMAIN contexts \cup {NoKeys}
          /\ locals[j] \subseteq Names
          /\ InBlock(j) => /\ block[j].names \subseteq Names /\ block[j].statement \subseteq Names
                        /\ \A n \in DOMAIN block[j].resolved : block[j].resolved[n] \in 0..sets

(* Whatever other jobs set, remove or bind while a block runs, a name that  *)
(* the block does not have as a local stands for one shared variable at     *)
(* most until the block ends, and once it was read as such, no local of the *)
(* block or of later ones comes to hide it: it was absent when a local of   *)
(* that name was made.                                                      *)
NamesKeepTheirMeaning ==
    \A j \in SharingJobs : InBlock(j) => \A n \in Names :
        /\ Cardinality(block[j].meant[n]) <= 1
        /\ block[j].meant[n] # {} => n \notin block[j].names \cup block[j].statement
        /\ n \in block[j].names \ locals[j] =>
              n \in DOMAIN block[j].resolved /\ block[j].resolved[n] = Absent
=============================================================================
