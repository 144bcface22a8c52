----------------------------- MODULE MCJobStep -----------------------------
(* Instances of JobStep for TLC. *)
EXTENDS JobStep, TLC

\* Warmup code of the instances: none, one plain block, or a block of code
\* followed by one that also makes a tool call.
CodeBlock == [code |-> TRUE, tool |-> FALSE, cli |-> FALSE, blank |-> FALSE]
CodeAndTool == [code |-> TRUE, tool |-> TRUE, cli |-> FALSE, blank |-> FALSE]
NoWarmup == <<>>
OneBlock == <<CodeBlock>>
TwoBlocks == <<CodeBlock, CodeAndTool>>

Symmetry == Permutations(Messages) \cup Permutations(Notes)
=============================================================================
