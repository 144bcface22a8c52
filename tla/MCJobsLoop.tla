----------------------------- MODULE MCJobsLoop -----------------------------
(* Instances of JobsLoop for TLC. *)
EXTENDS JobsLoop, TLC
CONSTANTS a1, a2, j1, j2, j3

\* One agent with every identity, or two agents that share them.
OneAgent == [j \in Jobs |-> a1]
TwoAgents == [j \in Jobs |-> IF j \in {j1, j2} THEN a1 ELSE a2]
FleetOfOne == <<a1>>
FleetOfTwo == <<a1, a2>>

\* Identities reserved for one agent are interchangeable.
TwoAgentsSymmetry == Permutations({j1, j2})
=============================================================================
