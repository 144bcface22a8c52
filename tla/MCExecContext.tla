--------------------------- MODULE MCExecContext ---------------------------
(* Instances of ExecContext for TLC. *)
EXTENDS ExecContext, TLC

\* Jobs are interchangeable: no instance distinguishes them.
JobSymmetry == Permutations(Jobs)
=============================================================================
