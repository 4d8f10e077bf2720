---------------------------- MODULE ExecutionsMC ----------------------------
(***************************************************************************)
(* Executions on small instances: the model values of its configurations,  *)
(* and the symmetry of interchangeable executions.                         *)
(***************************************************************************)
EXTENDS Executions, TLC

CONSTANTS e1, e2, h1, h2

ExecSymmetry == Permutations(Execs)
=============================================================================
