--------------------------- MODULE MCWorkflowCore ---------------------------
(***************************************************************************)
(* TLC instance of WorkflowCore: sessions are interchangeable.             *)
(***************************************************************************)
EXTENDS WorkflowCore, TLC

Symmetry == Permutations(Session) \cup Permutations(Step)
=============================================================================
