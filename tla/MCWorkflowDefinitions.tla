------------------------ MODULE MCWorkflowDefinitions ------------------------
(* Instances of WorkflowDefinitions for TLC. *)
EXTENDS WorkflowDefinitions, TLC

VersionSymmetry == Permutations(Rows) \cup Permutations(Txns) \cup Permutations(States)
==============================================================================
