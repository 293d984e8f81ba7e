------------------------- MODULE MCWorkflowInstances -------------------------
(* Instances of WorkflowInstances for TLC: a version with a loop and a later *)
(* one whose initial state is terminal.                                     *)
EXTENDS WorkflowInstances, TLC

CONSTANTS d1, d2, s1, s2, s3, c1, c2, c3, self

LoopGraph ==
    [scope |-> self, states |-> {s1, s2, s3}, initial |-> {s1}, terminal |-> {s3},
     trans |-> {[code |-> c1, from |-> s1, to |-> s2],
                [code |-> c2, from |-> s2, to |-> s1],
                [code |-> c3, from |-> s2, to |-> s3]}]

InstantGraph ==
    [scope |-> self, states |-> {s1}, initial |-> {s1}, terminal |-> {s1}, trans |-> {}]

MCContent == d1 :> LoopGraph @@ d2 :> InstantGraph

Symmetry == Permutations(Executors) \cup Permutations(Txns)
=============================================================================
