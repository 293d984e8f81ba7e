---------------------------- MODULE MCHrStaffing ----------------------------
(* Instances of HrStaffing for TLC. *)
EXTENDS HrStaffing, TLC

CONSTANTS p1, p2, p3

\* Three positions in force, p2 below p3.
MCChain ==
    LET In(q) == [status |-> "active", reportsTo |-> q]
    IN  p1 :> In(None) @@ p2 :> In(p3) @@ p3 :> In(None)

MCNothing == [p \in Positions |-> [status |-> "absent", reportsTo |-> None]]

Symmetry == Permutations(Txns) \cup Permutations(Persons)
                \cup Permutations(Positions) \cup Permutations(Employments)
=============================================================================
