SPECIFICATION Spec
CONSTANTS
    Categories = {c1, c2, c3}
    Policies = {p1}
    Documents = {d1}
    Requests = {r1, r2}
    Dates = {10, 20}
    Created = 1
    Days = {1, 2}
    MaxChanges = 5
    None = None
SYMMETRY MCSymmetry
INVARIANTS
    Acyclic
