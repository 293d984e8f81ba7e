SPECIFICATION Spec
CONSTANTS
    p1 = p1  p2 = p2  p3 = p3
    Job = Job  None = None
    Txns = {t1, t2}
    Persons = {a, b}
    Positions = {p1, p2}
    Employments = {e1, e2}
    Kinds = {"hire", "transfer", "rehire", "end", "person", "open", "move", "activate", "deactivate", "retireJob"}
    FirstPositions <- MCNothing
SYMMETRY Symmetry
INVARIANTS
    OneEmployment
    OneOccupant
    NoMutualReports
    OnlyMovesDeadlock
PROPERTIES
    DeactivatedVacant
