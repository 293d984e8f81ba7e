SPECIFICATION Spec
CONSTANTS
    p1 = p1  p2 = p2  p3 = p3
    Job = Job  None = None
    Txns = {t1, t2}
    Persons = {}
    Positions = {p1, p2, p3}
    Employments = {}
    Kinds = {"move"}
    FirstPositions <- MCChain
INVARIANTS
    NoReportingCycle
