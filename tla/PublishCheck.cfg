SPECIFICATION FairCheckSpec
CONSTANTS
    States = {s1, s2, s3}
    Codes = {c1, c2, c3}
    Scopes = {self}
    s1 = s1
    s2 = s2
    s3 = s3
    c1 = c1
    c2 = c2
    c3 = c3
    self = self
    Inputs <- MCInputs
CHECK_DEADLOCK FALSE
INVARIANTS
    DecidesPublishable
PROPERTIES
    Terminates
