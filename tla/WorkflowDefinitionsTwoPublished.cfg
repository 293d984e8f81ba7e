SPECIFICATION Spec
CONSTANTS
    Rows = {d1, d2, d3, d4}
    Txns = {t1, t2}
    Versioners = {t1, t2}
    States = {s1}
    Codes = {}
    Scopes = {self}
    None = None
    d1 = d1
    d2 = d2
    d3 = d3
    d4 = d4
    t1 = t1
    t2 = t2
    s1 = s1
    self = self
SYMMETRY VersionSymmetry
INVARIANTS
    OnePublished
