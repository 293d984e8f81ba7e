SPECIFICATION Spec
CONSTANTS
    Rows = {d1, d2, d3}
    Txns = {t1, t2}
    Versioners = {t1, t2}
    States = {s1, s2}
    Codes = {c1}
    Scopes = {self}
    None = None
    d1 = d1
    d2 = d2
    d3 = d3
    t1 = t1
    t2 = t2
    s1 = s1
    s2 = s2
    c1 = c1
    self = self
SYMMETRY VersionSymmetry
INVARIANTS
    VersionsContiguous
    PublishedExecutable
PROPERTIES
    Frozen
