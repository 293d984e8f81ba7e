SPECIFICATION Spec
CONSTANTS
    d1 = d1
    d2 = d2
    s1 = s1
    s2 = s2
    s3 = s3
    c1 = c1
    c2 = c2
    c3 = c3
    self = self
    u1 = u1
    u2 = u2
    u3 = u3
    t1 = t1
    t2 = t2
    r1 = r1
    States = {s1, s2, s3}
    Codes = {c1, c2, c3}
    Scopes = {self}
    Defs = {d1, d2}
    Content <- MCContent
    Refs = {r1}
    Users = {u1, u2, u3}
    Executors = {u1, u2}
    Txns = {t1, t2}
    MaxHistory = 3
    None = None
SYMMETRY Symmetry
INVARIANTS
    TypeOK
    HistoryIsWalk
    EndsOneWay
    StarterIsNotified
    StartedFromPublished
PROPERTIES
    ImplementsCases
