SPECIFICATION FairSpec
CONSTANTS
    Rows = {d1, d2, d3}
    Txns = {t1, t2}
    Versioners = {t1}
    States = {s1}
    Codes = {}
    Scopes = {self}
    None = None
    d1 = d1
    d2 = d2
    d3 = d3
    t1 = t1
    t2 = t2
    s1 = s1
    self = self
PROPERTIES
    ImplementsReleases
    RequestsEnd
