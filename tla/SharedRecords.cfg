SPECIFICATION Spec
CONSTANTS
    None = None
    Users = {u1, u2}
    Rows = {supplier, note}
    Profiles = {supplier}
    Values = {v1, v2}
    Tags = {g}
    supplier = supplier  note = note
    MaxVersion <- MCMaxVersion
SYMMETRY Symmetry
INVARIANTS
    VersionNamesContent
PROPERTY
    NoLostUpdate
