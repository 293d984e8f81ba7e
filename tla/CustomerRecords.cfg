SPECIFICATION CustomerSpec
CONSTANTS
    None = None
    Users = {u1, u2}
    customer = customer
    note = note
    owner = owner
    Rows = {customer, note}
    Profiles = {customer}
    Owners <- MCOwners
    Labels = {label}
    Values <- MCValues
    Tags = {g, h}
    MaxVersion <- MCMaxVersion
    MaxAttempts = 2
    Timeout = 30
    Backoff = 1
    RetryAfters = {0, 9990}
SYMMETRY MCSymmetry
INVARIANTS
    CustomerTypeOK
    VersionNamesColumns
    SleepBounded
