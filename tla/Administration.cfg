SPECIFICATION Spec
CONSTANTS
    None = None
    holding = holding
    company = company
    branch = branch
    depot = depot
    admin = admin
    clerk = clerk
    guard = guard
    u1 = u1
    u2 = u2
    u3 = u3
    Orgs = {holding, company, branch, depot}
    Parent <- MCParent
    Roles = {admin, clerk, guard}
    Owner <- MCOwner
    People = {u1, u2, u3}
    Grants <- MCGrants
    Txns = {t1, t2}
    FirstRows <- MCFirstRows
    FirstOff <- MCFirstOff
    MaxChanges = 2
SYMMETRY Symmetry
INVARIANTS
    TypeOK
PROPERTIES
    ManagerKept
    TreeOrder
    AssignmentsRooted
CHECK_DEADLOCK FALSE
