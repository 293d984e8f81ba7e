SPECIFICATION Spec
CONSTANTS
    u1 = u1  u2 = u2  admin = admin
    m1 = m1  m2 = m2  reader = reader
    t1 = t1  t2 = t2  h1 = h1  h2 = h2  o1 = o1  o2 = o2  o3 = o3
    None = None
    Txns = {t1, t2}
    Users = {u1, u2, admin}
    Roles = {m1, m2, reader}
    ManageRoles = {m1, m2}
    RolesOf <- MCRolesOf
    AccessAdmins = {admin}
    Hosts = {h1, h2}
    HostOf <- MCTwoHosts
    Targets = {p}
    Objects = {o1}
    MaxVersions = 1
    MaxEvents = 2
    LostCommits = FALSE
PROPERTIES
    ArchivedKeepsVersions
