--------------------------- MODULE Administration ---------------------------
(***************************************************************************)
(* The administration of organizations, people, users, roles and role      *)
(* assignments: core/organization/service.py, core/people/service.py,      *)
(* core/identity/admin_service.py and core/access/admin_service.py.  They  *)
(* are one module because each of them decides by rows of the others.      *)
(*                                                                         *)
(* A request is three actions.  The first one authenticates its user.     *)
(* The second one waits for the row lock, if the handler takes one, and    *)
(* makes every check; the rows it reads without a lock may change          *)
(* afterwards.  The third one is flush and commit.  The INSERTs of the     *)
(* flush lock the rows their foreign keys name FOR KEY SHARE, which waits  *)
(* for FOR UPDATE: the audit event of every change names the acting user   *)
(* and an organization.                                                    *)
(*                                                                         *)
(* Names, e-mails, codes and passwords are left out: a request that        *)
(* changes nothing else locks its row, makes its checks and commits.       *)
(***************************************************************************)
EXTENDS AccessPolicy, Naturals

CONSTANTS
    Txns,        \* concurrent requests
    FirstRows,   \* the rows that are active at the start
    FirstOff,    \* the rows that are inactive at the start
    MaxChanges   \* bound on the changes that are committed

VARIABLES tx, changes

vars == <<db, tx, changes>>

ASSUME AdministrationAssumption ==
    FirstRows \cup FirstOff \subseteq Rows /\ MaxChanges \in Nat /\ None \notin People

Status == {"absent", "active", "inactive"}

IdleTx == [pc |-> "idle", actor |-> None, locks |-> {}, shares |-> {}, rows |-> {},
           to |-> "absent", was |-> None, overtaken |-> FALSE]

Tx == [pc : {"idle", "started", "checked"},
       actor  : People \cup {None},
       locks  : SUBSET Rows,     \* held FOR UPDATE
       shares : SUBSET Rows,     \* what the flush will lock FOR KEY SHARE
       rows   : SUBSET Rows,     \* what the flush will write
       to     : Status,          \* the state the rows get
       was    : Status \cup {None},  \* the state they must still be in
       overtaken : BOOLEAN]      \* another change was committed since it started

\* The types of the variables; a request holds row locks from its checks to its
\* end only, and no row is held twice.
TypeOK ==
    /\ db \in [Rows -> Status]
    /\ \A t \in Txns : tx[t] \in Tx /\ (tx[t].pc # "checked" => tx[t].locks = {})
    /\ \A s, t \in Txns : s # t => tx[s].locks \cap tx[t].locks = {}
    /\ changes \in 0..MaxChanges

Init ==
    /\ db = [row \in Rows |-> IF row \in FirstRows THEN "active"
                             ELSE IF row \in FirstOff THEN "inactive" ELSE "absent"]
    /\ tx = [t \in Txns |-> IdleTx]
    /\ changes = 0

-----------------------------------------------------------------------------
(* Requests *)

\* The bearer of the access token is an active user and person.  A request that
\* could not commit within the bound is not begun.
Authenticate(t, u) ==
    /\ tx[t].pc = "idle" /\ changes < MaxChanges
    /\ Active(User(u)) /\ Active(Person(u))
    /\ tx' = [tx EXCEPT ![t] = [IdleTx EXCEPT !.pc = "started", !.actor = u]]
    /\ UNCHANGED <<db, changes>>

Asks(t, u) == tx[t].pc = "started" /\ tx[t].actor = u /\ changes < MaxChanges

LockedByOther(t, row) == \E s \in Txns \ {t} : row \in tx[s].locks

\* The end of the checks: nothing is written yet.
Checked(t, locks, shares, rows, was, to) ==
    /\ \A row \in locks : ~ LockedByOther(t, row)
    /\ tx' = [tx EXCEPT ![t] =
                 [@ EXCEPT !.pc = "checked", !.locks = locks, !.rows = rows,
                           !.shares = shares \cup {User(tx[t].actor)},
                           !.was = was, !.to = to]]
    /\ UNCHANGED <<db, changes>>

\* A row that is locked changes its state, or only its name.
Changed(t, row, lock, shares, to) == Checked(t, {lock}, shares, {row}, None, to)

Edited(t, row, shares) == Checked(t, {row}, shares, {}, None, "absent")

\* Flush and commit.  A new row has a unique key.
Commit(t) ==
    /\ tx[t].pc = "checked"
    /\ changes < MaxChanges
    /\ \A row \in tx[t].shares \cup tx[t].rows : ~ LockedByOther(t, row)
    /\ tx[t].was # None => \A row \in tx[t].rows : db[row] = tx[t].was
    /\ db' = [row \in Rows |-> IF row \in tx[t].rows THEN tx[t].to ELSE db[row]]
    /\ changes' = changes + 1
    /\ tx' = [s \in Txns |->
                 IF s = t THEN IdleTx
                 ELSE [tx[s] EXCEPT !.overtaken = (tx[s].pc # "idle")]]

\* Mutant of Abort: the row locks outlive the transaction.
AbortLocked(t) ==
    /\ tx[t].pc # "idle"
    /\ tx' = [tx EXCEPT ![t] = [IdleTx EXCEPT !.locks = tx[t].locks]]
    /\ UNCHANGED <<db, changes>>

\* The request is refused, a deadlock victim, or its process dies.
Abort(t) ==
    /\ tx[t].pc # "idle"
    /\ tx' = [tx EXCEPT ![t] = IdleTx]
    /\ UNCHANGED <<db, changes>>

-----------------------------------------------------------------------------
(* Organizations *)

\* The permission must reach the new child as well, so its scope is not "self".
CreateOrganization(t, u, o) ==
    LET p == Parent[o]
    IN  /\ Asks(t, u)
        /\ p # None /\ db[Org(o)] = "absent"
        /\ HasPermission(u, "manage", p)
        /\ \E g \in Grants : /\ g.user = u /\ g.scope = "descendants"
                             /\ Effective(g, p) /\ "manage" \in Perms(g.role)
        /\ Checked(t, {Org(p)}, {}, {Org(o)}, "absent", "active")

\* The parent is read, never locked.
ActivateOrganization(t, u, o) ==
    /\ Asks(t, u)
    /\ db[Org(o)] = "inactive" /\ Parent[o] # None
    /\ HasPermissionIfInactive(u, "manage", o)
    /\ Active(Org(Parent[o]))
    /\ Changed(t, Org(o), Org(o), {}, "active")

UpdateOrganization(t, u, o) ==
    /\ Asks(t, u)
    /\ HasPermission(u, "manage", o)
    /\ Edited(t, Org(o), {})

\* Mutant of DeactivateOrganization: active children are not looked for.
DeactivateSubtree(t, u, o) ==
    /\ Asks(t, u)
    /\ Active(Org(o)) /\ Parent[o] # None
    /\ HasPermission(u, "manage", o)
    /\ Changed(t, Org(o), Org(o), {}, "inactive")

DeactivateOrganization(t, u, o) ==
    /\ Asks(t, u)
    /\ Active(Org(o)) /\ Parent[o] # None
    /\ HasPermission(u, "manage", o)
    /\ \A c \in Orgs : Parent[c] = o => ~ Active(Org(c))
    /\ Changed(t, Org(o), Org(o), {}, "inactive")

-----------------------------------------------------------------------------
(* Roles *)

CreateRole(t, u, r) ==
    /\ Asks(t, u)
    /\ Owner[r] # None /\ db[Role(r)] = "absent"
    /\ HasPermission(u, "access", Owner[r])
    /\ Checked(t, {}, {Org(Owner[r])}, {Role(r)}, "absent", "active")

MayChangeRole(t, u, r, perms) ==
    /\ Asks(t, u)
    /\ Owner[r] # None /\ db[Role(r)] # "absent"
    /\ CanDelegate(u, Affected(r), Perms(r) \cup perms)

GrantsOf(r) == {g \in Grants : g.role = r}

UpdateRole(t, u, r) ==
    /\ MayChangeRole(t, u, r, {})
    /\ Edited(t, Role(r), {Org(Owner[r])})

EnableRole(t, u, r) ==
    /\ MayChangeRole(t, u, r, {})
    /\ db[Role(r)] = "inactive"
    /\ Changed(t, Role(r), Role(r), {Org(Owner[r])}, "active")

DisableRole(t, u, r) ==
    /\ MayChangeRole(t, u, r, {})
    /\ Active(Role(r))
    /\ "access" \in Perms(r) => ManagersSurvive(Affected(r), GrantsOf(r))
    /\ Changed(t, Role(r), Role(r), {Org(Owner[r])}, "inactive")

GrantPermission(t, u, r, p) ==
    /\ MayChangeRole(t, u, r, {p})
    /\ p \notin Perms(r)
    /\ Changed(t, Link(r, p), Role(r), {Org(Owner[r])}, "active")

RevokePermission(t, u, r, p) ==
    /\ MayChangeRole(t, u, r, {})
    /\ p \in Perms(r)
    /\ p = "access" => ManagersSurvive(Affected(r), GrantsOf(r))
    /\ Changed(t, Link(r, p), Role(r), {Org(Owner[r])}, "absent")

-----------------------------------------------------------------------------
(* Assignments *)

\* The user may hold the role at the root of the assignment.
Assignable(g) ==
    /\ Active(Role(g.role))
    /\ Active(User(g.user)) /\ Active(Person(g.user))
    /\ Active(Relation(g.user, g.org))
    /\ Owner[g.role] # None => InScope(Owner[g.role], "descendants", g.org)

MayChangeGrant(t, u, g) ==
    /\ Asks(t, u)
    /\ CanDelegate(u, Covered(g.org, g.scope), Perms(g.role))

\* A new row, or the row that was deactivated: it is locked after the checks.
CreateAssignment(t, u, g) ==
    /\ MayChangeGrant(t, u, g)
    /\ Assignable(g) /\ Active(Org(g.org))
    /\ ~ Active(Grant(g))
    /\ LET named == IF db[Grant(g)] = "absent" THEN {User(g.user), Role(g.role)} ELSE {}
       IN  Checked(t, {}, {Org(g.org)} \cup named, {Grant(g)}, db[Grant(g)], "active")

EnableAssignment(t, u, g) ==
    /\ MayChangeGrant(t, u, g)
    /\ db[Grant(g)] = "inactive"
    /\ Assignable(g)
    /\ Changed(t, Grant(g), Grant(g), {Org(g.org)}, "active")

DisableAssignment(t, u, g) ==
    /\ MayChangeGrant(t, u, g)
    /\ Active(Grant(g))
    /\ "access" \in Perms(g.role) /\ Effective(g, g.org)
           => ManagersSurvive(Covered(g.org, g.scope), {g})
    /\ Changed(t, Grant(g), Grant(g), {Org(g.org)}, "inactive")

-----------------------------------------------------------------------------
(* People and users *)

\* The active organizations that decide about a person: those it belongs to,
\* or, when it belongs to none, those it has belonged to.
OrgsOf(x) ==
    LET known == {o \in Orgs : db[Relation(x, o)] # "absent" /\ Active(Org(o))}
        now   == {o \in known : Active(Relation(x, o))}
    IN  IF now # {} THEN now ELSE known

MayManage(t, u, x) ==
    /\ Asks(t, u)
    /\ OrgsOf(x) # {}
    /\ \A o \in OrgsOf(x) : HasPermission(u, "manage", o)

AuditOrgs(x) == {Org(o) : o \in OrgsOf(x)}

CreatePerson(t, u, x, o) ==
    /\ Asks(t, u)
    /\ db[Person(x)] = "absent"
    /\ HasPermission(u, "manage", o)
    /\ Checked(t, {}, {Org(o)}, {Person(x), Relation(x, o)}, "absent", "active")

\* The access of the person's user counts only while the account is active.
MayChangePerson(t, u, x) ==
    /\ MayManage(t, u, x)
    /\ Active(User(x)) => Dominates(u, x)

UpdatePerson(t, u, x) ==
    /\ MayManage(t, u, x)
    /\ Edited(t, Person(x), AuditOrgs(x))

\* The acting user's own person was loaded, and active, when it authenticated.
EnablePerson(t, u, x) ==
    /\ MayChangePerson(t, u, x)
    /\ db[Person(x)] = "inactive" /\ x # u
    /\ Changed(t, Person(x), Person(x), AuditOrgs(x), "active")

DisablePerson(t, u, x) ==
    /\ MayChangePerson(t, u, x)
    /\ Active(Person(x)) /\ x # u
    /\ Changed(t, Person(x), Person(x), AuditOrgs(x), "inactive")

\* A new relationship, or one that had ended.
AddRelation(t, u, x, o) ==
    /\ Asks(t, u)
    /\ db[Person(x)] # "absent"
    /\ ~ Active(Relation(x, o))
    /\ HasPermission(u, "manage", o)
    /\ Changed(t, Relation(x, o), Person(x), {Org(o)}, "active")

\* Mutant of EndRelation: the user's assignments are not looked for.
EndAnyRelation(t, u, x, o) ==
    /\ Asks(t, u)
    /\ Active(Relation(x, o))
    /\ HasPermission(u, "manage", o)
    /\ Changed(t, Relation(x, o), Person(x), {Org(o)}, "inactive")

EndRelation(t, u, x, o) ==
    /\ Asks(t, u)
    /\ Active(Relation(x, o))
    /\ HasPermission(u, "manage", o)
    /\ ~ \E g \in Grants : g.user = x /\ g.org = o /\ Active(Grant(g))
    /\ Changed(t, Relation(x, o), Person(x), {Org(o)}, "inactive")

CreateUser(t, u, x) ==
    /\ MayManage(t, u, x)
    /\ Active(Person(x)) /\ db[User(x)] = "absent"
    /\ Checked(t, {Person(x)}, AuditOrgs(x), {User(x)}, "absent", "active")

MayChangeUser(t, u, x) == MayManage(t, u, x) /\ Dominates(u, x)

\* E-mail, user name or password.
UpdateUser(t, u, x) ==
    /\ MayChangeUser(t, u, x)
    /\ db[User(x)] # "absent"
    /\ Edited(t, User(x), AuditOrgs(x))

EnableUser(t, u, x) ==
    /\ MayChangeUser(t, u, x)
    /\ db[User(x)] = "inactive" /\ x # u
    /\ Changed(t, User(x), User(x), AuditOrgs(x), "active")

DisableUser(t, u, x) ==
    /\ MayChangeUser(t, u, x)
    /\ Active(User(x)) /\ x # u
    /\ Changed(t, User(x), User(x), AuditOrgs(x), "inactive")

-----------------------------------------------------------------------------

AdministerOrganizations(t, u) ==
    \E o \in Orgs :
        \/ CreateOrganization(t, u, o) \/ UpdateOrganization(t, u, o)
        \/ ActivateOrganization(t, u, o) \/ DeactivateOrganization(t, u, o)

AdministerAccess(t, u) ==
    \/ \E r \in Roles :
           \/ CreateRole(t, u, r) \/ UpdateRole(t, u, r)
           \/ EnableRole(t, u, r) \/ DisableRole(t, u, r)
           \/ \E p \in Permissions : GrantPermission(t, u, r, p) \/ RevokePermission(t, u, r, p)
    \/ \E g \in Grants :
           CreateAssignment(t, u, g) \/ EnableAssignment(t, u, g) \/ DisableAssignment(t, u, g)

AdministerPeople(t, u) ==
    \E x \in People :
        \/ UpdatePerson(t, u, x) \/ EnablePerson(t, u, x) \/ DisablePerson(t, u, x)
        \/ \E o \in Orgs :
               CreatePerson(t, u, x, o) \/ AddRelation(t, u, x, o) \/ EndRelation(t, u, x, o)

AdministerUsers(t, u) ==
    \E x \in People :
        \/ CreateUser(t, u, x) \/ UpdateUser(t, u, x)
        \/ EnableUser(t, u, x) \/ DisableUser(t, u, x)

Next ==
    \E t \in Txns :
        \/ Commit(t)
        \/ Abort(t)
        \/ \E u \in People :
               \/ Authenticate(t, u)
               \/ AdministerOrganizations(t, u) \/ AdministerAccess(t, u)
               \/ AdministerPeople(t, u) \/ AdministerUsers(t, u)

Spec == Init /\ [][Next]_vars

-----------------------------------------------------------------------------
(* Properties *)

\* The request that this step commits decided on rows that have changed since.
OvertakenStep ==
    \E t \in Txns : tx[t].overtaken /\ tx'[t] = IdleTx /\ changes' # changes

\* An active organization that has an effective access manager keeps one,
\* whatever is changed: roles, permissions, assignments, users or persons,
\* unless another request has changed something since this one was authenticated
\* (_ensure_access_manager_survives, assert_actor_dominates_user_access).
ManagerKept ==
    [][\A o \in Orgs :
          Managed(o) /\ Active(Org(o))' /\ ~ Managed(o)' => OvertakenStep]_db

\* The same without the exception, as docs/phase-b5.6-core-write-apis.md:114
\* promises it: does not hold (AdministrationLast.cfg).
LastManagerKept ==
    [][\A o \in Orgs : Managed(o) /\ Active(Org(o))' => Managed(o)']_db

\* An active organization stands below active ones, unless a request that
\* creates, activates or deactivates acts on a parent or child that another one
\* has changed since (change_organization_status).
BelowActive(o) == Active(Org(o)) => Parent[o] = None \/ Active(Org(Parent[o]))

TreeOrder ==
    [][\A o \in Orgs : BelowActive(o) /\ ~ BelowActive(o)' => OvertakenStep]_db

\* The same without the exception does not hold: a parent is deactivated while
\* its child is activated (AdministrationTree.cfg).
ActiveBelowActive == \A o \in Orgs : BelowActive(o)

\* Nobody holds an assignment at an organization without a relationship to it,
\* unless the assignment and the end of the relationship overtake each other.
Rooted(g) == Active(Grant(g)) => Active(Relation(g.user, g.org))

AssignmentsRooted ==
    [][\A g \in Grants : Rooted(g) /\ ~ Rooted(g)' => OvertakenStep]_db

\* The same without the exception does not hold: a relationship ends while an
\* assignment that needs it is enabled (AdministrationRooted.cfg).
AllRooted == \A g \in Grants : Rooted(g)

=============================================================================
