---------------------------- MODULE AccessPolicy ----------------------------
(***************************************************************************)
(* Who may do what in which organization: core/access/policy.py and the    *)
(* helpers of core/access/service.py and admin_service.py that compute     *)
(* scopes and look for the access managers of an organization.             *)
(*                                                                         *)
(* db[row] is the state of a row; a row is the name of its table followed  *)
(* by its key.  The permission codes organization.manage, people.manage    *)
(* and users.manage are one code here, "manage"; access.manage is          *)
(* "access".  Assignments without dates: starts_at and ends_at are unset.  *)
(***************************************************************************)
EXTENDS FiniteSets

CONSTANTS
    Orgs, Parent,   \* organizations and the parent each of them is created under
    Roles, Owner,   \* roles and the organization that owns them, None: system role
    People,         \* persons; the account of a person has the person's name
    Grants,         \* the role assignments that are requested in this instance
    None

VARIABLE db

Permissions == {"access", "manage"}

Scopes == {"self", "descendants"}

ASSUME PolicyAssumption ==
    /\ Parent \in [Orgs -> Orgs \cup {None}] /\ None \notin Orgs
    /\ Owner \in [Roles -> Orgs \cup {None}]
    /\ Grants \subseteq [user : People, role : Roles, org : Orgs, scope : Scopes]

Org(o)         == <<"org", o>>
Role(r)        == <<"role", r>>
Link(r, p)     == <<"link", r, p>>
Grant(g)       == <<"grant", g>>
User(x)        == <<"user", x>>
Person(x)      == <<"person", x>>
Relation(x, o) == <<"relation", x, o>>

Rows ==
    {Org(o) : o \in Orgs} \cup {Role(r) : r \in Roles}
    \cup {Link(r, p) : r \in Roles, p \in Permissions}
    \cup {Grant(g) : g \in Grants}
    \cup {User(x) : x \in People} \cup {Person(x) : x \in People}
    \cup {Relation(x, o) : x \in People, o \in Orgs}

Active(row) == db[row] = "active"

-----------------------------------------------------------------------------
(* Scopes *)

\* The organizations above each of them.
Ancestors ==
    [o \in Orgs |->
        {a \in Orgs :
            \A S \in SUBSET Orgs :
                (\A x \in S \cup {o} : Parent[x] \in S \cup {None}) => a \in S}]

\* The scope (s, mode) reaches the organization o.  A scope always reaches its
\* own root; below it, everything on the way up must be active.
Reaches(s, mode, o, alsoInactive) ==
    \/ s = o
    \/ /\ mode = "descendants"
       /\ s \in Ancestors[o]
       /\ Active(Org(o)) \/ alsoInactive
       /\ \A a \in Ancestors[o] : (s = a \/ s \in Ancestors[a]) => Active(Org(a))

InScope(s, mode, o) == Reaches(s, mode, o, FALSE)

\* The active organizations a scope covers.
Covered(s, mode) == {o \in Orgs : Active(Org(o)) /\ InScope(s, mode, o)}

-----------------------------------------------------------------------------
(* Permissions *)

Perms(r) == {p \in Permissions : Active(Link(r, p))}

Current(g) == Active(Grant(g)) /\ Active(Role(g.role))

Effective(g, o) == Active(Org(o)) /\ Current(g) /\ InScope(g.org, g.scope, o)

EffectivePerms(u, o) ==
    UNION {Perms(g.role) : g \in {h \in Grants : h.user = u /\ Effective(h, o)}}

HasPermission(u, p, o) == p \in EffectivePerms(u, o)

\* The check for the reactivation of o: o itself may be inactive.
HasPermissionIfInactive(u, p, o) ==
    \E g \in Grants :
        /\ g.user = u /\ Current(g)
        /\ Active(Org(g.org)) /\ Reaches(g.org, g.scope, o, TRUE)
        /\ p \in Perms(g.role)

\* An actor hands out only what it holds itself, everywhere it is handed out.
CanDelegate(u, os, perms) ==
    /\ os # {}
    /\ \A o \in os : perms \cup {"access"} \subseteq EffectivePerms(u, o)

\* An actor administers a user only if it could have granted all the user has.
Dominates(u, x) ==
    \A g \in Grants :
        g.user = x /\ Effective(g, g.org)
            => CanDelegate(u, Covered(g.org, g.scope), Perms(g.role))

-----------------------------------------------------------------------------
(* Access managers *)

\* The organizations a change of the role can be felt in.
Affected(r) ==
    (IF Owner[r] = None THEN {} ELSE {Owner[r]})
    \cup UNION {Covered(g.org, g.scope) :
                    g \in {h \in Grants : h.role = r /\ Effective(h, h.org)}}

Manages(g, o) ==
    /\ Active(User(g.user)) /\ Active(Person(g.user))
    /\ Effective(g, o)
    /\ "access" \in Perms(g.role)

\* Mutant of ManagersSurvive: the assignments that go count as well.
SomeManager(os, excluded) == \A o \in os : \E g \in Grants : Manages(g, o)

ManagersSurvive(os, excluded) ==
    \A o \in os : \E g \in Grants \ excluded : Manages(g, o)

Managed(o) == \E g \in Grants : Manages(g, o)

=============================================================================
