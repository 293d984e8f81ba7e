------------------------- MODULE AdministrationProofs -------------------------
(***************************************************************************)
(* Proofs about Administration for any tree of organizations, any roles,   *)
(* people and assignments, and any number of requests.                     *)
(*                                                                         *)
(* The argument: what a request has found out about other rows is true of  *)
(* the committed rows until somebody commits; from then on the request is  *)
(* marked as overtaken.  So a request that is not overtaken writes rows    *)
(* that fit the others (Fits) and spares an access manager of every        *)
(* organization that has one (Spared).  Only rows that do not fit break    *)
(* the order of the tree or the roots of the assignments, and only rows a  *)
(* manager needs make it stop being one.                                   *)
(***************************************************************************)
EXTENDS Administration, TLAPS

\* The rows, in their new state, fit the rows they depend on.
Fits(rows, to) ==
    /\ to = "active" =>
           /\ \A o \in Orgs :
                  Org(o) \in rows /\ Parent[o] # None => Active(Org(Parent[o]))
           /\ \A g \in Grants :
                  Grant(g) \in rows => Active(Relation(g.user, g.org))
    /\ to # "active" =>
           /\ \A c \in Orgs : Parent[c] # None /\ Org(Parent[c]) \in rows => ~ Active(Org(c))
           /\ \A g \in Grants : Relation(g.user, g.org) \in rows => ~ Active(Grant(g))

\* The organizations on the way from o to the root of g.
Way(g, o) ==
    IF g.org = o THEN {} ELSE {a \in Ancestors[o] : g.org = a \/ g.org \in Ancestors[a]}

Needs(g, o) ==
    {User(g.user), Person(g.user), Org(o), Grant(g), Role(g.role), Link(g.role, "access")}
    \cup {Org(a) : a \in Way(g, o)}

\* Manages, as the rows that must be active.
Handles(g, o) ==
    /\ g.org = o \/ (g.scope = "descendants" /\ g.org \in Ancestors[o])
    /\ \A row \in Needs(g, o) : Active(row)

\* Every organization that has a manager has one that needs none of the rows.
Spared(rows) ==
    \A o \in Orgs :
        (\E g \in Grants : Handles(g, o)) /\ Org(o) \notin rows =>
            \E h \in Grants : Handles(h, o) /\ Needs(h, o) \cap rows = {}

Suits(rows, to) == Fits(rows, to) /\ (to # "active" => Spared(rows))

ActorActive(t) ==
    tx[t].pc # "idle" /\ ~ tx[t].overtaken =>
        Active(User(tx[t].actor)) /\ Active(Person(tx[t].actor)) /\ tx[t].actor \in People

Types ==
    /\ db \in [Rows -> Status]
    /\ tx \in [Txns -> Tx]
    /\ changes \in 0..MaxChanges

Locks ==
    /\ \A t \in Txns : tx[t].pc # "checked" => tx[t].locks = {}
    /\ \A s, t \in Txns : s # t => tx[s].locks \cap tx[t].locks = {}

IInv ==
    /\ Types /\ Locks
    /\ \A t \in Txns : ActorActive(t)
    /\ \A t \in Txns :
           tx[t].pc = "checked" /\ ~ tx[t].overtaken => Suits(tx[t].rows, tx[t].to)

-----------------------------------------------------------------------------
(* Rows *)

LEMMA RowTypes ==
    /\ \A o \in Orgs : Org(o) \in Rows
    /\ \A r \in Roles : Role(r) \in Rows
    /\ \A r \in Roles, p \in Permissions : Link(r, p) \in Rows
    /\ \A g \in Grants : Grant(g) \in Rows
    /\ \A x \in People : User(x) \in Rows /\ Person(x) \in Rows
    /\ \A x \in People, o \in Orgs : Relation(x, o) \in Rows
BY DEF Rows

LEMMA GrantTypes ==
    \A g \in Grants : g.user \in People /\ g.role \in Roles /\ g.org \in Orgs
BY PolicyAssumption

LEMMA IdleType == IdleTx \in Tx /\ IdleTx.pc = "idle" /\ IdleTx.locks = {}
BY DEF IdleTx, Tx, Status

LEMMA InitInv == Init => IInv
<1> SUFFICES ASSUME Init PROVE IInv
  OBVIOUS
<1>1. db \in [Rows -> Status]
  BY DEF Init, Status
<1>2. tx \in [Txns -> Tx] /\ \A t \in Txns : tx[t] = IdleTx
  BY IdleType DEF Init
<1>3. changes \in 0..MaxChanges
  BY AdministrationAssumption DEF Init
<1>4. \A t \in Txns : ActorActive(t)
  BY <1>2, IdleType DEF ActorActive
<1> QED BY <1>1, <1>2, <1>3, <1>4, IdleType DEF IInv, Types, Locks

-----------------------------------------------------------------------------
(* The steps of a request *)

\* A step that commits nothing keeps what the other requests have found out.
LEMMA QuietInv ==
    ASSUME IInv, db' = db, Types', Locks',
           \A s \in Txns : ActorActive(s)' \/ tx'[s] = tx[s],
           \A s \in Txns :
               tx'[s].pc = "checked" /\ ~ tx'[s].overtaken => Suits(tx'[s].rows, tx'[s].to)
    PROVE  IInv'
<1>1. \A s \in Txns : ActorActive(s)'
  BY DEF IInv, ActorActive, Active
<1>2. (\A s \in Txns :
           tx[s].pc = "checked" /\ ~ tx[s].overtaken => Suits(tx[s].rows, tx[s].to))'
  BY DEF Suits, Fits, Spared, Handles, Active
<1> QED BY <1>1, <1>2 DEF IInv

LEMMA AuthenticateInv ==
    ASSUME IInv, NEW t \in Txns, NEW u \in People, Authenticate(t, u)
    PROVE  IInv'
<1> DEFINE new == [IdleTx EXCEPT !.pc = "started", !.actor = u]
<1>1. new \in Tx /\ new.pc = "started" /\ new.locks = {} /\ new.actor = u
  BY DEF IdleTx, Tx, Status
<1>2. /\ tx' = [tx EXCEPT ![t] = new] /\ UNCHANGED <<db, changes>>
      /\ Active(User(u)) /\ Active(Person(u))
  BY DEF Authenticate
<1> HIDE DEF new
<1>3. tx' \in [Txns -> Tx] /\ tx'[t] = new /\ \A s \in Txns \ {t} : tx'[s] = tx[s]
  BY <1>1, <1>2 DEF IInv, Types
<1>4. Types' /\ Locks'
  BY <1>1, <1>2, <1>3 DEF IInv, Types, Locks
<1>5. \A s \in Txns : tx'[s].pc = "checked" /\ ~ tx'[s].overtaken => Suits(tx'[s].rows, tx'[s].to)
  BY <1>1, <1>3 DEF IInv
<1>6. ActorActive(t)'
  BY <1>1, <1>2, <1>3 DEF ActorActive, Active
<1> QED BY <1>2, <1>3, <1>4, <1>5, <1>6, QuietInv

LEMMA AbortInv ==
    ASSUME IInv, NEW t \in Txns, Abort(t)
    PROVE  IInv'
<1>1. tx' = [tx EXCEPT ![t] = IdleTx] /\ UNCHANGED <<db, changes>>
  BY DEF Abort
<1>2. tx' \in [Txns -> Tx] /\ tx'[t] = IdleTx /\ \A s \in Txns \ {t} : tx'[s] = tx[s]
  BY <1>1, IdleType DEF IInv, Types
<1>3. Types' /\ Locks'
  BY <1>1, <1>2, IdleType DEF IInv, Types, Locks
<1>4. \A s \in Txns : tx'[s].pc = "checked" /\ ~ tx'[s].overtaken => Suits(tx'[s].rows, tx'[s].to)
  BY <1>2, IdleType DEF IInv
<1>5. ActorActive(t)'
  BY <1>2, IdleType DEF ActorActive
<1> QED BY <1>1, <1>2, <1>3, <1>4, <1>5, QuietInv

\* The end of the checks of a request that writes rows that suit.
LEMMA CheckedInv ==
    ASSUME IInv, NEW t \in Txns, tx[t].pc = "started", tx[t].actor \in People,
           NEW locks \in SUBSET Rows, NEW shares \in SUBSET Rows, NEW rows \in SUBSET Rows,
           NEW was \in Status \cup {None}, NEW to \in Status,
           Checked(t, locks, shares, rows, was, to), tx[t].overtaken \/ Suits(rows, to)
    PROVE  IInv'
<1> DEFINE all == shares \cup {User(tx[t].actor)}
           new == [tx[t] EXCEPT !.pc = "checked", !.locks = locks, !.rows = rows,
                                !.shares = all, !.was = was, !.to = to]
<1>1. tx' = [tx EXCEPT ![t] = new] /\ UNCHANGED <<db, changes>>
  BY DEF Checked, IInv, Types
<1>2. all \in SUBSET Rows /\ tx[t] \in Tx
  BY RowTypes DEF IInv, Types
<1> HIDE DEF all
<1>3. /\ new \in Tx /\ new.locks = locks /\ new.rows = rows /\ new.to = to
      /\ new.overtaken = tx[t].overtaken /\ new.actor = tx[t].actor
  BY <1>2 DEF Tx
<1> HIDE DEF new
<1>4. tx' \in [Txns -> Tx] /\ tx'[t] = new /\ \A s \in Txns \ {t} : tx'[s] = tx[s]
  BY <1>1, <1>3 DEF IInv, Types
<1>5. Types'
  BY <1>1, <1>4 DEF IInv, Types
<1>6. new.pc = "checked"
  BY <1>2 DEF new, Tx
<1>7. \A s \in Txns \ {t} : tx[s].locks \cap locks = {}
  <2>1. \A row \in locks, s \in Txns \ {t} : row \notin tx[s].locks
    BY DEF Checked, LockedByOther
  <2> QED BY <2>1
<1>8. Locks'
  BY <1>3, <1>4, <1>6, <1>7 DEF IInv, Locks
<1>9. \A s \in Txns : tx'[s].pc = "checked" /\ ~ tx'[s].overtaken => Suits(tx'[s].rows, tx'[s].to)
  BY <1>3, <1>4 DEF IInv
<1>10. ActorActive(t)'
  BY <1>1, <1>3, <1>4 DEF IInv, ActorActive, Active
<1> QED BY <1>1, <1>4, <1>5, <1>8, <1>9, <1>10, QuietInv

LEMMA CommitInv ==
    ASSUME IInv, NEW t \in Txns, Commit(t)
    PROVE  IInv'
<1>1. /\ tx[t] \in Tx /\ tx[t].to \in Status
      /\ db' = [row \in Rows |-> IF row \in tx[t].rows THEN tx[t].to ELSE db[row]]
      /\ changes < MaxChanges /\ changes' = changes + 1
      /\ tx' = [s \in Txns |->
                   IF s = t THEN IdleTx
                   ELSE [tx[s] EXCEPT !.overtaken = (tx[s].pc # "idle")]]
  BY DEF Commit, IInv, Types, Tx
<1>2. db' \in [Rows -> Status]
  BY <1>1 DEF IInv, Types
<1>3. changes' \in 0..MaxChanges
  BY <1>1, AdministrationAssumption DEF IInv, Types
<1>4. ASSUME NEW s \in Txns \ {t}
      PROVE  /\ tx'[s] \in Tx /\ tx'[s].pc = tx[s].pc /\ tx'[s].locks = tx[s].locks
             /\ tx'[s].pc # "idle" => tx'[s].overtaken
  <2> DEFINE b == (tx[s].pc # "idle")
             new == [tx[s] EXCEPT !.overtaken = b]
  <2>1. tx[s] \in Tx /\ b \in BOOLEAN /\ tx'[s] = new
    BY <1>1 DEF IInv, Types
  <2>2. tx[s].pc # "idle" => b
    OBVIOUS
  <2> HIDE DEF b
  <2>3. /\ new \in Tx /\ new.pc = tx[s].pc /\ new.locks = tx[s].locks
        /\ new.overtaken = b
    BY <2>1 DEF Tx
  <2> HIDE DEF new
  <2> QED BY <2>1, <2>2, <2>3
<1>5. tx'[t] = IdleTx
  BY <1>1
<1>6. \A s \in Txns : tx'[s] \in Tx
  BY <1>4, <1>5, IdleType
<1>7. tx' \in [Txns -> Tx]
  BY <1>1, <1>6
<1>8. Types'
  BY <1>2, <1>3, <1>7 DEF Types
<1>9. Locks'
  BY <1>4, <1>5, IdleType DEF IInv, Locks
<1>10. \A s \in Txns : ~ (tx'[s].pc = "checked" /\ ~ tx'[s].overtaken)
  BY <1>4, <1>5, IdleType
<1>11. \A s \in Txns : ActorActive(s)'
  BY <1>4, <1>5, IdleType DEF ActorActive
<1> QED BY <1>8, <1>9, <1>10, <1>11 DEF IInv

-----------------------------------------------------------------------------
(* Rows that fit *)

\* Rows of different tables, and rows with different keys, are different.
LEMMA RowsDiffer ==
    /\ \A o, q : Org(o) = Org(q) => o = q
    /\ \A g, h : Grant(g) = Grant(h) => g = h
    /\ \A x, y, o, q : Relation(x, o) = Relation(y, q) => x = y /\ o = q
    /\ \A o, g : Org(o) # Grant(g)
    /\ \A o, x, q : Org(o) # Relation(x, q) /\ Grant(o) # Relation(x, q)
    /\ \A o, r, p, x :
           /\ Org(o) # Role(r) /\ Org(o) # Link(r, p) /\ Org(o) # User(x) /\ Org(o) # Person(x)
           /\ Grant(o) # Role(r) /\ Grant(o) # Link(r, p)
           /\ Grant(o) # User(x) /\ Grant(o) # Person(x)
    /\ \A y, o, r, p, x :
           /\ Relation(y, o) # Role(r) /\ Relation(y, o) # Link(r, p)
           /\ Relation(y, o) # User(x) /\ Relation(y, o) # Person(x)
BY DEF Org, Grant, Relation, Role, Link, User, Person

LEMMA NoRowsFit == \A to : Fits({}, to)
BY DEF Fits

\* Roles, permissions, users and persons fit in any state.
LEMMA OthersFit ==
    ASSUME NEW r, NEW p, NEW x, NEW to, NEW row \in {Role(r), Link(r, p), User(x), Person(x)}
    PROVE  Fits({row}, to)
BY RowsDiffer DEF Fits

LEMMA OrgActiveFits ==
    ASSUME NEW o \in Orgs, Active(Org(Parent[o]))
    PROVE  Fits({Org(o)}, "active")
<1>1. ASSUME NEW q \in Orgs, Org(q) \in {Org(o)}
      PROVE  Active(Org(Parent[q]))
  <2>1. q = o
    BY <1>1, RowsDiffer
  <2> QED BY <2>1
<1>2. \A g \in Grants : Grant(g) \notin {Org(o)}
  BY RowsDiffer
<1> QED BY <1>1, <1>2 DEF Fits

LEMMA OrgInactiveFits ==
    ASSUME NEW o \in Orgs, \A c \in Orgs : Parent[c] = o => ~ Active(Org(c))
    PROVE  Fits({Org(o)}, "inactive")
<1>1. ASSUME NEW c \in Orgs, Org(Parent[c]) \in {Org(o)}
      PROVE  ~ Active(Org(c))
  <2>1. Parent[c] = o
    BY <1>1, RowsDiffer
  <2> QED BY <2>1
<1>2. \A g \in Grants : Relation(g.user, g.org) \notin {Org(o)}
  BY RowsDiffer
<1> QED BY <1>1, <1>2 DEF Fits

LEMMA GrantActiveFits ==
    ASSUME NEW g \in Grants, Active(Relation(g.user, g.org))
    PROVE  Fits({Grant(g)}, "active")
<1>1. ASSUME NEW h \in Grants, Grant(h) \in {Grant(g)}
      PROVE  Active(Relation(h.user, h.org))
  <2>1. h = g
    BY <1>1, RowsDiffer
  <2> QED BY <2>1
<1>2. \A o \in Orgs : Org(o) \notin {Grant(g)}
  BY RowsDiffer
<1> QED BY <1>1, <1>2 DEF Fits

LEMMA GrantInactiveFits ==
    ASSUME NEW g \in Grants
    PROVE  Fits({Grant(g)}, "inactive")
BY RowsDiffer DEF Fits

LEMMA RelationActiveFits ==
    ASSUME NEW x, NEW o
    PROVE  Fits({Relation(x, o)}, "active") /\ Fits({Person(x), Relation(x, o)}, "active")
BY RowsDiffer DEF Fits

LEMMA RelationInactiveFits ==
    ASSUME NEW x, NEW o,
           ~ \E g \in Grants : g.user = x /\ g.org = o /\ Active(Grant(g))
    PROVE  Fits({Relation(x, o)}, "inactive")
<1>1. ASSUME NEW g \in Grants, Relation(g.user, g.org) \in {Relation(x, o)}
      PROVE  ~ Active(Grant(g))
  <2>1. g.user = x /\ g.org = o
    BY <1>1, RowsDiffer
  <2> QED BY <2>1
<1>2. \A q : Org(q) \notin {Relation(x, o)}
  BY RowsDiffer
<1> QED BY <1>1, <1>2 DEF Fits

-----------------------------------------------------------------------------
(* Ancestors *)

\* The parent of an organization, and of its ancestors, is one of its ancestors.
LEMMA ParentAbove ==
    ASSUME NEW o \in Orgs, NEW x \in Ancestors[o] \cup {o}, Parent[x] # None
    PROVE  Parent[x] \in Ancestors[o]
<1>1. Ancestors[o] = {a \in Orgs :
            \A S \in SUBSET Orgs :
                (\A y \in S \cup {o} : Parent[y] \in S \cup {None}) => a \in S}
  BY DEF Ancestors
<1>2. x \in Orgs /\ Parent[x] \in Orgs
  BY <1>1, PolicyAssumption
<1>3. ASSUME NEW S \in SUBSET Orgs, \A y \in S \cup {o} : Parent[y] \in S \cup {None}
      PROVE  Parent[x] \in S
  <2>1. x \in S \cup {o}
    BY <1>1, <1>3
  <2> QED BY <1>3, <2>1
<1> QED BY <1>1, <1>2, <1>3

\* An ancestor is the parent of somebody on the way to it.
LEMMA ChildBelow ==
    ASSUME NEW o \in Orgs, NEW q \in Ancestors[o]
    PROVE  \E c \in Ancestors[o] \cup {o} : c \in Orgs /\ Parent[c] = q
<1>1. Ancestors[o] = {a \in Orgs :
            \A S \in SUBSET Orgs :
                (\A y \in S \cup {o} : Parent[y] \in S \cup {None}) => a \in S}
  BY DEF Ancestors
<1>2. SUFFICES ASSUME \A c \in Ancestors[o] \cup {o} : Parent[c] # q
               PROVE  FALSE
  BY <1>1
<1> DEFINE S == Ancestors[o] \ {q}
<1>3. S \in SUBSET Orgs
  BY <1>1
<1>4. \A y \in S \cup {o} : Parent[y] \in S \cup {None}
  BY <1>2, ParentAbove
<1>5. q \in S
  <2> HIDE DEF S
  <2> QED BY <1>1, <1>3, <1>4
<1> QED BY <1>5

\* The ancestors of the parent are ancestors.
LEMMA AncestorsAbove ==
    ASSUME NEW c \in Orgs, Parent[c] \in Orgs
    PROVE  Parent[c] \in Ancestors[c] /\ Ancestors[Parent[c]] \subseteq Ancestors[c]
<1> DEFINE q == Parent[c]
<1>1. q # None
  BY PolicyAssumption
<1>2. q \in Ancestors[c]
  BY <1>1, ParentAbove
<1>3. Ancestors[c] \in SUBSET Orgs
  BY DEF Ancestors
<1>4. \A y \in Ancestors[c] \cup {q} : Parent[y] \in Ancestors[c] \cup {None}
  BY <1>2, ParentAbove
<1>5. Ancestors[q] = {a \in Orgs :
            \A S \in SUBSET Orgs :
                (\A y \in S \cup {q} : Parent[y] \in S \cup {None}) => a \in S}
  BY DEF Ancestors
<1> HIDE DEF q
<1>6. Ancestors[q] \subseteq Ancestors[c]
  BY <1>3, <1>4, <1>5
<1> QED BY <1>2, <1>6 DEF q

-----------------------------------------------------------------------------
(* Access managers *)

LEMMA ManagesHandles ==
    ASSUME NEW g \in Grants, NEW o \in Orgs
    PROVE  Manages(g, o) <=> Handles(g, o)
<1> DEFINE rows == /\ Active(User(g.user)) /\ Active(Person(g.user)) /\ Active(Org(o))
                   /\ Active(Grant(g)) /\ Active(Role(g.role)) /\ Active(Link(g.role, "access"))
           below == g.scope = "descendants" /\ g.org \in Ancestors[o]
           way == \A a \in Way(g, o) : Active(Org(a))
           above == \A a \in Ancestors[o] : (g.org = a \/ g.org \in Ancestors[a]) => Active(Org(a))
<1>1. Handles(g, o) <=> (g.org = o \/ below) /\ rows /\ way
  BY DEF Handles, Needs
<1>2. "access" \in Perms(g.role) <=> Active(Link(g.role, "access"))
  BY DEF Perms, Permissions
<1>3. Effective(g, o) <=>
          /\ Active(Org(o)) /\ Active(Grant(g)) /\ Active(Role(g.role))
          /\ g.org = o \/ (below /\ above)
  BY DEF Effective, Current, InScope, Reaches
<1>4. Manages(g, o) <=> rows /\ (g.org = o \/ (below /\ above))
  BY <1>2, <1>3 DEF Manages
<1>5. g.org = o => way
  BY DEF Way
<1>6. g.org # o => (way <=> above)
  BY DEF Way
<1> HIDE DEF rows, below, way, above
<1> QED BY <1>1, <1>4, <1>5, <1>6

\* A manager stays one as long as the rows it needs stay active.
LEMMA ManagerStays ==
    ASSUME NEW g \in Grants, NEW o \in Orgs, Handles(g, o),
           \A row \in Needs(g, o) : Active(row)'
    PROVE  Manages(g, o)'
<1>1. /\ g.org = o \/ (g.scope = "descendants" /\ g.org \in Ancestors[o])
      /\ Active(User(g.user))' /\ Active(Person(g.user))' /\ Active(Org(o))'
      /\ Active(Grant(g))' /\ Active(Role(g.role))' /\ Active(Link(g.role, "access"))'
      /\ \A a \in Way(g, o) : Active(Org(a))'
  BY DEF Handles, Needs
<1>2. ("access" \in Perms(g.role))'
  BY <1>1 DEF Perms, Permissions
<1>3. Effective(g, o)'
  BY <1>1 DEF Effective, Current, InScope, Reaches, Way
<1> QED BY <1>1, <1>2, <1>3 DEF Manages

\* Where a manager manages, its own assignment is looked at by the checks.
LEMMA ManagerCovered ==
    ASSUME NEW g \in Grants, NEW o \in Orgs, Handles(g, o)
    PROVE  /\ o \in Covered(g.org, g.scope) /\ Effective(g, g.org)
           /\ "access" \in Perms(g.role) /\ Active(User(g.user))
<1>1. Manages(g, o)
  BY ManagesHandles
<1>2. o \in Covered(g.org, g.scope)
  BY <1>1 DEF Manages, Effective, Covered
<1>3. Active(Org(g.org))
  <2>1. CASE g.org = o
    BY <1>1, <2>1 DEF Manages, Effective
  <2>2. CASE g.org # o
    BY <2>2 DEF Handles, Needs, Way
  <2> QED BY <2>1, <2>2
<1>4. Effective(g, g.org)
  BY <1>1, <1>3 DEF Manages, Effective, InScope, Reaches
<1> QED BY <1>1, <1>2, <1>4 DEF Manages

\* The rows a manager needs, table by table.
LEMMA NeededRows ==
    ASSUME NEW g \in Grants, NEW o \in Orgs
    PROVE  /\ \A f : Grant(f) \in Needs(g, o) => f = g
           /\ \A r : Role(r) \in Needs(g, o) => r = g.role
           /\ \A r, p : Link(r, p) \in Needs(g, o) => r = g.role /\ p = "access"
           /\ \A x : User(x) \in Needs(g, o) => x = g.user
           /\ \A x : Person(x) \in Needs(g, o) => x = g.user
           /\ \A x, q : Relation(x, q) \notin Needs(g, o)
           /\ \A q : Org(q) \in Needs(g, o) => q = o \/ q \in Way(g, o)
<1>1. /\ \A x : x \in Needs(g, o) <=>
            \/ x \in {User(g.user), Person(g.user), Org(o), Grant(g), Role(g.role),
                      Link(g.role, "access")}
            \/ \E a \in Way(g, o) : x = Org(a)
  BY DEF Needs
<1>2. \A q : Org(q) \in Needs(g, o) => q = o \/ q \in Way(g, o)
  BY <1>1 DEF Org, Role, Link, Grant, User, Person
<1>3. /\ \A f : Grant(f) \in Needs(g, o) => f = g
      /\ \A r : Role(r) \in Needs(g, o) => r = g.role
      /\ \A x : User(x) \in Needs(g, o) => x = g.user
      /\ \A x : Person(x) \in Needs(g, o) => x = g.user
  BY <1>1 DEF Org, Role, Link, Grant, User, Person
<1>4. /\ \A r, p : Link(r, p) \in Needs(g, o) => r = g.role /\ p = "access"
      /\ \A x, q : Relation(x, q) \notin Needs(g, o)
  BY <1>1 DEF Org, Role, Link, Grant, User, Person, Relation
<1> QED BY <1>2, <1>3, <1>4

-----------------------------------------------------------------------------
(* Rows without which an access manager is left *)

LEMMA NoneSpared == Spared({})
BY DEF Spared

LEMMA RelationSpared ==
    ASSUME NEW x, NEW o
    PROVE  Spared({Relation(x, o)})
BY NeededRows DEF Spared

LEMMA LinkSpared ==
    ASSUME NEW r, NEW p, p # "access"
    PROVE  Spared({Link(r, p)})
BY NeededRows DEF Spared

\* change_role_assignment_status
LEMMA GrantSpared ==
    ASSUME NEW g \in Grants,
           "access" \in Perms(g.role) /\ Effective(g, g.org)
               => ManagersSurvive(Covered(g.org, g.scope), {g})
    PROVE  Spared({Grant(g)})
<1> SUFFICES ASSUME NEW o \in Orgs, NEW f \in Grants, Handles(f, o)
             PROVE  \E h \in Grants : Handles(h, o) /\ Needs(h, o) \cap {Grant(g)} = {}
  BY DEF Spared
<1>1. CASE f # g
  BY <1>1, NeededRows
<1>2. CASE f = g
  <2>1. PICK h \in Grants \ {g} : Manages(h, o)
    BY <1>2, ManagerCovered DEF ManagersSurvive
  <2>2. Handles(h, o) /\ Needs(h, o) \cap {Grant(g)} = {}
    BY <2>1, NeededRows, ManagesHandles
  <2> QED BY <2>2
<1> QED BY <1>1, <1>2

\* change_role_status and revoke_role_permission
LEMMA RoleSpared ==
    ASSUME NEW r \in Roles,
           "access" \in Perms(r) => ManagersSurvive(Affected(r), GrantsOf(r))
    PROVE  Spared({Role(r)}) /\ Spared({Link(r, "access")})
<1>1. ASSUME NEW o \in Orgs, NEW f \in Grants, Handles(f, o)
      PROVE  \E h \in Grants : /\ Handles(h, o)
                               /\ Role(r) \notin Needs(h, o)
                               /\ Link(r, "access") \notin Needs(h, o)
  <2>1. CASE f.role # r
    BY <1>1, <2>1, NeededRows
  <2>2. CASE f.role = r
    <3>1. o \in Covered(f.org, f.scope) /\ Effective(f, f.org) /\ "access" \in Perms(r)
      BY <1>1, <2>2, ManagerCovered
    <3>2. o \in Affected(r)
      BY <2>2, <3>1 DEF Affected
    <3>3. PICK h \in Grants \ GrantsOf(r) : Manages(h, o)
      BY <3>1, <3>2 DEF ManagersSurvive
    <3>4. h \in Grants /\ h.role # r
      BY <3>3 DEF GrantsOf
    <3>5. Handles(h, o)
      BY <3>3, <3>4, ManagesHandles
    <3> QED BY <3>4, <3>5, NeededRows
  <2> QED BY <2>1, <2>2
<1> QED BY <1>1 DEF Spared

\* change_person_status and change_user_status: the acting user could have
\* granted what the other one has, so it manages access there itself.
LEMMA UserSpared ==
    ASSUME NEW u \in People, NEW x \in People, x # u,
           Active(User(u)), Active(Person(u)),
           Active(User(x)) => Dominates(u, x)
    PROVE  Spared({User(x)}) /\ Spared({Person(x)})
<1>1. ASSUME NEW o \in Orgs, NEW f \in Grants, Handles(f, o)
      PROVE  \E h \in Grants : /\ Handles(h, o)
                               /\ User(x) \notin Needs(h, o)
                               /\ Person(x) \notin Needs(h, o)
  <2>1. CASE f.user # x
    BY <1>1, <2>1, NeededRows
  <2>2. CASE f.user = x
    <3>1. o \in Covered(f.org, f.scope) /\ Effective(f, f.org) /\ Active(User(x))
      BY <1>1, <2>2, ManagerCovered
    <3>2. CanDelegate(u, Covered(f.org, f.scope), Perms(f.role))
      BY <2>2, <3>1 DEF Dominates
    <3>3. "access" \in EffectivePerms(u, o)
      BY <3>1, <3>2 DEF CanDelegate
    <3>4. PICK h \in Grants : h.user = u /\ Effective(h, o) /\ "access" \in Perms(h.role)
      BY <3>3 DEF EffectivePerms
    <3>5. Handles(h, o)
      BY <3>4, ManagesHandles DEF Manages
    <3> QED BY <3>4, <3>5, NeededRows
  <2> QED BY <2>1, <2>2
<1> QED BY <1>1 DEF Spared

\* change_organization_status: what is on the way to an active organization
\* has an active child.
LEMMA OrgSpared ==
    ASSUME NEW q \in Orgs, \A c \in Orgs : Parent[c] = q => ~ Active(Org(c))
    PROVE  Spared({Org(q)})
<1> SUFFICES ASSUME NEW o \in Orgs, NEW g \in Grants, Handles(g, o), Org(o) # Org(q)
             PROVE  Org(q) \notin Needs(g, o)
  BY DEF Spared
<1>1. /\ Active(Org(o)) /\ \A a \in Way(g, o) : Active(Org(a))
  BY DEF Handles, Needs
<1>2. SUFFICES ASSUME q \in Way(g, o) PROVE FALSE
  BY NeededRows
<1>3. q \in Ancestors[o] /\ (g.org = q \/ g.org \in Ancestors[q]) /\ g.org # o
  BY <1>2 DEF Way
<1>4. PICK c \in Ancestors[o] \cup {o} : c \in Orgs /\ Parent[c] = q
  BY <1>3, ChildBelow
<1>5. q \in Ancestors[c] /\ Ancestors[q] \subseteq Ancestors[c]
  BY <1>4, AncestorsAbove
<1>6. c \in Ancestors[o] => c \in Way(g, o)
  BY <1>3, <1>5 DEF Way
<1> QED BY <1>1, <1>4, <1>6

-----------------------------------------------------------------------------
(* The checks of the operations *)

\* The ways a request ends its checks.
LEMMA AskedInv ==
    ASSUME IInv, NEW t \in Txns, NEW u \in People, Asks(t, u),
           NEW locks \in SUBSET Rows, NEW shares \in SUBSET Rows, NEW rows \in SUBSET Rows,
           NEW was \in Status \cup {None}, NEW to \in Status,
           Checked(t, locks, shares, rows, was, to), tx[t].overtaken \/ Suits(rows, to)
    PROVE  IInv'
BY CheckedInv DEF Asks

LEMMA ChangedInv ==
    ASSUME IInv, NEW t \in Txns, NEW u \in People, Asks(t, u),
           NEW row \in Rows, NEW lock \in Rows, NEW shares \in SUBSET Rows, NEW to \in Status,
           Changed(t, row, lock, shares, to), tx[t].overtaken \/ Suits({row}, to)
    PROVE  IInv'
<1>1. {row} \in SUBSET Rows /\ {lock} \in SUBSET Rows
  OBVIOUS
<1>2. Checked(t, {lock}, shares, {row}, None, to)
  BY DEF Changed
<1> QED BY <1>1, <1>2, AskedInv

LEMMA EditedInv ==
    ASSUME IInv, NEW t \in Txns, NEW u \in People, Asks(t, u),
           NEW row \in Rows, NEW shares \in SUBSET Rows, Edited(t, row, shares)
    PROVE  IInv'
<1>1. {row} \in SUBSET Rows /\ {} \in SUBSET Rows /\ "absent" \in Status
  BY DEF Status
<1>2. Checked(t, {row}, shares, {}, None, "absent")
  BY DEF Edited
<1>3. Suits({}, "absent")
  BY NoRowsFit, NoneSpared DEF Suits
<1> QED BY <1>1, <1>2, <1>3, AskedInv

LEMMA OrganizationsInv ==
    ASSUME IInv, NEW t \in Txns, NEW u \in People, AdministerOrganizations(t, u)
    PROVE  IInv'
<1>1. PICK o \in Orgs :
         \/ CreateOrganization(t, u, o) \/ UpdateOrganization(t, u, o)
         \/ ActivateOrganization(t, u, o) \/ DeactivateOrganization(t, u, o)
  BY DEF AdministerOrganizations
<1>2. /\ Org(o) \in Rows /\ {} \in SUBSET Rows /\ {"absent", "active", "inactive"} = Status
      /\ Parent[o] # None => Parent[o] \in Orgs /\ Org(Parent[o]) \in Rows
  BY RowTypes, PolicyAssumption DEF Status
<1>3. CASE CreateOrganization(t, u, o)
  <2>1. /\ Asks(t, u) /\ HasPermission(u, "manage", Parent[o]) /\ Parent[o] # None
        /\ Checked(t, {Org(Parent[o])}, {}, {Org(o)}, "absent", "active")
    BY <1>3 DEF CreateOrganization
  <2>2. Active(Org(Parent[o]))
    BY <2>1 DEF HasPermission, EffectivePerms, Effective
  <2>3. Suits({Org(o)}, "active")
    BY <2>2, OrgActiveFits DEF Suits
  <2>4. {Org(Parent[o])} \in SUBSET Rows /\ {Org(o)} \in SUBSET Rows
    BY <1>2, <2>1
  <2> QED BY <1>2, <2>1, <2>3, <2>4, AskedInv
<1>4. CASE UpdateOrganization(t, u, o)
  BY <1>2, <1>4, EditedInv DEF UpdateOrganization
<1>5. CASE ActivateOrganization(t, u, o)
  <2>1. Suits({Org(o)}, "active")
    BY <1>5, OrgActiveFits DEF ActivateOrganization, Suits
  <2> QED BY <1>2, <1>5, <2>1, ChangedInv DEF ActivateOrganization
<1>6. CASE DeactivateOrganization(t, u, o)
  <2>1. Suits({Org(o)}, "inactive")
    BY <1>6, OrgInactiveFits, OrgSpared DEF DeactivateOrganization, Suits
  <2> QED BY <1>2, <1>6, <2>1, ChangedInv DEF DeactivateOrganization
<1> QED BY <1>1, <1>3, <1>4, <1>5, <1>6

LEMMA RolesInv ==
    ASSUME IInv, NEW t \in Txns, NEW u \in People, NEW r \in Roles,
           \/ CreateRole(t, u, r) \/ UpdateRole(t, u, r)
           \/ EnableRole(t, u, r) \/ DisableRole(t, u, r)
           \/ \E p \in Permissions : GrantPermission(t, u, r, p) \/ RevokePermission(t, u, r, p)
    PROVE  IInv'
<1>1. Asks(t, u) /\ Owner[r] # None
  BY DEF CreateRole, UpdateRole, EnableRole, DisableRole, GrantPermission, RevokePermission,
         MayChangeRole
<1> DEFINE shares == {Org(Owner[r])}
<1>2. /\ Role(r) \in Rows /\ shares \in SUBSET Rows /\ {} \in SUBSET Rows
      /\ {Role(r)} \in SUBSET Rows /\ {"absent", "active", "inactive"} = Status
      /\ \A p \in Permissions : Link(r, p) \in Rows
  BY <1>1, RowTypes, PolicyAssumption DEF Status
<1>3. \A row \in {Role(r)} \cup {Link(r, p) : p \in Permissions} : Suits({row}, "active")
  BY OthersFit DEF Suits
<1>4. CASE CreateRole(t, u, r)
  <2>1. Checked(t, {}, shares, {Role(r)}, "absent", "active")
    BY <1>4 DEF CreateRole
  <2> HIDE DEF shares
  <2> QED BY <1>1, <1>2, <1>3, <2>1, AskedInv
<1>5. CASE UpdateRole(t, u, r)
  BY <1>1, <1>2, <1>5, EditedInv DEF UpdateRole
<1>6. CASE EnableRole(t, u, r)
  BY <1>1, <1>2, <1>3, <1>6, ChangedInv DEF EnableRole
<1>7. CASE DisableRole(t, u, r)
  <2>1. Suits({Role(r)}, "inactive")
    BY <1>7, OthersFit, RoleSpared DEF DisableRole, Suits
  <2> QED BY <1>1, <1>2, <1>7, <2>1, ChangedInv DEF DisableRole
<1>8. ASSUME NEW p \in Permissions, GrantPermission(t, u, r, p)
      PROVE  IInv'
  BY <1>1, <1>2, <1>3, <1>8, ChangedInv DEF GrantPermission
<1>9. ASSUME NEW p \in Permissions, RevokePermission(t, u, r, p)
      PROVE  IInv'
  <2>1. Spared({Link(r, p)})
    BY <1>9, RoleSpared, LinkSpared DEF RevokePermission
  <2>2. Suits({Link(r, p)}, "absent")
    BY <2>1, OthersFit DEF Suits
  <2> QED BY <1>1, <1>2, <1>9, <2>2, ChangedInv DEF RevokePermission
<1> QED BY <1>4, <1>5, <1>6, <1>7, <1>8, <1>9

LEMMA GrantsInv ==
    ASSUME IInv, NEW t \in Txns, NEW u \in People, NEW g \in Grants,
           CreateAssignment(t, u, g) \/ EnableAssignment(t, u, g) \/ DisableAssignment(t, u, g)
    PROVE  IInv'
<1> DEFINE named == IF db[Grant(g)] = "absent" THEN {User(g.user), Role(g.role)} ELSE {}
           shares == {Org(g.org)} \cup named
<1>1. /\ Asks(t, u) /\ Grant(g) \in Rows /\ {"absent", "active", "inactive"} = Status
      /\ {Grant(g)} \in SUBSET Rows /\ {} \in SUBSET Rows /\ {Org(g.org)} \in SUBSET Rows
  BY RowTypes, GrantTypes
     DEF CreateAssignment, EnableAssignment, DisableAssignment, MayChangeGrant, Status
<1>2. named \in SUBSET Rows /\ shares \in SUBSET Rows /\ db[Grant(g)] \in Status
  BY RowTypes, GrantTypes DEF IInv, Types
<1>3. CASE CreateAssignment(t, u, g)
  <2>1. Checked(t, {}, shares, {Grant(g)}, db[Grant(g)], "active")
    BY <1>3 DEF CreateAssignment
  <2>2. Suits({Grant(g)}, "active")
    BY <1>3, GrantActiveFits DEF CreateAssignment, Assignable, Suits
  <2> HIDE DEF shares
  <2> QED BY <1>1, <1>2, <2>1, <2>2, AskedInv
<1>4. CASE EnableAssignment(t, u, g)
  <2>1. Suits({Grant(g)}, "active")
    BY <1>4, GrantActiveFits DEF EnableAssignment, Assignable, Suits
  <2> QED BY <1>1, <1>4, <2>1, ChangedInv DEF EnableAssignment
<1>5. CASE DisableAssignment(t, u, g)
  <2>1. Suits({Grant(g)}, "inactive")
    BY <1>5, GrantInactiveFits, GrantSpared DEF DisableAssignment, Suits
  <2> QED BY <1>1, <1>5, <2>1, ChangedInv DEF DisableAssignment
<1> QED BY <1>3, <1>4, <1>5

\* The acting user was active when it authenticated, and still is unless the
\* request has been overtaken.
LEMMA AskerActive ==
    ASSUME IInv, NEW t \in Txns, NEW u \in People, Asks(t, u), ~ tx[t].overtaken
    PROVE  Active(User(u)) /\ Active(Person(u))
BY DEF IInv, Asks, ActorActive

LEMMA PeopleInv ==
    ASSUME IInv, NEW t \in Txns, NEW u \in People, NEW x \in People,
           UpdatePerson(t, u, x) \/ EnablePerson(t, u, x) \/ DisablePerson(t, u, x)
    PROVE  IInv'
<1>1. /\ Asks(t, u) /\ Person(x) \in Rows /\ {"absent", "active", "inactive"} = Status
      /\ \A to : Fits({Person(x)}, to)
  BY RowTypes, OthersFit
     DEF UpdatePerson, EnablePerson, DisablePerson, MayChangePerson, MayManage, Status
<1>2. AuditOrgs(x) \in SUBSET Rows
  BY RowTypes DEF AuditOrgs, OrgsOf
<1>3. CASE UpdatePerson(t, u, x)
  BY <1>1, <1>2, <1>3, EditedInv DEF UpdatePerson
<1>4. CASE EnablePerson(t, u, x)
  <2>1. Suits({Person(x)}, "active")
    BY <1>1 DEF Suits
  <2> QED BY <1>1, <1>2, <1>4, <2>1, ChangedInv DEF EnablePerson
<1>5. CASE DisablePerson(t, u, x)
  <2>1. tx[t].overtaken \/ Spared({Person(x)})
    BY <1>1, <1>5, AskerActive, UserSpared DEF DisablePerson, MayChangePerson
  <2>2. tx[t].overtaken \/ Suits({Person(x)}, "inactive")
    BY <1>1, <2>1 DEF Suits
  <2> QED BY <1>1, <1>2, <1>5, <2>2, ChangedInv DEF DisablePerson
<1> QED BY <1>3, <1>4, <1>5

LEMMA RelationsInv ==
    ASSUME IInv, NEW t \in Txns, NEW u \in People, NEW x \in People, NEW o \in Orgs,
           CreatePerson(t, u, x, o) \/ AddRelation(t, u, x, o) \/ EndRelation(t, u, x, o)
    PROVE  IInv'
<1>1. /\ Asks(t, u) /\ Person(x) \in Rows /\ Relation(x, o) \in Rows
      /\ {Person(x), Relation(x, o)} \in SUBSET Rows /\ {Org(o)} \in SUBSET Rows
      /\ {} \in SUBSET Rows /\ {"absent", "active", "inactive"} = Status
  BY RowTypes DEF CreatePerson, AddRelation, EndRelation, Status
<1>2. Suits({Relation(x, o)}, "active") /\ Suits({Person(x), Relation(x, o)}, "active")
  BY RelationActiveFits DEF Suits
<1>3. CASE CreatePerson(t, u, x, o)
  <2>1. Checked(t, {}, {Org(o)}, {Person(x), Relation(x, o)}, "absent", "active")
    BY <1>3 DEF CreatePerson
  <2> QED BY <1>1, <1>2, <2>1, AskedInv
<1>4. CASE AddRelation(t, u, x, o)
  BY <1>1, <1>2, <1>4, ChangedInv DEF AddRelation
<1>5. CASE EndRelation(t, u, x, o)
  <2>1. Suits({Relation(x, o)}, "inactive")
    BY <1>5, RelationInactiveFits, RelationSpared DEF EndRelation, Suits
  <2> QED BY <1>1, <1>5, <2>1, ChangedInv DEF EndRelation
<1> QED BY <1>3, <1>4, <1>5

LEMMA UsersInv ==
    ASSUME IInv, NEW t \in Txns, NEW u \in People, AdministerUsers(t, u)
    PROVE  IInv'
<1>1. PICK x \in People :
         \/ CreateUser(t, u, x) \/ UpdateUser(t, u, x)
         \/ EnableUser(t, u, x) \/ DisableUser(t, u, x)
  BY DEF AdministerUsers
<1>2. /\ Asks(t, u) /\ User(x) \in Rows /\ {Person(x)} \in SUBSET Rows
      /\ {User(x)} \in SUBSET Rows /\ {"absent", "active", "inactive"} = Status
      /\ \A to : Fits({User(x)}, to)
  BY <1>1, RowTypes, OthersFit
     DEF CreateUser, UpdateUser, EnableUser, DisableUser, MayChangeUser, MayManage, Status
<1>3. AuditOrgs(x) \in SUBSET Rows
  BY RowTypes DEF AuditOrgs, OrgsOf
<1>4. Suits({User(x)}, "active")
  BY <1>2 DEF Suits
<1>5. CASE CreateUser(t, u, x)
  <2>1. Checked(t, {Person(x)}, AuditOrgs(x), {User(x)}, "absent", "active")
    BY <1>5 DEF CreateUser
  <2> QED BY <1>2, <1>3, <1>4, <2>1, AskedInv
<1>6. CASE UpdateUser(t, u, x)
  BY <1>2, <1>3, <1>6, EditedInv DEF UpdateUser
<1>7. CASE EnableUser(t, u, x)
  BY <1>2, <1>3, <1>4, <1>7, ChangedInv DEF EnableUser
<1>8. CASE DisableUser(t, u, x)
  <2>1. tx[t].overtaken \/ Spared({User(x)})
    BY <1>2, <1>8, AskerActive, UserSpared DEF DisableUser, MayChangeUser
  <2>2. tx[t].overtaken \/ Suits({User(x)}, "inactive")
    BY <1>2, <2>1 DEF Suits
  <2> QED BY <1>2, <1>3, <1>8, <2>2, ChangedInv DEF DisableUser
<1> QED BY <1>1, <1>5, <1>6, <1>7, <1>8

-----------------------------------------------------------------------------
LEMMA StepInv == IInv /\ [Next]_vars => IInv'
<1> SUFFICES ASSUME IInv, [Next]_vars PROVE IInv'
  OBVIOUS
<1>1. CASE UNCHANGED vars
  BY <1>1, QuietInv DEF vars, IInv, Types, Locks
<1>2. ASSUME NEW t \in Txns, NEW u \in People,
             AdministerAccess(t, u) \/ AdministerPeople(t, u)
      PROVE  IInv'
  BY <1>2, RolesInv, GrantsInv, PeopleInv, RelationsInv DEF AdministerAccess, AdministerPeople
<1>3. CASE Next
  BY <1>2, <1>3, CommitInv, AbortInv, AuthenticateInv, OrganizationsInv, UsersInv DEF Next
<1> QED BY <1>1, <1>3

LEMMA Invariance == Spec => []IInv
BY InitInv, StepInv, PTL DEF Spec

\* Types are kept; a request holds row locks from its checks to its end only,
\* and no row is locked twice (with_for_update in the four services).
THEOREM TypeCorrect == Spec => []TypeOK
<1>1. IInv => TypeOK
  BY DEF IInv, Types, Locks, TypeOK
<1> QED BY <1>1, Invariance, PTL

-----------------------------------------------------------------------------
(* What a commit does *)

\* A state changes by a commit, and in the rows of its request only.
LEMMA ChangeIsCommit ==
    ASSUME IInv, [Next]_vars, db' # db
    PROVE  \E t \in Txns : Commit(t)
<1>1. ASSUME NEW t \in Txns, NEW u \in People,
             \/ Authenticate(t, u) \/ AdministerOrganizations(t, u)
             \/ AdministerAccess(t, u) \/ AdministerPeople(t, u) \/ AdministerUsers(t, u)
      PROVE  db' = db
  BY <1>1 DEF Authenticate, AdministerOrganizations, AdministerAccess, AdministerPeople,
     AdministerUsers, CreateOrganization, UpdateOrganization, ActivateOrganization,
     DeactivateOrganization, CreateRole, UpdateRole, EnableRole, DisableRole,
     GrantPermission, RevokePermission, CreateAssignment, EnableAssignment,
     DisableAssignment, CreatePerson, UpdatePerson, EnablePerson, DisablePerson,
     AddRelation, EndRelation, CreateUser, UpdateUser, EnableUser, DisableUser,
     Changed, Edited, Checked
<1> QED BY <1>1 DEF Next, Abort, vars

\* Unless its request was overtaken, the rows a commit writes suit the others.
LEMMA CommitSuits ==
    ASSUME IInv, NEW t \in Txns, Commit(t)
    PROVE  /\ \A row \in Rows : db'[row] = IF row \in tx[t].rows THEN tx[t].to ELSE db[row]
           /\ OvertakenStep \/ Suits(tx[t].rows, tx[t].to)
<1>1. \A row \in Rows : db'[row] = IF row \in tx[t].rows THEN tx[t].to ELSE db[row]
  BY DEF Commit
<1>2. tx'[t] = IdleTx /\ changes' # changes /\ tx[t].pc = "checked"
  BY DEF Commit, IInv, Types
<1>3. CASE tx[t].overtaken
  BY <1>1, <1>2, <1>3 DEF OvertakenStep
<1>4. CASE ~ tx[t].overtaken
  BY <1>1, <1>2, <1>4 DEF IInv
<1> QED BY <1>3, <1>4

\* An active organization stays below active ones, however many requests create,
\* activate and deactivate organizations, as long as the one that commits has
\* not been overtaken (create_organization, change_organization_status).
THEOREM TreeStaysInOrder == Spec => TreeOrder
<1>1. ASSUME IInv, [Next]_vars, NEW o \in Orgs, BelowActive(o), ~ BelowActive(o)'
      PROVE  OvertakenStep
  <2>1. db' # db
    BY <1>1 DEF BelowActive, Active
  <2>2. PICK t \in Txns : Commit(t)
    BY <1>1, <2>1, ChangeIsCommit
  <2>3. SUFFICES ASSUME Fits(tx[t].rows, tx[t].to) PROVE FALSE
    BY <1>1, <2>2, CommitSuits DEF Suits
  <2> DEFINE p == Parent[o]
  <2>4. /\ db'[Org(o)] = "active" /\ p # None /\ db'[Org(p)] # "active"
        /\ Org(o) \in Rows /\ Org(p) \in Rows
        /\ db[Org(o)] # "active" \/ db[Org(p)] = "active"
    BY <1>1, RowTypes, PolicyAssumption DEF BelowActive, Active
  <2>5. \A row \in {Org(o), Org(p)} :
            db'[row] = IF row \in tx[t].rows THEN tx[t].to ELSE db[row]
    BY <1>1, <2>2, <2>4, CommitSuits
  <2>6. CASE tx[t].to = "active"
    BY <2>3, <2>4, <2>5, <2>6 DEF Fits, Active
  <2>7. CASE tx[t].to # "active"
    BY <2>3, <2>4, <2>5, <2>7 DEF Fits, Active
  <2> QED BY <2>6, <2>7
<1>2. IInv /\ [Next]_vars =>
          [\A o \in Orgs : BelowActive(o) /\ ~ BelowActive(o)' => OvertakenStep]_db
  BY <1>1
<1> QED BY <1>2, Invariance, PTL DEF Spec, TreeOrder

\* Nobody comes to hold an assignment at an organization without an active
\* relationship to it, unless the request that commits has been overtaken
\* (_assert_assignment_is_assignable, update_person_relationship).
THEOREM AssignmentsStayRooted == Spec => AssignmentsRooted
<1>1. ASSUME IInv, [Next]_vars, NEW g \in Grants, Rooted(g), ~ Rooted(g)'
      PROVE  OvertakenStep
  <2>1. db' # db
    BY <1>1 DEF Rooted, Active
  <2>2. PICK t \in Txns : Commit(t)
    BY <1>1, <2>1, ChangeIsCommit
  <2>3. SUFFICES ASSUME Fits(tx[t].rows, tx[t].to) PROVE FALSE
    BY <1>1, <2>2, CommitSuits DEF Suits
  <2> DEFINE relation == Relation(g.user, g.org)
  <2>4. /\ db'[Grant(g)] = "active" /\ db'[relation] # "active"
        /\ Grant(g) \in Rows /\ relation \in Rows
        /\ db[Grant(g)] # "active" \/ db[relation] = "active"
    BY <1>1, RowTypes, GrantTypes DEF Rooted, Active
  <2>5. \A row \in {Grant(g), relation} :
            db'[row] = IF row \in tx[t].rows THEN tx[t].to ELSE db[row]
    BY <1>1, <2>2, <2>4, CommitSuits
  <2>6. CASE tx[t].to = "active"
    BY <2>3, <2>4, <2>5, <2>6 DEF Fits, Active
  <2>7. CASE tx[t].to # "active"
    BY <2>3, <2>4, <2>5, <2>7 DEF Fits, Active
  <2> QED BY <2>6, <2>7
<1>2. IInv /\ [Next]_vars =>
          [\A g \in Grants : Rooted(g) /\ ~ Rooted(g)' => OvertakenStep]_db
  BY <1>1
<1> QED BY <1>2, Invariance, PTL DEF Spec, AssignmentsRooted

\* An active organization that has an effective access manager keeps one,
\* whatever the request changes: roles, permissions, assignments, users, persons
\* or organizations, unless the request that commits has been overtaken
\* (_ensure_access_manager_survives, assert_actor_dominates_user_access).
THEOREM ManagersAreKept == Spec => ManagerKept
<1>1. ASSUME IInv, [Next]_vars, db' # db,
             NEW o \in Orgs, Managed(o), Active(Org(o))', ~ Managed(o)'
      PROVE  OvertakenStep
  <2>1. PICK t \in Txns : Commit(t)
    BY <1>1, ChangeIsCommit
  <2>2. SUFFICES ASSUME Suits(tx[t].rows, tx[t].to) PROVE FALSE
    BY <1>1, <2>1, CommitSuits
  <2>3. PICK g \in Grants : Handles(g, o)
    BY <1>1, ManagesHandles DEF Managed
  <2>4. ASSUME NEW f \in Grants
        PROVE  Needs(f, o) \subseteq Rows
    BY RowTypes, GrantTypes DEF Needs, Way, Ancestors, Permissions
  <2>5. \A row \in Rows : db'[row] = IF row \in tx[t].rows THEN tx[t].to ELSE db[row]
    BY <1>1, <2>1, CommitSuits
  <2>6. ASSUME NEW h \in Grants, Handles(h, o),
               tx[t].to = "active" \/ Needs(h, o) \cap tx[t].rows = {}
        PROVE  FALSE
    <3>1. \A row \in Needs(h, o) : Active(row)'
      BY <2>4, <2>5, <2>6 DEF Handles, Active
    <3>2. Manages(h, o)'
      BY <2>6, <3>1, ManagerStays
    <3> QED BY <1>1, <3>2 DEF Managed
  <2>7. CASE tx[t].to = "active"
    BY <2>3, <2>6, <2>7
  <2>8. CASE tx[t].to # "active"
    <3>1. Org(o) \notin tx[t].rows
      BY <1>1, <2>5, <2>8, RowTypes DEF Active
    <3>2. PICK h \in Grants : Handles(h, o) /\ Needs(h, o) \cap tx[t].rows = {}
      BY <2>2, <2>3, <2>8, <3>1 DEF Suits, Spared
    <3> QED BY <2>6, <3>2
  <2> QED BY <2>7, <2>8
<1>2. IInv /\ [Next]_vars =>
          [\A o \in Orgs :
              Managed(o) /\ Active(Org(o))' /\ ~ Managed(o)' => OvertakenStep]_db
  BY <1>1
<1> QED BY <1>2, Invariance, PTL DEF Spec, ManagerKept

=============================================================================
