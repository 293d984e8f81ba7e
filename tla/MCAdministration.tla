------------------------- MODULE MCAdministration -------------------------
(* A holding with a company, below which a branch is switched off and a    *)
(* depot does not exist yet.  One administrator has the system role, the   *)
(* other one a role of the holding that can be disabled or lose its        *)
(* permissions, and may get a second assignment at the company.  A third   *)
(* person is not known yet, nor is the role the depot may get.             *)
EXTENDS Administration, TLC

CONSTANTS holding, company, branch, depot, admin, clerk, guard, u1, u2, u3

MCParent == (holding :> None) @@ (company :> holding) @@ (branch :> company) @@ (depot :> company)

MCOwner == (admin :> None) @@ (clerk :> holding) @@ (guard :> depot)

MCGrants ==
    {[user |-> u1, role |-> admin, org |-> holding, scope |-> "descendants"],
     [user |-> u2, role |-> clerk, org |-> holding, scope |-> "descendants"],
     [user |-> u2, role |-> admin, org |-> company, scope |-> "self"]}

MCFirstRows ==
    {Org(holding), Org(company), Relation(u2, company)}
    \cup UNION {{Role(r), Link(r, "access"), Link(r, "manage")} : r \in {admin, clerk}}
    \cup UNION {{Person(u), User(u), Relation(u, holding)} : u \in {u1, u2}}
    \cup {Grant(g) : g \in {h \in MCGrants : h.org = holding}}

MCFirstOff == {Org(branch)}

Symmetry == Permutations(Txns)

=============================================================================
