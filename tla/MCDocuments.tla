----------------------------- MODULE MCDocuments -----------------------------
(* Instances of Documents for TLC: two managers with different roles, an    *)
(* access administrator without any, and a role that only reads.            *)
EXTENDS Documents, TLC

CONSTANTS u1, u2, admin, m1, m2, reader, t1, t2, h1, h2

MCRolesOf == u1 :> {m1} @@ u2 :> {m2, reader} @@ admin :> {}

\* Two server processes, or one that serves both requests.
MCTwoHosts == t1 :> h1 @@ t2 :> h2

MCOneHost == t1 :> h1 @@ t2 :> h1

MCRolesOfTwo == u1 :> {m1} @@ admin :> {}

\* Requests may be exchanged with MCTwoHosts only: then each has its own host.
Symmetry == Permutations(Txns) \cup Permutations(Objects)
=============================================================================
