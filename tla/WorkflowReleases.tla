-------------------------- MODULE WorkflowReleases --------------------------
(***************************************************************************)
(* What core/workflow/service.py promises about the versions of one code,  *)
(* without rows, locks or transactions: a list of releases, the n-th being *)
(* version n.  At most the last one is a draft, at most one is in force,   *)
(* and putting the draft in force takes the previous release out of force  *)
(* in the same step.                                                       *)
(***************************************************************************)
EXTENDS Naturals, Sequences

VARIABLE releases

Init == releases = <<>>

InStatus(status) == {v \in DOMAIN releases : releases[v] = status}

\* create_definition and create_new_version
Draft ==
    /\ InStatus("draft") = {}
    /\ releases' = Append(releases, "draft")

\* publish_definition
Publish ==
    /\ InStatus("draft") # {}
    /\ releases' = [v \in DOMAIN releases |->
                      CASE releases[v] = "draft" -> "published"
                        [] OTHER -> "retired"]

\* retire_definition
Retire ==
    /\ InStatus("published") # {}
    /\ releases' = [v \in DOMAIN releases |->
                      CASE releases[v] = "draft" -> "draft"
                        [] OTHER -> "retired"]

Next == Draft \/ Publish \/ Retire

Spec == Init /\ [][Next]_releases
=============================================================================
