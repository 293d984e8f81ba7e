---------------------------- MODULE WorkflowCase ----------------------------
(***************************************************************************)
(* What core/workflow/service.py promises about workflow instances,        *)
(* without requests, rows or locks: a case is a walk through a fixed       *)
(* graph.  It grows one edge at a time while the case is open, and the     *)
(* case closes for good on a terminal state or when it is cancelled.       *)
(***************************************************************************)
EXTENDS WorkflowGraph, Sequences

CONSTANTS Defs, Content, Refs

Keys == [def : Defs, ref : Refs]

VARIABLES
    walk,  \* the states a case went through; empty before it starts
    open   \* it can still move

Closes(k, s) == s \in Content[k.def].terminal

Init ==
    /\ walk = [k \in Keys |-> <<>>]
    /\ open = [k \in Keys |-> FALSE]

Start(k) ==
    /\ walk[k] = <<>>
    /\ \E s \in Content[k.def].initial :
          /\ walk' = [walk EXCEPT ![k] = <<s>>]
          /\ open' = [open EXCEPT ![k] = ~Closes(k, s)]

Move(k) ==
    /\ open[k]
    /\ \E tr \in Content[k.def].trans :
          /\ tr.from = walk[k][Len(walk[k])]
          /\ walk' = [walk EXCEPT ![k] = Append(@, tr.to)]
          /\ open' = [open EXCEPT ![k] = ~Closes(k, tr.to)]

Cancel(k) ==
    /\ open[k]
    /\ open' = [open EXCEPT ![k] = FALSE]
    /\ UNCHANGED walk

Next == \E k \in Keys : Start(k) \/ Move(k) \/ Cancel(k)

Spec == Init /\ [][Next]_<<walk, open>>
=============================================================================
