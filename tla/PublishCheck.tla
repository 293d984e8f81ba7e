---------------------------- MODULE PublishCheck ----------------------------
(***************************************************************************)
(* The loop of _validate_publishable (core/workflow/service.py): a stack   *)
(* of states to visit, on which a state may appear several times, and the  *)
(* set of states visited so far.  Its names begin with Check, so that a    *)
(* module can extend it together with a module about the versions.         *)
(***************************************************************************)
EXTENDS WorkflowGraph, SequencesExt

CONSTANT Inputs   \* the definitions that are submitted for publication

ASSUME PublishAssumption == Inputs \subseteq Graph /\ IsFiniteSet(States)

VARIABLES
    graph,      \* the definition
    reachable,  \* visited states
    pending,    \* the stack
    pc          \* "check", "visit", "accepted" or "rejected"

checkVars == <<graph, reachable, pending, pc>>

CheckTypeOK ==
    /\ graph \in Graph
    /\ reachable \in SUBSET States
    /\ pending \in Seq(States)
    /\ pc \in {"check", "visit", "accepted", "rejected"}

Outgoing(s) == {u \in States : \E tr \in graph.trans : tr.from = s /\ tr.to = u}

CheckInit ==
    /\ graph \in Inputs
    /\ reachable = {}
    /\ pending = <<>>
    /\ pc = "check"

CheckShape ==
    /\ pc = "check"
    /\ IF WellShaped(graph)
       THEN /\ pc' = "visit"
            /\ \E s \in graph.initial : pending' = <<s>>
       ELSE pc' = "rejected" /\ UNCHANGED pending
    /\ UNCHANGED <<graph, reachable>>

\* Mutant of Skip: the state is looked at but not popped.
SkipWithoutPop ==
    /\ pc = "visit"
    /\ pending # <<>>
    /\ Last(pending) \in reachable
    /\ UNCHANGED checkVars

\* A state that was pushed twice is skipped the second time.
Skip ==
    /\ pc = "visit"
    /\ pending # <<>>
    /\ Last(pending) \in reachable
    /\ pending' = Front(pending)
    /\ UNCHANGED <<graph, reachable, pc>>

\* Mutant of Visit: the successors replace the rest of the stack.
VisitDropsStack ==
    /\ pc = "visit"
    /\ pending # <<>>
    /\ Last(pending) \notin reachable
    /\ reachable' = reachable \cup {Last(pending)}
    /\ \E order \in SetToSeqs(Outgoing(Last(pending)) \ reachable') : pending' = order
    /\ UNCHANGED <<graph, pc>>

\* The unvisited successors are pushed in the order the set iterates in.
Visit ==
    /\ pc = "visit"
    /\ pending # <<>>
    /\ Last(pending) \notin reachable
    /\ reachable' = reachable \cup {Last(pending)}
    /\ \E order \in SetToSeqs(Outgoing(Last(pending)) \ reachable') :
          pending' = Front(pending) \o order
    /\ UNCHANGED <<graph, pc>>

Decide ==
    /\ pc = "visit"
    /\ pending = <<>>
    /\ pc' = IF reachable = graph.states THEN "accepted" ELSE "rejected"
    /\ UNCHANGED <<graph, reachable, pending>>

CheckNext == CheckShape \/ Skip \/ Visit \/ Decide

CheckSpec == CheckInit /\ [][CheckNext]_checkVars

\* A function call runs to its end.
FairCheckSpec == CheckSpec /\ WF_checkVars(CheckNext)

-----------------------------------------------------------------------------

\* The loop accepts exactly the definitions module WorkflowDefinitions calls
\* publishable: walking the graph from the initial state reaches every state
\* no matter in which order the stack is filled.
DecidesPublishable ==
    /\ pc = "accepted" => Publishable(graph)
    /\ pc = "rejected" => ~Publishable(graph)

\* The loop ends, also on a graph with cycles.
Terminates == <>(pc \in {"accepted", "rejected"})
=============================================================================
