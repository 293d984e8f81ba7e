---------------------------- MODULE WorkflowGraph ----------------------------
(***************************************************************************)
(* The content of one workflow definition (core/workflow/models.py): its   *)
(* own fields, its states with their is_initial and is_terminal flags, and *)
(* its transitions; and what _validate_publishable asks of it.             *)
(***************************************************************************)
EXTENDS Naturals, FiniteSets

CONSTANTS
    States,      \* workflow_states.code
    Codes,       \* workflow_transitions.code
    Scopes       \* a definition's own fields: name, description, scope_mode

ASSUME GraphAssumption == Scopes # {}

Transition == [code : Codes, from : States, to : States]

Graph == [scope    : Scopes,
          states   : SUBSET States,
          initial  : SUBSET States,      \* states with is_initial
          terminal : SUBSET States,      \* states with is_terminal
          trans    : SUBSET Transition]

EmptyGraph(scope) ==
    [scope |-> scope, states |-> {}, initial |-> {}, terminal |-> {}, trans |-> {}]

NoGraph == EmptyGraph(CHOOSE s \in Scopes : TRUE)

-----------------------------------------------------------------------------
(* The conditions of _validate_publishable.  The work list of the code     *)
(* visits the least set that contains the initial state and is closed      *)
(* under the transitions; module PublishCheck models the loop itself.      *)

ClosedUnder(g, S) == \A tr \in g.trans : tr.from \in S => tr.to \in S

AllReachable(g) ==
    \A S \in SUBSET g.states :
        g.initial \subseteq S /\ ClosedUnder(g, S) => S = g.states

\* Everything the code checks before it walks the graph.
WellShaped(g) ==
    /\ \E s \in g.states : g.initial = {s}
    /\ \E s \in g.states : s \in g.terminal
    /\ \A tr \in g.trans : tr.from \in g.states /\ tr.to \in g.states
    /\ \A tr \in g.trans : tr.from \notin g.terminal
    /\ \A s \in g.states \ g.terminal : \E tr \in g.trans : tr.from = s

Publishable(g) == WellShaped(g) /\ AllReachable(g)

\* What an instance relies on: one start, every state on some walk from the
\* start, a terminal state among them, and a state is terminal exactly when
\* nothing leads out of it.
Executable(g) ==
    /\ \E s \in g.states : g.initial = {s}
    /\ \A S \in SUBSET g.states :
          g.initial \subseteq S /\ ClosedUnder(g, S) =>
              g.states \subseteq S /\ S \cap g.terminal # {}
    /\ \A s \in g.states :
          s \in g.terminal <=> \A tr \in g.trans : tr.from # s

\* What the unique constraint on the transition codes and the checks of the
\* edit handlers leave: a code names one edge, and an edge leads elsewhere.
Unambiguous(g) ==
    \A tr \in g.trans :
        /\ tr.from # tr.to
        /\ \A u \in g.trans : u.code = tr.code => u = tr
=============================================================================
