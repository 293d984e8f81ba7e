--------------------------- MODULE MCPublishCheck ---------------------------
(* All drafts over a few states and transition codes. *)
EXTENDS PublishCheck

TransitionSets ==
    {{[code |-> c, from |-> f[c][1], to |-> f[c][2]] : c \in DOMAIN f} :
        f \in UNION {[C -> {e \in States \X States : e[1] # e[2]}] : C \in SUBSET Codes}}

DraftGraphs ==
    {[scope |-> sc, states |-> ss, initial |-> i, terminal |-> t, trans |-> trs] :
        sc \in Scopes, ss \in SUBSET States, i \in SUBSET States, t \in SUBSET States,
        trs \in TransitionSets}

\* What the edit handlers let a draft become.
MCInputs ==
    {g \in DraftGraphs :
        /\ g.initial \cup g.terminal \subseteq g.states
        /\ Cardinality(g.initial) <= 1
        /\ \A tr \in g.trans : tr.from \in g.states /\ tr.to \in g.states}
=============================================================================
