---------------------- MODULE WorkflowDefinitionsProofs ----------------------
(***************************************************************************)
(* Proofs about WorkflowDefinitions for any number of rows, requests,      *)
(* states and transitions.                                                 *)
(*                                                                         *)
(* The argument: a request past its first lock holds its row and its view  *)
(* is what is committed there, so it edits the draft it has loaded and     *)
(* publishes the graph it has validated.  The version it inserts is one    *)
(* above a maximum; the unique constraint stops a second request with the  *)
(* same one.  While one request at a time numbers new versions, there is   *)
(* one draft and one version in force, and each commit is one atomic       *)
(* operation on the list of releases.                                      *)
(***************************************************************************)
EXTENDS WorkflowDefinitions, FiniteSetTheorems, SequenceTheorems, TLAPS

\* An empty definition is a graph.
LEMMA EmptyGraphType ==
    /\ \A scope \in Scopes : EmptyGraph(scope) \in Graph
    /\ NoGraph \in Graph
    /\ AbsentRow \in Row
    /\ IdleTx \in Tx
<1>1. \A scope \in Scopes : EmptyGraph(scope) \in Graph
  BY DEF EmptyGraph, Graph
<1>2. NoGraph \in Graph
  BY <1>1, GraphAssumption DEF NoGraph
<1>3. AbsentRow \in Row
  BY <1>2 DEF AbsentRow, Row
<1>4. IdleTx \in Tx
  BY <1>3 DEF IdleTx, Tx, Ops, Steps
<1> QED BY <1>1, <1>2, <1>3, <1>4

\* The end of a request keeps the types of lock and tx.
LEMMA FinishType ==
    ASSUME NEW t \in Txns, TypeOK, Finish(t)
    PROVE  /\ lock' \in [Rows -> Txns \cup {None}]
           /\ tx' \in [Txns -> Tx]
BY EmptyGraphType DEF TypeOK, Finish

\* An edit of a draft stores a graph.
LEMMA EditType ==
    ASSUME NEW t \in Txns, TypeOK, NEW ok, NEW g \in Graph,
           tx[t].pc = "locked", Save(t, ok, g)
    PROVE  TypeOK'
<1>1. CASE RequireDraft(t) /\ ok
  <2>1. Finish(t) /\ defs' = [defs EXCEPT ![tx[t].row].graph = g]
    BY <1>1 DEF Save, Commit
  <2>2. defs' \in [Rows -> Row]
    BY <2>1 DEF TypeOK, Row
  <2>3. \A r \in Rows : /\ defs'[r].status = defs[r].status
                        /\ defs'[r].version = defs[r].version
    BY <2>1 DEF TypeOK, Row
  <2> QED BY <2>1, <2>2, <2>3, FinishType DEF TypeOK, Existing
<1>2. CASE ~(RequireDraft(t) /\ ok)
  BY <1>2, FinishType DEF Save, Rollback, TypeOK, Existing
<1> QED BY <1>1, <1>2

-----------------------------------------------------------------------------
(* The inductive invariant *)

\* A request that works on a row holds its lock, and what it loaded is still
\* what is committed; a publisher has validated the draft it is about to
\* publish and holds the published rows it will retire.
OwnInv(t) ==
    /\ tx[t].pc = "lock" => tx[t].row \in Existing
    /\ tx[t].pc \in {"locked", "scan"} =>
          /\ tx[t].row \in Existing
          /\ lock[tx[t].row] = t
          /\ tx[t].view = defs[tx[t].row]
    /\ tx[t].pc = "scan" =>
          /\ defs[tx[t].row].status = "draft"
          /\ Publishable(defs[tx[t].row].graph)
          /\ tx[t].todo \subseteq Existing
          /\ tx[t].prev \subseteq Published
          /\ \A r \in tx[t].prev : lock[r] = t

LockInv == \A t \in Txns : OwnInv(t)

PublishedInv == \A r \in Published \cup Retired : Publishable(defs[r].graph)

IInv == TypeOK /\ LockInv /\ PublishedInv

\* What a step of t may write: rows it has locked, and rows that do not exist
\* yet; no row disappears.
WritesOwned(t) ==
    /\ \A r \in Rows : \/ defs'[r] = defs[r]
                       \/ lock[r] = t
                       \/ defs[r].status = "absent"
    /\ \A r \in Existing : defs'[r].status # "absent"

\* When t ends, the others still hold what they held.
LEMMA FinishKeepsLocks ==
    ASSUME IInv, TypeOK', NEW t \in Txns, Finish(t), WritesOwned(t)
    PROVE  LockInv'
<1> SUFFICES ASSUME NEW u \in Txns
             PROVE  OwnInv(u)'
  BY DEF LockInv
<1>1. CASE u = t
  <2>1. tx'[u].pc = "idle"
    BY <1>1 DEF Finish, IdleTx, IInv, TypeOK
  <2> QED BY <2>1 DEF OwnInv
<1>2. CASE u # t
  <2>1. tx'[u] = tx[u]
    BY <1>2 DEF Finish, IInv, TypeOK
  <2>2. Existing \subseteq Existing'
    BY DEF WritesOwned, Existing
  <2>3. \A r \in Existing : lock[r] = u => lock'[r] = u /\ defs'[r] = defs[r]
    BY <1>2 DEF WritesOwned, Finish, Existing, IInv, TypeOK
  <2>4. CASE tx[u].pc = "lock"
    BY <2>1, <2>2, <2>4 DEF LockInv, OwnInv, IInv
  <2>5. CASE tx[u].pc = "locked"
    BY <2>1, <2>2, <2>3, <2>5 DEF LockInv, OwnInv, IInv
  <2>6. CASE tx[u].pc = "scan"
    <3>1. /\ tx[u].row \in Existing
          /\ lock[tx[u].row] = u
          /\ tx[u].view = defs[tx[u].row]
          /\ defs[tx[u].row].status = "draft"
          /\ Publishable(defs[tx[u].row].graph)
          /\ tx[u].todo \subseteq Existing
          /\ tx[u].prev \subseteq Published
          /\ \A r \in tx[u].prev : lock[r] = u
      BY <2>6 DEF LockInv, OwnInv, IInv
    <3>2. /\ lock'[tx[u].row] = u
          /\ defs'[tx[u].row] = defs[tx[u].row]
      BY <3>1, <2>3
    <3>3. tx[u].prev \subseteq Published' /\ \A r \in tx[u].prev : lock'[r] = u
      BY <3>1, <2>3 DEF Published, Existing
    <3> QED BY <3>1, <3>2, <3>3, <2>1, <2>2, <2>6 DEF OwnInv
  <2> QED BY <2>1, <2>4, <2>5, <2>6 DEF OwnInv
<1> QED BY <1>1, <1>2

\* A step that does not end and writes nothing takes free locks only, so it
\* disturbs no other request.
LEMMA QuietStep ==
    ASSUME IInv, TypeOK', NEW t \in Txns, UNCHANGED defs,
           \A u \in Txns : u # t => tx'[u] = tx[u],
           \A r \in Rows : lock[r] # None => lock'[r] = lock[r],
           OwnInv(t)'
    PROVE  IInv' /\ FrozenStep
<1>1. \A u \in Txns : OwnInv(u)'
  <2> SUFFICES ASSUME NEW u \in Txns, u # t PROVE OwnInv(u)'
    OBVIOUS
  <2>1. tx'[u] = tx[u] /\ OwnInv(u)
    BY DEF IInv, LockInv
  <2>2. \A r \in Existing : lock[r] = u => lock'[r] = u
    BY DefinitionsAssumption DEF Existing
  <2> QED BY <2>1, <2>2 DEF OwnInv, Existing, Published
<1>2. PublishedInv' /\ FrozenStep
  BY DEF PublishedInv, FrozenStep, Published, Retired, Existing, IInv, TypeOK, Row, Statuses
<1> QED BY <1>1, <1>2 DEF IInv, LockInv

\* A request that ends without a write.
LEMMA RollbackKeeps ==
    ASSUME IInv, NEW t \in Txns, Rollback(t)
    PROVE  IInv' /\ FrozenStep
<1>1. TypeOK'
  BY FinishType DEF Rollback, TypeOK, IInv, Existing
<1>2. WritesOwned(t)
  BY DEF Rollback, WritesOwned, Existing
<1>3. LockInv'
  BY <1>1, <1>2, FinishKeepsLocks DEF Rollback
<1>4. PublishedInv' /\ FrozenStep
  BY DEF Rollback, PublishedInv, FrozenStep, Published, Retired, Existing, IInv,
         TypeOK, Row, Statuses
<1> QED BY <1>1, <1>3, <1>4 DEF IInv

-----------------------------------------------------------------------------
(* Editing a draft *)

\* A draft has never been published, so an edit, which writes a draft only,
\* leaves every published version alone.
LEMMA SaveKeeps ==
    ASSUME IInv, NEW t \in Txns, NEW ok, NEW g \in Graph,
           tx[t].pc = "locked", Save(t, ok, g)
    PROVE  IInv' /\ FrozenStep
<1>1. CASE RequireDraft(t) /\ ok
  <2>1. Finish(t) /\ defs' = [defs EXCEPT ![tx[t].row].graph = g]
    BY <1>1 DEF Save, Commit
  <2>2. /\ tx[t].row \in Rows
        /\ lock[tx[t].row] = t
        /\ defs[tx[t].row].status = "draft"
    BY <1>1 DEF RequireDraft, IInv, LockInv, OwnInv, Existing
  <2>3. TypeOK'
    BY <1>1, EditType DEF IInv
  <2>4. /\ \A r \in Rows : r # tx[t].row => defs'[r] = defs[r]
        /\ defs'[tx[t].row] = [defs[tx[t].row] EXCEPT !.graph = g]
    BY <2>1, <2>2 DEF IInv, TypeOK
  <2>5. /\ defs'[tx[t].row].status = "draft"
        /\ defs'[tx[t].row].version = defs[tx[t].row].version
    BY <2>2, <2>4 DEF IInv, TypeOK, Row
  <2>6. WritesOwned(t)
    BY <2>2, <2>4, <2>5 DEF WritesOwned, Existing
  <2>7. LockInv'
    BY <2>1, <2>3, <2>6, FinishKeepsLocks
  <2>8. PublishedInv'
    BY <2>4, <2>5 DEF PublishedInv, IInv, Published, Retired
  <2>9. FrozenStep
    BY <2>2, <2>4, <2>5 DEF FrozenStep, Existing, IInv, TypeOK, Row, Statuses
  <2> QED BY <2>3, <2>7, <2>8, <2>9 DEF IInv
<1>2. CASE ~(RequireDraft(t) /\ ok)
  BY <1>2, RollbackKeeps DEF Save
<1> QED BY <1>1, <1>2

\* Every edit handler is such a save.
LEMMA EditKeeps ==
    ASSUME IInv, NEW t \in Txns, EditDraft(t)
    PROVE  IInv' /\ FrozenStep
<1>1. tx[t].pc = "locked"
  BY DEF EditDraft, UpdateDefinition, AddState, UpdateState, DeleteState,
         AddTransition, UpdateTransition, DeleteTransition, Holds
<1>2. Stored(t) \in Graph
  BY <1>1 DEF Stored, IInv, LockInv, OwnInv, TypeOK, Existing, Row
<1>3. ASSUME NEW ok, NEW g \in Graph, Save(t, ok, g)
      PROVE  IInv' /\ FrozenStep
  BY <1>1, <1>3, SaveKeeps
<1>4. CASE UpdateDefinition(t)
  <2>1. PICK scope \in Scopes : Save(t, TRUE, [Stored(t) EXCEPT !.scope = scope])
    BY <1>4 DEF UpdateDefinition
  <2>2. [Stored(t) EXCEPT !.scope = scope] \in Graph
    BY <1>2 DEF Graph
  <2> QED BY <2>1, <2>2, <1>3
<1>5. CASE AddState(t)
  <2> DEFINE g(s, i, e) == [Stored(t) EXCEPT
                              !.states = @ \cup {s},
                              !.initial = IF i THEN @ \cup {s} ELSE @,
                              !.terminal = IF e THEN @ \cup {s} ELSE @]
             ok(s, i) == /\ s \notin Loaded(t).states
                         /\ i => Loaded(t).initial = {}
  <2>1. PICK s \in States, i, e \in BOOLEAN : Save(t, ok(s, i), g(s, i, e))
    BY <1>5 DEF AddState
  <2>2. g(s, i, e) \in Graph
    BY <1>2 DEF Graph
  <2> QED BY <2>1, <2>2, <1>3
<1>6. CASE UpdateState(t)
  <2> DEFINE g(s, i, e) == [Stored(t) EXCEPT
                              !.initial = IF i THEN @ \cup {s} ELSE @ \ {s},
                              !.terminal = IF e THEN @ \cup {s} ELSE @ \ {s}]
             ok(s, i) == /\ s \in Loaded(t).states
                         /\ i => Loaded(t).initial \subseteq {s}
  <2>1. PICK s \in States, i, e \in BOOLEAN : Save(t, ok(s, i), g(s, i, e))
    BY <1>6 DEF UpdateState
  <2>2. g(s, i, e) \in Graph
    BY <1>2 DEF Graph
  <2> QED BY <2>1, <2>2, <1>3
<1>7. CASE DeleteState(t)
  <2> DEFINE g(s) == [Stored(t) EXCEPT !.states = @ \ {s}, !.initial = @ \ {s},
                                       !.terminal = @ \ {s}]
             ok(s) == /\ s \in Loaded(t).states
                      /\ \A tr \in Loaded(t).trans : s \notin {tr.from, tr.to}
  <2>1. PICK s \in States : Save(t, ok(s), g(s))
    BY <1>7 DEF DeleteState
  <2>2. g(s) \in Graph
    BY <1>2 DEF Graph
  <2> QED BY <2>1, <2>2, <1>3
<1>8. CASE AddTransition(t)
  <2> DEFINE g(tr) == [Stored(t) EXCEPT !.trans = @ \cup {tr}]
             ok(tr) == /\ \A old \in Loaded(t).trans : old.code # tr.code
                       /\ EdgeAllowed(Loaded(t), tr)
  <2>1. PICK tr \in Transition : Save(t, ok(tr), g(tr))
    BY <1>8 DEF AddTransition
  <2>2. g(tr) \in Graph
    BY <1>2 DEF Graph
  <2> QED BY <2>1, <2>2, <1>3
<1>9. CASE UpdateTransition(t)
  <2> DEFINE g(tr) == [Stored(t) EXCEPT !.trans = {u \in @ : u.code # tr.code} \cup {tr}]
             ok(tr) == /\ \E old \in Loaded(t).trans : old.code = tr.code
                       /\ EdgeAllowed(Loaded(t), tr)
  <2>1. PICK tr \in Transition : Save(t, ok(tr), g(tr))
    BY <1>9 DEF UpdateTransition
  <2>2. g(tr) \in Graph
    BY <1>2 DEF Graph
  <2> QED BY <2>1, <2>2, <1>3
<1>10. CASE DeleteTransition(t)
  <2> DEFINE g(c) == [Stored(t) EXCEPT !.trans = {u \in @ : u.code # c}]
             ok(c) == \E old \in Loaded(t).trans : old.code = c
  <2>1. PICK c \in Codes : Save(t, ok(c), g(c))
    BY <1>10 DEF DeleteTransition
  <2>2. g(c) \in Graph
    BY <1>2 DEF Graph
  <2> QED BY <2>1, <2>2, <1>3
<1> QED
  BY <1>4, <1>5, <1>6, <1>7, <1>8, <1>9, <1>10 DEF EditDraft

-----------------------------------------------------------------------------
(* Arrivals and locks *)

\* The type of tx when one request takes a step.
LEMMA StepType ==
    ASSUME TypeOK, NEW t \in Txns, NEW x \in Tx, tx' = [tx EXCEPT ![t] = x],
           UNCHANGED defs, lock' \in [Rows -> Txns \cup {None}]
    PROVE  /\ TypeOK'
           /\ tx'[t] = x
           /\ \A u \in Txns : u # t => tx'[u] = tx[u]
BY DEF TypeOK, Existing

LEMMA BeginKeeps ==
    ASSUME IInv, NEW t \in Txns, NEW o \in Ops, NEW r \in Rows, Begin(t, o, r)
    PROVE  IInv' /\ FrozenStep
<1>1. UNCHANGED <<defs, lock>>
  BY DEF Begin
<1>2. CASE o = "create"
  <2> DEFINE x == [tx[t] EXCEPT !.pc = "exists", !.op = o]
  <2>1. tx' = [tx EXCEPT ![t] = x]
    BY <1>2 DEF Begin
  <2>2. x \in Tx
    BY DEF IInv, TypeOK, Tx, Steps
  <2>3. x.pc = "exists"
    BY DEF IInv, TypeOK, Tx
  <2> HIDE DEF x
  <2>4. /\ TypeOK'
        /\ tx'[t] = x
        /\ \A u \in Txns : u # t => tx'[u] = tx[u]
    BY <1>1, <2>1, <2>2, StepType DEF IInv, TypeOK
  <2>5. OwnInv(t)'
    BY <2>3, <2>4 DEF OwnInv
  <2> QED BY <1>1, <2>4, <2>5, QuietStep
<1>3. CASE o # "create"
  <2> DEFINE x == [tx[t] EXCEPT !.pc = "lock", !.op = o, !.row = r]
  <2>1. tx' = [tx EXCEPT ![t] = x] /\ r \in Existing
    BY <1>3 DEF Begin, Existing
  <2>2. x \in Tx
    BY DEF IInv, TypeOK, Tx, Steps
  <2>3. x.pc = "lock" /\ x.row = r
    BY DEF IInv, TypeOK, Tx
  <2> HIDE DEF x
  <2>4. /\ TypeOK'
        /\ tx'[t] = x
        /\ \A u \in Txns : u # t => tx'[u] = tx[u]
    BY <1>1, <2>1, <2>2, StepType DEF IInv, TypeOK
  <2>5. OwnInv(t)'
    BY <1>1, <2>1, <2>3, <2>4 DEF OwnInv, Existing
  <2> QED BY <1>1, <2>4, <2>5, QuietStep
<1> QED BY <1>2, <1>3

LEMMA LockDefinitionKeeps ==
    ASSUME IInv, NEW t \in Txns, LockDefinition(t)
    PROVE  IInv' /\ FrozenStep
<1> DEFINE x == [tx[t] EXCEPT !.pc = "locked", !.view = defs[tx[t].row]]
<1>1. tx[t].row \in Existing /\ tx[t].row \in Rows
  BY DEF LockDefinition, IInv, LockInv, OwnInv, Existing
<1>2. /\ tx' = [tx EXCEPT ![t] = x]
      /\ lock' = [lock EXCEPT ![tx[t].row] = t]
      /\ lock[tx[t].row] = None
      /\ UNCHANGED defs
  BY DEF LockDefinition
<1>3. x \in Tx
  BY <1>1 DEF IInv, TypeOK, Tx, Steps
<1>4. x.pc = "locked" /\ x.row = tx[t].row /\ x.view = defs[tx[t].row]
  BY DEF IInv, TypeOK, Tx
<1>5. /\ lock' \in [Rows -> Txns \cup {None}]
      /\ lock'[tx[t].row] = t
      /\ \A r \in Rows : lock[r] # None => lock'[r] = lock[r]
  BY <1>1, <1>2 DEF IInv, TypeOK
<1> HIDE DEF x
<1>6. /\ TypeOK'
      /\ tx'[t] = x
      /\ \A u \in Txns : u # t => tx'[u] = tx[u]
  BY <1>2, <1>3, <1>5, StepType DEF IInv
<1>7. OwnInv(t)'
  BY <1>1, <1>2, <1>4, <1>5, <1>6 DEF OwnInv, Existing
<1> QED BY <1>2, <1>5, <1>6, <1>7, QuietStep

-----------------------------------------------------------------------------
(* publish_definition *)

LEMMA StartPublishKeeps ==
    ASSUME IInv, NEW t \in Txns, StartPublish(t)
    PROVE  IInv' /\ FrozenStep
<1>1. tx[t].pc = "locked" /\ OwnInv(t)
  BY DEF StartPublish, Holds, IInv, LockInv
<1>2. CASE RequireDraft(t) /\ Publishable(Loaded(t))
  <2> DEFINE x == [tx[t] EXCEPT !.pc = "scan", !.todo = Published \ {tx[t].row},
                                !.prev = {}]
  <2>1. tx' = [tx EXCEPT ![t] = x] /\ UNCHANGED <<defs, lock>>
    BY <1>2 DEF StartPublish
  <2>2. x \in Tx
    BY DEF IInv, TypeOK, Tx, Steps, Published
  <2>3. /\ x.pc = "scan" /\ x.row = tx[t].row /\ x.view = tx[t].view
        /\ x.todo \subseteq Published /\ x.prev = {}
    BY DEF IInv, TypeOK, Tx
  <2> HIDE DEF x
  <2>4. /\ TypeOK'
        /\ tx'[t] = x
        /\ \A u \in Txns : u # t => tx'[u] = tx[u]
    BY <2>1, <2>2, StepType DEF IInv, TypeOK
  <2>5. /\ defs[tx[t].row].status = "draft"
        /\ Publishable(defs[tx[t].row].graph)
    BY <1>1, <1>2 DEF OwnInv, RequireDraft, Loaded
  <2>6. Published \subseteq Existing
    BY DEF Published, Existing
  <2>7. OwnInv(t)'
    BY <1>1, <2>1, <2>3, <2>4, <2>5, <2>6 DEF OwnInv, Existing, Published
  <2> QED BY <2>1, <2>4, <2>7, QuietStep
<1>3. CASE ~(RequireDraft(t) /\ Publishable(Loaded(t)))
  BY <1>3, RollbackKeeps DEF StartPublish
<1> QED BY <1>2, <1>3

LEMMA LockPublishedKeeps ==
    ASSUME IInv, NEW t \in Txns, NEW r \in Rows, LockPublished(t, r)
    PROVE  IInv' /\ FrozenStep
<1> DEFINE x == [tx[t] EXCEPT !.todo = @ \ {r},
                              !.prev = IF r \in Published THEN @ \cup {r} ELSE @]
<1>1. tx[t].pc = "scan" /\ OwnInv(t)
  BY DEF LockPublished, IInv, LockInv
<1>2. /\ tx' = [tx EXCEPT ![t] = x]
      /\ lock' = [lock EXCEPT ![r] = t]
      /\ lock[r] = None
      /\ UNCHANGED defs
  BY DEF LockPublished
<1>3. x \in Tx
  BY DEF IInv, TypeOK, Tx
<1>4. /\ x.pc = "scan" /\ x.row = tx[t].row /\ x.view = tx[t].view
      /\ x.todo \subseteq tx[t].todo
      /\ \A q \in x.prev : q \in tx[t].prev \/ (q = r /\ r \in Published)
  BY <1>1 DEF IInv, TypeOK, Tx
<1>5. /\ lock' \in [Rows -> Txns \cup {None}]
      /\ lock'[r] = t
      /\ \A q \in Rows : lock[q] # None => lock'[q] = lock[q]
  BY <1>2 DEF IInv, TypeOK
<1> HIDE DEF x
<1>6. /\ TypeOK'
      /\ tx'[t] = x
      /\ \A u \in Txns : u # t => tx'[u] = tx[u]
  BY <1>2, <1>3, <1>5, StepType DEF IInv
<1>7. lock'[tx[t].row] = t
  BY <1>1, <1>5, DefinitionsAssumption DEF OwnInv, Existing
<1>8. x.prev \subseteq Published /\ \A q \in x.prev : lock'[q] = t
  BY <1>1, <1>4, <1>5, DefinitionsAssumption DEF OwnInv, Published
<1>9. OwnInv(t)'
  BY <1>1, <1>2, <1>4, <1>6, <1>7, <1>8 DEF OwnInv, Existing, Published
<1> QED BY <1>2, <1>5, <1>6, <1>9, QuietStep

LEMMA FinishPublishKeeps ==
    ASSUME IInv, NEW t \in Txns, FinishPublish(t)
    PROVE  IInv' /\ FrozenStep
<1>1. tx[t].pc = "scan" /\ OwnInv(t) /\ Finish(t)
  BY DEF FinishPublish, Commit, IInv, LockInv
<1>2. defs' = [r \in Rows |->
                 IF r = tx[t].row THEN [defs[r] EXCEPT !.status = "published"]
                 ELSE IF r \in tx[t].prev THEN [defs[r] EXCEPT !.status = "retired"]
                 ELSE defs[r]]
  BY DEF FinishPublish, Commit
<1>3. \A r \in Rows : /\ defs'[r] \in Row
                      /\ defs'[r].version = defs[r].version
                      /\ defs'[r].graph = defs[r].graph
                      /\ defs'[r].status = IF r = tx[t].row THEN "published"
                                           ELSE IF r \in tx[t].prev THEN "retired"
                                           ELSE defs[r].status
  BY <1>2 DEF IInv, TypeOK, Row, Statuses
<1>4. /\ tx[t].row \in Existing /\ lock[tx[t].row] = t
      /\ defs[tx[t].row].status = "draft"
      /\ Publishable(defs[tx[t].row].graph)
      /\ \A r \in tx[t].prev : lock[r] = t /\ defs[r].status = "published"
  BY <1>1 DEF OwnInv, Published
<1>5. TypeOK'
  <2>1. Existing' \subseteq Existing
    BY <1>3, <1>4 DEF Existing
  <2>2. defs' \in [Rows -> Row]
    BY <1>2, <1>3
  <2> QED BY <1>1, <1>3, <2>1, <2>2, FinishType DEF TypeOK, IInv, Existing
<1>6. WritesOwned(t)
  BY <1>2, <1>3, <1>4 DEF WritesOwned, Existing
<1>7. LockInv'
  BY <1>1, <1>5, <1>6, FinishKeepsLocks
<1>8. PublishedInv'
  BY <1>3, <1>4 DEF PublishedInv, IInv, Published, Retired
<1>9. FrozenStep
  BY <1>3, <1>4 DEF FrozenStep, Existing, IInv, TypeOK, Row, Statuses
<1> QED BY <1>5, <1>7, <1>8, <1>9 DEF IInv

-----------------------------------------------------------------------------
(* retire_definition *)

LEMMA RetireKeeps ==
    ASSUME IInv, NEW t \in Txns, Retire(t)
    PROVE  IInv' /\ FrozenStep
<1>1. tx[t].pc = "locked" /\ OwnInv(t)
  BY DEF Retire, Holds, IInv, LockInv
<1>2. CASE tx[t].view.status = "published"
  <2>1. Finish(t) /\ defs' = [defs EXCEPT ![tx[t].row].status = "retired"]
    BY <1>2 DEF Retire, Commit
  <2>2. /\ tx[t].row \in Rows
        /\ lock[tx[t].row] = t
        /\ defs[tx[t].row].status = "published"
    BY <1>1, <1>2 DEF OwnInv, Existing
  <2>3. /\ \A r \in Rows : r # tx[t].row => defs'[r] = defs[r]
        /\ defs'[tx[t].row] = [defs[tx[t].row] EXCEPT !.status = "retired"]
        /\ defs' \in [Rows -> Row]
    BY <2>1, <2>2 DEF IInv, TypeOK, Row, Statuses
  <2>4. /\ defs'[tx[t].row].status = "retired"
        /\ defs'[tx[t].row].version = defs[tx[t].row].version
        /\ defs'[tx[t].row].graph = defs[tx[t].row].graph
    BY <2>2, <2>3 DEF IInv, TypeOK, Row
  <2>5. TypeOK'
    BY <2>1, <2>2, <2>3, <2>4, FinishType DEF TypeOK, IInv, Existing
  <2>6. WritesOwned(t)
    BY <2>2, <2>3, <2>4 DEF WritesOwned, Existing
  <2>7. LockInv'
    BY <2>1, <2>5, <2>6, FinishKeepsLocks
  <2>8. PublishedInv'
    BY <2>2, <2>3, <2>4 DEF PublishedInv, IInv, Published, Retired
  <2>9. FrozenStep
    BY <2>2, <2>3, <2>4 DEF FrozenStep, Existing, IInv, TypeOK, Row, Statuses
  <2> QED BY <2>5, <2>7, <2>8, <2>9 DEF IInv
<1>3. CASE tx[t].view.status # "published"
  BY <1>3, RollbackKeeps DEF Retire
<1> QED BY <1>2, <1>3

-----------------------------------------------------------------------------
(* create_new_version and create_definition *)

\* A statement that only moves the request to a later step.
LEMMA GotoKeeps ==
    ASSUME IInv, NEW t \in Txns, UNCHANGED <<defs, lock>>,
           NEW x \in Tx, tx' = [tx EXCEPT ![t] = x],
           x.pc \in {"drafts", "top", "insert"}
    PROVE  IInv' /\ FrozenStep
<1>1. /\ TypeOK'
      /\ tx'[t] = x
      /\ \A u \in Txns : u # t => tx'[u] = tx[u]
  BY StepType DEF IInv, TypeOK
<1>2. OwnInv(t)'
  BY <1>1 DEF OwnInv
<1> QED BY <1>1, <1>2, QuietStep

LEMMA StatementsKeep ==
    ASSUME IInv, NEW t \in Txns,
           StartNewVersion(t) \/ CheckNoDraft(t) \/ ReadMaxVersion(t) \/ CheckCodeFree(t)
    PROVE  IInv' /\ FrozenStep
<1>1. CASE Rollback(t)
  BY <1>1, RollbackKeeps
<1>2. CASE \E step \in {"drafts", "top", "insert"} :
              Goto(t, step) /\ UNCHANGED <<defs, lock>>
  <2>1. PICK step \in {"drafts", "top", "insert"} :
           Goto(t, step) /\ UNCHANGED <<defs, lock>>
    BY <1>2
  <2> DEFINE x == [tx[t] EXCEPT !.pc = step]
  <2>2. tx' = [tx EXCEPT ![t] = x]
    BY <2>1 DEF Goto
  <2>3. x \in Tx /\ x.pc = step
    BY DEF IInv, TypeOK, Tx, Steps
  <2> QED BY <2>1, <2>2, <2>3, GotoKeeps
<1>3. CASE ReadMaxVersion(t)
  <2>1. PICK top \in {0} \cup Versions :
           tx' = [tx EXCEPT ![t].pc = "insert", ![t].top = top]
    BY <1>3 DEF ReadMaxVersion
  <2> DEFINE x == [tx[t] EXCEPT !.pc = "insert", !.top = top]
  <2>2. tx' = [tx EXCEPT ![t] = x]
    BY <2>1
  <2>3. top \in Nat
    BY DEF IInv, TypeOK, Versions, Row
  <2>4. x \in Tx /\ x.pc = "insert"
    BY <2>3 DEF IInv, TypeOK, Tx, Steps
  <2>5. UNCHANGED <<defs, lock>>
    BY <1>3 DEF ReadMaxVersion
  <2> QED BY <2>2, <2>4, <2>5, GotoKeeps
<1> QED
  BY <1>1, <1>2, <1>3 DEF StartNewVersion, CheckNoDraft, CheckCodeFree

LEMMA InsertKeeps ==
    ASSUME IInv, NEW t \in Txns, NEW v \in Nat \ {0}, NEW g \in Graph, InsertDraft(t, v, g)
    PROVE  IInv' /\ FrozenStep
<1>1. CASE Rollback(t)
  BY <1>1, RollbackKeeps
<1>2. CASE ~Rollback(t)
  <2> DEFINE new == [status |-> "draft", version |-> v, graph |-> g]
  <2>1. PICK r \in Rows \ Existing : Finish(t) /\ defs' = [defs EXCEPT ![r] = new]
    BY <1>2 DEF InsertDraft, Commit
  <2>2. defs[r].status = "absent"
    BY <2>1 DEF Existing
  <2>3. new \in Row /\ new.status = "draft" /\ new.version > 0
    BY DEF Row, Statuses
  <2> HIDE DEF new
  <2>4. /\ \A q \in Rows : q # r => defs'[q] = defs[q]
        /\ defs'[r] = new
        /\ defs' \in [Rows -> Row]
    BY <2>1, <2>3 DEF IInv, TypeOK
  <2>5. TypeOK'
    BY <2>1, <2>3, <2>4, FinishType DEF TypeOK, IInv, Existing
  <2>6. WritesOwned(t)
    BY <2>2, <2>3, <2>4 DEF WritesOwned, Existing
  <2>7. LockInv'
    BY <2>1, <2>5, <2>6, FinishKeepsLocks
  <2>8. PublishedInv'
    BY <2>3, <2>4 DEF PublishedInv, IInv, Published, Retired
  <2>9. FrozenStep
    BY <2>2, <2>4 DEF FrozenStep, Existing, IInv, TypeOK, Row, Statuses
  <2> QED BY <2>5, <2>7, <2>8, <2>9 DEF IInv
<1> QED BY <1>1, <1>2

LEMMA InsertsKeep ==
    ASSUME IInv, NEW t \in Txns, CloneVersion(t) \/ InsertFirst(t)
    PROVE  IInv' /\ FrozenStep
<1>1. CASE CloneVersion(t)
  <2>1. tx[t].top + 1 \in Nat \ {0} /\ Loaded(t) \in Graph
    BY DEF IInv, TypeOK, Tx, Row, Loaded
  <2> QED BY <1>1, <2>1, InsertKeeps DEF CloneVersion
<1>2. CASE InsertFirst(t)
  <2>1. PICK scope \in Scopes : InsertDraft(t, 1, EmptyGraph(scope))
    BY <1>2 DEF InsertFirst
  <2> QED BY <2>1, InsertKeeps, EmptyGraphType
<1> QED BY <1>1, <1>2

-----------------------------------------------------------------------------
(* The theorems *)

LEMMA InitIInv == Init => IInv
<1> SUFFICES ASSUME Init PROVE IInv
  OBVIOUS
<1>1. TypeOK
  BY EmptyGraphType DEF Init, TypeOK, Existing, AbsentRow
<1>2. LockInv
  BY DEF Init, LockInv, OwnInv, IdleTx
<1>3. PublishedInv
  BY DEF Init, PublishedInv, Published, Retired, AbsentRow
<1> QED BY <1>1, <1>2, <1>3 DEF IInv

LEMMA NextKeeps ==
    ASSUME IInv, [Next]_vars
    PROVE  IInv' /\ FrozenStep
<1>1. CASE UNCHANGED vars
  BY <1>1 DEF vars, IInv, TypeOK, LockInv, OwnInv, PublishedInv, FrozenStep,
              Existing, Published, Retired, Row, Statuses
<1>2. ASSUME NEW t \in Txns, NEW o \in Ops, NEW r \in Rows, Begin(t, o, r)
      PROVE  IInv' /\ FrozenStep
  BY <1>2, BeginKeeps
<1>3. ASSUME NEW t \in Txns, AcquireLock(t)
      PROVE  IInv' /\ FrozenStep
  BY <1>3, LockDefinitionKeeps, LockPublishedKeeps DEF AcquireLock
<1>4. ASSUME NEW t \in Txns, Work(t)
      PROVE  IInv' /\ FrozenStep
  BY <1>4, EditKeeps, StartPublishKeeps, FinishPublishKeeps, RetireKeeps,
     StatementsKeep, InsertsKeep DEF Work
<1>5. ASSUME NEW t \in Txns, Abort(t)
      PROVE  IInv' /\ FrozenStep
  BY <1>5, RollbackKeeps DEF Abort
<1> QED BY <1>1, <1>2, <1>3, <1>4, <1>5 DEF Next

\* The invariant holds in every reachable state.
LEMMA Invariance == Spec => []IInv
<1>1. IInv /\ [Next]_vars => IInv'
  BY NextKeeps
<1> QED BY InitIInv, <1>1, PTL DEF Spec

\* The state keeps its type.
THEOREM TypeCorrect == Spec => []TypeOK
<1>1. IInv => TypeOK
  BY DEF IInv
<1> QED BY <1>1, Invariance, PTL

\* A version that was ever published never changes again but to be retired.
THEOREM PublishedStaysFrozen == Spec => Frozen
<1>1. IInv /\ [Next]_vars => [FrozenStep]_vars
  BY NextKeeps
<1> QED BY <1>1, Invariance, PTL DEF Spec, Frozen

\* What _validate_publishable checks is what an instance needs.
LEMMA PublishableIsExecutable ==
    ASSUME NEW g \in Graph, Publishable(g)
    PROVE  Executable(g)
<1>1. PICK s \in g.states : g.initial = {s}
  BY DEF Publishable, WellShaped
<1>3. ASSUME NEW S \in SUBSET g.states, g.initial \subseteq S, ClosedUnder(g, S)
      PROVE  /\ g.states \subseteq S
             /\ S \cap g.terminal # {}
  BY <1>3 DEF Publishable, WellShaped, AllReachable
<1>4. \A u \in g.states : u \in g.terminal <=> \A tr \in g.trans : tr.from # u
  BY DEF Publishable, WellShaped
<1> QED BY <1>1, <1>3, <1>4 DEF Executable

-----------------------------------------------------------------------------
(* What the rows hold: graphs without ambiguous codes, and version numbers *)
(* without gaps                                                            *)

\* No loaded maximum is larger than the number of versions, which only grows.
DataInv ==
    /\ \A r \in Rows : Unambiguous(defs[r].graph)
    /\ \A t \in Txns : Unambiguous(tx[t].view.graph)
    /\ IsFiniteSet(Existing)
    /\ VersionsContiguous
    /\ \A t \in Txns : tx[t].top \in 0..Cardinality(Existing)

LEMMA EmptyUnambiguous == \A scope : Unambiguous(EmptyGraph(scope))
BY DEF Unambiguous, EmptyGraph

LEMMA InitDataInv == Init => DataInv
<1> SUFFICES ASSUME Init PROVE DataInv
  OBVIOUS
<1>1. Existing = {} /\ \A r \in Rows : defs[r].version = 0
  BY DEF Init, Existing, AbsentRow
<1>2. IsFiniteSet(Existing) /\ Cardinality(Existing) = 0
  BY <1>1, FS_EmptySet
<1>3. \A t \in Txns : tx[t].view = AbsentRow /\ tx[t].top = 0
  BY DEF Init, IdleTx
<1>4. VersionsContiguous
  BY <1>1, <1>2 DEF VersionsContiguous
<1>5. Unambiguous(AbsentRow.graph)
  BY EmptyUnambiguous DEF AbsentRow, NoGraph
<1>6. \A r \in Rows : defs[r] = AbsentRow
  BY DEF Init
<1> QED BY <1>2, <1>3, <1>4, <1>5, <1>6 DEF DataInv

\* A step that leaves the numbers of the versions alone.
LEMMA NumbersKept ==
    ASSUME DataInv,
           \A r \in Rows : /\ defs'[r].version = defs[r].version
                           /\ defs'[r].status = "absent" <=> defs[r].status = "absent"
                           /\ Unambiguous(defs'[r].graph),
           \A t \in Txns : /\ Unambiguous(tx'[t].view.graph)
                           /\ tx'[t].top \in {tx[t].top, 0} \cup Versions
    PROVE  DataInv'
<1>1. Existing' = Existing
  BY DEF Existing
<1>2. /\ {defs'[r].version : r \in Existing} = {defs[r].version : r \in Existing}
      /\ Existing \subseteq Rows
  BY DEF Existing
<1>3. VersionsContiguous'
  BY <1>1, <1>2 DEF DataInv, VersionsContiguous
<1>4. Cardinality(Existing) \in Nat
  BY FS_CardinalityType DEF DataInv
<1>5. \A v \in Versions : v \in 0..Cardinality(Existing)
  <2> SUFFICES ASSUME NEW r \in Rows PROVE defs[r].version \in 0..Cardinality(Existing)
    BY DEF Versions
  <2>1. CASE r \in Existing
    <3>1. defs[r].version \in 1..Cardinality(Existing)
      BY <2>1 DEF DataInv, VersionsContiguous
    <3> QED BY <1>4, <3>1
  <2>2. CASE r \notin Existing
    BY <1>4, <2>2 DEF DataInv, VersionsContiguous
  <2> QED BY <2>1, <2>2
<1>6. \A t \in Txns : tx'[t].top \in 0..Cardinality(Existing)
  BY <1>4, <1>5 DEF DataInv
<1> QED BY <1>1, <1>3, <1>6 DEF DataInv

\* The end of a request forgets what it loaded.
LEMMA FinishForgets ==
    ASSUME TypeOK, DataInv, NEW t \in Txns, Finish(t)
    PROVE  \A u \in Txns : /\ Unambiguous(tx'[u].view.graph)
                           /\ tx'[u].top \in {tx[u].top, 0}
<1>1. /\ tx'[t] = IdleTx /\ \A u \in Txns \ {t} : tx'[u] = tx[u]
  BY DEF Finish, TypeOK
<1>2. Unambiguous(IdleTx.view.graph) /\ IdleTx.top = 0
  BY EmptyUnambiguous DEF IdleTx, AbsentRow, NoGraph
<1> QED BY <1>1, <1>2 DEF DataInv

\* A step of t within its request.
LEMMA LoadKeepsData ==
    ASSUME IInv, DataInv, NEW t \in Txns, UNCHANGED defs,
           NEW x, tx' = [tx EXCEPT ![t] = x],
           Unambiguous(x.view.graph), x.top \in {tx[t].top, 0} \cup Versions
    PROVE  DataInv'
<1>1. tx'[t] = x /\ \A u \in Txns \ {t} : tx'[u] = tx[u]
  BY DEF IInv, TypeOK
<1>2. \A u \in Txns : /\ Unambiguous(tx'[u].view.graph)
                      /\ tx'[u].top \in {tx[u].top, 0} \cup Versions
  BY <1>1 DEF DataInv
<1> QED BY <1>2, NumbersKept DEF DataInv

\* A request that ends, with or without a write that keeps the numbers.
LEMMA EndKeepsData ==
    ASSUME IInv, DataInv, NEW t \in Txns, Finish(t),
           \A r \in Rows : /\ defs'[r].version = defs[r].version
                           /\ defs'[r].status = "absent" <=> defs[r].status = "absent"
                           /\ Unambiguous(defs'[r].graph)
    PROVE  DataInv'
<1>1. TypeOK
  BY DEF IInv
<1> QED BY <1>1, FinishForgets, NumbersKept

LEMMA RollbackKeepsData ==
    ASSUME IInv, DataInv, NEW t \in Txns, Rollback(t)
    PROVE  DataInv'
BY EndKeepsData DEF Rollback, DataInv

LEMMA SaveKeepsData ==
    ASSUME IInv, DataInv, NEW t \in Txns, tx[t].pc = "locked", NEW ok, NEW g \in Graph,
           Save(t, ok, g), ok => Unambiguous(g)
    PROVE  DataInv'
<1>1. CASE RequireDraft(t) /\ ok
  <2>1. Finish(t) /\ defs' = [defs EXCEPT ![tx[t].row].graph = g]
    BY <1>1 DEF Save, Commit
  <2>2. \A r \in Rows : /\ defs'[r].version = defs[r].version
                        /\ defs'[r].status = defs[r].status
                        /\ defs'[r].graph \in {defs[r].graph, g}
    BY <2>1 DEF IInv, TypeOK, Row
  <2> QED BY <1>1, <2>1, <2>2, EndKeepsData DEF DataInv
<1>2. CASE ~(RequireDraft(t) /\ ok)
  BY <1>2, RollbackKeepsData DEF Save
<1> QED BY <1>1, <1>2

\* An edge is added under a new code or replaces the edge of its code.
LEMMA EditKeepsData ==
    ASSUME IInv, DataInv, NEW t \in Txns, EditDraft(t)
    PROVE  DataInv'
<1>1. tx[t].pc = "locked"
  BY DEF EditDraft, UpdateDefinition, AddState, UpdateState, DeleteState,
         AddTransition, UpdateTransition, DeleteTransition, Holds
<1>2. /\ Stored(t) \in Graph /\ Loaded(t) = Stored(t)
      /\ \A tr \in Stored(t).trans :
            tr.from # tr.to /\ \A u \in Stored(t).trans : u.code = tr.code => u = tr
  BY <1>1 DEF Stored, Loaded, IInv, LockInv, OwnInv, TypeOK, Existing, Row, DataInv,
              Unambiguous
<1>3. ASSUME NEW ok, NEW g \in Graph, Save(t, ok, g), ok => Unambiguous(g)
      PROVE  DataInv'
  BY <1>1, <1>3, SaveKeepsData
<1>4. ASSUME NEW ok, NEW g \in Graph, Save(t, ok, g), g.trans = Stored(t).trans
      PROVE  DataInv'
  <2>1. Unambiguous(g)
    BY <1>2, <1>4 DEF Unambiguous
  <2> QED BY <1>3, <1>4, <2>1
<1>5. CASE UpdateDefinition(t)
  <2>1. PICK scope \in Scopes : Save(t, TRUE, [Stored(t) EXCEPT !.scope = scope])
    BY <1>5 DEF UpdateDefinition
  <2>2. /\ [Stored(t) EXCEPT !.scope = scope] \in Graph
        /\ [Stored(t) EXCEPT !.scope = scope].trans = Stored(t).trans
    BY <1>2 DEF Graph
  <2> QED BY <1>4, <2>1, <2>2
<1>6. CASE AddState(t)
  <2> DEFINE g(s, i, e) == [Stored(t) EXCEPT
                              !.states = @ \cup {s},
                              !.initial = IF i THEN @ \cup {s} ELSE @,
                              !.terminal = IF e THEN @ \cup {s} ELSE @]
             ok(s, i) == /\ s \notin Loaded(t).states
                         /\ i => Loaded(t).initial = {}
  <2>1. PICK s \in States, i, e \in BOOLEAN : Save(t, ok(s, i), g(s, i, e))
    BY <1>6 DEF AddState
  <2>2. g(s, i, e) \in Graph /\ g(s, i, e).trans = Stored(t).trans
    BY <1>2 DEF Graph
  <2> QED BY <1>4, <2>1, <2>2
<1>7. CASE UpdateState(t)
  <2> DEFINE g(s, i, e) == [Stored(t) EXCEPT
                              !.initial = IF i THEN @ \cup {s} ELSE @ \ {s},
                              !.terminal = IF e THEN @ \cup {s} ELSE @ \ {s}]
             ok(s, i) == /\ s \in Loaded(t).states
                         /\ i => Loaded(t).initial \subseteq {s}
  <2>1. PICK s \in States, i, e \in BOOLEAN : Save(t, ok(s, i), g(s, i, e))
    BY <1>7 DEF UpdateState
  <2>2. g(s, i, e) \in Graph /\ g(s, i, e).trans = Stored(t).trans
    BY <1>2 DEF Graph
  <2> QED BY <1>4, <2>1, <2>2
<1>8. CASE DeleteState(t)
  <2> DEFINE g(s) == [Stored(t) EXCEPT !.states = @ \ {s}, !.initial = @ \ {s},
                                       !.terminal = @ \ {s}]
             ok(s) == /\ s \in Loaded(t).states
                      /\ \A tr \in Loaded(t).trans : s \notin {tr.from, tr.to}
  <2>1. PICK s \in States : Save(t, ok(s), g(s))
    BY <1>8 DEF DeleteState
  <2>2. g(s) \in Graph /\ g(s).trans = Stored(t).trans
    BY <1>2 DEF Graph
  <2> QED BY <1>4, <2>1, <2>2
<1>9. CASE AddTransition(t)
  <2> DEFINE g(tr) == [Stored(t) EXCEPT !.trans = @ \cup {tr}]
             ok(tr) == /\ \A old \in Loaded(t).trans : old.code # tr.code
                       /\ EdgeAllowed(Loaded(t), tr)
  <2>1. PICK tr \in Transition : Save(t, ok(tr), g(tr))
    BY <1>9 DEF AddTransition
  <2>2. g(tr) \in Graph /\ g(tr).trans = Stored(t).trans \cup {tr}
    BY <1>2 DEF Graph
  <2>3. ok(tr) => Unambiguous(g(tr))
    BY <1>2, <2>2 DEF Unambiguous, EdgeAllowed
  <2> QED BY <1>3, <2>1, <2>2, <2>3
<1>10. CASE UpdateTransition(t)
  <2> DEFINE g(tr) == [Stored(t) EXCEPT !.trans = {u \in @ : u.code # tr.code} \cup {tr}]
             ok(tr) == /\ \E old \in Loaded(t).trans : old.code = tr.code
                       /\ EdgeAllowed(Loaded(t), tr)
  <2>1. PICK tr \in Transition : Save(t, ok(tr), g(tr))
    BY <1>10 DEF UpdateTransition
  <2>2. /\ g(tr) \in Graph
        /\ g(tr).trans = {u \in Stored(t).trans : u.code # tr.code} \cup {tr}
    BY <1>2 DEF Graph
  <2>3. ok(tr) => Unambiguous(g(tr))
    BY <1>2, <2>2 DEF Unambiguous, EdgeAllowed
  <2> QED BY <1>3, <2>1, <2>2, <2>3
<1>11. CASE DeleteTransition(t)
  <2> DEFINE g(c) == [Stored(t) EXCEPT !.trans = {u \in @ : u.code # c}]
             ok(c) == \E old \in Loaded(t).trans : old.code = c
  <2>1. PICK c \in Codes : Save(t, ok(c), g(c))
    BY <1>11 DEF DeleteTransition
  <2>2. g(c) \in Graph /\ g(c).trans = {u \in Stored(t).trans : u.code # c}
    BY <1>2 DEF Graph
  <2>3. Unambiguous(g(c))
    BY <1>2, <2>2 DEF Unambiguous
  <2> QED BY <1>3, <2>1, <2>2, <2>3
<1> QED BY <1>5, <1>6, <1>7, <1>8, <1>9, <1>10, <1>11 DEF EditDraft

\* Publishing and retiring change the status of versions only.
LEMMA StatusStepKeepsData ==
    ASSUME IInv, DataInv, NEW t \in Txns, FinishPublish(t) \/ Retire(t), ~ Rollback(t)
    PROVE  DataInv'
<1>1. Finish(t)
  BY DEF FinishPublish, Retire, Commit
<1>2. /\ OwnInv(t) /\ defs \in [Rows -> Row]
      /\ tx[t].pc \in {"locked", "scan"}
  BY DEF FinishPublish, Retire, Holds, IInv, LockInv, TypeOK
<1>3. \A r \in Rows : /\ defs'[r].version = defs[r].version
                      /\ defs'[r].graph = defs[r].graph
                      /\ defs'[r].status = "absent" <=> defs[r].status = "absent"
  <2>1. CASE FinishPublish(t)
    BY <1>2, <2>1 DEF FinishPublish, Commit, OwnInv, Row, Published
  <2>2. CASE Retire(t)
    BY <1>2, <2>2 DEF Retire, Commit, OwnInv, Row, Existing
  <2> QED BY <2>1, <2>2
<1> QED BY <1>1, <1>3, EndKeepsData DEF DataInv

\* A new version gets the number after the last one: a number that is free and
\* at most one larger than a maximum of the past is the next number.
LEMMA InsertKeepsData ==
    ASSUME IInv, DataInv, NEW t \in Txns, NEW v \in 1..(Cardinality(Existing) + 1),
           NEW g \in Graph, Unambiguous(g), InsertDraft(t, v, g)
    PROVE  DataInv'
<1>1. CASE Rollback(t)
  BY <1>1, RollbackKeepsData
<1>2. CASE ~ Rollback(t)
  <2> DEFINE new == [status |-> "draft", version |-> v, graph |-> g]
  <2>1. PICK r \in Rows \ Existing : Finish(t) /\ defs' = [defs EXCEPT ![r] = new]
    BY <1>2 DEF InsertDraft, Commit
  <2>2. v \notin Versions
    BY <1>2 DEF InsertDraft
  <2>3. new.status = "draft" /\ new.version = v /\ new.graph = g
    OBVIOUS
  <2> HIDE DEF new
  <2>4. defs'[r] = new /\ \A q \in Rows \ {r} : defs'[q] = defs[q]
    BY <2>1 DEF IInv, TypeOK
  <2>5. Existing' = Existing \cup {r} /\ Existing \subseteq Rows /\ r \notin Existing
    BY <2>1, <2>3, <2>4 DEF Existing
  <2> DEFINE n == Cardinality(Existing)
  <2>6. /\ IsFiniteSet(Existing') /\ Cardinality(Existing') = n + 1 /\ n \in Nat
    BY <2>5, FS_AddElement, FS_CardinalityType DEF DataInv
  <2>7. v = n + 1
    <3>1. \A m \in 1..n : m \in Versions
      BY <2>5 DEF DataInv, VersionsContiguous, Versions
    <3> QED BY <2>2, <2>6, <3>1
  <2>8. VersionsContiguous'
    <3>1. {defs'[q].version : q \in Existing'} = {defs[q].version : q \in Existing} \cup {v}
      BY <2>3, <2>4, <2>5
    <3>2. (1..n) \cup {n + 1} = 1..(n + 1)
      BY <2>6
    <3>3. {defs'[q].version : q \in Existing'} = 1..Cardinality(Existing')
      BY <2>6, <2>7, <3>1, <3>2 DEF DataInv, VersionsContiguous
    <3>4. \A q \in Rows \ Existing' : defs'[q].version = 0
      BY <2>4, <2>5 DEF DataInv, VersionsContiguous
    <3> QED BY <3>3, <3>4 DEF VersionsContiguous
  <2>9. \A u \in Txns : /\ Unambiguous(tx'[u].view.graph)
                        /\ tx'[u].top \in 0..Cardinality(Existing')
    <3>1. \A u \in Txns : /\ Unambiguous(tx'[u].view.graph)
                          /\ tx'[u].top \in {tx[u].top, 0}
      BY <2>1, FinishForgets DEF IInv
    <3> QED BY <2>6, <3>1 DEF DataInv
  <2>10. \A q \in Rows : Unambiguous(defs'[q].graph)
    BY <2>3, <2>4 DEF DataInv
  <2> QED BY <2>6, <2>8, <2>9, <2>10 DEF DataInv
<1> QED BY <1>1, <1>2

LEMMA NextKeepsData ==
    ASSUME IInv, DataInv, [Next]_vars
    PROVE  DataInv'
<1>1. ASSUME NEW t \in Txns, NEW x, tx' = [tx EXCEPT ![t] = x], UNCHANGED defs,
             x.view \in {tx[t].view, defs[tx[t].row]}, tx[t].row \in Rows \/ x.view = tx[t].view,
             x.top \in {tx[t].top, 0} \cup Versions
      PROVE  DataInv'
  <2>1. Unambiguous(x.view.graph)
    BY <1>1 DEF DataInv
  <2> QED BY <1>1, <2>1, LoadKeepsData
<1>2. CASE UNCHANGED vars
  <2>1. UNCHANGED <<defs, tx>>
    BY <1>2 DEF vars
  <2> QED BY <2>1, NumbersKept DEF DataInv
<1>3. ASSUME NEW t \in Txns, NEW o \in Ops, NEW r \in Rows, Begin(t, o, r)
      PROVE  DataInv'
  <2>1. PICK x : /\ tx' = [tx EXCEPT ![t] = x]
                 /\ x.view = tx[t].view /\ x.top = tx[t].top
    <3>1. tx[t] \in Tx
      BY DEF IInv, TypeOK
    <3> QED BY <1>3, <3>1 DEF Begin, Tx
  <2> QED BY <1>1, <1>3, <2>1 DEF Begin
<1>4. ASSUME NEW t \in Txns, LockDefinition(t)
      PROVE  DataInv'
  <2>1. PICK x : /\ tx' = [tx EXCEPT ![t] = x]
                 /\ x.view = defs[tx[t].row] /\ x.top = tx[t].top
    <3>1. tx[t] \in Tx
      BY DEF IInv, TypeOK
    <3> DEFINE x == [tx[t] EXCEPT !.pc = "locked", !.view = defs[tx[t].row]]
    <3>2. tx' = [tx EXCEPT ![t] = x]
      BY <1>4 DEF LockDefinition
    <3>3. x.view = defs[tx[t].row] /\ x.top = tx[t].top
      BY <3>1 DEF Tx
    <3> QED BY <3>2, <3>3
  <2>2. tx[t].row \in Rows
    BY <1>4 DEF LockDefinition, IInv, LockInv, OwnInv, Existing
  <2> QED BY <1>1, <1>4, <2>1, <2>2 DEF LockDefinition
<1>5. ASSUME NEW t \in Txns, NEW r \in Rows, LockPublished(t, r)
      PROVE  DataInv'
  <2>1. PICK x : /\ tx' = [tx EXCEPT ![t] = x]
                 /\ x.view = tx[t].view /\ x.top = tx[t].top
    <3>1. tx[t] \in Tx
      BY DEF IInv, TypeOK
    <3> DEFINE x == [tx[t] EXCEPT !.todo = @ \ {r},
                                  !.prev = IF r \in Published THEN @ \cup {r} ELSE @]
    <3>2. tx' = [tx EXCEPT ![t] = x]
      BY <1>5 DEF LockPublished
    <3>3. x.view = tx[t].view /\ x.top = tx[t].top
      BY <3>1 DEF Tx
    <3> QED BY <3>2, <3>3
  <2> QED BY <1>1, <1>5, <2>1 DEF LockPublished
<1>6. ASSUME NEW t \in Txns, ~ Rollback(t),
             \/ StartPublish(t) \/ StartNewVersion(t) \/ CheckNoDraft(t)
             \/ ReadMaxVersion(t) \/ CheckCodeFree(t)
      PROVE  DataInv'
  <2>1. UNCHANGED defs
    BY <1>6 DEF StartPublish, StartNewVersion, CheckNoDraft, ReadMaxVersion, CheckCodeFree
  <2>2. PICK x : /\ tx' = [tx EXCEPT ![t] = x] /\ x.view = tx[t].view
                 /\ x.top \in {tx[t].top} \cup {0} \cup Versions
    <3>1. tx[t] \in Tx
      BY DEF IInv, TypeOK
    <3>2. CASE ReadMaxVersion(t)
      <4>1. PICK top \in {0} \cup Versions :
               tx' = [tx EXCEPT ![t].pc = "insert", ![t].top = top]
        BY <3>2 DEF ReadMaxVersion
      <4> DEFINE x == [tx[t] EXCEPT !.pc = "insert", !.top = top]
      <4>2. tx' = [tx EXCEPT ![t] = x] /\ x.view = tx[t].view /\ x.top = top
        BY <3>1, <4>1 DEF Tx
      <4> QED BY <4>2
    <3>3. CASE ~ ReadMaxVersion(t)
      BY <1>6, <3>1, <3>3
         DEF StartPublish, StartNewVersion, CheckNoDraft, CheckCodeFree, Goto, Tx
    <3> QED BY <3>2, <3>3
  <2> QED BY <1>1, <2>1, <2>2
<1>7. ASSUME NEW t \in Txns, CloneVersion(t) \/ InsertFirst(t)
      PROVE  DataInv'
  <2>1. Cardinality(Existing) \in Nat
    BY FS_CardinalityType DEF DataInv
  <2>2. CASE CloneVersion(t)
    <3>1. tx[t].top + 1 \in 1..(Cardinality(Existing) + 1)
      BY <2>1 DEF DataInv
    <3>2. Loaded(t) \in Graph /\ Unambiguous(Loaded(t))
      BY DEF Loaded, IInv, TypeOK, Tx, Row, DataInv
    <3> QED BY <2>2, <3>1, <3>2, InsertKeepsData DEF CloneVersion
  <2>3. CASE InsertFirst(t)
    <3>1. PICK scope \in Scopes : InsertDraft(t, 1, EmptyGraph(scope))
      BY <2>3 DEF InsertFirst
    <3>2. 1 \in 1..(Cardinality(Existing) + 1)
      BY <2>1
    <3> QED BY <3>1, <3>2, EmptyGraphType, EmptyUnambiguous, InsertKeepsData
  <2> QED BY <1>7, <2>2, <2>3
<1>8. ASSUME NEW t \in Txns, Work(t) \/ Abort(t)
      PROVE  DataInv'
  <2>1. CASE Rollback(t)
    BY <2>1, RollbackKeepsData
  <2>2. CASE ~ Rollback(t)
    BY <1>6, <1>7, <1>8, <2>2, EditKeepsData, StatusStepKeepsData DEF Work, Abort
  <2> QED BY <2>1, <2>2
<1> QED BY <1>2, <1>3, <1>4, <1>5, <1>8 DEF Next, AcquireLock

LEMMA DataInvariance == Spec => []DataInv
BY InitDataInv, NextKeepsData, Invariance, PTL DEF Spec

\* The versions of a code are numbered without a gap or a duplicate, although
\* create_new_version computes the number from an unlocked SELECT max(): the
\* unique constraint refuses every number but the next one.
THEOREM NumberedWithoutGaps == Spec => []VersionsContiguous
<1>1. DataInv => VersionsContiguous
  BY DEF DataInv
<1> QED BY <1>1, DataInvariance, PTL

\* Every version that was ever published can be executed and its transitions
\* are told apart by their codes, whatever edits of the draft ran while it was
\* validated.
THEOREM PublishedRuns == Spec => []PublishedExecutable
<1>1. IInv /\ DataInv => PublishedExecutable
  <2> SUFFICES ASSUME IInv, DataInv, NEW r \in Published \cup Retired
               PROVE  Executable(defs[r].graph) /\ Unambiguous(defs[r].graph)
    BY DEF PublishedExecutable
  <2>1. /\ defs[r].graph \in Graph /\ Publishable(defs[r].graph)
        /\ Unambiguous(defs[r].graph)
    BY DEF IInv, TypeOK, PublishedInv, DataInv, Published, Retired, Row
  <2> QED BY <2>1, PublishableIsExecutable
<1> QED BY <1>1, Invariance, DataInvariance, PTL

-----------------------------------------------------------------------------
(* One request at a time that creates versions                             *)
(*                                                                         *)
(* Two requests in create_new_version can both see that there is no draft. *)
(* With one of them at a time there is one draft at most, so one publisher *)
(* at most, and its scan misses no published version.                      *)

OwnSerial(t) ==
    /\ tx[t].op = "new_version" => t \in Versioners /\ tx[t].row \in Existing
    /\ tx[t].pc \in {"drafts", "top"} => tx[t].op = "new_version"
    /\ tx[t].pc = "exists" => tx[t].op = "create"
    /\ tx[t].pc \in {"top", "insert"} /\ tx[t].op = "new_version" => Drafts = {}
    /\ tx[t].pc = "scan" => Published \subseteq tx[t].todo \cup tx[t].prev

SerialInv ==
    /\ \A t \in Txns : OwnSerial(t)
    /\ \A q, r \in Drafts : q = r
    /\ \A q, r \in Published : q = r
    /\ \A q, r \in Existing : defs[q].version = defs[r].version => q = r

LEMMA InitSerialInv == Init => SerialInv
BY DEF Init, SerialInv, OwnSerial, IdleTx, AbsentRow, Drafts, Published, Existing

\* A request is not disturbed by a step of another one that adds neither a
\* draft nor, while it scans, a published version.
LEMMA OthersSerial ==
    ASSUME SerialInv, NEW u \in Txns, tx'[u] = tx[u],
           Existing \subseteq Existing',
           tx[u].pc \in {"top", "insert"} /\ tx[u].op = "new_version" => Drafts' = {},
           tx[u].pc = "scan" => Published' \subseteq Published
    PROVE  OwnSerial(u)'
BY DEF SerialInv, OwnSerial

LEMMA FinishSerial ==
    ASSUME TypeOK, NEW t \in Txns, Finish(t)
    PROVE  OwnSerial(t)' /\ \A u \in Txns \ {t} : tx'[u] = tx[u]
<1>1. tx'[t] = IdleTx /\ \A u \in Txns \ {t} : tx'[u] = tx[u]
  BY DEF Finish, TypeOK
<1> QED BY <1>1 DEF OwnSerial, IdleTx

\* A request that goes on or ends without a write.
LEMMA QuietSerial ==
    ASSUME SerialInv, NEW t \in Txns, UNCHANGED defs, OwnSerial(t)',
           \A u \in Txns \ {t} : tx'[u] = tx[u]
    PROVE  SerialInv'
<1>1. /\ Existing' = Existing /\ Drafts' = Drafts /\ Published' = Published
  BY DEF Existing, Drafts, Published
<1>2. \A u \in Txns \ {t} : OwnSerial(u)'
  BY <1>1, OthersSerial DEF SerialInv, OwnSerial
<1>3. \A u \in Txns : OwnSerial(u)'
  BY <1>2
<1> QED BY <1>1, <1>3 DEF SerialInv

LEMMA RollbackSerial ==
    ASSUME IInv, SerialInv, NEW t \in Txns, Rollback(t)
    PROVE  SerialInv'
<1>1. OwnSerial(t)' /\ \A u \in Txns \ {t} : tx'[u] = tx[u]
  BY FinishSerial DEF Rollback, IInv
<1> QED BY <1>1, QuietSerial DEF Rollback

\* The steps of a request that write nothing.
LEMMA StepsSerial ==
    ASSUME IInv, SerialInv, NEW t \in Txns, ~ Rollback(t),
           \/ \E o \in Ops, r \in Rows : Begin(t, o, r)
           \/ LockDefinition(t) \/ \E r \in Rows : LockPublished(t, r)
           \/ StartPublish(t) \/ StartNewVersion(t) \/ CheckNoDraft(t)
           \/ ReadMaxVersion(t) \/ CheckCodeFree(t)
    PROVE  SerialInv' /\ UNCHANGED defs
<1>1. /\ tx[t] \in Tx /\ OwnInv(t) /\ OwnSerial(t)
      /\ UNCHANGED defs
  BY DEF Begin, LockDefinition, LockPublished, StartPublish, StartNewVersion, CheckNoDraft,
         ReadMaxVersion, CheckCodeFree, IInv, LockInv, TypeOK, SerialInv
<1>2. /\ Existing' = Existing /\ Drafts' = Drafts /\ Published' = Published
  BY <1>1 DEF Existing, Drafts, Published
<1>3. ASSUME NEW x, tx' = [tx EXCEPT ![t] = x],
             x.op = "new_version" => t \in Versioners /\ x.row \in Existing,
             x.pc \in {"drafts", "top"} => x.op = "new_version",
             x.pc = "exists" => x.op = "create",
             x.pc \in {"top", "insert"} /\ x.op = "new_version" => Drafts = {},
             x.pc = "scan" => Published \subseteq x.todo \cup x.prev
      PROVE  SerialInv'
  <2>1. tx'[t] = x /\ \A u \in Txns \ {t} : tx'[u] = tx[u]
    BY <1>3 DEF IInv, TypeOK
  <2>2. OwnSerial(t)'
    BY <1>2, <1>3, <2>1 DEF OwnSerial
  <2> QED BY <1>1, <2>1, <2>2, QuietSerial
<1>4. ASSUME NEW o \in Ops, NEW r \in Rows, Begin(t, o, r)
      PROVE  SerialInv'
  <2>1. CASE o = "create"
    <3> DEFINE x == [tx[t] EXCEPT !.pc = "exists", !.op = o]
    <3>1. tx' = [tx EXCEPT ![t] = x]
      BY <1>4, <2>1 DEF Begin
    <3>2. x.pc = "exists" /\ x.op = "create"
      BY <1>1, <2>1 DEF Tx
    <3> HIDE DEF x
    <3> QED BY <1>3, <3>1, <3>2
  <2>2. CASE o # "create"
    <3> DEFINE x == [tx[t] EXCEPT !.pc = "lock", !.op = o, !.row = r]
    <3>1. tx' = [tx EXCEPT ![t] = x]
      BY <1>4, <2>2 DEF Begin
    <3>2. x.pc = "lock" /\ x.op = o /\ x.row = r
      BY <1>1 DEF Tx
    <3>3. r \in Existing /\ (o = "new_version" => t \in Versioners)
      BY <1>4, <2>2 DEF Begin, Existing
    <3> HIDE DEF x
    <3> QED BY <1>3, <3>1, <3>2, <3>3
  <2> QED BY <2>1, <2>2
<1>5. CASE LockDefinition(t)
  <2> DEFINE x == [tx[t] EXCEPT !.pc = "locked", !.view = defs[tx[t].row]]
  <2>1. tx' = [tx EXCEPT ![t] = x]
    BY <1>5 DEF LockDefinition
  <2>2. x.pc = "locked" /\ x.op = tx[t].op /\ x.row = tx[t].row
    BY <1>1 DEF Tx
  <2> HIDE DEF x
  <2> QED BY <1>1, <1>3, <2>1, <2>2 DEF OwnSerial
<1>6. ASSUME NEW r \in Rows, LockPublished(t, r)
      PROVE  SerialInv'
  <2> DEFINE x == [tx[t] EXCEPT !.todo = @ \ {r},
                                !.prev = IF r \in Published THEN @ \cup {r} ELSE @]
  <2>1. tx' = [tx EXCEPT ![t] = x] /\ tx[t].pc = "scan"
    BY <1>6 DEF LockPublished
  <2>2. /\ x.pc = tx[t].pc /\ x.op = tx[t].op /\ x.row = tx[t].row
        /\ x.todo = tx[t].todo \ {r}
        /\ x.prev = IF r \in Published THEN tx[t].prev \cup {r} ELSE tx[t].prev
    BY <1>1 DEF Tx
  <2> HIDE DEF x
  <2>3. Published \subseteq x.todo \cup x.prev
    BY <1>1, <2>1, <2>2 DEF OwnSerial
  <2> QED BY <1>1, <1>3, <2>1, <2>2, <2>3 DEF OwnSerial
<1>7. CASE StartPublish(t)
  <2> DEFINE x == [tx[t] EXCEPT !.pc = "scan", !.todo = Published \ {tx[t].row},
                                !.prev = {}]
  <2>1. tx' = [tx EXCEPT ![t] = x] /\ RequireDraft(t) /\ tx[t].pc = "locked"
    BY <1>7 DEF StartPublish, Holds
  <2>2. /\ x.pc = "scan" /\ x.op = tx[t].op /\ x.row = tx[t].row
        /\ x.todo = Published \ {tx[t].row}
    BY <1>1 DEF Tx
  <2> HIDE DEF x
  <2>3. tx[t].row \notin Published
    BY <1>1, <2>1 DEF OwnInv, RequireDraft, Published
  <2> QED BY <1>1, <1>3, <2>1, <2>2, <2>3 DEF OwnSerial
<1>8. CASE StartNewVersion(t) \/ CheckNoDraft(t) \/ CheckCodeFree(t)
  <2>1. PICK s \in {"drafts", "top", "insert"} :
          /\ Goto(t, s)
          /\ s = "drafts" => tx[t].op = "new_version"
          /\ s = "top" => tx[t].pc = "drafts" /\ Drafts = {}
          /\ s = "insert" => tx[t].pc = "exists"
    BY <1>8 DEF StartNewVersion, CheckNoDraft, CheckCodeFree, Holds
  <2> DEFINE x == [tx[t] EXCEPT !.pc = s]
  <2>2. tx' = [tx EXCEPT ![t] = x]
    BY <2>1 DEF Goto
  <2>3. x.pc = s /\ x.op = tx[t].op /\ x.row = tx[t].row
    BY <1>1 DEF Tx
  <2> HIDE DEF x
  <2> QED BY <1>1, <1>3, <2>1, <2>2, <2>3 DEF OwnSerial
<1>9. CASE ReadMaxVersion(t)
  <2>1. PICK top : tx' = [tx EXCEPT ![t].pc = "insert", ![t].top = top] /\ tx[t].pc = "top"
    BY <1>9 DEF ReadMaxVersion
  <2> DEFINE x == [tx[t] EXCEPT !.pc = "insert", !.top = top]
  <2>2. tx' = [tx EXCEPT ![t] = x]
    BY <2>1
  <2>3. x.pc = "insert" /\ x.op = tx[t].op /\ x.row = tx[t].row
    BY <1>1 DEF Tx
  <2> HIDE DEF x
  <2> QED BY <1>1, <1>3, <2>1, <2>2, <2>3 DEF OwnSerial
<1> QED BY <1>1, <1>4, <1>5, <1>6, <1>7, <1>8, <1>9

\* The list of releases, with the rows it is made of.
ReleasedRead ==
    /\ \A v \in 1..Cardinality(Existing) :
          \E r \in Existing : defs[r].version = v /\ released[v] = defs[r].status
    /\ \A r \in Existing : /\ defs[r].version \in 1..Cardinality(Existing)
                           /\ released[defs[r].version] = defs[r].status
    /\ released \in Seq(Statuses) /\ Len(released) = Cardinality(Existing)

LEMMA ReleasedFacts == IInv /\ DataInv /\ SerialInv => ReleasedRead
<1> SUFFICES ASSUME IInv, DataInv, SerialInv PROVE ReleasedRead
  OBVIOUS
<1>1. PICK n \in Nat : n = Cardinality(Existing)
  BY FS_CardinalityType DEF DataInv
<1>2. \A r \in Existing : defs[r].version \in 1..n /\ defs[r].status \in Statuses
  BY <1>1 DEF DataInv, VersionsContiguous, IInv, TypeOK, Row, Existing
<1>3. ASSUME NEW r \in Existing PROVE RowOf(defs[r].version) = r
  <2>1. \A q \in Rows : defs[q].version = defs[r].version => q = r
    <3> SUFFICES ASSUME NEW q \in Rows, defs[q].version = defs[r].version PROVE q = r
      OBVIOUS
    <3>1. q \in Existing
      BY <1>2 DEF DataInv, VersionsContiguous
    <3> QED BY <3>1 DEF SerialInv
  <2>2. r \in Rows
    BY DEF Existing
  <2> QED BY <2>1, <2>2 DEF RowOf
<1>4. \A v \in 1..n : \E r \in Existing : defs[r].version = v
  BY <1>1 DEF DataInv, VersionsContiguous
<1>5. \A v \in 1..n : \E r \in Existing : defs[r].version = v /\ RowOf(v) = r
  BY <1>3, <1>4
<1>6. released = [v \in 1..n |-> defs[RowOf(v)].status]
  BY <1>1 DEF released
<1>7. released \in [1..n -> Statuses]
  BY <1>2, <1>5, <1>6
<1>8. released \in Seq(Statuses) /\ Len(released) = n
  BY <1>7, LenProperties
<1>9. \A v \in 1..n : \E r \in Existing : defs[r].version = v /\ released[v] = defs[r].status
  BY <1>5, <1>6
<1>10. \A r \in Existing : released[defs[r].version] = defs[r].status
  BY <1>2, <1>3, <1>6
<1> QED BY <1>1, <1>2, <1>8, <1>9, <1>10 DEF ReleasedRead

\* A step that only changes statuses changes the same entries of the list.
LEMMA ReleasedChange ==
    ASSUME ReleasedRead, ReleasedRead', Existing' = Existing,
           NEW f \in [Statuses -> Statuses],
           \A r \in Existing : /\ defs'[r].version = defs[r].version
                               /\ defs'[r].status = f[defs[r].status]
    PROVE  released' = [v \in DOMAIN released |-> f[released[v]]]
<1>1. PICK s \in Seq(Statuses) : s = released
  BY DEF ReleasedRead
<1>2. PICK z \in Seq(Statuses) : z = released'
  BY DEF ReleasedRead
<1>3. Len(s) = Cardinality(Existing) /\ Len(z) = Cardinality(Existing)
  BY <1>1, <1>2 DEF ReleasedRead
<1>4. \A v \in 1..Len(s) : \E r \in Existing : defs[r].version = v /\ s[v] = defs[r].status
  BY <1>1, <1>3 DEF ReleasedRead
<1>5. \A r \in Existing : z[defs'[r].version] = defs'[r].status
  BY <1>2 DEF ReleasedRead
<1>6. \A v \in 1..Len(s) : z[v] = f[s[v]]
  BY <1>4, <1>5
<1>7. DOMAIN s = 1..Len(s) /\ DOMAIN z = 1..Len(s) /\ z = [v \in DOMAIN z |-> z[v]]
  BY <1>3, LenProperties
<1>8. z = [v \in DOMAIN s |-> f[s[v]]]
  BY <1>6, <1>7
<1> QED BY <1>1, <1>2, <1>8

LEMMA ReleasedStays ==
    ASSUME ReleasedRead, ReleasedRead', IInv,
           \A r \in Rows : /\ defs'[r].version = defs[r].version
                           /\ defs'[r].status = defs[r].status
    PROVE  released' = released
<1> DEFINE f == [s \in Statuses |-> s]
<1>1. f \in [Statuses -> Statuses] /\ \A s \in Statuses : f[s] = s
  OBVIOUS
<1>2. \A r \in Existing : defs[r].status \in Statuses /\ r \in Rows
  BY DEF Existing, IInv, TypeOK, Row
<1>3. Existing' = Existing
  BY DEF Existing
<1> HIDE DEF f
<1>4. released' = [v \in DOMAIN released |-> f[released[v]]]
  BY <1>1, <1>2, <1>3, ReleasedChange
<1>5. DOMAIN released = 1..Len(released) /\ released \in [1..Len(released) -> Statuses]
  BY LenProperties DEF ReleasedRead
<1>6. released = [v \in DOMAIN released |-> released[v]]
  BY <1>5
<1> QED BY <1>1, <1>4, <1>5, <1>6

-----------------------------------------------------------------------------
(* The commits *)

\* An edit of a draft is not seen in the list.
LEMMA EditLeaves ==
    ASSUME IInv, NEW t \in Txns, EditDraft(t)
    PROVE  /\ Finish(t)
           /\ \A r \in Rows : /\ defs'[r].version = defs[r].version
                              /\ defs'[r].status = defs[r].status
<1>1. ASSUME NEW ok, NEW g, Save(t, ok, g)
      PROVE  /\ Finish(t)
             /\ \A r \in Rows : /\ defs'[r].version = defs[r].version
                                /\ defs'[r].status = defs[r].status
  <2>1. CASE Rollback(t)
    BY <2>1 DEF Rollback
  <2>2. CASE ~ Rollback(t)
    <3>1. Finish(t) /\ defs' = [defs EXCEPT ![tx[t].row].graph = g]
      BY <1>1, <2>2 DEF Save, Commit
    <3> QED BY <3>1 DEF IInv, TypeOK, Row
  <2> QED BY <2>1, <2>2
<1> QED
  BY <1>1 DEF EditDraft, UpdateDefinition, AddState, UpdateState, DeleteState,
              AddTransition, UpdateTransition, DeleteTransition

LEMMA EditSerial ==
    ASSUME IInv, SerialInv, NEW t \in Txns, EditDraft(t)
    PROVE  SerialInv'
<1>1. /\ OwnSerial(t)' /\ \A u \in Txns \ {t} : tx'[u] = tx[u]
  BY EditLeaves, FinishSerial DEF IInv
<1>2. /\ Existing' = Existing /\ Drafts' = Drafts /\ Published' = Published
  BY EditLeaves DEF Existing, Drafts, Published
<1>3. \A u \in Txns \ {t} : OwnSerial(u)'
  BY <1>1, <1>2, OthersSerial DEF SerialInv, OwnSerial
<1>4. \A q, r \in Existing : defs'[q].version = defs'[r].version => q = r
  BY EditLeaves DEF SerialInv, Existing
<1> QED BY <1>1, <1>2, <1>3, <1>4 DEF SerialInv

\* The statuses that occur in the list are those of the rows.
LEMMA StatusesShown ==
    ASSUME ReleasedRead, NEW s
    PROVE  (\E v \in DOMAIN released : released[v] = s) <=>
           (\E r \in Existing : defs[r].status = s)
<1>1. DOMAIN released = 1..Cardinality(Existing)
  BY LenProperties DEF ReleasedRead
<1> QED BY <1>1 DEF ReleasedRead

\* The version that is retired was the only one in force.
LEMMA RetireSerial ==
    ASSUME IInv, SerialInv, ReleasedRead, NEW t \in Txns, Retire(t), ~ Rollback(t)
    PROVE  SerialInv' /\ (ReleasedRead' => Releases!Retire)
<1>1. PICK d \in Rows : d = tx[t].row /\ d \in Published /\ d \in Existing
  BY DEF Retire, Holds, IInv, LockInv, OwnInv, Published, Existing
<1>2. /\ Finish(t)
      /\ \A r \in Rows : /\ defs'[r].version = defs[r].version
                         /\ defs'[r].status = IF r = d THEN "retired" ELSE defs[r].status
  <2>1. Finish(t) /\ defs' = [defs EXCEPT ![d].status = "retired"]
    BY <1>1 DEF Retire, Commit
  <2> QED BY <1>1, <2>1 DEF IInv, TypeOK, Row
<1>3. Existing' = Existing /\ Drafts' = Drafts /\ Published' = {}
  BY <1>1, <1>2 DEF Existing, Drafts, Published, SerialInv
<1>4. OwnSerial(t)' /\ \A u \in Txns \ {t} : tx'[u] = tx[u]
  BY <1>2, FinishSerial DEF IInv
<1>5. \A u \in Txns \ {t} : OwnSerial(u)'
  BY <1>3, <1>4, OthersSerial DEF SerialInv, OwnSerial
<1>6. \A q, r \in Existing : defs'[q].version = defs'[r].version => q = r
  BY <1>2 DEF SerialInv, Existing
<1>7. SerialInv'
  BY <1>3, <1>4, <1>5, <1>6 DEF SerialInv
<1>8. ASSUME ReleasedRead' PROVE Releases!Retire
  <2> DEFINE f == [s \in Statuses |-> CASE s = "draft" -> "draft" [] OTHER -> "retired"]
  <2>1. f \in [Statuses -> Statuses]
    BY DEF Statuses
  <2>2. \A r \in Existing : /\ defs'[r].version = defs[r].version
                            /\ defs'[r].status = f[defs[r].status]
    <3> SUFFICES ASSUME NEW r \in Existing PROVE defs'[r].status = f[defs[r].status]
      BY <1>2 DEF Existing
    <3>1. r \in Rows /\ defs[r].status \in Statuses
      BY DEF Existing, IInv, TypeOK, Row
    <3>2. defs[r].status = "published" => r = d
      BY <1>1, <3>1 DEF SerialInv, Published
    <3>3. defs[d].status = "published"
      BY <1>1 DEF Published
    <3> QED BY <1>2, <3>1, <3>2, <3>3 DEF Statuses
  <2>3. \A v \in DOMAIN released : released[v] \in Statuses
    BY LenProperties DEF ReleasedRead
  <2>4. \A v \in DOMAIN released :
           f[released[v]] = CASE released[v] = "draft" -> "draft" [] OTHER -> "retired"
    BY <2>3
  <2> HIDE DEF f
  <2>5. released' = [v \in DOMAIN released |-> f[released[v]]]
    BY <1>3, <1>8, <2>1, <2>2, ReleasedChange
  <2>6. \E v \in DOMAIN released : released[v] = "published"
    BY <1>1, StatusesShown DEF Published
  <2> QED BY <2>4, <2>5, <2>6 DEF Releases!Retire, Releases!InStatus
<1> QED BY <1>7, <1>8

\* The publisher holds the only draft and every published version: nothing
\* else is in force when it commits.
LEMMA PublishSerial ==
    ASSUME IInv, SerialInv, ReleasedRead, NEW t \in Txns, FinishPublish(t)
    PROVE  SerialInv' /\ (ReleasedRead' => Releases!Publish)
<1>1. PICK d \in Rows : /\ d = tx[t].row /\ d \in Drafts /\ d \in Existing /\ lock[d] = t
                        /\ tx[t].prev = Published
  <2>1. /\ tx[t].pc = "scan" /\ tx[t].todo = {} /\ OwnInv(t) /\ OwnSerial(t)
    BY DEF FinishPublish, IInv, LockInv, SerialInv
  <2>2. tx[t].row \in Existing /\ lock[tx[t].row] = t /\ defs[tx[t].row].status = "draft"
    BY <2>1 DEF OwnInv
  <2>3. tx[t].prev = Published
    BY <2>1 DEF OwnInv, OwnSerial
  <2> QED BY <2>2, <2>3 DEF Drafts, Existing
<1>2. /\ Finish(t)
      /\ \A r \in Rows : /\ defs'[r].version = defs[r].version
                         /\ defs'[r].status = IF r = d THEN "published"
                                              ELSE IF r \in Published THEN "retired"
                                              ELSE defs[r].status
  <2>1. /\ Finish(t)
        /\ defs' = [r \in Rows |->
                      IF r = d THEN [defs[r] EXCEPT !.status = "published"]
                      ELSE IF r \in Published THEN [defs[r] EXCEPT !.status = "retired"]
                      ELSE defs[r]]
    BY <1>1 DEF FinishPublish, Commit
  <2> QED BY <2>1 DEF IInv, TypeOK, Row
<1>3. Existing' = Existing /\ Drafts' = {} /\ Published' = {d}
  BY <1>1, <1>2 DEF Existing, Drafts, Published, SerialInv
<1>4. OwnSerial(t)' /\ \A u \in Txns \ {t} : tx'[u] = tx[u]
  BY <1>2, FinishSerial DEF IInv
<1>5. \A u \in Txns \ {t} : tx[u].pc # "scan"
  <2> SUFFICES ASSUME NEW u \in Txns \ {t}, tx[u].pc = "scan" PROVE FALSE
    OBVIOUS
  <2>1. tx[u].row \in Drafts /\ lock[tx[u].row] = u
    BY DEF IInv, LockInv, OwnInv, Drafts, Existing
  <2> QED BY <1>1, <2>1 DEF SerialInv
<1>6. \A u \in Txns \ {t} : OwnSerial(u)'
  BY <1>3, <1>4, <1>5, OthersSerial
<1>7. \A q, r \in Existing : defs'[q].version = defs'[r].version => q = r
  BY <1>2 DEF SerialInv, Existing
<1>8. SerialInv'
  BY <1>3, <1>4, <1>6, <1>7 DEF SerialInv
<1>9. ASSUME ReleasedRead' PROVE Releases!Publish
  <2> DEFINE f == [s \in Statuses |-> CASE s = "draft" -> "published" [] OTHER -> "retired"]
  <2>1. f \in [Statuses -> Statuses]
    BY DEF Statuses
  <2>2. \A r \in Existing : /\ defs'[r].version = defs[r].version
                            /\ defs'[r].status = f[defs[r].status]
    <3> SUFFICES ASSUME NEW r \in Existing PROVE defs'[r].status = f[defs[r].status]
      BY <1>2 DEF Existing
    <3>1. r \in Rows /\ defs[r].status \in Statuses
      BY DEF Existing, IInv, TypeOK, Row
    <3>2. defs[r].status = "draft" <=> r = d
      BY <1>1, <3>1 DEF SerialInv, Drafts
    <3>3. defs[r].status = "published" <=> r \in Published
      BY <3>1 DEF Published
    <3> QED BY <1>2, <3>1, <3>2, <3>3 DEF Statuses
  <2>3. \A v \in DOMAIN released : released[v] \in Statuses
    BY LenProperties DEF ReleasedRead
  <2>4. \A v \in DOMAIN released :
           f[released[v]] = CASE released[v] = "draft" -> "published" [] OTHER -> "retired"
    BY <2>3
  <2> HIDE DEF f
  <2>5. released' = [v \in DOMAIN released |-> f[released[v]]]
    BY <1>3, <1>9, <2>1, <2>2, ReleasedChange
  <2>6. \E v \in DOMAIN released : released[v] = "draft"
    BY <1>1, StatusesShown DEF Drafts
  <2> QED BY <2>4, <2>5, <2>6 DEF Releases!Publish, Releases!InStatus
<1> QED BY <1>8, <1>9

\* A new draft comes last, and it is the only draft.
LEMMA InsertSerial ==
    ASSUME \A t, u \in Versioners : t = u,
           IInv, DataInv, SerialInv, ReleasedRead,
           NEW t \in Txns, CloneVersion(t) \/ InsertFirst(t), ~ Rollback(t)
    PROVE  SerialInv' /\ (ReleasedRead' => Releases!Draft)
<1>1. PICK v, g, r :
        /\ r \in Rows \ Existing /\ Finish(t) /\ v \notin Versions
        /\ defs' = [defs EXCEPT ![r] = [status |-> "draft", version |-> v, graph |-> g]]
        /\ v = 1 \/ /\ tx[t].pc = "insert" /\ tx[t].op = "new_version"
  <2>1. CASE CloneVersion(t)
    BY <2>1 DEF CloneVersion, InsertDraft, Commit
  <2>2. CASE InsertFirst(t)
    <3>1. PICK scope \in Scopes : InsertDraft(t, 1, EmptyGraph(scope))
      BY <2>2 DEF InsertFirst
    <3> QED BY <3>1 DEF InsertDraft, Commit
  <2> QED BY <2>1, <2>2
<1>2. /\ defs'[r].status = "draft" /\ defs'[r].version = v
      /\ \A q \in Rows \ {r} : defs'[q] = defs[q]
  BY <1>1 DEF IInv, TypeOK
<1>3. PICK n \in Nat : n = Cardinality(Existing)
  BY FS_CardinalityType DEF DataInv
<1>4. v = 1 => Existing = {}
  <2> SUFFICES ASSUME v = 1, Existing # {} PROVE FALSE
    OBVIOUS
  <2>1. n # 0
    BY <1>3, FS_EmptySet DEF DataInv
  <2>2. 1 \in 1..n
    BY <2>1
  <2> QED BY <1>1, <1>3, <2>2 DEF DataInv, VersionsContiguous, Versions, Existing
<1>5. Drafts = {}
  <2>1. Drafts \subseteq Existing
    BY DEF Drafts, Existing
  <2> QED BY <1>1, <1>4, <2>1 DEF SerialInv, OwnSerial
<1>6. /\ Existing' = Existing \cup {r} /\ Drafts' = {r} /\ Published' = Published
      /\ Existing \subseteq Rows
  <2>1. r \notin Published /\ r \in Rows
    BY <1>1 DEF Published, Existing
  <2> QED BY <1>1, <1>2, <1>5, <2>1 DEF Existing, Drafts, Published
<1>7. OwnSerial(t)' /\ \A u \in Txns \ {t} : tx'[u] = tx[u]
  BY <1>1, FinishSerial DEF IInv
<1>8. \A u \in Txns \ {t} : ~ (tx[u].pc \in {"top", "insert"} /\ tx[u].op = "new_version")
  BY <1>1, <1>4 DEF SerialInv, OwnSerial
<1>9. \A u \in Txns \ {t} : OwnSerial(u)'
  BY <1>6, <1>7, <1>8, OthersSerial
<1>10. \A q, z \in Existing' : defs'[q].version = defs'[z].version => q = z
  <2>1. \A q \in Existing : defs'[q].version = defs[q].version /\ defs'[q].version # v
    BY <1>1, <1>2, <1>6 DEF Versions
  <2> QED BY <1>2, <1>6, <2>1 DEF SerialInv
<1>11. SerialInv'
  BY <1>6, <1>7, <1>9, <1>10 DEF SerialInv
<1>12. ASSUME ReleasedRead' PROVE Releases!Draft
  <2>1. PICK s \in Seq(Statuses) : s = released
    BY DEF ReleasedRead
  <2>2. PICK z \in Seq(Statuses) : z = released'
    BY <1>12 DEF ReleasedRead
  <2>3. Cardinality(Existing') = n + 1
    BY <1>1, <1>3, <1>6, FS_AddElement DEF DataInv
  <2>4. Len(s) = n /\ Len(z) = n + 1
    BY <1>3, <1>12, <2>1, <2>2, <2>3 DEF ReleasedRead
  <2>5. \A k \in 1..n + 1 : \E q \in Existing' : defs'[q].version = k /\ z[k] = defs'[q].status
    <3>1. \A k \in 1..Cardinality(Existing') :
             \E q \in Existing' : defs'[q].version = k /\ z[k] = defs'[q].status
      BY <1>12, <2>2 DEF ReleasedRead
    <3> QED BY <2>3, <3>1
  <2>6. \A k \in 1..n : \E q \in Existing : defs[q].version = k /\ s[k] = defs[q].status
    BY <1>3, <2>1 DEF ReleasedRead
  <2>7. \A q \in Existing : defs[q].version \in 1..n /\ defs'[q] = defs[q]
    BY <1>1, <1>2, <1>3, <1>6 DEF ReleasedRead
  <2>8. \A k \in 1..n : z[k] = s[k]
    BY <1>6, <1>10, <2>5, <2>6, <2>7
  <2>9. z[n + 1] = "draft"
    <3>1. PICK q \in Existing' : defs'[q].version = n + 1 /\ z[n + 1] = defs'[q].status
      BY <2>5
    <3>2. q = r
      BY <1>6, <2>7, <3>1
    <3> QED BY <1>2, <3>1, <3>2
  <2>10. /\ Append(s, "draft") \in Seq(Statuses) /\ Len(Append(s, "draft")) = n + 1
         /\ \A k \in 1..n : Append(s, "draft")[k] = s[k]
         /\ Append(s, "draft")[n + 1] = "draft"
    <3>1. "draft" \in Statuses
      BY DEF Statuses
    <3> QED BY <2>4, <3>1, AppendProperties
  <2>11. z = Append(s, "draft")
    <3>1. \A k \in 1..n + 1 : z[k] = Append(s, "draft")[k]
      BY <2>8, <2>9, <2>10
    <3> QED BY <2>4, <2>10, <3>1, SeqEqual
  <2>12. ~ \E k \in DOMAIN released : released[k] = "draft"
    <3>1. ~ \E q \in Existing : defs[q].status = "draft"
      BY <1>5, <1>6 DEF Drafts
    <3> QED BY <3>1, StatusesShown
  <2> QED BY <2>1, <2>2, <2>11, <2>12 DEF Releases!Draft, Releases!InStatus
<1> QED BY <1>11, <1>12

LEMMA NextSerial ==
    ASSUME \A t, u \in Versioners : t = u,
           IInv, DataInv, SerialInv, ReleasedRead, [Next]_vars
    PROVE  SerialInv' /\ (ReleasedRead' => [Releases!Next]_released)
<1>1. CASE UNCHANGED vars
  <2>1. SerialInv'
    BY <1>1 DEF vars, SerialInv, OwnSerial, Existing, Drafts, Published
  <2>2. ReleasedRead' => released' = released
    BY <1>1, ReleasedStays DEF vars
  <2> QED BY <2>1, <2>2
<1>2. ASSUME NEW t \in Txns, Rollback(t)
      PROVE  SerialInv' /\ (ReleasedRead' => [Releases!Next]_released)
  <2>1. ReleasedRead' => released' = released
    BY <1>2, ReleasedStays DEF Rollback
  <2> QED BY <1>2, <2>1, RollbackSerial
<1>3. ASSUME NEW t \in Txns, ~ Rollback(t),
             \/ \E o \in Ops, r \in Rows : Begin(t, o, r)
             \/ LockDefinition(t) \/ \E r \in Rows : LockPublished(t, r)
             \/ StartPublish(t) \/ StartNewVersion(t) \/ CheckNoDraft(t)
             \/ ReadMaxVersion(t) \/ CheckCodeFree(t)
      PROVE  SerialInv' /\ (ReleasedRead' => [Releases!Next]_released)
  <2>1. SerialInv' /\ UNCHANGED defs
    BY <1>3, StepsSerial
  <2>2. ReleasedRead' => released' = released
    BY <2>1, ReleasedStays
  <2> QED BY <2>1, <2>2
<1>4. ASSUME NEW t \in Txns, EditDraft(t)
      PROVE  SerialInv' /\ (ReleasedRead' => [Releases!Next]_released)
  <2>1. ReleasedRead' => released' = released
    BY <1>4, EditLeaves, ReleasedStays
  <2> QED BY <1>4, <2>1, EditSerial
<1>5. ASSUME NEW t \in Txns, ~ Rollback(t),
             Retire(t) \/ FinishPublish(t) \/ CloneVersion(t) \/ InsertFirst(t)
      PROVE  SerialInv' /\ (ReleasedRead' => [Releases!Next]_released)
  BY <1>5, RetireSerial, PublishSerial, InsertSerial DEF Releases!Next
<1> QED BY <1>1, <1>2, <1>3, <1>4, <1>5 DEF Next, AcquireLock, Work, Abort

\* While one request at a time calls create_new_version, every commit takes
\* effect like one atomic operation on the list of releases, or is invisible
\* there: publishing the draft takes the previous release out of force in the
\* same step, although publish_definition reads and locks row after row.
THEOREM ReleasesImplemented ==
    (\A t, u \in Versioners : t = u) /\ Spec => ImplementsReleases
<1> SUFFICES ASSUME \A t, u \in Versioners : t = u PROVE Spec => ImplementsReleases
  OBVIOUS
<1>1. Init => Releases!Init
  <2> SUFFICES ASSUME Init PROVE released = <<>>
    BY DEF Releases!Init
  <2>1. Existing = {}
    BY DEF Init, Existing, AbsentRow
  <2> QED BY <2>1, FS_EmptySet DEF released
<1>2. IInv /\ DataInv /\ SerialInv /\ ReleasedRead /\ [Next]_vars => SerialInv'
  BY NextSerial
<1>3. IInv /\ DataInv /\ SerialInv /\ ReleasedRead /\ ReleasedRead' /\ [Next]_vars
        => [Releases!Next]_released
  BY NextSerial
<1>4. Spec => []SerialInv
  BY <1>2, InitSerialInv, Invariance, DataInvariance, ReleasedFacts, PTL DEF Spec
<1> QED BY <1>1, <1>3, <1>4, Invariance, DataInvariance, ReleasedFacts, PTL
        DEF Spec, ImplementsReleases, Releases!Spec
=============================================================================
