------------------------- MODULE WorkflowDefinitions -------------------------
(***************************************************************************)
(* The versions of one workflow code in one organization, as               *)
(* core/workflow/service.py keeps them: a draft is edited, published and   *)
(* later retired, and a published or retired version is cloned into a new  *)
(* draft.                                                                  *)
(*                                                                         *)
(* Every request is one database transaction under PostgreSQL's READ       *)
(* COMMITTED: each SELECT sees what is committed when it runs, a           *)
(* SELECT ... FOR UPDATE waits for the row lock and then sees the latest   *)
(* committed row, and locks are kept until COMMIT or ROLLBACK.  One        *)
(* statement that other requests can notice is one action.  Writes become  *)
(* visible at COMMIT, so the flush and the commit of a request are one     *)
(* action.                                                                 *)
(***************************************************************************)
EXTENDS Naturals, FiniteSets, WorkflowGraph

CONSTANTS
    Rows,        \* primary keys of workflow_definitions rows of this code
    Txns,        \* concurrent requests (one session each)
    Versioners,  \* the requests that may call create_new_version
    None         \* no lock holder, no row

ASSUME DefinitionsAssumption ==
    /\ None \notin Txns
    /\ None \notin Rows
    /\ Versioners \subseteq Txns

VARIABLES
    defs,  \* the committed workflow_definitions rows with their graphs
    lock,  \* the request that holds a row FOR UPDATE
    tx     \* where each request is, and its local variables

vars == <<defs, lock, tx>>

-----------------------------------------------------------------------------
(* Data *)

Statuses == {"draft", "published", "retired"}

Row == [status : Statuses \cup {"absent"}, version : Nat, graph : Graph]

AbsentRow == [status |-> "absent", version |-> 0, graph |-> NoGraph]

Ops == {"create", "edit", "publish", "retire", "new_version"}

Steps == {"idle", "lock", "locked", "scan", "exists", "drafts", "top", "insert"}

Tx == [pc   : Steps,
       op   : Ops \cup {"none"},
       row  : Rows \cup {None},   \* definition_id of the request
       view : Row,                \* that row as the session loaded it
       todo : SUBSET Rows,        \* published rows still to be locked
       prev : SUBSET Rows,        \* existing_published, locked
       top  : Nat]                \* max_version

IdleTx == [pc |-> "idle", op |-> "none", row |-> None, view |-> AbsentRow,
           todo |-> {}, prev |-> {}, top |-> 0]

Existing == {r \in Rows : defs[r].status # "absent"}
Drafts == {r \in Rows : defs[r].status = "draft"}
Published == {r \in Rows : defs[r].status = "published"}
Retired == {r \in Rows : defs[r].status = "retired"}

\* With ck_workflow_definition_version_positive.
TypeOK ==
    /\ defs \in [Rows -> Row]
    /\ lock \in [Rows -> Txns \cup {None}]
    /\ tx \in [Txns -> Tx]
    /\ \A r \in Existing : defs[r].version > 0

-----------------------------------------------------------------------------
(* Transactions *)

\* The end of a request: its locks are released and its session is closed.
Finish(t) ==
    /\ tx' = [tx EXCEPT ![t] = IdleTx]
    /\ lock' = [r \in Rows |-> IF lock[r] = t THEN None ELSE lock[r]]

\* Mutant of Rollback: the session stays open after an error.
RollbackKeepsLocks(t) ==
    tx' = [tx EXCEPT ![t] = IdleTx] /\ UNCHANGED <<defs, lock>>

Rollback(t) == Finish(t) /\ UNCHANGED defs

Commit(t, newDefs) == Finish(t) /\ defs' = newDefs

Goto(t, step) == tx' = [tx EXCEPT ![t].pc = step]

\* A request arrives.  create_definition takes no row lock; every other
\* handler starts with _get_definition(..., lock=True).
Begin(t, o, r) ==
    /\ tx[t].pc = "idle"
    /\ o = "new_version" => t \in Versioners
    /\ IF o = "create"
       THEN tx' = [tx EXCEPT ![t].pc = "exists", ![t].op = o]
       ELSE /\ defs[r].status # "absent"
            /\ tx' = [tx EXCEPT ![t].pc = "lock", ![t].op = o, ![t].row = r]
    /\ UNCHANGED <<defs, lock>>

\* Mutant of LockDefinition: with_for_update is forgotten.
LockDefinitionUnlocked(t) ==
    /\ tx[t].pc = "lock"
    /\ tx' = [tx EXCEPT ![t].pc = "locked", ![t].view = defs[tx[t].row]]
    /\ UNCHANGED <<defs, lock>>

\* SELECT ... FOR UPDATE of the definition and, while the lock is held, the
\* selectin loads of its states and transitions.
LockDefinition(t) ==
    /\ tx[t].pc = "lock"
    /\ lock[tx[t].row] = None
    /\ lock' = [lock EXCEPT ![tx[t].row] = t]
    /\ tx' = [tx EXCEPT ![t].pc = "locked", ![t].view = defs[tx[t].row]]
    /\ UNCHANGED defs

Holds(t, o) == tx[t].pc = "locked" /\ tx[t].op = o

\* A client that goes away, a process that dies, or the deadlock detector.
Abort(t) == tx[t].pc # "idle" /\ Rollback(t)

-----------------------------------------------------------------------------
(* Editing a draft.  The guards look at the loaded row (view); the writes  *)
(* are the INSERT, UPDATE or DELETE of single rows, applied to what is     *)
(* committed.                                                              *)

RequireDraft(t) == tx[t].view.status = "draft"

Loaded(t) == tx[t].view.graph
Stored(t) == defs[tx[t].row].graph

Save(t, ok, newGraph) ==
    IF RequireDraft(t) /\ ok
    THEN Commit(t, [defs EXCEPT ![tx[t].row].graph = newGraph])
    ELSE Rollback(t)

UpdateDefinition(t) ==
    /\ Holds(t, "edit")
    /\ \E scope \in Scopes :
          Save(t, TRUE, [Stored(t) EXCEPT !.scope = scope])

AddState(t) ==
    /\ Holds(t, "edit")
    /\ \E s \in States, isInitial, isTerminal \in BOOLEAN :
          Save(t, /\ s \notin Loaded(t).states
                  /\ isInitial => Loaded(t).initial = {},
               [Stored(t) EXCEPT
                  !.states = @ \cup {s},
                  !.initial = IF isInitial THEN @ \cup {s} ELSE @,
                  !.terminal = IF isTerminal THEN @ \cup {s} ELSE @])

UpdateState(t) ==
    /\ Holds(t, "edit")
    /\ \E s \in States, isInitial, isTerminal \in BOOLEAN :
          Save(t, /\ s \in Loaded(t).states
                  /\ isInitial => Loaded(t).initial \subseteq {s},
               [Stored(t) EXCEPT
                  !.initial = IF isInitial THEN @ \cup {s} ELSE @ \ {s},
                  !.terminal = IF isTerminal THEN @ \cup {s} ELSE @ \ {s}])

DeleteState(t) ==
    /\ Holds(t, "edit")
    /\ \E s \in States :
          Save(t, /\ s \in Loaded(t).states
                  /\ \A tr \in Loaded(t).trans : s \notin {tr.from, tr.to},
               [Stored(t) EXCEPT !.states = @ \ {s}, !.initial = @ \ {s},
                                 !.terminal = @ \ {s}])

\* The checks add_transition and update_transition share.
EdgeAllowed(g, tr) ==
    /\ tr.from \in g.states /\ tr.to \in g.states
    /\ tr.from # tr.to
    /\ tr.from \notin g.terminal

AddTransition(t) ==
    /\ Holds(t, "edit")
    /\ \E tr \in Transition :
          Save(t, /\ \A old \in Loaded(t).trans : old.code # tr.code
                  /\ EdgeAllowed(Loaded(t), tr),
               [Stored(t) EXCEPT !.trans = @ \cup {tr}])

UpdateTransition(t) ==
    /\ Holds(t, "edit")
    /\ \E tr \in Transition :
          Save(t, /\ \E old \in Loaded(t).trans : old.code = tr.code
                  /\ EdgeAllowed(Loaded(t), tr),
               [Stored(t) EXCEPT !.trans = {u \in @ : u.code # tr.code} \cup {tr}])

DeleteTransition(t) ==
    /\ Holds(t, "edit")
    /\ \E c \in Codes :
          Save(t, \E old \in Loaded(t).trans : old.code = c,
               [Stored(t) EXCEPT !.trans = {u \in @ : u.code # c}])

EditDraft(t) ==
    \/ UpdateDefinition(t)
    \/ AddState(t) \/ UpdateState(t) \/ DeleteState(t)
    \/ AddTransition(t) \/ UpdateTransition(t) \/ DeleteTransition(t)

-----------------------------------------------------------------------------
(* publish_definition *)

\* Mutant of StartPublish: a retired version can be published again.
StartPublishAnyStatus(t) ==
    /\ Holds(t, "publish")
    /\ IF Publishable(Loaded(t))
       THEN /\ tx' = [tx EXCEPT ![t].pc = "scan",
                                ![t].todo = Published \ {tx[t].row},
                                ![t].prev = {}]
            /\ UNCHANGED <<defs, lock>>
       ELSE Rollback(t)

\* The draft is validated; then the statement that selects the published
\* versions of the code takes its snapshot.
StartPublish(t) ==
    /\ Holds(t, "publish")
    /\ IF RequireDraft(t) /\ Publishable(Loaded(t))
       THEN /\ tx' = [tx EXCEPT ![t].pc = "scan",
                                ![t].todo = Published \ {tx[t].row},
                                ![t].prev = {}]
            /\ UNCHANGED <<defs, lock>>
       ELSE Rollback(t)

\* FOR UPDATE locks the selected rows one by one; a row that changed while
\* the statement waited is checked again and skipped when it is no longer
\* published.
LockPublished(t, r) ==
    /\ tx[t].pc = "scan"
    /\ r \in tx[t].todo
    /\ lock[r] = None
    /\ lock' = [lock EXCEPT ![r] = t]
    /\ tx' = [tx EXCEPT ![t].todo = @ \ {r},
                        ![t].prev = IF r \in Published THEN @ \cup {r} ELSE @]
    /\ UNCHANGED defs

FinishPublish(t) ==
    /\ tx[t].pc = "scan"
    /\ tx[t].todo = {}
    /\ Commit(t, [r \in Rows |->
                    IF r = tx[t].row THEN [defs[r] EXCEPT !.status = "published"]
                    ELSE IF r \in tx[t].prev THEN [defs[r] EXCEPT !.status = "retired"]
                    ELSE defs[r]])

-----------------------------------------------------------------------------
(* retire_definition: a draft is refused, a retired version is left alone. *)

\* Mutant of Retire: a draft is not refused.
RetireDraftToo(t) ==
    /\ Holds(t, "retire")
    /\ IF tx[t].view.status # "retired"
       THEN Commit(t, [defs EXCEPT ![tx[t].row].status = "retired"])
       ELSE Rollback(t)

Retire(t) ==
    /\ Holds(t, "retire")
    /\ IF tx[t].view.status = "published"
       THEN Commit(t, [defs EXCEPT ![tx[t].row].status = "retired"])
       ELSE Rollback(t)

-----------------------------------------------------------------------------
(* create_new_version: three statements after the lock on the source row,  *)
(* which no request on another version of the code waits for.              *)

StartNewVersion(t) ==
    /\ Holds(t, "new_version")
    /\ IF RequireDraft(t)
       THEN Rollback(t)
       ELSE Goto(t, "drafts") /\ UNCHANGED <<defs, lock>>

CheckNoDraft(t) ==
    /\ tx[t].pc = "drafts"
    /\ IF Drafts # {}
       THEN Rollback(t)
       ELSE Goto(t, "top") /\ UNCHANGED <<defs, lock>>

Versions == {defs[r].version : r \in Rows}

\* SELECT max(version), or 0
ReadMaxVersion(t) ==
    /\ tx[t].pc = "top"
    /\ \E top \in {0} \cup Versions :
          /\ \A v \in Versions : v <= top
          /\ tx' = [tx EXCEPT ![t].pc = "insert", ![t].top = top]
    /\ UNCHANGED <<defs, lock>>

\* Mutant of InsertDraft: the table lacks the unique constraint.
InsertDraftNotUnique(t, version, graph) ==
    IF Existing = Rows
    THEN Rollback(t)
    ELSE \E r \in Rows \ Existing :
            Commit(t, [defs EXCEPT ![r] = [status |-> "draft", version |-> version,
                                           graph |-> graph]])

\* The INSERT, under uq_workflow_definition_org_code_version.  Rows bounds
\* the number of versions: past it an insert is refused.
InsertDraft(t, version, graph) ==
    IF Existing = Rows \/ version \in Versions
    THEN Rollback(t)
    ELSE \E r \in Rows \ Existing :
            Commit(t, [defs EXCEPT ![r] = [status |-> "draft", version |-> version,
                                           graph |-> graph]])

CloneVersion(t) ==
    /\ tx[t].pc = "insert"
    /\ tx[t].op = "new_version"
    /\ InsertDraft(t, tx[t].top + 1, Loaded(t))

-----------------------------------------------------------------------------
(* create_definition *)

CheckCodeFree(t) ==
    /\ tx[t].pc = "exists"
    /\ IF Existing # {}
       THEN Rollback(t)
       ELSE Goto(t, "insert") /\ UNCHANGED <<defs, lock>>

InsertFirst(t) ==
    /\ tx[t].pc = "insert"
    /\ tx[t].op = "create"
    /\ \E scope \in Scopes : InsertDraft(t, 1, EmptyGraph(scope))

-----------------------------------------------------------------------------

Init ==
    /\ defs = [r \in Rows |-> AbsentRow]
    /\ lock = [r \in Rows |-> None]
    /\ tx = [t \in Txns |-> IdleTx]

\* What a request does once it holds what it waits for.
Work(t) ==
    \/ EditDraft(t)
    \/ StartPublish(t) \/ FinishPublish(t)
    \/ Retire(t)
    \/ StartNewVersion(t) \/ CheckNoDraft(t) \/ ReadMaxVersion(t) \/ CloneVersion(t)
    \/ CheckCodeFree(t) \/ InsertFirst(t)

AcquireLock(t) == LockDefinition(t) \/ \E r \in Rows : LockPublished(t, r)

Next ==
    \E t \in Txns :
        \/ \E o \in Ops, r \in Rows : Begin(t, o, r)
        \/ AcquireLock(t)
        \/ Work(t)
        \/ Abort(t)

Spec == Init /\ [][Next]_vars

\* A worker thread runs its handler to the end, and PostgreSQL grants a row
\* lock to its waiters in the order they queue.
FairSpec == Spec /\ \A t \in Txns : WF_vars(Work(t)) /\ SF_vars(AcquireLock(t))

-----------------------------------------------------------------------------
(* Properties *)

\* A version that was published can be executed, and the code of a transition
\* says which edge it takes, whatever edits of the draft were in flight while
\* publish_definition validated it.
PublishedExecutable ==
    \A r \in Published \cup Retired :
        Executable(defs[r].graph) /\ Unambiguous(defs[r].graph)

\* A version that has left the draft status never changes again, except for
\* the one step from published to retired; no row ever disappears.
FrozenStep ==
    \A r \in Existing :
        \/ /\ defs[r].status = "draft"
           /\ defs'[r].status \in {"draft", "published"}
           /\ defs'[r].version = defs[r].version
        \/ /\ defs[r].status \in {"published", "retired"}
           /\ defs'[r].status \in {defs[r].status, "retired"}
           /\ defs'[r].version = defs[r].version
           /\ defs'[r].graph = defs[r].graph

Frozen == [][FrozenStep]_vars

\* The versions of a code are numbered 1, 2, 3, ... without a gap or a
\* duplicate, although the number is computed from an unlocked SELECT max().
VersionsContiguous ==
    /\ {defs[r].version : r \in Existing} = 1..Cardinality(Existing)
    /\ \A r \in Rows \ Existing : defs[r].version = 0

\* Publishing a version retires the published version it replaces.
OnePublished == Cardinality(Published) <= 1

\* Every request ends, with its locks released: no request waits for ever on
\* a row another one holds.
RequestsEnd == \A t \in Txns : tx[t].pc # "idle" ~> tx[t].pc = "idle"

\* The promise to the users of a code: see WorkflowReleases.  A version is
\* known there by its number only.
RowOf(v) == CHOOSE r \in Rows : defs[r].version = v

released == [v \in 1..Cardinality(Existing) |-> defs[RowOf(v)].status]

Releases == INSTANCE WorkflowReleases WITH releases <- released

\* Each commit takes effect like one atomic operation on the list of releases.
ImplementsReleases == Releases!Spec
=============================================================================
