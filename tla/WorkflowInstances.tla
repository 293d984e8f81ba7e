-------------------------- MODULE WorkflowInstances --------------------------
(***************************************************************************)
(* The execution of published workflow definitions                         *)
(* (core/workflow/service.py: start_instance, transition_instance,         *)
(* cancel_instance), while their versions are published and retired        *)
(* (module WorkflowDefinitions).  Each request is one READ COMMITTED       *)
(* transaction; an instance row is locked FOR UPDATE by every handler that *)
(* changes it.                                                             *)
(***************************************************************************)
EXTENDS WorkflowGraph, Sequences, Functions

CONSTANTS
    Defs,        \* the versions of one workflow code
    Content,     \* their graphs, frozen since they were published
    Refs,        \* (organization_id, resource_type, resource_id)
    Users,
    Executors,   \* the users with workflow.execute for the organization
    Txns,        \* concurrent requests
    MaxHistory,  \* bound: transitions of one instance
    None

Keys == [def : Defs, ref : Refs]   \* uq_workflow_instance_definition_resource

\* That a published graph is executable and unambiguous is what
\* WorkflowDefinitions shows.
ASSUME InstancesAssumption ==
    /\ Content \in [Defs -> Graph]
    /\ \A d \in Defs : Executable(Content[d]) /\ Unambiguous(Content[d])
    /\ Executors \subseteq Users
    /\ MaxHistory \in Nat
    /\ None \notin Txns \cup Users \cup Keys \cup Codes

VARIABLES
    status,  \* status of each definition version
    inst,    \* the workflow_instances rows and their histories
    lock,    \* the request that holds an instance row FOR UPDATE
    notes,   \* notifications: recipient and dedupe key
    audit,   \* audit events that cancel an instance, with their actors
    tx       \* where each request is, and its local variables

vars == <<status, inst, lock, notes, audit, tx>>

-----------------------------------------------------------------------------
(* Data *)

\* A workflow_transition_records row.
Record == [code : Codes, from : States, to : States, actor : Users]

Instance == [status  : {"active", "completed", "cancelled"},
             state   : States,
             starter : Users,
             history : Seq(Record)]

Absent == [status |-> "absent"]

Steps == {"idle", "read", "duplicate", "insert", "lock", "locked"}

Tx == [pc    : Steps,
       op    : {"none", "start", "transition", "cancel"},
       actor : Users \cup {None},
       key   : Keys \cup {None},
       code  : Codes \cup {None},
       view  : Instance \cup {Absent}]   \* the instance as the session loaded it

IdleTx == [pc |-> "idle", op |-> "none", actor |-> None, key |-> None,
           code |-> None, view |-> Absent]

TransitionNote(k, n) == [event |-> "transitioned", key |-> k, record |-> n]
CancelNote(k) == [event |-> "cancelled", key |-> k, record |-> 0]

TypeOK ==
    /\ status \in [Defs -> {"draft", "published", "retired"}]
    /\ inst \in [Keys -> Instance \cup {Absent}]
    /\ lock \in [Keys -> Txns \cup {None}]
    /\ notes \subseteq [to : Users, key : [event : {"transitioned", "cancelled"},
                                           key : Keys, record : Nat]]
    /\ audit \in [Keys -> Seq(Users)]
    /\ tx \in [Txns -> Tx]

Started == {k \in Keys : inst[k] # Absent}

InitialState(d) == CHOOSE s \in Content[d].states : Content[d].initial = {s}
IsTerminal(d, s) == s \in Content[d].terminal

-----------------------------------------------------------------------------
(* Versions: the commits of publish_definition and retire_definition *)

PublishVersion(d) ==
    /\ status[d] = "draft"
    /\ status' = [v \in Defs |-> IF v = d THEN "published"
                                 ELSE IF status[v] = "published" THEN "retired"
                                 ELSE status[v]]
    /\ UNCHANGED <<inst, lock, notes, audit, tx>>

RetireVersion(d) ==
    /\ status[d] = "published"
    /\ status' = [status EXCEPT ![d] = "retired"]
    /\ UNCHANGED <<inst, lock, notes, audit, tx>>

-----------------------------------------------------------------------------
(* Transactions *)

Finish(t) ==
    /\ tx' = [tx EXCEPT ![t] = IdleTx]
    /\ lock' = [k \in Keys |-> IF lock[k] = t THEN None ELSE lock[k]]

Rollback(t) == Finish(t) /\ UNCHANGED <<status, inst, notes, audit>>

Goto(t, step) ==
    /\ tx' = [tx EXCEPT ![t].pc = step]
    /\ UNCHANGED <<status, inst, lock, notes, audit>>

\* A client that goes away, a process that dies, or the deadlock detector.
Abort(t) == tx[t].pc # "idle" /\ Rollback(t)

\* A request arrives; it may repeat one whose answer was lost.
Begin(t, o, u, k, c) ==
    /\ tx[t].pc = "idle"
    /\ IF o = "start"
       THEN tx' = [tx EXCEPT ![t].pc = "read", ![t].op = o, ![t].actor = u, ![t].key = k]
       ELSE /\ k \in Started
            /\ tx' = [tx EXCEPT ![t].pc = "lock", ![t].op = o, ![t].actor = u,
                                ![t].key = k, ![t].code = c]
    /\ UNCHANGED <<status, inst, lock, notes, audit>>

-----------------------------------------------------------------------------
(* start_instance: the definition is read without a lock. *)

\* Mutant of ReadDefinition: the status of the definition is not looked at.
ReadDefinitionAnyStatus(t) ==
    /\ tx[t].pc = "read"
    /\ IF tx[t].actor \in Executors THEN Goto(t, "duplicate") ELSE Rollback(t)

ReadDefinition(t) ==
    /\ tx[t].pc = "read"
    /\ IF tx[t].actor \in Executors /\ status[tx[t].key.def] = "published"
       THEN Goto(t, "duplicate")
       ELSE Rollback(t)

CheckDuplicate(t) ==
    /\ tx[t].pc = "duplicate"
    /\ IF tx[t].key \in Started THEN Rollback(t) ELSE Goto(t, "insert")

\* Mutant of NewInstance: the list of initial states is stored, not the state.
NewInstanceStateList(d, u) ==
    [status |-> "active", state |-> Content[d].initial, starter |-> u, history |-> <<>>]

\* The INSERT, under the unique constraint on the key.
NewInstance(d, u) ==
    LET s == InitialState(d)
    IN  [status  |-> IF IsTerminal(d, s) THEN "completed" ELSE "active",
         state   |-> s,
         starter |-> u,
         history |-> <<>>]

InsertInstance(t) ==
    /\ tx[t].pc = "insert"
    /\ IF tx[t].key \in Started
       THEN Rollback(t)
       ELSE /\ inst' = [inst EXCEPT ![tx[t].key] =
                                        NewInstance(tx[t].key.def, tx[t].actor)]
            /\ Finish(t)
            /\ UNCHANGED <<status, notes, audit>>

-----------------------------------------------------------------------------
(* transition_instance and cancel_instance *)

\* Mutant of LockInstance: with_for_update is forgotten.
LockInstanceUnlocked(t) ==
    /\ tx[t].pc = "lock"
    /\ tx' = [tx EXCEPT ![t].pc = "locked", ![t].view = inst[tx[t].key]]
    /\ UNCHANGED <<status, inst, lock, notes, audit>>

LockInstance(t) ==
    /\ tx[t].pc = "lock"
    /\ lock[tx[t].key] = None
    /\ lock' = [lock EXCEPT ![tx[t].key] = t]
    /\ tx' = [tx EXCEPT ![t].pc = "locked", ![t].view = inst[tx[t].key]]
    /\ UNCHANGED <<status, inst, notes, audit>>

\* Mutant of Notify: the starter is told about their own doings too.
NotifyAlways(t, key) ==
    notes' = notes \cup {[to |-> tx[t].view.starter, key |-> key]}

\* create_notification, in the transaction of its caller: the starter hears of
\* what someone else did; a dedupe key is used once per recipient.
Notify(t, key) ==
    notes' = IF tx[t].actor = tx[t].view.starter
             THEN notes
             ELSE notes \cup {[to |-> tx[t].view.starter, key |-> key]}

\* The transitions of the definition that leave the loaded current state and
\* have the requested id.
Available(t) ==
    {tr \in Content[tx[t].key.def].trans :
        tr.code = tx[t].code /\ tr.from = tx[t].view.state}

\* Mutant of Transit: the status of the instance is not looked at.
TransitAnyStatus(t) ==
    /\ tx[t].pc = "locked"
    /\ tx[t].op = "transition"
    /\ IF /\ tx[t].actor \in Executors
          /\ Available(t) # {}
          /\ Len(tx[t].view.history) < MaxHistory
       THEN \E tr \in Available(t) :
              LET k == tx[t].key
                  record == [code |-> tr.code, from |-> tx[t].view.state,
                             to |-> tr.to, actor |-> tx[t].actor]
              IN  /\ inst' = [inst EXCEPT
                                ![k].state = tr.to,
                                ![k].history = Append(@, record),
                                ![k].status = IF IsTerminal(k.def, tr.to)
                                              THEN "completed" ELSE @]
                  /\ Notify(t, TransitionNote(k, Len(inst[k].history) + 1))
                  /\ Finish(t)
                  /\ UNCHANGED <<status, audit>>
       ELSE Rollback(t)

\* MaxHistory bounds the transitions of one instance.
Transit(t) ==
    /\ tx[t].pc = "locked"
    /\ tx[t].op = "transition"
    /\ IF /\ tx[t].actor \in Executors
          /\ tx[t].view.status = "active"
          /\ Available(t) # {}
          /\ Len(tx[t].view.history) < MaxHistory
       THEN \E tr \in Available(t) :
              LET k == tx[t].key
                  record == [code |-> tr.code, from |-> tx[t].view.state,
                             to |-> tr.to, actor |-> tx[t].actor]
              IN  /\ inst' = [inst EXCEPT
                                ![k].state = tr.to,
                                ![k].history = Append(@, record),
                                ![k].status = IF IsTerminal(k.def, tr.to)
                                              THEN "completed" ELSE @]
                  /\ Notify(t, TransitionNote(k, Len(inst[k].history) + 1))
                  /\ Finish(t)
                  /\ UNCHANGED <<status, audit>>
       ELSE Rollback(t)

\* Cancelling a cancelled instance changes nothing.
Cancel(t) ==
    /\ tx[t].pc = "locked"
    /\ tx[t].op = "cancel"
    /\ IF tx[t].actor \in Executors /\ tx[t].view.status = "active"
       THEN /\ inst' = [inst EXCEPT ![tx[t].key].status = "cancelled"]
            /\ audit' = [audit EXCEPT ![tx[t].key] = Append(@, tx[t].actor)]
            /\ Notify(t, CancelNote(tx[t].key))
            /\ Finish(t)
            /\ UNCHANGED status
       ELSE Rollback(t)

-----------------------------------------------------------------------------

Init ==
    /\ status = [d \in Defs |-> "draft"]
    /\ inst = [k \in Keys |-> Absent]
    /\ lock = [k \in Keys |-> None]
    /\ notes = {}
    /\ audit = [k \in Keys |-> <<>>]
    /\ tx = [t \in Txns |-> IdleTx]

Work(t) ==
    \/ ReadDefinition(t) \/ CheckDuplicate(t) \/ InsertInstance(t)
    \/ Transit(t) \/ Cancel(t)

Next ==
    \/ \E d \in Defs : PublishVersion(d) \/ RetireVersion(d)
    \/ \E t \in Txns :
          \/ \E u \in Users, k \in Keys :
                \/ \E o \in {"start", "cancel"} : Begin(t, o, u, k, None)
                \/ \E c \in Codes : Begin(t, "transition", u, k, c)
          \/ LockInstance(t)
          \/ Work(t)
          \/ Abort(t)

Spec == Init /\ [][Next]_vars

-----------------------------------------------------------------------------
(* Properties *)

\* Where the instance i of the key k was after n transitions.
Visited(k, i, n) == IF n = 0 THEN InitialState(k.def) ELSE i.history[n].to

IsWalk(k, i) ==
    /\ \A n \in 1..Len(i.history) :
          LET h == i.history[n]
          IN  /\ h.from = Visited(k, i, n - 1)
              /\ [code |-> h.code, from |-> h.from, to |-> h.to] \in Content[k.def].trans
    /\ i.state = Visited(k, i, Len(i.history))

\* The history of an instance is a walk through the graph of its definition,
\* from the initial state to the state the row says it is in: of two requests
\* that read the same state, at most one moves the instance.
HistoryIsWalk == \A k \in Started : IsWalk(k, inst[k])

\* The end of the instance i of the key k, which the users in cancels cancelled.
EndedOnce(k, i, cancels) ==
    /\ i.status = "completed" <=> IsTerminal(k.def, i.state)
    /\ i.status = "cancelled" <=> cancels # <<>>
    /\ Len(cancels) <= 1

\* An instance ends in one way: it is completed where its walk ends in a
\* terminal state and nowhere else, it is cancelled by one request and nowhere
\* else, and so never both, although transitions and cancellations race and
\* are repeated when their answers are lost (transition_instance, cancel_instance).
EndsOneWay == \A k \in Started : EndedOnce(k, inst[k], audit[k])

\* The starter of an instance has one notification for every transition or
\* cancellation by somebody else, and no other.
StarterIsNotified ==
    notes = UNION {
        {[to |-> inst[k].starter, key |-> TransitionNote(k, n)] :
            n \in {m \in 1..Len(inst[k].history) :
                      inst[k].history[m].actor # inst[k].starter}}
        \cup {[to |-> inst[k].starter, key |-> CancelNote(k)] :
            u \in Range(audit[k]) \ {inst[k].starter}} : k \in Started}

\* No instance belongs to a version that was never published.
StartedFromPublished == \A k \in Started : status[k.def] # "draft"

\* The promise to the user of an instance: see WorkflowCase.  The walk of a
\* case is what its history records tell.
Walk(k, i) == [n \in 1..(Len(i.history) + 1) |-> Visited(k, i, n - 1)]

caseWalk == [k \in Keys |-> IF k \in Started THEN Walk(k, inst[k]) ELSE <<>>]

caseOpen == [k \in Keys |-> k \in Started /\ inst[k].status = "active"]

Cases == INSTANCE WorkflowCase WITH walk <- caseWalk, open <- caseOpen

ImplementsCases == Cases!Spec
=============================================================================
