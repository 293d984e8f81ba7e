----------------------- MODULE WorkflowInstancesProofs -----------------------
(***************************************************************************)
(* Proofs about WorkflowInstances, for any versions, users, requests and   *)
(* lengths of histories, and about the loop of PublishCheck, for any       *)
(* finite graph.                                                           *)
(*                                                                         *)
(* The argument for the instances: a request that is about to write holds  *)
(* the lock of its row and has loaded what is committed, so each write     *)
(* appends one edge that leaves the committed state, and the notification  *)
(* that goes with it.  Rows are inserted under the unique constraint, for  *)
(* versions that were seen published; a version never is a draft again.    *)
(***************************************************************************)
EXTENDS WorkflowInstances, PublishCheck, FiniteSetTheorems, SequenceTheorems, TLAPS

-----------------------------------------------------------------------------
(* The inductive invariant *)

\* What a request knows at each of its steps.
TxInv(t) ==
    /\ tx[t].pc # "idle" => tx[t].key \in Keys /\ tx[t].actor \in Users
    /\ tx[t].pc \in {"duplicate", "insert"} => status[tx[t].key.def] # "draft"
    /\ tx[t].pc \in {"lock", "locked"} => tx[t].key \in Started
    /\ tx[t].pc = "locked" =>
          lock[tx[t].key] = t /\ tx[t].view = inst[tx[t].key]

\* What the instance i of the key k owes its starter for a transition.
OwedMove(k, i, note) ==
    \E n \in 1..Len(i.history) :
        /\ i.history[n].actor # i.starter
        /\ note = [to |-> i.starter, key |-> TransitionNote(k, n)]

\* What the instance of the key k owes its starter.
Owed(k, note) ==
    \/ OwedMove(k, inst[k], note)
    \/ \E u \in Range(audit[k]) :
          /\ u # inst[k].starter
          /\ note = [to |-> inst[k].starter, key |-> CancelNote(k)]

NotesInv ==
    /\ \A note : note \in notes <=> \E k \in Started : Owed(k, note)
    /\ \A k \in Keys \ Started : audit[k] = <<>>

IInv ==
    /\ TypeOK
    /\ \A t \in Txns : TxInv(t)
    /\ HistoryIsWalk
    /\ EndsOneWay
    /\ NotesInv
    /\ StartedFromPublished

LEMMA IdleType == IdleTx \in Tx /\ Absent \notin Instance
BY DEF IdleTx, Tx, Steps, Absent, Instance

\* What the assumption says about a version.
LEMMA ContentType ==
    ASSUME NEW d \in Defs
    PROVE  /\ InitialState(d) \in States
           /\ Content[d].initial = {InitialState(d)}
           /\ Content[d].trans \subseteq Transition
<1>1. Content[d] \in Graph /\ \E s \in Content[d].states : Content[d].initial = {s}
  BY InstancesAssumption DEF Executable
<1>2. /\ InitialState(d) \in Content[d].states
      /\ Content[d].initial = {InitialState(d)}
  BY <1>1 DEF InitialState
<1> QED BY <1>1, <1>2 DEF Graph

LEMMA InitIInv == Init => IInv
<1> SUFFICES ASSUME Init PROVE IInv
  OBVIOUS
<1>1. TypeOK
  BY IdleType DEF Init, TypeOK
<1>2. \A t \in Txns : TxInv(t)
  BY DEF Init, TxInv, IdleTx
<1>3. Started = {}
  BY DEF Init, Started
<1>4. NotesInv
  BY <1>3 DEF Init, NotesInv
<1> QED BY <1>1, <1>2, <1>3, <1>4 DEF IInv, HistoryIsWalk, EndsOneWay, StartedFromPublished

-----------------------------------------------------------------------------
(* Steps that change no instance *)

\* A step of t that writes no row, keeps the locks of the others and leaves t
\* knowing what it should.
QuietStep(t) ==
    /\ UNCHANGED <<inst, notes, audit>>
    /\ status' \in [Defs -> {"draft", "published", "retired"}]
    /\ \A d \in Defs : status[d] # "draft" => status'[d] # "draft"
    /\ tx' \in [Txns -> Tx] /\ lock' \in [Keys -> Txns \cup {None}]
    /\ \A u \in Txns \ {t} :
          tx'[u] = tx[u] /\ \A k \in Keys : lock[k] = u => lock'[k] = u
    /\ t \in Txns => TxInv(t)'

LEMMA QuietKeeps ==
    ASSUME IInv, NEW t, QuietStep(t)
    PROVE  IInv'
<1>1. TypeOK'
  BY DEF QuietStep, IInv, TypeOK
<1>2. Started' = Started
  BY DEF QuietStep, Started
<1>3. \A u \in Txns : TxInv(u)'
  <2> SUFFICES ASSUME NEW u \in Txns \ {t} PROVE TxInv(u)'
    BY DEF QuietStep
  <2>1. /\ tx'[u] = tx[u] /\ TxInv(u)
        /\ \A k \in Keys : lock[k] = u => lock'[k] = u
        /\ \A d \in Defs : status[d] # "draft" => status'[d] # "draft"
        /\ inst' = inst
    BY DEF QuietStep, IInv
  <2>2. tx[u].key \in Keys => tx[u].key.def \in Defs
    BY DEF Keys
  <2> QED BY <1>2, <2>1, <2>2 DEF TxInv
<1>4. HistoryIsWalk' /\ EndsOneWay' /\ NotesInv'
  <2>1. UNCHANGED <<inst, notes, audit>> /\ HistoryIsWalk /\ EndsOneWay /\ NotesInv
    BY DEF QuietStep, IInv
  <2>2. HistoryIsWalk'
    BY <1>2, <2>1 DEF HistoryIsWalk, IsWalk, Visited
  <2>3. \A k, note : Owed(k, note)' <=> Owed(k, note)
    BY <2>1 DEF Owed, OwedMove
  <2>4. NotesInv'
    BY <1>2, <2>1, <2>3 DEF NotesInv
  <2>5. EndsOneWay'
    BY <1>2, <2>1 DEF EndsOneWay, EndedOnce
  <2> QED BY <2>2, <2>4, <2>5
<1>5. StartedFromPublished'
  <2>1. \A k \in Started : k.def \in Defs
    BY DEF Started, Keys
  <2> QED BY <1>2, <2>1 DEF QuietStep, IInv, StartedFromPublished
<1> QED BY <1>1, <1>3, <1>4, <1>5 DEF IInv

\* After its end a request knows nothing and holds nothing.
LEMMA FinishType ==
    ASSUME IInv, NEW t \in Txns, Finish(t)
    PROVE  /\ tx' \in [Txns -> Tx] /\ lock' \in [Keys -> Txns \cup {None}]
           /\ tx'[t] = IdleTx
           /\ \A u \in Txns \ {t} :
                 tx'[u] = tx[u] /\ \A k \in Keys : lock[k] = u => lock'[k] = u
BY IdleType DEF Finish, IInv, TypeOK

LEMMA RollbackKeeps ==
    ASSUME IInv, NEW t \in Txns, Rollback(t)
    PROVE  IInv'
<1>1. tx'[t] = IdleTx
  BY FinishType DEF Rollback
<1>2. TxInv(t)'
  BY <1>1 DEF TxInv, IdleTx
<1>3. QuietStep(t)
  BY <1>2, FinishType DEF Rollback, QuietStep, IInv, TypeOK
<1> QED BY <1>3, QuietKeeps

\* A step of t that changes nothing but what t is about to do.
LEMMA LocalKeeps ==
    ASSUME IInv, NEW t \in Txns, NEW x \in Tx, tx' = [tx EXCEPT ![t] = x],
           UNCHANGED <<status, inst, lock, notes, audit>>,
           TxInv(t)'
    PROVE  IInv'
<1>1. QuietStep(t)
  BY DEF QuietStep, IInv, TypeOK
<1> QED BY <1>1, QuietKeeps

LEMMA BeginKeeps ==
    ASSUME IInv, NEW t \in Txns, NEW o \in {"start", "cancel", "transition"},
           NEW u \in Users, NEW k \in Keys, NEW c \in Codes \cup {None},
           Begin(t, o, u, k, c)
    PROVE  IInv'
<1>1. tx[t] \in Tx /\ tx[t].pc = "idle" /\ UNCHANGED <<status, inst, lock, notes, audit>>
  BY DEF Begin, IInv, TypeOK
<1>2. CASE o = "start"
  <2> DEFINE x == [tx[t] EXCEPT !.pc = "read", !.op = o, !.actor = u, !.key = k]
  <2>1. tx' = [tx EXCEPT ![t] = x]
    BY <1>2 DEF Begin, IInv, TypeOK
  <2>2. x \in Tx /\ x.pc = "read" /\ x.key = k /\ x.actor = u
    BY <1>1, <1>2 DEF Tx, Steps
  <2> HIDE DEF x
  <2>3. TxInv(t)'
    BY <2>1, <2>2 DEF TxInv, IInv, TypeOK
  <2> QED BY <1>1, <2>1, <2>2, <2>3, LocalKeeps
<1>3. CASE o # "start"
  <2> DEFINE x == [tx[t] EXCEPT !.pc = "lock", !.op = o, !.actor = u, !.key = k, !.code = c]
  <2>1. tx' = [tx EXCEPT ![t] = x] /\ k \in Started
    BY <1>3 DEF Begin, IInv, TypeOK
  <2>2. x \in Tx /\ x.pc = "lock" /\ x.key = k /\ x.actor = u
    BY <1>1, <1>3 DEF Tx, Steps
  <2> HIDE DEF x
  <2>3. TxInv(t)'
    BY <1>1, <2>1, <2>2 DEF TxInv, IInv, TypeOK, Started
  <2> QED BY <1>1, <2>1, <2>2, <2>3, LocalKeeps
<1> QED BY <1>2, <1>3

LEMMA GotoKeeps ==
    ASSUME IInv, NEW t \in Txns, tx[t].pc # "idle", NEW step \in {"duplicate", "insert"},
           status[tx[t].key.def] # "draft", Goto(t, step)
    PROVE  IInv'
<1> DEFINE x == [tx[t] EXCEPT !.pc = step]
<1>1. tx[t] \in Tx /\ tx' = [tx EXCEPT ![t] = x] /\ UNCHANGED <<status, inst, lock, notes, audit>>
  BY DEF Goto, IInv, TypeOK
<1>2. x \in Tx /\ x.pc = step /\ x.key = tx[t].key /\ x.actor = tx[t].actor
  BY <1>1 DEF Tx, Steps
<1> HIDE DEF x
<1>3. TxInv(t)'
  BY <1>1, <1>2 DEF TxInv, IInv, TypeOK
<1> QED BY <1>1, <1>2, <1>3, LocalKeeps

LEMMA ReadsKeep ==
    ASSUME IInv, NEW t \in Txns, ReadDefinition(t) \/ CheckDuplicate(t)
    PROVE  IInv'
<1>1. CASE Rollback(t)
  BY <1>1, RollbackKeeps
<1>2. CASE ReadDefinition(t) /\ ~ Rollback(t)
  <2>1. Goto(t, "duplicate") /\ status[tx[t].key.def] = "published" /\ tx[t].pc = "read"
    BY <1>2 DEF ReadDefinition
  <2> QED BY <2>1, GotoKeeps
<1>3. CASE CheckDuplicate(t) /\ ~ Rollback(t)
  <2>1. Goto(t, "insert") /\ tx[t].pc = "duplicate"
    BY <1>3 DEF CheckDuplicate
  <2>2. status[tx[t].key.def] # "draft"
    BY <2>1 DEF IInv, TxInv
  <2> QED BY <2>1, <2>2, GotoKeeps
<1> QED BY <1>1, <1>2, <1>3

LEMMA LockKeeps ==
    ASSUME IInv, NEW t \in Txns, LockInstance(t)
    PROVE  IInv'
<1> DEFINE k == tx[t].key
           x == [tx[t] EXCEPT !.pc = "locked", !.view = inst[k]]
<1>1. tx[t] \in Tx /\ k \in Started /\ k \in Keys /\ inst[k] \in Instance /\ tx[t].actor \in Users
  BY DEF LockInstance, IInv, TypeOK, TxInv, Started
<1>2. /\ tx' = [tx EXCEPT ![t] = x] /\ lock' = [lock EXCEPT ![k] = t]
      /\ lock[k] = None
      /\ UNCHANGED <<status, inst, notes, audit>>
  BY DEF LockInstance, IInv, TypeOK
<1>3. /\ x \in Tx /\ x.pc = "locked" /\ x.key = k /\ x.actor = tx[t].actor
      /\ x.view = inst[k]
  BY <1>1 DEF Tx, Steps
<1> HIDE DEF x, k
<1>4. TxInv(t)'
  <2>1. tx'[t] = x /\ lock'[k] = t /\ k \in Started'
    BY <1>1, <1>2 DEF IInv, TypeOK, Started
  <2> QED BY <1>1, <1>2, <1>3, <2>1 DEF TxInv
<1>5. QuietStep(t)
  <2>1. \A u \in Txns \ {t}, q \in Keys : lock[q] = u => lock'[q] = u
    BY <1>1, <1>2, InstancesAssumption DEF IInv, TypeOK
  <2> QED BY <1>1, <1>2, <1>3, <1>4, <2>1 DEF QuietStep, IInv, TypeOK
<1> QED BY <1>5, QuietKeeps

\* Versions are published and retired; none becomes a draft.
LEMMA VersionsKeep ==
    ASSUME IInv, NEW d \in Defs, PublishVersion(d) \/ RetireVersion(d)
    PROVE  IInv'
<1>1. /\ status' \in [Defs -> {"draft", "published", "retired"}]
      /\ \A e \in Defs : status[e] # "draft" => status'[e] # "draft"
  BY DEF PublishVersion, RetireVersion, IInv, TypeOK
<1>2. UNCHANGED <<inst, lock, notes, audit, tx>>
  BY DEF PublishVersion, RetireVersion
<1>3. QuietStep(None)
  BY <1>1, <1>2, InstancesAssumption DEF QuietStep, IInv, TypeOK
<1> QED BY <1>3, QuietKeeps

-----------------------------------------------------------------------------
(* Steps that write a row *)

\* A start inserts a row with no history under a key that had none.
LEMMA InsertKeeps ==
    ASSUME IInv, NEW t \in Txns, InsertInstance(t)
    PROVE  IInv'
<1> PICK k : k = tx[t].key
  OBVIOUS
<1> PICK i : i = NewInstance(k.def, tx[t].actor)
  OBVIOUS
<1>1. CASE k \in Started
  BY <1>1, RollbackKeeps DEF InsertInstance
<1>2. CASE k \notin Started
  <2>1. /\ k \in Keys /\ k.def \in Defs /\ tx[t].actor \in Users
        /\ status[k.def] # "draft"
    BY DEF InsertInstance, IInv, TxInv, Keys
  <2>2. /\ inst' = [inst EXCEPT ![k] = i]
        /\ Finish(t) /\ UNCHANGED <<status, notes, audit>>
        /\ inst[k] = Absent
    BY <1>2, <2>1 DEF InsertInstance, Started
  <2>3. /\ i \in Instance /\ i.state = InitialState(k.def) /\ i.history = <<>>
        /\ i # Absent
    <3>1. /\ i.state = InitialState(k.def) /\ i.history = <<>>
          /\ i \in [status : {"active", "completed", "cancelled"}, state : States,
                    starter : Users, history : {<<>>}]
      BY <2>1, ContentType DEF NewInstance
    <3>2. <<>> \in Seq(Record)
      BY EmptySeq
    <3> QED BY <3>1, <3>2, IdleType DEF Instance
  <2>4. TypeOK'
    BY <2>1, <2>2, <2>3, FinishType DEF IInv, TypeOK
  <2>5. inst'[k] = i /\ \A q \in Keys \ {k} : inst'[q] = inst[q]
    BY <2>1, <2>2 DEF IInv, TypeOK
  <2>6. Started' = Started \cup {k}
    BY <2>1, <2>3, <2>5 DEF Started
  <2>7. \A u \in Txns : TxInv(u)'
    <3>1. TxInv(t)'
      BY <2>2, FinishType DEF TxInv, IdleTx
    <3>2. ASSUME NEW u \in Txns \ {t} PROVE TxInv(u)'
      <4>1. /\ tx'[u] = tx[u] /\ TxInv(u) /\ status' = status
            /\ \A q \in Keys : lock[q] = u => lock'[q] = u
        BY <2>2, FinishType DEF IInv
      <4>2. tx[u].pc = "locked" => tx[u].key \in Keys \ {k}
        BY <1>2, <4>1 DEF TxInv
      <4> QED BY <2>5, <2>6, <4>1, <4>2 DEF TxInv
    <3> QED BY <3>1, <3>2
  <2>8. HistoryIsWalk'
    <3>1. IsWalk(k, i)
      BY <2>3 DEF IsWalk, Visited
    <3>2. \A q \in Started : q \in Keys \ {k} /\ IsWalk(q, inst[q])
      BY <1>2 DEF IInv, HistoryIsWalk, Started
    <3> QED BY <2>5, <2>6, <3>1, <3>2 DEF HistoryIsWalk
  <2>9. NotesInv'
    <3>1. audit[k] = <<>> /\ Len(i.history) = 0
      BY <1>2, <2>1, <2>3 DEF IInv, NotesInv
    <3>2. \A note : ~ Owed(k, note)'
      BY <2>2, <2>5, <3>1 DEF Owed, OwedMove, Range
    <3>3. \A q \in Started : \A note : Owed(q, note)' <=> Owed(q, note)
      <4>1. \A q \in Started : inst'[q] = inst[q] /\ audit' = audit
        BY <1>2, <2>2, <2>5 DEF Started
      <4> QED BY <4>1 DEF Owed, OwedMove
    <3> QED BY <2>2, <2>6, <3>2, <3>3 DEF IInv, NotesInv
  <2>10. StartedFromPublished'
    BY <2>1, <2>2, <2>6 DEF IInv, StartedFromPublished
  <2>11. EndsOneWay'
    <3>1. audit'[k] = <<>>
      BY <1>2, <2>1, <2>2 DEF IInv, NotesInv
    <3>2. i.status = IF IsTerminal(k.def, i.state) THEN "completed" ELSE "active"
      BY <2>3 DEF NewInstance
    <3>3. EndedOnce(k, i, audit'[k])
      BY <3>1, <3>2 DEF EndedOnce
    <3>4. \A q \in Started : inst'[q] = inst[q] /\ EndedOnce(q, inst[q], audit[q])
      BY <1>2, <2>5 DEF IInv, EndsOneWay, Started
    <3> QED BY <2>2, <2>5, <2>6, <3>3, <3>4 DEF EndsOneWay
  <2> QED BY <2>4, <2>7, <2>8, <2>9, <2>10, <2>11 DEF IInv
<1> QED BY <1>1, <1>2

\* A write of the request t, which holds the lock of the row k: what is left
\* to show of it is about that row alone.
LEMMA WriteKeeps ==
    ASSUME IInv, NEW t \in Txns, tx[t].pc = "locked", Finish(t), UNCHANGED status,
           NEW k, k = tx[t].key,
           NEW j \in Instance, inst' = [inst EXCEPT ![k] = j], IsWalk(k, j),
           NEW a \in Seq(Users), audit' = [audit EXCEPT ![k] = a], EndedOnce(k, j, a),
           NEW N \in SUBSET [to : Users, key : [event : {"transitioned", "cancelled"},
                                                 key : Keys, record : Nat]],
           notes' = notes \cup N,
           \A note : Owed(k, note)' <=> Owed(k, note) \/ note \in N
    PROVE  IInv'
<1>1. k \in Started /\ k \in Keys /\ inst[k] # Absent /\ j # Absent
  BY IdleType DEF IInv, TxInv, Started
<1>2. /\ inst'[k] = j /\ \A q \in Keys \ {k} : inst'[q] = inst[q] /\ audit'[q] = audit[q]
      /\ Started' = Started
  BY <1>1 DEF IInv, TypeOK, Started
<1>3. TypeOK'
  BY <1>1, FinishType DEF IInv, TypeOK
<1>4. \A u \in Txns : TxInv(u)'
  <2>1. TxInv(t)'
    BY FinishType DEF TxInv, IdleTx
  <2>2. ASSUME NEW u \in Txns \ {t} PROVE TxInv(u)'
    <3>1. /\ tx'[u] = tx[u] /\ TxInv(u) /\ status' = status
          /\ \A q \in Keys : lock[q] = u => lock'[q] = u
          /\ lock[k] = t
      BY FinishType DEF IInv, TxInv
    <3>2. tx[u].pc = "locked" => tx[u].key \in Keys \ {k}
      BY <3>1 DEF TxInv
    <3> QED BY <1>2, <3>1, <3>2 DEF TxInv
  <2> QED BY <2>1, <2>2
<1>5. HistoryIsWalk'
  <2>1. \A q \in Started : q \in Keys /\ IsWalk(q, inst[q])
    BY DEF IInv, HistoryIsWalk, Started
  <2> QED BY <1>2, <2>1 DEF HistoryIsWalk
<1>6. NotesInv'
  <2>1. \A q \in Started \ {k} : \A note : Owed(q, note)' <=> Owed(q, note)
    <3>1. \A q \in Started \ {k} : inst'[q] = inst[q] /\ audit'[q] = audit[q]
      BY <1>2 DEF Started
    <3> QED BY <3>1 DEF Owed, OwedMove
  <2>2. \A note : note \in notes' <=> \E q \in Started : Owed(q, note)'
    BY <1>1, <2>1 DEF IInv, NotesInv
  <2>3. \A q \in Keys \ Started : audit'[q] = <<>>
    BY <1>1, <1>2 DEF IInv, NotesInv
  <2> QED BY <1>2, <2>2, <2>3 DEF NotesInv
<1>7. StartedFromPublished'
  BY <1>2 DEF IInv, StartedFromPublished
<1>8. EndsOneWay'
  <2>1. \A q \in Started : q \in Keys /\ EndedOnce(q, inst[q], audit[q])
    BY DEF IInv, EndsOneWay, Started
  <2>2. audit'[k] = a
    BY <1>1 DEF IInv, TypeOK
  <2> QED BY <1>2, <2>1, <2>2 DEF EndsOneWay
<1> QED BY <1>3, <1>4, <1>5, <1>6, <1>7, <1>8 DEF IInv

\* An edge that leaves the current state extends the walk.
LEMMA MoveExtendsWalk ==
    ASSUME NEW k \in Keys, NEW i \in Instance, NEW j \in Instance, IsWalk(k, i),
           NEW r \in Record, r.from = i.state,
           [code |-> r.code, from |-> r.from, to |-> r.to] \in Content[k.def].trans,
           j.state = r.to, j.history = Append(i.history, r)
    PROVE  IsWalk(k, j)
<1> DEFINE L == Len(i.history)
<1>1. /\ i.history \in Seq(Record) /\ L \in Nat
      /\ Len(j.history) = L + 1 /\ j.history[L + 1] = r
      /\ \A n \in 1..L : j.history[n] = i.history[n]
  <2>1. i.history \in Seq(Record)
    BY DEF Instance
  <2> QED BY <2>1, AppendProperties
<1>2. \A n \in 0..L : Visited(k, j, n) = Visited(k, i, n)
  BY <1>1 DEF Visited
<1>3. Visited(k, j, L + 1) = r.to
  BY <1>1 DEF Visited
<1>4. \A n \in 1..L : n - 1 \in 0..L
  BY <1>1
<1>5. i.state = Visited(k, j, L)
  BY <1>1, <1>2 DEF IsWalk
<1>6. ASSUME NEW n \in 1..(L + 1)
      PROVE  /\ j.history[n].from = Visited(k, j, n - 1)
             /\ [code |-> j.history[n].code, from |-> j.history[n].from,
                  to |-> j.history[n].to] \in Content[k.def].trans
  <2>1. CASE n \in 1..L
    BY <1>1, <1>2, <1>4, <2>1 DEF IsWalk
  <2>2. CASE n = L + 1
    BY <1>1, <1>5, <2>2
  <2> QED BY <1>1, <2>1, <2>2
<1> QED BY <1>1, <1>3, <1>6 DEF IsWalk

LEMMA AppendFacts ==
    ASSUME NEW S, NEW s \in Seq(S), NEW e \in S
    PROVE  /\ Append(s, e) \in Seq(S) /\ Len(s) \in Nat
           /\ Len(Append(s, e)) = Len(s) + 1
           /\ Append(s, e)[Len(s) + 1] = e
           /\ \A n \in 1..Len(s) : Append(s, e)[n] = s[n]
           /\ \A n : n \in 1..(Len(s) + 1) <=> n \in 1..Len(s) \/ n = Len(s) + 1
           /\ Range(Append(s, e)) = Range(s) \cup {e}
<1>1. /\ Append(s, e) \in Seq(S) /\ Len(s) \in Nat
      /\ Len(Append(s, e)) = Len(s) + 1
      /\ Append(s, e)[Len(s) + 1] = e
      /\ \A n \in 1..Len(s) : Append(s, e)[n] = s[n]
  BY AppendProperties
<1>2. \A n : n \in 1..(Len(s) + 1) <=> n \in 1..Len(s) \/ n = Len(s) + 1
  BY <1>1
<1>3. DOMAIN Append(s, e) = 1..(Len(s) + 1) /\ DOMAIN s = 1..Len(s)
  BY <1>1
<1>4. Range(Append(s, e)) = Range(s) \cup {e}
  BY <1>1, <1>2, <1>3 DEF Range
<1> QED BY <1>1, <1>2, <1>4

\* The transition r adds to what is owed what Transit tells of it.
LEMMA TransitionOwed ==
    ASSUME NEW k, NEW i \in Instance, NEW j, NEW r \in Record, NEW note, NEW N,
           j.history = Append(i.history, r), j.starter = i.starter,
           note \in N <=>
               /\ r.actor # i.starter
               /\ note = [to |-> i.starter, key |-> TransitionNote(k, Len(i.history) + 1)]
    PROVE  OwedMove(k, j, note) <=> OwedMove(k, i, note) \/ note \in N
<1>1. i.history \in Seq(Record)
  BY DEF Instance
<1>2. /\ Len(j.history) = Len(i.history) + 1
      /\ j.history[Len(i.history) + 1] = r
      /\ \A n \in 1..Len(i.history) : j.history[n] = i.history[n]
      /\ \A n : n \in 1..(Len(i.history) + 1) <=>
                  n \in 1..Len(i.history) \/ n = Len(i.history) + 1
  BY <1>1, AppendFacts
<1> QED BY <1>2 DEF OwedMove

\* What a request that has its row knows about the instance.
LEMMA LockedView ==
    ASSUME IInv, NEW t \in Txns, tx[t].pc = "locked"
    PROVE  /\ tx[t].key \in Keys /\ tx[t].key \in Started /\ tx[t].key.def \in Defs
           /\ tx[t].actor \in Users
           /\ tx[t].view = inst[tx[t].key] /\ inst[tx[t].key] \in Instance
           /\ IsWalk(tx[t].key, inst[tx[t].key])
           /\ EndedOnce(tx[t].key, inst[tx[t].key], audit[tx[t].key])
<1>1. /\ tx[t].key \in Keys /\ tx[t].key \in Started /\ tx[t].actor \in Users
      /\ tx[t].view = inst[tx[t].key]
  BY DEF IInv, TxInv
<1> QED BY <1>1 DEF IInv, TypeOK, HistoryIsWalk, EndsOneWay, Started, Keys

\* What Notify adds.
Told(t, key) ==
    {n \in {[to |-> tx[t].view.starter, key |-> key]} : tx[t].actor # tx[t].view.starter}

LEMMA NotifyTells ==
    ASSUME NEW t, NEW key, Notify(t, key)
    PROVE  notes' = notes \cup Told(t, key)
BY DEF Notify, Told

\* What Transit does when it does not refuse: the record r of an edge tr that
\* leaves the committed state of i makes i into j.
Transits(t, k, i, tr, r, j) ==
    /\ i.status = "active" /\ tr.from = i.state
    /\ r.from = i.state /\ r.to = tr.to /\ r.actor = tx[t].actor
    /\ j.state = tr.to /\ j.history = Append(i.history, r)
    /\ j.starter = i.starter
    /\ j.status = "active" <=> ~ IsTerminal(k.def, tr.to)
    /\ j.status # "cancelled"
    /\ IsWalk(k, j)
    /\ inst' = [inst EXCEPT ![k] = j] /\ inst'[k] = j
    /\ Notify(t, TransitionNote(k, Len(i.history) + 1))
    /\ Finish(t) /\ UNCHANGED <<status, audit>>

LEMMA TransitEffect ==
    ASSUME IInv, NEW t \in Txns, Transit(t), ~ Rollback(t),
           NEW k, k = tx[t].key, NEW i, i = inst[k]
    PROVE  \E tr \in Content[k.def].trans, r \in Record, j \in Instance :
             Transits(t, k, i, tr, r, j)
<1> PICK a : a = tx[t].actor
  OBVIOUS
<1>1. /\ k \in Keys /\ k \in Started /\ k.def \in Defs
      /\ a \in Users /\ tx[t].view = i /\ i \in Instance /\ IsWalk(k, i)
  BY LockedView DEF Transit
<1>2. /\ i.status = "active"
      /\ \E tr \in Available(t) :
            /\ inst' = [inst EXCEPT
                          ![k].state = tr.to,
                          ![k].history = Append(@, [code |-> tr.code, from |-> i.state,
                                                   to |-> tr.to, actor |-> a]),
                          ![k].status = IF IsTerminal(k.def, tr.to)
                                        THEN "completed" ELSE @]
            /\ Notify(t, TransitionNote(k, Len(i.history) + 1))
            /\ Finish(t) /\ UNCHANGED <<status, audit>>
  BY <1>1 DEF Transit
<1>3. PICK tr, r :
        /\ tr \in Available(t)
        /\ r = [code |-> tr.code, from |-> i.state, to |-> tr.to, actor |-> a]
        /\ inst' = [inst EXCEPT ![k].state = tr.to,
                                ![k].history = Append(@, r),
                                ![k].status = IF IsTerminal(k.def, tr.to)
                                              THEN "completed" ELSE @]
        /\ Notify(t, TransitionNote(k, Len(i.history) + 1))
        /\ Finish(t) /\ UNCHANGED <<status, audit>>
  BY <1>2
<1>4. PICK j : j = [i EXCEPT !.state = tr.to, !.history = Append(@, r),
                            !.status = IF IsTerminal(k.def, tr.to)
                                       THEN "completed" ELSE @]
  OBVIOUS
<1>5. tr \in Transition /\ tr \in Content[k.def].trans /\ tr.from = i.state
  BY <1>1, <1>3, ContentType DEF Available
<1>6. /\ r \in Record /\ i.history \in Seq(Record)
      /\ r.to = tr.to /\ r.actor = a /\ r.from = i.state
  BY <1>1, <1>3, <1>5 DEF Transition, Record, Instance
<1>7. Append(i.history, r) \in Seq(Record)
  BY <1>6, AppendFacts
<1>8. /\ j \in Instance /\ j.state = tr.to /\ j.history = Append(i.history, r)
      /\ j.starter = i.starter
      /\ j.status = "active" <=> ~ IsTerminal(k.def, tr.to)
      /\ j.status # "cancelled"
  BY <1>1, <1>2, <1>4, <1>5, <1>7 DEF Instance, Transition
<1>9. inst' = [inst EXCEPT ![k] = j] /\ inst'[k] = j
  BY <1>1, <1>3, <1>4 DEF IInv, TypeOK
<1>10. IsWalk(k, j)
  <2>1. [code |-> r.code, from |-> r.from, to |-> r.to] \in Content[k.def].trans
    BY <1>3, <1>5 DEF Transition
  <2> QED BY <1>1, <1>6, <1>8, <2>1, MoveExtendsWalk
<1>11. Transits(t, k, i, tr, r, j)
  BY <1>2, <1>3, <1>5, <1>6, <1>8, <1>9, <1>10 DEF Transits
<1> QED BY <1>5, <1>6, <1>8, <1>11

LEMMA TransitKeeps ==
    ASSUME IInv, NEW t \in Txns, Transit(t)
    PROVE  IInv'
<1>1. CASE Rollback(t)
  BY <1>1, RollbackKeeps
<1>2. CASE ~ Rollback(t)
  <2> PICK k, i : k = tx[t].key /\ i = inst[k]
    OBVIOUS
  <2>1. /\ tx[t].pc = "locked" /\ k \in Keys /\ k \in Started
        /\ tx[t].actor \in Users /\ tx[t].view = i /\ i \in Instance
        /\ inst[k] = i /\ k = tx[t].key
    BY LockedView DEF Transit
  <2>2. PICK tr \in Content[k.def].trans, r \in Record, j \in Instance :
          Transits(t, k, i, tr, r, j)
    BY <1>2, <2>1, TransitEffect
  <2>3. PICK N :
          N = {n \in {[to |-> i.starter, key |-> TransitionNote(k, Len(i.history) + 1)]} :
                  r.actor # i.starter}
    OBVIOUS
  <2>4. i.starter \in Users /\ Len(i.history) \in Nat
    <3>1. i.history \in Seq(Record) /\ i.starter \in Users
      BY <2>1 DEF Instance
    <3> QED BY <3>1
  <2>5. notes' = notes \cup N
    <3>1. Told(t, TransitionNote(k, Len(i.history) + 1)) = N
      BY <2>1, <2>2, <2>3 DEF Transits, Told
    <3> QED BY <2>2, <3>1, NotifyTells DEF Transits
  <2>6. N \in SUBSET [to : Users, key : [event : {"transitioned", "cancelled"},
                                        key : Keys, record : Nat]]
    BY <2>1, <2>3, <2>4 DEF TransitionNote
  <2>7. audit' = [audit EXCEPT ![k] = audit[k]] /\ audit[k] \in Seq(Users)
    BY <2>1, <2>2 DEF Transits, IInv, TypeOK
  <2>8. ASSUME NEW note PROVE Owed(k, note)' <=> Owed(k, note) \/ note \in N
    <3>1. Owed(k, note)' <=>
            \/ OwedMove(k, j, note)
            \/ \E u \in Range(audit[k]) :
                  /\ u # i.starter
                  /\ note = [to |-> i.starter, key |-> CancelNote(k)]
      BY <2>2 DEF Transits, Owed, OwedMove, TransitionNote, CancelNote
    <3>2. OwedMove(k, j, note) <=> OwedMove(k, i, note) \/ note \in N
      <4>1. /\ i \in Instance /\ r \in Record
            /\ j.history = Append(i.history, r) /\ j.starter = i.starter
        BY <2>1, <2>2 DEF Transits
      <4>2. note \in N <=>
              /\ r.actor # i.starter
              /\ note = [to |-> i.starter, key |-> TransitionNote(k, Len(i.history) + 1)]
        BY <2>3
      <4> QED BY ONLY <4>1, <4>2, TransitionOwed
    <3>3. Owed(k, note) <=>
            \/ OwedMove(k, i, note)
            \/ \E u \in Range(audit[k]) :
                  /\ u # i.starter
                  /\ note = [to |-> i.starter, key |-> CancelNote(k)]
      BY <2>1 DEF Owed
    <3> QED BY <3>1, <3>2, <3>3
  <2>9. EndedOnce(k, j, audit[k])
    <3>1. EndedOnce(k, i, audit[k])
      BY <2>1, LockedView
    <3>2. audit[k] = <<>>
      BY <2>2, <3>1 DEF Transits, EndedOnce
    <3>3. j.status = "completed" <=> IsTerminal(k.def, j.state)
      BY <2>2 DEF Transits, Instance
    <3>4. j.status # "cancelled"
      BY <2>2 DEF Transits
    <3> QED BY <3>2, <3>3, <3>4 DEF EndedOnce
  <2> QED BY <2>1, <2>2, <2>5, <2>6, <2>7, <2>8, <2>9, WriteKeeps DEF Transits
<1> QED BY <1>1, <1>2

LEMMA CancelKeeps ==
    ASSUME IInv, NEW t \in Txns, Cancel(t)
    PROVE  IInv'
<1>1. CASE Rollback(t)
  BY <1>1, RollbackKeeps
<1>2. CASE ~ Rollback(t)
  <2> PICK k : k = tx[t].key
    OBVIOUS
  <2> DEFINE i == inst[k]
             a == tx[t].actor
  <2>1. /\ tx[t].pc = "locked" /\ k \in Keys /\ k \in Started
        /\ a \in Users /\ tx[t].view = i /\ i \in Instance /\ IsWalk(k, i)
        /\ inst' = [inst EXCEPT ![k].status = "cancelled"]
        /\ audit' = [audit EXCEPT ![k] = Append(@, a)]
        /\ Notify(t, CancelNote(k)) /\ Finish(t) /\ UNCHANGED status
    BY <1>2, LockedView DEF Cancel
  <2> PICK j : j = [i EXCEPT !.status = "cancelled"]
    OBVIOUS
  <2> PICK b : b = Append(audit[k], a)
    OBVIOUS
  <2> PICK N : N = Told(t, CancelNote(k))
    OBVIOUS
  <2>2. /\ j \in Instance /\ j.state = i.state /\ j.history = i.history
        /\ j.starter = i.starter /\ i.starter \in Users
    BY <2>1 DEF Instance
  <2>3. inst' = [inst EXCEPT ![k] = j] /\ inst'[k] = j
    BY <2>1 DEF IInv, TypeOK
  <2>4. IsWalk(k, j)
    BY <2>1, <2>2 DEF IsWalk, Visited
  <2>5. /\ audit' = [audit EXCEPT ![k] = b] /\ audit'[k] = b
        /\ b \in Seq(Users) /\ Range(b) = Range(audit[k]) \cup {a}
    <3>1. audit[k] \in Seq(Users)
      BY <2>1 DEF IInv, TypeOK
    <3>2. b \in Seq(Users) /\ Range(b) = Range(audit[k]) \cup {a}
      BY <2>1, <3>1, AppendFacts
    <3> QED BY <2>1, <3>2 DEF IInv, TypeOK
  <2>6. /\ notes' = notes \cup N
        /\ N = {n \in {[to |-> i.starter, key |-> CancelNote(k)]} : a # i.starter}
    BY <2>1, NotifyTells DEF Told
  <2>7. N \in SUBSET [to : Users, key : [event : {"transitioned", "cancelled"},
                                        key : Keys, record : Nat]]
    BY <2>1, <2>2, <2>6 DEF CancelNote
  <2>8. \A note : Owed(k, note)' <=> Owed(k, note) \/ note \in N
    BY <2>2, <2>3, <2>5, <2>6 DEF Owed, OwedMove, TransitionNote, CancelNote
  <2>9. EndedOnce(k, j, b)
    <3>1. EndedOnce(k, i, audit[k]) /\ i.status = "active"
      BY <1>2, <2>1, LockedView DEF Cancel
    <3>2. ~ IsTerminal(k.def, j.state) /\ j.status = "cancelled" /\ audit[k] = <<>>
      BY <2>1, <2>2, <3>1 DEF EndedOnce, Instance
    <3>3. b = <<a>>
      BY <3>2
    <3> QED BY <3>2, <3>3 DEF EndedOnce
  <2> HIDE DEF i, a
  <2> QED BY <2>1, <2>2, <2>3, <2>4, <2>5, <2>6, <2>7, <2>8, <2>9, WriteKeeps
<1> QED BY <1>1, <1>2

LEMMA NextKeeps ==
    ASSUME IInv, [Next]_vars
    PROVE  IInv'
<1>1. CASE UNCHANGED vars
  <2>1. QuietStep(None)
    BY <1>1, InstancesAssumption DEF vars, QuietStep, IInv, TypeOK
  <2> QED BY <2>1, QuietKeeps
<1>2. CASE \E d \in Defs : PublishVersion(d) \/ RetireVersion(d)
  BY <1>2, VersionsKeep
<1>3. ASSUME NEW t \in Txns, NEW u \in Users, NEW k \in Keys,
             \/ \E o \in {"start", "cancel"} : Begin(t, o, u, k, None)
             \/ \E c \in Codes : Begin(t, "transition", u, k, c)
      PROVE  IInv'
  BY <1>3, BeginKeeps
<1>4. ASSUME NEW t \in Txns, LockInstance(t) \/ Work(t) \/ Abort(t)
      PROVE  IInv'
  BY <1>4, LockKeeps, ReadsKeep, InsertKeeps, TransitKeeps, CancelKeeps, RollbackKeeps
     DEF Work, Abort
<1> QED BY <1>1, <1>2, <1>3, <1>4 DEF Next

LEMMA Invariance == Spec => []IInv
BY InitIInv, NextKeeps, PTL DEF Spec

-----------------------------------------------------------------------------
(* What follows from the invariant *)

\* Rows, locks, notifications and requests are well formed: a current state is
\* a state of the definition, a lock belongs to a request or to nobody.
THEOREM TypeCorrect == Spec => []TypeOK
<1>1. IInv => TypeOK
  BY DEF IInv
<1> QED BY <1>1, Invariance, PTL

\* Every history is a walk through the graph of its definition that starts in
\* the initial state and ends in the state of the row: transition_instance
\* never moves an instance from a state it read too early.
THEOREM HistoriesAreWalks == Spec => []HistoryIsWalk
<1>1. IInv => HistoryIsWalk
  BY DEF IInv
<1> QED BY <1>1, Invariance, PTL

\* A transition into a terminal state and a cancellation never both end an
\* instance, and neither ends it twice: each reads the status under the lock
\* (transition_instance, cancel_instance).
THEOREM InstancesEndOneWay == Spec => []EndsOneWay
<1>1. IInv => EndsOneWay
  BY DEF IInv
<1> QED BY <1>1, Invariance, PTL

\* The starter has one notification for each transition or cancellation by
\* somebody else and no other: create_notification runs in the transaction of
\* the handler that moves the instance.
THEOREM StartersAreNotified == Spec => []StarterIsNotified
<1>1. ASSUME IInv PROVE StarterIsNotified
  <2> DEFINE ToldAbout(k) ==
        {[to |-> inst[k].starter, key |-> TransitionNote(k, n)] :
            n \in {m \in 1..Len(inst[k].history) :
                      inst[k].history[m].actor # inst[k].starter}}
        \cup {[to |-> inst[k].starter, key |-> CancelNote(k)] :
            u \in Range(audit[k]) \ {inst[k].starter}}
  <2>1. \A k, note : note \in ToldAbout(k) <=> Owed(k, note)
    BY DEF Owed, OwedMove
  <2>2. \A note : note \in notes <=> \E k \in Started : Owed(k, note)
    BY <1>1 DEF IInv, NotesInv
  <2>3. notes = UNION {ToldAbout(k) : k \in Started}
    <3> HIDE DEF ToldAbout
    <3> QED BY <2>1, <2>2
  <2> QED BY <2>3 DEF StarterIsNotified
<1> QED BY <1>1, Invariance, PTL

\* Instances belong to versions that were published: start_instance reads the
\* status of the definition without a lock, but no version is a draft again.
THEOREM StartedFromPublishedOnly == Spec => []StartedFromPublished
<1>1. IInv => StartedFromPublished
  BY DEF IInv
<1> QED BY <1>1, Invariance, PTL

-----------------------------------------------------------------------------
(* Every step is a step of WorkflowCase, or none *)

LEMMA WalkFacts ==
    ASSUME NEW k \in Keys, NEW i \in Instance, IsWalk(k, i)
    PROVE  /\ Walk(k, i) \in Seq(States) /\ Len(Walk(k, i)) = Len(i.history) + 1
           /\ Walk(k, i)[Len(i.history) + 1] = i.state
           /\ Walk(k, i) # <<>>
<1> DEFINE L == Len(i.history)
<1>1. i.history \in Seq(Record) /\ i.state \in States /\ k.def \in Defs /\ L \in Nat
  BY DEF Instance, Keys
<1>2. \A n \in 1..(L + 1) : Visited(k, i, n - 1) \in States
  <2> TAKE n \in 1..(L + 1)
  <2>1. CASE n = 1
    BY <1>1, <2>1, ContentType DEF Visited
  <2>2. CASE n # 1
    <3>1. n - 1 \in 1..L /\ n - 1 # 0
      BY <1>1, <2>2
    <3>2. i.history[n - 1] \in Record
      BY <1>1, <3>1
    <3> QED BY <3>1, <3>2 DEF Visited, Record
  <2> QED BY <2>1, <2>2
<1>3. Walk(k, i) \in [1..(L + 1) -> States]
  BY <1>2 DEF Walk
<1>4. Walk(k, i) \in Seq(States) /\ Len(Walk(k, i)) = L + 1
  BY <1>1, <1>3
<1>5. Walk(k, i)[L + 1] = i.state
  BY <1>1 DEF Walk, IsWalk
<1> QED BY <1>1, <1>4, <1>5, EmptySeq

LEMMA WalkGrows ==
    ASSUME NEW k \in Keys, NEW i \in Instance, NEW j \in Instance,
           IsWalk(k, i), IsWalk(k, j),
           NEW r \in Record, j.history = Append(i.history, r)
    PROVE  Walk(k, j) = Append(Walk(k, i), r.to)
<1> DEFINE L == Len(i.history)
           w == Walk(k, i)
           v == Walk(k, j)
<1>1. i.history \in Seq(Record) /\ r.to \in States /\ L \in Nat
  BY DEF Instance, Record
<1>2. /\ Len(j.history) = L + 1 /\ j.history[L + 1] = r
      /\ \A n \in 1..L : j.history[n] = i.history[n]
  BY <1>1, AppendFacts
<1>3. /\ w \in Seq(States) /\ Len(w) = L + 1
      /\ v \in Seq(States) /\ Len(v) = L + 2
  BY <1>1, <1>2, WalkFacts
<1>4. \A n \in 1..(L + 1) : v[n] = w[n]
  <2>1. \A n \in 1..(L + 1) : n - 1 \in 0..L /\ n \in 1..(L + 2)
    BY <1>1
  <2>2. \A n \in 0..L : Visited(k, j, n) = Visited(k, i, n)
    BY <1>1, <1>2 DEF Visited
  <2> QED BY <1>1, <1>2, <2>1, <2>2 DEF Walk
<1>5. v[L + 2] = r.to
  BY <1>1, <1>2 DEF Walk, Visited
<1> HIDE DEF w, v, L
<1>6. /\ Append(w, r.to) \in Seq(States) /\ Len(Append(w, r.to)) = Len(w) + 1
      /\ Append(w, r.to)[Len(w) + 1] = r.to
      /\ \A n \in 1..Len(w) : Append(w, r.to)[n] = w[n]
  BY <1>1, <1>3, AppendFacts
<1>7. \A n \in 1..(L + 2) : n \in 1..(L + 1) \/ n = L + 2
  BY <1>1
<1>8. Len(v) = Len(Append(w, r.to)) /\ \A n \in 1..Len(v) : v[n] = Append(w, r.to)[n]
  BY <1>1, <1>3, <1>4, <1>5, <1>6, <1>7
<1> QED BY <1>3, <1>6, <1>8, SeqEqual DEF v, w

\* A write of one row is seen by one case.
LEMMA CaseOfWrite ==
    ASSUME TypeOK, NEW k \in Keys, NEW j \in Instance, inst' = [inst EXCEPT ![k] = j]
    PROVE  /\ caseWalk' = [caseWalk EXCEPT ![k] = Walk(k, j)]
           /\ caseOpen' = [caseOpen EXCEPT ![k] = (j.status = "active")]
<1>1. /\ inst'[k] = j /\ j # Absent
      /\ \A q \in Keys \ {k} : inst'[q] = inst[q]
  BY IdleType DEF TypeOK
<1>2. k \in Started' /\ \A q \in Keys \ {k} : q \in Started' <=> q \in Started
  BY <1>1 DEF Started
<1>3. \A q \in Keys : caseWalk'[q] = IF q = k THEN Walk(k, j) ELSE caseWalk[q]
  BY <1>1, <1>2 DEF caseWalk
<1>4. \A q \in Keys : caseOpen'[q] = IF q = k THEN (j.status = "active") ELSE caseOpen[q]
  BY <1>1, <1>2 DEF caseOpen
<1>5. /\ caseWalk = [q \in Keys |-> caseWalk[q]] /\ caseWalk' = [q \in Keys |-> caseWalk'[q]]
      /\ caseOpen = [q \in Keys |-> caseOpen[q]] /\ caseOpen' = [q \in Keys |-> caseOpen'[q]]
  BY DEF caseWalk, caseOpen
<1> QED BY <1>3, <1>4, <1>5

LEMMA InsertStarts ==
    ASSUME IInv, NEW t \in Txns, InsertInstance(t), ~ Rollback(t)
    PROVE  \E k \in Keys : Cases!Start(k)
<1> PICK k, i : k = tx[t].key /\ i = NewInstance(k.def, tx[t].actor)
  OBVIOUS
<1>1. /\ k \in Keys /\ k.def \in Defs /\ tx[t].actor \in Users /\ k \notin Started
      /\ inst' = [inst EXCEPT ![k] = i] /\ TypeOK
  BY DEF InsertInstance, IInv, TxInv, Keys
<1>2. /\ i.state = InitialState(k.def) /\ i.history = <<>>
      /\ i.status = "active" <=> ~ IsTerminal(k.def, i.state)
      /\ i \in [status : {"active", "completed", "cancelled"}, state : States,
                starter : Users, history : {<<>>}]
  BY <1>1, ContentType DEF NewInstance
<1>3. i \in Instance
  BY <1>2, EmptySeq DEF Instance
<1>4. IsWalk(k, i)
  BY <1>2 DEF IsWalk, Visited
<1>5. Walk(k, i) = <<i.state>>
  <2>1. Len(i.history) + 1 = 1
    BY <1>2
  <2>2. Walk(k, i) \in Seq(States) /\ Len(Walk(k, i)) = 1 /\ Walk(k, i)[1] = i.state
    BY <1>1, <1>3, <1>4, <2>1, WalkFacts
  <2> QED BY <2>2
<1>6. /\ caseWalk' = [caseWalk EXCEPT ![k] = <<i.state>>]
      /\ caseOpen' = [caseOpen EXCEPT ![k] = ~ (i.state \in Content[k.def].terminal)]
  <2>1. (i.status = "active") = ~ (i.state \in Content[k.def].terminal)
    BY <1>2 DEF IsTerminal
  <2>2. /\ caseWalk' = [caseWalk EXCEPT ![k] = Walk(k, i)]
        /\ caseOpen' = [caseOpen EXCEPT ![k] = (i.status = "active")]
    BY <1>1, <1>3, CaseOfWrite
  <2> QED BY <1>5, <2>1, <2>2
<1>7. caseWalk[k] = <<>> /\ i.state \in Content[k.def].initial
  BY <1>1, <1>2, ContentType DEF caseWalk
<1> QED BY <1>1, <1>6, <1>7 DEF Cases!Start, Cases!Closes

LEMMA TransitMoves ==
    ASSUME IInv, NEW t \in Txns, Transit(t), ~ Rollback(t)
    PROVE  \E k \in Keys : Cases!Move(k)
<1> PICK k, i : k = tx[t].key /\ i = inst[k]
  OBVIOUS
<1>1. /\ k \in Keys /\ k \in Started /\ i \in Instance /\ IsWalk(k, i)
      /\ inst[k] = i /\ TypeOK
  BY LockedView DEF Transit, IInv
<1>2. PICK tr \in Content[k.def].trans, r \in Record, j \in Instance :
        Transits(t, k, i, tr, r, j)
  BY TransitEffect
<1>3. /\ i.status = "active" /\ tr.from = i.state /\ r.to = tr.to
      /\ j.history = Append(i.history, r)
      /\ j.status = "active" <=> ~ IsTerminal(k.def, tr.to)
      /\ IsWalk(k, j)
      /\ inst' = [inst EXCEPT ![k] = j]
  BY <1>2 DEF Transits
<1>4. caseWalk[k] = Walk(k, i) /\ caseOpen[k]
  BY <1>1, <1>3 DEF caseWalk, caseOpen
<1>5. caseWalk[k][Len(caseWalk[k])] = tr.from
  <2>1. Walk(k, i)[Len(Walk(k, i))] = i.state
    BY <1>1, WalkFacts
  <2> QED BY <1>3, <1>4, <2>1
<1>6. caseWalk' = [caseWalk EXCEPT ![k] = Append(@, tr.to)]
  <2>1. Walk(k, j) = Append(Walk(k, i), tr.to)
    BY <1>1, <1>3, WalkGrows
  <2>2. caseWalk' = [caseWalk EXCEPT ![k] = Walk(k, j)]
    BY <1>1, <1>3, CaseOfWrite
  <2>3. caseWalk' = [caseWalk EXCEPT ![k] = Append(caseWalk[k], tr.to)]
    BY <1>4, <2>1, <2>2
  <2> QED BY <2>3
<1>7. caseOpen' = [caseOpen EXCEPT ![k] = ~ (tr.to \in Content[k.def].terminal)]
  <2>1. (j.status = "active") = ~ (tr.to \in Content[k.def].terminal)
    BY <1>3 DEF IsTerminal
  <2>2. caseOpen' = [caseOpen EXCEPT ![k] = (j.status = "active")]
    BY <1>1, <1>3, CaseOfWrite
  <2> QED BY <2>1, <2>2
<1> QED BY <1>1, <1>2, <1>4, <1>5, <1>6, <1>7 DEF Cases!Move, Cases!Closes

LEMMA CancelCancels ==
    ASSUME IInv, NEW t \in Txns, Cancel(t), ~ Rollback(t)
    PROVE  \E k \in Keys : Cases!Cancel(k)
<1> PICK k, i : k = tx[t].key /\ i = inst[k]
  OBVIOUS
<1> PICK j : j = [i EXCEPT !.status = "cancelled"]
  OBVIOUS
<1>1. /\ k \in Keys /\ k \in Started /\ i \in Instance /\ inst[k] = i
      /\ TypeOK /\ i.status = "active"
      /\ inst' = [inst EXCEPT ![k].status = "cancelled"]
  BY LockedView DEF Cancel, IInv
<1>2. j \in Instance /\ j.history = i.history /\ j.status # "active"
  BY <1>1 DEF Instance
<1>3. inst' = [inst EXCEPT ![k] = j]
  BY <1>1 DEF TypeOK
<1>4. Walk(k, j) = Walk(k, i)
  BY <1>2 DEF Walk, Visited
<1>5. caseWalk[k] = Walk(k, i) /\ caseOpen[k]
  BY <1>1 DEF caseWalk, caseOpen
<1>6. /\ caseWalk' = [caseWalk EXCEPT ![k] = Walk(k, j)]
      /\ caseOpen' = [caseOpen EXCEPT ![k] = FALSE]
  BY <1>1, <1>2, <1>3, CaseOfWrite
<1>7. caseWalk' = caseWalk
  <2>1. caseWalk = [q \in Keys |-> caseWalk[q]]
    BY DEF caseWalk
  <2> QED BY <1>1, <1>4, <1>5, <1>6, <2>1
<1> QED BY <1>1, <1>5, <1>6, <1>7 DEF Cases!Cancel

LEMMA NextImplements ==
    ASSUME IInv, [Next]_vars
    PROVE  [Cases!Next]_<<caseWalk, caseOpen>>
<1>1. inst' = inst => UNCHANGED <<caseWalk, caseOpen>>
  BY DEF caseWalk, caseOpen, Started, Walk, Visited
<1>2. CASE UNCHANGED vars
  BY <1>1, <1>2 DEF vars
<1>3. CASE \E d \in Defs : PublishVersion(d) \/ RetireVersion(d)
  BY <1>1, <1>3 DEF PublishVersion, RetireVersion
<1>4. ASSUME NEW t \in Txns, NEW u \in Users, NEW k \in Keys,
             \/ \E o \in {"start", "cancel"} : Begin(t, o, u, k, None)
             \/ \E c \in Codes : Begin(t, "transition", u, k, c)
      PROVE  inst' = inst
  BY <1>4 DEF Begin
<1>5. ASSUME NEW t \in Txns,
             LockInstance(t) \/ ReadDefinition(t) \/ CheckDuplicate(t) \/ Abort(t)
      PROVE  inst' = inst
  BY <1>5 DEF LockInstance, ReadDefinition, CheckDuplicate, Abort, Rollback, Goto
<1>6. ASSUME NEW t \in Txns, InsertInstance(t) \/ Transit(t) \/ Cancel(t)
      PROVE  inst' = inst \/ Cases!Next
  <2>1. CASE Rollback(t)
    BY <2>1 DEF Rollback
  <2>2. CASE ~ Rollback(t)
    <3>1. \E k \in Keys : Cases!Start(k) \/ Cases!Move(k) \/ Cases!Cancel(k)
      BY <1>6, <2>2, InsertStarts, TransitMoves, CancelCancels
    <3> QED BY <3>1 DEF Cases!Next, Cases!Keys, Keys
  <2> QED BY <2>1, <2>2
<1> QED BY <1>1, <1>2, <1>3, <1>4, <1>5, <1>6 DEF Next, Work

\* For its user an instance is a case of WorkflowCase: one walk, one edge at a
\* time, closed for good on a terminal state or when it is cancelled.
THEOREM InstancesAreCases == Spec => ImplementsCases
<1>1. Init => Cases!Init
  BY DEF Init, Cases!Init, caseWalk, caseOpen, Started, Keys, Cases!Keys
<1>2. IInv /\ [Next]_vars => [Cases!Next]_<<caseWalk, caseOpen>>
  BY NextImplements
<1> QED BY <1>1, <1>2, Invariance, PTL DEF Spec, ImplementsCases, Cases!Spec

-----------------------------------------------------------------------------
(* The loop of _validate_publishable (module PublishCheck).  Nothing below  *)
(* refers to instances.  First, sequences as stacks.                       *)

\* The elements of a stack are those below the top, and the top.
LEMMA PopRange ==
    ASSUME NEW S, NEW s \in Seq(S), s # <<>>
    PROVE  /\ Front(s) \in Seq(S)
           /\ Last(s) \in S
           /\ Range(s) = Range(Front(s)) \cup {Last(s)}
<1>1. /\ Len(s) \in Nat \ {0}
      /\ DOMAIN s = 1..Len(s)
      /\ \A i \in 1..Len(s) : s[i] \in S
  OBVIOUS
<1>2. /\ Front(s) \in Seq(S)
      /\ Len(Front(s)) = Len(s) - 1
      /\ \A i \in 1..(Len(s) - 1) : Front(s)[i] = s[i]
  BY <1>1 DEF Front
<1>3. Last(s) \in S /\ Last(s) = s[Len(s)]
  BY <1>1 DEF Last
<1>4. Range(s) = {s[i] : i \in 1..Len(s)}
  BY RangeEquality
<1>5. Range(Front(s)) = {Front(s)[i] : i \in 1..Len(Front(s))}
  BY <1>2, RangeEquality
<1>6. Range(Front(s)) = {s[i] : i \in 1..(Len(s) - 1)}
  BY <1>1, <1>2, <1>5
<1>7. 1..Len(s) = (1..(Len(s) - 1)) \cup {Len(s)}
  BY <1>1
<1> QED BY <1>2, <1>3, <1>4, <1>6, <1>7

\* An ordering of a finite set is a sequence of exactly its elements.
LEMMA OrderRange ==
    ASSUME NEW T, NEW S \in SUBSET T, IsFiniteSet(S), NEW f \in SetToSeqs(S)
    PROVE  f \in Seq(T) /\ Range(f) = S
<1> DEFINE D == 1..Cardinality(S)
<1>1. Cardinality(S) \in Nat
  BY FS_CardinalityType
<1>2. f \in [D -> S] /\ \A i, j \in D : i # j => f[i] # f[j]
  BY DEF SetToSeqs
<1>3. f \in Injection(D, S)
  BY <1>2 DEF Injection, IsInjective
<1>4. Cardinality(D) = Cardinality(S)
  BY <1>1, FS_Interval
<1>5. f \in Surjection(D, S)
  BY <1>3, <1>4, FS_Injection
<1>6. f \in Seq(T)
  BY <1>1, <1>2
<1>7. Range(f) = S
  BY <1>2, <1>5 DEF Range, Surjection
<1> QED BY <1>6, <1>7

-----------------------------------------------------------------------------
(* The loop invariant *)

\* What will still be looked at.
Seen == reachable \cup Range(pending)

\* A successor of a visited state is visited or waits on the stack, and
\* nothing is looked at that some closed set around the initial state avoids.
LoopInv ==
    /\ WellShaped(graph)
    /\ Seen \subseteq graph.states
    /\ graph.initial \subseteq Seen
    /\ \A tr \in graph.trans : tr.from \in reachable => tr.to \in Seen
    /\ \A S \in SUBSET graph.states :
          graph.initial \subseteq S /\ ClosedUnder(graph, S) => Seen \subseteq S

CheckInv ==
    /\ CheckTypeOK
    /\ pc = "visit" => LoopInv
    /\ DecidesPublishable

\* The stack holds the initial state and nothing was visited.
LEMMA CheckShapeKeeps == CheckInv /\ reachable = {} /\ CheckShape => CheckInv'
<1> SUFFICES ASSUME CheckInv, reachable = {}, CheckShape PROVE CheckInv'
  OBVIOUS
<1>1. CASE WellShaped(graph)
  <2>1. PICK s \in graph.initial : pending' = <<s>> /\ graph.initial = {s} /\ s \in graph.states
    BY <1>1 DEF CheckShape, WellShaped
  <2>2. UNCHANGED <<graph, reachable>> /\ pc' = "visit"
    BY <1>1 DEF CheckShape
  <2>3. Range(pending') = {s}
    BY <2>1 DEF Range
  <2>4. pending' \in Seq(States) /\ CheckTypeOK'
    BY <2>1, <2>2 DEF CheckInv, CheckTypeOK, Graph
  <2>5. Seen' = {s}
    BY <2>2, <2>3 DEF Seen
  <2>6. LoopInv'
    BY <1>1, <2>1, <2>2, <2>5 DEF LoopInv, WellShaped, ClosedUnder
  <2> QED BY <2>2, <2>4, <2>6 DEF CheckInv, DecidesPublishable
<1>2. CASE ~WellShaped(graph)
  BY <1>2 DEF CheckShape, CheckInv, CheckTypeOK, DecidesPublishable, Publishable, WellShaped
<1> QED BY <1>1, <1>2

\* Nothing is lost when a visited state leaves the stack.
LEMMA SkipKeeps == CheckInv /\ Skip => CheckInv'
<1> SUFFICES ASSUME CheckInv, Skip PROVE CheckInv'
  OBVIOUS
<1>1. /\ pending \in Seq(States) /\ pending # <<>>
      /\ Last(pending) \in reachable
      /\ pending' = Front(pending)
      /\ UNCHANGED <<graph, reachable, pc>>
      /\ pc = "visit"
  BY DEF Skip, CheckInv, CheckTypeOK
<1>2. pending' \in Seq(States) /\ Range(pending) = Range(pending') \cup {Last(pending)}
  BY <1>1, PopRange
<1>3. Seen' = Seen
  BY <1>1, <1>2 DEF Seen
<1>4. LoopInv'
  BY <1>1, <1>3 DEF CheckInv, LoopInv, WellShaped, ClosedUnder
<1> QED BY <1>1, <1>2, <1>4 DEF CheckInv, CheckTypeOK, DecidesPublishable

\* A visited state leaves its successors on the stack.
LEMMA VisitKeeps == CheckInv /\ Visit => CheckInv'
<1> SUFFICES ASSUME CheckInv, Visit PROVE CheckInv'
  OBVIOUS
<1> DEFINE s == Last(pending)
           new == Outgoing(s) \ reachable'
<1>1. /\ pending \in Seq(States) /\ pending # <<>>
      /\ reachable' = reachable \cup {s}
      /\ UNCHANGED <<graph, pc>>
      /\ pc = "visit"
  BY DEF Visit, CheckInv, CheckTypeOK
<1>2. PICK order \in SetToSeqs(new) : pending' = Front(pending) \o order
  BY DEF Visit
<1>3. /\ Front(pending) \in Seq(States)
      /\ s \in States
      /\ Range(pending) = Range(Front(pending)) \cup {s}
  BY <1>1, PopRange
<1>4. new \in SUBSET States /\ IsFiniteSet(new)
  BY FS_Subset, PublishAssumption DEF Outgoing
<1>5. order \in Seq(States) /\ Range(order) = new
  BY <1>2, <1>4, OrderRange
<1>6. /\ pending' \in Seq(States)
      /\ Range(pending') = Range(Front(pending)) \cup new
  BY <1>2, <1>3, <1>5, RangeConcatenation
<1>7. Seen' = Seen \cup new
  BY <1>1, <1>3, <1>6 DEF Seen
<1>8. LoopInv /\ s \in Seen
  BY <1>1, <1>3 DEF CheckInv, Seen
<1>9. \A u \in Outgoing(s) : u \in Seen'
  BY <1>1, <1>7 DEF Seen
<1>10. \A u \in new : \E tr \in graph.trans : tr.from = s /\ tr.to = u
  BY DEF Outgoing
<1>11. /\ WellShaped(graph)'
       /\ Seen' \subseteq graph'.states
       /\ graph'.initial \subseteq Seen'
  BY <1>1, <1>7, <1>8, <1>10 DEF LoopInv, WellShaped
<1>12. \A tr \in graph.trans : tr.from \in reachable' => tr.to \in Seen'
  <2> SUFFICES ASSUME NEW tr \in graph.trans, tr.from \in reachable'
               PROVE  tr.to \in Seen'
    OBVIOUS
  <2>1. CASE tr.from = s
    <3>1. tr.to \in Outgoing(s)
      BY <2>1 DEF Outgoing, CheckInv, CheckTypeOK, Graph, Transition
    <3> QED BY <3>1, <1>9
  <2>2. CASE tr.from \in reachable
    BY <2>2, <1>7, <1>8 DEF LoopInv
  <2> QED BY <2>1, <2>2, <1>1
<1>13. ASSUME NEW S \in SUBSET graph.states,
              graph.initial \subseteq S, ClosedUnder(graph, S)
       PROVE  Seen' \subseteq S
  <2>1. Seen \subseteq S
    BY <1>8, <1>13 DEF LoopInv
  <2>2. new \subseteq S
    BY <2>1, <1>8, <1>10, <1>13 DEF ClosedUnder
  <2> QED BY <2>1, <2>2, <1>7
<1>14. LoopInv'
  BY <1>1, <1>11, <1>12, <1>13 DEF LoopInv, ClosedUnder
<1>15. CheckTypeOK'
  BY <1>1, <1>3, <1>6 DEF CheckInv, CheckTypeOK
<1> QED BY <1>1, <1>14, <1>15 DEF CheckInv, DecidesPublishable

\* With an empty stack the visited set is closed, and it is the least one.
LEMMA DecideKeeps == CheckInv /\ Decide => CheckInv'
<1> SUFFICES ASSUME CheckInv, Decide PROVE CheckInv'
  OBVIOUS
<1>1. /\ pending = <<>> /\ LoopInv
      /\ UNCHANGED <<graph, reachable, pending>>
      /\ pc' = IF reachable = graph.states THEN "accepted" ELSE "rejected"
  BY DEF Decide, CheckInv
<1>2. Seen = reachable
  BY <1>1 DEF Seen, Range
<1>3. /\ reachable \in SUBSET graph.states
      /\ graph.initial \subseteq reachable
      /\ ClosedUnder(graph, reachable)
  BY <1>1, <1>2 DEF LoopInv, ClosedUnder
<1>4. reachable = graph.states <=> AllReachable(graph)
  BY <1>1, <1>2, <1>3 DEF LoopInv, AllReachable
<1>5. Publishable(graph) <=> reachable = graph.states
  BY <1>1, <1>4 DEF Publishable, LoopInv
<1>6. Publishable(graph)' <=> Publishable(graph)
  BY <1>1 DEF Publishable, WellShaped, AllReachable, ClosedUnder
<1> QED BY <1>1, <1>5, <1>6 DEF CheckInv, CheckTypeOK, DecidesPublishable

-----------------------------------------------------------------------------

\* Nothing is visited before the shape of the graph was checked.
FullCheckInv == CheckInv /\ (pc = "check" => reachable = {})

LEMMA InitFullCheckInv == CheckInit => FullCheckInv
BY PublishAssumption DEF CheckInit, FullCheckInv, CheckInv, CheckTypeOK, DecidesPublishable

LEMMA CheckNextKeeps == FullCheckInv /\ [CheckNext]_checkVars => FullCheckInv'
<1> SUFFICES ASSUME FullCheckInv, [CheckNext]_checkVars PROVE FullCheckInv'
  OBVIOUS
<1>1. CASE UNCHANGED checkVars
  <2>1. UNCHANGED <<graph, reachable, pending, pc>>
    BY <1>1 DEF checkVars
  <2>2. Publishable(graph)' <=> Publishable(graph)
    BY <2>1 DEF Publishable, WellShaped, AllReachable, ClosedUnder
  <2>3. LoopInv' <=> LoopInv
    BY <2>1 DEF LoopInv, WellShaped, ClosedUnder, Seen
  <2> QED BY <2>1, <2>2, <2>3 DEF FullCheckInv, CheckInv, CheckTypeOK, DecidesPublishable
<1>2. CASE CheckShape
  BY <1>2, CheckShapeKeeps DEF FullCheckInv, CheckShape
<1>3. CASE Skip
  BY <1>3, SkipKeeps DEF FullCheckInv, Skip
<1>4. CASE Visit
  BY <1>4, VisitKeeps DEF FullCheckInv, Visit
<1>5. CASE Decide
  BY <1>5, DecideKeeps DEF FullCheckInv, Decide
<1> QED BY <1>1, <1>2, <1>3, <1>4, <1>5 DEF CheckNext

\* The loop accepts a definition exactly when it is publishable, whatever
\* order the successors are pushed in.
THEOREM LoopDecidesPublishable == CheckSpec => []DecidesPublishable
<1>1. FullCheckInv => DecidesPublishable
  BY DEF FullCheckInv, CheckInv
<1> QED BY InitFullCheckInv, CheckNextKeeps, <1>1, PTL DEF CheckSpec
=============================================================================
