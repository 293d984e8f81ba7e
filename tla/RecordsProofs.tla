----------------------------- MODULE RecordsProofs -----------------------------
(***************************************************************************)
(* Proofs about SharedRecords and about CustomerRecords, which extends it, *)
(* for any users, rows, values, tags and settings.                         *)
(***************************************************************************)
EXTENDS CustomerRecords, Integers, FiniteSetTheorems, TLAPS

-----------------------------------------------------------------------------
(* Suppliers: the requests of SharedRecords *)

\* A request that works on a row holds its lock and has loaded what is
\* committed; a read that has seen the columns has seen them at some version.
TxInv(u) ==
    /\ tx[u].pc # "idle" => tx[u].row \in Rows
    /\ tx[u].pc = "locked" =>
          /\ lock[tx[u].row] = u
          /\ tx[u].seen = rows[tx[u].row]
          /\ rows[tx[u].row] # Absent
    /\ tx[u].pc = "row" =>
          /\ tx[u].seen.version <= rows[tx[u].row].version
          /\ tx[u].seen.version = rows[tx[u].row].version => tx[u].seen = rows[tx[u].row]

\* Versions only grow, so a copy is never ahead of its row.
CopyInv(u, r) ==
    /\ copy[u][r].version <= rows[r].version
    /\ copy[u][r].version = rows[r].version => copy[u][r] = rows[r]

Base ==
    /\ TypeOK
    /\ \A u \in Users : TxInv(u)
    /\ ActiveNotArchived

IInv == Base /\ \A u \in Users, r \in Rows : CopyInv(u, r)

LEMMA AbsentType == Absent \in Row /\ IdleTx \in Tx
<1>1. SomeValue \in Values
  BY RecordsAssumption DEF SomeValue
<1> QED BY <1>1 DEF Absent, Row, Statuses, IdleTx, Tx

LEMMA InitBase == Init => Base
<1> SUFFICES ASSUME Init PROVE Base
  OBVIOUS
<1>1. TypeOK
  BY AbsentType DEF Init, TypeOK
<1>2. \A u \in Users : TxInv(u)
  BY DEF Init, TxInv, IdleTx
<1>3. ActiveNotArchived
  BY DEF Init, ActiveNotArchived, Absent
<1> QED BY <1>1, <1>2, <1>3 DEF Base

LEMMA InitInv == Init => IInv
<1>1. Init => \A u \in Users, r \in Rows : CopyInv(u, r)
  BY DEF Init, CopyInv, Absent
<1> QED BY <1>1, InitBase DEF IInv

-----------------------------------------------------------------------------
(* Steps that write no row *)

LEMMA ReadRowBase ==
    ASSUME Base, NEW u \in Users, NEW r \in Rows, ReadRow(u, r)
    PROVE  Base'
<1>1. TypeOK'
  BY DEF ReadRow, Base, TypeOK, Tx
<1>2. tx'[u] = [pc |-> "row", op |-> "none", row |-> r, seen |-> rows[r]]
  BY DEF ReadRow, Base, TypeOK
<1>3. TxInv(u)'
  BY <1>2 DEF ReadRow, TxInv, Base, TypeOK, Row
<1>4. \A v \in Users \ {u} : TxInv(v)'
  BY DEF ReadRow, Base, TypeOK, TxInv
<1> QED BY <1>1, <1>3, <1>4 DEF ReadRow, Base, ActiveNotArchived

LEMMA LockBase ==
    ASSUME Base, NEW u \in Users, NEW r \in Rows, NEW op \in Ops, Lock(u, op, r)
    PROVE  Base'
<1>1. TypeOK'
  BY DEF Lock, Base, TypeOK, Tx
<1>2. /\ tx'[u] = [pc |-> "locked", op |-> op, row |-> r, seen |-> rows[r]]
      /\ lock'[r] = u
  BY DEF Lock, Base, TypeOK
<1>3. TxInv(u)'
  BY <1>2 DEF Lock, TxInv
<1>4. ASSUME NEW v \in Users \ {u}
      PROVE  TxInv(v)'
  <2>1. tx'[v] = tx[v] /\ TxInv(v)
    BY DEF Lock, Base, TypeOK
  <2>2. \A q \in Rows : lock[q] = v => lock'[q] = v
    BY RecordsAssumption DEF Lock, Base, TypeOK
  <2> QED BY <2>1, <2>2 DEF Lock, TxInv
<1> QED BY <1>1, <1>3, <1>4 DEF Lock, Base, ActiveNotArchived

LEMMA AbortBase ==
    ASSUME Base, NEW u \in Users, Abort(u)
    PROVE  Base'
<1>1. TypeOK'
  BY AbsentType DEF Abort, Unlock, Base, TypeOK
<1>2. TxInv(u)'
  BY DEF Abort, Base, TypeOK, TxInv, IdleTx
<1>3. \A v \in Users \ {u} : TxInv(v)'
  BY DEF Abort, Unlock, Base, TypeOK, TxInv
<1> QED BY <1>1, <1>2, <1>3 DEF Abort, Base, ActiveNotArchived

\* A step of u that leaves every row and gives u another copy of one.
CopyStep(u, r, new) ==
    /\ rows' = rows
    /\ copy' = [copy EXCEPT ![u][r] = new]
    /\ tx' = [tx EXCEPT ![u] = IdleTx]
    /\ lock' \in [Rows -> Users \cup {None}]
    /\ \A v \in Users \ {u}, q \in Rows : lock[q] = v => lock'[q] = v

LEMMA CopyBase ==
    ASSUME Base, NEW u \in Users, NEW r \in Rows, NEW new \in Row, CopyStep(u, r, new)
    PROVE  /\ Base'
           /\ copy'[u][r] = new
           /\ \A v \in Users, q \in Rows : v # u \/ q # r => copy'[v][q] = copy[v][q]
<1> USE DEF CopyStep
<1>1. TypeOK'
  BY AbsentType DEF Base, TypeOK
<1>2. TxInv(u)'
  BY DEF Base, TypeOK, TxInv, IdleTx
<1>3. \A v \in Users \ {u} : TxInv(v)'
  BY DEF Base, TypeOK, TxInv
<1>4. ActiveNotArchived'
  BY DEF Base, ActiveNotArchived
<1>5. copy'[u][r] = new
  BY DEF Base, TypeOK
<1>6. \A v \in Users, q \in Rows : v # u \/ q # r => copy'[v][q] = copy[v][q]
  BY DEF Base, TypeOK
<1> QED BY <1>1, <1>2, <1>3, <1>4, <1>5, <1>6 DEF Base

\* The tags that are read are those of the version of the columns, or of a
\* later one: then the copy is out of date.
LEMMA ReadTagsCopies ==
    ASSUME Base, NEW u \in Users, ReadTags(u)
    PROVE  \E r \in Rows, new \in Row :
              /\ CopyStep(u, r, new)
              /\ new.version <= rows[r].version
              /\ new.version = rows[r].version => new = rows[r]
<1> DEFINE r == tx[u].row
           new == [tx[u].seen EXCEPT !.tags = rows[r].tags]
<1>1. /\ r \in Rows /\ tx[u].seen \in Row /\ rows[r] \in Row
      /\ tx[u].seen.version <= rows[r].version
      /\ tx[u].seen.version = rows[r].version => tx[u].seen = rows[r]
  BY DEF ReadTags, Base, TxInv, TypeOK, Tx
<1>2. /\ new \in Row
      /\ new.version = tx[u].seen.version
      /\ new.version = rows[r].version => new = rows[r]
  BY <1>1 DEF Row
<1>3. CopyStep(u, r, new)
  BY DEF ReadTags, CopyStep, Base, TypeOK
<1> HIDE DEF r, new
<1> QED BY <1>1, <1>2, <1>3

-----------------------------------------------------------------------------
(* Steps that write a row: its version grows past every copy of it. *)

\* A request that holds nothing and has seen nothing.
Settled(t) == t.pc \in {"idle", "written"} /\ (t.pc # "idle" => t.row \in Rows)

\* new is written to r, which nobody goes on holding.
WriteStep(r, new) ==
    /\ rows' = [rows EXCEPT ![r] = new]
    /\ new.version = rows[r].version + 1
    /\ new.active => new.status # "archived"
    /\ copy' \in [Users -> [Rows -> Row]]
    /\ lock' \in [Rows -> Users \cup {None}]
    /\ tx' \in [Users -> Tx]
    /\ \A v \in Users :
          \/ Settled(tx'[v])
          \/ /\ tx'[v] = tx[v]
             /\ tx[v].pc = "locked" => tx[v].row # r /\ lock'[tx[v].row] = v

LEMMA WriteBase ==
    ASSUME Base, NEW r \in Rows, NEW new \in Row, WriteStep(r, new)
    PROVE  Base'
<1> USE DEF WriteStep
<1>1. TypeOK'
  BY DEF Base, TypeOK
<1>2. ASSUME NEW v \in Users, Settled(tx'[v])
      PROVE  TxInv(v)'
  BY <1>2 DEF Settled, TxInv
<1>3. ASSUME NEW v \in Users, ~ Settled(tx'[v])
      PROVE  TxInv(v)'
  <2>1. /\ tx'[v] = tx[v] /\ TxInv(v) /\ tx[v] \in Tx
        /\ tx[v].pc = "locked" => tx[v].row # r /\ lock'[tx[v].row] = v
    BY <1>3 DEF Base, TypeOK
  <2>2. CASE tx[v].row = r
    <3>1. rows'[r].version = rows[r].version + 1 /\ rows[r].version \in Nat
      BY DEF Base, TypeOK, Row
    <3>2. tx[v].seen.version \in Nat
      BY <2>1 DEF Tx, Row
    <3> QED BY <2>1, <2>2, <3>1, <3>2 DEF TxInv
  <2>3. CASE tx[v].row # r
    <3>1. tx[v].row \in Rows => rows'[tx[v].row] = rows[tx[v].row]
      BY <2>3 DEF Base, TypeOK
    <3> QED BY <2>1, <3>1 DEF TxInv
  <2> QED BY <2>2, <2>3
<1>4. ActiveNotArchived'
  BY DEF Base, TypeOK, ActiveNotArchived
<1> QED BY <1>1, <1>2, <1>3, <1>4 DEF Base

LEMMA WriteInv ==
    ASSUME IInv, NEW r \in Rows, NEW new \in Row, WriteStep(r, new), UNCHANGED copy
    PROVE  IInv'
<1>1. ASSUME NEW v \in Users, NEW q \in Rows
      PROVE  CopyInv(v, q)'
  <2>1. copy'[v][q] = copy[v][q] /\ CopyInv(v, q) /\ copy[v][q] \in Row /\ rows[q] \in Row
    BY DEF IInv, Base, TypeOK
  <2>2. CASE q = r
    <3>1. rows'[q].version = rows[q].version + 1
      BY <2>2 DEF IInv, Base, TypeOK, WriteStep
    <3> QED BY <2>1, <3>1 DEF CopyInv, Row
  <2>3. CASE q # r
    BY <2>1, <2>3 DEF CopyInv, IInv, Base, TypeOK, WriteStep
  <2> QED BY <2>2, <2>3
<1> QED BY <1>1, WriteBase DEF IInv

\* The holder of a row writes it and gives it up.
LEMMA HolderWrites ==
    ASSUME Base, NEW u \in Users, tx[u].pc = "locked",
           NEW new \in Row, rows' = [rows EXCEPT ![tx[u].row] = new],
           new.version = tx[u].seen.version + 1,
           new.active => new.status # "archived",
           copy' \in [Users -> [Rows -> Row]], Unlock(u),
           NEW t \in Tx, Settled(t), tx' = [tx EXCEPT ![u] = t]
    PROVE  WriteStep(tx[u].row, new)
<1> DEFINE r == tx[u].row
<1>1. r \in Rows /\ lock[r] = u /\ tx[u].seen = rows[r]
  BY DEF Base, TxInv
<1>2. /\ tx' \in [Users -> Tx] /\ tx'[u] = t
      /\ \A v \in Users \ {u} : tx'[v] = tx[v]
  BY DEF Base, TypeOK
<1>3. /\ lock' \in [Rows -> Users \cup {None}]
      /\ \A v \in Users \ {u}, q \in Rows : lock[q] = v => lock'[q] = v
  BY DEF Unlock, Base, TypeOK
<1>4. \A v \in Users \ {u} : tx[v].pc = "locked" =>
          tx[v].row \in Rows /\ lock[tx[v].row] = v /\ tx[v].row # r
  BY <1>1 DEF Base, TxInv
<1> QED BY <1>1, <1>2, <1>3, <1>4 DEF WriteStep

LEMMA SaveWrites ==
    ASSUME Base, NEW u \in Users, tx[u].pc = "locked",
           NEW changed \in Row, Save(u, changed),
           changed.version = tx[u].seen.version,
           changed.active => changed.status # "archived"
    PROVE  \E r \in Rows, new \in Row : WriteStep(r, new) /\ UNCHANGED copy
<1> DEFINE r == tx[u].row
           new == [changed EXCEPT !.version = @ + 1]
           t == [tx[u] EXCEPT !.pc = "written"]
<1>1. r \in Rows /\ tx[u] \in Tx /\ tx[u].seen \in Row
  BY DEF Base, TxInv, TypeOK, Tx
<1>2. /\ new \in Row
      /\ new.version = tx[u].seen.version + 1
      /\ new.active => new.status # "archived"
  BY <1>1 DEF Row
<1>3. t \in Tx /\ Settled(t)
  BY <1>1 DEF Tx, Settled
<1>4. /\ rows' = [rows EXCEPT ![r] = new] /\ UNCHANGED copy /\ Unlock(u)
      /\ tx' = [tx EXCEPT ![u] = t]
  BY DEF Save, Base, TypeOK
<1>5. copy' \in [Users -> [Rows -> Row]]
  BY <1>4 DEF Base, TypeOK
<1> HIDE DEF new, t
<1>6. WriteStep(r, new)
  BY <1>2, <1>3, <1>4, <1>5, HolderWrites
<1> QED BY <1>1, <1>2, <1>4, <1>6

LEMMA SaveInv ==
    ASSUME IInv, NEW u \in Users, tx[u].pc = "locked",
           NEW changed \in Row, Save(u, changed),
           changed.version = tx[u].seen.version,
           changed.active => changed.status # "archived"
    PROVE  IInv'
<1>1. Base
  BY DEF IInv
<1>2. PICK r \in Rows, new \in Row : WriteStep(r, new) /\ UNCHANGED copy
  BY <1>1, SaveWrites
<1> QED BY <1>2, WriteInv

LEMMA CreateWrites ==
    ASSUME Base, NEW u \in Users, NEW r \in Rows, Create(u, r)
    PROVE  \E new \in Row : WriteStep(r, new) /\ UNCHANGED copy
<1>1. PICK new \in Row :
        /\ rows' = [rows EXCEPT ![r] = new]
        /\ new.version = 1 /\ new.status = "open"
  <2>1. PICK v \in Values :
          rows' = [rows EXCEPT ![r] = [version |-> 1, active |-> TRUE, status |-> "open",
                                       value |-> v, tags |-> {}]]
    BY DEF Create
  <2>2. [version |-> 1, active |-> TRUE, status |-> "open", value |-> v, tags |-> {}] \in Row
    BY DEF Row, Statuses
  <2> QED BY <2>1, <2>2
<1>2. /\ new.version = rows[r].version + 1
      /\ new.active => new.status # "archived"
  BY <1>1 DEF Create, Absent
<1>3. UNCHANGED <<copy, lock>> /\ rows[r] = Absent
  BY DEF Create
<1>4. /\ Settled(tx'[u])
      /\ tx' \in [Users -> Tx]
      /\ \A w \in Users \ {u} : tx'[w] = tx[w]
  <2> DEFINE t == [tx[u] EXCEPT !.pc = "written", !.row = r]
  <2>1. tx[u] \in Tx /\ tx' = [tx EXCEPT ![u] = t]
    BY DEF Create, Base, TypeOK
  <2>2. t \in Tx /\ Settled(t)
    BY <2>1 DEF Tx, Settled
  <2>3. tx \in [Users -> Tx]
    BY DEF Base, TypeOK
  <2> HIDE DEF t
  <2> QED BY <2>1, <2>2, <2>3
<1>5. \A w \in Users : tx[w].pc = "locked" => tx[w].row # r /\ lock'[tx[w].row] = w
  BY <1>3 DEF Base, TxInv
<1>6. /\ lock' \in [Rows -> Users \cup {None}]
      /\ copy' \in [Users -> [Rows -> Row]]
  BY <1>3 DEF Base, TypeOK
<1>7. WriteStep(r, new)
  BY <1>1, <1>2, <1>4, <1>5, <1>6 DEF WriteStep
<1> QED BY <1>3, <1>7

-----------------------------------------------------------------------------
(* One lemma per kind of change, then all steps together *)

LEMMA ChangeInv ==
    ASSUME IInv, NEW u \in Users,
           Edit(u) \/ Archive(u) \/ Restore(u) \/ Attach(u) \/ Detach(u)
    PROVE  IInv'
<1> DEFINE seen == tx[u].seen
<1>1. /\ tx[u].pc = "locked"
      /\ seen \in Row
      /\ seen.active => seen.status # "archived"
  <2>1. tx[u].pc = "locked"
    BY DEF Edit, Archive, Restore, Attach, Detach, Doing
  <2> QED BY <2>1 DEF IInv, Base, TxInv, TypeOK, Tx, ActiveNotArchived
<1>2. CASE Edit(u)
  <2>1. PICK v \in Values, s \in Statuses :
          /\ s = "archived" /\ s # seen.status => ~seen.active
          /\ Save(u, [seen EXCEPT !.value = v, !.status = s])
    BY <1>2 DEF Edit
  <2> DEFINE changed == [seen EXCEPT !.value = v, !.status = s]
  <2>2. /\ changed \in Row /\ changed.version = seen.version
        /\ changed.active => changed.status # "archived"
    BY <1>1, <2>1 DEF Row
  <2> QED BY <1>1, <2>1, <2>2, SaveInv
<1>3. CASE Archive(u)
  <2> DEFINE changed == [seen EXCEPT !.active = FALSE, !.status = "archived"]
  <2>1. /\ changed \in Row /\ changed.version = seen.version
        /\ ~changed.active
    BY <1>1 DEF Row, Statuses
  <2> QED BY <1>1, <1>3, <2>1, SaveInv DEF Archive
<1>4. CASE Restore(u)
  <2> DEFINE changed == [seen EXCEPT !.active = TRUE,
                                     !.status = IF @ = "archived" THEN "inactive" ELSE @]
  <2>1. /\ changed \in Row /\ changed.version = seen.version
        /\ changed.status # "archived"
    BY <1>1 DEF Row, Statuses
  <2> QED BY <1>1, <1>4, <2>1, SaveInv DEF Restore
<1>5. CASE Attach(u)
  <2>1. PICK g \in Tags \ seen.tags : Save(u, [seen EXCEPT !.tags = @ \cup {g}])
    BY <1>5 DEF Attach
  <2> DEFINE changed == [seen EXCEPT !.tags = @ \cup {g}]
  <2>2. /\ changed \in Row /\ changed.version = seen.version
        /\ changed.active => changed.status # "archived"
    BY <1>1 DEF Row
  <2> QED BY <1>1, <2>1, <2>2, SaveInv
<1>6. CASE Detach(u)
  <2>1. PICK g \in seen.tags : Save(u, [seen EXCEPT !.tags = @ \ {g}])
    BY <1>6 DEF Detach
  <2> DEFINE changed == [seen EXCEPT !.tags = @ \ {g}]
  <2>2. /\ changed \in Row /\ changed.version = seen.version
        /\ changed.active => changed.status # "archived"
    BY <1>1 DEF Row
  <2> QED BY <1>1, <2>1, <2>2, SaveInv
<1> QED BY <1>2, <1>3, <1>4, <1>5, <1>6

LEMMA NextInv == IInv /\ [Next]_vars => IInv'
<1> SUFFICES ASSUME IInv, [Next]_vars PROVE IInv'
  OBVIOUS
<1> USE DEF IInv
<1>1. ASSUME Base', UNCHANGED <<rows, copy>> PROVE IInv'
  BY <1>1 DEF CopyInv
<1>2. ASSUME NEW u \in Users, NEW r \in Rows, Get(u, r) PROVE IInv'
  BY <1>1, <1>2, ReadRowBase DEF Get, ReadRow
<1>3. ASSUME NEW u \in Users, Answer(u) PROVE IInv'
  <2>1. tx[u].row \in Rows /\ ReadRow(u, tx[u].row)
    BY <1>3 DEF Answer, Base, TxInv
  <2> QED BY <1>1, <2>1, ReadRowBase DEF ReadRow
<1>4. ASSUME NEW u \in Users, NEW r \in Rows, NEW op \in Ops, Lock(u, op, r) PROVE IInv'
  BY <1>1, <1>4, LockBase DEF Lock
<1>5. ASSUME NEW u \in Users, Abort(u) PROVE IInv'
  BY <1>1, <1>5, AbortBase DEF Abort
<1>6. ASSUME NEW u \in Users, NEW r \in Rows, Create(u, r) PROVE IInv'
  <2>1. PICK new \in Row : WriteStep(r, new) /\ UNCHANGED copy
    BY <1>6, CreateWrites
  <2> QED BY <2>1, WriteInv
<1>7. ASSUME NEW u \in Users, ReadTags(u) PROVE IInv'
  <2>1. PICK r \in Rows, new \in Row :
          /\ CopyStep(u, r, new)
          /\ new.version <= rows[r].version
          /\ new.version = rows[r].version => new = rows[r]
    BY <1>7, ReadTagsCopies
  <2>2. /\ Base' /\ copy'[u][r] = new
        /\ \A v \in Users, q \in Rows : v # u \/ q # r => copy'[v][q] = copy[v][q]
    BY <2>1, CopyBase
  <2>3. rows' = rows
    BY <2>1 DEF CopyStep
  <2> QED BY <2>1, <2>2, <2>3 DEF CopyInv
<1>8. CASE UNCHANGED vars
  BY <1>8 DEF vars, Base, TypeOK, TxInv, CopyInv, ActiveNotArchived
<1> QED BY <1>2, <1>3, <1>4, <1>5, <1>6, <1>7, <1>8, ChangeInv DEF Next

LEMMA SpecInv == Spec => []IInv
BY InitInv, NextInv, PTL DEF Spec

-----------------------------------------------------------------------------
(* Theorems *)

\* Every variable keeps its type.
THEOREM TypeCorrect == Spec => []TypeOK
<1>1. IInv => TypeOK
  BY DEF IInv, Base
<1> QED BY <1>1, SpecInv, PTL

\* A user that looks at the current version of a supplier looks at its current
\* content, however reads and tags are interleaved.
THEOREM VersionsNameContents == Spec => []VersionNamesContent
<1>1. IInv => VersionNamesContent
  BY DEF IInv, CopyInv, VersionNamesContent
<1> QED BY <1>1, SpecInv, PTL

\* No active supplier is archived, whatever was edited before it was restored.
THEOREM ActiveStaysOpen == Spec => []ActiveNotArchived
<1>1. IInv => ActiveNotArchived
  BY DEF IInv, Base
<1> QED BY <1>1, SpecInv, PTL

\* A change that names a version overwrites only what its author has seen.
THEOREM UpdatesAreInformed == Spec => NoLostUpdate
<1> DEFINE Kept == \A u \in Users, r \in Rows :
                     (/\ rows'[r] # rows[r]
                      /\ tx[u].row = r
                      /\ \E op \in {"edit", "archive", "restore"} : Doing(u, op) /\ ~Doing(u, op)')
                         => copy[u][r] = rows[r]
<1>1. ASSUME IInv, [Next]_vars PROVE Kept
  <2> SUFFICES ASSUME NEW u \in Users, NEW r \in Rows,
                      rows'[r] # rows[r], tx[u].row = r,
                      NEW op \in {"edit", "archive", "restore"},
                      Doing(u, op), ~Doing(u, op)'
               PROVE  copy[u][r] = rows[r]
    OBVIOUS
  <2>1. tx[u].seen = rows[r]
    BY <1>1 DEF IInv, Base, TxInv, Doing
  <2>2. PICK w \in Users :
          \/ \E q \in Rows : Get(w, q) \/ Create(w, q)
          \/ \E q \in Rows, o \in Ops : Lock(w, o, q)
          \/ Edit(w) \/ Archive(w) \/ Restore(w) \/ Attach(w) \/ Detach(w)
          \/ Answer(w) \/ ReadTags(w)
          \/ Abort(w)
    BY <1>1 DEF Next, vars
  <2>3. w = u
    <3> SUFFICES ASSUME w # u PROVE FALSE
      OBVIOUS
    <3>1. tx'[u] = tx[u]
      BY <1>1, <2>2 DEF IInv, Base, TypeOK, Get, Create, Lock, Edit, Archive, Restore,
                        Attach, Detach, Save, Answer, ReadRow, ReadTags, Abort
    <3> QED BY <3>1 DEF Doing
  <2>4. Edit(u) \/ Archive(u) \/ Restore(u)
    BY <2>2, <2>3 DEF Doing, Get, Create, Lock, Attach, Detach, Answer, ReadRow, ReadTags, Abort
  <2>5. copy[u][r].version = rows[r].version
    BY <2>1, <2>4 DEF Edit, Archive, Restore, ExpectedVersion
  <2> QED BY <1>1, <2>5 DEF IInv, CopyInv
<1> QED BY <1>1, SpecInv, PTL DEF Spec, NoLostUpdate

-----------------------------------------------------------------------------
(* The calls to the shop.  The argument: a retry sleeps no longer than     *)
(* Pause, so a call that is in its attempt a has slept a - 1 times that.   *)

\* The longest sleep between two attempts.
Pause == Larger(Timeout, Backoff * (MaxAttempts - 1))

\* What a call has slept, by its attempt.
Paced(c) ==
    /\ c.st # "none" => c.attempt >= 1 /\ c.slept <= (c.attempt - 1) * Pause
    /\ c.st = "retry" => c.attempt < MaxAttempts

CallInv == call \in [Users -> Call] /\ \A u \in Users : Paced(call[u])

-----------------------------------------------------------------------------
(* Arithmetic *)

\* Products with a common factor.
LEMMA NextMultiple ==
    ASSUME NEW n \in Int, NEW t \in Nat
    PROVE  (n + 1) * t = n * t + t /\ n * t \in Int
OBVIOUS

LEMMA LessMultiple ==
    ASSUME NEW m \in Int, NEW n \in Int, NEW t \in Nat, m <= n
    PROVE  m * t <= n * t
OBVIOUS

LEMMA NaturalSettings ==
    /\ MaxAttempts \in Nat \ {0} /\ Timeout \in Nat /\ Backoff \in Nat
    /\ RetryAfters \subseteq Nat
BY CustomerAssumption

\* The wait before a retry is no longer than Pause, whatever the shop asks for.
LEMMA DelayBounded ==
    ASSUME NEW a \in 1..MaxAttempts, a < MaxAttempts, NEW asked \in Nat
    PROVE  RetryDelay(a, asked) \in Nat /\ RetryDelay(a, asked) <= Pause /\ Pause \in Nat
<1>1. a \in Nat /\ MaxAttempts - 1 \in Nat /\ a <= MaxAttempts - 1
  BY NaturalSettings
<1>2. a * Backoff <= (MaxAttempts - 1) * Backoff
  BY <1>1, NaturalSettings, LessMultiple
<1> DEFINE base == Backoff * a  most == Backoff * (MaxAttempts - 1)
<1>3. base \in Nat /\ most \in Nat /\ base = a * Backoff /\ most = (MaxAttempts - 1) * Backoff
  BY <1>1, NaturalSettings
<1>4. base <= most
  BY <1>2, <1>3
<1>5. RetryDelay(a, asked) = Larger(base, IF asked < Timeout THEN asked ELSE Timeout)
  BY DEF RetryDelay
<1>6. Pause = Larger(Timeout, most)
  BY DEF Pause
<1> HIDE DEF base, most
<1> QED BY <1>3, <1>4, <1>5, <1>6, NaturalSettings DEF Larger

LEMMA PauseNat == Pause \in Nat
<1>1. MaxAttempts - 1 \in Nat
  BY NaturalSettings
<1>2. Backoff * (MaxAttempts - 1) \in Nat
  BY <1>1, NaturalSettings
<1> QED BY <1>2, NaturalSettings DEF Pause, Larger

-----------------------------------------------------------------------------
(* Steps of one call *)

LEMMA OneCall ==
    ASSUME CallInv, NEW u \in Users, NEW c \in Call, Paced(c),
           call' = [call EXCEPT ![u] = c]
    PROVE  CallInv'
<1>1. call' \in [Users -> Call]
  BY DEF CallInv
<1>2. \A v \in Users : Paced(call'[v])
  BY DEF CallInv
<1> QED BY <1>1, <1>2 DEF CallInv, Paced

LEMMA NoCallPaced == NoCall \in Call /\ Paced(NoCall)
BY NaturalSettings DEF NoCall, Call, Paced

LEMMA StartCallInv ==
    ASSUME CallInv, NEW u \in Users, NEW r \in Profiles, StartCall(u, r)
    PROVE  CallInv'
<1> DEFINE c == [row |-> r, attempt |-> 1, slept |-> 0, st |-> "send"]
<1>1. c \in Call
  BY NaturalSettings DEF Call
<1>2. c.st = "send" /\ c.attempt = 1 /\ c.slept = 0
  OBVIOUS
<1>3. call' = [call EXCEPT ![u] = c]
  BY DEF StartCall
<1> HIDE DEF c
<1>4. (1 - 1) * Pause = 0
  BY PauseNat
<1>5. Paced(c)
  BY <1>2, <1>4 DEF Paced
<1> QED BY <1>1, <1>3, <1>5, OneCall

LEMMA AttemptInv ==
    ASSUME CallInv, NEW u \in Users, Attempt(u)
    PROVE  CallInv'
<1>1. /\ call[u] \in Call /\ Paced(call[u]) /\ call[u].st = "send"
      /\ call[u].attempt \in 0..MaxAttempts
  BY DEF CallInv, Attempt, Call
<1>2. ASSUME NEW st \in {"valid", "failed", "retry"},
             st = "retry" => call[u].attempt < MaxAttempts,
             call' = [call EXCEPT ![u].st = st]
      PROVE  CallInv'
  <2> DEFINE c == [call[u] EXCEPT !.st = st]
  <2>1. call' = [call EXCEPT ![u] = c]
    BY <1>2 DEF CallInv
  <2>2. c \in Call /\ c.st = st /\ c.attempt = call[u].attempt /\ c.slept = call[u].slept
    BY <1>1 DEF Call
  <2> HIDE DEF c
  <2>3. Paced(c)
    BY <1>1, <1>2, <2>2 DEF Paced
  <2> QED BY <2>1, <2>2, <2>3, OneCall
<1>3. CASE Answered(u)
  BY <1>2, <1>3 DEF Answered
<1>4. CASE Unavailable(u)
  <2>1. CASE call[u].attempt < MaxAttempts
    BY <1>2, <1>4, <2>1 DEF Unavailable
  <2>2. CASE ~ (call[u].attempt < MaxAttempts)
    BY <1>2, <1>4, <2>2 DEF Unavailable
  <2> QED BY <2>1, <2>2
<1> QED BY <1>3, <1>4 DEF Attempt

LEMMA RetryInv ==
    ASSUME CallInv, NEW u \in Users, Retry(u)
    PROVE  CallInv'
<1> DEFINE a == call[u].attempt  slept == call[u].slept
<1>1. /\ call[u] \in Call /\ Paced(call[u]) /\ call[u].st = "retry"
      /\ a \in 0..MaxAttempts /\ slept \in Nat
  BY DEF CallInv, Retry, Call
<1>2. a >= 1 /\ a < MaxAttempts /\ slept <= (a - 1) * Pause
  BY <1>1 DEF Paced
<1>3. PICK asked \in RetryAfters :
         call' = [call EXCEPT ![u].st = "send", ![u].attempt = @ + 1,
                              ![u].slept = @ + RetryDelay(a, asked)]
  BY DEF Retry
<1> DEFINE wait == RetryDelay(a, asked)
<1>4. wait \in Nat /\ wait <= Pause
  <2>1. a \in 1..MaxAttempts /\ asked \in Nat
    BY <1>1, <1>2, NaturalSettings
  <2> QED BY <1>2, <2>1, DelayBounded
<1>5. call' = [call EXCEPT ![u].st = "send", ![u].attempt = @ + 1, ![u].slept = @ + wait]
  BY <1>3
<1> HIDE DEF wait
<1> DEFINE next == a + 1
           sum == slept + wait
           c == [call[u] EXCEPT !.st = "send", !.attempt = next, !.slept = sum]
<1>6. call' = [call EXCEPT ![u] = c]
  BY <1>5 DEF CallInv
<1>7. next \in 0..MaxAttempts /\ sum \in Nat /\ next = a + 1 /\ sum = slept + wait
  BY <1>1, <1>2, <1>4, NaturalSettings
<1> HIDE DEF next, sum
<1>8. c \in Call
  BY <1>1, <1>7 DEF Call
<1>9. c.st = "send" /\ c.attempt = a + 1 /\ c.slept = slept + wait
  BY <1>1, <1>7 DEF Call
<1> HIDE DEF c
<1>10. (a - 1) + 1 = a /\ a - 1 \in Int /\ (a + 1) - 1 = a
  BY <1>1
<1>11. a * Pause = (a - 1) * Pause + Pause /\ (a - 1) * Pause \in Int
  BY <1>10, NextMultiple, PauseNat
<1>12. slept + wait <= a * Pause
  BY <1>1, <1>2, <1>4, <1>11, PauseNat
<1>13. Paced(c)
  BY <1>1, <1>9, <1>10, <1>12 DEF Paced
<1> QED BY <1>6, <1>8, <1>13, OneCall

LEMMA StepInv == CallInv /\ [CustomerNext]_cvars => CallInv'
<1> SUFFICES ASSUME CallInv, [CustomerNext]_cvars PROVE CallInv'
  OBVIOUS
<1>1. CASE UNCHANGED call
  BY <1>1 DEF CallInv, Paced
<1>2. ASSUME NEW u \in Users, EndCall(u) \/ CreateCustomer(u)
      PROVE  CallInv'
  <2>1. call' = [call EXCEPT ![u] = NoCall]
    BY <1>2 DEF EndCall, CreateCustomer
  <2> QED BY <2>1, NoCallPaced, OneCall
<1>3. ASSUME NEW u \in Users,
             \/ UpdateCustomer(u) \/ AssignOwner(u) \/ ArchiveCustomer(u)
             \/ RestoreCustomer(u) \/ AttachTag(u) \/ DetachTag(u) \/ AnswerUnchanged(u)
             \/ (\E r \in Rows : CreateNote(u, r)) \/ UpdateNote(u)
      PROVE  UNCHANGED call
  BY <1>3 DEF UpdateCustomer, AssignOwner, ArchiveCustomer, RestoreCustomer, AttachTag,
              DetachTag, AnswerUnchanged, CreateNote, UpdateNote, Written, OffTheCall
<1>4. CASE CustomerNext
  <2>1. PICK u \in Users :
            \/ \E r \in Profiles : StartCall(u, r)
            \/ Attempt(u) \/ Retry(u) \/ EndCall(u) \/ CreateCustomer(u)
            \/ UNCHANGED call
    BY <1>3, <1>4 DEF CustomerNext, OffTheCall
  <2> QED BY <1>1, <1>2, <2>1, StartCallInv, AttemptInv, RetryInv
<1> QED BY <1>1, <1>4 DEF cvars

\* Whatever the shop asks for, a request sleeps between two attempts no longer
\* than the timeout or the longest backoff, and makes no more than the allowed
\* attempts (_get_json), under any settings.
THEOREM SleepsBounded == CustomerSpec => []SleepBounded
<1>1. CustomerInit => CallInv
  BY NoCallPaced DEF CustomerInit, CallInv, Paced
<1>2. CallInv /\ [CustomerNext]_cvars => CallInv'
  BY StepInv
<1>3. CallInv => SleepBounded
  BY DEF CallInv, Paced, SleepBounded, Pause
<1> QED BY <1>1, <1>2, <1>3, PTL DEF CustomerSpec

-----------------------------------------------------------------------------
(* What the users see of customers.  An answer is not read again, so a     *)
(* copy may miss the one tag a change was about; the next change of the    *)
(* row, by whomever, makes it an old copy.                                 *)

\* The tags in which two sets of tags differ.
Differing(s, t) == (s \ t) \cup (t \ s)

Near(c, row) ==
    /\ c.version <= row.version
    /\ c.version = row.version =>
          c = [row EXCEPT !.tags = c.tags] /\ Cardinality(Differing(c.tags, row.tags)) <= 1

\* A call is about a customer, and one that waits has an attempt left.
CallShape ==
    /\ call \in [Users -> Call]
    /\ \A u \in Users :
          /\ call[u].st # "none" => call[u].row \in Profiles
          /\ call[u].st = "retry" => call[u].attempt < MaxAttempts

CopiesNear == \A u \in Users, r \in Rows : Near(copy[u][r], rows[r])

CustomerInv == Base /\ CopiesNear /\ CallShape

LEMMA NearSame ==
    ASSUME NEW c \in Row, NEW row \in Row,
           c.version <= row.version, c.version = row.version => c = row
    PROVE  Near(c, row)
<1>1. Differing(row.tags, row.tags) = {}
  BY DEF Differing
<1>2. Cardinality(Differing(row.tags, row.tags)) <= 1
  BY <1>1, FS_EmptySet
<1>3. row = [row EXCEPT !.tags = row.tags]
  BY DEF Row
<1> QED BY <1>2, <1>3 DEF Near

\* A tag more or less.
LEMMA DifferingByOne ==
    ASSUME NEW s, NEW t, NEW g,
           \/ s = t
           \/ g \notin t /\ s = t \cup {g}
           \/ g \in t /\ s = t \ {g}
    PROVE  Cardinality(Differing(t, s)) <= 1
<1>1. Differing(t, s) = {} \/ Differing(t, s) = {g}
  BY DEF Differing
<1>2. Cardinality({}) = 0 /\ Cardinality({g}) = 1
  BY FS_EmptySet, FS_Singleton
<1> QED BY <1>1, <1>2

LEMMA NewCopyNear ==
    ASSUME CustomerInv, NEW u \in Users, NEW r \in Rows, NEW new \in Row,
           CopyStep(u, r, new), Near(new, rows[r])
    PROVE  Base' /\ CopiesNear'
<1>1. /\ Base' /\ copy'[u][r] = new
      /\ \A v \in Users, q \in Rows : v # u \/ q # r => copy'[v][q] = copy[v][q]
  BY CopyBase DEF CustomerInv
<1>2. rows' = rows
  BY DEF CopyStep
<1>3. ASSUME NEW v \in Users, NEW q \in Rows
      PROVE  Near(copy'[v][q], rows'[q])
  <2>1. Near(copy[v][q], rows[q])
    BY DEF CustomerInv, CopiesNear
  <2> QED BY <1>1, <1>2, <2>1
<1> QED BY <1>1, <1>3 DEF CopiesNear

\* A row is written; only its author's copy may change, to what it was answered.
LEMMA WrittenNear ==
    ASSUME CustomerInv, NEW u \in Users, NEW r \in Rows, NEW new \in Row, WriteStep(r, new),
           NEW c \in Row, Near(c, new),
           UNCHANGED copy \/ copy' = [copy EXCEPT ![u][r] = c]
    PROVE  Base' /\ CopiesNear'
<1>1. Base'
  BY WriteBase DEF CustomerInv
<1>2. ASSUME NEW v \in Users, NEW q \in Rows
      PROVE  Near(copy'[v][q], rows'[q])
  <2>1. /\ Near(copy[v][q], rows[q])
        /\ copy[v][q] \in Row /\ rows[q] \in Row
        /\ copy \in [Users -> [Rows -> Row]] /\ rows \in [Rows -> Row]
    BY DEF CustomerInv, CopiesNear, Base, TypeOK
  <2>2. CASE q # r
    <3>1. copy'[v][q] = copy[v][q] /\ rows'[q] = rows[q]
      BY <2>1, <2>2 DEF WriteStep
    <3> QED BY <2>1, <3>1
  <2>3. CASE q = r /\ copy'[v][q] = copy[v][q]
    <3>1. rows'[q].version = rows[q].version + 1
      BY <2>1, <2>3 DEF WriteStep
    <3> QED BY <2>1, <2>3, <3>1 DEF Near, Row
  <2>4. CASE q = r /\ copy'[v][q] # copy[v][q]
    <3>1. copy'[v][q] = c
      BY <2>1, <2>4
    <3>2. rows'[q] = new
      BY <2>1, <2>4 DEF WriteStep
    <3> QED BY <3>1, <3>2
  <2> QED BY <2>2, <2>3, <2>4
<1> QED BY <1>1, <1>2 DEF CopiesNear

-----------------------------------------------------------------------------
(* Calls *)

LEMMA OneShape ==
    ASSUME CallShape, NEW u \in Users, NEW c \in Call, call' = [call EXCEPT ![u] = c],
           c.st # "none" => c.row \in Profiles,
           c.st = "retry" => c.attempt < MaxAttempts
    PROVE  CallShape'
BY DEF CallShape

LEMMA NoCallShape ==
    ASSUME CallShape, NEW u \in Users, call' = [call EXCEPT ![u] = NoCall]
    PROVE  CallShape'
<1>1. NoCall \in Call /\ NoCall.st = "none"
  BY NaturalSettings DEF NoCall, Call
<1> QED BY <1>1, OneShape

LEMMA AttemptShape ==
    ASSUME CallShape, NEW u \in Users, Attempt(u)
    PROVE  CallShape'
<1>1. call[u] \in Call /\ call[u].row \in Profiles /\ call \in [Users -> Call]
  BY DEF CallShape, Attempt
<1>2. ASSUME NEW st \in {"valid", "failed", "retry"},
             st = "retry" => call[u].attempt < MaxAttempts,
             call' = [call EXCEPT ![u].st = st]
      PROVE  CallShape'
  <2> DEFINE c == [call[u] EXCEPT !.st = st]
  <2>1. /\ c \in Call /\ c.st = st
        /\ c.row = call[u].row /\ c.attempt = call[u].attempt
    BY <1>1 DEF Call
  <2>2. call' = [call EXCEPT ![u] = c]
    BY <1>1, <1>2
  <2> HIDE DEF c
  <2> QED BY <1>1, <1>2, <2>1, <2>2, OneShape
<1>3. CASE Unavailable(u)
  <2>1. CASE call[u].attempt < MaxAttempts
    BY <1>2, <1>3, <2>1 DEF Unavailable
  <2>2. CASE ~ (call[u].attempt < MaxAttempts)
    BY <1>2, <1>3, <2>2 DEF Unavailable
  <2> QED BY <2>1, <2>2
<1>4. CASE Answered(u)
  BY <1>2, <1>4 DEF Answered
<1> QED BY <1>3, <1>4 DEF Attempt

LEMMA RetryShape ==
    ASSUME CallShape, NEW u \in Users, Retry(u)
    PROVE  CallShape'
<1>1. /\ call[u] \in Call /\ call[u].row \in Profiles /\ call[u].slept \in Nat
      /\ call[u].attempt \in 0..MaxAttempts /\ call[u].attempt < MaxAttempts
      /\ call \in [Users -> Call]
  BY DEF CallShape, Retry, Call
<1>2. PICK asked \in RetryAfters :
         call' = [call EXCEPT ![u].st = "send", ![u].attempt = @ + 1,
                              ![u].slept = @ + RetryDelay(call[u].attempt, asked)]
  BY DEF Retry
<1> DEFINE wait == RetryDelay(call[u].attempt, asked)
           base == Backoff * call[u].attempt
<1>3. wait \in Nat
  <2>1. base \in Nat
    BY <1>1, NaturalSettings
  <2>2. wait = Larger(base, IF asked < Timeout THEN asked ELSE Timeout)
    BY DEF RetryDelay
  <2> HIDE DEF base, wait
  <2>3. asked \in Nat
    BY NaturalSettings
  <2> QED BY <2>1, <2>2, <2>3, NaturalSettings DEF Larger
<1> DEFINE next == call[u].attempt + 1
           sum == call[u].slept + wait
           c == [call[u] EXCEPT !.st = "send", !.attempt = next, !.slept = sum]
<1>4. call' = [call EXCEPT ![u] = c]
  BY <1>1, <1>2
<1> HIDE DEF wait
<1>5. next \in 0..MaxAttempts /\ sum \in Nat
  BY <1>1, <1>3, NaturalSettings
<1> HIDE DEF next, sum
<1>6. c \in Call /\ c.st = "send" /\ c.row = call[u].row
  BY <1>1, <1>5 DEF Call
<1> HIDE DEF c
<1> QED BY <1>1, <1>4, <1>6, OneShape

LEMMA StartShape ==
    ASSUME CallShape, NEW u \in Users, NEW r \in Profiles, StartCall(u, r)
    PROVE  CallShape'
<1> DEFINE c == [row |-> r, attempt |-> 1, slept |-> 0, st |-> "send"]
<1>1. c \in Call /\ c.st = "send" /\ c.row = r
  BY NaturalSettings DEF Call
<1>2. call' = [call EXCEPT ![u] = c]
  BY DEF StartCall
<1> HIDE DEF c
<1> QED BY <1>1, <1>2, OneShape

-----------------------------------------------------------------------------
(* Changes of customers *)

\* The author of a change is answered with the columns as they are committed
\* and the tags as they were loaded.
LEMMA WrittenInv ==
    ASSUME CustomerInv, NEW u \in Users, tx[u].pc = "locked",
           NEW row \in Row, Written(u, row),
           row.version = tx[u].seen.version,
           row.active => row.status # "archived",
           Cardinality(Differing(tx[u].seen.tags, row.tags)) <= 1
    PROVE  CustomerInv'
<1> DEFINE r == tx[u].row
           old == tx[u].seen.tags
           new == [row EXCEPT !.version = @ + 1]
           c == [row EXCEPT !.version = @ + 1, !.tags = old]
<1>1. /\ Base /\ r \in Rows /\ tx[u].seen \in Row /\ old \in SUBSET Tags
      /\ copy \in [Users -> [Rows -> Row]]
  BY DEF CustomerInv, Base, TxInv, TypeOK, Tx, Row
<1>2. /\ new \in Row /\ c \in Row
      /\ new.version = tx[u].seen.version + 1
      /\ new.active => new.status # "archived"
  <2>1. row.version + 1 \in Nat
    BY DEF Row
  <2>2. new \in Row
    BY <2>1 DEF Row
  <2>3. c \in Row
    BY <1>1, <2>1 DEF Row
  <2>4. new.version = row.version + 1 /\ new.active = row.active /\ new.status = row.status
    BY DEF Row
  <2> HIDE DEF new, c
  <2> QED BY <2>2, <2>3, <2>4
<1>3. c.version = new.version /\ c.tags = old /\ new.tags = row.tags
      /\ c = [new EXCEPT !.tags = old]
  BY <1>1 DEF Row
<1>4. Near(c, new)
  <2>1. c.version \in Nat
    BY <1>2 DEF Row
  <2> HIDE DEF c, new
  <2> QED BY <1>3, <2>1 DEF Near
<1>5. /\ rows' = [rows EXCEPT ![r] = new] /\ copy' = [copy EXCEPT ![u][r] = c]
      /\ Unlock(u) /\ tx' = [tx EXCEPT ![u] = IdleTx]
      /\ UNCHANGED call
  BY DEF Written, OffTheCall
<1>6. Settled(IdleTx) /\ IdleTx \in Tx
  BY AbsentType DEF Settled, IdleTx
<1> HIDE DEF new, c
<1>7. copy' \in [Users -> [Rows -> Row]]
  BY <1>1, <1>2, <1>5
<1>8. WriteStep(r, new)
  BY <1>1, <1>2, <1>5, <1>6, <1>7, HolderWrites
<1>9. Base' /\ CopiesNear'
  BY <1>1, <1>2, <1>4, <1>5, <1>8, WrittenNear
<1>10. CallShape'
  BY <1>5 DEF CustomerInv, CallShape
<1> QED BY <1>9, <1>10 DEF CustomerInv

LEMMA CustomerChangeInv ==
    ASSUME CustomerInv, NEW u \in Users,
           \/ UpdateCustomer(u) \/ AssignOwner(u) \/ ArchiveCustomer(u)
           \/ RestoreCustomer(u) \/ AttachTag(u) \/ DetachTag(u)
    PROVE  CustomerInv'
<1> DEFINE seen == tx[u].seen
<1>1. tx[u].pc = "locked"
  BY DEF UpdateCustomer, AssignOwner, ArchiveCustomer, RestoreCustomer, AttachTag, DetachTag,
         Changing, Doing
<1>2. /\ seen \in Row
      /\ seen.active => seen.status # "archived"
  BY <1>1 DEF CustomerInv, Base, TxInv, TypeOK, Tx, ActiveNotArchived
<1>3. Cardinality(Differing(seen.tags, seen.tags)) <= 1
  BY DifferingByOne
<1>4. CASE UpdateCustomer(u)
  <2>1. PICK v \in Values, s \in Statuses :
          /\ ~ (s = "archived" /\ seen.active)
          /\ Written(u, [seen EXCEPT !.value = v, !.status = s])
    BY <1>4 DEF UpdateCustomer
  <2> DEFINE row == [seen EXCEPT !.value = v, !.status = s]
  <2>2. /\ row \in Row /\ row.version = seen.version /\ row.tags = seen.tags
        /\ row.active => row.status # "archived"
    BY <1>2, <2>1 DEF Row
  <2>3. Written(u, row)
    BY <2>1
  <2> HIDE DEF row
  <2> QED BY <1>1, <1>3, <2>2, <2>3, WrittenInv
<1>5. CASE AssignOwner(u)
  <2>1. PICK o \in Owners : Written(u, [seen EXCEPT !.value = <<o, seen.value[2]>>])
    BY <1>5 DEF AssignOwner
  <2> DEFINE row == [seen EXCEPT !.value = <<o, seen.value[2]>>]
  <2>2. <<o, seen.value[2]>> \in Values
    <3>1. seen.value \in Values
      BY <1>2 DEF Row
    <3>2. Values = Owners \X Labels
      BY CustomerAssumption
    <3> HIDE DEF seen
    <3>3. seen.value[2] \in Labels
      BY <3>1, <3>2
    <3> QED BY <3>2, <3>3
  <2>3. /\ row \in Row /\ row.version = seen.version /\ row.tags = seen.tags
        /\ row.active => row.status # "archived"
    BY <1>2, <2>2 DEF Row
  <2>4. Written(u, row)
    BY <2>1
  <2> HIDE DEF row
  <2> QED BY <1>1, <1>3, <2>3, <2>4, WrittenInv
<1>6. CASE ArchiveCustomer(u)
  <2> DEFINE row == [seen EXCEPT !.active = FALSE, !.status = "archived"]
  <2>1. /\ row \in Row /\ row.version = seen.version /\ row.tags = seen.tags
        /\ ~ row.active
    BY <1>2 DEF Row, Statuses
  <2>2. Written(u, row)
    BY <1>6 DEF ArchiveCustomer
  <2> HIDE DEF row
  <2> QED BY <1>1, <1>3, <2>1, <2>2, WrittenInv
<1>7. CASE RestoreCustomer(u)
  <2> DEFINE row == [seen EXCEPT !.active = TRUE,
                                 !.status = IF @ = "archived" THEN "inactive" ELSE @]
  <2>1. /\ row \in Row /\ row.version = seen.version /\ row.tags = seen.tags
        /\ row.status # "archived"
    BY <1>2 DEF Row, Statuses
  <2>2. Written(u, row)
    BY <1>7 DEF RestoreCustomer
  <2> HIDE DEF row
  <2> QED BY <1>1, <1>3, <2>1, <2>2, WrittenInv
<1>8. CASE AttachTag(u)
  <2>1. PICK g \in Tags \ seen.tags : Written(u, [seen EXCEPT !.tags = @ \cup {g}])
    BY <1>8 DEF AttachTag
  <2> DEFINE row == [seen EXCEPT !.tags = @ \cup {g}]
  <2>2. /\ row \in Row /\ row.version = seen.version /\ row.tags = seen.tags \cup {g}
        /\ row.active => row.status # "archived"
    BY <1>2 DEF Row
  <2>3. Cardinality(Differing(seen.tags, row.tags)) <= 1
    BY <2>2, DifferingByOne
  <2>4. Written(u, row)
    BY <2>1
  <2> HIDE DEF row
  <2> QED BY <1>1, <2>2, <2>3, <2>4, WrittenInv
<1>9. CASE DetachTag(u)
  <2>1. PICK g \in seen.tags : Written(u, [seen EXCEPT !.tags = @ \ {g}])
    BY <1>9 DEF DetachTag
  <2> DEFINE row == [seen EXCEPT !.tags = @ \ {g}]
  <2>2. /\ row \in Row /\ row.version = seen.version /\ row.tags = seen.tags \ {g}
        /\ row.active => row.status # "archived"
    BY <1>2 DEF Row
  <2>3. Cardinality(Differing(seen.tags, row.tags)) <= 1
    BY <2>2, DifferingByOne
  <2>4. Written(u, row)
    BY <2>1
  <2> HIDE DEF row
  <2> QED BY <1>1, <2>2, <2>3, <2>4, WrittenInv
<1> QED BY <1>4, <1>5, <1>6, <1>7, <1>8, <1>9

LEMMA AnswerUnchangedInv ==
    ASSUME CustomerInv, NEW u \in Users, AnswerUnchanged(u)
    PROVE  CustomerInv'
<1> DEFINE r == tx[u].row
           seen == tx[u].seen
<1>1. r \in Rows /\ seen \in Row /\ seen = rows[r] /\ rows[r] \in Row
  BY DEF AnswerUnchanged, CustomerInv, Base, TxInv, TypeOK, Tx
<1>2. CopyStep(u, r, seen)
  BY DEF AnswerUnchanged, CopyStep, Unlock, CustomerInv, Base, TypeOK
<1>3. seen.version <= rows[r].version
  BY <1>1 DEF Row
<1>4. Near(seen, rows[r])
  BY <1>1, <1>3, NearSame
<1>5. Base' /\ CopiesNear'
  BY <1>1, <1>2, <1>4, NewCopyNear
<1>6. CallShape'
  BY DEF AnswerUnchanged, OffTheCall, CustomerInv, CallShape
<1> QED BY <1>5, <1>6 DEF CustomerInv

LEMMA ReadTagsNear ==
    ASSUME CustomerInv, NEW u \in Users, ReadTags(u)
    PROVE  Base' /\ CopiesNear'
<1>1. PICK r \in Rows, new \in Row :
        /\ CopyStep(u, r, new)
        /\ new.version <= rows[r].version
        /\ new.version = rows[r].version => new = rows[r]
  BY ReadTagsCopies DEF CustomerInv
<1>2. rows[r] \in Row
  BY DEF CustomerInv, Base, TypeOK
<1>3. Near(new, rows[r])
  BY <1>1, <1>2, NearSame
<1> QED BY <1>1, <1>3, NewCopyNear

\* A customer is written by a request that holds no lock: the row is not there,
\* so nobody else holds it either.
LEMMA CreateCustomerInv ==
    ASSUME CustomerInv, NEW u \in Users, CreateCustomer(u)
    PROVE  CustomerInv'
<1> DEFINE r == call[u].row
<1>1. /\ r \in Profiles /\ r \in Rows /\ rows[r] = Absent
      /\ Base /\ CallShape
      /\ call' = [call EXCEPT ![u] = NoCall] /\ UNCHANGED <<lock, tx>>
  BY RecordsAssumption DEF CreateCustomer, CustomerInv, CallShape
<1>2. PICK new \in Row :
        /\ new.version = 1 /\ new.status = "open"
        /\ rows' = [rows EXCEPT ![r] = new]
        /\ copy' = [copy EXCEPT ![u][r] = new]
  <2>1. PICK v \in Values :
          LET n == [version |-> 1, active |-> TRUE, status |-> "open", value |-> v, tags |-> {}]
          IN  rows' = [rows EXCEPT ![r] = n] /\ copy' = [copy EXCEPT ![u][r] = n]
    BY DEF CreateCustomer
  <2> DEFINE n == [version |-> 1, active |-> TRUE, status |-> "open", value |-> v, tags |-> {}]
  <2>2. n \in Row /\ n.version = 1 /\ n.status = "open"
    BY DEF Row, Statuses
  <2>3. rows' = [rows EXCEPT ![r] = n] /\ copy' = [copy EXCEPT ![u][r] = n]
    BY <2>1
  <2> HIDE DEF n
  <2> QED BY <2>2, <2>3
<1>3. new.version = rows[r].version + 1
  BY <1>1, <1>2 DEF Absent
<1>4. \A w \in Users : tx[w].pc = "locked" => tx[w].row # r /\ lock'[tx[w].row] = w
  BY <1>1 DEF Base, TxInv
<1>5. /\ copy' \in [Users -> [Rows -> Row]] /\ lock' \in [Rows -> Users \cup {None}]
      /\ tx' \in [Users -> Tx]
  BY <1>1, <1>2 DEF Base, TypeOK
<1>6. WriteStep(r, new)
  BY <1>1, <1>2, <1>3, <1>4, <1>5 DEF WriteStep
<1>7. Near(new, new)
  BY <1>2, NearSame
<1>8. Base' /\ CopiesNear'
  BY <1>1, <1>2, <1>6, <1>7, WrittenNear
<1>9. CallShape'
  BY <1>1, NoCallShape
<1> QED BY <1>8, <1>9 DEF CustomerInv

\* Notes are the rows of SharedRecords.
LEMMA NoteInv ==
    ASSUME CustomerInv, NEW u \in Users,
           (\E r \in Rows : CreateNote(u, r)) \/ UpdateNote(u)
    PROVE  Base' /\ CopiesNear'
<1>1. ASSUME NEW r \in Rows, NEW new \in Row, WriteStep(r, new), UNCHANGED copy
      PROVE  Base' /\ CopiesNear'
  <2>1. Near(new, new)
    <3>1. new.version <= new.version
      BY DEF Row
    <3> QED BY <3>1, NearSame
  <2> QED BY <1>1, <2>1, WrittenNear
<1>2. CASE \E r \in Rows : CreateNote(u, r)
  <2>1. PICK r \in Rows : Create(u, r)
    BY <1>2 DEF CreateNote
  <2>2. PICK new \in Row : WriteStep(r, new) /\ UNCHANGED copy
    BY <2>1, CreateWrites DEF CustomerInv
  <2> QED BY <1>1, <2>2
<1>3. CASE UpdateNote(u)
  <2>1. tx[u].pc = "locked"
    BY <1>3 DEF UpdateNote, Doing
  <2> DEFINE seen == tx[u].seen
  <2>2. seen \in Row /\ (seen.active => seen.status # "archived")
    BY <2>1 DEF CustomerInv, Base, TxInv, TypeOK, Tx, ActiveNotArchived
  <2>3. PICK v \in Values : Save(u, [seen EXCEPT !.value = v])
    BY <1>3 DEF UpdateNote
  <2> DEFINE changed == [seen EXCEPT !.value = v]
  <2>4. /\ changed \in Row /\ changed.version = seen.version
        /\ changed.active => changed.status # "archived"
    BY <2>2 DEF Row
  <2>5. Save(u, changed)
    BY <2>3
  <2> HIDE DEF changed
  <2>6. PICK r \in Rows, new \in Row : WriteStep(r, new) /\ UNCHANGED copy
    BY <2>1, <2>4, <2>5, SaveWrites DEF CustomerInv
  <2> QED BY <1>1, <2>6
<1> QED BY <1>2, <1>3

LEMMA CustomerNextInv == CustomerInv /\ [CustomerNext]_cvars => CustomerInv'
<1> SUFFICES ASSUME CustomerInv, [CustomerNext]_cvars PROVE CustomerInv'
  OBVIOUS
<1>1. Base /\ CopiesNear /\ CallShape
  BY DEF CustomerInv
<1>2. ASSUME UNCHANGED call PROVE CallShape'
  BY <1>1, <1>2 DEF CallShape
<1>3. ASSUME UNCHANGED <<rows, copy>> PROVE CopiesNear'
  BY <1>1, <1>3 DEF CopiesNear
<1>4. ASSUME UNCHANGED vars PROVE Base' /\ CopiesNear'
  BY <1>1, <1>3, <1>4 DEF vars, Base, TypeOK, TxInv, ActiveNotArchived
<1>5. ASSUME NEW u \in Users, NEW r \in Profiles, StartCall(u, r) PROVE CustomerInv'
  BY <1>1, <1>4, <1>5, StartShape DEF StartCall, CustomerInv
<1>6. ASSUME NEW u \in Users, Attempt(u) PROVE CustomerInv'
  BY <1>1, <1>4, <1>6, AttemptShape DEF Attempt, CustomerInv
<1>7. ASSUME NEW u \in Users, Retry(u) PROVE CustomerInv'
  BY <1>1, <1>4, <1>7, RetryShape DEF Retry, CustomerInv
<1>8. ASSUME NEW u \in Users, EndCall(u) PROVE CustomerInv'
  BY <1>1, <1>4, <1>8, NoCallShape DEF EndCall, CustomerInv
<1>9. ASSUME NEW u \in Users, NEW r \in Rows, Get(u, r) \/ (Answer(u) /\ r = tx[u].row),
             OffTheCall
      PROVE  CustomerInv'
  <2>1. ReadRow(u, r)
    BY <1>9 DEF Get, Answer
  <2> QED BY <1>1, <1>2, <1>3, <1>9, <2>1, ReadRowBase DEF ReadRow, OffTheCall, CustomerInv
<1>10. ASSUME NEW u \in Users, NEW r \in Rows, NEW op \in Ops, Lock(u, op, r), OffTheCall
       PROVE  CustomerInv'
  BY <1>1, <1>2, <1>3, <1>10, LockBase DEF Lock, OffTheCall, CustomerInv
<1>11. ASSUME NEW u \in Users, Abort(u), OffTheCall PROVE CustomerInv'
  BY <1>1, <1>2, <1>3, <1>11, AbortBase DEF Abort, OffTheCall, CustomerInv
<1>12. ASSUME NEW u \in Users, ReadTags(u), OffTheCall PROVE CustomerInv'
  BY <1>2, <1>12, ReadTagsNear DEF OffTheCall, CustomerInv
<1>13. ASSUME NEW u \in Users, (\E r \in Rows : CreateNote(u, r)) \/ UpdateNote(u)
       PROVE  CustomerInv'
  <2>1. UNCHANGED call
    BY <1>13 DEF CreateNote, UpdateNote, OffTheCall
  <2> QED BY <1>2, <1>13, <2>1, NoteInv DEF CustomerInv
<1>14. ASSUME NEW u \in Users, Answer(u), OffTheCall PROVE CustomerInv'
  <2>1. tx[u].row \in Rows
    BY <1>1, <1>14 DEF Answer, Base, TxInv
  <2> QED BY <1>9, <1>14, <2>1
<1>15. CASE UNCHANGED cvars
  BY <1>2, <1>4, <1>15 DEF cvars, CustomerInv
<1>16. CASE CustomerNext
  BY <1>5, <1>6, <1>7, <1>8, <1>9, <1>10, <1>11, <1>12, <1>13, <1>14, <1>16,
     CreateCustomerInv, CustomerChangeInv, AnswerUnchangedInv DEF CustomerNext
<1> QED BY <1>15, <1>16

LEMMA CustomerInitInv == CustomerInit => CustomerInv
<1> SUFFICES ASSUME CustomerInit PROVE CustomerInv
  OBVIOUS
<1>1. Base
  BY InitBase DEF CustomerInit
<1>2. ASSUME NEW u \in Users, NEW r \in Rows
      PROVE  Near(copy[u][r], rows[r])
  <2>1. copy[u][r] = Absent /\ rows[r] = Absent
    BY DEF CustomerInit, Init
  <2>2. Absent.version <= Absent.version
    BY DEF Absent
  <2> QED BY <2>1, <2>2, AbsentType, NearSame
<1>3. CallShape
  <2>1. NoCall \in Call /\ NoCall.st = "none"
    BY NaturalSettings DEF NoCall, Call
  <2> QED BY <2>1 DEF CustomerInit, CallShape
<1> QED BY <1>1, <1>2, <1>3 DEF CustomerInv, CopiesNear

LEMMA CustomerSpecInv == CustomerSpec => []CustomerInv
BY CustomerInitInv, CustomerNextInv, PTL DEF CustomerSpec

\* Rows, copies, locks, requests and calls keep their types, and no active
\* customer is archived, whatever was edited, restored or asked of the shop.
THEOREM CustomersTypeCorrect == CustomerSpec => []CustomerTypeOK
<1>1. CustomerInv => CustomerTypeOK
  BY DEF CustomerInv, Base, CallShape, CustomerTypeOK, ActiveNotArchived
<1> QED BY <1>1, CustomerSpecInv, PTL

\* The version of a customer names its columns, and its tags but for one,
\* although a customer is answered without being read again (_get_customer).
THEOREM VersionsNameColumns == CustomerSpec => []VersionNamesColumns
<1>1. CustomerInv => VersionNamesColumns
  BY DEF CustomerInv, CopiesNear, Near, Differing, VersionNamesColumns
<1> QED BY <1>1, CustomerSpecInv, PTL

=============================================================================
