-------------------------- MODULE HrStaffingProofs --------------------------
(***************************************************************************)
(* Proofs about HrStaffing for any persons, positions, employments and     *)
(* number of concurrent requests.  What a request has found out stays true *)
(* because the row that protects it is locked; each part of the invariant  *)
(* names the row and the fact.                                             *)
(***************************************************************************)
EXTENDS HrStaffing, FiniteSetTheorems, TLAPS

Running(t, op) == tx[t].pc # "idle" /\ tx[t].op = op

\* A hire holds its person, who has no active employment.
HireInv(t) ==
    Running(t, "hire") =>
        /\ tx[t].pc \in {"position", "write"}
        /\ tx[t].person \in Persons /\ tx[t].employment = None
        /\ lock[tx[t].person] = t
        /\ \A e \in Employments : ~Employs(e, tx[t].person)

\* A reactivation holds its ended employment and, from the second lock on, the
\* person, whom no other employment employs.
RehireInv(t) ==
    Running(t, "rehire") =>
        /\ tx[t].employment \in Employments /\ tx[t].person \in Persons
        /\ lock[tx[t].employment] = t
        /\ employments[tx[t].employment].status = "ended"
        /\ employments[tx[t].employment].person = tx[t].person
        /\ tx[t].pc # "person" =>
              /\ lock[tx[t].person] = t
              /\ \A e \in Employments : ~Employs(e, tx[t].person)

\* A transfer holds its employment.
TransferInv(t) ==
    Running(t, "transfer") =>
        /\ tx[t].pc \in {"position", "write"}
        /\ tx[t].employment \in Employments
        /\ lock[tx[t].employment] = t
        /\ employments[tx[t].employment].status # "absent"

\* A request about to fill a position holds it, and nobody else occupies it.
FillInv(t) ==
    /\ tx[t].pc = "position" => tx[t].position \in Positions
    /\ tx[t].pc \in {"person", "position"} => tx[t].op \in {"hire", "rehire", "transfer"}
    /\ (/\ tx[t].pc = "write" /\ tx[t].position # None
        /\ tx[t].op \in {"hire", "rehire", "transfer"}) =>
          /\ lock[tx[t].position] = t
          /\ \A e \in Employments \ {tx[t].employment} : ~Occupies(e, tx[t].position)

\* A deactivation holds its position, which is vacant.
DeactivateInv(t) ==
    Running(t, "deactivate") =>
        /\ tx[t].row \in Positions
        /\ lock[tx[t].row] = t
        /\ \A e \in Employments : ~Occupies(e, tx[t].row)

\* A position that is opened, moved or activated is known; a moved one is
\* locked, and its new superior exists and does not report to it.
PlaceInv(t) ==
    /\ Running(t, "open") \/ Running(t, "activate") \/ Running(t, "move") =>
          tx[t].row \in Positions
    /\ (Running(t, "open") \/ Running(t, "move")) /\ tx[t].position # None =>
          positions[tx[t].position].status # "absent"
    /\ Running(t, "activate") => positions[tx[t].row].status # "absent"
    /\ Running(t, "deactivate") => positions[tx[t].row].status # "absent"
    /\ Running(t, "move") =>
          /\ lock[tx[t].row] = t
          /\ positions[tx[t].row].status # "absent"
          /\ tx[t].position # tx[t].row
          /\ tx[t].position # None => Superior(tx[t].position) # tx[t].row

TxInv(t) == /\ HireInv(t) /\ RehireInv(t) /\ TransferInv(t)
            /\ FillInv(t) /\ DeactivateInv(t) /\ PlaceInv(t)

\* reports_to_position_id is a foreign key.
SuperiorsExist ==
    \A p, q \in Positions : Superior(p) = q => positions[q].status # "absent"

IInv ==
    /\ TypeOK
    /\ \A t \in Txns : TxInv(t)
    /\ OneEmployment /\ OneOccupant
    /\ SuperiorsExist /\ NoMutualReports

-----------------------------------------------------------------------------
(* The chain of superiors starts with the position and its superior. *)

LEMMA ChainStart ==
    ASSUME TypeOK, NEW q \in Positions
    PROVE  /\ q \in Chain(q)
           /\ Superior(q) # None => Superior(q) \in Chain(q)
<1>1. Superior(q) \in Positions \cup {None}
  BY DEF TypeOK, Position, Superior
<1> QED BY <1>1 DEF Chain

LEMMA IdleType == IdleTx \in Tx
BY DEF IdleTx, Tx, Ops

LEMMA InitInv == Init => IInv
<1> SUFFICES ASSUME Init PROVE IInv
  OBVIOUS
<1>1. TypeOK
  BY HrAssumption, IdleType DEF Init, TypeOK, Position
<1>2. \A t \in Txns : TxInv(t)
  BY DEF Init, TxInv, IdleTx, HireInv, RehireInv, TransferInv, FillInv, DeactivateInv,
         PlaceInv, Running
<1>3. OneEmployment /\ OneOccupant
  BY DEF Init, OneEmployment, OneOccupant, Employs, Occupies, NoEmployment
<1>4. SuperiorsExist /\ NoMutualReports
  BY HrAssumption DEF Init, SuperiorsExist, NoMutualReports, Superior
<1> QED BY <1>1, <1>2, <1>3, <1>4 DEF IInv

-----------------------------------------------------------------------------
(* A step that only adds a lock of t and changes its local variables disturbs *)
(* nothing that the others have found out.                                    *)

LEMMA LockStep ==
    ASSUME IInv, NEW t \in Txns, UNCHANGED data,
           lock' \in [Rows -> Txns \cup {None}],
           \A r \in Rows, u \in Txns \ {t} : lock[r] = u => lock'[r] = u,
           NEW new \in Tx, tx' = [tx EXCEPT ![t] = new],
           TxInv(t)'
    PROVE  IInv'
<1>1. TypeOK'
  BY DEF IInv, TypeOK, data
<1>2. ASSUME NEW u \in Txns \ {t}
      PROVE  TxInv(u)'
  <2>1. tx'[u] = tx[u] /\ TxInv(u) /\ tx[u] \in Tx
    BY DEF IInv, TypeOK
  <2>2. HireInv(u)' /\ RehireInv(u)'
    BY <2>1 DEF TxInv, HireInv, RehireInv, Running, Employs, data, Rows
  <2>3. TransferInv(u)' /\ DeactivateInv(u)'
    BY <2>1 DEF TxInv, TransferInv, DeactivateInv, Running, Occupies, data, Rows
  <2>4. FillInv(u)'
    BY <2>1 DEF TxInv, FillInv, Occupies, data, Rows, Tx
  <2>5. PlaceInv(u)'
    BY <2>1 DEF TxInv, PlaceInv, Running, Superior, data, Rows
  <2> QED BY <2>2, <2>3, <2>4, <2>5 DEF TxInv
<1>3. (OneEmployment /\ OneOccupant)'
  BY DEF IInv, OneEmployment, OneOccupant, Employs, Occupies, data
<1>4. (SuperiorsExist /\ NoMutualReports)'
  BY DEF IInv, SuperiorsExist, NoMutualReports, Superior, data
<1> QED BY <1>1, <1>2, <1>3, <1>4 DEF IInv

LEMMA AbortInv ==
    ASSUME IInv, NEW t \in Txns, Abort(t)
    PROVE  IInv'
<1>1. UNCHANGED data
  BY DEF Abort
<1>2. lock' \in [Rows -> Txns \cup {None}]
  BY DEF Abort, Finish, Release, IInv, TypeOK
<1>3. \A r \in Rows, u \in Txns \ {t} : lock[r] = u => lock'[r] = u
  BY DEF Abort, Finish, Release
<1>4. tx' = [tx EXCEPT ![t] = IdleTx]
  BY DEF Abort, Finish
<1>5. tx'[t] = IdleTx
  BY <1>4 DEF IInv, TypeOK
<1>6. TxInv(t)'
  BY <1>5 DEF TxInv, IdleTx, HireInv, RehireInv, TransferInv, FillInv, DeactivateInv,
              PlaceInv, Running
<1> QED BY <1>1, <1>2, <1>3, <1>4, <1>6, IdleType, LockStep

\* A step that locks r and enters with the local variables new.
LEMMA EnterStep ==
    ASSUME IInv, NEW t \in Txns, NEW r \in Rows, MayLock(t, r), Hold(t, r),
           NEW new \in Tx, Enter(t, new), TxInv(t)'
    PROVE  IInv'
<1>1. lock' \in [Rows -> Txns \cup {None}]
  BY DEF Hold, IInv, TypeOK
<1>2. \A q \in Rows, u \in Txns \ {t} : lock[q] = u => lock'[q] = u
  BY HrAssumption DEF Hold, MayLock, IInv, TypeOK
<1> QED BY <1>1, <1>2, LockStep DEF Enter

LEMMA HireStart ==
    ASSUME IInv, NEW t \in Txns, NEW x \in Persons, NEW p \in Superiors, StartHire(t, x, p)
    PROVE  IInv'
<1> DEFINE new == [IdleTx EXCEPT !.pc = AfterPerson(p), !.op = "hire",
                                 !.person = x, !.position = p]
<1>1. new \in Tx /\ x \in Rows
  BY IdleType DEF Tx, AfterPerson, Superiors, Ops, Rows
<1>2. /\ tx' = [tx EXCEPT ![t] = new] /\ UNCHANGED data
      /\ lock' = [lock EXCEPT ![x] = t] /\ lock[x] = None
      /\ \A e \in Employments : ~Employs(e, x)
  BY DEF StartHire, Enter, Hold, Free
<1>3. tx'[t] = new /\ lock'[x] = t
  BY <1>1, <1>2 DEF IInv, TypeOK
<1>4. new.pc \in {"position", "write"} /\ new.op = "hire" /\ new.person = x
      /\ new.position = p /\ new.employment = None
      /\ (p # None <=> new.pc = "position")
  BY DEF IdleTx, AfterPerson
<1> HIDE DEF new
<1>5. \A e \in Employments : ~Employs(e, x)'
  BY <1>2 DEF Employs, data
<1>6. TxInv(t)'
  BY <1>3, <1>4, <1>5 DEF TxInv, HireInv, RehireInv, TransferInv, FillInv, DeactivateInv,
                         PlaceInv, Running, Superiors
<1> QED BY <1>1, <1>2, <1>6, EnterStep DEF Enter, Hold, MayLock

LEMMA RehireStart ==
    ASSUME IInv, NEW t \in Txns, NEW e \in Employments, StartRehire(t, e)
    PROVE  IInv'
<1> DEFINE x == employments[e].person
           p == employments[e].position
           inForce == (x \in people)
           filled == IF p = None THEN None ELSE ActivePosition(p)
           new == [IdleTx EXCEPT !.pc = "person", !.op = "rehire",
                      !.employment = e, !.person = x, !.position = p,
                      !.personSeen = inForce, !.positionSeen = filled]
<1>1. employments[e] \in Employment /\ x \in Persons /\ p \in Positions \cup {None}
  BY DEF StartRehire, IInv, TypeOK, Employment, NoEmployment
<1>2. new \in Tx /\ e \in Rows
  <2>1. inForce \in BOOLEAN /\ filled \in BOOLEAN \cup {None}
    BY DEF ActivePosition
  <2> HIDE DEF inForce, filled
  <2> QED BY <1>1, <2>1, IdleType DEF Tx, Ops, Rows
<1>3. /\ tx' = [tx EXCEPT ![t] = new] /\ UNCHANGED data
      /\ lock' = [lock EXCEPT ![e] = t] /\ lock[e] = None
      /\ employments[e].status = "ended"
  BY DEF StartRehire, Enter, Hold, Free
<1>4. tx'[t] = new /\ lock'[e] = t
  BY <1>2, <1>3 DEF IInv, TypeOK
<1>5. /\ new.pc = "person" /\ new.op = "rehire" /\ new.person = x
      /\ new.employment = e
  BY DEF IdleTx
<1> HIDE DEF new
<1>6. TxInv(t)'
  BY <1>1, <1>3, <1>4, <1>5 DEF TxInv, HireInv, RehireInv, TransferInv, FillInv,
                         DeactivateInv, PlaceInv, Running, data
<1> QED BY <1>2, <1>3, <1>6, EnterStep DEF Enter, Hold, MayLock

LEMMA TransferStart ==
    ASSUME IInv, NEW t \in Txns, NEW e \in Employments, NEW p \in Superiors,
           StartTransfer(t, e, p)
    PROVE  IInv'
<1> DEFINE new == [IdleTx EXCEPT !.pc = AfterPerson(p), !.op = "transfer",
                                 !.employment = e, !.position = p]
<1>1. new \in Tx /\ e \in Rows
  BY IdleType DEF Tx, AfterPerson, Superiors, Ops, Rows
<1>2. /\ tx' = [tx EXCEPT ![t] = new] /\ UNCHANGED data
      /\ lock' = [lock EXCEPT ![e] = t] /\ lock[e] = None
      /\ employments[e].status # "absent"
  BY DEF StartTransfer, Enter, Hold, Free
<1>3. tx'[t] = new /\ lock'[e] = t
  BY <1>1, <1>2 DEF IInv, TypeOK
<1>4. /\ new.pc \in {"position", "write"} /\ new.op = "transfer"
      /\ new.employment = e /\ new.position = p
      /\ (p # None <=> new.pc = "position")
  BY DEF IdleTx, AfterPerson
<1> HIDE DEF new
<1>5. TxInv(t)'
  BY <1>2, <1>3, <1>4 DEF TxInv, HireInv, RehireInv, TransferInv, FillInv, DeactivateInv,
                         PlaceInv, Running, Superiors, data
<1> QED BY <1>1, <1>2, <1>5, EnterStep DEF Enter, Hold, MayLock

LEMMA LockPersonInv ==
    ASSUME IInv, NEW t \in Txns, LockPerson(t)
    PROVE  IInv'
<1> DEFINE x == tx[t].person
           new == [tx[t] EXCEPT !.pc = AfterPerson(tx[t].position)]
<1>1. tx[t] \in Tx /\ TxInv(t) /\ tx[t].op = "rehire" /\ tx[t].pc = "person"
  BY DEF LockPerson, IInv, TypeOK, TxInv, FillInv, HireInv, TransferInv, Running
<1>2. /\ x \in Persons /\ x \in Rows /\ tx[t].employment \in Employments
      /\ lock[tx[t].employment] = t
      /\ employments[tx[t].employment].status = "ended"
      /\ employments[tx[t].employment].person = x
  BY <1>1 DEF TxInv, RehireInv, Running, Rows
<1>3. /\ tx' = [tx EXCEPT ![t] = new] /\ UNCHANGED data
      /\ lock' = [lock EXCEPT ![x] = t] /\ MayLock(t, x)
      /\ \A e \in Employments \ {tx[t].employment} : ~Employs(e, x)
  BY DEF LockPerson, Enter, Hold
<1>4. /\ new \in Tx /\ new.pc \in {"position", "write"} /\ new.op = "rehire"
      /\ new.person = x /\ new.employment = tx[t].employment
      /\ new.position = tx[t].position /\ new.position \in Positions \cup {None}
      /\ (new.position # None <=> new.pc = "position")
  BY <1>1 DEF Tx, AfterPerson
<1> HIDE DEF new
<1>5. tx'[t] = new /\ lock'[x] = t /\ lock'[tx[t].employment] = t
  BY <1>2, <1>3 DEF IInv, TypeOK, Rows
<1>6. \A e \in Employments : ~(Employs(e, tx[t].person)')
  BY <1>2, <1>3, <1>4, <1>5 DEF Employs, data
<1>7. TxInv(t)'
  <2>1. RehireInv(t)'
    BY <1>2, <1>3, <1>4, <1>5, <1>6 DEF RehireInv, data
  <2>2. FillInv(t)'
    BY <1>4, <1>5 DEF FillInv
  <2> QED BY <1>4, <1>5, <2>1, <2>2 DEF TxInv, HireInv, TransferInv, DeactivateInv,
                                        PlaceInv, Running
<1> QED BY <1>2, <1>3, <1>4, <1>7, EnterStep DEF Enter, Hold

LEMMA LockPositionInv ==
    ASSUME IInv, NEW t \in Txns, LockPosition(t)
    PROVE  IInv'
<1> DEFINE p == tx[t].position
           new == [tx[t] EXCEPT !.pc = "write"]
<1>1. /\ tx[t] \in Tx /\ TxInv(t) /\ tx[t].pc = "position"
      /\ tx[t].op \in {"hire", "rehire", "transfer"} /\ p \in Positions /\ p \in Rows
  BY DEF LockPosition, IInv, TypeOK, TxInv, FillInv, Rows
<1>2. /\ tx' = [tx EXCEPT ![t] = new] /\ UNCHANGED data
      /\ lock' = [lock EXCEPT ![p] = t] /\ MayLock(t, p)
      /\ \A e \in Employments \ {tx[t].employment} : ~Occupies(e, p)
  BY DEF LockPosition, Enter, Hold
<1>3. /\ new \in Tx /\ new.pc = "write" /\ new.op = tx[t].op
      /\ new.person = tx[t].person /\ new.employment = tx[t].employment
      /\ new.position = p
  BY <1>1 DEF Tx
<1> HIDE DEF new
<1>4. tx'[t] = new /\ lock'[p] = t /\ \A r \in Rows : lock[r] = t => lock'[r] = t
  BY <1>1, <1>2 DEF IInv, TypeOK
<1>5. FillInv(t)'
  BY <1>2, <1>3, <1>4 DEF FillInv, Occupies, data
<1>6. HireInv(t)' /\ RehireInv(t)'
  BY <1>1, <1>2, <1>3, <1>4 DEF TxInv, HireInv, RehireInv, Running, Employs, data, Rows
<1>7. TransferInv(t)'
  BY <1>1, <1>2, <1>3, <1>4 DEF TxInv, TransferInv, Running, data, Rows
<1>8. DeactivateInv(t)' /\ PlaceInv(t)'
  BY <1>1, <1>3, <1>4 DEF DeactivateInv, PlaceInv, Running
<1> QED BY <1>1, <1>2, <1>3, <1>5, <1>6, <1>7, <1>8, EnterStep DEF TxInv, Enter, Hold

\* The starts of the requests about positions.
LEMMA OpenStart ==
    ASSUME IInv, NEW t \in Txns, NEW p \in Positions, NEW q \in Superiors,
           StartOpen(t, p, q)
    PROVE  IInv'
<1> DEFINE new == [IdleTx EXCEPT !.pc = "write", !.op = "open", !.row = p, !.position = q]
<1>1. new \in Tx /\ new.pc = "write" /\ new.op = "open" /\ new.row = p /\ new.position = q
  BY IdleType DEF Tx, IdleTx, Superiors, Ops
<1>2. /\ tx' = [tx EXCEPT ![t] = new] /\ UNCHANGED <<data, lock>>
      /\ q # None => positions[q].status # "absent"
  BY DEF StartOpen, Enter, MayReportTo, ActivePosition
<1> HIDE DEF new
<1>3. tx'[t] = new
  BY <1>2 DEF IInv, TypeOK
<1>4. TxInv(t)'
  BY <1>1, <1>2, <1>3 DEF TxInv, HireInv, RehireInv, TransferInv, FillInv,
                         DeactivateInv, PlaceInv, Running, data
<1>5. lock' \in [Rows -> Txns \cup {None}]
  BY <1>2 DEF IInv, TypeOK
<1>6. \A r \in Rows, u \in Txns \ {t} : lock[r] = u => lock'[r] = u
  BY <1>2
<1> QED BY <1>1, <1>2, <1>4, <1>5, <1>6, LockStep

LEMMA MoveStart ==
    ASSUME IInv, NEW t \in Txns, NEW p \in Positions, NEW q \in Superiors,
           StartMove(t, p, q)
    PROVE  IInv'
<1> DEFINE new == [IdleTx EXCEPT !.pc = "write", !.op = "move", !.row = p, !.position = q]
<1>1. /\ new \in Tx /\ new.pc = "write" /\ new.op = "move" /\ new.row = p
      /\ new.position = q
  BY IdleType DEF Tx, IdleTx, Superiors, Ops
<1>2. /\ tx' = [tx EXCEPT ![t] = new] /\ UNCHANGED data
      /\ lock' = [lock EXCEPT ![p] = t] /\ lock[p] = None
      /\ positions[p].status # "absent"
      /\ MayReportTo(p, q)
  BY DEF StartMove, Enter, Hold, Free
<1>3. q # None => positions[q].status # "absent" /\ Superior(q) # p /\ q # p
  <2> HAVE q # None
  <2>1. q \in Positions /\ p # None
    BY HrAssumption DEF Superiors, Rows
  <2>2. ActivePosition(q) /\ p \notin Chain(q)
    BY <1>2 DEF MayReportTo
  <2> QED BY <2>1, <2>2, ChainStart DEF IInv, ActivePosition
<1> HIDE DEF new
<1>4. tx'[t] = new /\ lock'[p] = t /\ p \in Rows /\ p # None
  BY <1>2, HrAssumption DEF IInv, TypeOK, Rows
<1>5. PlaceInv(t)'
  BY <1>1, <1>2, <1>3, <1>4 DEF PlaceInv, Running, Superior, data
<1>6. TxInv(t)'
  BY <1>1, <1>4, <1>5 DEF TxInv, HireInv, RehireInv, TransferInv, FillInv,
                         DeactivateInv, Running
<1> QED BY <1>1, <1>2, <1>4, <1>6, EnterStep DEF Enter, Hold, MayLock

LEMMA StatusStart ==
    ASSUME IInv, NEW t \in Txns, NEW p \in Positions,
           StartActivate(t, p) \/ StartDeactivate(t, p)
    PROVE  IInv'
<1> PICK op \in {"activate", "deactivate"} :
        /\ Enter(t, [IdleTx EXCEPT !.pc = "write", !.op = op, !.row = p])
        /\ Hold(t, p) /\ Free(p)
        /\ positions[p].status # "absent"
        /\ op = "deactivate" => \A e \in Employments : ~Occupies(e, p)
  BY DEF StartActivate, StartDeactivate, ActivePosition
<1> DEFINE new == [IdleTx EXCEPT !.pc = "write", !.op = op, !.row = p]
<1>1. new \in Tx /\ new.pc = "write" /\ new.op = op /\ new.row = p
  BY IdleType DEF Tx, IdleTx, Ops
<1>2. Enter(t, new) /\ tx' = [tx EXCEPT ![t] = new] /\ UNCHANGED data
  BY DEF Enter
<1> HIDE DEF new
<1>3. tx'[t] = new /\ lock'[p] = t /\ p \in Rows
  BY <1>2 DEF IInv, TypeOK, Hold, Rows
<1>4. TxInv(t)'
  BY <1>1, <1>2, <1>3 DEF TxInv, HireInv, RehireInv, TransferInv, FillInv,
                         DeactivateInv, PlaceInv, Running, Occupies, data
<1> QED BY <1>1, <1>2, <1>3, <1>4, EnterStep DEF MayLock, Free

LEMMA RetireStart ==
    ASSUME IInv, NEW t \in Txns, StartRetireJob(t)
    PROVE  IInv'
<1> DEFINE new == [IdleTx EXCEPT !.pc = "write", !.op = "retireJob"]
<1>1. new \in Tx /\ new.pc = "write" /\ new.op = "retireJob" /\ Job \in Rows
  BY IdleType DEF Tx, IdleTx, Ops, Rows
<1>2. Enter(t, new) /\ tx' = [tx EXCEPT ![t] = new] /\ Hold(t, Job) /\ MayLock(t, Job)
  BY DEF StartRetireJob, Enter, Free, MayLock
<1> HIDE DEF new
<1>3. tx'[t] = new
  BY <1>2 DEF IInv, TypeOK
<1>4. TxInv(t)'
  BY <1>1, <1>3 DEF TxInv, HireInv, RehireInv, TransferInv, FillInv, DeactivateInv,
                    PlaceInv, Running
<1> QED BY <1>1, <1>2, <1>4, EnterStep

LEMMA StartsInv ==
    ASSUME IInv, NEW t \in Txns, Starts(t)
    PROVE  IInv'
BY HireStart, RehireStart, TransferStart, OpenStart, MoveStart, StatusStart, RetireStart
   DEF Starts

-----------------------------------------------------------------------------
(* Steps that end a request *)

LEMMA FinishStep ==
    ASSUME IInv, NEW t \in Txns, Finish(t)
    PROVE  /\ lock' \in [Rows -> Txns \cup {None}]
           /\ \A r \in Rows, u \in Txns \ {t} : lock[r] = u => lock'[r] = u
           /\ tx' \in [Txns -> Tx]
           /\ \A u \in Txns \ {t} : tx'[u] = tx[u]
           /\ TxInv(t)'
<1>1. lock' \in [Rows -> Txns \cup {None}]
  BY DEF Finish, Release, IInv, TypeOK
<1>2. \A r \in Rows, u \in Txns \ {t} : lock[r] = u => lock'[r] = u
  BY DEF Finish, Release
<1>3. /\ tx' \in [Txns -> Tx] /\ tx'[t] = IdleTx
      /\ \A u \in Txns \ {t} : tx'[u] = tx[u]
  BY IdleType DEF Finish, IInv, TypeOK
<1>4. TxInv(t)'
  BY <1>3 DEF TxInv, IdleTx, HireInv, RehireInv, TransferInv, FillInv, DeactivateInv,
              PlaceInv, Running
<1> QED BY <1>1, <1>2, <1>3, <1>4

\* An employment is written by a request that holds it or adds it; if it is
\* active, its person and its position are held unless they were its own.
LEMMA StaffStep ==
    ASSUME IInv, NEW t \in Txns, Finish(t),
           UNCHANGED <<people, related, jobActive, positions>>,
           NEW e \in Employments, NEW new \in Employment,
           employments' = [employments EXCEPT ![e] = new],
           lock[e] = t \/ employments[e].status = "absent",
           new.status = "active" =>
              \/ Employs(e, new.person)
              \/ /\ lock[new.person] = t
                 /\ \A f \in Employments : ~Employs(f, new.person),
           new.status = "active" /\ new.position # None =>
              /\ lock[new.position] = t
              /\ \A f \in Employments \ {e} : ~Occupies(f, new.position)
    PROVE  IInv'
<1>1. TypeOK'
  BY FinishStep DEF IInv, TypeOK
<1>2. /\ employments'[e] = new
      /\ \A f \in Employments \ {e} : employments'[f] = employments[f]
      /\ new.person \in Persons /\ new.position \in Positions \cup {None}
      /\ positions' = positions
  BY DEF IInv, TypeOK, Employment
<1>3. ASSUME NEW u \in Txns \ {t}
      PROVE  TxInv(u)'
  <2>1. tx'[u] = tx[u] /\ TxInv(u) /\ tx[u] \in Tx
    BY FinishStep DEF IInv, TypeOK
  <2>2. \A r \in Rows : lock[r] = u => lock'[r] = u
    BY FinishStep
  <2>3. ASSUME NEW x \in Persons, lock[x] = u, \A f \in Employments : ~Employs(f, x)
        PROVE  \A f \in Employments : ~(Employs(f, x)')
    BY <1>2, <2>3 DEF Employs
  <2>4. ASSUME NEW p \in Positions, lock[p] = u,
               NEW f \in Employments, ~Occupies(f, p)
        PROVE  ~(Occupies(f, p)')
    BY <1>2, <2>4, HrAssumption DEF Occupies, Rows
  <2>5. HireInv(u)'
    BY <2>1, <2>2, <2>3 DEF TxInv, HireInv, Running, Employs, Rows
  <2>6. Running(u, "rehire") \/ Running(u, "transfer") => tx[u].employment # e
    BY <2>1 DEF TxInv, RehireInv, TransferInv
  <2>7. RehireInv(u)'
    BY <1>2, <2>1, <2>2, <2>3, <2>6 DEF TxInv, RehireInv, Running, Employs, Rows
  <2>8. TransferInv(u)'
    BY <1>2, <2>1, <2>2, <2>6 DEF TxInv, TransferInv, Running, Rows
  <2>9. FillInv(u)'
    BY <2>1, <2>2, <2>4 DEF TxInv, FillInv, Occupies, Rows, Tx
  <2>10. DeactivateInv(u)'
    BY <2>1, <2>2, <2>4 DEF TxInv, DeactivateInv, Running, Occupies, Rows
  <2>11. PlaceInv(u)'
    BY <1>2, <2>1, <2>2 DEF TxInv, PlaceInv, Running, Superior, Rows
  <2> QED BY <2>5, <2>7, <2>8, <2>9, <2>10, <2>11 DEF TxInv
<1>4. OneEmployment'
  BY <1>2 DEF IInv, OneEmployment, Employs
<1>5. OneOccupant'
  BY <1>2, HrAssumption DEF IInv, OneOccupant, Occupies, Rows
<1>6. (SuperiorsExist /\ NoMutualReports)'
  BY <1>2 DEF IInv, SuperiorsExist, NoMutualReports, Superior
<1> QED BY <1>1, <1>3, <1>4, <1>5, <1>6, FinishStep DEF IInv

LEMMA HireStep == ASSUME IInv, NEW t \in Txns, Hire(t) PROVE IInv'
<1>1. PICK e \in Employments :
        /\ employments[e].status = "absent"
        /\ SetEmployment(t, e, tx[t].person, tx[t].position, "active")
  BY DEF Hire
<1> DEFINE new == [status |-> "active", person |-> tx[t].person, position |-> tx[t].position]
<1>2. TxInv(t) /\ tx[t] \in Tx /\ tx[t].pc = "write" /\ tx[t].op = "hire"
  BY DEF Hire, Writes, IInv, TypeOK
<1>3. /\ tx[t].person \in Persons /\ tx[t].employment = None
      /\ lock[tx[t].person] = t
      /\ \A f \in Employments : ~Employs(f, tx[t].person)
  BY <1>2 DEF TxInv, HireInv, Running
<1>4. new \in Employment
  BY <1>2, <1>3 DEF Tx, Employment
<1>5. tx[t].position # None =>
        /\ lock[tx[t].position] = t
        /\ \A f \in Employments : ~Occupies(f, tx[t].position)
  BY <1>2, <1>3, HrAssumption DEF TxInv, FillInv, Rows
<1>6. /\ Finish(t) /\ UNCHANGED <<people, related, jobActive, positions>>
      /\ employments' = [employments EXCEPT ![e] = new]
  BY <1>1 DEF SetEmployment
<1>7. new.person = tx[t].person /\ new.position = tx[t].position
  OBVIOUS
<1> HIDE DEF new
<1> QED BY <1>1, <1>3, <1>4, <1>5, <1>6, <1>7, StaffStep

LEMMA RehireStep == ASSUME IInv, NEW t \in Txns, Rehire(t) PROVE IInv'
<1> DEFINE e == tx[t].employment
           new == [status |-> "active", person |-> tx[t].person, position |-> tx[t].position]
<1>1. TxInv(t) /\ tx[t] \in Tx /\ tx[t].pc = "write" /\ tx[t].op = "rehire"
  BY DEF Rehire, Writes, IInv, TypeOK
<1>2. /\ e \in Employments /\ tx[t].person \in Persons
      /\ lock[e] = t /\ lock[tx[t].person] = t
      /\ \A f \in Employments : ~Employs(f, tx[t].person)
  BY <1>1 DEF TxInv, RehireInv, Running
<1>3. new \in Employment
  BY <1>1, <1>2 DEF Tx, Employment
<1>4. tx[t].position # None =>
        /\ lock[tx[t].position] = t
        /\ \A f \in Employments \ {e} : ~Occupies(f, tx[t].position)
  BY <1>1 DEF TxInv, FillInv
<1>5. /\ Finish(t) /\ UNCHANGED <<people, related, jobActive, positions>>
      /\ employments' = [employments EXCEPT ![e] = new]
  BY DEF Rehire, SetEmployment
<1>6. new.person = tx[t].person /\ new.position = tx[t].position
  OBVIOUS
<1> HIDE DEF new
<1> QED BY <1>2, <1>3, <1>4, <1>5, <1>6, StaffStep

LEMMA TransferStep == ASSUME IInv, NEW t \in Txns, Transfer(t) PROVE IInv'
<1> DEFINE e == tx[t].employment
           new == [status |-> employments[e].status, person |-> employments[e].person,
                   position |-> tx[t].position]
<1>1. TxInv(t) /\ tx[t] \in Tx /\ tx[t].pc = "write" /\ tx[t].op = "transfer"
  BY DEF Transfer, Writes, IInv, TypeOK
<1>2. /\ e \in Employments /\ lock[e] = t /\ employments[e].status # "absent"
      /\ employments[e] \in Employment
  BY <1>1 DEF TxInv, TransferInv, Running, IInv, TypeOK, NoEmployment
<1>3. new \in Employment
  BY <1>1, <1>2 DEF Tx, Employment
<1>4. tx[t].position # None =>
        /\ lock[tx[t].position] = t
        /\ \A f \in Employments \ {e} : ~Occupies(f, tx[t].position)
  BY <1>1 DEF TxInv, FillInv
<1>5. /\ Finish(t) /\ UNCHANGED <<people, related, jobActive, positions>>
      /\ employments' = [employments EXCEPT ![e] = new]
  BY DEF Transfer, SetEmployment
<1>6. /\ new.position = tx[t].position
      /\ new.status = "active" => Employs(e, new.person)
  BY DEF Employs
<1> HIDE DEF new
<1> QED BY <1>2, <1>3, <1>4, <1>5, <1>6, StaffStep

\* A position is written: its new superior exists, does not report to it, and
\* is not locked by a request that is about to make it report to this one.
PlaceStepOf(t, p, status, q) ==
    /\ positions' = [positions EXCEPT ![p] = [status |-> status, reportsTo |-> q]]
    /\ Finish(t)
    /\ UNCHANGED <<people, related, jobActive, employments>>
    /\ status # "absent"
    /\ q = Superior(p) \/ positions[p].status = "absent" \/ (q # None => MayLock(t, q))
    /\ q # None => q # p /\ Superior(q) # p /\ positions[q].status # "absent"

LEMMA PlaceStep ==
    ASSUME IInv, NEW t \in Txns, NEW p \in Positions, NEW q \in Superiors,
           NEW status \in {"absent", "active", "inactive"}, PlaceStepOf(t, p, status, q)
    PROVE  IInv'
<1> USE DEF PlaceStepOf
<1>1. TypeOK'
  BY FinishStep DEF IInv, TypeOK, Position, Superiors
<1>2. /\ positions'[p].status = status /\ positions'[p].reportsTo = q
      /\ \A r \in Positions \ {p} : positions'[r] = positions[r]
      /\ \A r \in Positions : positions[r].status # "absent" => positions'[r].status # "absent"
  BY DEF IInv, TypeOK
<1>3. ASSUME NEW u \in Txns \ {t}
      PROVE  TxInv(u)'
  <2>1. tx'[u] = tx[u] /\ TxInv(u) /\ tx[u] \in Tx
    BY FinishStep DEF IInv, TypeOK
  <2>2. \A r \in Rows : lock[r] = u => lock'[r] = u
    BY FinishStep
  <2>3. HireInv(u)' /\ RehireInv(u)'
    BY <2>1, <2>2 DEF TxInv, HireInv, RehireInv, Running, Employs, Rows
  <2>4. TransferInv(u)' /\ DeactivateInv(u)'
    BY <2>1, <2>2 DEF TxInv, TransferInv, DeactivateInv, Running, Occupies, Rows
  <2>5. FillInv(u)'
    BY <2>1, <2>2 DEF TxInv, FillInv, Occupies, Rows, Tx
  <2>6. ASSUME Running(u, "move"), tx[u].position # None
        PROVE  positions'[tx[u].position].reportsTo # tx[u].row
    <3>1. /\ tx[u].row \in Positions /\ lock[tx[u].row] = u
          /\ tx[u].position \in Positions /\ tx[u].position # tx[u].row
          /\ positions[tx[u].position].status # "absent"
          /\ Superior(tx[u].position) # tx[u].row
      BY <2>1, <2>6 DEF TxInv, PlaceInv, Tx
    <3>2. tx[u].row # None /\ u # None
      BY <3>1, HrAssumption DEF Rows
    <3>3. CASE tx[u].position # p
      BY <1>2, <3>1, <3>3 DEF Superior
    <3>4. CASE tx[u].position = p
      BY <1>2, <3>1, <3>2, <3>4 DEF MayLock
    <3> QED BY <3>3, <3>4
  <2>7. PlaceInv(u)'
    BY <1>2, <2>1, <2>2, <2>6 DEF TxInv, PlaceInv, Running, Superior, Rows, Tx
  <2> QED BY <2>3, <2>4, <2>5, <2>7 DEF TxInv
<1>4. (OneEmployment /\ OneOccupant)'
  BY DEF IInv, OneEmployment, OneOccupant, Employs, Occupies
<1>5. SuperiorsExist'
  BY <1>2, HrAssumption DEF IInv, SuperiorsExist, Superior, Superiors, Rows
<1>6. NoMutualReports'
  BY <1>2, HrAssumption DEF IInv, NoMutualReports, Superior, Superiors, Rows
<1> QED BY <1>1, <1>3, <1>4, <1>5, <1>6, FinishStep DEF IInv

LEMMA OpenStep == ASSUME IInv, NEW t \in Txns, OpenPosition(t) PROVE IInv'
<1> DEFINE p == tx[t].row
           q == tx[t].position
<1>1. TxInv(t) /\ tx[t] \in Tx /\ Running(t, "open")
  BY DEF OpenPosition, Writes, Running, IInv, TypeOK
<1>2. p \in Positions /\ q \in Superiors /\ (q # None => positions[q].status # "absent")
  BY <1>1 DEF TxInv, PlaceInv, Tx, Superiors
<1>3. positions[p].status = "absent" /\ SetPosition(t, p, "active", q)
  BY DEF OpenPosition
<1>4. q # None => q # p /\ Superior(q) # p
  BY <1>2, <1>3 DEF IInv, SuperiorsExist, Superiors
<1>5. PlaceStepOf(t, p, "active", q)
  BY <1>2, <1>3, <1>4 DEF PlaceStepOf, SetPosition
<1> QED BY <1>2, <1>5, PlaceStep

LEMMA MoveStep == ASSUME IInv, NEW t \in Txns, Move(t) PROVE IInv'
<1> DEFINE p == tx[t].row
           q == tx[t].position
           status == positions[p].status
<1>1. TxInv(t) /\ tx[t] \in Tx /\ Running(t, "move")
  BY DEF Move, Writes, Running, IInv, TypeOK
<1>2. /\ p \in Positions /\ q \in Superiors /\ status # "absent"
      /\ q # None => q # p /\ Superior(q) # p /\ positions[q].status # "absent"
  BY <1>1 DEF TxInv, PlaceInv, Tx, Superiors
<1>3. status \in {"absent", "active", "inactive"}
  BY <1>2 DEF IInv, TypeOK, Position
<1>4. (q # None => MayLock(t, q)) /\ SetPosition(t, p, status, q)
  BY DEF Move
<1>5. PlaceStepOf(t, p, status, q)
  BY <1>2, <1>4 DEF PlaceStepOf, SetPosition
<1> QED BY <1>2, <1>3, <1>5, PlaceStep

LEMMA StatusStep ==
    ASSUME IInv, NEW t \in Txns, Activate(t) \/ Deactivate(t)
    PROVE  IInv'
<1> DEFINE p == tx[t].row
           q == Superior(p)
<1>1. PICK status \in {"active", "inactive"} : SetPosition(t, p, status, q)
  BY DEF Activate, Deactivate
<1>2. TxInv(t) /\ tx[t] \in Tx /\ (Running(t, "activate") \/ Running(t, "deactivate"))
  BY DEF Activate, Deactivate, Writes, Running, IInv, TypeOK
<1>3. p \in Positions
  BY <1>2 DEF TxInv, PlaceInv, DeactivateInv
<1>4. q \in Superiors
  BY <1>3 DEF IInv, TypeOK, Position, Superior, Superiors
<1>5. q # None => q # p /\ Superior(q) # p /\ positions[q].status # "absent"
  BY <1>3, <1>4 DEF IInv, NoMutualReports, SuperiorsExist, Superiors
<1>6. PlaceStepOf(t, p, status, q)
  BY <1>1, <1>5 DEF PlaceStepOf, SetPosition
<1> QED BY <1>3, <1>4, <1>6, PlaceStep

\* Job profiles play no part in the invariant.
LEMMA RetireStep == ASSUME IInv, NEW t \in Txns, RetireJob(t) PROVE IInv'
<1>1. Finish(t) /\ jobActive' = FALSE /\ UNCHANGED <<people, related, positions, employments>>
  BY DEF RetireJob
<1>2. TypeOK'
  BY <1>1, FinishStep DEF IInv, TypeOK
<1>3. ASSUME NEW u \in Txns \ {t}
      PROVE  TxInv(u)'
  <2>1. tx'[u] = tx[u] /\ TxInv(u) /\ tx[u] \in Tx
    BY <1>1, FinishStep DEF IInv, TypeOK
  <2>2. \A r \in Rows : lock[r] = u => lock'[r] = u
    BY <1>1, FinishStep
  <2>3. HireInv(u)' /\ RehireInv(u)'
    BY <1>1, <2>1, <2>2 DEF TxInv, HireInv, RehireInv, Running, Employs, Rows
  <2>4. TransferInv(u)' /\ DeactivateInv(u)'
    BY <1>1, <2>1, <2>2 DEF TxInv, TransferInv, DeactivateInv, Running, Occupies, Rows
  <2>5. FillInv(u)'
    BY <1>1, <2>1, <2>2 DEF TxInv, FillInv, Occupies, Rows, Tx
  <2>6. PlaceInv(u)'
    BY <1>1, <2>1, <2>2 DEF TxInv, PlaceInv, Running, Superior, Rows
  <2> QED BY <2>3, <2>4, <2>5, <2>6 DEF TxInv
<1>4. (OneEmployment /\ OneOccupant)'
  BY <1>1 DEF IInv, OneEmployment, OneOccupant, Employs, Occupies
<1>5. (SuperiorsExist /\ NoMutualReports)'
  BY <1>1 DEF IInv, SuperiorsExist, NoMutualReports, Superior
<1> QED BY <1>1, <1>2, <1>3, <1>4, <1>5, FinishStep DEF IInv

-----------------------------------------------------------------------------
(* Steps of a single statement *)

LEMMA EndInv == ASSUME IInv, NEW e \in Employments, End(e) PROVE IInv'
<1>1. /\ lock[e] = None /\ employments[e].status = "active"
      /\ employments' = [employments EXCEPT ![e].status = "ended"]
      /\ UNCHANGED <<people, related, jobActive, positions, lock, tx>>
  BY DEF End, Free
<1>2. employments[e] \in Employment
  BY <1>1 DEF IInv, TypeOK, NoEmployment
<1>3. /\ employments'[e].status = "ended" /\ employments'[e] \in Employment
      /\ \A f \in Employments \ {e} : employments'[f] = employments[f]
  BY <1>1, <1>2 DEF IInv, TypeOK, Employment
<1>4. TypeOK'
  BY <1>1, <1>3 DEF IInv, TypeOK
<1>5. \A f \in Employments :
        employments'[f].status = "active" => employments'[f] = employments[f]
  BY <1>3
<1>6. ASSUME NEW u \in Txns
      PROVE  TxInv(u)'
  <2>1. TxInv(u) /\ u # None
    BY HrAssumption DEF IInv
  <2>2. Running(u, "rehire") \/ Running(u, "transfer") => tx[u].employment # e
    BY <1>1, <2>1 DEF TxInv, RehireInv, TransferInv
  <2>3. HireInv(u)'
    BY <1>1, <1>5, <2>1 DEF TxInv, HireInv, Running, Employs
  <2>4. RehireInv(u)'
    BY <1>1, <1>3, <1>5, <2>1, <2>2 DEF TxInv, RehireInv, Running, Employs
  <2>5. TransferInv(u)'
    BY <1>1, <1>3, <2>1, <2>2 DEF TxInv, TransferInv, Running
  <2>6. FillInv(u)' /\ DeactivateInv(u)'
    BY <1>1, <1>5, <2>1 DEF TxInv, FillInv, DeactivateInv, Running, Occupies
  <2>7. PlaceInv(u)'
    BY <1>1, <2>1 DEF TxInv, PlaceInv, Running, Superior
  <2> QED BY <2>3, <2>4, <2>5, <2>6, <2>7 DEF TxInv
<1>7. (OneEmployment /\ OneOccupant)'
  BY <1>3 DEF IInv, OneEmployment, OneOccupant, Employs, Occupies
<1>8. (SuperiorsExist /\ NoMutualReports)'
  BY <1>1 DEF IInv, SuperiorsExist, NoMutualReports, Superior
<1> QED BY <1>4, <1>6, <1>7, <1>8 DEF IInv

LEMMA SideInv ==
    ASSUME IInv, UNCHANGED <<positions, employments, lock, tx>>,
           people' \subseteq Persons, related' \subseteq Persons, jobActive' \in BOOLEAN
    PROVE  IInv'
<1>1. TypeOK'
  BY DEF IInv, TypeOK
<1>2. ASSUME NEW u \in Txns
      PROVE  TxInv(u)'
  BY DEF IInv, TxInv, HireInv, RehireInv, TransferInv, FillInv, DeactivateInv, PlaceInv,
         Running, Employs, Occupies, Superior
<1>3. (OneEmployment /\ OneOccupant)'
  BY DEF IInv, OneEmployment, OneOccupant, Employs, Occupies
<1>4. (SuperiorsExist /\ NoMutualReports)'
  BY DEF IInv, SuperiorsExist, NoMutualReports, Superior
<1> QED BY <1>1, <1>2, <1>3, <1>4 DEF IInv

LEMMA NextInv == IInv /\ [Next]_vars => IInv'
<1> SUFFICES ASSUME IInv, [Next]_vars PROVE IInv'
  OBVIOUS
<1>1. ASSUME NEW x \in Persons, SetPerson(x) PROVE IInv'
  <2>1. people' \subseteq Persons /\ related' \subseteq Persons
    BY <1>1 DEF SetPerson, IInv, TypeOK
  <2> QED BY <1>1, <2>1, SideInv DEF SetPerson, IInv, TypeOK
<1>2. CASE RestoreJob
  BY <1>2, SideInv DEF RestoreJob, IInv, TypeOK
<1>3. CASE UNCHANGED vars
  BY <1>3, SideInv DEF vars, data, IInv, TypeOK
<1>4. ASSUME NEW t \in Txns, OpenPosition(t) \/ Move(t) \/ Activate(t) \/ Deactivate(t)
                             \/ RetireJob(t)
      PROVE  IInv'
  BY <1>4, OpenStep, MoveStep, StatusStep, RetireStep
<1>5. ASSUME NEW t \in Txns, Hire(t) \/ Rehire(t) \/ Transfer(t) PROVE IInv'
  BY <1>5, HireStep, RehireStep, TransferStep
<1> QED
  BY <1>1, <1>2, <1>3, <1>4, <1>5, StartsInv, LockPersonInv, LockPositionInv, AbortInv, EndInv
     DEF Next

LEMMA SpecInv == Spec => []IInv
BY InitInv, NextInv, PTL DEF Spec

-----------------------------------------------------------------------------
(* Who holds a lock, and whom a request can wait for *)

\* A person is held on the way to a position, a position by a request about to
\* write, and the job profile by the one that retires it.  A request that opens
\* a position holds none.
Holds(t) ==
    /\ \A x \in Persons : lock[x] = t =>
           tx[t].pc \in {"position", "write"} /\ tx[t].op \in {"hire", "rehire"}
    /\ \A p \in Positions : lock[p] = t => tx[t].pc = "write" /\ tx[t].op # "open"
    /\ lock[Job] = t => tx[t].pc = "write" /\ tx[t].op = "retireJob"

Holders == \A t \in Txns : Holds(t)

\* A step of t takes no lock away from the others and gives them none.
LEMMA HoldStep ==
    ASSUME Holders, NEW t \in Txns,
           \A u \in Txns \ {t} : tx'[u] = tx[u],
           \A r \in Rows, u \in Txns \ {t} : lock'[r] = u => lock[r] = u,
           Holds(t)'
    PROVE  Holders'
BY DEF Holders, Holds, Rows

LEMMA FinishHolders ==
    ASSUME IInv, Holders, NEW t \in Txns, Finish(t)
    PROVE  Holders'
<1>1. /\ \A r \in Rows : lock'[r] # t
      /\ \A r \in Rows, u \in Txns \ {t} : lock'[r] = u => lock[r] = u
  BY HrAssumption DEF Finish, Release
<1>2. \A u \in Txns \ {t} : tx'[u] = tx[u]
  BY FinishStep
<1>3. Holds(t)'
  BY <1>1 DEF Holds, Rows
<1> QED BY <1>1, <1>2, <1>3, HoldStep

\* The request locks r and enters with the local variables new.
LEMMA EnterHolders ==
    ASSUME IInv, Holders, NEW t \in Txns, NEW r \in Rows, NEW new,
           lock' = [lock EXCEPT ![r] = t], tx' = [tx EXCEPT ![t] = new],
           \/ tx[t].pc \in {"idle", "person"}
           \/ tx[t].pc = "position" /\ new.pc = "write" /\ new.op = tx[t].op,
           r \in Persons => new.pc \in {"position", "write"} /\ new.op \in {"hire", "rehire"},
           r \in Positions => new.pc = "write" /\ new.op # "open",
           r = Job => new.pc = "write" /\ new.op = "retireJob"
    PROVE  Holders'
<1>1. /\ tx'[t] = new /\ \A u \in Txns \ {t} : tx'[u] = tx[u]
      /\ \A q \in Rows : lock'[q] = IF q = r THEN t ELSE lock[q]
  BY DEF IInv, TypeOK
<1>2. Holds(t)
  BY DEF Holders
<1>3. Holds(t)'
  BY <1>1, <1>2, HrAssumption DEF Holds, Rows
<1> QED BY <1>1, <1>3, HoldStep

LEMMA StartsHolders ==
    ASSUME IInv, Holders, NEW t \in Txns, Starts(t)
    PROVE  Holders'
<1>1. ASSUME NEW x \in Persons, NEW p \in Superiors, StartHire(t, x, p) PROVE Holders'
  <2> DEFINE new == [IdleTx EXCEPT !.pc = AfterPerson(p), !.op = "hire",
                                   !.person = x, !.position = p]
  <2>1. /\ lock' = [lock EXCEPT ![x] = t] /\ tx' = [tx EXCEPT ![t] = new]
        /\ tx[t].pc = "idle"
    BY <1>1 DEF StartHire, Hold, Enter, Idle
  <2>2. new.pc \in {"position", "write"} /\ new.op = "hire"
    BY DEF IdleTx, AfterPerson
  <2> HIDE DEF new
  <2> QED BY <2>1, <2>2, EnterHolders, HrAssumption DEF Rows
<1>2. ASSUME NEW e \in Employments, NEW new,
             lock' = [lock EXCEPT ![e] = t], tx' = [tx EXCEPT ![t] = new], tx[t].pc = "idle"
      PROVE  Holders'
  BY <1>2, EnterHolders, HrAssumption DEF Rows
<1>3. ASSUME NEW e \in Employments,
             StartRehire(t, e) \/ \E p \in Superiors : StartTransfer(t, e, p)
      PROVE  Holders'
  <2>1. /\ lock' = [lock EXCEPT ![e] = t] /\ tx[t].pc = "idle"
        /\ \E new : tx' = [tx EXCEPT ![t] = new]
    BY <1>3 DEF StartRehire, StartTransfer, Hold, Enter, Idle
  <2> QED BY <1>2, <2>1
<1>4. ASSUME NEW p \in Positions, NEW q \in Superiors, StartOpen(t, p, q) PROVE Holders'
  <2>1. /\ lock' = lock /\ tx[t].pc = "idle" /\ \A u \in Txns \ {t} : tx'[u] = tx[u]
    BY <1>4 DEF StartOpen, Enter, Idle, IInv, TypeOK
  <2>2. \A r \in Rows : lock[r] = t => r \in Employments
    BY <2>1 DEF Holders, Holds, Rows
  <2>3. Holds(t)'
    BY <2>1, <2>2, HrAssumption DEF Holds, Rows
  <2> QED BY <2>1, <2>3, HoldStep
<1>5. ASSUME NEW r \in Rows \ Persons, NEW op, NEW new,
             lock' = [lock EXCEPT ![r] = t], tx' = [tx EXCEPT ![t] = new], tx[t].pc = "idle",
             new.pc = "write", new.op = op,
             op # "open", r = Job => op = "retireJob"
      PROVE  Holders'
  BY <1>5, EnterHolders
<1>6. ASSUME NEW p \in Positions, NEW q \in Superiors, StartMove(t, p, q) PROVE Holders'
  <2> DEFINE new == [IdleTx EXCEPT !.pc = "write", !.op = "move", !.row = p, !.position = q]
  <2>1. /\ lock' = [lock EXCEPT ![p] = t] /\ tx' = [tx EXCEPT ![t] = new]
        /\ tx[t].pc = "idle"
    BY <1>6 DEF StartMove, Hold, Enter, Idle
  <2>2. new.pc = "write" /\ new.op = "move"
    BY DEF IdleTx
  <2> HIDE DEF new
  <2> QED BY <1>5, <2>1, <2>2, HrAssumption DEF Rows
<1>7. ASSUME NEW p \in Positions, StartActivate(t, p) \/ StartDeactivate(t, p)
      PROVE  Holders'
  <2>1. PICK op \in {"activate", "deactivate"} :
            tx' = [tx EXCEPT ![t] = [IdleTx EXCEPT !.pc = "write", !.op = op, !.row = p]]
    BY <1>7 DEF StartActivate, StartDeactivate, Enter
  <2> DEFINE new == [IdleTx EXCEPT !.pc = "write", !.op = op, !.row = p]
  <2>2. /\ lock' = [lock EXCEPT ![p] = t] /\ tx' = [tx EXCEPT ![t] = new]
        /\ tx[t].pc = "idle"
    BY <1>7, <2>1 DEF StartActivate, StartDeactivate, Hold, Idle
  <2>3. new.pc = "write" /\ new.op = op
    BY DEF IdleTx
  <2> HIDE DEF new
  <2> QED BY <1>5, <2>2, <2>3, HrAssumption DEF Rows
<1>8. ASSUME StartRetireJob(t) PROVE Holders'
  <2> DEFINE new == [IdleTx EXCEPT !.pc = "write", !.op = "retireJob"]
  <2>1. /\ lock' = [lock EXCEPT ![Job] = t] /\ tx' = [tx EXCEPT ![t] = new]
        /\ tx[t].pc = "idle"
    BY <1>8 DEF StartRetireJob, Hold, Enter, Idle
  <2>2. new.pc = "write" /\ new.op = "retireJob"
    BY DEF IdleTx
  <2> HIDE DEF new
  <2> QED BY <1>5, <2>1, <2>2, HrAssumption DEF Rows
<1> QED BY <1>1, <1>3, <1>4, <1>6, <1>7, <1>8 DEF Starts

LEMMA LockHolders ==
    ASSUME IInv, Holders, NEW t \in Txns, LockPerson(t) \/ LockPosition(t)
    PROVE  Holders'
<1>1. tx[t] \in Tx /\ TxInv(t)
  BY DEF IInv, TypeOK
<1>2. CASE LockPerson(t)
  <2> DEFINE x == tx[t].person
             new == [tx[t] EXCEPT !.pc = AfterPerson(tx[t].position)]
  <2>1. /\ lock' = [lock EXCEPT ![x] = t] /\ tx' = [tx EXCEPT ![t] = new]
        /\ tx[t].pc = "person"
    BY <1>2 DEF LockPerson, Hold, Enter
  <2>2. tx[t].op = "rehire" /\ x \in Persons
    BY <1>1, <2>1 DEF TxInv, FillInv, HireInv, RehireInv, TransferInv, Running
  <2>3. new.pc \in {"position", "write"} /\ new.op = "rehire"
    BY <1>1, <2>2 DEF Tx, AfterPerson
  <2> HIDE DEF new
  <2> QED BY <2>1, <2>2, <2>3, EnterHolders, HrAssumption DEF Rows
<1>3. CASE LockPosition(t)
  <2> DEFINE p == tx[t].position
             new == [tx[t] EXCEPT !.pc = "write"]
  <2>1. /\ lock' = [lock EXCEPT ![p] = t] /\ tx' = [tx EXCEPT ![t] = new]
        /\ tx[t].pc = "position"
    BY <1>3 DEF LockPosition, Hold, Enter
  <2>2. p \in Positions /\ tx[t].op \in {"hire", "rehire", "transfer"}
    BY <1>1, <2>1 DEF TxInv, FillInv
  <2>3. new.pc = "write" /\ new.op = tx[t].op
    BY <1>1 DEF Tx
  <2> HIDE DEF new
  <2> QED BY <2>1, <2>2, <2>3, EnterHolders, HrAssumption DEF Rows
<1> QED BY <1>2, <1>3

LEMMA InitHolders == Init => Holders
BY HrAssumption DEF Init, Holders, Holds, Rows

LEMMA NextHolders == IInv /\ Holders /\ [Next]_vars => Holders'
<1> SUFFICES ASSUME IInv, Holders, [Next]_vars PROVE Holders'
  OBVIOUS
<1>1. CASE UNCHANGED <<lock, tx>>
  BY <1>1 DEF Holders, Holds
<1>2. ASSUME NEW t \in Txns,
             \/ Hire(t) \/ Rehire(t) \/ Transfer(t)
             \/ OpenPosition(t) \/ Move(t) \/ Activate(t) \/ Deactivate(t)
             \/ RetireJob(t) \/ Abort(t)
      PROVE  Holders'
  <2>1. Finish(t)
    BY <1>2 DEF Hire, Rehire, Transfer, SetEmployment, OpenPosition, Move, Activate,
                Deactivate, SetPosition, RetireJob, Abort
  <2> QED BY <2>1, FinishHolders
<1>3. CASE UNCHANGED vars \/ \E e \in Employments : End(e)
  BY <1>1, <1>3 DEF vars, End
<1>4. CASE RestoreJob \/ \E x \in Persons : SetPerson(x)
  BY <1>1, <1>4 DEF RestoreJob, SetPerson
<1> QED BY <1>2, <1>3, <1>4, StartsHolders, LockHolders DEF Next

\* Along a wait: from a person to somebody on the way to a position, from there
\* to a request about to write, which waits only if it moves or opens one.
LEMMA WaitStep ==
    ASSUME IInv, Holders, NEW t \in Txns, NEW u \in Txns, WaitsFor(t, u)
    PROVE  /\ tx[t].pc \in {"person", "position"} \/ Writes(t, "move") \/ Writes(t, "open")
           /\ tx[t].pc = "person" => tx[u].pc \in {"position", "write"}
                                     /\ tx[u].op \in {"hire", "rehire"}
           /\ tx[t].pc # "person" => tx[u].pc = "write" /\ tx[u].op # "open"
<1>1. PICK r \in Needs(t) : lock[r] = u
  BY DEF WaitsFor
<1>2. TxInv(t) /\ tx[t] \in Tx /\ Holds(u)
  BY DEF IInv, TypeOK, Holders
<1>3. CASE tx[t].pc = "person"
  <2>1. r = tx[t].person
    BY <1>1, <1>3 DEF Needs, Writes
  <2>2. r \in Persons
    BY <1>2, <1>3, <2>1 DEF TxInv, FillInv, HireInv, RehireInv, TransferInv, Running
  <2> QED BY <1>1, <1>2, <1>3, <2>2 DEF Holds
<1>4. CASE tx[t].pc = "position"
  <2>1. r = tx[t].position
    BY <1>1, <1>4 DEF Needs, Writes
  <2>2. r \in Positions
    BY <1>2, <1>4, <2>1 DEF TxInv, FillInv
  <2> QED BY <1>1, <1>2, <1>4, <2>2 DEF Holds
<1>5. CASE tx[t].pc \notin {"person", "position"}
  <2>1. /\ Writes(t, "move") \/ Writes(t, "open")
        /\ r \in {tx[t].position, Job} \ {None}
    BY <1>1, <1>5 DEF Needs, Writes
  <2>2. r \in Positions \/ r = Job
    BY <1>2, <2>1 DEF Tx
  <2> QED BY <1>1, <1>2, <1>5, <2>1, <2>2 DEF Holds
<1> QED BY <1>3, <1>4, <1>5

-----------------------------------------------------------------------------
(* Theorems *)

\* Every variable keeps its type.
THEOREM TypeCorrect == Spec => []TypeOK
<1>1. IInv => TypeOK
  BY DEF IInv
<1> QED BY <1>1, SpecInv, PTL

\* However hires, reactivations and transfers race, no person gets a second
\* active employment: the lock on the person serializes them.
THEOREM EmployedOnce == Spec => []OneEmployment
<1>1. IInv => OneEmployment
  BY DEF IInv
<1> QED BY <1>1, SpecInv, PTL

\* However they race, no position gets a second active occupant.
THEOREM OccupiedOnce == Spec => []OneOccupant
<1>1. IInv => OneOccupant
  BY DEF IInv
<1> QED BY <1>1, SpecInv, PTL

\* The foreign key of a moved position keeps two positions from reporting to
\* each other, although the chain is validated without a lock.
THEOREM NoTwoReportToEachOther == Spec => []NoMutualReports
<1>1. IInv => NoMutualReports
  BY DEF IInv
<1> QED BY <1>1, SpecInv, PTL

\* A position that ceases to be active is vacant at that moment.
THEOREM VacantWhenDeactivated == Spec => DeactivatedVacant
<1>1. ASSUME IInv, Next, NEW p \in Positions,
             ActivePosition(p), ~(ActivePosition(p)')
      PROVE  \A e \in Employments : ~Occupies(e, p)
  <2>1. PICK t \in Txns : OpenPosition(t) \/ Move(t) \/ Activate(t) \/ Deactivate(t)
    <3>1. positions' # positions
      BY <1>1 DEF ActivePosition
    <3> QED BY <1>1, <3>1
        DEF Next, Starts, StartHire, StartRehire, StartTransfer, StartOpen, StartMove,
            StartActivate, StartDeactivate, StartRetireJob, LockPerson, LockPosition,
            Hire, Rehire, Transfer, SetEmployment, RetireJob, Abort, End, SetPerson,
            RestoreJob, Enter, data
  <2>2. TxInv(t) /\ positions \in [Positions -> Position]
    BY <1>1 DEF IInv, TypeOK
  <2>3. CASE OpenPosition(t) \/ Activate(t)
    BY <1>1, <2>2, <2>3 DEF OpenPosition, Activate, SetPosition, ActivePosition
  <2>4. CASE Move(t)
    BY <1>1, <2>2, <2>4 DEF Move, SetPosition, ActivePosition
  <2>5. CASE Deactivate(t)
    <3>1. p = tx[t].row
      BY <1>1, <2>2, <2>5 DEF Deactivate, SetPosition, ActivePosition
    <3> QED BY <2>2, <2>5, <3>1 DEF Deactivate, Writes, TxInv, DeactivateInv, Running
  <2> QED BY <2>1, <2>3, <2>4, <2>5
<1>2. ASSUME IInv, [Next]_vars
      PROVE  [\A p \in Positions :
                 ActivePosition(p) /\ ~ActivePosition(p)'
                     => \A e \in Employments : ~Occupies(e, p)]_vars
  BY <1>1, <1>2
<1> QED BY <1>2, SpecInv, PTL DEF Spec, DeactivatedVacant

\* Requests that wait only for each other include two moves of positions: all
\* that changes staff locks employment, person and position in this order, and
\* whoever holds a position and still waits is a move.
THEOREM StaffLocksInOrder ==
    IsFiniteSet(Txns) /\ Spec => []OnlyMovesDeadlock
<1> SUFFICES ASSUME IsFiniteSet(Txns) PROVE Spec => []OnlyMovesDeadlock
  OBVIOUS
<1>1. ASSUME IInv, Holders PROVE OnlyMovesDeadlock
  <2> SUFFICES ASSUME NEW S \in SUBSET Txns, S # {},
                      \A t \in S : \E u \in S : WaitsFor(t, u)
               PROVE  Cardinality({t \in S : tx[t].op = "move"}) > 1
    BY DEF OnlyMovesDeadlock
  <2> DEFINE Moves == {t \in S : tx[t].op = "move"}
  <2>1. ASSUME NEW t \in S, tx[t].pc # "person"
        PROVE  \E u \in Moves : u # t
    <3>1. PICK u \in S : WaitsFor(t, u)
      OBVIOUS
    <3>2. PICK v \in S : WaitsFor(u, v)
      OBVIOUS
    <3>3. tx[u].pc = "write" /\ tx[u].op # "open"
      BY <1>1, <2>1, <3>1, WaitStep
    <3>4. tx[u].op = "move"
      BY <1>1, <3>2, <3>3, WaitStep DEF Writes
    <3> QED BY <3>1, <3>4 DEF WaitsFor
  <2>2. PICK t \in S : tx[t].pc # "person"
    <3>1. PICK t \in S : TRUE
      OBVIOUS
    <3>2. PICK u \in S : WaitsFor(t, u)
      BY <3>1
    <3>3. t \in Txns /\ u \in Txns
      BY <3>1, <3>2
    <3>4. tx[t].pc = "person" => tx[u].pc # "person"
      BY <1>1, <3>2, <3>3, WaitStep
    <3> QED BY <3>1, <3>2, <3>4
  <2>3. PICK m \in Moves : m # t
    BY <2>1, <2>2
  <2>4. tx[m].pc # "person"
    <3>1. m \in Txns /\ tx[m].op = "move"
      BY <2>3
    <3> QED BY <1>1, <3>1 DEF IInv, TxInv, FillInv
  <2>5. PICK n \in Moves : n # m
    BY <2>1, <2>3, <2>4
  <2>6. IsFiniteSet(Moves) /\ Cardinality({m, n}) = 2
    <3>1. IsFiniteSet(Moves)
      BY FS_Subset
    <3>2. IsFiniteSet({m}) /\ Cardinality({m}) = 1
      BY FS_Singleton
    <3>3. {m} \cup {n} = {m, n} /\ n \notin {m}
      BY <2>5
    <3>4. Cardinality({m} \cup {n}) = Cardinality({m}) + 1
      BY <3>2, <3>3, FS_AddElement
    <3> QED BY <3>1, <3>2, <3>3, <3>4
  <2>7. {m, n} \in SUBSET Moves
    BY <2>3, <2>5
  <2>8. Cardinality({m, n}) <= Cardinality(Moves) /\ Cardinality(Moves) \in Nat
    BY <2>6, <2>7, FS_Subset, FS_CardinalityType
  <2> QED BY <2>6, <2>8
<1>2. Spec => []Holders
  BY InitHolders, NextHolders, SpecInv, PTL DEF Spec
<1> QED BY <1>1, <1>2, SpecInv, PTL

=============================================================================
