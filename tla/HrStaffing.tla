----------------------------- MODULE HrStaffing -----------------------------
(***************************************************************************)
(* Positions and employments of one organization: modules/hr/service.py,   *)
(* with the two facts of core/people/service.py it looks at.               *)
(*                                                                         *)
(* A request is a transaction in READ COMMITTED: it locks rows FOR UPDATE  *)
(* one after the other, reads what each of them protects, and ends with    *)
(* the COMMIT that makes its writes visible.                               *)
(* No unique index backs the rules "one active employment of a person" and *)
(* "one active occupant of a position": the row locks carry them.          *)
(* Dates, names and codes are left out: they only refuse requests.         *)
(***************************************************************************)
EXTENDS Naturals, FiniteSets

CONSTANTS
    Txns,         \* concurrent requests
    Persons, Positions,
    Employments,  \* the rows of hr_employments there is room for
    Job,          \* the job profile of every position
    Kinds,        \* the operations that are requested
    FirstPositions, \* the positions at the start
    None

Ops == {"hire", "transfer", "rehire", "open", "move", "activate", "deactivate",
        "retireJob"}

Rows == Persons \cup Positions \cup Employments \cup {Job}

ASSUME HrAssumption ==
    /\ None \notin Txns \cup Rows
    /\ Persons \cap Positions = {} /\ Persons \cap Employments = {}
    /\ Positions \cap Employments = {}
    /\ Job \notin Persons \cup Positions \cup Employments
    /\ Kinds \subseteq Ops \cup {"end", "person"}
    /\ FirstPositions \in
          [Positions -> [status : {"absent", "active", "inactive"},
                         reportsTo : Positions \cup {None}]]
    /\ \A p, q \in Positions :
          FirstPositions[p].reportsTo = q => /\ FirstPositions[q].status # "absent"
                                             /\ FirstPositions[q].reportsTo # p

VARIABLES
    people,      \* the persons that are active
    related,     \* those with a relationship to the organization in force today
    jobActive,   \* hr_job_profiles.is_active
    positions, employments,
    lock,        \* the request that holds a row FOR UPDATE
    tx           \* where each request is, and its local variables

data == <<people, related, jobActive, positions, employments>>
vars == <<data, lock, tx>>

-----------------------------------------------------------------------------
(* Data *)

Position == [status : {"absent", "active", "inactive"}, reportsTo : Positions \cup {None}]

Employment == [status : {"ended", "active"}, person : Persons, position : Positions \cup {None}]

NoEmployment == [status |-> "absent", person |-> None, position |-> None]

Tx == [pc : {"idle", "person", "position", "write"},
       op : Ops \cup {"none"},
       employment : Employments \cup {None},
       person     : Persons \cup {None},
       position   : Positions \cup {None},   \* the position, or the superior of a move
       row        : Positions \cup {None},   \* the position that is written
       personSeen   : BOOLEAN,               \* person.is_active as loaded
       positionSeen : BOOLEAN \cup {None}]   \* position.is_active, None: not loaded yet

IdleTx == [pc |-> "idle", op |-> "none", employment |-> None, person |-> None,
           position |-> None, row |-> None, personSeen |-> FALSE, positionSeen |-> None]

TypeOK ==
    /\ people \subseteq Persons /\ related \subseteq Persons
    /\ jobActive \in BOOLEAN
    /\ positions \in [Positions -> Position]
    /\ employments \in [Employments -> Employment \cup {NoEmployment}]
    /\ lock \in [Rows -> Txns \cup {None}]
    /\ tx \in [Txns -> Tx]

Employs(e, x) == employments[e].status = "active" /\ employments[e].person = x

Occupies(e, p) == employments[e].status = "active" /\ employments[e].position = p

ActivePosition(p) == positions[p].status = "active"

Superior(p) == positions[p].reportsTo

ActiveReports(p) == {q \in Positions : ActivePosition(q) /\ Superior(q) = p}

\* The chain of superiors from p upwards.
Chain(p) ==
    {q \in Positions :
        \A S \in SUBSET Positions :
            p \in S /\ (\A r \in S : Superior(r) \in S \cup {None}) => q \in S}

-----------------------------------------------------------------------------
(* Transactions *)

Idle(t, op) == tx[t].pc = "idle" /\ op \in Kinds

Free(r) == lock[r] = None

Hold(t, r) == lock' = [lock EXCEPT ![r] = t]

\* The row is free, or the request has locked it itself.
MayLock(t, r) == lock[r] \in {None, t}

Release(t) == lock' = [r \in Rows |-> IF lock[r] = t THEN None ELSE lock[r]]

Finish(t) == tx' = [tx EXCEPT ![t] = IdleTx] /\ Release(t)

\* The request is refused, it is the victim of a deadlock or its process dies.
Abort(t) == tx[t].pc # "idle" /\ Finish(t) /\ UNCHANGED data

Enter(t, new) == tx' = [tx EXCEPT ![t] = new] /\ UNCHANGED data

Writes(t, op) == tx[t].pc = "write" /\ tx[t].op = op

SetPosition(t, p, status, superior) ==
    /\ positions' = [positions EXCEPT ![p] = [status |-> status, reportsTo |-> superior]]
    /\ Finish(t)
    /\ UNCHANGED <<people, related, jobActive, employments>>

SetEmployment(t, e, person, position, status) ==
    /\ employments' = [employments EXCEPT ![e] =
                          [status |-> status, person |-> person, position |-> position]]
    /\ Finish(t)
    /\ UNCHANGED <<people, related, jobActive, positions>>

-----------------------------------------------------------------------------
(* The locks on the way to an active employment *)

AfterPerson(p) == IF p = None THEN "write" ELSE "position"

\* Mutant of StartHire: the position is locked before the person.
StartHirePositionFirst(t, x, p) ==
    LET first == IF p = None THEN x ELSE p
    IN  /\ Idle(t, "hire") /\ Free(first)
        /\ x \in people \cap related
        /\ \A e \in Employments : ~Employs(e, x) /\ ~Occupies(e, first)
        /\ Hold(t, first)
        /\ Enter(t, [IdleTx EXCEPT !.pc = "person", !.op = "hire", !.person = x,
                                   !.position = p, !.personSeen = TRUE])

\* create_employment locks the person and reads it as it is now.
StartHire(t, x, p) ==
    /\ Idle(t, "hire") /\ Free(x)
    /\ x \in people \cap related
    /\ \A e \in Employments : ~Employs(e, x)
    /\ Hold(t, x)
    /\ Enter(t, [IdleTx EXCEPT !.pc = AfterPerson(p), !.op = "hire",
                              !.person = x, !.position = p])

\* change_employment_status locks the employment; the person and the position
\* are loaded along with it, without a lock.
StartRehire(t, e) ==
    /\ Idle(t, "rehire") /\ Free(e)
    /\ employments[e].status = "ended"
    /\ Hold(t, e)
    /\ LET x == employments[e].person
           p == employments[e].position
       IN  Enter(t, [IdleTx EXCEPT !.pc = "person", !.op = "rehire",
                        !.employment = e, !.person = x, !.position = p,
                        !.personSeen = (x \in people),
                        !.positionSeen = IF p = None THEN None ELSE ActivePosition(p)])

\* update_employment locks the employment.  The new position is not loaded yet;
\* an ended employment may be moved as well.
StartTransfer(t, e, p) ==
    /\ Idle(t, "transfer") /\ Free(e)
    /\ employments[e].status # "absent" /\ employments[e].position # p
    /\ Hold(t, e)
    /\ Enter(t, [IdleTx EXCEPT !.pc = AfterPerson(p), !.op = "transfer",
                              !.employment = e, !.position = p])

\* Mutant of LockPerson: the person is read without FOR UPDATE.
LockPersonUnlocked(t) ==
    LET x == tx[t].person
    IN  /\ tx[t].pc = "person"
        /\ tx[t].personSeen /\ x \in related
        /\ \A e \in Employments \ {tx[t].employment} : ~Employs(e, x)
        /\ Enter(t, [tx[t] EXCEPT !.pc = AfterPerson(tx[t].position)])
        /\ UNCHANGED lock

\* The row is locked, but the loaded person is not refreshed.
LockPerson(t) ==
    LET x == tx[t].person
    IN  /\ tx[t].pc = "person" /\ MayLock(t, x)
        /\ tx[t].personSeen /\ x \in related
        /\ \A e \in Employments \ {tx[t].employment} : ~Employs(e, x)
        /\ Hold(t, x)
        /\ Enter(t, [tx[t] EXCEPT !.pc = AfterPerson(tx[t].position)])

\* Mutant of LockPosition: the occupant is looked for only by a hire.
LockPositionNewOnly(t) ==
    LET p == tx[t].position
    IN  /\ tx[t].pc = "position" /\ MayLock(t, p)
        /\ IF tx[t].positionSeen = None THEN ActivePosition(p) ELSE tx[t].positionSeen
        /\ tx[t].op = "hire" => \A e \in Employments : ~Occupies(e, p)
        /\ Hold(t, p)
        /\ Enter(t, [tx[t] EXCEPT !.pc = "write"])

\* A position that is loaded already keeps the is_active it was loaded with.
LockPosition(t) ==
    LET p == tx[t].position
    IN  /\ tx[t].pc = "position" /\ MayLock(t, p)
        /\ IF tx[t].positionSeen = None THEN ActivePosition(p) ELSE tx[t].positionSeen
        /\ \A e \in Employments \ {tx[t].employment} : ~Occupies(e, p)
        /\ Hold(t, p)
        /\ Enter(t, [tx[t] EXCEPT !.pc = "write"])

Hire(t) ==
    /\ Writes(t, "hire")
    /\ \E e \in Employments :
          /\ employments[e].status = "absent"
          /\ SetEmployment(t, e, tx[t].person, tx[t].position, "active")

Rehire(t) ==
    /\ Writes(t, "rehire")
    /\ SetEmployment(t, tx[t].employment, tx[t].person, tx[t].position, "active")

Transfer(t) ==
    LET e == tx[t].employment
    IN  /\ Writes(t, "transfer")
        /\ SetEmployment(t, e, employments[e].person, tx[t].position, employments[e].status)

\* Ending an employment looks at no other row.
End(e) ==
    /\ "end" \in Kinds /\ Free(e)
    /\ employments[e].status = "active"
    /\ employments' = [employments EXCEPT ![e].status = "ended"]
    /\ UNCHANGED <<people, related, jobActive, positions, lock, tx>>

-----------------------------------------------------------------------------
(* Persons: neither status looks at employments. *)

SetPerson(x) ==
    /\ "person" \in Kinds /\ Free(x)
    /\ \/ /\ people' = IF x \in people THEN people \ {x} ELSE people \cup {x}
          /\ UNCHANGED related
       \/ /\ related' = IF x \in related THEN related \ {x} ELSE related \cup {x}
          /\ UNCHANGED people
    /\ UNCHANGED <<jobActive, positions, employments, lock, tx>>

-----------------------------------------------------------------------------
(* Positions *)

\* _validate_reports_to, read without locks: an active superior whose chain ends
\* without passing the position itself.
MayReportTo(p, q) ==
    q # None => /\ ActivePosition(q)
                /\ p \notin Chain(q)
                /\ \E r \in Chain(q) : Superior(r) = None

\* create_position locks nothing.
StartOpen(t, p, q) ==
    /\ Idle(t, "open")
    /\ positions[p].status = "absent"
    /\ jobActive /\ MayReportTo(p, q)
    /\ Enter(t, [IdleTx EXCEPT !.pc = "write", !.op = "open", !.row = p, !.position = q])
    /\ UNCHANGED lock

\* Mutant of StartMove: the moved position is read without FOR UPDATE.
StartMoveUnlocked(t, p, q) ==
    /\ Idle(t, "move")
    /\ positions[p].status # "absent" /\ Superior(p) # q
    /\ MayReportTo(p, q)
    /\ Enter(t, [IdleTx EXCEPT !.pc = "write", !.op = "move", !.row = p, !.position = q])
    /\ UNCHANGED lock

\* update_position
StartMove(t, p, q) ==
    /\ Idle(t, "move") /\ Free(p)
    /\ positions[p].status # "absent" /\ Superior(p) # q
    /\ MayReportTo(p, q)
    /\ Hold(t, p)
    /\ Enter(t, [IdleTx EXCEPT !.pc = "write", !.op = "move", !.row = p, !.position = q])

\* change_position_status
StartActivate(t, p) ==
    /\ Idle(t, "activate") /\ Free(p)
    /\ positions[p].status = "inactive"
    /\ jobActive /\ MayReportTo(p, Superior(p))
    /\ Hold(t, p)
    /\ Enter(t, [IdleTx EXCEPT !.pc = "write", !.op = "activate", !.row = p])

\* Mutant of StartDeactivate: the position is read without FOR UPDATE.
StartDeactivateUnlocked(t, p) ==
    /\ Idle(t, "deactivate")
    /\ ActivePosition(p)
    /\ \A e \in Employments : ~Occupies(e, p)
    /\ ActiveReports(p) = {}
    /\ Enter(t, [IdleTx EXCEPT !.pc = "write", !.op = "deactivate", !.row = p])
    /\ UNCHANGED lock

StartDeactivate(t, p) ==
    /\ Idle(t, "deactivate") /\ Free(p)
    /\ ActivePosition(p)
    /\ \A e \in Employments : ~Occupies(e, p)
    /\ ActiveReports(p) = {}
    /\ Hold(t, p)
    /\ Enter(t, [IdleTx EXCEPT !.pc = "write", !.op = "deactivate", !.row = p])

\* The foreign keys of the new row lock its superior and its job profile.
OpenPosition(t) ==
    LET p == tx[t].row
        q == tx[t].position
    IN  /\ Writes(t, "open")
        /\ positions[p].status = "absent"
        /\ MayLock(t, Job)
        /\ q # None => MayLock(t, q)
        /\ SetPosition(t, p, "active", q)

\* The changed foreign key locks the new superior.
Move(t) ==
    LET p == tx[t].row
        q == tx[t].position
    IN  /\ Writes(t, "move")
        /\ q # None => MayLock(t, q)
        /\ SetPosition(t, p, positions[p].status, q)

Activate(t) ==
    /\ Writes(t, "activate")
    /\ SetPosition(t, tx[t].row, "active", Superior(tx[t].row))

Deactivate(t) ==
    /\ Writes(t, "deactivate")
    /\ SetPosition(t, tx[t].row, "inactive", Superior(tx[t].row))

-----------------------------------------------------------------------------
(* change_job_profile_status *)

StartRetireJob(t) ==
    /\ Idle(t, "retireJob") /\ Free(Job)
    /\ jobActive /\ \A p \in Positions : ~ActivePosition(p)
    /\ Hold(t, Job)
    /\ Enter(t, [IdleTx EXCEPT !.pc = "write", !.op = "retireJob"])

RetireJob(t) ==
    /\ Writes(t, "retireJob")
    /\ jobActive' = FALSE
    /\ Finish(t)
    /\ UNCHANGED <<people, related, positions, employments>>

RestoreJob ==
    /\ Free(Job) /\ ~jobActive
    /\ jobActive' = TRUE
    /\ UNCHANGED <<people, related, positions, employments, lock, tx>>

-----------------------------------------------------------------------------
Init ==
    /\ people = Persons /\ related = Persons
    /\ jobActive = TRUE
    /\ positions = FirstPositions
    /\ employments = [e \in Employments |-> NoEmployment]
    /\ lock = [r \in Rows |-> None]
    /\ tx = [t \in Txns |-> IdleTx]

Superiors == Positions \cup {None}

Starts(t) ==
    \/ \E x \in Persons, p \in Superiors : StartHire(t, x, p)
    \/ \E e \in Employments : StartRehire(t, e)
    \/ \E e \in Employments, p \in Superiors : StartTransfer(t, e, p)
    \/ \E p \in Positions, q \in Superiors : StartOpen(t, p, q)
    \/ \E p \in Positions, q \in Superiors : StartMove(t, p, q)
    \/ \E p \in Positions : StartActivate(t, p)
    \/ \E p \in Positions : StartDeactivate(t, p)
    \/ StartRetireJob(t)

Next ==
    \/ \E t \in Txns :
          \/ Starts(t)
          \/ LockPerson(t) \/ LockPosition(t)
          \/ Hire(t) \/ Rehire(t) \/ Transfer(t)
          \/ OpenPosition(t) \/ Move(t) \/ Activate(t) \/ Deactivate(t)
          \/ RetireJob(t)
          \/ Abort(t)
    \/ \E e \in Employments : End(e)
    \/ \E x \in Persons : SetPerson(x)
    \/ RestoreJob

Spec == Init /\ [][Next]_vars

-----------------------------------------------------------------------------
(* Properties *)

\* A person has at most one active employment in the organization, although no
\* index says so and hires and reactivations of the same person race.
OneEmployment ==
    \A e, f \in Employments, x \in Persons : Employs(e, x) /\ Employs(f, x) => e = f

\* A position has at most one active occupant, although it can be reached by a
\* hire, a transfer and a reactivation at the same time.
OneOccupant ==
    \A e, f \in Employments, p \in Positions : Occupies(e, p) /\ Occupies(f, p) => e = f

\* A position is deactivated only while nobody occupies it.
DeactivatedVacant ==
    [][\A p \in Positions :
          ActivePosition(p) /\ ~ActivePosition(p)'
              => \A e \in Employments : ~Occupies(e, p)]_vars

\* No position reports to itself, and no two report to each other.  What each of
\* two opposite moves has validated is out of date when it commits; the key
\* share lock of the foreign key on the new superior lets only one of them end.
NoMutualReports ==
    \A p, q \in Positions : Superior(p) = q => Superior(q) # p

Needs(t) ==
    CASE tx[t].pc = "person" -> {tx[t].person}
      [] tx[t].pc = "position" -> {tx[t].position}
      [] Writes(t, "move") -> {tx[t].position} \ {None}
      [] Writes(t, "open") -> {tx[t].position, Job} \ {None}
      [] OTHER -> {}

WaitsFor(t, u) == u # t /\ \E r \in Needs(t) : lock[r] = u

\* Requests that wait only for each other include two moves of positions:
\* employment, person, position is one lock order for all that changes staff.
OnlyMovesDeadlock ==
    \A S \in SUBSET Txns :
        S # {} /\ (\A t \in S : \E u \in S : WaitsFor(t, u))
            => Cardinality({t \in S : tx[t].op = "move"}) > 1

\* A position "cannot report to itself or form a reporting cycle"
\* (docs/phase-d1-hr-foundation.md, positions).
NoReportingCycle ==
    \A p \in Positions : \E q \in Chain(p) : Superior(q) = None
=============================================================================
