---------------------------- MODULE SharedRecords ----------------------------
(***************************************************************************)
(* Supplier profiles, with their representatives and notes, that several   *)
(* users keep on their screens and edit: modules/suppliers/service.py.     *)
(*                                                                         *)
(* Nobody locks a record while thinking.  A write names the version its    *)
(* author has seen; the service locks the row, compares versions and       *)
(* counts every accepted change.  Tags are attached without a version.     *)
(* An answer is read after the COMMIT, the row first, its tags next.       *)
(***************************************************************************)
EXTENDS Naturals

CONSTANTS
    Users,
    Rows,        \* supplier_profiles, supplier_representatives, supplier_notes
    Profiles,    \* the rows among them that have a life cycle and tags
    Values,      \* what the editable fields may hold, the owner included
    Tags,
    MaxVersion,  \* bound on the changes of a row
    None

ASSUME RecordsAssumption ==
    /\ None \notin Users
    /\ Profiles \subseteq Rows
    /\ MaxVersion \in [Rows -> Nat]
    /\ Values # {}

VARIABLES
    rows,   \* the committed rows; version 0 is a row that does not exist
    copy,   \* what each user last saw of each row
    lock,   \* the user whose request holds the row FOR UPDATE
    tx      \* the request of each user

vars == <<rows, copy, lock, tx>>

-----------------------------------------------------------------------------
Statuses == {"open", "inactive", "archived"}   \* commercial_status

\* No row has this value; it keeps absent rows in the type.
SomeValue == CHOOSE v \in Values : TRUE

Row == [version : Nat, active : BOOLEAN, status : Statuses,
        value : Values, tags : SUBSET Tags]

Absent == [version |-> 0, active |-> FALSE, status |-> "open",
           value |-> SomeValue, tags |-> {}]

Ops == {"edit", "archive", "restore", "tag", "untag"}

Tx == [pc : {"idle", "locked", "written", "row"}, op : Ops \cup {"none"},
       row : Rows \cup {None}, seen : Row]

IdleTx == [pc |-> "idle", op |-> "none", row |-> None, seen |-> Absent]

TypeOK ==
    /\ rows \in [Rows -> Row]
    /\ copy \in [Users -> [Rows -> Row]]
    /\ lock \in [Rows -> Users \cup {None}]
    /\ tx \in [Users -> Tx]

-----------------------------------------------------------------------------
(* What a user sees *)

\* The columns are read first, the tags with a second statement.
ReadRow(u, r) ==
    /\ rows[r] # Absent
    /\ tx' = [tx EXCEPT ![u] = [pc |-> "row", op |-> "none", row |-> r, seen |-> rows[r]]]
    /\ UNCHANGED <<rows, copy, lock>>

\* get_supplier_for_user
Get(u, r) == tx[u].pc = "idle" /\ ReadRow(u, r)

\* The answer to a write: populate_existing reads the row again.
Answer(u) == tx[u].pc = "written" /\ ReadRow(u, tx[u].row)

ReadTags(u) ==
    LET r == tx[u].row
    IN  /\ tx[u].pc = "row"
        /\ copy' = [copy EXCEPT ![u][r] = [tx[u].seen EXCEPT !.tags = rows[r].tags]]
        /\ tx' = [tx EXCEPT ![u] = IdleTx]
        /\ UNCHANGED <<rows, lock>>

-----------------------------------------------------------------------------
(* Requests that write *)

\* create_supplier, create_representative, create_note
Create(u, r) ==
    /\ tx[u].pc = "idle" /\ rows[r] = Absent /\ MaxVersion[r] > 0
    /\ \E v \in Values :
          rows' = [rows EXCEPT ![r] = [version |-> 1, active |-> TRUE, status |-> "open",
                                       value |-> v, tags |-> {}]]
    /\ tx' = [tx EXCEPT ![u].pc = "written", ![u].row = r]
    /\ UNCHANGED <<copy, lock>>

\* Mutant of Lock: with_for_update is forgotten.
LockUnlocked(u, op, r) ==
    /\ tx[u].pc = "idle"
    /\ rows[r] # Absent
    /\ op # "edit" => r \in Profiles
    /\ tx' = [tx EXCEPT ![u] = [pc |-> "locked", op |-> op, row |-> r, seen |-> rows[r]]]
    /\ UNCHANGED <<rows, copy, lock>>

\* The row is selected FOR UPDATE.
Lock(u, op, r) ==
    /\ tx[u].pc = "idle" /\ lock[r] = None
    /\ rows[r] # Absent
    /\ op # "edit" => r \in Profiles
    /\ lock' = [lock EXCEPT ![r] = u]
    /\ tx' = [tx EXCEPT ![u] = [pc |-> "locked", op |-> op, row |-> r, seen |-> rows[r]]]
    /\ UNCHANGED <<rows, copy>>

Unlock(u) == lock' = [r \in Rows |-> IF lock[r] = u THEN None ELSE lock[r]]

\* A refusal, a request that changes nothing or a broken connection.
Abort(u) ==
    /\ tx[u].pc # "idle"
    /\ tx' = [tx EXCEPT ![u] = IdleTx]
    /\ Unlock(u)
    /\ UNCHANGED <<rows, copy>>

Doing(u, op) == tx[u].pc = "locked" /\ tx[u].op = op

\* expected_version is the version of the copy the user looks at.
ExpectedVersion(u) == copy[u][tx[u].row].version = tx[u].seen.version

\* The loaded row, changed and counted, is written and committed.
Save(u, changed) ==
    /\ tx[u].seen.version < MaxVersion[tx[u].row]
    /\ rows' = [rows EXCEPT ![tx[u].row] = [changed EXCEPT !.version = @ + 1]]
    /\ tx' = [tx EXCEPT ![u].pc = "written"]
    /\ Unlock(u)
    /\ UNCHANGED copy

\* update_supplier, assign_supplier_owner, unassign_supplier_owner,
\* update_representative, update_note
Edit(u) ==
    /\ Doing(u, "edit") /\ ExpectedVersion(u)
    /\ \E v \in Values, s \in Statuses :
          /\ tx[u].row \notin Profiles => s = tx[u].seen.status
          /\ s = "archived" /\ s # tx[u].seen.status => ~tx[u].seen.active
          /\ Save(u, [tx[u].seen EXCEPT !.value = v, !.status = s])

\* change_supplier_status
Archive(u) ==
    /\ Doing(u, "archive") /\ ExpectedVersion(u)
    /\ tx[u].seen.active
    /\ Save(u, [tx[u].seen EXCEPT !.active = FALSE, !.status = "archived"])

Restore(u) ==
    /\ Doing(u, "restore") /\ ExpectedVersion(u)
    /\ ~tx[u].seen.active
    /\ Save(u, [tx[u].seen EXCEPT !.active = TRUE,
                                  !.status = IF @ = "archived" THEN "inactive" ELSE @])

\* Mutant of Attach: a new tag is not counted as a change of the profile.
AttachUncounted(u) ==
    /\ Doing(u, "tag")
    /\ \E g \in Tags \ tx[u].seen.tags :
          rows' = [rows EXCEPT ![tx[u].row].tags = @ \cup {g}]
    /\ tx' = [tx EXCEPT ![u].pc = "written"]
    /\ Unlock(u)
    /\ UNCHANGED copy

\* attach_tag and detach_tag: no expected version, and nothing if it is done already.
Attach(u) ==
    /\ Doing(u, "tag")
    /\ \E g \in Tags \ tx[u].seen.tags : Save(u, [tx[u].seen EXCEPT !.tags = @ \cup {g}])

Detach(u) ==
    /\ Doing(u, "untag")
    /\ \E g \in tx[u].seen.tags : Save(u, [tx[u].seen EXCEPT !.tags = @ \ {g}])

-----------------------------------------------------------------------------
Init ==
    /\ rows = [r \in Rows |-> Absent]
    /\ copy = [u \in Users |-> [r \in Rows |-> Absent]]
    /\ lock = [r \in Rows |-> None]
    /\ tx = [u \in Users |-> IdleTx]

Next ==
    \E u \in Users :
        \/ \E r \in Rows : Get(u, r) \/ Create(u, r)
        \/ \E r \in Rows, op \in Ops : Lock(u, op, r)
        \/ Edit(u) \/ Archive(u) \/ Restore(u) \/ Attach(u) \/ Detach(u)
        \/ Answer(u) \/ ReadTags(u)
        \/ Abort(u)

Spec == Init /\ [][Next]_vars

-----------------------------------------------------------------------------
(* Properties *)

\* Whoever looks at the current version looks at the current content, tags
\* included, although the columns and the tags are read by two statements and
\* tags are changed by users that never named a version.
VersionNamesContent ==
    \A u \in Users, r \in Rows :
        copy[u][r].version = rows[r].version => copy[u][r] = rows[r]

\* No lost update: a change that names a version replaces exactly what its
\* author was looking at, whatever the others did in the meantime.
NoLostUpdate ==
    [][\A u \in Users, r \in Rows :
          (/\ rows'[r] # rows[r]
           /\ tx[u].row = r
           /\ \E op \in {"edit", "archive", "restore"} : Doing(u, op) /\ ~Doing(u, op)')
              => copy[u][r] = rows[r]]_vars

\* Edits of an archived profile and a later restore never leave an active
\* profile with the status "archived".
ActiveNotArchived ==
    \A r \in Rows : rows[r].active => rows[r].status # "archived"
=============================================================================
