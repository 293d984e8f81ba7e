---------------------------- MODULE CustomerRecords ----------------------------
(***************************************************************************)
(* The customers of one organization and the notes on them, and the calls  *)
(* to the shop a new customer is checked with: modules/customers/service.py*)
(* and integration.py.                                                     *)
(*                                                                         *)
(* Requests, locks and versions are those of SharedRecords.  Two things    *)
(* differ.  A customer is answered from the session that has written it:   *)
(* no row is read again, so the columns are those of the commit, and the   *)
(* tags those the session loaded before it changed them.  And a customer   *)
(* is created after the shop was asked, with retries, in the middle of the *)
(* request.                                                                *)
(*                                                                         *)
(* Times are in tenths of a second.  The shop is outside: any answer may   *)
(* come, at any time.  How long an attempt takes is left out, for nothing  *)
(* limits it: httpx applies the timeout to each of its operations (to get  *)
(* a connection, to connect, to write, every read), not to their sum.      *)
(***************************************************************************)
EXTENDS SharedRecords, FiniteSets

CONSTANTS
    Owners,        \* users a customer may be assigned to, and None
    Labels,        \* what the other fields may hold
    MaxAttempts,   \* commerce_integration_max_attempts
    Timeout,       \* commerce_integration_timeout_seconds
    Backoff,       \* commerce_integration_retry_backoff_seconds
    RetryAfters    \* values of the header Retry-After; 0: none, or not a number

ASSUME CustomerAssumption ==
    /\ MaxAttempts \in Nat \ {0} /\ {Timeout, Backoff} \cup RetryAfters \subseteq Nat
    /\ Values = Owners \X Labels /\ None \in Owners

VARIABLE
    call        \* the call to the shop each user's request is in

cvars == <<vars, call>>

-----------------------------------------------------------------------------
NoCall == [row |-> None, attempt |-> 0, slept |-> 0, st |-> "none"]

\* slept is the time the request has waited between its attempts.
Call == [row : Profiles \cup {None}, attempt : 0..MaxAttempts, slept : Nat,
         st : {"none", "send", "retry", "valid", "failed"}]

CustomerTypeOK ==
    /\ TypeOK
    /\ call \in [Users -> Call]
    /\ \A r \in Rows : rows[r].active => rows[r].status # "archived"

CustomerInit ==
    /\ Init
    /\ call = [u \in Users |-> NoCall]

Free(u) == tx[u].pc = "idle" /\ call[u] = NoCall

OffTheCall == UNCHANGED call

-----------------------------------------------------------------------------
(* _get_json: a call with bounded retries *)

\* create_customer or get_commerce_activity_for_user, up to the call.
StartCall(u, r) ==
    /\ Free(u)
    /\ call' = [call EXCEPT ![u] = [row |-> r, attempt |-> 1, slept |-> 0, st |-> "send"]]
    /\ UNCHANGED vars

Larger(m, n) == IF m > n THEN m ELSE n

\* Mutant of RetryDelay: the shop says how long to wait.
RetryAsTold(attempt, asked) == Larger(Backoff * attempt, asked)

\* _retry_delay_seconds
RetryDelay(attempt, asked) ==
    Larger(Backoff * attempt, IF asked < Timeout THEN asked ELSE Timeout)

\* The shop answers for good: what was asked, or an error the client does not
\* retry.
Answered(u) ==
    \E st \in {"valid", "failed"} : call' = [call EXCEPT ![u].st = st]

\* A timeout of any operation, a broken connection, 429 or a server error.
Unavailable(u) ==
    call' = [call EXCEPT
        ![u].st = IF call[u].attempt < MaxAttempts THEN "retry" ELSE "failed"]

Attempt(u) == call[u].st = "send" /\ (Answered(u) \/ Unavailable(u)) /\ UNCHANGED vars

Retry(u) ==
    /\ call[u].st = "retry"
    /\ \E asked \in RetryAfters :
           call' = [call EXCEPT ![u].st = "send", ![u].attempt = @ + 1,
                                ![u].slept = @ + RetryDelay(call[u].attempt, asked)]
    /\ UNCHANGED vars

\* The activity is answered, or the request fails.
EndCall(u) ==
    /\ call[u].st \in {"valid", "failed"}
    /\ call' = [call EXCEPT ![u] = NoCall]
    /\ UNCHANGED vars

\* create_customer, once the shop knows the customer; the constraint on the
\* organization and the reference refuses the second of two.
CreateCustomer(u) ==
    /\ call[u].st = "valid" /\ rows[call[u].row] = Absent
    /\ \E v \in Values :
          LET new == [version |-> 1, active |-> TRUE, status |-> "open", value |-> v, tags |-> {}]
          IN  /\ v[1] = None
              /\ rows' = [rows EXCEPT ![call[u].row] = new]
              /\ copy' = [copy EXCEPT ![u][call[u].row] = new]
    /\ call' = [call EXCEPT ![u] = NoCall]
    /\ UNCHANGED <<lock, tx>>

-----------------------------------------------------------------------------
(* Requests that write, after Lock *)

Changing(u, op) == Doing(u, op) /\ tx[u].row \in Profiles

\* The row is written; the answer has its columns and the tags that were loaded.
Written(u, row) ==
    /\ tx[u].seen.version < MaxVersion[tx[u].row]
    /\ rows' = [rows EXCEPT ![tx[u].row] = [row EXCEPT !.version = @ + 1]]
    /\ copy' = [copy EXCEPT ![u][tx[u].row] =
                   [row EXCEPT !.version = @ + 1, !.tags = tx[u].seen.tags]]
    /\ tx' = [tx EXCEPT ![u] = IdleTx]
    /\ Unlock(u)
    /\ OffTheCall

\* Mutant of UpdateCustomer: the version is not counted.
UpdateUncounted(u) ==
    /\ Changing(u, "edit") /\ ExpectedVersion(u)
    /\ \E s \in Statuses \ {"archived"} :
          /\ rows' = [rows EXCEPT ![tx[u].row].status = s]
          /\ copy' = [copy EXCEPT ![u][tx[u].row] = [tx[u].seen EXCEPT !.status = s]]
    /\ tx' = [tx EXCEPT ![u] = IdleTx]
    /\ Unlock(u)
    /\ OffTheCall

\* update_customer: all fields but the owner
UpdateCustomer(u) ==
    /\ Changing(u, "edit") /\ ExpectedVersion(u)
    /\ \E v \in Values, s \in Statuses :
          /\ v[1] = tx[u].seen.value[1]
          /\ ~ (s = "archived" /\ tx[u].seen.active)
          /\ Written(u, [tx[u].seen EXCEPT !.value = v, !.status = s])

\* assign_customer_owner and unassign_customer_owner
AssignOwner(u) ==
    /\ Changing(u, "edit") /\ ExpectedVersion(u)
    /\ \E o \in Owners :
          Written(u, [tx[u].seen EXCEPT !.value = <<o, tx[u].seen.value[2]>>])

\* change_customer_status
ArchiveCustomer(u) ==
    /\ Changing(u, "archive") /\ ExpectedVersion(u)
    /\ tx[u].seen.active
    /\ Written(u, [tx[u].seen EXCEPT !.active = FALSE, !.status = "archived"])

\* Mutant of RestoreCustomer: the commercial status stays archived.
RestoreStatusless(u) ==
    /\ Changing(u, "restore") /\ ExpectedVersion(u)
    /\ ~ tx[u].seen.active
    /\ Written(u, [tx[u].seen EXCEPT !.active = TRUE])

RestoreCustomer(u) ==
    /\ Changing(u, "restore") /\ ExpectedVersion(u)
    /\ ~ tx[u].seen.active
    /\ Written(u, [tx[u].seen EXCEPT !.active = TRUE,
                                     !.status = IF @ = "archived" THEN "inactive" ELSE @])

\* attach_tag and detach_tag
AttachTag(u) ==
    /\ Changing(u, "tag")
    /\ \E g \in Tags \ tx[u].seen.tags : Written(u, [tx[u].seen EXCEPT !.tags = @ \cup {g}])

DetachTag(u) ==
    /\ Changing(u, "untag")
    /\ \E g \in tx[u].seen.tags : Written(u, [tx[u].seen EXCEPT !.tags = @ \ {g}])

\* There is nothing to change (not a field, a status or a tag): the answer is
\* the row as it was locked.
AnswerUnchanged(u) ==
    /\ tx[u].pc = "locked" /\ tx[u].row \in Profiles
    /\ tx[u].op \in {"tag", "untag"} \/ ExpectedVersion(u)
    /\ copy' = [copy EXCEPT ![u][tx[u].row] = tx[u].seen]
    /\ tx' = [tx EXCEPT ![u] = IdleTx]
    /\ Unlock(u)
    /\ UNCHANGED rows /\ OffTheCall

-----------------------------------------------------------------------------
(* Notes: create_note and update_note read the row again after the commit *)

CreateNote(u, r) == Free(u) /\ r \notin Profiles /\ Create(u, r) /\ OffTheCall

UpdateNote(u) ==
    /\ Doing(u, "edit") /\ tx[u].row \notin Profiles /\ ExpectedVersion(u)
    /\ \E v \in Values : Save(u, [tx[u].seen EXCEPT !.value = v])
    /\ OffTheCall

-----------------------------------------------------------------------------
CustomerNext ==
    \E u \in Users :
        \/ \E r \in Profiles : StartCall(u, r)
        \/ Attempt(u) \/ Retry(u) \/ EndCall(u) \/ CreateCustomer(u)
        \/ \E r \in Rows : Free(u) /\ Get(u, r) /\ OffTheCall
        \/ \E r \in Rows, op \in Ops : Free(u) /\ Lock(u, op, r) /\ OffTheCall
        \/ UpdateCustomer(u) \/ AssignOwner(u) \/ ArchiveCustomer(u) \/ RestoreCustomer(u)
        \/ AttachTag(u) \/ DetachTag(u) \/ AnswerUnchanged(u)
        \/ \E r \in Rows : CreateNote(u, r)
        \/ UpdateNote(u)
        \/ (Answer(u) \/ ReadTags(u) \/ Abort(u)) /\ OffTheCall

CustomerSpec == CustomerInit /\ [][CustomerNext]_cvars

-----------------------------------------------------------------------------
(* Properties *)

\* Whoever looks at the current version of a customer looks at its current
\* columns and, but for the one tag a change of theirs was about, its tags,
\* although no row is read again after a commit (_get_customer).
VersionNamesColumns ==
    \A u \in Users, r \in Rows :
        LET mine == copy[u][r]
        IN  mine.version = rows[r].version =>
                /\ mine = [rows[r] EXCEPT !.tags = mine.tags]
                /\ Cardinality((mine.tags \ rows[r].tags) \cup (rows[r].tags \ mine.tags)) <= 1

\* Whatever the shop asks for, a request makes it no more than the allowed
\* attempts, and all it sleeps between them is a timeout or the longest backoff
\* for each retry (_retry_delay_seconds).
SleepBounded ==
    \A u \in Users :
        call[u].st # "none" =>
            call[u].slept <= (call[u].attempt - 1) * Larger(Timeout, Backoff * (MaxAttempts - 1))

=============================================================================
