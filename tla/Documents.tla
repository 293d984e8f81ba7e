------------------------------ MODULE Documents ------------------------------
(***************************************************************************)
(* One document of core/documents/service.py: its life cycle, its uploaded *)
(* versions and their files, its links and its access list.                *)
(*                                                                         *)
(* Requests are transactions as in WorkflowDefinitions: statements of      *)
(* different requests interleave, FOR UPDATE on the documents row orders   *)
(* them, writes become visible at COMMIT.  The files of the storage        *)
(* provider are not part of the transaction: they are written before the   *)
(* commit and removed by hand when it fails.                               *)
(***************************************************************************)
EXTENDS Naturals, FiniteSets, Sequences

CONSTANTS
    Txns,          \* concurrent requests
    Users, Roles,
    ManageRoles,   \* the roles that grant documents.manage
    RolesOf,       \* the effective roles of each user in the organization
    AccessAdmins,  \* the users that hold access.manage there
    Targets,       \* persons and organizations a document may be linked to
    Objects,       \* storage keys (random UUIDs in the code)
    MaxVersions,   \* bound on the versions
    MaxEvents,     \* bound on the life cycle events
    Hosts, HostOf, \* the server processes, and the one that serves a request
    LostCommits,   \* a COMMIT may succeed although its answer is lost
    None

ASSUME DocumentsAssumption ==
    /\ None \notin Txns \cup Users \cup Objects
    /\ ManageRoles \subseteq Roles
    /\ RolesOf \in [Users -> SUBSET Roles]
    /\ AccessAdmins \subseteq Users
    /\ HostOf \in [Txns -> Hosts]
    /\ MaxVersions \in Nat /\ MaxEvents \in Nat
    /\ LostCommits \in BOOLEAN

VARIABLES
    status,    \* documents.status
    versions,  \* the committed document_versions with their storage objects
    files,     \* the keys that exist in the storage provider
    left,      \* history: files a crash or a failed write has left behind
    links,     \* the active document_links
    acl,       \* the active document_permissions
    trail,     \* the life cycle events in the audit log
    lock,      \* the request that holds the documents row FOR UPDATE
    tx         \* where each request is, and its local variables

store == <<versions, files, left>>
vars == <<status, store, links, acl, trail, lock, tx>>

-----------------------------------------------------------------------------
(* Data *)

\* DISABLED exists in the enumeration; no code sets it.
Statuses == {"active", "archived"}

Version == [number : Nat \ {0}, object : Objects, by : Users]

Entry == [role : Roles, type : {"read", "manage"}]

Ops == {"upload", "archive", "restore", "link", "unlink", "grant", "revoke"}

Steps == {"idle", "read", "lock", "locked", "refused", "listed", "saved", "discard"}

Tx == [pc     : Steps,
       op     : Ops \cup {"none"},
       actor  : Users \cup {None},
       view   : Statuses \cup {"none"},  \* document.status as loaded
       entry  : Entry \cup {None},       \* the permission granted or revoked
       number : Nat,                     \* version_number
       object : Objects \cup {None}]     \* stored_key

IdleTx == [pc |-> "idle", op |-> "none", actor |-> None, view |-> "none",
           entry |-> None, number |-> 0, object |-> None]

VersionObjects == {v.object : v \in versions}
InFlight == {tx[t].object : t \in Txns} \ {None}

\* Types; and the audit log alternates between archived and restored and tells
\* the current status, although requests are repeated.
TypeOK ==
    /\ status \in Statuses
    /\ \A n \in 1..Len(trail) : trail[n] = IF n % 2 = 1 THEN "archived" ELSE "restored"
    /\ status = IF Len(trail) % 2 = 1 THEN "archived" ELSE "active"
    /\ versions \subseteq Version
    /\ files \subseteq Objects /\ left \subseteq Objects
    /\ links \subseteq Targets
    /\ acl \subseteq Entry
    /\ trail \in Seq({"archived", "restored"})
    /\ lock \in Txns \cup {None}
    /\ tx \in [Txns -> Tx]

-----------------------------------------------------------------------------
(* Permissions: an access list restricts what the roles already grant. *)

ActorManageRoles(u) == RolesOf[u] \cap ManageRoles

MayManage(u) ==
    /\ ActorManageRoles(u) # {}
    /\ acl # {} => \E r \in ActorManageRoles(u) : [role |-> r, type |-> "manage"] \in acl

MayAdministerAcl(u) == MayManage(u) \/ u \in AccessAdmins

-----------------------------------------------------------------------------
(* The event loop of a server process.  Handlers run in worker threads,    *)
(* except for the upload, which is an async function: it occupies the loop *)
(* until it ends, waits for row locks included.                            *)

OccupiesLoop(t) ==
    tx[t].op = "upload" /\ tx[t].pc \in {"lock", "locked", "saved", "discard"}

LoopFree(h) == \A t \in Txns : HostOf[t] = h => ~OccupiesLoop(t)

-----------------------------------------------------------------------------
(* Transactions *)

Unlock(t) == lock' = IF lock = t THEN None ELSE lock

Finish(t) == tx' = [tx EXCEPT ![t] = IdleTx] /\ Unlock(t)

Rollback(t) == Finish(t) /\ UNCHANGED <<status, store, links, acl, trail>>

\* The process of the request dies; a file it has written stays.
Crash(t) ==
    /\ tx[t].pc # "idle"
    /\ Finish(t)
    /\ left' = left \cup ({tx[t].object} \cap (files \ VersionObjects))
    /\ UNCHANGED <<status, versions, files, links, acl, trail>>

Begin(t, o, u) ==
    /\ tx[t].pc = "idle"
    /\ tx' = [tx EXCEPT ![t].pc = IF o = "upload" THEN "read" ELSE "lock",
                        ![t].op = o, ![t].actor = u]
    /\ UNCHANGED <<status, store, links, acl, trail, lock>>

\* create_document_version first loads the document without a lock.
ReadDocument(t) ==
    /\ tx[t].pc = "read"
    /\ LoopFree(HostOf[t])
    /\ IF MayManage(tx[t].actor) /\ status = "active"
       THEN /\ tx' = [tx EXCEPT ![t].pc = "lock", ![t].view = status]
            /\ UNCHANGED <<status, store, links, acl, trail, lock>>
       ELSE Rollback(t)

\* Mutant of LockDocument: with_for_update is forgotten.
LockDocumentUnlocked(t) ==
    /\ tx[t].pc = "lock"
    /\ tx' = [tx EXCEPT ![t].pc = "locked",
                        ![t].view = IF @ = "none" THEN status ELSE @]
    /\ UNCHANGED <<status, store, links, acl, trail, lock>>

\* SELECT ... FOR UPDATE.  The session does not refresh an object it has
\* already loaded: the view of an upload stays what ReadDocument saw.
LockDocument(t) ==
    /\ tx[t].pc = "lock"
    /\ lock = None
    /\ lock' = t
    /\ tx' = [tx EXCEPT ![t].pc = "locked",
                        ![t].view = IF @ = "none" THEN status ELSE @]
    /\ UNCHANGED <<status, store, links, acl, trail>>

Holds(t, o) == tx[t].pc = "locked" /\ tx[t].op = o

Manages(t, o) == Holds(t, o) /\ MayManage(tx[t].actor)

Refused(t) ==
    /\ tx[t].pc = "locked"
    /\ IF tx[t].op \in {"grant", "revoke"}
       THEN ~MayAdministerAcl(tx[t].actor)
       ELSE ~MayManage(tx[t].actor)

\* An actor who may not manage the document is refused.  archive_document and
\* restore_document raise without a rollback: the lock is kept.
Refuse(t) ==
    /\ Refused(t)
    /\ IF tx[t].op \in {"archive", "restore"}
       THEN /\ tx' = [tx EXCEPT ![t].pc = "refused"]
            /\ UNCHANGED <<status, store, links, acl, trail, lock>>
       ELSE Rollback(t)

\* get_db closes the session of a refused request; the event loop has to take
\* the exception from the worker thread first.
CloseSession(t) ==
    /\ tx[t].pc = "refused"
    /\ LoopFree(HostOf[t])
    /\ Rollback(t)

-----------------------------------------------------------------------------
(* archive_document and restore_document: repeating one changes nothing. *)

\* Mutant of SetStatus: a repeated call writes its event again.
SetStatusNotIdempotent(t, from, to, event) ==
    IF Len(trail) < MaxEvents
    THEN /\ status' = to
         /\ trail' = Append(trail, event)
         /\ Finish(t)
         /\ UNCHANGED <<store, links, acl>>
    ELSE Rollback(t)

SetStatus(t, from, to, event) ==
    IF tx[t].view = from /\ Len(trail) < MaxEvents
    THEN /\ status' = to
         /\ trail' = Append(trail, event)
         /\ Finish(t)
         /\ UNCHANGED <<store, links, acl>>
    ELSE Rollback(t)

Archive(t) == Manages(t, "archive") /\ SetStatus(t, "active", "archived", "archived")

Restore(t) == Manages(t, "restore") /\ SetStatus(t, "archived", "active", "restored")

-----------------------------------------------------------------------------
(* add_document_link and unlink_document *)

SetLinks(t, ok, newLinks) ==
    IF tx[t].view = "active" /\ ok
    THEN links' = newLinks /\ Finish(t) /\ UNCHANGED <<status, store, acl, trail>>
    ELSE Rollback(t)

AddLink(t) ==
    /\ Manages(t, "link")
    /\ \E x \in Targets : SetLinks(t, x \notin links, links \cup {x})

Unlink(t) ==
    /\ Manages(t, "unlink")
    /\ \E x \in Targets : SetLinks(t, x \in links, links \ {x})

-----------------------------------------------------------------------------
(* grant_document_permission and revoke_document_permission *)

Administers(t, o) == Holds(t, o) /\ MayAdministerAcl(tx[t].actor)

\* The checks under the lock, then the flushed row; a failed check ends the
\* request.
FlushEntry(t, e, ok) ==
    IF ok
    THEN /\ tx' = [tx EXCEPT ![t].pc = "listed", ![t].entry = e]
         /\ UNCHANGED <<status, store, links, acl, trail, lock>>
    ELSE Rollback(t)

\* The first entry gives control to the manager that turns the list on.
MayStartAcl(u, e) ==
    /\ e.type = "manage"
    /\ e.role \in ActorManageRoles(u) \/ u \in AccessAdmins

Grant(t) ==
    /\ Administers(t, "grant")
    /\ \E e \in Entry :
          FlushEntry(t, e, /\ e.type = "manage" => e.role \in ManageRoles
                           /\ e \notin acl
                           /\ acl = {} => MayStartAcl(tx[t].actor, e))

Revoke(t) ==
    /\ Administers(t, "revoke")
    /\ \E e \in Entry :
          LET rest == acl \ {e}
          IN  FlushEntry(t, e, /\ e \in acl
                               /\ e.type = "manage" /\ rest # {}
                                     => \E f \in rest : f.type = "manage")

AclAfter(t) == IF tx[t].op = "grant" THEN acl \cup {tx[t].entry} ELSE acl \ {tx[t].entry}

CommitAcl(t) ==
    /\ tx[t].pc = "listed"
    /\ acl' = AclAfter(t)
    /\ Finish(t)
    /\ UNCHANGED <<status, store, links, trail>>

-----------------------------------------------------------------------------
(* create_document_version *)

\* Mutant of SaveFile: the permission is not checked again under the lock.
SaveFileNoRecheck(t) ==
    /\ Holds(t, "upload")
    /\ IF tx[t].view = "active" /\ Cardinality(versions) < MaxVersions
       THEN \E o \in Objects \ (files \cup VersionObjects) :
              /\ files' = files \cup {o}
              /\ tx' = [tx EXCEPT ![t].pc = "saved", ![t].object = o,
                                  ![t].number = Cardinality(versions) + 1]
              /\ UNCHANGED <<status, versions, left, links, acl, trail, lock>>
       ELSE Rollback(t)

\* The permission is checked again, the loaded status as well; the number is
\* the highest one plus one; the file is written.
SaveFile(t) ==
    /\ Manages(t, "upload")
    /\ IF tx[t].view = "active" /\ Cardinality(versions) < MaxVersions
       THEN \E o \in Objects \ (files \cup VersionObjects) :
              /\ files' = files \cup {o}
              /\ tx' = [tx EXCEPT ![t].pc = "saved", ![t].object = o,
                                  ![t].number = Cardinality(versions) + 1]
              /\ UNCHANGED <<status, versions, left, links, acl, trail, lock>>
       ELSE Rollback(t)

\* storage.save raises; an incomplete file may stay.
SaveFails(t) ==
    /\ Manages(t, "upload")
    /\ \E junk \in SUBSET (Objects \ (files \cup VersionObjects)) :
          /\ Cardinality(junk) <= 1
          /\ files' = files \cup junk
          /\ left' = left \cup junk
    /\ Finish(t)
    /\ UNCHANGED <<status, versions, links, acl, trail>>

NewVersion(t) ==
    [number |-> tx[t].number, object |-> tx[t].object, by |-> tx[t].actor]

\* uq_document_version
NumberFree(t) == \A v \in versions : v.number # tx[t].number

\* Mutant of CommitVersion: a statement after the COMMIT raises.
CommitVersionThenFails(t) ==
    /\ tx[t].pc = "saved"
    /\ NumberFree(t)
    /\ versions' = versions \cup {NewVersion(t)}
    /\ tx' = [tx EXCEPT ![t].pc = "discard"]
    /\ Unlock(t)
    /\ UNCHANGED <<status, files, left, links, acl, trail>>

CommitVersion(t) ==
    /\ tx[t].pc = "saved"
    /\ NumberFree(t)
    /\ versions' = versions \cup {NewVersion(t)}
    /\ Finish(t)
    /\ UNCHANGED <<status, files, left, links, acl, trail>>

\* Mutant of FailVersion: the file is not discarded.
FailVersionKeepsFile(t) ==
    tx[t].pc = "saved" /\ Rollback(t)

\* Whether a COMMIT that raised took effect: it may have when the connection
\* broke before it was acknowledged.
CommitTookEffect == IF LostCommits THEN BOOLEAN ELSE {FALSE}

\* A statement or the COMMIT fails: the transaction is over, then the file is
\* discarded.
FailVersion(t) ==
    /\ tx[t].pc = "saved"
    /\ \E committed \in CommitTookEffect :
          /\ committed => NumberFree(t)
          /\ versions' = IF committed THEN versions \cup {NewVersion(t)} ELSE versions
    /\ tx' = [tx EXCEPT ![t].pc = "discard"]
    /\ Unlock(t)
    /\ UNCHANGED <<status, files, left, links, acl, trail>>

\* storage.discard_uncommitted
DiscardFile(t) ==
    /\ tx[t].pc = "discard"
    /\ files' = files \ {tx[t].object}
    /\ Finish(t)
    /\ UNCHANGED <<status, versions, left, links, acl, trail>>

-----------------------------------------------------------------------------

Init ==
    /\ status = "active"
    /\ versions = {} /\ files = {} /\ left = {}
    /\ links = {} /\ acl = {} /\ trail = <<>>
    /\ lock = None
    /\ tx = [t \in Txns |-> IdleTx]

\* What a request does by itself, in whatever state the document is.
Work(t) ==
    \/ Refuse(t)
    \/ Archive(t) \/ Restore(t)
    \/ AddLink(t) \/ Unlink(t)
    \/ Grant(t) \/ Revoke(t) \/ CommitAcl(t)
    \/ SaveFile(t) \/ SaveFails(t)
    \/ CommitVersion(t) \/ FailVersion(t) \/ DiscardFile(t)

\* What waits for its turn in the event loop.
LoopTurn(t) == ReadDocument(t) \/ CloseSession(t)

Next ==
    \E t \in Txns :
        \/ \E o \in Ops, u \in Users : Begin(t, o, u)
        \/ LoopTurn(t)
        \/ LockDocument(t)
        \/ Work(t)
        \/ Crash(t)

Spec == Init /\ [][Next]_vars

\* A thread runs its handler to the end, the event loop serves its callbacks
\* and PostgreSQL the waiters of a row lock in the order they queue.
FairSpec ==
    /\ Spec
    /\ \A t \in Txns :
          WF_vars(Work(t)) /\ SF_vars(LoopTurn(t)) /\ SF_vars(LockDocument(t))

-----------------------------------------------------------------------------
(* Properties *)

\* The file of a committed version is there, whatever uploads failed.
VersionsHaveFiles == VersionObjects \subseteq files

\* A file belongs to a version or to an upload that is still running, unless a
\* crash or a failed write has left it: a failed transaction cleans up.
FilesAccountedFor == files \subseteq VersionObjects \cup InFlight \cup left

\* However grants and revocations interleave, a restricted document keeps a
\* manager entry.
RestrictedHasManager == acl # {} => \E e \in acl : e.type = "manage"

\* The links of an archived document do not change.
ArchivedKeepsLinks == [][links' # links => status = "active"]_vars

\* An archived document is frozen against new versions.
ArchivedKeepsVersions == [][versions' # versions => status = "active"]_vars

\* A version is committed only while the access list allows its author to
\* manage the document, even if the list changed since the upload began.
UploadsPermitted ==
    [][\A v \in versions' \ versions : MayManage(v.by)]_vars

\* A request that is refused gets its 403 or 404.
RefusedAnswered == \A t \in Txns : tx[t].pc = "refused" ~> tx[t].pc = "idle"

\* The promise to those who upload: see DocumentVault.  A version whose file
\* is gone shows up as None, which the vault never stores.
ObjectOf(n) == (CHOOSE v \in versions : v.number = n).object

contents ==
    [n \in 1..Cardinality(versions) |-> IF ObjectOf(n) \in files THEN ObjectOf(n) ELSE None]

Vault == INSTANCE DocumentVault WITH stored <- contents

ImplementsVault == Vault!Spec
=============================================================================
