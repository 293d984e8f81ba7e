---------------------------- MODULE DocumentCatalog ----------------------------
(***************************************************************************)
(* The catalog data of the documents of one organization: the categories,  *)
(* the retention policies and the metadata of the documents, changed by    *)
(* requests that run at the same time (core/documents/service.py, from     *)
(* _resolve_active_category on, and the routes in front of it).            *)
(*                                                                         *)
(* A request selects the row it changes FOR UPDATE, reads other rows       *)
(* without a lock, one statement after the other, and writes its row.      *)
(* PostgreSQL takes FOR KEY SHARE on every row a new foreign key names;    *)
(* this lock waits for FOR UPDATE and is taken with the commit, because    *)
(* whoever holds it waits for nobody that could wait for it.               *)
(*                                                                         *)
(* Abort stands for refusals (no permission, an archived document, a code  *)
(* that is taken, a failed check), for a deadlock PostgreSQL breaks and    *)
(* for requests that change nothing.                                       *)
(***************************************************************************)
EXTENDS Naturals

CONSTANTS
    Categories, Policies, Documents,   \* the rows that can exist
    Requests,
    Dates,       \* what expires_at may be; 0 is no date
    Created,     \* created_at of the documents
    Days,        \* what retention_days may be
    MaxChanges,  \* bound on the committed changes
    None

ASSUME CatalogAssumption ==
    /\ None \notin Categories \cup Policies \cup Documents
    /\ Categories \cap Policies = {} /\ (Categories \cup Policies) \cap Documents = {}
    /\ Dates \cup Days \cup {Created} \subseteq Nat \ {0} /\ Days # {}
    /\ MaxChanges \in Nat

VARIABLES
    categories, policies, documents,   \* the committed rows
    tx,                                \* the requests
    raced,                             \* a category was written by a request another one had overtaken
    changes                            \* the number of changes committed

vars == <<categories, policies, documents, tx, raced, changes>>

-----------------------------------------------------------------------------
\* DocumentCategory, RetentionPolicy, Document
Statuses == {"none", "active", "inactive"}

Category == [status : Statuses, parent : Categories \cup {None}]

Policy == [status : Statuses, basis : {"created_at", "expires_at"}, days : Days]

Document == [category : Categories \cup {None}, expires : Dates \cup {0},
             policy : Policies \cup {None}, review : Nat]

NewDocument == [category |-> None, expires |-> 0, policy |-> None, review |-> 0]

Rows == Categories \cup Policies \cup Documents

\* A request: what it does, to which row; the parent it looks up, the ancestor
\* it has come to, the parent that one had, and those before it; the document
\* as it will be, and whether expires_at is among the changes; and whether a
\* category has been written since the request began to deal with one.
Tx == [pc : {"idle", "locked", "walking", "fields", "checked"},
       op : {"none", "create", "move", "edit", "deactivate", "restore"},
       row : Rows \cup {None},
       parent : Categories \cup {None}, at : Categories \cup {None},
       up : Categories \cup {None}, seen : SUBSET Categories,
       document : Document, dated : BOOLEAN, overtaken : BOOLEAN]

Idle == [pc |-> "idle", op |-> "none", row |-> None, parent |-> None, at |-> None,
         up |-> None, seen |-> {}, document |-> NewDocument, dated |-> FALSE,
         overtaken |-> FALSE]

\* Types; a document has a review date exactly while it has a policy.
TypeOK ==
    /\ categories \in [Categories -> Category]
    /\ policies \in [Policies -> Policy]
    /\ documents \in [Documents -> Document]
    /\ tx \in [Requests -> Tx]
    /\ raced \in BOOLEAN /\ changes \in 0..MaxChanges
    /\ \A d \in Documents : documents[d].policy = None <=> documents[d].review = 0

\* A document of the catalog exists: creating it sets none of these columns.
Init ==
    /\ categories = [c \in Categories |-> [status |-> "none", parent |-> None]]
    /\ policies = [p \in Policies |-> CHOOSE policy \in Policy : policy.status = "none"]
    /\ documents = [d \in Documents |-> NewDocument]
    /\ tx = [r \in Requests |-> Idle]
    /\ raced = FALSE /\ changes = 0

-----------------------------------------------------------------------------
(* Locks and the ends of requests *)

Exists(x) ==
    /\ x \in Categories => categories[x].status # "none"
    /\ x \in Policies => policies[x].status # "none"

\* Mutant of Locked: with_for_update is forgotten for the categories.
LockedElsewhere(x) ==
    x \notin Categories \cup {None} /\ \E r \in Requests : tx[r].pc # "idle" /\ tx[r].row = x

\* Somebody holds the row FOR UPDATE.
Locked(x) == x # None /\ \E r \in Requests : tx[r].pc # "idle" /\ tx[r].row = x

MayDo(op, x) ==
    \/ op = "move" /\ x \in Categories
    \/ op = "edit" /\ x \in Policies \cup Documents
    \/ op \in {"deactivate", "restore"} /\ x \in Categories \cup Policies

\* The request goes on as t; nothing is committed.
Becomes(r, t) ==
    /\ tx' = [tx EXCEPT ![r] = t]
    /\ UNCHANGED <<categories, policies, documents, raced, changes>>

\* The row is selected FOR UPDATE.
Lock(r, op, x) ==
    /\ tx[r].pc = "idle" /\ MayDo(op, x)
    /\ Exists(x) /\ ~ Locked(x)
    /\ Becomes(r, [tx[r] EXCEPT !.pc = "locked", !.op = op, !.row = x])

Doing(r, op, rows) == tx[r].pc = "locked" /\ tx[r].op = op /\ tx[r].row \in rows

Checked(r, op) == tx[r].pc = "checked" /\ tx[r].op = op

Check(r) == Becomes(r, [tx[r] EXCEPT !.pc = "checked"])

\* The commit writes the row and ends the request.
Commit(r) == changes < MaxChanges /\ changes' = changes + 1

OnCategories(r) == tx[r].op = "create" \/ tx[r].row \in Categories

WriteCategory(r, c, category) ==
    /\ Commit(r)
    /\ categories' = [categories EXCEPT ![c] = category]
    /\ tx' = [s \in Requests |->
                IF s = r THEN Idle ELSE [tx[s] EXCEPT !.overtaken = @ \/ OnCategories(s)]]
    /\ raced' = (raced \/ tx[r].overtaken)
    /\ UNCHANGED <<policies, documents>>

WritePolicy(r, p, policy) ==
    /\ Commit(r)
    /\ policies' = [policies EXCEPT ![p] = policy]
    /\ tx' = [tx EXCEPT ![r] = Idle]
    /\ UNCHANGED <<categories, documents, raced>>

Abort(r) == tx[r].pc # "idle" /\ Becomes(r, Idle)

-----------------------------------------------------------------------------
(* Categories *)

\* _resolve_active_category
ActiveCategory(c) == categories[c].status = "active"

\* _validate_category_parent, its first read: the parent, without a lock.
LookUp(r, op, p) ==
    /\ IF op = "create" THEN tx[r].pc = "idle" /\ Categories # {}
                        ELSE Doing(r, "move", Categories) /\ p # tx[r].row
    /\ p # None => ActiveCategory(p)
    /\ Becomes(r, IF p = None THEN [tx[r] EXCEPT !.pc = "checked", !.op = op]
                  ELSE [tx[r] EXCEPT !.pc = "walking", !.op = op, !.parent = p,
                                     !.at = p, !.up = categories[p].parent])

\* Mutant of Walk: only the parent itself is compared with the category.
WalkNot(r) == tx[r].pc = "walking" /\ Check(r)

\* Its loop: one ancestor after the other is read, each by a statement of its
\* own; an ancestor that is the category, or was read before, is a conflict.
Walk(r) ==
    LET t == tx[r]
    IN  /\ t.pc = "walking"
        /\ \/ t.up = None /\ Check(r)
           \/ /\ t.up \notin {None, t.row} /\ t.at \notin t.seen
              /\ Becomes(r, [t EXCEPT !.at = t.up, !.up = categories[t.up].parent,
                                      !.seen = t.seen \cup {t.at}])

\* create_document_category
CreateCategory(r) ==
    /\ Checked(r, "create") /\ ~ Locked(tx[r].parent)
    /\ \E c \in Categories :
           ~ Exists(c) /\ WriteCategory(r, c, [status |-> "active", parent |-> tx[r].parent])

\* update_document_category, when the parent changes
MoveCategory(r) ==
    LET c == tx[r].row
    IN  /\ Checked(r, "move")
        /\ tx[r].parent # categories[c].parent /\ ~ Locked(tx[r].parent)
        /\ WriteCategory(r, c, [categories[c] EXCEPT !.parent = tx[r].parent])

\* deactivate_document_category: the children are read without a lock.
CheckChildren(r) ==
    /\ Doing(r, "deactivate", Categories) /\ ActiveCategory(tx[r].row)
    /\ \A c \in Categories : categories[c].parent = tx[r].row => ~ ActiveCategory(c)
    /\ Check(r)

DeactivateCategory(r) ==
    /\ Checked(r, "deactivate")
    /\ WriteCategory(r, tx[r].row, [categories[tx[r].row] EXCEPT !.status = "inactive"])

\* restore_document_category: the parent is read without a lock.
CheckParent(r) ==
    /\ Doing(r, "restore", Categories) /\ ~ ActiveCategory(tx[r].row)
    /\ categories[tx[r].row].parent # None => ActiveCategory(categories[tx[r].row].parent)
    /\ Check(r)

RestoreCategory(r) ==
    /\ Checked(r, "restore")
    /\ WriteCategory(r, tx[r].row, [categories[tx[r].row] EXCEPT !.status = "active"])

-----------------------------------------------------------------------------
(* Retention policies *)

\* create_retention_policy
CreatePolicy(r) ==
    /\ tx[r].pc = "idle"
    /\ \E p \in Policies, policy \in Policy :
           ~ Exists(p) /\ policy.status = "active" /\ WritePolicy(r, p, policy)

\* update_retention_policy
UpdatePolicy(r) ==
    /\ Doing(r, "edit", Policies)
    /\ \E policy \in Policy :
           /\ policy.status = policies[tx[r].row].status /\ policy # policies[tx[r].row]
           /\ WritePolicy(r, tx[r].row, policy)

\* deactivate_retention_policy and restore_retention_policy
SwitchPolicy(r, op, from, to) ==
    /\ Doing(r, op, Policies) /\ policies[tx[r].row].status = from
    /\ WritePolicy(r, tx[r].row, [policies[tx[r].row] EXCEPT !.status = to])

DeactivatePolicy(r) == SwitchPolicy(r, "deactivate", "active", "inactive")

RestorePolicy(r) == SwitchPolicy(r, "restore", "inactive", "active")

-----------------------------------------------------------------------------
(* The metadata of a document: update_document_metadata *)

\* The category and the expiration date are changed, each if the request names
\* it.  A category that is named has to be active; one that is not stays.
ChangeFields(r) ==
    LET d == documents[tx[r].row]
    IN  /\ Doing(r, "edit", Documents)
        /\ \E c \in {d.category, None} \cup {c \in Categories : ActiveCategory(c)},
              e \in {d.expires, 0} \cup Dates, dated \in BOOLEAN :
               /\ ~ dated => e = d.expires
               /\ Becomes(r, [tx[r] EXCEPT !.pc = "fields", !.dated = dated,
                                 !.document = [d EXCEPT !.category = c, !.expires = e]])

\* _retention_review_at, for a policy that needs no date or a document that has one
HasBase(p, expires) == policies[p].basis = "created_at" \/ expires # 0

ReviewAt(p, expires) ==
    policies[p].days + (IF policies[p].basis = "created_at" THEN Created ELSE expires)

SetPolicy(r, p, review) ==
    Becomes(r, [tx[r] EXCEPT !.pc = "checked",
                             !.document = [@ EXCEPT !.policy = p, !.review = review]])

\* The request names a policy, or clears it.
AssignPolicy(r) ==
    LET d == tx[r].document
    IN  /\ tx[r].pc = "fields"
        /\ \/ SetPolicy(r, None, 0)
           \/ \E p \in Policies :
                  /\ policies[p].status = "active" /\ HasBase(p, d.expires)
                  /\ SetPolicy(r, p, ReviewAt(p, d.expires))

\* Mutant of KeepPolicy: the review date is kept with the policy.
KeepReview(r) == tx[r].pc = "fields" /\ SetPolicy(r, tx[r].document.policy, tx[r].document.review)

\* The request names no policy: the one the document has is read, whatever its
\* status, and the review date computed anew if the request names expires_at.
KeepPolicy(r) ==
    LET d == tx[r].document
    IN  /\ tx[r].pc = "fields"
        /\ IF d.policy = None \/ ~ tx[r].dated THEN SetPolicy(r, d.policy, d.review)
           ELSE HasBase(d.policy, d.expires)
                /\ SetPolicy(r, d.policy, ReviewAt(d.policy, d.expires))

\* The rows a new foreign key of the document names.
NewReferences(r) ==
    LET d == documents[tx[r].row] new == tx[r].document
    IN  ({new.category} \ {d.category}) \cup ({new.policy} \ {d.policy})

UpdateDocument(r) ==
    /\ Checked(r, "edit")
    /\ \A x \in NewReferences(r) : ~ Locked(x)
    /\ Commit(r)
    /\ documents' = [documents EXCEPT ![tx[r].row] = tx[r].document]
    /\ tx' = [tx EXCEPT ![r] = Idle]
    /\ UNCHANGED <<categories, policies, raced>>

-----------------------------------------------------------------------------
Next ==
    \E r \in Requests :
        \/ \E op \in {"move", "edit", "deactivate", "restore"}, x \in Rows : Lock(r, op, x)
        \/ \E op \in {"create", "move"}, p \in Categories \cup {None} : LookUp(r, op, p)
        \/ Walk(r) \/ CreateCategory(r) \/ MoveCategory(r)
        \/ CheckChildren(r) \/ DeactivateCategory(r)
        \/ CheckParent(r) \/ RestoreCategory(r)
        \/ CreatePolicy(r) \/ UpdatePolicy(r) \/ DeactivatePolicy(r) \/ RestorePolicy(r)
        \/ ChangeFields(r) \/ AssignPolicy(r) \/ KeepPolicy(r) \/ UpdateDocument(r)
        \/ Abort(r)

Spec == Init /\ [][Next]_vars

-----------------------------------------------------------------------------
(* Properties *)

\* The review date of a document is a number of days after its creation or
\* after the expiration date it has now, whatever became of the policy between
\* the two requests or while this one was running (update_document_metadata).
ReviewFollowsDates ==
    \A d \in Documents :
        LET document == documents[d]
        IN  document.review # 0 =>
                \E days \in Days :
                    \/ document.review = Created + days
                    \/ document.expires # 0 /\ document.review = document.expires + days

NotEachOthersParent ==
    \A c \in Categories : categories[c].parent # None =>
        categories[categories[c].parent].parent # c

\* No category is above itself.  This alone does not hold: requests that overtake
\* each other close a cycle of three (DocumentCatalogCycle.cfg).
Acyclic ==
    LET Closed(C) == \A c \in C : categories[c].parent \in C
    IN  \A C \in SUBSET Categories : Closed(C) => C = {}

\* Two requests never make two categories each other's parent: each holds its
\* category, and the foreign key needs the other one.  As long as no request on
\* categories is overtaken by another one, their hierarchy has no cycle of any
\* length and no active category is under an inactive one
\* (_validate_category_parent, deactivate_ and restore_document_category).
HierarchyKept ==
    /\ NotEachOthersParent
    /\ ~ raced =>
           /\ Acyclic
           /\ \A c \in Categories :
                  ActiveCategory(c) /\ categories[c].parent # None
                      => ActiveCategory(categories[c].parent)

\* The review date of a document changes with its policy or its expiration date
\* only: does not hold, for the policy may have changed since the date was
\* computed, and the form sends the date it shows (DocumentCatalogDeadlines.cfg).
DeadlinesKept ==
    [][\A d \in Documents :
           documents'[d].review # documents[d].review
               => \/ documents'[d].policy # documents[d].policy
                  \/ documents'[d].expires # documents[d].expires]_vars

=============================================================================
