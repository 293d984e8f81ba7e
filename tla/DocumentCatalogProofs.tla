------------------------ MODULE DocumentCatalogProofs ------------------------
(***************************************************************************)
(* Proofs about DocumentCatalog for any categories, policies, documents,   *)
(* requests and dates.                                                     *)
(*                                                                         *)
(* The argument: the row lock of a document belongs to one request, so the *)
(* fields this request has read stay those of the row until it writes it;  *)
(* the review date it writes is computed from the expiration date it       *)
(* writes, or both are those of the row.  Two requests never make two      *)
(* categories each other's parent, because each holds the row the other    *)
(* one has to refer to; longer cycles are out as long as nobody commits    *)
(* what another commit has overtaken, for then what a request has read one *)
(* statement after the other is still so when it writes.                   *)
(***************************************************************************)
EXTENDS DocumentCatalog, TLAPS

\* The review date is explained by the dates of the document.
Explained(d) ==
    /\ d.policy = None <=> d.review = 0
    /\ d.review # 0 =>
           \E days \in Days :
               \/ d.review = Created + days
               \/ d.expires # 0 /\ d.review = d.expires + days

TypeInv ==
    /\ categories \in [Categories -> Category]
    /\ policies \in [Policies -> Policy]
    /\ documents \in [Documents -> Document]
    /\ tx \in [Requests -> Tx]
    /\ raced \in BOOLEAN /\ changes \in 0..MaxChanges

\* What a request has in hand that changes a row.
Held(t) ==
    /\ t.pc = "idle" => t.row = None
    /\ t.pc = "walking" => t.op \in {"create", "move"} /\ t.at \in Categories
    /\ t.pc \in {"walking", "checked"} /\ t.op \in {"move", "deactivate", "restore"}
           => t.row \in Categories
    /\ t.pc = "fields" =>
           /\ t.op = "edit" /\ t.row \in Documents
           /\ t.document.policy = documents[t.row].policy
           /\ t.document.review = documents[t.row].review
           /\ ~ t.dated => t.document.expires = documents[t.row].expires
    /\ t.pc = "checked" /\ t.op = "edit" => t.row \in Documents /\ Explained(t.document)

\* A row is locked by one request.
LockedOnce ==
    \A r, s \in Requests :
        /\ tx[r].pc # "idle" /\ tx[s].pc # "idle"
        /\ tx[r].row = tx[s].row /\ tx[r].row # None
        => r = s

IInv ==
    /\ TypeInv
    /\ \A d \in Documents : Explained(documents[d])
    /\ \A r \in Requests : Held(tx[r])
    /\ LockedOnce

LEMMA IdleType == Idle \in Tx /\ Idle.pc = "idle" /\ Idle.row = None
<1>1. NewDocument \in Document
  BY DEF NewDocument, Document
<1> QED BY <1>1 DEF Idle, Tx

LEMMA InitInv == Init => IInv
<1> SUFFICES ASSUME Init PROVE IInv
  OBVIOUS
<1>1. TypeInv
  <2>1. PICK n \in Days : TRUE
    BY CatalogAssumption
  <2>2. [status |-> "none", basis |-> "created_at", days |-> n] \in Policy
    BY DEF Policy, Statuses
  <2> DEFINE none == CHOOSE policy \in Policy : policy.status = "none"
  <2>3. none \in Policy
    BY <2>2
  <2>4. policies = [p \in Policies |-> none]
    BY DEF Init
  <2> HIDE DEF none
  <2>5. policies \in [Policies -> Policy]
    BY <2>3, <2>4
  <2> DEFINE new == [status |-> "none", parent |-> None]
  <2>6. new \in Category
    BY DEF Category, Statuses
  <2>7. categories = [c \in Categories |-> new]
    BY DEF Init
  <2> HIDE DEF new
  <2>8. categories \in [Categories -> Category]
    BY <2>6, <2>7
  <2>9. NewDocument \in Document
    BY DEF NewDocument, Document
  <2>10. documents \in [Documents -> Document] /\ tx \in [Requests -> Tx]
    BY <2>9, IdleType DEF Init
  <2>11. raced \in BOOLEAN
    BY Zenon DEF Init
  <2>12. changes = 0
    BY DEF Init
  <2>13. changes \in 0..MaxChanges
    BY <2>12, CatalogAssumption
  <2> QED BY <2>5, <2>8, <2>10, <2>11, <2>13 DEF TypeInv
<1>2. \A d \in Documents : Explained(documents[d])
  BY DEF Init, Explained, NewDocument
<1>3. \A r \in Requests : tx[r].pc = "idle" /\ tx[r].row = None
  BY IdleType DEF Init
<1> QED BY <1>1, <1>2, <1>3 DEF IInv, Held, LockedOnce

-----------------------------------------------------------------------------
(* Steps that commit nothing *)

\* A request goes on, with the row it has, no row, or one nobody has locked.
LEMMA BecomesInv ==
    ASSUME IInv, NEW r \in Requests, NEW t \in Tx, Becomes(r, t), Held(t),
           t.row = None \/ (tx[r].pc # "idle" /\ t.row = tx[r].row) \/ ~ Locked(t.row)
    PROVE  IInv'
<1>1. /\ tx' = [tx EXCEPT ![r] = t] /\ tx \in [Requests -> Tx]
      /\ UNCHANGED <<categories, policies, documents, raced, changes>>
  BY DEF Becomes, IInv, TypeInv
<1>2. TypeInv'
  BY <1>1 DEF IInv, TypeInv
<1>3. tx'[r] = t /\ \A s \in Requests \ {r} : tx'[s] = tx[s]
  BY <1>1
<1>4. ASSUME NEW s \in Requests PROVE Held(tx[s])'
  <2>1. CASE s = r
    BY <1>1, <1>3, <2>1 DEF Held
  <2>2. CASE s # r
    BY <1>1, <1>3, <2>2 DEF IInv, Held
  <2> QED BY <2>1, <2>2
<1>5. LockedOnce'
  BY <1>3 DEF IInv, LockedOnce, Locked
<1>6. \A d \in Documents : Explained(documents'[d])
  BY <1>1 DEF IInv
<1> QED BY <1>2, <1>4, <1>5, <1>6 DEF IInv

\* What is known of any request.
LEMMA RequestType ==
    ASSUME IInv, NEW r \in Requests
    PROVE  tx[r] \in Tx /\ Held(tx[r])
BY DEF IInv, TypeInv

LEMMA LockInv ==
    ASSUME IInv, NEW r \in Requests, NEW op \in {"move", "edit", "deactivate", "restore"},
           NEW x \in Rows, Lock(r, op, x)
    PROVE  IInv'
<1> DEFINE t == [tx[r] EXCEPT !.pc = "locked", !.op = op, !.row = x]
<1>1. t \in Tx /\ t.pc = "locked" /\ t.row = x
  BY RequestType DEF Tx
<1>2. Becomes(r, t) /\ ~ Locked(x)
  BY DEF Lock
<1> HIDE DEF t
<1>3. Held(t)
  BY <1>1 DEF Held
<1> QED BY <1>1, <1>2, <1>3, BecomesInv

LEMMA CheckInv ==
    ASSUME IInv, NEW r \in Requests, tx[r].pc # "idle", Check(r),
           tx[r].op \in {"create", "move", "deactivate", "restore"},
           tx[r].op # "create" => tx[r].row \in Categories
    PROVE  IInv'
<1> DEFINE t == [tx[r] EXCEPT !.pc = "checked"]
<1>1. t \in Tx /\ t.pc = "checked" /\ t.row = tx[r].row /\ t.op = tx[r].op
  BY RequestType DEF Tx
<1>2. Becomes(r, t)
  BY DEF Check
<1> HIDE DEF t
<1>3. Held(t)
  BY <1>1 DEF Held
<1> QED BY <1>1, <1>2, <1>3, BecomesInv

LEMMA LookUpInv ==
    ASSUME IInv, NEW r \in Requests, NEW op \in {"create", "move"},
           NEW p \in Categories \cup {None}, LookUp(r, op, p)
    PROVE  IInv'
<1>1. /\ op = "create" => tx[r].row = None
      /\ op = "move" => tx[r].pc # "idle" /\ tx[r].row \in Categories
  BY RequestType DEF LookUp, Doing, Held
<1>2. CASE p = None
  <2> DEFINE t == [tx[r] EXCEPT !.pc = "checked", !.op = op]
  <2>1. t \in Tx /\ t.pc = "checked" /\ t.row = tx[r].row /\ t.op = op
    BY RequestType DEF Tx
  <2>2. Becomes(r, t)
    BY <1>2 DEF LookUp
  <2> HIDE DEF t
  <2>3. Held(t)
    BY <1>1, <2>1 DEF Held
  <2> QED BY <1>1, <2>1, <2>2, <2>3, BecomesInv
<1>3. CASE p # None
  <2> DEFINE up == categories[p].parent
             t == [tx[r] EXCEPT !.pc = "walking", !.op = op, !.parent = p, !.at = p, !.up = up]
  <2>1. up \in Categories \cup {None}
    BY <1>3 DEF IInv, TypeInv, Category
  <2>2. Becomes(r, t)
    BY <1>3 DEF LookUp
  <2> HIDE DEF up
  <2>3. t \in Tx /\ t.pc = "walking" /\ t.row = tx[r].row /\ t.op = op /\ t.at = p
    BY <2>1, RequestType DEF Tx
  <2> HIDE DEF t
  <2>4. Held(t)
    BY <1>1, <1>3, <2>3 DEF Held
  <2> QED BY <1>1, <2>2, <2>3, <2>4, BecomesInv
<1> QED BY <1>2, <1>3

LEMMA WalkInv ==
    ASSUME IInv, NEW r \in Requests, Walk(r)
    PROVE  IInv'
<1>1. /\ tx[r].pc = "walking" /\ tx[r].op \in {"create", "move"} /\ tx[r] \in Tx
      /\ tx[r].op # "create" => tx[r].row \in Categories
  BY RequestType DEF Walk, Held
<1>2. CASE Check(r)
  BY <1>1, <1>2, CheckInv
<1> DEFINE up == categories[tx[r].up].parent
           seen == tx[r].seen \cup {tx[r].at}
           t == [tx[r] EXCEPT !.at = tx[r].up, !.up = up, !.seen = seen]
<1>3. CASE tx[r].up # None /\ tx[r].at # None /\ Becomes(r, t)
  <2>1. tx[r].up \in Categories /\ tx[r].at \in Categories /\ tx[r].seen \in SUBSET Categories
    BY <1>1, <1>3 DEF Tx
  <2>2. up \in Categories \cup {None} /\ seen \in SUBSET Categories
    BY <2>1 DEF IInv, TypeInv, Category
  <2> HIDE DEF up, seen
  <2>3. /\ t \in Tx /\ t.pc = "walking" /\ t.row = tx[r].row /\ t.op = tx[r].op
        /\ t.at = tx[r].up
    BY <1>1, <2>1, <2>2 DEF Tx
  <2> HIDE DEF t
  <2>4. Held(t)
    BY <1>1, <2>1, <2>3 DEF Held
  <2> QED BY <1>1, <1>3, <2>3, <2>4, BecomesInv
<1>4. tx[r].at # None
  BY <1>1, RequestType, CatalogAssumption DEF Held
<1> QED BY <1>2, <1>3, <1>4 DEF Walk

LEMMA ChangeFieldsInv ==
    ASSUME IInv, NEW r \in Requests, ChangeFields(r)
    PROVE  IInv'
<1> DEFINE d == documents[tx[r].row]
<1>1. tx[r].pc = "locked" /\ tx[r].op = "edit" /\ tx[r].row \in Documents /\ d \in Document
  BY DEF ChangeFields, Doing, IInv, TypeInv
<1>2. PICK c \in {d.category, None} \cup {b \in Categories : ActiveCategory(b)},
           e \in {d.expires, 0} \cup Dates, dated \in BOOLEAN :
         /\ ~ dated => e = d.expires
         /\ Becomes(r, [tx[r] EXCEPT !.pc = "fields", !.dated = dated,
                                     !.document = [d EXCEPT !.category = c, !.expires = e]])
  BY DEF ChangeFields
<1> DEFINE new == [d EXCEPT !.category = c, !.expires = e]
<1>3. new \in Document /\ new.policy = d.policy /\ new.review = d.review /\ new.expires = e
  BY <1>1, <1>2 DEF Document
<1> DEFINE t == [tx[r] EXCEPT !.pc = "fields", !.dated = dated, !.document = new]
<1>4. Becomes(r, t)
  BY <1>2
<1> HIDE DEF new
<1>5. /\ t \in Tx /\ t.pc = "fields" /\ t.op = "edit" /\ t.row = tx[r].row
      /\ t.document = new /\ t.dated = dated
  BY <1>1, <1>2, <1>3, RequestType DEF Tx
<1> HIDE DEF t
<1>6. Held(t)
  BY <1>1, <1>2, <1>3, <1>5 DEF Held
<1> QED BY <1>1, <1>4, <1>5, <1>6, BecomesInv

LEMMA AbortInv ==
    ASSUME IInv, NEW r \in Requests, Abort(r)
    PROVE  IInv'
<1>1. Held(Idle)
  BY IdleType DEF Held
<1> QED BY <1>1, IdleType, BecomesInv DEF Abort

-----------------------------------------------------------------------------
(* The policy of a document *)

LEMMA SetPolicyInv ==
    ASSUME IInv, NEW r \in Requests, tx[r].pc = "fields",
           NEW p \in Policies \cup {None}, NEW review \in Nat, SetPolicy(r, p, review),
           Explained([tx[r].document EXCEPT !.policy = p, !.review = review])
    PROVE  IInv'
<1> DEFINE new == [tx[r].document EXCEPT !.policy = p, !.review = review]
<1>1. /\ tx[r] \in Tx /\ tx[r].document \in Document
      /\ tx[r].op = "edit" /\ tx[r].row \in Documents
  BY RequestType DEF Tx, Held
<1>2. new \in Document
  BY <1>1 DEF Document
<1> DEFINE t == [tx[r] EXCEPT !.pc = "checked", !.document = new]
<1>3. Becomes(r, t)
  BY DEF SetPolicy
<1>4. Explained(new)
  OBVIOUS
<1> HIDE DEF new
<1>5. /\ t \in Tx /\ t.pc = "checked" /\ t.op = "edit" /\ t.row = tx[r].row /\ t.document = new
  BY <1>1, <1>2 DEF Tx
<1> HIDE DEF t
<1>6. Held(t)
  BY <1>1, <1>4, <1>5 DEF Held
<1> QED BY <1>3, <1>5, <1>6, BecomesInv

\* A date that is computed is explained by the date it is computed from.
LEMMA ReviewExplained ==
    ASSUME TypeInv, NEW d \in Document, NEW p \in Policies, HasBase(p, d.expires)
    PROVE  /\ ReviewAt(p, d.expires) \in Nat
           /\ Explained([d EXCEPT !.policy = p, !.review = ReviewAt(p, d.expires)])
<1>1. policies[p].days \in Days /\ policies[p].basis \in {"created_at", "expires_at"}
  BY DEF TypeInv, Policy
<1>2. /\ policies[p].days \in Nat \ {0} /\ Created \in Nat /\ d.expires \in Nat
      /\ p # None
  BY <1>1, CatalogAssumption DEF Document
<1>3. ReviewAt(p, d.expires) \in Nat /\ ReviewAt(p, d.expires) # 0
  BY <1>2 DEF ReviewAt
<1>4. \/ ReviewAt(p, d.expires) = Created + policies[p].days
      \/ d.expires # 0 /\ ReviewAt(p, d.expires) = d.expires + policies[p].days
  BY <1>1, <1>2 DEF ReviewAt, HasBase
<1> DEFINE review == ReviewAt(p, d.expires)
           new == [d EXCEPT !.policy = p, !.review = review]
<1> HIDE DEF review
<1>5. new.policy = p /\ new.review = review /\ new.expires = d.expires
  BY DEF Document
<1>6. Explained(new)
  BY <1>1, <1>2, <1>3, <1>4, <1>5 DEF Explained, review
<1> QED BY <1>3, <1>6 DEF review

LEMMA AssignPolicyInv ==
    ASSUME IInv, NEW r \in Requests, AssignPolicy(r)
    PROVE  IInv'
<1> DEFINE d == tx[r].document
<1>1. tx[r].pc = "fields" /\ d \in Document
  BY DEF AssignPolicy, IInv, TypeInv, Tx
<1>2. CASE SetPolicy(r, None, 0)
  <2>1. Explained([d EXCEPT !.policy = None, !.review = 0])
    BY <1>1 DEF Explained, Document
  <2> QED BY <1>1, <1>2, <2>1, SetPolicyInv
<1>3. ASSUME NEW p \in Policies, HasBase(p, d.expires), SetPolicy(r, p, ReviewAt(p, d.expires))
      PROVE  IInv'
  BY <1>1, <1>3, ReviewExplained, SetPolicyInv DEF IInv
<1> QED BY <1>2, <1>3 DEF AssignPolicy

LEMMA KeepPolicyInv ==
    ASSUME IInv, NEW r \in Requests, KeepPolicy(r)
    PROVE  IInv'
<1> DEFINE d == tx[r].document
           old == documents[tx[r].row]
<1>1. /\ tx[r].pc = "fields" /\ d \in Document /\ tx[r].row \in Documents
      /\ d.policy = old.policy /\ d.review = old.review
      /\ ~ tx[r].dated => d.expires = old.expires
      /\ d.policy \in Policies \cup {None} /\ d.review \in Nat
      /\ Explained(old)
  BY RequestType DEF KeepPolicy, IInv, TypeInv, Tx, Held, Document
<1>2. CASE d.policy = None \/ ~ tx[r].dated
  <2>1. SetPolicy(r, d.policy, d.review)
    BY <1>2 DEF KeepPolicy
  <2>2. Explained(d)
    BY <1>1, <1>2 DEF Explained
  <2>3. [d EXCEPT !.policy = d.policy, !.review = d.review] = d
    BY <1>1 DEF Document
  <2> QED BY <1>1, <2>1, <2>2, <2>3, SetPolicyInv
<1>3. CASE ~ (d.policy = None \/ ~ tx[r].dated)
  <2>1. HasBase(d.policy, d.expires) /\ SetPolicy(r, d.policy, ReviewAt(d.policy, d.expires))
    BY <1>3 DEF KeepPolicy
  <2>2. d.policy \in Policies
    BY <1>1, <1>3
  <2> QED BY <1>1, <2>1, <2>2, ReviewExplained, SetPolicyInv DEF IInv
<1> QED BY <1>2, <1>3

-----------------------------------------------------------------------------
(* Steps that end a request with a commit *)

\* The request is the same, but for being overtaken.
SameWork(t, u) ==
    /\ t.pc = u.pc /\ t.op = u.op /\ t.row = u.row
    /\ t.parent = u.parent /\ t.at = u.at /\ t.up = u.up
    /\ t.document = u.document /\ t.dated = u.dated

\* A request ends; a document is changed only in the row it had locked.
LEMMA EndInv ==
    ASSUME IInv, TypeInv', NEW r \in Requests, tx'[r] = Idle,
           \A s \in Requests \ {r} : SameWork(tx'[s], tx[s]),
           \A d \in Documents : Explained(documents'[d]),
           \A d \in Documents :
               documents'[d] # documents[d] => tx[r].pc # "idle" /\ tx[r].row = d
    PROVE  IInv'
<1>1. tx'[r].pc = "idle" /\ tx'[r].row = None
  BY IdleType
<1>2. ASSUME NEW s \in Requests PROVE Held(tx[s])'
  <2>1. CASE s = r
    BY <1>1, <2>1 DEF Held
  <2>2. CASE s # r
    <3>1. Held(tx[s]) /\ SameWork(tx'[s], tx[s])
      BY <2>2 DEF IInv
    <3>2. tx[s].pc = "fields" =>
              tx[s].row \in Documents /\ documents'[tx[s].row] = documents[tx[s].row]
      BY <2>2, <3>1, CatalogAssumption DEF IInv, Held, LockedOnce
    <3> QED BY <3>1, <3>2 DEF Held, SameWork, Explained
  <2> QED BY <2>1, <2>2
<1>3. LockedOnce'
  BY <1>1 DEF IInv, LockedOnce, SameWork
<1> QED BY <1>2, <1>3 DEF IInv

\* After the update of its own entry alone the other requests are the same.
LEMMA OthersAlone ==
    ASSUME IInv, NEW r \in Requests, tx' = [tx EXCEPT ![r] = Idle]
    PROVE  /\ tx' \in [Requests -> Tx] /\ tx'[r] = Idle
           /\ \A s \in Requests \ {r} : SameWork(tx'[s], tx[s])
<1>1. tx \in [Requests -> Tx]
  BY DEF IInv, TypeInv
<1>2. tx' \in [Requests -> Tx] /\ tx'[r] = Idle /\ \A s \in Requests \ {r} : tx'[s] = tx[s]
  BY <1>1, IdleType
<1> QED BY <1>2 DEF SameWork

LEMMA CommitType ==
    ASSUME changes \in 0..MaxChanges, NEW r \in Requests, Commit(r)
    PROVE  changes' \in 0..MaxChanges
BY CatalogAssumption DEF Commit

LEMMA UpdateDocumentInv ==
    ASSUME IInv, NEW r \in Requests, UpdateDocument(r)
    PROVE  IInv'
<1>1. /\ tx[r].row \in Documents /\ Explained(tx[r].document) /\ tx[r].document \in Document
      /\ tx[r].pc = "checked"
  BY RequestType DEF UpdateDocument, Checked, Held, Tx
<1>2. /\ documents' = [documents EXCEPT ![tx[r].row] = tx[r].document]
      /\ tx' = [tx EXCEPT ![r] = Idle]
      /\ UNCHANGED <<categories, policies, raced>>
      /\ documents \in [Documents -> Document]
  BY DEF UpdateDocument, IInv, TypeInv
<1>3. documents' \in [Documents -> Document]
  BY <1>1, <1>2
<1>4. changes' \in 0..MaxChanges
  BY CommitType DEF UpdateDocument, IInv, TypeInv
<1>5. TypeInv'
  BY <1>2, <1>3, <1>4, OthersAlone DEF IInv, TypeInv
<1>6. \A d \in Documents : Explained(documents'[d])
  BY <1>1, <1>2 DEF IInv
<1>7. \A d \in Documents : documents'[d] # documents[d] => tx[r].row = d
  BY <1>1, <1>2
<1> QED BY <1>1, <1>2, <1>5, <1>6, <1>7, OthersAlone, EndInv

LEMMA OthersOfWrite ==
    ASSUME IInv, NEW r \in Requests, NEW c, NEW category, WriteCategory(r, c, category)
    PROVE  /\ tx' \in [Requests -> Tx] /\ tx'[r] = Idle
           /\ \A s \in Requests \ {r} : SameWork(tx'[s], tx[s])
<1>1. tx' = [s \in Requests |->
                IF s = r THEN Idle ELSE [tx[s] EXCEPT !.overtaken = @ \/ OnCategories(s)]]
  BY DEF WriteCategory
<1>2. ASSUME NEW s \in Requests \ {r}
      PROVE  tx'[s] \in Tx /\ SameWork(tx'[s], tx[s])
  <2>1. tx[s] \in Tx
    BY DEF IInv, TypeInv
  <2> DEFINE b == tx[s].overtaken \/ OnCategories(s)
             t == [tx[s] EXCEPT !.overtaken = b]
  <2>2. tx'[s] = t
    BY <1>1
  <2>3. b \in BOOLEAN
    OBVIOUS
  <2> HIDE DEF b
  <2>4. t \in Tx
    BY <2>1, <2>3 DEF Tx
  <2>5. SameWork(t, tx[s])
    BY <2>1 DEF Tx, SameWork
  <2> QED BY <2>2, <2>4, <2>5
<1>3. tx'[r] = Idle
  BY <1>1
<1>4. tx' \in [Requests -> Tx]
  <2>1. \A s \in Requests : tx'[s] \in Tx
    BY <1>2, <1>3, IdleType
  <2> QED BY <1>1, <2>1
<1> QED BY <1>2, <1>3, <1>4

LEMMA WriteCategoryInv ==
    ASSUME IInv, NEW r \in Requests, NEW c \in Categories, NEW category \in Category,
           WriteCategory(r, c, category)
    PROVE  IInv'
<1>1. categories' \in [Categories -> Category]
  BY DEF WriteCategory, IInv, TypeInv
<1>2. raced' \in BOOLEAN
  BY Zenon DEF WriteCategory
<1>3. changes' \in 0..MaxChanges
  BY CommitType DEF WriteCategory, IInv, TypeInv
<1>4. policies' = policies /\ documents' = documents
  BY DEF WriteCategory
<1>5. TypeInv'
  BY <1>1, <1>2, <1>3, <1>4, OthersOfWrite DEF IInv, TypeInv
<1> QED BY <1>4, <1>5, OthersOfWrite, EndInv DEF IInv

LEMMA WritePolicyInv ==
    ASSUME IInv, NEW r \in Requests, NEW p \in Policies, NEW policy \in Policy,
           WritePolicy(r, p, policy)
    PROVE  IInv'
<1>1. /\ tx' = [tx EXCEPT ![r] = Idle]
      /\ categories' = categories /\ documents' = documents /\ raced' = raced
  BY DEF WritePolicy
<1>2. policies' \in [Policies -> Policy]
  BY DEF WritePolicy, IInv, TypeInv
<1>3. changes' \in 0..MaxChanges
  BY CommitType DEF WritePolicy, IInv, TypeInv
<1>4. TypeInv'
  BY <1>1, <1>2, <1>3, OthersAlone DEF IInv, TypeInv
<1> QED BY <1>1, <1>4, OthersAlone, EndInv DEF IInv

LEMMA CategoriesInv ==
    ASSUME IInv, NEW r \in Requests,
           CreateCategory(r) \/ MoveCategory(r) \/ DeactivateCategory(r) \/ RestoreCategory(r)
    PROVE  IInv'
<1>1. tx[r].parent \in Categories \cup {None} /\ Held(tx[r])
  BY RequestType DEF Tx
<1>2. CASE CreateCategory(r)
  <2>1. [status |-> "active", parent |-> tx[r].parent] \in Category
    BY <1>1 DEF Category, Statuses
  <2> QED BY <1>2, <2>1, WriteCategoryInv DEF CreateCategory
<1>3. ASSUME Checked(r, "move") \/ Checked(r, "deactivate") \/ Checked(r, "restore")
      PROVE  tx[r].row \in Categories /\ categories[tx[r].row] \in Category
  <2>1. tx[r].row \in Categories
    BY <1>1, <1>3 DEF Checked, Held
  <2> QED BY <2>1 DEF IInv, TypeInv
<1>4. CASE MoveCategory(r)
  <2>1. tx[r].row \in Categories /\ categories[tx[r].row] \in Category
    BY <1>3, <1>4 DEF MoveCategory
  <2>2. [categories[tx[r].row] EXCEPT !.parent = tx[r].parent] \in Category
    BY <1>1, <2>1 DEF Category
  <2> QED BY <1>4, <2>1, <2>2, WriteCategoryInv DEF MoveCategory
<1>5. ASSUME NEW st \in {"active", "inactive"},
             Checked(r, "deactivate") \/ Checked(r, "restore"),
             WriteCategory(r, tx[r].row, [categories[tx[r].row] EXCEPT !.status = st])
      PROVE  IInv'
  <2>1. [categories[tx[r].row] EXCEPT !.status = st] \in Category
    BY <1>3, <1>5 DEF Category, Statuses
  <2> QED BY <1>3, <1>5, <2>1, WriteCategoryInv
<1>6. CASE DeactivateCategory(r)
  BY <1>5, <1>6 DEF DeactivateCategory
<1>7. CASE RestoreCategory(r)
  BY <1>5, <1>7 DEF RestoreCategory
<1> QED BY <1>2, <1>4, <1>6, <1>7

LEMMA PoliciesInv ==
    ASSUME IInv, NEW r \in Requests,
           CreatePolicy(r) \/ UpdatePolicy(r) \/ DeactivatePolicy(r) \/ RestorePolicy(r)
    PROVE  IInv'
<1>1. CASE CreatePolicy(r)
  BY <1>1, WritePolicyInv DEF CreatePolicy
<1>2. CASE UpdatePolicy(r)
  BY <1>2, WritePolicyInv DEF UpdatePolicy, Doing
<1>3. ASSUME NEW op, NEW from, NEW to \in {"active", "inactive"}, SwitchPolicy(r, op, from, to)
      PROVE  IInv'
  <2>1. tx[r].row \in Policies /\ policies[tx[r].row] \in Policy
    BY <1>3 DEF SwitchPolicy, Doing, IInv, TypeInv
  <2>2. [policies[tx[r].row] EXCEPT !.status = to] \in Policy
    BY <2>1 DEF Policy, Statuses
  <2> QED BY <1>3, <2>1, <2>2, WritePolicyInv DEF SwitchPolicy
<1>4. CASE DeactivatePolicy(r)
  BY <1>3, <1>4 DEF DeactivatePolicy
<1>5. CASE RestorePolicy(r)
  BY <1>3, <1>5 DEF RestorePolicy
<1> QED BY <1>1, <1>2, <1>4, <1>5

-----------------------------------------------------------------------------
LEMMA StepInv == IInv /\ [Next]_vars => IInv'
<1> SUFFICES ASSUME IInv, [Next]_vars PROVE IInv'
  OBVIOUS
<1>1. CASE UNCHANGED vars
  BY <1>1 DEF vars, IInv, TypeInv, Held, LockedOnce
<1>2. ASSUME NEW r \in Requests, CheckChildren(r) \/ CheckParent(r)
      PROVE  IInv'
  <2>1. /\ tx[r].pc = "locked" /\ tx[r].op \in {"deactivate", "restore"}
        /\ tx[r].row \in Categories /\ Check(r)
    BY <1>2 DEF CheckChildren, CheckParent, Doing
  <2> QED BY <2>1, CheckInv
<1>3. CASE Next
  BY <1>2, <1>3, LockInv, LookUpInv, WalkInv, CategoriesInv, PoliciesInv, ChangeFieldsInv,
     AssignPolicyInv, KeepPolicyInv, UpdateDocumentInv, AbortInv DEF Next
<1> QED BY <1>1, <1>3

LEMMA Invariance == Spec => []IInv
BY InitInv, StepInv, PTL DEF Spec

\* Every row, request and counter keeps its type, and a document has a review
\* date exactly while it has a policy (core/documents/service.py).
THEOREM TypeCorrect == Spec => []TypeOK
<1>1. IInv => TypeOK
  BY DEF IInv, TypeInv, TypeOK, Explained
<1> QED BY <1>1, Invariance, PTL

\* Whatever requests do at the same time to policies and to the document, its
\* review date lies a number of days after its creation or after the
\* expiration date it has now (update_document_metadata).
THEOREM ReviewsFollowDates == Spec => []ReviewFollowsDates
<1>1. IInv => ReviewFollowsDates
  BY DEF IInv, Explained, ReviewFollowsDates
<1> QED BY <1>1, Invariance, PTL

-----------------------------------------------------------------------------
(* The hierarchy of the categories *)

Present(x) == x \in Categories => categories[x].status # "none"

\* A parent exists, is another category, and is not below its child.
Tree ==
    \A c \in Categories :
        categories[c].parent # None =>
            /\ categories[c].status # "none"
            /\ Present(categories[c].parent)
            /\ categories[c].parent # c
            /\ categories[categories[c].parent].parent # c

\* A request has looked up the parent it names.  While it compares the parent
\* of that one with its own category, it has read that parent before it became
\* its own category or not at all; after that it cannot become it.
LookedUp(t) ==
    /\ t.pc \in {"idle", "locked", "fields"} => t.parent = None
    /\ t.pc # "idle" => Present(t.row)
    /\ t.pc \in {"walking", "checked"} /\ t.parent # None =>
           /\ t.parent \in Categories /\ Present(t.parent)
           /\ t.op = "move" =>
                  /\ t.parent # t.row
                  /\ categories[t.parent].parent = t.row =>
                         t.pc = "walking" /\ t.at = t.parent /\ t.up = t.row

HInv == IInv /\ Tree /\ \A r \in Requests : LookedUp(tx[r])

LEMMA InitHierarchy == Init => HInv
<1> SUFFICES ASSUME Init PROVE HInv
  OBVIOUS
<1>1. \A r \in Requests : LookedUp(tx[r])
  BY DEF Init, Idle, LookedUp
<1>2. \A c \in Categories : categories[c].parent = None
  BY DEF Init
<1> QED BY <1>1, <1>2, InitInv DEF HInv, Tree

LEMMA BecomesHierarchy ==
    ASSUME HInv, IInv', NEW r \in Requests, NEW t, Becomes(r, t), LookedUp(t)
    PROVE  HInv'
<1>1. /\ tx' = [tx EXCEPT ![r] = t] /\ tx \in [Requests -> Tx]
      /\ categories' = categories /\ policies' = policies
  BY DEF Becomes, HInv, IInv, TypeInv
<1>2. Tree'
  BY <1>1 DEF HInv, Tree, Present
<1>3. ASSUME NEW s \in Requests PROVE LookedUp(tx[s])'
  <2>1. LookedUp(tx'[s])
    BY <1>1 DEF HInv
  <2> QED BY <1>1, <2>1 DEF LookedUp, Present
<1> QED BY <1>2, <1>3 DEF HInv

LEMMA LockHierarchy ==
    ASSUME HInv, IInv', NEW r \in Requests, NEW op, NEW x, Lock(r, op, x)
    PROVE  HInv'
<1> DEFINE t == [tx[r] EXCEPT !.pc = "locked", !.op = op, !.row = x]
<1>1. tx[r].pc = "idle" /\ Present(x) /\ Becomes(r, t)
  BY DEF Lock, Exists, Present
<1>2. t.pc = "locked" /\ t.row = x /\ t.parent = tx[r].parent
  BY RequestType DEF HInv, Tx
<1> HIDE DEF t
<1>3. LookedUp(t)
  BY <1>1, <1>2 DEF HInv, LookedUp
<1> QED BY <1>1, <1>3, BecomesHierarchy

LEMMA CheckHierarchy ==
    ASSUME HInv, IInv', NEW r \in Requests, tx[r].pc \in {"locked", "walking"}, Check(r),
           tx[r].pc = "walking" => tx[r].up # tx[r].row
    PROVE  HInv'
<1> DEFINE t == [tx[r] EXCEPT !.pc = "checked"]
<1>1. Becomes(r, t)
  BY DEF Check
<1>2. /\ t.pc = "checked" /\ t.op = tx[r].op /\ t.row = tx[r].row /\ t.parent = tx[r].parent
      /\ LookedUp(tx[r])
  BY RequestType DEF HInv, Tx
<1> HIDE DEF t
<1>3. LookedUp(t)
  BY <1>2 DEF LookedUp
<1> QED BY <1>1, <1>3, BecomesHierarchy

LEMMA LookUpHierarchy ==
    ASSUME HInv, IInv', NEW r \in Requests, NEW op \in {"create", "move"},
           NEW p \in Categories \cup {None}, LookUp(r, op, p)
    PROVE  HInv'
<1>1. /\ tx[r] \in Tx /\ LookedUp(tx[r]) /\ Held(tx[r])
      /\ tx[r].parent = None /\ Present(tx[r].row)
      /\ op = "move" => p # tx[r].row
  BY RequestType, CatalogAssumption DEF HInv, LookUp, Doing, LookedUp, Held, Present
<1>2. CASE p = None
  <2> DEFINE t == [tx[r] EXCEPT !.pc = "checked", !.op = op]
  <2>1. Becomes(r, t)
    BY <1>2 DEF LookUp
  <2>2. t.pc = "checked" /\ t.row = tx[r].row /\ t.parent = None
    BY <1>1 DEF Tx
  <2> HIDE DEF t
  <2>3. LookedUp(t)
    BY <1>1, <2>2 DEF LookedUp
  <2> QED BY <2>1, <2>3, BecomesHierarchy
<1>3. CASE p # None
  <2> DEFINE t == [tx[r] EXCEPT !.pc = "walking", !.op = op, !.parent = p, !.at = p,
                                !.up = categories[p].parent]
  <2>1. Becomes(r, t) /\ categories[p].status = "active"
    BY <1>3 DEF LookUp, ActiveCategory
  <2>2. /\ t.pc = "walking" /\ t.row = tx[r].row /\ t.op = op /\ t.parent = p /\ t.at = p
        /\ t.up = categories[p].parent
    BY <1>1 DEF Tx
  <2> HIDE DEF t
  <2>3. p \in Categories /\ Present(p)
    BY <1>3, <2>1 DEF Present
  <2>4. LookedUp(t)
    BY <1>1, <1>3, <2>2, <2>3 DEF LookedUp
  <2> QED BY <2>1, <2>4, BecomesHierarchy
<1> QED BY <1>2, <1>3

LEMMA WalkHierarchy ==
    ASSUME HInv, IInv', NEW r \in Requests, Walk(r)
    PROVE  HInv'
<1>1. tx[r].pc = "walking" /\ tx[r] \in Tx /\ LookedUp(tx[r]) /\ Held(tx[r])
  BY RequestType DEF HInv, Walk
<1>2. CASE tx[r].up = None /\ Check(r)
  <2>1. CASE tx[r].row = None
    <3> DEFINE t == [tx[r] EXCEPT !.pc = "checked"]
    <3>1. Becomes(r, t)
      BY <1>2 DEF Check
    <3>2. /\ t.pc = "checked" /\ t.op = tx[r].op /\ t.row = None /\ t.parent = tx[r].parent
          /\ tx[r].op # "move"
      BY <1>1, <2>1, CatalogAssumption DEF Tx, Held
    <3> HIDE DEF t
    <3>3. LookedUp(t)
      BY <1>1, <2>1, <3>2 DEF LookedUp
    <3> QED BY <3>1, <3>3, BecomesHierarchy
  <2>2. CASE tx[r].row # None
    BY <1>1, <1>2, <2>2, CheckHierarchy
  <2> QED BY <2>1, <2>2
<1> DEFINE up == categories[tx[r].up].parent
           seen == tx[r].seen \cup {tx[r].at}
           t == [tx[r] EXCEPT !.at = tx[r].up, !.up = up, !.seen = seen]
<1>3. CASE tx[r].up \notin {None, tx[r].row} /\ Becomes(r, t)
  <2> HIDE DEF up, seen
  <2>1. /\ t.pc = "walking" /\ t.op = tx[r].op /\ t.row = tx[r].row
        /\ t.parent = tx[r].parent /\ t.at = tx[r].up /\ t.up = up
    BY <1>1 DEF Tx
  <2> HIDE DEF t
  <2>2. t.at = t.parent => t.up = categories[t.parent].parent
    BY <2>1 DEF up
  <2>3. LookedUp(t)
    BY <1>1, <1>3, <2>1, <2>2 DEF LookedUp
  <2> QED BY <1>3, <2>3, BecomesHierarchy
<1> QED BY <1>2, <1>3 DEF Walk

LEMMA ChangeFieldsHierarchy ==
    ASSUME HInv, IInv', NEW r \in Requests, ChangeFields(r)
    PROVE  HInv'
<1> DEFINE d == documents[tx[r].row]
<1>1. PICK new, dated :
         Becomes(r, [tx[r] EXCEPT !.pc = "fields", !.dated = dated, !.document = new])
  BY DEF ChangeFields
<1> DEFINE t == [tx[r] EXCEPT !.pc = "fields", !.dated = dated, !.document = new]
<1>2. /\ t.pc = "fields" /\ t.row = tx[r].row /\ tx[r].pc = "locked"
      /\ t.parent = tx[r].parent
  BY RequestType DEF ChangeFields, Doing, HInv, Tx
<1>3. Becomes(r, t)
  BY <1>1
<1> HIDE DEF t
<1>4. LookedUp(t)
  BY <1>2 DEF HInv, LookedUp
<1> QED BY <1>3, <1>4, BecomesHierarchy

LEMMA SetPolicyHierarchy ==
    ASSUME HInv, IInv', NEW r \in Requests, tx[r].pc = "fields", AssignPolicy(r) \/ KeepPolicy(r)
    PROVE  HInv'
<1>1. PICK p, review : SetPolicy(r, p, review)
  BY DEF AssignPolicy, KeepPolicy
<1> DEFINE new == [tx[r].document EXCEPT !.policy = p, !.review = review]
           t == [tx[r] EXCEPT !.pc = "checked", !.document = new]
<1>2. Becomes(r, t)
  BY <1>1 DEF SetPolicy
<1> HIDE DEF new
<1>3. /\ t.pc = "checked" /\ t.row = tx[r].row /\ t.op = "edit" /\ t.parent = tx[r].parent
      /\ tx[r].row \in Documents /\ LookedUp(tx[r])
  BY RequestType DEF HInv, Held, Tx
<1> HIDE DEF t
<1>4. LookedUp(t)
  BY <1>3 DEF LookedUp
<1> QED BY <1>2, <1>4, BecomesHierarchy

\* A category is written: it keeps its parent, or gets one that was looked up
\* and that nobody holds.
LEMMA WriteHierarchy ==
    ASSUME HInv, IInv', NEW r \in Requests, NEW c \in Categories, NEW category,
           WriteCategory(r, c, category), category.status # "none",
           \/ category.parent = categories[c].parent
           \/ /\ ~ Locked(category.parent)
              /\ category.parent # None =>
                     /\ category.parent \in Categories /\ Present(category.parent)
                     /\ category.parent # c
                     /\ categories[category.parent].parent # c
    PROVE  HInv'
<1> DEFINE q == category.parent
<1>1. /\ categories' = [categories EXCEPT ![c] = category]
      /\ categories \in [Categories -> Category]
      /\ Tree /\ IInv
  BY DEF WriteCategory, HInv, IInv, TypeInv
<1>2. \A x \in Categories : categories[x].status # "none" => categories'[x].status # "none"
  BY <1>1
<1>3. \A d \in Categories :
          /\ categories[d].parent \in Categories \cup {None}
          /\ categories'[d] = IF d = c THEN category ELSE categories[d]
  BY <1>1 DEF Category
<1>4. q # None => /\ q \in Categories /\ categories[q].status # "none"
                  /\ q # c /\ categories[q].parent # c
  BY <1>1, <1>3 DEF Tree, Present
<1>5. Tree'
  <2> SUFFICES ASSUME NEW d \in Categories, categories'[d].parent # None
               PROVE  /\ categories'[d].status # "none"
                      /\ categories'[categories'[d].parent].status # "none"
                      /\ categories'[d].parent # d
                      /\ categories'[categories'[d].parent].parent # d
    BY DEF Tree, Present
  <2>1. CASE d = c
    BY <1>2, <1>3, <1>4, <2>1
  <2>2. CASE d # c
    <3>1. /\ categories'[d] = categories[d]
          /\ categories[categories[d].parent].status # "none"
          /\ categories[d].parent # d /\ categories[d].status # "none"
          /\ categories[d].parent \in Categories
          /\ categories[categories[d].parent].parent # d
      BY <1>1, <1>3, <2>2 DEF Tree, Present
    <3>2. CASE categories[d].parent = c
      <4>1. q # d
        BY <1>4, <3>2, CatalogAssumption
      <4> QED BY <1>2, <1>3, <3>1, <3>2, <4>1
    <3>3. CASE categories[d].parent # c
      BY <1>2, <1>3, <3>1, <3>3
    <3> QED BY <3>2, <3>3
  <2> QED BY <2>1, <2>2
<1>6. ASSUME NEW s \in Requests PROVE LookedUp(tx[s])'
  <2>1. CASE s = r
    <3>1. tx'[s] = Idle
      BY <1>1, <2>1, OthersOfWrite
    <3> QED BY <3>1, CatalogAssumption DEF LookedUp, Idle, Present
  <2>2. CASE s # r
    <3>1. SameWork(tx'[s], tx[s]) /\ LookedUp(tx[s]) /\ Held(tx[s])
      BY <1>1, <2>2, OthersOfWrite, RequestType DEF HInv
    <3>2. ASSUME tx[s].pc \in {"walking", "checked"}, tx[s].op = "move",
                 tx[s].parent # None, categories'[tx[s].parent].parent = tx[s].row
          PROVE  categories[tx[s].parent].parent = tx[s].row
      <4>1. tx[s].row \in Categories /\ tx[s].row # None /\ tx[s].parent \in Categories
        BY <3>1, <3>2, CatalogAssumption DEF LookedUp, Held
      <4>2. CASE tx[s].parent = c
        <5>1. q = tx[s].row
          BY <1>3, <3>2, <4>1, <4>2
        <5>2. Locked(q)
          BY <3>2, <4>1, <5>1 DEF Locked
        <5> QED BY <4>2, <5>1, <5>2
      <4>3. CASE tx[s].parent # c
        BY <1>3, <3>2, <4>1, <4>3
      <4> QED BY <4>2, <4>3
    <3> QED BY <1>2, <3>1, <3>2 DEF LookedUp, SameWork, Present
  <2> QED BY <2>1, <2>2
<1> QED BY <1>5, <1>6 DEF HInv

LEMMA CategoriesHierarchy ==
    ASSUME HInv, IInv', NEW r \in Requests,
           CreateCategory(r) \/ MoveCategory(r) \/ DeactivateCategory(r) \/ RestoreCategory(r)
    PROVE  HInv'
<1>1. /\ LookedUp(tx[r]) /\ Held(tx[r]) /\ tx[r] \in Tx /\ Tree
      /\ categories \in [Categories -> Category]
  BY RequestType DEF HInv, IInv, TypeInv
<1>2. CASE CreateCategory(r)
  <2>1. PICK c \in Categories :
            /\ ~ Exists(c) /\ ~ Locked(tx[r].parent)
            /\ WriteCategory(r, c, [status |-> "active", parent |-> tx[r].parent])
    BY <1>2 DEF CreateCategory
  <2> DEFINE new == [status |-> "active", parent |-> tx[r].parent]
             p == tx[r].parent
  <2>2. p # None => p \in Categories /\ Present(p)
    BY <1>1, <1>2 DEF CreateCategory, Checked, LookedUp
  <2>3. categories[c].status = "none" /\ c # None
    BY <2>1, CatalogAssumption DEF Exists
  <2>4. p # None => p # c /\ categories[p].parent # c
    BY <1>1, <2>2, <2>3 DEF Tree, Present
  <2>5. new.status = "active" /\ new.parent = p
    OBVIOUS
  <2>6. ~ Locked(p) /\ WriteCategory(r, c, new)
    BY <2>1
  <2> HIDE DEF new
  <2> QED BY <2>2, <2>4, <2>5, <2>6, WriteHierarchy
<1> DEFINE c == tx[r].row
<1>3. ASSUME Checked(r, "move") \/ Checked(r, "deactivate") \/ Checked(r, "restore")
      PROVE  /\ c \in Categories /\ categories[c] \in Category
             /\ categories[c].status # "none"
  <2>1. c \in Categories /\ Present(c)
    BY <1>1, <1>3 DEF Checked, Held, LookedUp
  <2> QED BY <1>1, <2>1 DEF Present
<1>4. CASE MoveCategory(r)
  <2> DEFINE new == [categories[c] EXCEPT !.parent = tx[r].parent]
  <2>1. c \in Categories /\ categories[c] \in Category /\ categories[c].status # "none"
    BY <1>3, <1>4 DEF MoveCategory
  <2>2. /\ WriteCategory(r, c, new) /\ ~ Locked(tx[r].parent)
        /\ tx[r].pc = "checked" /\ tx[r].op = "move"
    BY <1>4 DEF MoveCategory, Checked
  <2>3. new.status = categories[c].status /\ new.parent = tx[r].parent
    BY <2>1 DEF Category
  <2> HIDE DEF new
  <2>4. tx[r].parent # None =>
            /\ tx[r].parent \in Categories /\ Present(tx[r].parent)
            /\ tx[r].parent # c /\ categories[tx[r].parent].parent # c
    BY <1>1, <2>2 DEF LookedUp
  <2> QED BY <2>1, <2>2, <2>3, <2>4, WriteHierarchy
<1>5. ASSUME NEW st \in {"active", "inactive"},
             Checked(r, "deactivate") \/ Checked(r, "restore"),
             WriteCategory(r, c, [categories[c] EXCEPT !.status = st])
      PROVE  HInv'
  <2> DEFINE new == [categories[c] EXCEPT !.status = st]
  <2>1. c \in Categories /\ categories[c] \in Category
    BY <1>3, <1>5
  <2>2. new.status = st /\ new.parent = categories[c].parent
    BY <2>1 DEF Category
  <2>3. WriteCategory(r, c, new)
    BY <1>5
  <2> HIDE DEF new
  <2> QED BY <2>1, <2>2, <2>3, WriteHierarchy
<1>6. CASE DeactivateCategory(r)
  BY <1>5, <1>6 DEF DeactivateCategory
<1>7. CASE RestoreCategory(r)
  BY <1>5, <1>7 DEF RestoreCategory
<1> QED BY <1>2, <1>4, <1>6, <1>7

\* The steps that end a request without writing a category.
LEMMA EndHierarchy ==
    ASSUME HInv, IInv', NEW r \in Requests, tx' = [tx EXCEPT ![r] = Idle],
           categories' = categories
    PROVE  HInv'
<1>1. Tree'
  BY DEF HInv, Tree, Present
<1>2. ASSUME NEW s \in Requests PROVE LookedUp(tx[s])'
  <2>1. tx'[s] = Idle \/ tx'[s] = tx[s]
    BY DEF HInv, IInv, TypeInv
  <2>2. LookedUp(Idle)
    BY CatalogAssumption DEF LookedUp, Idle, Present
  <2>3. LookedUp(tx'[s])
    BY <2>1, <2>2 DEF HInv
  <2> QED BY <2>3 DEF LookedUp, Present
<1> QED BY <1>1, <1>2 DEF HInv

LEMMA StepHierarchy == HInv /\ IInv' /\ [Next]_vars => HInv'
<1> SUFFICES ASSUME HInv, IInv', [Next]_vars PROVE HInv'
  OBVIOUS
<1>1. CASE UNCHANGED vars
  BY <1>1 DEF vars, HInv, Tree, LookedUp, Present
<1>2. ASSUME NEW r \in Requests, CheckChildren(r) \/ CheckParent(r)
      PROVE  HInv'
  <2>1. tx[r].pc = "locked" /\ Check(r)
    BY <1>2 DEF CheckChildren, CheckParent, Doing
  <2> QED BY <2>1, CheckHierarchy
<1>3. ASSUME NEW r \in Requests, AssignPolicy(r) \/ KeepPolicy(r)
      PROVE  HInv'
  <2>1. tx[r].pc = "fields"
    BY <1>3 DEF AssignPolicy, KeepPolicy
  <2> QED BY <1>3, <2>1, SetPolicyHierarchy
<1>4. ASSUME NEW r \in Requests,
             \/ CreatePolicy(r) \/ UpdatePolicy(r) \/ DeactivatePolicy(r) \/ RestorePolicy(r)
             \/ UpdateDocument(r) \/ Abort(r)
      PROVE  HInv'
  <2>1. tx' = [tx EXCEPT ![r] = Idle] /\ categories' = categories
    BY <1>4 DEF CreatePolicy, UpdatePolicy, DeactivatePolicy, RestorePolicy, SwitchPolicy,
                WritePolicy, UpdateDocument, Abort, Becomes
  <2> QED BY <2>1, EndHierarchy
<1>5. CASE Next
  BY <1>2, <1>3, <1>4, <1>5, LockHierarchy, LookUpHierarchy, WalkHierarchy,
     CategoriesHierarchy, ChangeFieldsHierarchy DEF Next
<1> QED BY <1>1, <1>5

-----------------------------------------------------------------------------
(* The hierarchy while no request on categories is overtaken *)

ActiveBelow ==
    \A c \in Categories :
        ActiveCategory(c) /\ categories[c].parent # None
            => ActiveCategory(categories[c].parent)

\* A request on categories that no commit has overtaken knows the ancestors of
\* the parent it has come to, its own category not among them, the children of
\* the category it deactivates, or the parent of the one it restores.
Fresh(t) ==
    LET way == t.seen \cup {t.at}
    IN  /\ t.pc \in {"idle", "locked"} => t.seen = {}
        /\ (t.op = "create" \/ t.row \in Categories) /\ ~ t.overtaken =>
               /\ t.pc \in {"walking", "checked"} /\ t.parent # None =>
                      /\ ActiveCategory(t.parent)
                      /\ t.parent \in way /\ way \subseteq Categories /\ t.row \notin way
                      /\ \A c \in t.seen : categories[c].parent \in way
                      /\ categories[t.at].parent = t.up
                      /\ t.pc = "checked" => t.up = None
               /\ t.pc = "checked" /\ t.op = "deactivate" =>
                      \A c \in Categories : categories[c].parent = t.row => ~ ActiveCategory(c)
               /\ t.pc = "checked" /\ t.op = "restore" /\ categories[t.row].parent # None =>
                      ActiveCategory(categories[t.row].parent)

OrderInv ==
    /\ HInv
    /\ \A r \in Requests : Fresh(tx[r])
    /\ ~ raced => Acyclic /\ ActiveBelow

LEMMA InitOrder == Init => OrderInv
<1> SUFFICES ASSUME Init PROVE OrderInv
  OBVIOUS
<1>1. \A c \in Categories : categories[c].parent = None
  BY DEF Init
<1>2. Acyclic /\ ActiveBelow
  BY <1>1, CatalogAssumption DEF Acyclic, ActiveBelow
<1>3. \A r \in Requests : tx[r] = Idle
  BY DEF Init
<1>4. Fresh(Idle)
  BY CatalogAssumption DEF Fresh, Idle
<1> QED BY <1>2, <1>3, <1>4, InitHierarchy DEF OrderInv

\* No category is written; a request goes on as t.
LEMMA StayOrder ==
    ASSUME OrderInv, HInv', NEW r \in Requests, NEW t, Fresh(t),
           tx' = [tx EXCEPT ![r] = t], categories' = categories, raced' = raced
    PROVE  OrderInv'
<1>1. tx \in [Requests -> Tx]
  BY DEF OrderInv, HInv, IInv, TypeInv
<1>2. ASSUME NEW s \in Requests PROVE Fresh(tx[s])'
  <2>1. Fresh(tx'[s])
    BY <1>1 DEF OrderInv
  <2> QED BY <2>1 DEF Fresh, ActiveCategory
<1>3. ~ raced' => Acyclic' /\ ActiveBelow'
  BY DEF OrderInv, Acyclic, ActiveBelow, ActiveCategory
<1> QED BY <1>2, <1>3 DEF OrderInv

LEMMA RequestOrder ==
    ASSUME OrderInv, NEW r \in Requests
    PROVE  tx[r] \in Tx /\ Held(tx[r]) /\ LookedUp(tx[r]) /\ Fresh(tx[r])
BY RequestType DEF OrderInv, HInv

LEMMA LockOrder ==
    ASSUME OrderInv, HInv', NEW r \in Requests, NEW op, NEW x, Lock(r, op, x)
    PROVE  OrderInv'
<1> DEFINE t == [tx[r] EXCEPT !.pc = "locked", !.op = op, !.row = x]
<1>1. tx[r].pc = "idle" /\ Becomes(r, t)
  BY DEF Lock
<1>2. t.pc = "locked" /\ t.seen = tx[r].seen
  BY RequestOrder DEF Tx
<1> HIDE DEF t
<1>3. Fresh(t)
  BY <1>1, <1>2, RequestOrder DEF Fresh
<1> QED BY <1>1, <1>3, StayOrder DEF Becomes

LEMMA LookUpOrder ==
    ASSUME OrderInv, HInv', NEW r \in Requests, NEW op \in {"create", "move"},
           NEW p \in Categories \cup {None}, LookUp(r, op, p)
    PROVE  OrderInv'
<1>1. /\ tx[r] \in Tx /\ tx[r].seen = {} /\ tx[r].parent = None
      /\ p # None => p # tx[r].row /\ ActiveCategory(p)
  BY RequestOrder DEF LookUp, Doing, Fresh, Held, LookedUp
<1>2. CASE p = None
  <2> DEFINE t == [tx[r] EXCEPT !.pc = "checked", !.op = op]
  <2>1. Becomes(r, t)
    BY <1>2 DEF LookUp
  <2>2. t.pc = "checked" /\ t.op = op /\ t.parent = None
    BY <1>1 DEF Tx
  <2> HIDE DEF t
  <2>3. Fresh(t)
    BY <2>2 DEF Fresh
  <2> QED BY <2>1, <2>3, StayOrder DEF Becomes
<1>3. CASE p # None
  <2> DEFINE up == categories[p].parent
             t == [tx[r] EXCEPT !.pc = "walking", !.op = op, !.parent = p, !.at = p, !.up = up]
  <2>1. Becomes(r, t)
    BY <1>3 DEF LookUp
  <2>2. /\ t.pc = "walking" /\ t.op = op /\ t.row = tx[r].row /\ t.parent = p
        /\ t.at = p /\ t.up = up /\ t.seen = {}
    BY <1>1 DEF Tx
  <2> HIDE DEF t
  <2>3. Fresh(t)
    BY <1>1, <1>3, <2>2 DEF Fresh
  <2> QED BY <2>1, <2>3, StayOrder DEF Becomes
<1> QED BY <1>2, <1>3

LEMMA WalkOrder ==
    ASSUME OrderInv, HInv', NEW r \in Requests, Walk(r)
    PROVE  OrderInv'
<1>1. /\ tx[r].pc = "walking" /\ tx[r].op \in {"create", "move"} /\ tx[r] \in Tx
      /\ Fresh(tx[r])
  BY RequestOrder DEF Walk, Held
<1>2. CASE tx[r].up = None /\ Check(r)
  <2> DEFINE t == [tx[r] EXCEPT !.pc = "checked"]
  <2>1. Becomes(r, t)
    BY <1>2 DEF Check
  <2>2. /\ t.pc = "checked" /\ t.op = tx[r].op /\ t.row = tx[r].row /\ t.parent = tx[r].parent
        /\ t.at = tx[r].at /\ t.up = None /\ t.seen = tx[r].seen
        /\ t.overtaken = tx[r].overtaken
    BY <1>1, <1>2 DEF Tx
  <2> HIDE DEF t
  <2>3. Fresh(t)
    BY <1>1, <1>2, <2>2 DEF Fresh
  <2> QED BY <2>1, <2>3, StayOrder DEF Becomes
<1> DEFINE up == categories[tx[r].up].parent
           seen == tx[r].seen \cup {tx[r].at}
           t == [tx[r] EXCEPT !.at = tx[r].up, !.up = up, !.seen = seen]
<1>3. CASE tx[r].up \notin {None, tx[r].row} /\ Becomes(r, t)
  <2> HIDE DEF up, seen
  <2>1. /\ t.pc = "walking" /\ t.op = tx[r].op /\ t.row = tx[r].row /\ t.parent = tx[r].parent
        /\ t.at = tx[r].up /\ t.up = up /\ t.seen = seen
        /\ t.overtaken = tx[r].overtaken
    BY <1>1 DEF Tx
  <2> HIDE DEF t
  <2>2. tx[r].up \in Categories
    BY <1>1, <1>3 DEF Tx
  <2>3. Fresh(t)
    BY <1>1, <1>3, <2>1, <2>2 DEF Fresh, up, seen
  <2> QED BY <1>3, <2>3, StayOrder DEF Becomes
<1> QED BY <1>2, <1>3 DEF Walk

LEMMA ChecksOrder ==
    ASSUME OrderInv, HInv', NEW r \in Requests, CheckChildren(r) \/ CheckParent(r)
    PROVE  OrderInv'
<1> DEFINE t == [tx[r] EXCEPT !.pc = "checked"]
<1>1. Becomes(r, t) /\ tx[r].pc = "locked" /\ tx[r].parent = None
  BY RequestOrder DEF CheckChildren, CheckParent, Doing, Check, LookedUp
<1>2. t.pc = "checked" /\ t.op = tx[r].op /\ t.row = tx[r].row /\ t.parent = None
  BY <1>1, RequestOrder DEF Tx
<1> HIDE DEF t
<1>3. Fresh(t)
  BY <1>2 DEF Fresh, CheckChildren, CheckParent, Doing
<1> QED BY <1>1, <1>3, StayOrder DEF Becomes

LEMMA FieldsOrder ==
    ASSUME OrderInv, HInv', NEW r \in Requests,
           ChangeFields(r) \/ AssignPolicy(r) \/ KeepPolicy(r)
    PROVE  OrderInv'
<1>1. /\ tx[r] \in Tx /\ tx[r].op = "edit" /\ tx[r].row \in Documents
      /\ UNCHANGED <<categories, raced>>
  BY RequestOrder
     DEF ChangeFields, AssignPolicy, KeepPolicy, SetPolicy, Becomes, Doing, Held
<1>2. \A t : t.pc \in {"fields", "checked"} /\ t.op = "edit" /\ t.row = tx[r].row => Fresh(t)
  BY <1>1, CatalogAssumption DEF Fresh
<1>3. CASE ChangeFields(r)
  <2>1. PICK dated, new :
            tx' = [tx EXCEPT ![r] = [tx[r] EXCEPT !.pc = "fields", !.dated = dated,
                                                  !.document = new]]
    BY <1>3 DEF ChangeFields, Becomes
  <2> DEFINE t == [tx[r] EXCEPT !.pc = "fields", !.dated = dated, !.document = new]
  <2>2. t.pc = "fields" /\ t.op = "edit" /\ t.row = tx[r].row
    BY <1>1 DEF Tx
  <2>3. tx' = [tx EXCEPT ![r] = t]
    BY <2>1
  <2> HIDE DEF t
  <2>4. Fresh(t)
    BY <1>2, <2>2
  <2> QED BY <1>1, <2>3, <2>4, StayOrder
<1>4. CASE AssignPolicy(r) \/ KeepPolicy(r)
  <2>1. PICK p, review : SetPolicy(r, p, review)
    BY <1>4 DEF AssignPolicy, KeepPolicy
  <2> DEFINE new == [tx[r].document EXCEPT !.policy = p, !.review = review]
             t == [tx[r] EXCEPT !.pc = "checked", !.document = new]
  <2>2. tx' = [tx EXCEPT ![r] = t]
    BY <2>1 DEF SetPolicy, Becomes
  <2> HIDE DEF new
  <2>3. t.pc = "checked" /\ t.op = "edit" /\ t.row = tx[r].row
    BY <1>1 DEF Tx
  <2> HIDE DEF t
  <2>4. Fresh(t)
    BY <1>2, <2>3
  <2> QED BY <1>1, <2>2, <2>4, StayOrder
<1> QED BY <1>3, <1>4

\* The steps that end a request without writing a category.
LEMMA EndOrder ==
    ASSUME OrderInv, HInv', NEW r \in Requests, tx' = [tx EXCEPT ![r] = Idle],
           categories' = categories, raced' = raced
    PROVE  OrderInv'
<1>1. Fresh(Idle)
  BY CatalogAssumption DEF Fresh, Idle
<1> QED BY <1>1, StayOrder

-----------------------------------------------------------------------------
(* A category is written: every other request on categories is overtaken *)

LEMMA WriteOrder ==
    ASSUME OrderInv, HInv', NEW r \in Requests, NEW c, NEW category,
           WriteCategory(r, c, category),
           ~ raced /\ ~ tx[r].overtaken => Acyclic' /\ ActiveBelow'
    PROVE  OrderInv'
<1>1. ASSUME NEW s \in Requests PROVE Fresh(tx[s])'
  <2>1. tx' = [u \in Requests |->
                 IF u = r THEN Idle ELSE [tx[u] EXCEPT !.overtaken = @ \/ OnCategories(u)]]
    BY DEF WriteCategory
  <2>2. CASE s = r
    <3>1. tx'[s] = Idle
      BY <2>1, <2>2
    <3> QED BY <3>1, CatalogAssumption DEF Fresh, Idle
  <2>3. CASE s # r
    <3> DEFINE t == [tx[s] EXCEPT !.overtaken = @ \/ OnCategories(s)]
    <3>1. tx'[s] = t
      BY <2>1, <2>3
    <3>2. /\ t.pc = tx[s].pc /\ t.op = tx[s].op /\ t.row = tx[s].row /\ t.seen = tx[s].seen
          /\ OnCategories(s) => t.overtaken
      BY RequestOrder DEF Tx
    <3> HIDE DEF t
    <3>3. /\ t.pc \in {"idle", "locked"} => t.seen = {}
          /\ t.op = "create" \/ t.row \in Categories => t.overtaken
      BY <3>2, RequestOrder DEF Fresh, OnCategories
    <3> QED BY <3>1, <3>3 DEF Fresh
  <2> QED BY <2>2, <2>3
<1>2. ~ raced' => Acyclic' /\ ActiveBelow'
  BY DEF WriteCategory
<1> QED BY <1>1, <1>2 DEF OrderInv

\* No cycle comes about when c is put under a category of S, a set without c
\* that contains every parent of its members.
LEMMA StaysAcyclic ==
    ASSUME Acyclic, categories \in [Categories -> Category],
           NEW c \in Categories, NEW category, categories' = [categories EXCEPT ![c] = category],
           NEW S \in SUBSET Categories, c \notin S,
           category.parent # None => category.parent \in S,
           \A x \in S : categories[x].parent \in S \cup {None}
    PROVE  Acyclic'
<1> SUFFICES ASSUME NEW C \in SUBSET Categories, \A x \in C : categories'[x].parent \in C
             PROVE  C = {}
  BY DEF Acyclic
<1>1. \A x \in Categories : categories'[x] = IF x = c THEN category ELSE categories[x]
  OBVIOUS
<1>2. None \notin Categories
  BY CatalogAssumption
<1>3. C \cap S = {}
  <2>1. \A x \in C \cap S : categories[x].parent \in C \cap S
    BY <1>1, <1>2
  <2> QED BY <2>1 DEF Acyclic
<1>4. c \notin C
  BY <1>1, <1>2, <1>3
<1>5. \A x \in C : categories[x].parent \in C
  BY <1>1, <1>4
<1> QED BY <1>5 DEF Acyclic

LEMMA CreateOrder ==
    ASSUME OrderInv, HInv', NEW r \in Requests, CreateCategory(r)
    PROVE  OrderInv'
<1>1. PICK c \in Categories :
          /\ ~ Exists(c)
          /\ WriteCategory(r, c, [status |-> "active", parent |-> tx[r].parent])
  BY DEF CreateCategory
<1> DEFINE p == tx[r].parent
           new == [status |-> "active", parent |-> p]
<1>2. new.status = "active" /\ new.parent = p
  OBVIOUS
<1>3. WriteCategory(r, c, new)
  BY <1>1
<1> HIDE DEF new
<1>4. /\ categories' = [categories EXCEPT ![c] = new]
      /\ categories \in [Categories -> Category] /\ Tree
      /\ categories[c].status = "none" /\ tx[r].pc = "checked" /\ tx[r].op = "create"
      /\ p # None => p \in Categories
  <2>1. categories' = [categories EXCEPT ![c] = new]
    BY <1>3 DEF WriteCategory
  <2>2. categories \in [Categories -> Category] /\ Tree
    BY DEF OrderInv, HInv, IInv, TypeInv
  <2>3. categories[c].status = "none"
    BY <1>1, CatalogAssumption DEF Exists
  <2>4. tx[r].pc = "checked" /\ tx[r].op = "create"
    BY DEF CreateCategory, Checked
  <2>5. p # None => p \in Categories
    BY RequestOrder DEF Tx
  <2> QED BY <2>1, <2>2, <2>3, <2>4, <2>5
<1>5. ASSUME ~ raced, ~ tx[r].overtaken
      PROVE  Acyclic' /\ ActiveBelow'
  <2>1. /\ Acyclic /\ ActiveBelow
        /\ p # None => ActiveCategory(p)
    BY <1>4, <1>5, RequestOrder DEF OrderInv, Fresh
  <2> DEFINE S == {x \in Categories : categories[x].status # "none"}
  <2>2. \A x \in S : categories[x].parent \in S \cup {None}
    BY <1>4 DEF Tree, Present, Category
  <2>3. Acyclic'
    <3>1. c \notin S /\ (p # None => p \in S)
      BY <1>4, <2>1 DEF ActiveCategory
    <3> HIDE DEF S
    <3>2. S \in SUBSET Categories
      BY DEF S
    <3> QED BY <1>2, <1>4, <2>1, <2>2, <3>1, <3>2, StaysAcyclic
  <2>4. ActiveBelow'
    <3>1. \A x \in Categories : categories'[x] = IF x = c THEN new ELSE categories[x]
      BY <1>4
    <3>2. \A x \in Categories : categories[x].parent # c
      BY <1>4, CatalogAssumption DEF Tree, Present, Category
    <3>3. p # None => p # c
      BY <1>4, <2>1 DEF ActiveCategory
    <3>4. \A x \in Categories : categories[x].parent \in Categories \cup {None}
      BY <1>4 DEF Category
    <3> QED BY <1>2, <1>4, <2>1, <3>1, <3>2, <3>3, <3>4 DEF ActiveBelow, ActiveCategory
  <2> QED BY <2>3, <2>4
<1> QED BY <1>3, <1>5, WriteOrder

LEMMA MoveOrder ==
    ASSUME OrderInv, HInv', NEW r \in Requests, MoveCategory(r)
    PROVE  OrderInv'
<1> DEFINE c == tx[r].row
           p == tx[r].parent
           new == [categories[c] EXCEPT !.parent = p]
<1>1. /\ WriteCategory(r, c, new) /\ tx[r].pc = "checked" /\ tx[r].op = "move"
      /\ c \in Categories /\ categories \in [Categories -> Category]
  BY RequestOrder DEF MoveCategory, Checked, Held, OrderInv, HInv, IInv, TypeInv
<1>2. new.parent = p /\ new.status = categories[c].status
  BY <1>1 DEF Category
<1> HIDE DEF new
<1>3. categories' = [categories EXCEPT ![c] = new]
  BY <1>1 DEF WriteCategory
<1>4. ASSUME ~ raced, ~ tx[r].overtaken
      PROVE  Acyclic' /\ ActiveBelow'
  <2> DEFINE way == tx[r].seen \cup {tx[r].at}
             S == IF p = None THEN {} ELSE way
  <2>1. /\ Acyclic /\ ActiveBelow
        /\ p # None =>
              /\ ActiveCategory(p) /\ p \in way /\ way \subseteq Categories /\ c \notin way
              /\ \A x \in tx[r].seen : categories[x].parent \in way
              /\ categories[tx[r].at].parent = None
    BY <1>1, <1>4, RequestOrder DEF OrderInv, Fresh
  <2>2. /\ S \in SUBSET Categories /\ c \notin S /\ (p # None => p \in S)
        /\ \A x \in S : categories[x].parent \in S \cup {None}
    BY <2>1
  <2>3. Acyclic'
    <3> HIDE DEF S
    <3> QED BY <1>1, <1>2, <1>3, <2>1, <2>2, StaysAcyclic
  <2>4. ActiveBelow'
    <3>1. \A x \in Categories : categories'[x] = IF x = c THEN new ELSE categories[x]
      BY <1>1, <1>3
    <3>2. \A x \in Categories : categories[x].parent \in Categories \cup {None}
      BY <1>1 DEF Category
    <3>3. p \in Categories \cup {None}
      BY RequestOrder DEF Tx
    <3>4. \A x \in Categories : ActiveCategory(x)' <=> ActiveCategory(x)
      BY <1>2, <3>1 DEF ActiveCategory
    <3> QED BY <1>2, <2>1, <3>1, <3>2, <3>3, <3>4 DEF ActiveBelow
  <2> QED BY <2>3, <2>4
<1> QED BY <1>1, <1>4, WriteOrder

LEMMA StatusOrder ==
    ASSUME OrderInv, HInv', NEW r \in Requests, DeactivateCategory(r) \/ RestoreCategory(r)
    PROVE  OrderInv'
<1>1. PICK status :
          /\ \/ DeactivateCategory(r) /\ status = "inactive"
             \/ RestoreCategory(r) /\ status = "active"
          /\ WriteCategory(r, tx[r].row, [categories[tx[r].row] EXCEPT !.status = status])
  BY DEF DeactivateCategory, RestoreCategory
<1> DEFINE c == tx[r].row
           new == [categories[c] EXCEPT !.status = status]
<1>2. /\ WriteCategory(r, c, new) /\ tx[r].pc = "checked"
      /\ \/ tx[r].op = "deactivate" /\ status = "inactive"
         \/ tx[r].op = "restore" /\ status = "active"
  BY <1>1 DEF DeactivateCategory, RestoreCategory, Checked
<1>3. c \in Categories /\ categories \in [Categories -> Category]
  BY <1>2, RequestOrder DEF Held, OrderInv, HInv, IInv, TypeInv
<1>4. new.parent = categories[c].parent /\ new.status = status
  BY <1>3 DEF Category
<1> HIDE DEF new
<1>5. \A x \in Categories : categories'[x] = IF x = c THEN new ELSE categories[x]
  BY <1>2, <1>3 DEF WriteCategory
<1>6. ASSUME ~ raced, ~ tx[r].overtaken
      PROVE  Acyclic' /\ ActiveBelow'
  <2>1. /\ Acyclic /\ ActiveBelow
        /\ tx[r].op = "deactivate" =>
              \A x \in Categories : categories[x].parent = c => ~ ActiveCategory(x)
        /\ tx[r].op = "restore" /\ categories[c].parent # None =>
              ActiveCategory(categories[c].parent)
    BY <1>2, <1>3, <1>6, RequestOrder DEF OrderInv, Fresh
  <2>2. \A x \in Categories : categories'[x].parent = categories[x].parent
    BY <1>4, <1>5
  <2>3. Acyclic'
    BY <2>1, <2>2 DEF Acyclic
  <2>4. ActiveBelow'
    <3> SUFFICES ASSUME NEW x \in Categories, ActiveCategory(x)', categories[x].parent # None
                 PROVE  categories'[categories[x].parent].status = "active"
      BY <2>2 DEF ActiveBelow, ActiveCategory
    <3>1. categories[x].parent \in Categories
      BY <1>3 DEF Category
    <3>2. Tree
      BY DEF OrderInv, HInv
    <3>3. CASE x = c
      BY <1>2, <1>4, <1>5, <2>1, <3>1, <3>2, <3>3 DEF ActiveCategory, Tree
    <3>4. CASE x # c
      BY <1>2, <1>4, <1>5, <2>1, <3>1, <3>4 DEF ActiveBelow, ActiveCategory
    <3> QED BY <3>3, <3>4
  <2> QED BY <2>3, <2>4
<1> QED BY <1>2, <1>6, WriteOrder

LEMMA StepOrder == OrderInv /\ HInv' /\ [Next]_vars => OrderInv'
<1> SUFFICES ASSUME OrderInv, HInv', [Next]_vars PROVE OrderInv'
  OBVIOUS
<1>1. CASE UNCHANGED vars
  BY <1>1 DEF vars, OrderInv, Fresh, ActiveCategory, Acyclic, ActiveBelow
<1>2. ASSUME NEW r \in Requests,
             \/ CreatePolicy(r) \/ UpdatePolicy(r) \/ DeactivatePolicy(r) \/ RestorePolicy(r)
             \/ UpdateDocument(r) \/ Abort(r)
      PROVE  OrderInv'
  <2>1. tx' = [tx EXCEPT ![r] = Idle] /\ categories' = categories /\ raced' = raced
    BY <1>2 DEF CreatePolicy, UpdatePolicy, DeactivatePolicy, RestorePolicy, SwitchPolicy,
                WritePolicy, UpdateDocument, Abort, Becomes
  <2> QED BY <2>1, EndOrder
<1>3. CASE Next
  BY <1>2, <1>3, LockOrder, LookUpOrder, WalkOrder, ChecksOrder, FieldsOrder, CreateOrder,
     MoveOrder, StatusOrder DEF Next
<1> QED BY <1>1, <1>3

\* Two requests never make two categories each other's parent.  As long as none
\* commits what another one has overtaken, the categories form a forest and no
\* active one is under an inactive one (_validate_category_parent,
\* update_, deactivate_ and restore_document_category).
THEOREM HierarchyIsKept == Spec => []HierarchyKept
<1>1. OrderInv => HierarchyKept
  BY DEF OrderInv, HInv, Tree, NotEachOthersParent, HierarchyKept, ActiveBelow
<1>2. HInv /\ [Next]_vars => HInv'
  BY StepInv, StepHierarchy DEF HInv
<1>3. OrderInv /\ [Next]_vars => OrderInv'
  BY <1>2, StepOrder DEF OrderInv
<1> QED BY <1>1, <1>3, InitOrder, PTL DEF Spec

=============================================================================
