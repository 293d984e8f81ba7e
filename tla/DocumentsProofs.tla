--------------------------- MODULE DocumentsProofs ---------------------------
(***************************************************************************)
(* Proofs about Documents, for any requests, users, roles, access lists    *)
(* and storage objects.                                                    *)
(*                                                                         *)
(* The argument: whatever changes the document holds the lock of its row,  *)
(* so what a request has checked under the lock (its permission, the       *)
(* status, the next version number) is still true when it commits.  A file *)
(* on its way to becoming a version belongs to one upload.                 *)
(***************************************************************************)
EXTENDS Documents, FiniteSetTheorems, SequenceTheorems, TLAPS

-----------------------------------------------------------------------------
(* The inductive invariant *)

\* An access list that a document may have.
Listable(list) ==
    /\ list \subseteq Entry
    /\ list # {} => \E e \in list : e.type = "manage"

\* What a request knows at each of its steps.
OwnInv(t) ==
    /\ tx[t].pc # "idle" => tx[t].actor \in Users
    /\ tx[t].pc \in {"locked", "refused", "listed", "saved"} => lock = t
    /\ tx[t].pc = "read" => tx[t].op = "upload"
    /\ tx[t].pc \in {"idle", "read"} => tx[t].view = "none"
    /\ tx[t].pc = "lock" /\ tx[t].op # "upload" => tx[t].view = "none"
    /\ tx[t].pc = "locked" /\ tx[t].op # "upload" => tx[t].view = status
    /\ tx[t].pc = "saved" => MayManage(tx[t].actor) /\ tx[t].number > 0
    /\ tx[t].pc = "listed" => Listable(AclAfter(t))
    /\ tx[t].object \in IF tx[t].pc \in {"saved", "discard"} THEN Objects ELSE {None}

IInv ==
    /\ TypeOK
    /\ IsFiniteSet(versions)
    /\ \A t \in Txns : OwnInv(t)
    /\ FilesAccountedFor
    /\ RestrictedHasManager

\* The part of TypeOK that SetStatus may disturb.
TrailOK ==
    /\ status \in Statuses
    /\ trail \in Seq({"archived", "restored"})
    /\ \A n \in 1..Len(trail) : trail[n] = IF n % 2 = 1 THEN "archived" ELSE "restored"
    /\ status = IF Len(trail) % 2 = 1 THEN "archived" ELSE "active"

LEMMA InitIInv == Init => IInv
<1> SUFFICES ASSUME Init PROVE IInv
  OBVIOUS
<1>1. IdleTx \in Tx
  BY DEF IdleTx, Tx, Steps
<1>2. TypeOK
  <2>1. trail \in Seq({"archived", "restored"}) /\ Len(trail) = 0
    BY EmptySeq DEF Init
  <2> QED BY <1>1, <2>1 DEF Init, TypeOK, Statuses
<1>3. \A t \in Txns : OwnInv(t)
  BY DEF Init, OwnInv, IdleTx
<1>4. FilesAccountedFor /\ RestrictedHasManager
  BY DEF Init, FilesAccountedFor, RestrictedHasManager
<1>5. IsFiniteSet(versions)
  BY FS_EmptySet DEF Init
<1> QED BY <1>2, <1>3, <1>4, <1>5 DEF IInv

\* What the others know survives a step of t that takes no lock from them and
\* changes what a lock protects only if t has it.
LEMMA OthersKeep ==
    ASSUME IInv, NEW t, NEW u \in Txns \ {t}, tx'[u] = tx[u],
           lock = u => lock' = u,
           lock = t \/ UNCHANGED <<status, acl>>
    PROVE  OwnInv(u)'
<1>1. OwnInv(u)
  BY DEF IInv
<1>2. tx[u].pc \in {"locked", "refused", "listed", "saved"} =>
        lock' = u /\ status' = status /\ acl' = acl
  BY <1>1 DEF OwnInv
<1> QED BY <1>1, <1>2 DEF OwnInv, MayManage, AclAfter, Listable

LEMMA FinishFacts ==
    ASSUME TypeOK, NEW t \in Txns, Finish(t)
    PROVE  /\ tx' \in [Txns -> Tx] /\ lock' \in Txns \cup {None}
           /\ tx'[t] = IdleTx /\ OwnInv(t)'
           /\ \A u \in Txns \ {t} : tx'[u] = tx[u] /\ (lock = u => lock' = u)
<1>1. IdleTx \in Tx
  BY DEF IdleTx, Tx, Steps
<1>2. /\ tx' \in [Txns -> Tx] /\ lock' \in Txns \cup {None} /\ tx'[t] = IdleTx
      /\ \A u \in Txns \ {t} : tx'[u] = tx[u] /\ (lock = u => lock' = u)
  BY <1>1 DEF Finish, Unlock, TypeOK
<1>3. OwnInv(t)'
  BY <1>2 DEF OwnInv, IdleTx
<1> QED BY <1>2, <1>3

\* A request ends that has no file of its own, with what it wrote under the
\* lock.
LEMMA EndKeeps ==
    ASSUME IInv, NEW t \in Txns, Finish(t), tx[t].object = None, UNCHANGED store,
           TrailOK', links' \subseteq Targets, acl' \subseteq Entry,
           RestrictedHasManager',
           lock = t \/ UNCHANGED <<status, acl>>
    PROVE  IInv'
<1>1. /\ tx' \in [Txns -> Tx] /\ lock' \in Txns \cup {None}
      /\ tx'[t] = IdleTx /\ OwnInv(t)'
      /\ \A u \in Txns \ {t} : tx'[u] = tx[u] /\ (lock = u => lock' = u)
  BY FinishFacts DEF IInv
<1>2. TypeOK'
  BY <1>1 DEF IInv, TypeOK, TrailOK, store
<1>3. \A u \in Txns : OwnInv(u)'
  BY <1>1, OthersKeep
<1>4. InFlight' = InFlight
  <2>1. \A u \in Txns : tx'[u].object = tx[u].object
    BY <1>1 DEF IdleTx
  <2> QED BY <2>1 DEF InFlight
<1>5. FilesAccountedFor'
  BY <1>4 DEF IInv, FilesAccountedFor, VersionObjects, store
<1> QED BY <1>2, <1>3, <1>5 DEF IInv, store

LEMMA RollbackKeeps ==
    ASSUME IInv, NEW t \in Txns, tx[t].object = None, Rollback(t)
    PROVE  IInv'
<1>1. UNCHANGED <<status, store, links, acl, trail>> /\ Finish(t)
  BY DEF Rollback
<1>2. TrailOK' /\ links' \subseteq Targets /\ acl' \subseteq Entry
  BY <1>1 DEF IInv, TypeOK, TrailOK
<1>3. RestrictedHasManager'
  BY <1>1 DEF IInv, RestrictedHasManager
<1> QED BY <1>1, <1>2, <1>3, EndKeeps

\* A request goes on and changes nothing but what it knows.
LEMMA StayKeeps ==
    ASSUME IInv, NEW t \in Txns, NEW x \in Tx, tx' = [tx EXCEPT ![t] = x],
           UNCHANGED <<status, store, links, acl, trail>>,
           x.object = tx[t].object,
           lock' \in Txns \cup {None}, \A u \in Txns \ {t} : lock = u => lock' = u,
           OwnInv(t)'
    PROVE  IInv'
<1>1. tx'[t] = x /\ \A u \in Txns \ {t} : tx'[u] = tx[u]
  BY DEF IInv, TypeOK
<1>2. TypeOK'
  BY DEF IInv, TypeOK, store
<1>3. \A u \in Txns : OwnInv(u)'
  BY <1>1, OthersKeep
<1>4. InFlight' = InFlight
  <2>1. \A u \in Txns : tx'[u].object = tx[u].object
    BY <1>1
  <2> QED BY <2>1 DEF InFlight
<1>5. FilesAccountedFor'
  BY <1>4 DEF IInv, FilesAccountedFor, VersionObjects, store
<1>6. RestrictedHasManager'
  BY DEF IInv, RestrictedHasManager
<1> QED BY <1>2, <1>3, <1>5, <1>6 DEF IInv, store

-----------------------------------------------------------------------------
(* The actions *)

\* Between its steps an upload has a file, and no other request has one.
LEMMA NoFile ==
    ASSUME IInv, NEW t \in Txns, tx[t].pc \notin {"saved", "discard"}
    PROVE  tx[t].object = None
BY DEF IInv, OwnInv

LEMMA BeginKeeps ==
    ASSUME IInv, NEW t \in Txns, NEW o \in Ops, NEW u \in Users, Begin(t, o, u)
    PROVE  IInv'
<1> DEFINE x == [tx[t] EXCEPT !.pc = IF o = "upload" THEN "read" ELSE "lock",
                              !.op = o, !.actor = u]
<1>1. /\ tx[t] \in Tx /\ OwnInv(t) /\ tx[t].pc = "idle" /\ tx' = [tx EXCEPT ![t] = x]
      /\ UNCHANGED <<status, store, links, acl, trail, lock>>
  BY DEF Begin, IInv, TypeOK
<1>2. /\ x \in Tx /\ x.op = o /\ x.actor = u /\ x.view = tx[t].view
      /\ x.object = tx[t].object /\ x.pc = IF o = "upload" THEN "read" ELSE "lock"
  BY <1>1 DEF Tx, Steps
<1> HIDE DEF x
<1>3. tx'[t] = x
  BY <1>1 DEF IInv, TypeOK
<1>4. OwnInv(t)'
  BY <1>1, <1>2, <1>3 DEF OwnInv
<1>5. lock' \in Txns \cup {None}
  BY <1>1 DEF IInv, TypeOK
<1> QED BY <1>1, <1>2, <1>4, <1>5, StayKeeps

LEMMA ReadDocumentKeeps ==
    ASSUME IInv, NEW t \in Txns, ReadDocument(t)
    PROVE  IInv'
<1>1. tx[t] \in Tx /\ OwnInv(t) /\ tx[t].pc = "read"
  BY DEF ReadDocument, IInv, TypeOK
<1>2. CASE Rollback(t)
  BY <1>1, <1>2, NoFile, RollbackKeeps
<1>3. CASE ~ Rollback(t)
  <2> DEFINE x == [tx[t] EXCEPT !.pc = "lock", !.view = status]
  <2>1. /\ tx' = [tx EXCEPT ![t] = x]
        /\ UNCHANGED <<status, store, links, acl, trail, lock>>
    BY <1>3 DEF ReadDocument
  <2>2. /\ x \in Tx /\ x.op = tx[t].op /\ x.actor = tx[t].actor
        /\ x.object = tx[t].object /\ x.pc = "lock"
    BY <1>1 DEF Tx, Steps, IInv, TypeOK
  <2> HIDE DEF x
  <2>3. tx'[t] = x
    BY <2>1 DEF IInv, TypeOK
  <2>4. OwnInv(t)'
    BY <1>1, <2>1, <2>2, <2>3 DEF OwnInv
  <2>5. lock' \in Txns \cup {None}
    BY <2>1 DEF IInv, TypeOK
  <2> QED BY <2>1, <2>2, <2>4, <2>5, StayKeeps
<1> QED BY <1>2, <1>3

LEMMA LockDocumentKeeps ==
    ASSUME IInv, NEW t \in Txns, LockDocument(t)
    PROVE  IInv'
<1> DEFINE x == [tx[t] EXCEPT !.pc = "locked", !.view = IF @ = "none" THEN status ELSE @]
<1>1. /\ tx[t] \in Tx /\ OwnInv(t) /\ tx[t].pc = "lock" /\ status \in Statuses
      /\ tx' = [tx EXCEPT ![t] = x] /\ lock = None /\ lock' = t
      /\ UNCHANGED <<status, store, links, acl, trail>>
  BY DEF LockDocument, IInv, TypeOK
<1>2. /\ x \in Tx /\ x.op = tx[t].op /\ x.actor = tx[t].actor
      /\ x.view = IF tx[t].view = "none" THEN status ELSE tx[t].view
      /\ x.object = tx[t].object /\ x.pc = "locked"
  BY <1>1 DEF Tx, Steps
<1> HIDE DEF x
<1>3. tx'[t] = x
  BY <1>1 DEF IInv, TypeOK
<1>4. OwnInv(t)'
  BY <1>1, <1>2, <1>3 DEF OwnInv
<1>5. \A u \in Txns \ {t} : lock = u => lock' = u
  BY <1>1, DocumentsAssumption
<1> QED BY <1>1, <1>2, <1>4, <1>5, StayKeeps

LEMMA RefuseKeeps ==
    ASSUME IInv, NEW t \in Txns, Refuse(t) \/ CloseSession(t)
    PROVE  IInv'
<1>1. tx[t] \in Tx /\ OwnInv(t) /\ tx[t].pc \in {"locked", "refused"}
  BY DEF Refuse, Refused, CloseSession, IInv, TypeOK
<1>2. CASE Rollback(t)
  BY <1>1, <1>2, NoFile, RollbackKeeps
<1>3. CASE ~ Rollback(t)
  <2> DEFINE x == [tx[t] EXCEPT !.pc = "refused"]
  <2>1. /\ tx' = [tx EXCEPT ![t] = x] /\ tx[t].pc = "locked"
        /\ UNCHANGED <<status, store, links, acl, trail, lock>>
    BY <1>3 DEF Refuse, Refused, CloseSession
  <2>2. /\ x \in Tx /\ x.op = tx[t].op /\ x.actor = tx[t].actor
        /\ x.object = tx[t].object /\ x.pc = "refused"
    BY <1>1 DEF Tx, Steps
  <2> HIDE DEF x
  <2>3. tx'[t] = x
    BY <2>1 DEF IInv, TypeOK
  <2>4. OwnInv(t)'
    BY <1>1, <2>1, <2>2, <2>3 DEF OwnInv
  <2>5. lock' \in Txns \cup {None}
    BY <2>1 DEF IInv, TypeOK
  <2> QED BY <2>1, <2>2, <2>4, <2>5, StayKeeps
<1> QED BY <1>2, <1>3

\* What a request that manages or administers the document knows.
LEMMA HolderFacts ==
    ASSUME IInv, NEW t \in Txns, tx[t].pc = "locked"
    PROVE  /\ lock = t /\ tx[t].object = None /\ tx[t].actor \in Users
           /\ tx[t].op # "upload" => tx[t].view = status
BY NoFile DEF IInv, OwnInv

\* The new event is of the other kind than the last one.
LEMMA StatusStepsKeep ==
    ASSUME IInv, NEW t \in Txns, Archive(t) \/ Restore(t)
    PROVE  IInv'
<1>1. /\ tx[t].pc = "locked" /\ tx[t].op # "upload"
      /\ \/ SetStatus(t, "active", "archived", "archived")
         \/ SetStatus(t, "archived", "active", "restored")
  BY DEF Archive, Restore, Manages, Holds
<1>2. lock = t /\ tx[t].object = None /\ tx[t].view = status
  BY <1>1, HolderFacts
<1>3. CASE Rollback(t)
  BY <1>2, <1>3, RollbackKeeps
<1>4. CASE ~ Rollback(t)
  <2>1. /\ Finish(t) /\ UNCHANGED <<store, links, acl>>
        /\ \/ status = "active" /\ status' = "archived" /\ trail' = Append(trail, "archived")
           \/ status = "archived" /\ status' = "active" /\ trail' = Append(trail, "restored")
    BY <1>1, <1>2, <1>4 DEF SetStatus
  <2>2. PICK e \in {"archived", "restored"} : trail' = Append(trail, e)
    BY <2>1
  <2>3. /\ trail' \in Seq({"archived", "restored"}) /\ Len(trail) \in Nat
        /\ Len(trail') = Len(trail) + 1 /\ trail'[Len(trail) + 1] = e
        /\ \A n \in 1..Len(trail) : trail'[n] = trail[n]
    BY <2>2, AppendProperties, LenProperties DEF IInv, TypeOK
  <2>4. \A n \in 1..(Len(trail) + 1) : n \in 1..Len(trail) \/ n = Len(trail) + 1
    BY <2>3
  <2>5. (Len(trail) + 1) % 2 = 1 <=> Len(trail) % 2 # 1
    BY <2>3
  <2>6. e = IF Len(trail) % 2 = 1 THEN "restored" ELSE "archived"
    <3>1. trail'[Len(trail) + 1] = IF status = "active" THEN "archived" ELSE "restored"
      <4>1. \A f \in {"archived", "restored"} : Append(trail, f)[Len(trail) + 1] = f
        BY AppendProperties DEF IInv, TypeOK
      <4> QED BY <2>1, <4>1
    <3> QED BY <2>3, <3>1 DEF IInv, TypeOK
  <2>7. status' = IF Len(trail') % 2 = 1 THEN "archived" ELSE "active"
    BY <2>1, <2>3, <2>5 DEF IInv, TypeOK
  <2>8. \A n \in 1..Len(trail') :
            trail'[n] = IF n % 2 = 1 THEN "archived" ELSE "restored"
    BY <2>3, <2>4, <2>5, <2>6 DEF IInv, TypeOK
  <2>9. TrailOK'
    BY <2>1, <2>3, <2>7, <2>8 DEF TrailOK, Statuses
  <2>10. /\ links' \subseteq Targets /\ acl' \subseteq Entry /\ RestrictedHasManager'
    BY <2>1 DEF IInv, TypeOK, RestrictedHasManager
  <2> QED BY <1>2, <2>1, <2>9, <2>10, EndKeeps
<1> QED BY <1>3, <1>4

LEMMA LinksKeep ==
    ASSUME IInv, NEW t \in Txns, AddLink(t) \/ Unlink(t)
    PROVE  IInv'
<1>1. tx[t].pc = "locked"
  BY DEF AddLink, Unlink, Manages, Holds
<1>2. tx[t].object = None
  BY <1>1, HolderFacts
<1>3. CASE Rollback(t)
  BY <1>2, <1>3, RollbackKeeps
<1>4. CASE ~ Rollback(t)
  <2>1. /\ Finish(t) /\ UNCHANGED <<status, store, acl, trail>> /\ links' \subseteq Targets
    BY <1>4 DEF AddLink, Unlink, SetLinks, IInv, TypeOK
  <2>2. TrailOK' /\ acl' \subseteq Entry /\ RestrictedHasManager'
    BY <2>1 DEF IInv, TypeOK, TrailOK, RestrictedHasManager
  <2> QED BY <1>2, <2>1, <2>2, EndKeeps
<1> QED BY <1>3, <1>4

\* The first entry is a manager's, and the last manager is not revoked while
\* readers are left: what the request has flushed makes an access list.
LEMMA AclChecks ==
    ASSUME IInv, NEW t \in Txns, Grant(t) \/ Revoke(t)
    PROVE  IInv'
<1>1. tx[t] \in Tx /\ OwnInv(t) /\ tx[t].pc = "locked"
  BY DEF Grant, Revoke, Administers, Holds, IInv, TypeOK
<1>2. tx[t].object = None /\ lock = t
  BY <1>1, HolderFacts
<1>3. CASE Rollback(t)
  BY <1>2, <1>3, RollbackKeeps
<1>4. CASE ~ Rollback(t)
  <2>1. PICK e \in Entry :
          /\ tx' = [tx EXCEPT ![t].pc = "listed", ![t].entry = e]
          /\ UNCHANGED <<status, store, links, acl, trail, lock>>
          /\ IF tx[t].op = "grant"
             THEN acl = {} => e.type = "manage"
             ELSE e.type = "manage" /\ acl \ {e} # {} => \E f \in acl \ {e} : f.type = "manage"
    BY <1>4 DEF Grant, Revoke, FlushEntry, MayStartAcl, Administers, Holds
  <2> DEFINE x == [tx[t] EXCEPT !.pc = "listed", !.entry = e]
  <2>2. /\ x \in Tx /\ x.op = tx[t].op /\ x.actor = tx[t].actor /\ x.entry = e
        /\ x.object = tx[t].object /\ x.pc = "listed"
    BY <1>1 DEF Tx, Steps
  <2>3. tx' = [tx EXCEPT ![t] = x]
    BY <2>1
  <2> HIDE DEF x
  <2>4. tx'[t] = x
    BY <2>3 DEF IInv, TypeOK
  <2>5. Listable(IF tx[t].op = "grant" THEN acl \cup {e} ELSE acl \ {e})
    BY <2>1 DEF Listable, IInv, TypeOK, RestrictedHasManager
  <2>6. Listable(AclAfter(t))'
    <3>1. /\ acl' = acl /\ tx'[t].op = tx[t].op /\ tx'[t].entry = e
      BY <2>1, <2>2, <2>4
    <3> QED BY <2>5, <3>1 DEF AclAfter, Listable
  <2>7. OwnInv(t)'
    BY <1>1, <1>2, <2>1, <2>2, <2>4, <2>6 DEF OwnInv
  <2>8. lock' \in Txns \cup {None}
    BY <2>1 DEF IInv, TypeOK
  <2> QED BY <2>1, <2>2, <2>3, <2>7, <2>8, StayKeeps
<1> QED BY <1>3, <1>4

\* It still does when the request commits.
LEMMA AclKeeps ==
    ASSUME IInv, NEW t \in Txns, CommitAcl(t)
    PROVE  IInv'
<1>1. /\ OwnInv(t) /\ tx[t].pc = "listed" /\ acl' = AclAfter(t) /\ Finish(t)
      /\ UNCHANGED <<status, store, links, trail>>
  BY DEF CommitAcl, IInv
<1>2. tx[t].object = None /\ lock = t /\ Listable(AclAfter(t))
  BY <1>1, NoFile DEF OwnInv
<1>3. acl' \subseteq Entry /\ RestrictedHasManager'
  BY <1>1, <1>2 DEF Listable, RestrictedHasManager
<1>4. TrailOK' /\ links' \subseteq Targets
  BY <1>1 DEF IInv, TypeOK, TrailOK
<1> QED BY <1>1, <1>2, <1>3, <1>4, EndKeeps

\* A step of an upload: its file is the only one whose account changes.
LEMMA UploadKeeps ==
    ASSUME IInv, NEW t \in Txns, UNCHANGED <<status, links, acl, trail>>,
           tx' \in [Txns -> Tx], lock' \in Txns \cup {None}, OwnInv(t)',
           \A u \in Txns \ {t} : tx'[u] = tx[u] /\ (lock = u => lock' = u),
           versions' \subseteq Version, IsFiniteSet(versions'),
           files' \subseteq Objects, left' \subseteq Objects,
           \A f \in files' \ {None} :
              \/ f \in VersionObjects' \cup left' \cup {tx'[t].object}
              \/ f \in InFlight \ {tx[t].object}
    PROVE  IInv'
<1>1. TypeOK'
  BY DEF IInv, TypeOK
<1>2. \A u \in Txns : OwnInv(u)'
  BY OthersKeep
<1>3. FilesAccountedFor'
  <2>1. InFlight \ {tx[t].object} \subseteq InFlight'
    BY DEF InFlight
  <2>2. tx'[t].object # None => tx'[t].object \in InFlight'
    BY DEF InFlight
  <2>3. None \notin files'
    BY DocumentsAssumption
  <2> QED BY <2>1, <2>2, <2>3 DEF FilesAccountedFor
<1>4. RestrictedHasManager'
  BY DEF IInv, RestrictedHasManager
<1> QED BY <1>1, <1>2, <1>3, <1>4 DEF IInv

LEMMA SaveFileKeeps ==
    ASSUME IInv, NEW t \in Txns, SaveFile(t)
    PROVE  IInv'
<1>1. tx[t] \in Tx /\ OwnInv(t) /\ tx[t].pc = "locked" /\ MayManage(tx[t].actor)
  BY DEF SaveFile, Manages, Holds, IInv, TypeOK
<1>2. CASE Rollback(t)
  BY <1>1, <1>2, NoFile, RollbackKeeps
<1>3. CASE ~ Rollback(t)
  <2>1. PICK o \in Objects \ (files \cup VersionObjects) :
          /\ files' = files \cup {o}
          /\ tx' = [tx EXCEPT ![t].pc = "saved", ![t].object = o,
                              ![t].number = Cardinality(versions) + 1]
          /\ UNCHANGED <<status, versions, left, links, acl, trail, lock>>
    BY <1>3 DEF SaveFile
  <2>2. PICK k \in Nat : k = Cardinality(versions) + 1 /\ k > 0
    <3>1. Cardinality(versions) \in Nat
      BY FS_CardinalityType DEF IInv
    <3> QED BY <3>1
  <2> DEFINE x == [tx[t] EXCEPT !.pc = "saved", !.object = o, !.number = k]
  <2>3. /\ x \in Tx /\ x.op = tx[t].op /\ x.actor = tx[t].actor /\ x.object = o
        /\ x.pc = "saved" /\ x.number > 0
    BY <1>1, <2>2 DEF Tx, Steps
  <2>4. tx' = [tx EXCEPT ![t] = x]
    BY <2>1, <2>2
  <2> HIDE DEF x
  <2>5. tx'[t] = x /\ tx' \in [Txns -> Tx] /\ \A u \in Txns \ {t} : tx'[u] = tx[u]
    BY <2>3, <2>4 DEF IInv, TypeOK
  <2>6. OwnInv(t)'
    <3>1. lock = t /\ tx[t].actor \in Users
      BY <1>1 DEF OwnInv
    <3>2. lock' = lock /\ acl' = acl
      BY <2>1
    <3>3. MayManage(tx[t].actor)'
      BY <1>1, <2>3, <2>5, <3>2 DEF MayManage
    <3>4. /\ tx'[t].pc = "saved" /\ tx'[t].actor = tx[t].actor /\ tx'[t].object \in Objects
          /\ tx'[t].number > 0
      BY <2>3, <2>5
    <3> QED BY ONLY <3>1, <3>2, <3>3, <3>4 DEF OwnInv
  <2>7. /\ lock' \in Txns \cup {None} /\ versions' \subseteq Version
        /\ IsFiniteSet(versions') /\ files' \subseteq Objects /\ left' \subseteq Objects
    BY <2>1 DEF IInv, TypeOK
  <2>8. \A f \in files' : \/ f \in VersionObjects' \cup left' \cup {tx'[t].object}
                          \/ f \in InFlight \ {tx[t].object}
    <3>1. tx[t].object = None /\ None \notin InFlight
      BY <1>1, NoFile DEF InFlight
    <3> QED BY <2>1, <2>3, <2>5, <3>1 DEF IInv, FilesAccountedFor, VersionObjects
  <2> QED BY <2>1, <2>5, <2>6, <2>7, <2>8, UploadKeeps
<1> QED BY <1>2, <1>3

LEMMA SaveFailsKeeps ==
    ASSUME IInv, NEW t \in Txns, SaveFails(t)
    PROVE  IInv'
<1>1. /\ tx' \in [Txns -> Tx] /\ lock' \in Txns \cup {None}
      /\ tx'[t] = IdleTx /\ OwnInv(t)'
      /\ \A u \in Txns \ {t} : tx'[u] = tx[u] /\ (lock = u => lock' = u)
  BY FinishFacts DEF SaveFails, IInv
<1>2. PICK junk \in SUBSET Objects :
        /\ files' = files \cup junk /\ left' = left \cup junk
        /\ UNCHANGED <<status, versions, links, acl, trail>>
  BY DEF SaveFails
<1>3. /\ versions' \subseteq Version /\ IsFiniteSet(versions')
      /\ files' \subseteq Objects /\ left' \subseteq Objects
  BY <1>2 DEF IInv, TypeOK
<1>4. tx[t].object = None /\ None \notin InFlight
  BY NoFile DEF SaveFails, Manages, Holds, InFlight
<1>5. \A f \in files' : \/ f \in VersionObjects' \cup left' \cup {tx'[t].object}
                        \/ f \in InFlight \ {tx[t].object}
  BY <1>2, <1>4 DEF IInv, FilesAccountedFor, VersionObjects
<1> QED BY <1>1, <1>2, <1>3, <1>5, UploadKeeps

\* The new version is well formed; its file is the one of the upload.
LEMMA NewVersionFacts ==
    ASSUME IInv, NEW t \in Txns, tx[t].pc = "saved"
    PROVE  /\ NewVersion(t) \in Version
           /\ versions \cup {NewVersion(t)} \subseteq Version
           /\ IsFiniteSet(versions \cup {NewVersion(t)})
           /\ NewVersion(t).object = tx[t].object
           /\ NewVersion(t).number = tx[t].number
<1>1. tx[t] \in Tx /\ OwnInv(t)
  BY DEF IInv, TypeOK
<1>2. tx[t].number \in Nat \ {0} /\ tx[t].object \in Objects /\ tx[t].actor \in Users
  BY <1>1 DEF OwnInv, Tx
<1>3. NewVersion(t) \in Version
  BY <1>2 DEF NewVersion, Version
<1>4. IsFiniteSet(versions \cup {NewVersion(t)})
  BY FS_AddElement DEF IInv
<1> QED BY <1>3, <1>4 DEF IInv, TypeOK, NewVersion

LEMMA CommitVersionKeeps ==
    ASSUME IInv, NEW t \in Txns, CommitVersion(t)
    PROVE  IInv'
<1>1. /\ tx' \in [Txns -> Tx] /\ lock' \in Txns \cup {None}
      /\ tx'[t] = IdleTx /\ OwnInv(t)'
      /\ \A u \in Txns \ {t} : tx'[u] = tx[u] /\ (lock = u => lock' = u)
  BY FinishFacts DEF CommitVersion, IInv
<1>2. /\ tx[t].pc = "saved" /\ versions' = versions \cup {NewVersion(t)}
      /\ UNCHANGED <<status, files, left, links, acl, trail>>
  BY DEF CommitVersion
<1>3. /\ versions' \subseteq Version /\ IsFiniteSet(versions')
      /\ files' \subseteq Objects /\ left' \subseteq Objects
  BY <1>2, NewVersionFacts DEF IInv, TypeOK
<1>4. VersionObjects' = VersionObjects \cup {tx[t].object}
  BY <1>2, NewVersionFacts DEF VersionObjects
<1>5. \A f \in files' : \/ f \in VersionObjects' \cup left' \cup {tx'[t].object}
                        \/ f \in InFlight \ {tx[t].object}
  BY <1>2, <1>4 DEF IInv, FilesAccountedFor
<1> QED BY <1>1, <1>2, <1>3, <1>5, UploadKeeps

LEMMA FailVersionKeeps ==
    ASSUME IInv, NEW t \in Txns, FailVersion(t)
    PROVE  IInv'
<1> DEFINE x == [tx[t] EXCEPT !.pc = "discard"]
<1>1. tx[t] \in Tx /\ OwnInv(t) /\ tx[t].pc = "saved"
  BY DEF FailVersion, IInv, TypeOK
<1>2. /\ tx' = [tx EXCEPT ![t] = x] /\ Unlock(t)
      /\ versions' \in {versions, versions \cup {NewVersion(t)}}
      /\ UNCHANGED <<status, files, left, links, acl, trail>>
  BY DEF FailVersion
<1>3. x \in Tx /\ x.actor = tx[t].actor /\ x.object = tx[t].object /\ x.pc = "discard"
  BY <1>1 DEF Tx, Steps
<1> HIDE DEF x
<1>4. tx'[t] = x /\ tx' \in [Txns -> Tx] /\ \A u \in Txns \ {t} : tx'[u] = tx[u]
  BY <1>2, <1>3 DEF IInv, TypeOK
<1>5. lock' \in Txns \cup {None} /\ \A u \in Txns \ {t} : lock = u => lock' = u
  BY <1>2 DEF Unlock, IInv, TypeOK
<1>6. OwnInv(t)'
  BY <1>1, <1>3, <1>4 DEF OwnInv
<1>7. /\ versions' \subseteq Version /\ IsFiniteSet(versions')
      /\ files' \subseteq Objects /\ left' \subseteq Objects
  BY <1>1, <1>2, NewVersionFacts DEF IInv, TypeOK
<1>8. VersionObjects \subseteq VersionObjects'
  BY <1>2 DEF VersionObjects
<1>9. \A f \in files' : \/ f \in VersionObjects' \cup left' \cup {tx'[t].object}
                        \/ f \in InFlight \ {tx[t].object}
  BY <1>2, <1>3, <1>4, <1>8 DEF IInv, FilesAccountedFor
<1> QED BY <1>2, <1>4, <1>5, <1>6, <1>7, <1>9, UploadKeeps

LEMMA DiscardAndCrashKeep ==
    ASSUME IInv, NEW t \in Txns, DiscardFile(t) \/ Crash(t)
    PROVE  IInv'
<1>1. /\ tx' \in [Txns -> Tx] /\ lock' \in Txns \cup {None}
      /\ tx'[t] = IdleTx /\ OwnInv(t)'
      /\ \A u \in Txns \ {t} : tx'[u] = tx[u] /\ (lock = u => lock' = u)
  BY FinishFacts DEF DiscardFile, Crash, IInv
<1>2. /\ UNCHANGED <<status, versions, links, acl, trail>>
      /\ files' \subseteq files /\ left \subseteq left' /\ left' \subseteq left \cup files
      /\ tx[t].object \in files' \ VersionObjects => tx[t].object \in left'
  BY DEF DiscardFile, Crash
<1>3. /\ versions' \subseteq Version /\ IsFiniteSet(versions')
      /\ files' \subseteq Objects /\ left' \subseteq Objects
  BY <1>2 DEF IInv, TypeOK
<1>4. \A f \in files' : \/ f \in VersionObjects' \cup left' \cup {tx'[t].object}
                        \/ f \in InFlight \ {tx[t].object}
  BY <1>2 DEF IInv, FilesAccountedFor, VersionObjects
<1> QED BY <1>1, <1>2, <1>3, <1>4, UploadKeeps

LEMMA NextKeeps == IInv /\ [Next]_vars => IInv'
<1>1. ASSUME IInv, Next PROVE IInv'
  <2>1. PICK t \in Txns :
          \/ \E o \in Ops, u \in Users : Begin(t, o, u)
          \/ ReadDocument(t) \/ LockDocument(t)
          \/ Refuse(t) \/ CloseSession(t)
          \/ Archive(t) \/ Restore(t) \/ AddLink(t) \/ Unlink(t)
          \/ Grant(t) \/ Revoke(t) \/ CommitAcl(t)
          \/ SaveFile(t) \/ SaveFails(t)
          \/ CommitVersion(t) \/ FailVersion(t) \/ DiscardFile(t) \/ Crash(t)
    BY <1>1 DEF Next, Work, LoopTurn
  <2> QED
    BY <1>1, <2>1, BeginKeeps, ReadDocumentKeeps, LockDocumentKeeps, RefuseKeeps,
       StatusStepsKeep, LinksKeep, AclChecks, AclKeeps, SaveFileKeeps, SaveFailsKeeps,
       CommitVersionKeeps, FailVersionKeeps, DiscardAndCrashKeep
<1>2. ASSUME IInv, UNCHANGED vars PROVE IInv'
  BY <1>2 DEF vars, store, IInv, TypeOK, OwnInv, MayManage, AclAfter, FilesAccountedFor,
              RestrictedHasManager, VersionObjects, InFlight
<1> QED BY <1>1, <1>2

\* The invariant holds in every reachable state.
LEMMA Invariance == Spec => []IInv
BY InitIInv, NextKeeps, PTL DEF Spec

\* The types; and the audit log alternates between archived and restored and
\* tells the current status, however requests are repeated: TypeOK of Documents.
THEOREM TypeCorrect == Spec => []TypeOK
<1>1. IInv => TypeOK
  BY DEF IInv
<1> QED BY <1>1, Invariance, PTL

\* Every file belongs to a version or to a running upload, or a crash or a failed
\* write has left it: a create_document_version that fails cleans up.
THEOREM FilesAccounted == Spec => []FilesAccountedFor
<1>1. IInv => FilesAccountedFor
  BY DEF IInv
<1> QED BY <1>1, Invariance, PTL

\* However grant_document_permission and revoke_document_permission
\* interleave, a restricted document keeps a manager entry.
THEOREM RestrictedKeepsManager == Spec => []RestrictedHasManager
<1>1. IInv => RestrictedHasManager
  BY DEF IInv
<1> QED BY <1>1, Invariance, PTL

\* add_document_link and unlink_document change nothing of an archived document:
\* they look at the status under the lock that archive_document takes.
THEOREM LinksFrozen == Spec => ArchivedKeepsLinks
<1>1. ASSUME IInv, [Next]_vars, links' # links
      PROVE  status = "active"
  <2>1. PICK t \in Txns : AddLink(t) \/ Unlink(t)
    BY <1>1 DEF vars, store, Next, Work, LoopTurn, Begin, ReadDocument, LockDocument,
                Refuse, CloseSession, Archive, Restore, SetStatus, Grant, Revoke, FlushEntry, CommitAcl,
                SaveFile, SaveFails, CommitVersion, FailVersion, DiscardFile, Crash, Rollback
  <2>2. tx[t].pc = "locked" /\ tx[t].op # "upload" /\ tx[t].view = "active"
    BY <1>1, <2>1 DEF AddLink, Unlink, Manages, Holds, SetLinks, Rollback
  <2> QED BY <1>1, <2>1, <2>2, HolderFacts
<1>2. IInv /\ [Next]_vars => [links' # links => status = "active"]_vars
  BY <1>1
<1> QED BY <1>2, Invariance, PTL DEF Spec, ArchivedKeepsLinks

\* create_document_version checks the permission of its author again under the
\* lock, and whoever changes the access list needs that lock: a version is
\* committed only while its author may manage the document.
THEOREM UploadersManage == Spec => UploadsPermitted
<1>1. ASSUME IInv, [Next]_vars
      PROVE  \A v \in versions' \ versions : MayManage(v.by)
  <2>1. CASE UNCHANGED versions
    BY <2>1
  <2>2. CASE versions' # versions
    <3>1. PICK t \in Txns : CommitVersion(t) \/ FailVersion(t)
      BY <1>1, <2>2 DEF vars, store, Next, Work, LoopTurn, Begin, ReadDocument,
           LockDocument, Refuse, CloseSession, Archive, Restore, SetStatus, AddLink, Unlink,
           SetLinks, Grant, Revoke, FlushEntry, CommitAcl, SaveFile, SaveFails, DiscardFile, Crash, Rollback
    <3>2. tx[t].pc = "saved" /\ versions' \subseteq versions \cup {NewVersion(t)}
      BY <3>1 DEF CommitVersion, FailVersion
    <3>3. MayManage(NewVersion(t).by)
      BY <1>1, <3>2 DEF IInv, OwnInv, NewVersion
    <3> QED BY <3>2, <3>3
  <2> QED BY <2>1, <2>2
<1>2. IInv /\ [Next]_vars => [\A v \in versions' \ versions : MayManage(v.by)]_vars
  BY <1>1
<1> QED BY <1>2, Invariance, PTL DEF Spec, UploadsPermitted

-----------------------------------------------------------------------------
(* The store, when a COMMIT that raised has had no effect                  *)

\* Versions are numbered 1, 2, 3, ... and each has a file of its own.
Numbered ==
    /\ \A v, w \in versions : v.number = w.number \/ v.object = w.object => v = w
    /\ {v.number : v \in versions} = 1..Cardinality(versions)

\* An upload has a file that no version and no other upload has; the lock keeps
\* the number it has read the next one.
Uploading(t) ==
    /\ tx[t].pc \in {"saved", "discard"} => tx[t].object \in files \ VersionObjects
    /\ tx[t].pc = "saved" => tx[t].number = Cardinality(versions) + 1

FilesOwned ==
    \A t, u \in Txns : t # u /\ tx[t].object = tx[u].object => tx[t].object = None

StoreInv ==
    /\ Numbered
    /\ VersionsHaveFiles
    /\ \A t \in Txns : Uploading(t)
    /\ FilesOwned

LEMMA InitStoreInv == Init => StoreInv
<1> SUFFICES ASSUME Init PROVE StoreInv
  OBVIOUS
<1>1. Cardinality(versions) = 0
  BY FS_EmptySet DEF Init
<1>2. Numbered /\ VersionsHaveFiles
  BY <1>1 DEF Init, Numbered, VersionsHaveFiles, VersionObjects
<1>3. (\A t \in Txns : Uploading(t)) /\ FilesOwned
  BY DEF Init, Uploading, FilesOwned, IdleTx
<1> QED BY <1>2, <1>3 DEF StoreInv

\* A step that adds no version and removes no file, of a request that has no
\* file afterwards.
LEMMA StoreQuiet ==
    ASSUME StoreInv, NEW t \in Txns, versions' = versions, files \subseteq files',
           tx'[t].object = None, tx'[t].pc \notin {"saved", "discard"},
           \A u \in Txns \ {t} : tx'[u] = tx[u]
    PROVE  StoreInv'
<1>1. Numbered' /\ VersionsHaveFiles'
  BY DEF StoreInv, Numbered, VersionsHaveFiles, VersionObjects
<1>2. \A u \in Txns : Uploading(u)'
  BY DEF StoreInv, Uploading, VersionObjects
<1>3. FilesOwned'
  BY DEF StoreInv, FilesOwned
<1> QED BY <1>1, <1>2, <1>3 DEF StoreInv

LEMMA SaveFileStores ==
    ASSUME IInv, StoreInv, NEW t \in Txns, SaveFile(t), ~ Rollback(t)
    PROVE  StoreInv'
<1>1. PICK o \in Objects \ (files \cup VersionObjects) :
        /\ files' = files \cup {o}
        /\ tx' = [tx EXCEPT ![t].pc = "saved", ![t].object = o,
                            ![t].number = Cardinality(versions) + 1]
        /\ versions' = versions
  BY DEF SaveFile
<1>2. /\ tx'[t].pc = "saved" /\ tx'[t].object = o
      /\ tx'[t].number = Cardinality(versions) + 1
      /\ \A u \in Txns \ {t} : tx'[u] = tx[u]
  BY <1>1 DEF IInv, TypeOK, Tx
<1>3. Numbered' /\ VersionsHaveFiles' /\ VersionObjects' = VersionObjects
  BY <1>1 DEF StoreInv, Numbered, VersionsHaveFiles, VersionObjects
<1>4. ASSUME NEW u \in Txns PROVE Uploading(u)'
  <2>1. CASE u = t
    BY <1>1, <1>2, <1>3, <2>1 DEF Uploading
  <2>2. CASE u # t
    <3>1. tx'[u] = tx[u] /\ files \subseteq files'
      BY <1>1, <1>2, <2>2
    <3> QED BY <1>1, <1>3, <3>1 DEF StoreInv, Uploading
  <2> QED BY <2>1, <2>2
<1>5. ASSUME NEW u \in Txns \ {t} PROVE tx[u].object # o
  <2>1. CASE tx[u].pc \in {"saved", "discard"}
    BY <2>1 DEF StoreInv, Uploading
  <2>2. CASE tx[u].pc \notin {"saved", "discard"}
    BY <2>2, NoFile, DocumentsAssumption
  <2> QED BY <2>1, <2>2
<1>6. FilesOwned'
  BY <1>2, <1>5 DEF StoreInv, FilesOwned
<1> QED BY <1>3, <1>4, <1>6 DEF StoreInv

LEMMA CommitVersionStores ==
    ASSUME IInv, StoreInv, NEW t \in Txns, CommitVersion(t)
    PROVE  /\ StoreInv'
           /\ Cardinality(versions') = Cardinality(versions) + 1
           /\ NewVersion(t).number = Cardinality(versions) + 1
<1>1. /\ tx'[t] = IdleTx /\ \A u \in Txns \ {t} : tx'[u] = tx[u]
      /\ files' = files /\ tx[t].pc = "saved" /\ NumberFree(t)
  BY FinishFacts DEF CommitVersion, IInv
<1>2. PICK w \in Version : /\ w = NewVersion(t) /\ versions' = versions \cup {w}
                           /\ w.object = tx[t].object /\ w.number = tx[t].number
  BY <1>1, NewVersionFacts DEF CommitVersion
<1>3. PICK c \in Nat : c = Cardinality(versions)
  BY FS_CardinalityType DEF IInv
<1>4. /\ w.number = c + 1 /\ w.object \in files \ VersionObjects
      /\ w \notin versions /\ Cardinality(versions') = c + 1
  <2>1. w.number = c + 1 /\ w.object \in files \ VersionObjects
    BY <1>1, <1>2, <1>3 DEF StoreInv, Uploading
  <2>2. w \notin versions
    BY <1>1, <1>2 DEF NumberFree
  <2> QED BY <1>2, <1>3, <2>1, <2>2, FS_AddElement DEF IInv
<1>5. VersionObjects' = VersionObjects \cup {w.object}
  BY <1>2 DEF VersionObjects
<1>6. Numbered'
  <2>1. \A v \in versions : v.number # w.number /\ v.object # w.object
    BY <1>1, <1>2, <1>4 DEF NumberFree, VersionObjects
  <2>2. \A v, z \in versions' : v.number = z.number \/ v.object = z.object => v = z
    BY <1>2, <2>1 DEF StoreInv, Numbered
  <2>3. {v.number : v \in versions'} = {v.number : v \in versions} \cup {c + 1}
    BY <1>2, <1>4
  <2>4. {v.number : v \in versions} = 1..c
    BY <1>3 DEF StoreInv, Numbered
  <2>5. {v.number : v \in versions'} = 1..Cardinality(versions')
    BY <1>3, <1>4, <2>3, <2>4
  <2> QED BY <2>2, <2>5 DEF Numbered
<1>7. VersionsHaveFiles'
  BY <1>1, <1>4, <1>5 DEF StoreInv, VersionsHaveFiles
<1>8. ASSUME NEW u \in Txns PROVE Uploading(u)'
  <2>1. CASE u = t
    BY <1>1, <2>1 DEF Uploading, IdleTx
  <2>2. CASE u # t
    <3>1. tx[u].pc # "saved" /\ tx[u] = tx'[u]
      BY <1>1, <2>2 DEF IInv, OwnInv
    <3>2. tx[u].object # None => tx[u].object # w.object
      BY <1>2, <2>2 DEF StoreInv, FilesOwned
    <3>3. tx[u].pc = "discard" => tx[u].object # None
      BY DocumentsAssumption DEF IInv, OwnInv
    <3> QED BY <1>1, <1>5, <3>1, <3>2, <3>3 DEF StoreInv, Uploading
  <2> QED BY <2>1, <2>2
<1>9. FilesOwned'
  BY <1>1 DEF StoreInv, FilesOwned, IdleTx
<1> QED BY <1>2, <1>3, <1>4, <1>6, <1>7, <1>8, <1>9 DEF StoreInv

\* The transaction that failed has added no version: its file may go.
LEMMA FailVersionStores ==
    ASSUME LostCommits = FALSE, IInv, StoreInv, NEW t \in Txns, FailVersion(t)
    PROVE  StoreInv' /\ versions' = versions
<1>1. /\ versions' = versions /\ files' = files /\ tx[t].pc = "saved"
      /\ tx' = [tx EXCEPT ![t].pc = "discard"]
  BY DEF FailVersion, CommitTookEffect
<1>2. /\ tx'[t].pc = "discard" /\ \A u \in Txns \ {t} : tx'[u] = tx[u]
      /\ \A u \in Txns : tx'[u].object = tx[u].object
  BY <1>1 DEF IInv, TypeOK, Tx
<1>3. Numbered' /\ VersionsHaveFiles' /\ VersionObjects' = VersionObjects
  BY <1>1 DEF StoreInv, Numbered, VersionsHaveFiles, VersionObjects
<1>4. \A u \in Txns : Uploading(u)'
  BY <1>1, <1>2, <1>3 DEF StoreInv, Uploading
<1>5. FilesOwned'
  BY <1>2 DEF StoreInv, FilesOwned
<1> QED BY <1>1, <1>3, <1>4, <1>5 DEF StoreInv

\* No version has the file that is discarded, and no other upload.
LEMMA DiscardFileStores ==
    ASSUME IInv, StoreInv, NEW t \in Txns, DiscardFile(t)
    PROVE  StoreInv'
<1>1. /\ tx'[t] = IdleTx /\ \A u \in Txns \ {t} : tx'[u] = tx[u]
      /\ versions' = versions /\ files' = files \ {tx[t].object} /\ tx[t].pc = "discard"
  BY FinishFacts DEF DiscardFile, IInv
<1>2. tx[t].object \notin VersionObjects /\ VersionObjects' = VersionObjects
  BY <1>1 DEF StoreInv, Uploading, VersionObjects
<1>3. Numbered' /\ VersionsHaveFiles'
  BY <1>1, <1>2 DEF StoreInv, Numbered, VersionsHaveFiles
<1>4. ASSUME NEW u \in Txns PROVE Uploading(u)'
  <2>1. CASE u = t
    BY <1>1, <2>1 DEF Uploading, IdleTx
  <2>2. CASE u # t
    <3>1. tx[t].object # None
      BY <1>1, DocumentsAssumption DEF IInv, OwnInv
    <3>2. tx[u].object # tx[t].object
      BY <2>2, <3>1 DEF StoreInv, FilesOwned
    <3> QED BY <1>1, <1>2, <2>2, <3>2 DEF StoreInv, Uploading
  <2> QED BY <2>1, <2>2
<1>5. FilesOwned'
  BY <1>1 DEF StoreInv, FilesOwned, IdleTx
<1> QED BY <1>3, <1>4, <1>5 DEF StoreInv

LEMMA NextStores ==
    ASSUME LostCommits = FALSE, IInv, StoreInv, [Next]_vars
    PROVE  StoreInv'
<1>1. CASE UNCHANGED vars
  BY <1>1 DEF vars, store, StoreInv, Numbered, VersionsHaveFiles, VersionObjects, Uploading,
              FilesOwned
<1>2. ASSUME NEW t \in Txns,
             \/ SaveFile(t) /\ ~ Rollback(t)
             \/ CommitVersion(t) \/ FailVersion(t) \/ DiscardFile(t)
      PROVE  StoreInv'
  BY <1>2, SaveFileStores, CommitVersionStores, FailVersionStores, DiscardFileStores
<1>3. ASSUME NEW t \in Txns,
             \/ \E o \in Ops, u \in Users : Begin(t, o, u)
             \/ ReadDocument(t) \/ LockDocument(t)
             \/ Refuse(t) \/ CloseSession(t)
             \/ Archive(t) \/ Restore(t) \/ AddLink(t) \/ Unlink(t)
             \/ Grant(t) \/ Revoke(t) \/ CommitAcl(t)
             \/ SaveFails(t) \/ Rollback(t) \/ Crash(t)
      PROVE  StoreInv'
  <2>1. CASE Finish(t) /\ versions' = versions /\ files \subseteq files'
    <3>1. /\ tx'[t].object = None /\ tx'[t].pc = "idle"
          /\ \A u \in Txns \ {t} : tx'[u] = tx[u]
      BY <2>1, FinishFacts DEF IInv, IdleTx
    <3> QED BY <2>1, <3>1, StoreQuiet
  <2>2. CASE ~ (Finish(t) /\ versions' = versions /\ files \subseteq files')
    <3>1. \/ \E o \in Ops, u \in Users : Begin(t, o, u)
          \/ ReadDocument(t) \/ LockDocument(t) \/ Refuse(t)
          \/ Grant(t) \/ Revoke(t)
      BY <1>3, <2>2 DEF CloseSession, Archive, Restore, SetStatus, AddLink, Unlink, SetLinks,
           CommitAcl, SaveFails, Crash, Rollback, store
    <3>2. versions' = versions /\ files \subseteq files'
      BY <3>1 DEF Begin, ReadDocument, LockDocument, Refuse, Grant, Revoke, FlushEntry,
                  Rollback, store
    <3>3. tx[t].pc \notin {"saved", "discard"} /\ tx[t].object = None
      BY <3>1, NoFile DEF Begin, ReadDocument, LockDocument, Refuse, Refused, Grant, Revoke,
                          Administers, Holds
    <3>4. PICK x \in Tx : /\ tx' = [tx EXCEPT ![t] = x] /\ x.object = tx[t].object
                          /\ x.pc \in {"read", "lock", "locked", "refused", "listed"}
      <4>1. tx[t] \in Tx /\ status \in Statuses
        BY DEF IInv, TypeOK
      <4>2. CASE \E o \in Ops, u \in Users : Begin(t, o, u)
        <5>1. PICK o \in Ops, u \in Users : Begin(t, o, u)
          BY <4>2
        <5> DEFINE x == [tx[t] EXCEPT !.pc = IF o = "upload" THEN "read" ELSE "lock",
                                      !.op = o, !.actor = u]
        <5>2. x \in Tx /\ x.object = tx[t].object /\ x.pc \in {"read", "lock"}
          BY <4>1 DEF Tx, Steps
        <5>3. tx' = [tx EXCEPT ![t] = x]
          BY <5>1 DEF Begin
        <5> QED BY <5>2, <5>3
      <4>3. CASE ReadDocument(t)
        <5> DEFINE x == [tx[t] EXCEPT !.pc = "lock", !.view = status]
        <5>1. x \in Tx /\ x.object = tx[t].object /\ x.pc = "lock"
          BY <4>1 DEF Tx, Steps
        <5>2. tx' = [tx EXCEPT ![t] = x]
          BY <2>2, <4>3 DEF ReadDocument, Rollback, store
        <5> QED BY <5>1, <5>2
      <4>4. CASE LockDocument(t)
        <5> DEFINE x == [tx[t] EXCEPT !.pc = "locked",
                                      !.view = IF @ = "none" THEN status ELSE @]
        <5>1. x \in Tx /\ x.object = tx[t].object /\ x.pc = "locked"
          BY <4>1 DEF Tx, Steps
        <5>2. tx' = [tx EXCEPT ![t] = x]
          BY <4>4 DEF LockDocument
        <5> QED BY <5>1, <5>2
      <4>5. CASE Refuse(t)
        <5> DEFINE x == [tx[t] EXCEPT !.pc = "refused"]
        <5>1. x \in Tx /\ x.object = tx[t].object /\ x.pc = "refused"
          BY <4>1 DEF Tx, Steps
        <5>2. tx' = [tx EXCEPT ![t] = x]
          BY <2>2, <4>5 DEF Refuse, Rollback, store
        <5> QED BY <5>1, <5>2
      <4>6. CASE Grant(t) \/ Revoke(t)
        <5>1. PICK e \in Entry : tx' = [tx EXCEPT ![t].pc = "listed", ![t].entry = e]
          BY <2>2, <4>6 DEF Grant, Revoke, FlushEntry, Rollback, store
        <5> DEFINE x == [tx[t] EXCEPT !.pc = "listed", !.entry = e]
        <5>2. x \in Tx /\ x.object = tx[t].object /\ x.pc = "listed"
          BY <4>1 DEF Tx, Steps
        <5>3. tx' = [tx EXCEPT ![t] = x]
          BY <5>1
        <5> QED BY <5>2, <5>3
      <4> QED BY <3>1, <4>2, <4>3, <4>4, <4>5, <4>6
    <3>5. tx'[t] = x /\ \A u \in Txns \ {t} : tx'[u] = tx[u]
      BY <3>4 DEF IInv, TypeOK
    <3> QED BY <3>2, <3>3, <3>4, <3>5, StoreQuiet
  <2> QED BY <2>1, <2>2
<1> QED BY <1>1, <1>2, <1>3 DEF Next, Work, LoopTurn

LEMMA StoreInvariance == LostCommits = FALSE /\ Spec => []StoreInv
<1> SUFFICES ASSUME LostCommits = FALSE PROVE Spec => []StoreInv
  OBVIOUS
<1>1. IInv /\ StoreInv /\ [Next]_vars => StoreInv'
  BY NextStores
<1> QED BY <1>1, InitStoreInv, Invariance, PTL DEF Spec

\* When a COMMIT that raises has had no effect, the file of every version is
\* there, whatever uploads failed, crashed or discarded theirs.
THEOREM FilesKept == LostCommits = FALSE /\ Spec => []VersionsHaveFiles
<1>1. StoreInv => VersionsHaveFiles
  BY DEF StoreInv
<1> QED BY <1>1, StoreInvariance, PTL

-----------------------------------------------------------------------------
(* Refinement of DocumentVault *)

\* The content of a version is found by its number.
LEMMA ByNumber ==
    ASSUME NEW V, \A v, w \in V : v.number = w.number \/ v.object = w.object => v = w,
           NEW v \in V
    PROVE  (CHOOSE w \in V : w.number = v.number) = v
OBVIOUS

\* Every version is readable: the contents are a list of objects.
ContentsRead ==
    /\ \A v \in versions : ObjectOf(v.number) = v.object
    /\ \A n \in 1..Cardinality(versions) :
          \E v \in versions : v.number = n /\ v.object \in Objects /\ contents[n] = v.object
    /\ contents \in Seq(Objects) /\ Len(contents) = Cardinality(versions)

LEMMA ContentsFacts == IInv /\ StoreInv => ContentsRead
<1> SUFFICES ASSUME IInv, StoreInv PROVE ContentsRead
  OBVIOUS
<1>1. \A v \in versions : ObjectOf(v.number) = v.object
  BY ByNumber DEF StoreInv, Numbered, ObjectOf
<1>2. ASSUME NEW n \in 1..Cardinality(versions)
      PROVE  \E v \in versions : /\ v.number = n /\ v.object = ObjectOf(n)
                                 /\ v.object \in Objects /\ v.object \in files
  <2>1. PICK v \in versions : v.number = n
    BY DEF StoreInv, Numbered
  <2>2. ObjectOf(n) = v.object
    BY <1>1, <2>1
  <2> QED BY <2>1, <2>2 DEF StoreInv, VersionsHaveFiles, VersionObjects, IInv, TypeOK, Version
<1>3. Cardinality(versions) \in Nat
  BY FS_CardinalityType DEF IInv
<1>4. contents = [n \in 1..Cardinality(versions) |-> ObjectOf(n)]
  BY <1>2 DEF contents
<1>5. contents \in [1..Cardinality(versions) -> Objects]
  BY <1>2, <1>4
<1>6. contents \in Seq(Objects) /\ Len(contents) = Cardinality(versions)
  BY <1>3, <1>5, LenProperties
<1> QED BY <1>1, <1>2, <1>4, <1>6 DEF ContentsRead

\* CommitVersion is an upload to the vault.
LEMMA CommitUploads ==
    ASSUME IInv, StoreInv, ContentsRead, ContentsRead', NEW t \in Txns, CommitVersion(t)
    PROVE  Vault!Upload
<1>1. PICK w \in Version : /\ w = NewVersion(t) /\ versions' = versions \cup {w}
                           /\ w.number = Cardinality(versions) + 1
                           /\ Cardinality(versions') = Cardinality(versions) + 1
  BY CommitVersionStores, NewVersionFacts DEF CommitVersion
<1>2. PICK c \in Nat : c = Cardinality(versions)
  BY FS_CardinalityType DEF IInv
<1>3. PICK o \in Objects : o = w.object
  BY DEF Version
<1>4. PICK s \in Seq(Objects) : s = contents
  BY DEF ContentsRead
<1>5. PICK r \in Seq(Objects) : r = contents'
  BY DEF ContentsRead
<1>6. Len(s) = c /\ Len(r) = c + 1
  BY <1>1, <1>2, <1>4, <1>5 DEF ContentsRead
<1>7. \A n \in 1..c + 1 : \E v \in versions' : v.number = n /\ r[n] = v.object
  <2>1. \A n \in 1..Cardinality(versions') :
            \E v \in versions' : v.number = n /\ r[n] = v.object
    BY <1>5 DEF ContentsRead
  <2>2. Cardinality(versions') = c + 1
    BY <1>1, <1>2
  <2> QED BY <2>1, <2>2
<1>8. \A n \in 1..c : \E v \in versions : v.number = n /\ s[n] = v.object
  BY <1>1, <1>2, <1>4 DEF ContentsRead
<1>9. \A v, z \in versions' : v.number = z.number => v = z
  BY CommitVersionStores DEF StoreInv, Numbered
<1>10. \A n \in 1..c : r[n] = s[n]
  BY <1>1, <1>7, <1>8, <1>9
<1>11. r[c + 1] = o
  BY <1>1, <1>2, <1>3, <1>7, <1>9
<1>12. /\ Append(s, o) \in Seq(Objects) /\ Len(Append(s, o)) = c + 1
       /\ \A n \in 1..c : Append(s, o)[n] = s[n]
       /\ Append(s, o)[c + 1] = o
  BY <1>6, AppendProperties
<1>13. \A n \in 1..c + 1 : r[n] = Append(s, o)[n]
  BY <1>10, <1>11, <1>12
<1>14. r = Append(s, o)
  BY <1>6, <1>12, <1>13, SeqEqual
<1> QED BY <1>4, <1>5, <1>14 DEF Vault!Upload

\* Nothing else changes the contents.
LEMMA ContentsStay ==
    ASSUME ContentsRead, ContentsRead', versions' = versions
    PROVE  contents' = contents
<1>1. PICK s \in Seq(Objects) : s = contents
  BY DEF ContentsRead
<1>2. PICK r \in Seq(Objects) : r = contents'
  BY DEF ContentsRead
<1>3. Len(r) = Len(s) /\ Len(s) = Cardinality(versions)
  BY <1>1, <1>2 DEF ContentsRead
<1>4. \A n \in 1..Len(s) : s[n] = ObjectOf(n)
  BY <1>1, <1>3 DEF ContentsRead
<1>5. \A n \in 1..Len(s) : r[n] = ObjectOf(n)
  <2>1. \A n \in 1..Cardinality(versions) : \E v \in versions : v.number = n /\ r[n] = v.object
    BY <1>2 DEF ContentsRead
  <2> QED BY <1>3, <2>1 DEF ContentsRead
<1> QED BY <1>1, <1>2, <1>3, <1>4, <1>5, SeqEqual

\* When a COMMIT that raises has had no effect, the uploads of a document are
\* the list that DocumentVault promises: each create_document_version that
\* commits appends its file, and nothing ever changes or loses one.
THEOREM VaultImplemented == LostCommits = FALSE /\ Spec => ImplementsVault
<1> SUFFICES ASSUME LostCommits = FALSE PROVE Spec => ImplementsVault
  OBVIOUS
<1>1. Init => Vault!Init
  <2> SUFFICES ASSUME Init PROVE contents = <<>>
    BY DEF Vault!Init
  <2>1. Cardinality(versions) = 0
    BY FS_EmptySet DEF Init
  <2> QED BY <2>1 DEF contents
<1>2. IInv /\ StoreInv /\ ContentsRead /\ ContentsRead' /\ [Next]_vars => [Vault!Upload]_contents
  <2> SUFFICES ASSUME IInv, StoreInv, ContentsRead, ContentsRead', [Next]_vars
               PROVE  Vault!Upload \/ contents' = contents
    OBVIOUS
  <2>1. CASE versions' = versions
    BY <2>1, ContentsStay
  <2>2. CASE versions' # versions
    <3>1. PICK t \in Txns : CommitVersion(t) \/ FailVersion(t)
      BY <2>2 DEF vars, store, Next, Work, LoopTurn, Begin, ReadDocument,
         LockDocument, Refuse, CloseSession, Archive, Restore, SetStatus, AddLink, Unlink,
         SetLinks, Grant, Revoke, FlushEntry, CommitAcl, SaveFile, SaveFails, DiscardFile, Crash, Rollback
    <3>2. CommitVersion(t)
      BY <2>2, <3>1, FailVersionStores
    <3> QED BY <3>2, CommitUploads
  <2> QED BY <2>1, <2>2
<1> QED BY <1>1, <1>2, Invariance, StoreInvariance, ContentsFacts, PTL
        DEF Spec, ImplementsVault, Vault!Spec
=============================================================================
