-------------------------- MODULE OrgInvites_proofs --------------------------
(***************************************************************************)
(* Theorems about the member handlers of OrgMembership, and then about     *)
(* invitations beside them, for every set of users, roles, statuses, ids   *)
(* and handlers, and every management policy.                              *)
(***************************************************************************)
EXTENDS OrgInvites, FiniteSetTheorems, TLAPS

\* The guard "more than one active owner" means that one is left whichever
\* user the statement writes.
LEMMA AnotherOwner ==
    ASSUME NEW S, Cardinality(S) > 1, NEW u
    PROVE  \E v \in S : v # u
<1>1. SUFFICES ASSUME S \subseteq {u} PROVE FALSE
  OBVIOUS
<1>2. S = {} \/ S = {u}
  BY <1>1
<1>3. Cardinality({}) = 0
  BY FS_EmptySet
<1>4. Cardinality({u}) = 1
  BY FS_Singleton
<1> QED
  BY <1>2, <1>3, <1>4

\* The row of a new owner is a row, and a row is never NULL.
LEMMA OwnerRowType == OwnerRow \in Row /\ None \notin Row
BY ConstantsAssumption DEF OwnerRow, Row

-----------------------------------------------------------------------------
(* Type correctness *)

\* A new organization has one well-formed member row and no handlers.
LEMMA InitTypeOK == Init => TypeOK
BY OwnerRowType DEF Init, TypeOK, RequestState

\* Moving one handler to a well-formed state leaves all of them well formed.
LEMMA GotoType ==
    ASSUME TypeOK, NEW r \in Request, NEW s \in RequestState, Goto(r, s)
    PROVE  req' \in [Request -> RequestState]
BY DEF TypeOK, Goto

\* Writing a well-formed row, or none, leaves the table well formed.
LEMMA PutType ==
    ASSUME TypeOK, NEW u \in User, NEW row \in Row \cup {None}, Put(u, row)
    PROVE  membership' \in [User -> Row \cup {None}] /\ everOwner' \subseteq User
BY DEF TypeOK, Put

\* what the program counter says of the rest of a handler's state
LEMMA StateByPc ==
    ASSUME TypeOK, NEW r \in Request
    PROVE  /\ req[r].pc \in {"updateRead", "deleteRead"} => req[r] \in TargetRead
           /\ req[r].pc = "creating" => req[r] \in Creating
           /\ req[r].pc = "updating" => req[r] \in Updating
           /\ req[r].pc = "deleting" => req[r] \in Deleting
           /\ req[r].pc \in {"transferring", "promoted"} => req[r] \in Transferring
BY DEF TypeOK, RequestState, Idle, TargetRead, Creating, Updating, Deleting,
       Transferring

\* The history is of handlers.
LEMMA RememberType == Next => byOwner' \subseteq Request
BY DEF Next, Remember

\* Every statement of every handler keeps the types.
LEMMA NextTypeOK == TypeOK /\ [Next]_vars => TypeOK'
<1>1. SUFFICES ASSUME TypeOK, Next PROVE TypeOK'
  BY DEF TypeOK, vars
<1>2. PICK r \in Request :
          Begin(r) \/ Decide(r) \/ Write(r) \/ RecordOwner(r) \/ Fail(r)
  BY <1>1 DEF Next
<1>3. Idle \in RequestState
  BY DEF RequestState
<1> USE RememberType
<1>4. CASE Begin(r)
  <2>1. PICK actor \in Actor, target \in User :
           \/ \E role \in Role, status \in Status :
                 AuthorizeCreate(r, actor, target, role, status)
           \/ \E pc \in {"updateRead", "deleteRead"} : ReadTarget(r, pc, actor, target)
           \/ AuthorizeTransfer(r, actor, target)
    BY <1>4 DEF Begin
  <2>2. ASSUME NEW role \in Role, NEW status \in Status,
               AuthorizeCreate(r, actor, target, role, status)
        PROVE  TypeOK'
    <3>1. [pc |-> "creating", actor |-> actor, target |-> target,
           role |-> role, status |-> status] \in RequestState
      BY DEF RequestState, Creating
    <3> QED
      BY <1>1, <2>2, <3>1, GotoType DEF AuthorizeCreate, TypeOK
  <2>3. ASSUME NEW pc \in {"updateRead", "deleteRead"},
               ReadTarget(r, pc, actor, target)
        PROVE  TypeOK'
    <3>1. membership[target].role \in Role
      BY <1>1, <2>3 DEF ReadTarget, IsActive, TypeOK, Row
    <3>2. [pc |-> pc, actor |-> actor, target |-> target,
           seen |-> membership[target].role] \in RequestState
      BY <3>1 DEF RequestState, TargetRead
    <3> QED
      BY <1>1, <2>3, <3>2, GotoType DEF ReadTarget, TypeOK
  <2>4. ASSUME AuthorizeTransfer(r, actor, target) PROVE TypeOK'
    <3>1. [pc |-> "transferring", actor |-> actor, target |-> target] \in RequestState
      BY DEF RequestState, Transferring
    <3> QED
      BY <1>1, <2>4, <3>1, GotoType DEF AuthorizeTransfer, TypeOK
  <2> QED
    BY <2>1, <2>2, <2>3, <2>4
<1>5. CASE Decide(r)
  <2>1. ASSUME NEW role \in Role \cup {None}, NEW status \in Status \cup {None},
               AuthorizeUpdate(r, role, status)
        PROVE  TypeOK'
    <3>1. [pc |-> "updating", actor |-> req[r].actor, target |-> req[r].target,
           role |-> role, status |-> status] \in RequestState
      BY <1>1, <2>1, StateByPc DEF AuthorizeUpdate, RequestState, TargetRead, Updating
    <3> QED
      BY <1>1, <2>1, <3>1, GotoType DEF AuthorizeUpdate, TypeOK
  <2>2. ASSUME AuthorizeDelete(r) PROVE TypeOK'
    <3>1. [pc |-> "deleting", actor |-> req[r].actor, target |-> req[r].target]
             \in RequestState
      BY <1>1, <2>2, StateByPc DEF AuthorizeDelete, RequestState, TargetRead, Deleting
    <3> QED
      BY <1>1, <2>2, <3>1, GotoType DEF AuthorizeDelete, TypeOK
  <2> QED
    BY <1>5, <2>1, <2>2 DEF Decide
<1>6. CASE Write(r)
  <2>1. ASSUME InsertMember(r) PROVE TypeOK'
    <3>1. /\ req[r].target \in User
          /\ [role |-> req[r].role, status |-> req[r].status] \in Row
      BY <1>1, <2>1, StateByPc DEF InsertMember, Creating, Row
    <3> QED
      BY <1>1, <1>3, <2>1, <3>1, GotoType, PutType DEF InsertMember, TypeOK
  <2>2. ASSUME UpdateMember(r) PROVE TypeOK'
    <3>1. req[r] \in Updating
      BY <1>1, <2>2, StateByPc DEF UpdateMember
    <3>2. membership[req[r].target] \in Row
      BY <1>1, <2>2, <3>1 DEF UpdateMember, Updating, TypeOK
    <3>3. Coalesced(req[r]) \in Row
      BY <3>1, <3>2 DEF Coalesced, Updating, Row
    <3> QED
      BY <1>1, <1>3, <2>2, <3>1, <3>3, GotoType, PutType
         DEF UpdateMember, Updating, TypeOK
  <2>3. ASSUME DeleteMember(r) PROVE TypeOK'
    <3>1. req[r] \in Deleting
      BY <1>1, <2>3, StateByPc DEF DeleteMember
    <3> QED
      BY <1>1, <1>3, <2>3, <3>1, GotoType, PutType DEF DeleteMember, Deleting, TypeOK
  <2>4. ASSUME PromoteOwner(r) PROVE TypeOK'
    <3>1. req[r] \in Transferring
      BY <1>1, <2>4, StateByPc DEF PromoteOwner
    <3>2. [req[r] EXCEPT !.pc = "promoted"] \in RequestState
      BY <3>1 DEF RequestState, Transferring
    <3> QED
      BY <1>1, <2>4, <3>1, <3>2, GotoType, PutType, OwnerRowType
         DEF PromoteOwner, Transferring, TypeOK
  <2> QED
    BY <1>6, <2>1, <2>2, <2>3, <2>4 DEF Write
<1>7. CASE RecordOwner(r)
  <2>1. req[r] \in Transferring
    BY <1>1, <1>7, StateByPc DEF RecordOwner
  <2> QED
    BY <1>1, <1>3, <1>7, <2>1, GotoType DEF RecordOwner, Transferring, TypeOK
<1>8. CASE Fail(r)
  BY <1>1, <1>3, <1>8, GotoType DEF Fail, TypeOK
<1> QED
  BY <1>2, <1>4, <1>5, <1>6, <1>7, <1>8

\* Every variable keeps its type: in particular a handler never carries a
\* write whose fields were not decided before it.
THEOREM TypeCorrect == Spec => []TypeOK
BY InitTypeOK, NextTypeOK, PTL DEF Spec

-----------------------------------------------------------------------------
(* The organization keeps an active owner *)

\* A single-row write keeps an active owner when it writes one, or when some
\* other user is one.
LEMMA PutKeepsOwner ==
    ASSUME TypeOK, NEW u \in User, NEW row, Put(u, row),
           row = OwnerRow \/ \E v \in ActiveOwners : v # u
    PROVE  ActiveOwnerExists'
BY DEF TypeOK, Put, ActiveOwners, ActiveOwnerExists

\* No statement takes the last active owner away.
LEMMA NextOwnerExists ==
    TypeOK /\ ActiveOwnerExists /\ [Next]_vars => ActiveOwnerExists'
<1>1. SUFFICES ASSUME TypeOK, ActiveOwnerExists, Next,
                      membership' # membership
               PROVE  ActiveOwnerExists'
  BY DEF ActiveOwnerExists, ActiveOwners, vars
<1>2. PICK r \in Request : Write(r)
  BY <1>1 DEF Next, Begin, Decide, RecordOwner, Fail, AuthorizeCreate, ReadTarget,
              AuthorizeTransfer, AuthorizeUpdate, AuthorizeDelete
<1>3. CASE InsertMember(r)
  <2>1. req[r].target \in User
    BY <1>1, <1>3, StateByPc DEF InsertMember, Creating
  <2>2. \E v \in ActiveOwners : v # req[r].target
    BY <1>1, <1>3, OwnerRowType DEF InsertMember, ActiveOwnerExists, ActiveOwners
  <2> QED
    BY <1>1, <1>3, <2>1, <2>2, PutKeepsOwner DEF InsertMember
<1>4. CASE UpdateMember(r)
  <2>1. req[r].target \in User
    BY <1>1, <1>4, StateByPc DEF UpdateMember, Updating
  <2>2. CASE membership[req[r].target].role # Owner
    <3>1. \E v \in ActiveOwners : v # req[r].target
      BY <1>1, <2>2 DEF ActiveOwnerExists, ActiveOwners, OwnerRow
    <3> QED
      BY <1>1, <1>4, <2>1, <3>1, PutKeepsOwner DEF UpdateMember
  <2>3. CASE Coalesced(req[r]) = OwnerRow
    BY <1>1, <1>4, <2>1, <2>3, PutKeepsOwner DEF UpdateMember
  <2>4. CASE SeveralOwners
    BY <1>1, <1>4, <2>1, <2>4, PutKeepsOwner, AnotherOwner DEF UpdateMember, SeveralOwners
  <2> QED
    BY <1>4, <2>2, <2>3, <2>4 DEF UpdateMember
<1>5. CASE DeleteMember(r)
  <2>1. req[r].target \in User
    BY <1>1, <1>5, StateByPc DEF DeleteMember, Deleting
  <2>2. \E v \in ActiveOwners : v # req[r].target
    BY <1>1, <1>5, AnotherOwner
       DEF DeleteMember, SeveralOwners, ActiveOwnerExists, ActiveOwners, OwnerRow
  <2> QED
    BY <1>1, <1>5, <2>1, <2>2, PutKeepsOwner DEF DeleteMember
<1>6. CASE PromoteOwner(r)
  <2>1. req[r].target \in User
    BY <1>1, <1>6, StateByPc DEF PromoteOwner, Transferring
  <2> QED
    BY <1>1, <1>6, <2>1, PutKeepsOwner DEF PromoteOwner
<1> QED
  BY <1>2, <1>3, <1>4, <1>5, <1>6 DEF Write

\* Member requests and transfers, however they interleave and wherever they
\* stop, leave the organization an active owner.
THEOREM OwnerAlwaysExists == Spec => []ActiveOwnerExists
<1>1. Init => ActiveOwnerExists
  BY DEF Init, ActiveOwnerExists, ActiveOwners
<1> QED
  BY <1>1, NextOwnerExists, TypeCorrect, PTL DEF Spec

-----------------------------------------------------------------------------
(* History: who has been an owner *)

Step(r) == Begin(r) \/ Decide(r) \/ Write(r) \/ RecordOwner(r) \/ Fail(r)

\* A step belongs to one handler and leaves the others where they are.
LEMMA OneHandler ==
    ASSUME TypeOK, NEW q \in Request, Step(q), NEW r \in Request, req'[r] # req[r]
    PROVE  r = q
<1>1. PICK s : Goto(q, s)
  BY Zenon DEF Step, Begin, Decide, Write, RecordOwner, Fail, AuthorizeCreate,
     ReadTarget, AuthorizeTransfer, AuthorizeUpdate, AuthorizeDelete, InsertMember,
     UpdateMember, DeleteMember, PromoteOwner
<1> QED
  BY <1>1 DEF TypeOK, Goto

\* Only the write to the organization's database leads to "promoted".
LEMMA PromotedByPromote ==
    ASSUME TypeOK, NEW r \in Request, Step(r), req'[r].pc = "promoted"
    PROVE  PromoteOwner(r)
<1>1. \A s : Goto(r, s) => req'[r] = s
  BY DEF TypeOK, Goto
<1>2. ~Begin(r)
  <2>1. ASSUME NEW actor, NEW target, NEW role, NEW status,
               AuthorizeCreate(r, actor, target, role, status)
        PROVE  FALSE
    BY <1>1, <2>1 DEF AuthorizeCreate
  <2>2. ASSUME NEW actor, NEW target, NEW pc \in {"updateRead", "deleteRead"},
               ReadTarget(r, pc, actor, target)
        PROVE  FALSE
    BY <1>1, <2>2 DEF ReadTarget
  <2>3. ASSUME NEW actor, NEW target, AuthorizeTransfer(r, actor, target)
        PROVE  FALSE
    BY <1>1, <2>3 DEF AuthorizeTransfer
  <2> QED
    BY <2>1, <2>2, <2>3 DEF Begin
<1>3. ~Decide(r)
  <2>1. ASSUME NEW role, NEW status, AuthorizeUpdate(r, role, status) PROVE FALSE
    BY <1>1, <2>1 DEF AuthorizeUpdate
  <2>2. ASSUME AuthorizeDelete(r) PROVE FALSE
    BY <1>1, <2>2 DEF AuthorizeDelete
  <2> QED
    BY <2>1, <2>2 DEF Decide
<1>4. ~RecordOwner(r) /\ ~Fail(r)
  BY <1>1 DEF RecordOwner, Fail, Idle
<1> QED
  BY <1>1, <1>2, <1>3, <1>4 DEF Step, Write, InsertMember, UpdateMember, DeleteMember, Idle

\* Past owners are not forgotten, and every new owner is recorded.
LEMMA HistoryGrows ==
    TypeOK /\ [Next]_vars => /\ everOwner \subseteq everOwner'
                            /\ ActiveOwners' \subseteq ActiveOwners \cup everOwner'
<1>1. SUFFICES ASSUME TypeOK, Next
               PROVE  /\ everOwner \subseteq everOwner'
                      /\ ActiveOwners' \subseteq ActiveOwners \cup everOwner'
  BY DEF vars, ActiveOwners
<1>2. ASSUME NEW u, NEW row, Put(u, row)
      PROVE  /\ everOwner \subseteq everOwner'
             /\ ActiveOwners' \subseteq ActiveOwners \cup everOwner'
  BY <1>1, <1>2 DEF TypeOK, Put, ActiveOwners
<1>3. CASE \E r \in Request : Write(r)
  BY <1>2, <1>3 DEF Write, InsertMember, UpdateMember, DeleteMember, PromoteOwner
<1>4. CASE ~\E r \in Request : Write(r)
  <2>1. UNCHANGED <<membership, everOwner>>
    BY <1>1, <1>4 DEF Next, Begin, Decide, RecordOwner, Fail, AuthorizeCreate,
                  ReadTarget, AuthorizeTransfer, AuthorizeUpdate, AuthorizeDelete
  <2> QED
    BY <2>1 DEF ActiveOwners
<1> QED
  BY <1>3, <1>4

\* The creator of the organization is its owner in both databases.
LEMMA InitHistory == Init => HistoryInv /\ RecordedOwnerWasOwner
BY OwnerRowType DEF Init, HistoryInv, RecordedOwnerWasOwner, ActiveOwners, Idle

\* Every statement keeps the order of promotion and recording.
LEMMA NextHistory ==
    TypeOK /\ HistoryInv /\ RecordedOwnerWasOwner /\ [Next]_vars
        => HistoryInv' /\ RecordedOwnerWasOwner'
<1>1. SUFFICES ASSUME TypeOK, HistoryInv, RecordedOwnerWasOwner, [Next]_vars
               PROVE  HistoryInv' /\ RecordedOwnerWasOwner'
  OBVIOUS
<1>2. everOwner \subseteq everOwner' /\ ActiveOwners' \subseteq everOwner'
  BY <1>1, HistoryGrows DEF HistoryInv
<1>3. ASSUME NEW r \in Request, req'[r].pc = "promoted"
      PROVE  req'[r].target \in everOwner'
  <2>1. CASE req'[r] = req[r]
    BY <1>1, <1>2, <1>3, <2>1 DEF HistoryInv
  <2>2. CASE req'[r] # req[r]
    <3>1. PromoteOwner(r)
      BY <1>1, <1>3, <2>2, OneHandler, PromotedByPromote DEF Next, Step, vars
    <3>2. req[r] \in Transferring
      BY <1>1, <3>1, StateByPc DEF PromoteOwner
    <3> QED
      BY <1>1, <3>1, <3>2 DEF PromoteOwner, Put, Goto, TypeOK, Transferring
  <2> QED
    BY <2>1, <2>2
<1>4. RecordedOwnerWasOwner'
  <2>1. CASE ownerId' = ownerId
    BY <1>1, <1>2, <2>1 DEF RecordedOwnerWasOwner
  <2>2. CASE ownerId' # ownerId
    <3>1. PICK r \in Request : RecordOwner(r)
      BY <1>1, <2>2
         DEF Next, vars, Begin, Decide, Write, Fail, AuthorizeCreate,
             ReadTarget, AuthorizeTransfer, AuthorizeUpdate, AuthorizeDelete,
             InsertMember, UpdateMember, DeleteMember, PromoteOwner
    <3> QED
      BY <1>1, <1>2, <3>1 DEF RecordOwner, HistoryInv, RecordedOwnerWasOwner
  <2> QED
    BY <2>1, <2>2
<1> QED
  BY <1>2, <1>3, <1>4 DEF HistoryInv

\* The primary database never names an owner the organization's own database
\* has not had: a transfer promotes before it records.
THEOREM OwnerPromotedBeforeRecorded == Spec => []RecordedOwnerWasOwner
BY InitHistory, NextHistory, TypeCorrect, PTL DEF Spec

-----------------------------------------------------------------------------
(* Only the service makes owners, and who is one during the request *)

\* The permission for the owner role is held by active owners only.
LEMMA OwnerAuthority ==
    ASSUME TypeOK, OwnersManageOwners, NEW actor \in Actor
    PROVE  /\ Allows(actor, "invite", Owner) => actor \in ActiveOwners \cup {Service}
           /\ Allows(actor, "assignRole", Owner) => actor \in ActiveOwners \cup {Service}
           /\ (actor # Service =>
                   /\ IsActive(actor)
                   /\ Management[membership[actor].role].transferOwnership)
              => actor \in ActiveOwners \cup {Service}
<1>1. CASE actor = Service
  BY <1>1
<1>2. CASE actor # Service
  <2>1. actor \in User
    BY <1>2 DEF Actor
  <2>2. SUFFICES ASSUME IsActive(actor), membership[actor].role = Owner
                 PROVE  actor \in ActiveOwners
    BY <1>2, <2>1 DEF Allows, OwnersManageOwners, IsActive, TypeOK, Row
  <2>3. membership[actor] = OwnerRow
    BY <2>1, <2>2, OwnerRowType DEF IsActive, TypeOK, Row, OwnerRow
  <2> QED
    BY <2>1, <2>3 DEF ActiveOwners
<1> QED
  BY <1>1, <1>2

\* A handler in flight is remembered from the moment its actor is an owner.
LEMMA Remembered ==
    ASSUME Remember, NEW r \in Request, req'[r] # Idle,
           \/ r \in byOwner \/ req'[r].actor = Service
           \/ req'[r].actor \in ActiveOwners /\ ActiveOwners' = ActiveOwners
    PROVE  r \in byOwner' \/ req'[r].actor = Service
BY DEF Remember

\* Every statement that leads to a pending owner write is an owner's.
LEMMA NextAuthority ==
    ASSUME OwnersManageOwners
    PROVE  TypeOK /\ AuthorityInv /\ [Next]_vars => AuthorityInv'
<1>1. SUFFICES ASSUME TypeOK, AuthorityInv, Next,
                      NEW r \in Request,
                      \/ req'[r].pc \in {"creating", "updating"} /\ req'[r].role = Owner
                      \/ req'[r].pc \in {"transferring", "promoted"}
               PROVE  r \in byOwner' \/ req'[r].actor = Service
  BY DEF AuthorityInv, vars
<1>2. Remember /\ req'[r] # Idle
  BY <1>1 DEF Next, Idle
<1>3. CASE req'[r] = req[r]
  BY <1>1, <1>2, <1>3, Remembered DEF AuthorityInv
<1>4. CASE req'[r] # req[r]
  <2>1. Step(r)
    BY <1>1, <1>4, OneHandler DEF Next, Step
  <2>2. \A s : Goto(r, s) => req'[r] = s
    BY <1>1 DEF TypeOK, Goto
  <2>3. ASSUME NEW actor \in Actor, NEW target, NEW role, NEW status,
               AuthorizeCreate(r, actor, target, role, status)
        PROVE  r \in byOwner' \/ req'[r].actor = Service
    <3>1. /\ req'[r] = [pc |-> "creating", actor |-> actor, target |-> target,
                        role |-> role, status |-> status]
          /\ Allows(actor, "invite", role) /\ membership' = membership
      BY <2>2, <2>3 DEF AuthorizeCreate
    <3>2. req'[r].actor \in ActiveOwners \cup {Service} /\ ActiveOwners' = ActiveOwners
      BY <1>1, <3>1, OwnerAuthority DEF ActiveOwners
    <3> QED
      BY <1>2, <3>2, Remembered
  <2>4. ASSUME NEW pc \in {"updateRead", "deleteRead"}, NEW actor, NEW target,
               ReadTarget(r, pc, actor, target)
        PROVE  FALSE
    BY <1>1, <2>2, <2>4 DEF ReadTarget
  <2>5. ASSUME NEW actor \in Actor, NEW target, AuthorizeTransfer(r, actor, target)
        PROVE  r \in byOwner' \/ req'[r].actor = Service
    <3>1. /\ req'[r].actor = actor /\ membership' = membership
          /\ actor # Service =>
                /\ IsActive(actor)
                /\ Management[membership[actor].role].transferOwnership
      BY <2>2, <2>5 DEF AuthorizeTransfer
    <3>2. req'[r].actor \in ActiveOwners \cup {Service} /\ ActiveOwners' = ActiveOwners
      BY <1>1, <3>1, OwnerAuthority DEF ActiveOwners
    <3> QED
      BY <1>2, <3>2, Remembered
  <2>6. ASSUME NEW role \in Role \cup {None}, NEW status, AuthorizeUpdate(r, role, status)
        PROVE  r \in byOwner' \/ req'[r].actor = Service
    <3>1. req[r].actor \in Actor
      BY <1>1, <2>6, StateByPc DEF AuthorizeUpdate, TargetRead
    <3>2. /\ req'[r] = [pc |-> "updating", actor |-> req[r].actor,
                        target |-> req[r].target, role |-> role, status |-> status]
          /\ membership' = membership
      BY <2>2, <2>6 DEF AuthorizeUpdate
    <3>3. role = Owner /\ Owner # None
      BY <1>1, <3>2, ConstantsAssumption
    <3>4. Allows(req[r].actor, "assignRole", Owner)
      BY <2>6, <3>3 DEF AuthorizeUpdate
    <3>5. req'[r].actor \in ActiveOwners \cup {Service} /\ ActiveOwners' = ActiveOwners
      BY <1>1, <3>1, <3>2, <3>4, OwnerAuthority DEF ActiveOwners
    <3> QED
      BY <1>2, <3>5, Remembered
  <2>7. ASSUME AuthorizeDelete(r) PROVE FALSE
    BY <1>1, <2>2, <2>7 DEF AuthorizeDelete
  <2>8. ASSUME PromoteOwner(r)
        PROVE  r \in byOwner' \/ req'[r].actor = Service
    <3>1. req[r] \in Transferring
      BY <1>1, <2>8, StateByPc DEF PromoteOwner
    <3>2. req'[r].actor = req[r].actor
      BY <2>2, <2>8, <3>1 DEF PromoteOwner, Transferring
    <3>3. r \in byOwner \/ req[r].actor = Service
      BY <1>1, <2>8 DEF PromoteOwner, AuthorityInv
    <3> QED
      BY <1>2, <3>2, <3>3, Remembered
  <2>9. ~Goto(r, Idle)
    BY <1>2, <2>2
  <2> QED
    BY <2>1, <2>3, <2>4, <2>5, <2>6, <2>7, <2>8, <2>9
       DEF Step, Begin, Decide, Write, RecordOwner, Fail, InsertMember, UpdateMember,
           DeleteMember
<1> QED
  BY <1>3, <1>4

\* So it is in every reachable state.
LEMMA AuthorityInvariant ==
    ASSUME OwnersManageOwners
    PROVE  Spec => [](TypeOK /\ AuthorityInv)
<1>1. Init => AuthorityInv
  BY DEF Init, AuthorityInv, Idle
<1> QED
  BY <1>1, NextAuthority, TypeCorrect, PTL DEF Spec

\* A row gets the owner role from the handler whose write it is, and that
\* handler was authorized when its actor was an owner.
LEMMA OwnerRowsByOwners ==
    ASSUME TypeOK, AuthorityInv, [Next]_vars, NEW u \in User,
           HasOwnerRole(u)', ~HasOwnerRole(u)
    PROVE  \E r \in Request : /\ req'[r] # req[r]
                              /\ r \in byOwner \/ req[r].actor = Service
<1>1. membership' # membership
  BY DEF HasOwnerRole
<1>2. PICK r \in Request : Write(r)
  BY <1>1 DEF Next, vars, Begin, Decide, RecordOwner, Fail, AuthorizeCreate, ReadTarget,
              AuthorizeTransfer, AuthorizeUpdate, AuthorizeDelete
<1>3. \A s : Goto(r, s) => req'[r] = s
  BY DEF TypeOK, Goto
<1>4. \A t, row : Put(t, row) => membership'[u] = IF u = t THEN row ELSE membership[u]
  BY DEF TypeOK, Put
<1>5. CASE InsertMember(r)
  <2>1. req[r].role = Owner
    BY <1>4, <1>5 DEF InsertMember, HasOwnerRole
  <2> QED
    BY <1>3, <1>5, <2>1 DEF InsertMember, AuthorityInv, Idle
<1>6. CASE UpdateMember(r)
  <2>1. req[r].role = Owner
    BY <1>4, <1>6 DEF UpdateMember, Coalesced, HasOwnerRole
  <2> QED
    BY <1>3, <1>6, <2>1 DEF UpdateMember, AuthorityInv, Idle
<1>7. CASE DeleteMember(r)
  BY <1>4, <1>7 DEF DeleteMember, HasOwnerRole
<1>8. CASE PromoteOwner(r)
  <2>1. req[r] \in Transferring
    BY <1>8, StateByPc DEF PromoteOwner
  <2>2. req'[r].pc = "promoted"
    BY <1>3, <1>8, <2>1 DEF PromoteOwner, Transferring
  <2> QED
    BY <1>8, <2>2 DEF PromoteOwner, AuthorityInv
<1> QED
  BY <1>2, <1>5, <1>6, <1>7, <1>8 DEF Write

\* When the policies let only owners manage owners, no interleaving of member
\* requests and transfers lets anybody make one who was not an active owner during
\* the request that does.
THEOREM NoEscalation ==
    ASSUME OwnersManageOwners
    PROVE  Spec => OwnersMadeByOwners
<1>1. TypeOK /\ AuthorityInv /\ [Next]_vars =>
        [\A u \in User : HasOwnerRole(u)' /\ ~HasOwnerRole(u) =>
            \E r \in Request : /\ req'[r] # req[r]
                               /\ r \in byOwner \/ req[r].actor = Service]_vars
  BY OwnerRowsByOwners
<1> QED
  BY <1>1, AuthorityInvariant, PTL DEF Spec, OwnersMadeByOwners

-----------------------------------------------------------------------------
(* A revoked actor's pending writes *)

\* Whoever's handler it is, the statement that writes looks at the actor again.
LEMMA WritesLookAgain ==
    ASSUME TypeOK, [Next]_vars, NEW r \in Request,
           req[r].pc \in {"creating", "updating", "deleting"},
           req'[r] # req[r], membership' # membership
    PROVE  ActorStillActive(req[r].actor)
<1>1. PICK q \in Request : Write(q)
  BY DEF Next, vars, Begin, Decide, RecordOwner, Fail, AuthorizeCreate, ReadTarget,
     AuthorizeTransfer, AuthorizeUpdate, AuthorizeDelete
<1>2. q = r
  BY <1>1, OneHandler DEF Step
<1> QED
  BY <1>1, <1>2 DEF Write, InsertMember, UpdateMember, DeleteMember, PromoteOwner

\* A member who is removed or suspended after the permission check of their own
\* request changes no row with it.
THEOREM RevokedActorIsRefused == Spec => RevokedActorWritesNothing
<1>1. TypeOK /\ [Next]_vars =>
        [\A r \in Request :
            /\ req[r].pc \in {"creating", "updating", "deleting"}
            /\ req'[r] # req[r]
            /\ membership' # membership
            => ActorStillActive(req[r].actor)]_vars
  BY WritesLookAgain
<1> QED
  BY <1>1, TypeCorrect, PTL DEF Spec, RevokedActorWritesNothing


-----------------------------------------------------------------------------
(* Invitations beside the member handlers *)

InviteState == {Idle} \cup Inviting \cup Mailed \cup InviteRead \cup Revoking

\* A letter is handed over before its row is committed.
MailInv ==
    \A r \in Request : ireq[r].pc = "mailed" =>
        [id |-> ireq[r].id, to |-> ireq[r].to] \in mailed

\* A pending invitation to the owner role was authorized by an owner.
InviterInv ==
    \A r \in Request :
        ireq[r].pc \in {"inviting", "mailed"} /\ ireq[r].role = Owner =>
            ireq[r].actor \in everOwner \cup {Service}

InvitesInv ==
    /\ InviteTypeOK
    /\ HistoryInv /\ RecordedOwnerWasOwner
    /\ MailInv /\ StoredInvitesWereMailed

-----------------------------------------------------------------------------
(* One handler of invitations *)

\* Moving one handler to a well-formed state leaves all of them well formed.
LEMMA IGotoMoves ==
    ASSUME InviteTypeOK, NEW r \in Request, NEW state \in InviteState, IGoto(r, state)
    PROVE  /\ ireq' \in [Request -> InviteState]
           /\ ireq'[r] = state
           /\ \A s \in Request \ {r} : ireq'[s] = ireq[s]
BY DEF InviteTypeOK, IGoto, InviteState

\* The program counter tells what the handler remembers.
LEMMA InviteStates ==
    ASSUME InviteTypeOK, NEW r \in Request
    PROVE  /\ ireq[r].pc = "inviting" => ireq[r] \in Inviting
           /\ ireq[r].pc = "mailed" => ireq[r] \in Mailed
           /\ ireq[r].pc = "inviteRead" => ireq[r] \in InviteRead
           /\ ireq[r].pc = "revoking" => ireq[r] \in Revoking
BY DEF InviteTypeOK, Idle, Inviting, Mailed, InviteRead, Revoking

-----------------------------------------------------------------------------
(* What happens to the membership *)

\* An invite handler leaves it alone, a member request makes one of its own
\* steps, and only accepting writes a row beside them.
LEMMA MemberSide ==
    ASSUME [InviteNext]_allVars
    PROVE  [Next]_vars \/ \E u \in User : AcceptInvite(u)
BY DEF InviteNext, InviteStep, AuthorizeInvite, ReadInvite, SendInvite, CommitInvite,
   AuthorizeRevoke, RevokeInvite, FailInvite, Expire, MemberStep, Next, allVars, vars

\* Accepting writes a well-formed row.
LEMMA AcceptWrites ==
    ASSUME InviteTypeOK, NEW u \in User, AcceptInvite(u)
    PROVE  /\ TypeOK'
           /\ membership' = [membership EXCEPT ![u] = [role |-> invites[u].role,
                                                       status |-> Active]]
           /\ everOwner \subseteq everOwner'
           /\ ActiveOwners' \subseteq ActiveOwners \cup everOwner'
<1>1. invites[u] \in Invite
  BY DEF InviteTypeOK, AcceptInvite
<1>2. PICK row : row = [role |-> invites[u].role, status |-> Active]
  OBVIOUS
<1>3. row \in Row /\ Put(u, row)
  BY <1>1, <1>2, ConstantsAssumption DEF AcceptInvite, Invite, Row
<1>4. TypeOK'
  BY <1>3, PutType DEF InviteTypeOK, AcceptInvite, Remember, TypeOK
<1>5. everOwner \subseteq everOwner' /\ ActiveOwners' \subseteq ActiveOwners \cup everOwner'
  BY <1>3 DEF InviteTypeOK, TypeOK, Put, ActiveOwners
<1> QED
  BY <1>2, <1>3, <1>4, <1>5 DEF Put

\* The members' own invariants hold beside invitations, too.
LEMMA MembersKeep ==
    ASSUME InviteTypeOK, HistoryInv, RecordedOwnerWasOwner, [InviteNext]_allVars
    PROVE  /\ TypeOK' /\ HistoryInv' /\ RecordedOwnerWasOwner'
           /\ everOwner \subseteq everOwner'
<1>1. CASE [Next]_vars
  BY <1>1, NextTypeOK, NextHistory, HistoryGrows DEF InviteTypeOK
<1>2. CASE \E u \in User : AcceptInvite(u)
  BY <1>2, AcceptWrites DEF AcceptInvite, HistoryInv, RecordedOwnerWasOwner
<1> QED
  BY <1>1, <1>2, MemberSide

-----------------------------------------------------------------------------
(* The invitations *)

\* What a step of an invite handler leaves behind.
LEMMA InviteStepKeeps ==
    ASSUME InvitesInv, NEW r \in Request, InviteStep(r), TypeOK'
    PROVE  InviteTypeOK' /\ MailInv' /\ StoredInvitesWereMailed'
<1> USE DEF InvitesInv
<1>1. /\ invites \in [User -> Invite \cup {None}] /\ ireq \in [Request -> InviteState]
      /\ locked \in Request \cup {None} /\ mailed \subseteq Letter
  BY DEF InviteTypeOK, InviteState
<1>2. ASSUME NEW state \in InviteState, IGoto(r, state), state.pc # "mailed",
             UNCHANGED <<invites, mailed>>, locked' \in Request \cup {None}
      PROVE  InviteTypeOK' /\ MailInv' /\ StoredInvitesWereMailed'
  <2>1. InviteTypeOK'
    BY <1>1, <1>2, IGotoMoves DEF InviteTypeOK, InviteState
  <2>2. MailInv' /\ StoredInvitesWereMailed'
    BY <1>2, IGotoMoves DEF MailInv, StoredInvitesWereMailed
  <2> QED
    BY <2>1, <2>2
<1>3. ASSUME NEW actor \in Actor, NEW to \in User, NEW role \in Role,
             AuthorizeInvite(r, actor, to, role)
      PROVE  InviteTypeOK' /\ MailInv' /\ StoredInvitesWereMailed'
  <2>1. PICK state : state = [pc |-> "inviting", actor |-> actor, to |-> to, role |-> role]
    OBVIOUS
  <2>2. state \in InviteState /\ state.pc # "mailed"
    BY <2>1 DEF InviteState, Inviting
  <2> QED
    BY <1>1, <1>2, <1>3, <2>1, <2>2 DEF AuthorizeInvite
<1>4. ASSUME NEW actor \in Actor, NEW to \in User, ReadInvite(r, actor, to)
      PROVE  InviteTypeOK' /\ MailInv' /\ StoredInvitesWereMailed'
  <2>1. PICK state : state = [pc |-> "inviteRead", actor |-> actor, id |-> invites[to].id,
                              seen |-> invites[to].role]
    OBVIOUS
  <2>2. invites[to] \in Invite
    BY <1>1, <1>4 DEF ReadInvite
  <2>3. state \in InviteState /\ state.pc # "mailed"
    BY <2>1, <2>2 DEF InviteState, InviteRead, Invite
  <2> QED
    BY <1>1, <1>2, <1>4, <2>1, <2>3 DEF ReadInvite
<1>5. ASSUME NEW id \in InviteId, SendInvite(r, id)
      PROVE  InviteTypeOK' /\ MailInv' /\ StoredInvitesWereMailed'
  <2>1. ireq[r] \in Inviting
    BY <1>5, InviteStates DEF SendInvite
  <2>2. PICK state : state = [pc |-> "mailed", actor |-> ireq[r].actor, to |-> ireq[r].to,
                              role |-> ireq[r].role, id |-> id]
    OBVIOUS
  <2>3. state \in InviteState /\ IGoto(r, state)
    BY <1>5, <2>1, <2>2 DEF SendInvite, InviteState, Inviting, Mailed
  <2>4. /\ mailed' = mailed \cup {[id |-> id, to |-> ireq[r].to]}
        /\ mailed' \subseteq Letter /\ invites' = invites /\ locked' = r
    BY <1>1, <1>5, <2>1 DEF SendInvite, Inviting, Letter
  <2>5. InviteTypeOK'
    BY <1>1, <2>3, <2>4, IGotoMoves DEF InviteTypeOK, InviteState
  <2>6. MailInv' /\ StoredInvitesWereMailed'
    BY <2>2, <2>3, <2>4, IGotoMoves DEF MailInv, StoredInvitesWereMailed
  <2> QED
    BY <2>5, <2>6
<1>6. ASSUME CommitInvite(r)
      PROVE  InviteTypeOK' /\ MailInv' /\ StoredInvitesWereMailed'
  <2>1. ireq[r] \in Mailed /\ ireq[r].pc = "mailed"
    BY <1>6, InviteStates DEF CommitInvite
  <2>2. PICK row : row = [id |-> ireq[r].id, role |-> ireq[r].role, by |-> ireq[r].actor,
                          expired |-> FALSE]
    OBVIOUS
  <2>3. row \in Invite /\ row.id = ireq[r].id /\ ireq[r].to \in User
    BY <2>1, <2>2 DEF Mailed, Invite
  <2>4. invites' = [invites EXCEPT ![ireq[r].to] = row] /\ IGoto(r, Idle)
        /\ mailed' = mailed /\ locked' = None
    BY <1>6, <2>2 DEF CommitInvite
  <2>5. Idle \in InviteState /\ Idle.pc # "mailed"
    BY DEF InviteState, Idle
  <2>6. InviteTypeOK'
    BY <1>1, <2>3, <2>4, <2>5, IGotoMoves DEF InviteTypeOK, InviteState
  <2>7. MailInv'
    BY <2>4, <2>5, IGotoMoves DEF MailInv
  <2>8. StoredInvitesWereMailed'
    BY <1>1, <2>1, <2>3, <2>4 DEF MailInv, StoredInvitesWereMailed
  <2> QED
    BY <2>6, <2>7, <2>8
<1>7. ASSUME AuthorizeRevoke(r)
      PROVE  InviteTypeOK' /\ MailInv' /\ StoredInvitesWereMailed'
  <2>1. ireq[r] \in InviteRead
    BY <1>7, InviteStates DEF AuthorizeRevoke
  <2>2. PICK state : state = [pc |-> "revoking", actor |-> ireq[r].actor, id |-> ireq[r].id]
    OBVIOUS
  <2>3. state \in InviteState /\ state.pc # "mailed"
    BY <2>1, <2>2 DEF InviteState, InviteRead, Revoking
  <2> QED
    BY <1>1, <1>2, <1>7, <2>2, <2>3 DEF AuthorizeRevoke
<1>8. ASSUME NEW to \in User, RevokeInvite(r, to)
      PROVE  InviteTypeOK' /\ MailInv' /\ StoredInvitesWereMailed'
  <2>1. Idle \in InviteState /\ Idle.pc # "mailed"
    BY DEF InviteState, Idle
  <2>2. InviteTypeOK'
    BY <1>1, <1>8, <2>1, IGotoMoves DEF RevokeInvite, InviteTypeOK, InviteState
  <2>3. MailInv' /\ StoredInvitesWereMailed'
    BY <1>1, <1>8, <2>1, IGotoMoves DEF RevokeInvite, MailInv, StoredInvitesWereMailed
  <2> QED
    BY <2>2, <2>3
<1>9. ASSUME FailInvite(r)
      PROVE  InviteTypeOK' /\ MailInv' /\ StoredInvitesWereMailed'
  <2>1. Idle \in InviteState /\ Idle.pc # "mailed"
    BY DEF InviteState, Idle
  <2> QED
    BY <1>1, <1>2, <1>9, <2>1 DEF FailInvite
<1> QED
  BY <1>3, <1>4, <1>5, <1>6, <1>7, <1>8, <1>9 DEF InviteStep

\* The invariant of the invitations is inductive.
LEMMA NextInvites == InvitesInv /\ [InviteNext]_allVars => InvitesInv'
<1> SUFFICES ASSUME InvitesInv, [InviteNext]_allVars PROVE InvitesInv'
  OBVIOUS
<1>1. TypeOK' /\ HistoryInv' /\ RecordedOwnerWasOwner'
  BY MembersKeep DEF InvitesInv
<1>2. CASE \E r \in Request : InviteStep(r)
  BY <1>1, <1>2, InviteStepKeeps DEF InvitesInv
<1>3. CASE UNCHANGED inviteVars
  BY <1>1, <1>3 DEF InvitesInv, InviteTypeOK, MailInv, StoredInvitesWereMailed, inviteVars
<1>4. CASE \E u \in User : AcceptInvite(u)
  BY <1>1, <1>4 DEF InvitesInv, InviteTypeOK, AcceptInvite, MailInv, StoredInvitesWereMailed
<1>5. ASSUME NEW u \in User, Expire(u) PROVE InvitesInv'
  <2>1. PICK row : row = [invites[u] EXCEPT !.expired = TRUE]
    OBVIOUS
  <2>2. invites[u] # None /\ invites[u] \in Invite
    BY <1>5 DEF Expire, InvitesInv, InviteTypeOK
  <2>3. row \in Invite /\ row.id = invites[u].id
    BY <2>1, <2>2 DEF Invite
  <2>4. invites' = [invites EXCEPT ![u] = row] /\ UNCHANGED <<locked, ireq, mailed>>
    BY <1>5, <2>1 DEF Expire
  <2> QED
    BY <1>1, <2>2, <2>3, <2>4
    DEF InvitesInv, InviteTypeOK, MailInv, StoredInvitesWereMailed
<1> QED
  BY <1>2, <1>3, <1>4, <1>5 DEF InviteNext, MemberStep, allVars, inviteVars

\* Nothing is invited at first.
LEMMA InitInvites == InviteInit => InvitesInv
BY InitTypeOK, InitHistory
DEF InviteInit, InvitesInv, InviteTypeOK, MailInv, StoredInvitesWereMailed, Idle

\* Whatever fails, and wherever it does, no invite is stored without its letter
\* (createOrganizationInvite sends before it commits).
THEOREM MailedBeforeStored == InviteSpec => []StoredInvitesWereMailed
<1>1. InvitesInv => StoredInvitesWereMailed
  BY DEF InvitesInv
<1> QED
  BY <1>1, InitInvites, NextInvites, PTL DEF InviteSpec

-----------------------------------------------------------------------------
(* Invitations to the owner role *)

\* A handler that comes to invite an owner was authorized by one, and a row that
\* comes to invite one was written by such a handler.
LEMMA InvitersStep ==
    ASSUME OwnersManageOwners, InvitesInv, InviterInv, OwnersInvitedByOwners,
           NEW r \in Request, InviteStep(r)
    PROVE  InviterInv' /\ OwnersInvitedByOwners'
<1> USE DEF InvitesInv
<1>1. everOwner' = everOwner /\ TypeOK
  BY DEF InviteTypeOK, InviteStep, AuthorizeInvite, ReadInvite, SendInvite, CommitInvite,
     AuthorizeRevoke, RevokeInvite, FailInvite, vars
<1>2. /\ invites \in [User -> Invite \cup {None}]
      /\ Idle \in InviteState /\ Idle.pc \notin {"inviting", "mailed"}
  BY DEF InviteTypeOK, InviteState, Idle
<1>3. ASSUME NEW state \in InviteState, IGoto(r, state), UNCHANGED invites,
             state.pc \in {"inviting", "mailed"} /\ state.role = Owner =>
                 state.actor \in everOwner \cup {Service}
      PROVE  InviterInv' /\ OwnersInvitedByOwners'
  BY <1>1, <1>3, IGotoMoves DEF InviterInv, OwnersInvitedByOwners
<1>4. ASSUME NEW actor \in Actor, NEW to \in User, NEW role \in Role,
             AuthorizeInvite(r, actor, to, role)
      PROVE  InviterInv' /\ OwnersInvitedByOwners'
  <2>1. PICK state : state = [pc |-> "inviting", actor |-> actor, to |-> to, role |-> role]
    OBVIOUS
  <2>2. state \in InviteState /\ state.role = role /\ state.actor = actor
    BY <2>1 DEF InviteState, Inviting
  <2>3. role = Owner => actor \in everOwner \cup {Service}
    BY <1>1, <1>4, OwnerAuthority DEF AuthorizeInvite, HistoryInv
  <2> QED
    BY <1>3, <1>4, <2>1, <2>2, <2>3 DEF AuthorizeInvite
<1>5. ASSUME NEW actor \in Actor, NEW to \in User, ReadInvite(r, actor, to)
      PROVE  InviterInv' /\ OwnersInvitedByOwners'
  <2>1. PICK state : state = [pc |-> "inviteRead", actor |-> actor, id |-> invites[to].id,
                              seen |-> invites[to].role]
    OBVIOUS
  <2>2. invites[to] \in Invite
    BY <1>2, <1>5 DEF ReadInvite
  <2>3. state \in InviteState /\ state.pc \notin {"inviting", "mailed"}
    BY <2>1, <2>2 DEF InviteState, InviteRead, Invite
  <2> QED
    BY <1>3, <1>5, <2>1, <2>3 DEF ReadInvite
<1>6. ASSUME NEW id \in InviteId, SendInvite(r, id)
      PROVE  InviterInv' /\ OwnersInvitedByOwners'
  <2>1. ireq[r] \in Inviting
    BY <1>6, InviteStates DEF SendInvite
  <2>2. PICK state : state = [pc |-> "mailed", actor |-> ireq[r].actor, to |-> ireq[r].to,
                              role |-> ireq[r].role, id |-> id]
    OBVIOUS
  <2>3. state \in InviteState /\ state.role = ireq[r].role /\ state.actor = ireq[r].actor
    BY <2>1, <2>2 DEF InviteState, Inviting, Mailed
  <2>4. state.role = Owner => state.actor \in everOwner \cup {Service}
    BY <1>6, <2>3 DEF SendInvite, InviterInv
  <2> QED
    BY <1>3, <1>6, <2>2, <2>3, <2>4 DEF SendInvite
<1>7. ASSUME CommitInvite(r) PROVE InviterInv' /\ OwnersInvitedByOwners'
  <2>1. PICK row : row = [id |-> ireq[r].id, role |-> ireq[r].role, by |-> ireq[r].actor,
                          expired |-> FALSE]
    OBVIOUS
  <2>2. row.role = Owner => row.by \in everOwner \cup {Service}
    BY <1>7, <2>1 DEF CommitInvite, InviterInv
  <2>3. invites' = [invites EXCEPT ![ireq[r].to] = row] /\ IGoto(r, Idle)
    BY <1>7, <2>1 DEF CommitInvite
  <2>4. InviterInv'
    BY <1>1, <1>2, <2>3, IGotoMoves DEF InviterInv
  <2> QED
    BY <1>1, <1>2, <2>2, <2>3, <2>4 DEF OwnersInvitedByOwners
<1>8. ASSUME AuthorizeRevoke(r) PROVE InviterInv' /\ OwnersInvitedByOwners'
  <2>1. ireq[r] \in InviteRead
    BY <1>8, InviteStates DEF AuthorizeRevoke
  <2>2. PICK state : state = [pc |-> "revoking", actor |-> ireq[r].actor, id |-> ireq[r].id]
    OBVIOUS
  <2>3. state \in InviteState /\ state.pc \notin {"inviting", "mailed"}
    BY <2>1, <2>2 DEF InviteState, InviteRead, Revoking
  <2> QED
    BY <1>3, <1>8, <2>2, <2>3 DEF AuthorizeRevoke
<1>9. ASSUME NEW to \in User, RevokeInvite(r, to)
      PROVE  InviterInv' /\ OwnersInvitedByOwners'
  <2>1. InviterInv'
    BY <1>1, <1>2, <1>9, IGotoMoves DEF RevokeInvite, InviterInv
  <2> QED
    BY <1>1, <1>2, <1>9, <2>1 DEF RevokeInvite, OwnersInvitedByOwners
<1>10. ASSUME FailInvite(r) PROVE InviterInv' /\ OwnersInvitedByOwners'
  BY <1>2, <1>3, <1>10 DEF FailInvite
<1> QED
  BY <1>4, <1>5, <1>6, <1>7, <1>8, <1>9, <1>10 DEF InviteStep

\* Every step keeps the inviters of owners owners.
LEMMA NextInviters ==
    ASSUME OwnersManageOwners
    PROVE  InvitesInv /\ InviterInv /\ OwnersInvitedByOwners /\ [InviteNext]_allVars
               => InviterInv' /\ OwnersInvitedByOwners'
<1> SUFFICES ASSUME InvitesInv, InviterInv, OwnersInvitedByOwners, [InviteNext]_allVars
             PROVE  InviterInv' /\ OwnersInvitedByOwners'
  OBVIOUS
<1>1. everOwner \subseteq everOwner'
  BY MembersKeep DEF InvitesInv
<1>2. CASE \E r \in Request : InviteStep(r)
  BY <1>2, InvitersStep
<1>3. CASE UNCHANGED inviteVars
  BY <1>1, <1>3 DEF InviterInv, OwnersInvitedByOwners, inviteVars
<1>4. ASSUME NEW u \in User, AcceptInvite(u) PROVE InviterInv' /\ OwnersInvitedByOwners'
  BY <1>1, <1>4 DEF InvitesInv, InviteTypeOK, AcceptInvite, InviterInv, OwnersInvitedByOwners
<1>5. ASSUME NEW u \in User, Expire(u) PROVE InviterInv' /\ OwnersInvitedByOwners'
  <2>1. PICK row : row = [invites[u] EXCEPT !.expired = TRUE]
    OBVIOUS
  <2>2. invites[u] # None /\ invites[u] \in Invite
    BY <1>5 DEF Expire, InvitesInv, InviteTypeOK
  <2>3. row.role = invites[u].role /\ row.by = invites[u].by
    BY <2>1, <2>2 DEF Invite
  <2>4. invites' = [invites EXCEPT ![u] = row] /\ UNCHANGED ireq
    BY <1>5, <2>1 DEF Expire
  <2> QED
    BY <1>1, <2>2, <2>3, <2>4
    DEF InvitesInv, InviteTypeOK, InviterInv, OwnersInvitedByOwners
<1> QED
  BY <1>2, <1>3, <1>4, <1>5 DEF InviteNext, MemberStep, allVars, inviteVars

\* Where the policies let only owners manage owners, an invitation is no way
\* around them: the one that invites an owner comes from an owner or the service,
\* however long it was under way (AuthorizeInvite, CommitInvite).
THEOREM OwnersInviteOwners ==
    ASSUME OwnersManageOwners
    PROVE  InviteSpec => []OwnersInvitedByOwners
<1>1. InviteInit => InviterInv /\ OwnersInvitedByOwners
  BY DEF InviteInit, InviterInv, OwnersInvitedByOwners, Idle
<1> QED
  BY <1>1, InitInvites, NextInvites, NextInviters, PTL DEF InviteSpec

-----------------------------------------------------------------------------
(* How the last owner is lost *)

\* Member requests never take the last owner away, beside invitations either; an
\* acceptance takes only the accepting user away.
LEMMA LostByAcceptance ==
    ASSUME InviteTypeOK, [InviteNext]_allVars, ActiveOwners # {}, ActiveOwners' = {}
    PROVE  \E u \in ActiveOwners :
              /\ invites[u] # None /\ invites[u].role # Owner
              /\ invites'[u] = None
              /\ membership' = [membership EXCEPT ![u] =
                                   [role |-> invites[u].role, status |-> Active]]
<1>1. TypeOK
  BY DEF InviteTypeOK
<1>2. ~[Next]_vars
  BY <1>1, NextOwnerExists DEF ActiveOwnerExists
<1>3. PICK u \in User : AcceptInvite(u)
  BY <1>2, MemberSide
<1>4. membership' = [membership EXCEPT ![u] = [role |-> invites[u].role, status |-> Active]]
  BY <1>3, AcceptWrites
<1>5. u \in ActiveOwners
  BY <1>1, <1>4 DEF ActiveOwners, TypeOK
<1>6. invites[u].role # Owner
  BY <1>1, <1>4, <1>5 DEF ActiveOwners, TypeOK, OwnerRow
<1>7. invites[u] # None /\ invites'[u] = None
  BY <1>3 DEF AcceptInvite, InviteTypeOK
<1> QED
  BY <1>4, <1>5, <1>6, <1>7

\* An organization is left without an owner in no other way than by its last
\* owner accepting an invitation to another role (AcceptInvite's upsert).
THEOREM LastOwnerAcceptsAway == InviteSpec => LastOwnerLostByOwnAcceptance
<1>1. InvitesInv /\ [InviteNext]_allVars =>
        [ActiveOwners # {} /\ ActiveOwners' = {} =>
          \E u \in ActiveOwners :
              /\ invites[u] # None /\ invites[u].role # Owner
              /\ invites'[u] = None
              /\ membership' = [membership EXCEPT ![u] =
                                   [role |-> invites[u].role, status |-> Active]]]_allVars
  BY LostByAcceptance DEF InvitesInv
<1> QED
  BY <1>1, InitInvites, NextInvites, PTL DEF InviteSpec, LastOwnerLostByOwnAcceptance
=============================================================================
