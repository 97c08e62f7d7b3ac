--------------------------- MODULE OrgMembership ---------------------------
(***************************************************************************)
(* Membership of one organization: the member endpoints and the transfer   *)
(* of ownership of api/auth (org_membership.go, org_management.go).        *)
(*                                                                         *)
(* An organization's members live in the atombase_membership table of the  *)
(* organization's own database; its billing owner is owner_id in the       *)
(* primary database.  A handler is a sequence of separate SQL statements,  *)
(* in no transaction: it reads roles, decides, and then issues ONE guarded *)
(* write.  Several handlers run at the same time, so everything a handler  *)
(* read may be stale when its write lands.  Each action below is one SQL   *)
(* statement with the Go code that follows it up to the next statement.    *)
(***************************************************************************)
EXTENDS Naturals, FiniteSets

CONSTANTS
    User,         \* users of the primary database
    Role,         \* role names, Owner among them
    Owner,        \* the role 'owner'
    Status,       \* values of the status column, Active among them
    Active,       \* the status 'active'
    Request,      \* slots for handlers running at the same time
    Service,      \* the caller that authenticates with the service key
    Management,   \* the management policies of the definition, per role
    None          \* SQL NULL, an absent row, a field the caller omitted

Actor == User \cup {Service}

(***************************************************************************)
(* What a role may do.  permissionAllows grants a target role when the     *)
(* permission is "any" or lists it, so a permission is the set of roles it *)
(* covers; a role without a policy covers none.                            *)
(***************************************************************************)
Policy == [invite : SUBSET Role, assignRole : SUBSET Role,
           removeMember : SUBSET Role, transferOwnership : BOOLEAN]

ASSUME ConstantsAssumption ==
    /\ Owner \in Role
    /\ Active \in Status
    /\ Service \notin User
    /\ None \notin Role \cup Status \cup [role : Role, status : Status]
    /\ Management \in [Role -> Policy]

VARIABLES
    membership,   \* atombase_membership: user -> row, None when absent
    ownerId,      \* atombase_organizations.owner_id, in the primary database
    req,          \* the handlers in flight
    everOwner,    \* history: the users that have been active owners
    byOwner       \* history: the handlers in flight whose actor has been an
                  \* active owner since they began

vars == <<membership, ownerId, req, everOwner, byOwner>>

Row == [role : Role, status : Status]
OwnerRow == [role |-> Owner, status |-> Active]

-----------------------------------------------------------------------------
(* What a handler remembers between two statements.                        *)

Idle == [pc |-> "idle"]

\* update and delete: the role of the target, read first
TargetRead == [pc : {"updateRead", "deleteRead"}, actor : Actor, target : User,
               seen : Role]

\* the permission checks are over, the write is next
Creating == [pc : {"creating"}, actor : Actor, target : User,
             role : Role, status : Status]
Updating == [pc : {"updating"}, actor : Actor, target : User,
             role : Role \cup {None}, status : Status \cup {None}]
Deleting == [pc : {"deleting"}, actor : Actor, target : User]

\* transfer: before and after the write to the organization's database
Transferring == [pc : {"transferring", "promoted"}, actor : Actor, target : User]

RequestState == {Idle} \cup TargetRead \cup Creating \cup Updating \cup Deleting
                \cup Transferring

TypeOK ==
    /\ membership \in [User -> Row \cup {None}]
    /\ ownerId \in User
    /\ req \in [Request -> RequestState]
    /\ everOwner \subseteq User
    /\ byOwner \subseteq Request

-----------------------------------------------------------------------------
IsActive(u) == membership[u] # None /\ membership[u].status = Active

ActiveOwners == {u \in User : membership[u] = OwnerRow}

\* a query of the actor's role followed by managementAllows
Allows(actor, permission, role) ==
    actor # Service =>
        /\ IsActive(actor)
        /\ role \in Management[membership[actor].role][permission]

\* the EXISTS subquery of a session's write: nothing about the actor's role
ActorStillActive(actor) == actor # Service => IsActive(actor)

Put(u, row) ==
    /\ membership' = [membership EXCEPT ![u] = row]
    /\ everOwner' = IF row = OwnerRow THEN everOwner \cup {u} ELSE everOwner

Goto(r, state) == req' = [req EXCEPT ![r] = state]

\* what every step adds to the history
Remember ==
    byOwner' = {r \in Request : /\ req'[r] # Idle
                                /\ r \in byOwner \/ req'[r].actor \in ActiveOwners'}

(***************************************************************************)
(* A new organization has one member, its owner: createDatabase inserts    *)
(* the row and the owner_id it is asked for.                               *)
(***************************************************************************)
Init ==
    \E u \in User :
        /\ membership = [v \in User |-> IF v = u THEN OwnerRow ELSE None]
        /\ ownerId = u
        /\ req = [r \in Request |-> Idle]
        /\ everOwner = {u}
        /\ byOwner = {}

-----------------------------------------------------------------------------
(* POST /auth/orgs/{id}/members *)

AuthorizeCreate(r, actor, target, role, status) ==
    /\ req[r] = Idle
    /\ Allows(actor, "invite", role)
    /\ Goto(r, [pc |-> "creating", actor |-> actor, target |-> target,
                role |-> role, status |-> status])
    /\ UNCHANGED <<membership, ownerId, everOwner>>

\* INSERT ... WHERE EXISTS (actor active) ON CONFLICT DO NOTHING
InsertMember(r) ==
    LET q == req[r] IN
    /\ q.pc = "creating"
    /\ ActorStillActive(q.actor)
    /\ membership[q.target] = None
    /\ Put(q.target, [role |-> q.role, status |-> q.status])
    /\ Goto(r, Idle)
    /\ UNCHANGED ownerId

-----------------------------------------------------------------------------
(* PATCH and DELETE /auth/orgs/{id}/members/{user}                         *)

\* the target has to be an active member, whatever the change
ReadTarget(r, pc, actor, target) ==
    /\ req[r] = Idle
    /\ IsActive(target)
    /\ Goto(r, [pc |-> pc, actor |-> actor, target |-> target,
                seen |-> membership[target].role])
    /\ UNCHANGED <<membership, ownerId, everOwner>>

\* a new role is checked against assignRole, and only without one the target's
AuthorizeUpdate(r, role, status) ==
    LET q == req[r] IN
    /\ q.pc = "updateRead"
    /\ role # None \/ status # None
    /\ Allows(q.actor, "assignRole", IF role # None THEN role ELSE q.seen)
    /\ Goto(r, [pc |-> "updating", actor |-> q.actor, target |-> q.target,
                role |-> role, status |-> status])
    /\ UNCHANGED <<membership, ownerId, everOwner>>

AuthorizeDelete(r) ==
    LET q == req[r] IN
    /\ q.pc = "deleteRead"
    /\ Allows(q.actor, "removeMember", q.seen)
    /\ Goto(r, [pc |-> "deleting", actor |-> q.actor, target |-> q.target])
    /\ UNCHANGED <<membership, ownerId, everOwner>>

\* Mutant: the UPDATE sets both columns, given or not.
BothColumns(q) == [role |-> q.role, status |-> q.status]

\* COALESCE(?, column): an omitted field keeps what the row has now
Coalesced(q) ==
    [role |-> IF q.role # None THEN q.role ELSE membership[q.target].role,
     status |-> IF q.status # None THEN q.status ELSE membership[q.target].status]

\* Mutant: the count forgets the status.
SeveralOwnersOfAnyStatus ==
    Cardinality({u \in User : membership[u] # None /\ membership[u].role = Owner}) > 1

\* (SELECT COUNT(*) ... role = 'owner' AND status = 'active') > 1
SeveralOwners == Cardinality(ActiveOwners) > 1

UpdateMember(r) ==
    LET q == req[r] IN
    /\ q.pc = "updating"
    /\ ActorStillActive(q.actor)
    /\ membership[q.target] # None
    /\ \/ membership[q.target].role # Owner
       \/ Coalesced(q) = OwnerRow
       \/ SeveralOwners
    /\ Put(q.target, Coalesced(q))
    /\ Goto(r, Idle)
    /\ UNCHANGED ownerId

\* Mutant: the DELETE does not look at the actor again.
DeleteMemberUnchecked(r) ==
    LET q == req[r] IN
    /\ q.pc = "deleting"
    /\ membership[q.target] # None
    /\ membership[q.target].role # Owner \/ SeveralOwners
    /\ Put(q.target, None)
    /\ Goto(r, Idle)
    /\ UNCHANGED ownerId

\* Mutant: the DELETE does not count the owners.
DeleteMemberUncounted(r) ==
    LET q == req[r] IN
    /\ q.pc = "deleting"
    /\ ActorStillActive(q.actor)
    /\ membership[q.target] # None
    /\ Put(q.target, None)
    /\ Goto(r, Idle)
    /\ UNCHANGED ownerId

DeleteMember(r) ==
    LET q == req[r] IN
    /\ q.pc = "deleting"
    /\ ActorStillActive(q.actor)
    /\ membership[q.target] # None
    /\ membership[q.target].role # Owner \/ SeveralOwners
    /\ Put(q.target, None)
    /\ Goto(r, Idle)
    /\ UNCHANGED ownerId

-----------------------------------------------------------------------------
(* POST /auth/orgs/{id}/transfer-ownership                                 *)

\* Mutant: the query of the actor's role forgets the status.
AuthorizeTransferOfSuspended(r, actor, target) ==
    /\ req[r] = Idle
    /\ actor # Service =>
           membership[actor] # None /\ Management[membership[actor].role].transferOwnership
    /\ Goto(r, [pc |-> "transferring", actor |-> actor, target |-> target])
    /\ UNCHANGED <<membership, ownerId, everOwner>>

AuthorizeTransfer(r, actor, target) ==
    /\ req[r] = Idle
    /\ actor # Service =>
           IsActive(actor) /\ Management[membership[actor].role].transferOwnership
    /\ Goto(r, [pc |-> "transferring", actor |-> actor, target |-> target])
    /\ UNCHANGED <<membership, ownerId, everOwner>>

\* upsert in the organization's database: neither the actor nor the target's
\* present row is looked at, and the previous owner stays one
PromoteOwner(r) ==
    LET q == req[r] IN
    /\ q.pc = "transferring"
    /\ Put(q.target, OwnerRow)
    /\ Goto(r, [q EXCEPT !.pc = "promoted"])
    /\ UNCHANGED ownerId

\* Mutant: the primary database is written first.
RecordOwnerFirst(r) ==
    LET q == req[r] IN
    /\ q.pc = "transferring"
    /\ ownerId' = q.target
    /\ UNCHANGED <<membership, req, everOwner>>

\* UPDATE in the primary database, in a transaction of its own
RecordOwner(r) ==
    LET q == req[r] IN
    /\ q.pc = "promoted"
    /\ ownerId' = q.target
    /\ Goto(r, Idle)
    /\ UNCHANGED <<membership, everOwner>>

-----------------------------------------------------------------------------
(***************************************************************************)
(* The handler returns an error: a permission is denied, a write's guard   *)
(* matched no row, a statement failed, the request timed out or the        *)
(* process stopped.  What it had written stays written.                    *)
(***************************************************************************)
Fail(r) ==
    /\ req[r] # Idle
    /\ Goto(r, Idle)
    /\ UNCHANGED <<membership, ownerId, everOwner>>

Begin(r) ==
    \E actor \in Actor, target \in User :
        \/ \E role \in Role, status \in Status :
              AuthorizeCreate(r, actor, target, role, status)
        \/ \E pc \in {"updateRead", "deleteRead"} : ReadTarget(r, pc, actor, target)
        \/ AuthorizeTransfer(r, actor, target)

Decide(r) ==
    \/ \E role \in Role \cup {None}, status \in Status \cup {None} :
          AuthorizeUpdate(r, role, status)
    \/ AuthorizeDelete(r)

\* the writes to the organization's database
Write(r) ==
    \/ InsertMember(r)
    \/ UpdateMember(r)
    \/ DeleteMember(r)
    \/ PromoteOwner(r)

Next ==
    /\ \E r \in Request :
          Begin(r) \/ Decide(r) \/ Write(r) \/ RecordOwner(r) \/ Fail(r)
    /\ Remember

Spec == Init /\ [][Next]_vars

-----------------------------------------------------------------------------
(* Safety *)

\* The organization keeps an active owner, although two handlers may each have
\* seen a second one before removing, demoting or suspending "the other":
\* the count is taken in the statement that writes (org_membership.go 312-377,
\* 398-448).
ActiveOwnerExists == ActiveOwners # {}

\* The owner recorded in the primary database has been an active owner of the
\* organization's own database: a transfer that stops half way leaves the new
\* owner promoted and unrecorded, never recorded and unpromoted
\* (transferOrganizationOwnership).
RecordedOwnerWasOwner == ownerId \in everOwner

HasOwnerRole(u) == membership[u] # None /\ membership[u].role = Owner

\* Nobody becomes an owner except by a request of the service, or of a user who was
\* an active owner while that very request was in flight: the role a handler acts by
\* may be lost before its write lands, but it is never older than the request
\* (lookupOrganizationMemberRole is asked by each).  Only the owner role may manage
\* owners in the instance checked.
OwnersMadeByOwners ==
    [][\A u \in User : HasOwnerRole(u)' /\ ~HasOwnerRole(u) =>
          \E r \in Request : /\ req'[r] # req[r]
                             /\ r \in byOwner \/ req[r].actor = Service]_vars

\* A member who was removed or suspended while a member request of theirs was
\* in flight changes nothing with it: the write looks at the actor again.
RevokedActorWritesNothing ==
    [][\A r \in Request :
          /\ req[r].pc \in {"creating", "updating", "deleting"}
          /\ req'[r] # req[r]
          /\ membership' # membership
          => ActorStillActive(req[r].actor)]_vars

-----------------------------------------------------------------------------
(* Inductive invariants: what the safety properties rest on *)

\* an owner is promoted before it is recorded
HistoryInv ==
    /\ ActiveOwners \subseteq everOwner
    /\ \A r \in Request : req[r].pc = "promoted" => req[r].target \in everOwner

\* a pending write that can make an owner was authorized by one
AuthorityInv ==
    \A r \in Request :
        \/ req[r].pc \in {"creating", "updating"} /\ req[r].role = Owner
        \/ req[r].pc \in {"transferring", "promoted"}
        => r \in byOwner \/ req[r].actor = Service

\* only the owner role may hand out the owner role
OwnersManageOwners ==
    \A role \in Role \ {Owner} :
        /\ Owner \notin Management[role].invite
        /\ Owner \notin Management[role].assignRole
        /\ ~Management[role].transferOwnership

=============================================================================
