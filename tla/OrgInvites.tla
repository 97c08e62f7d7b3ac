----------------------------- MODULE OrgInvites -----------------------------
(***************************************************************************)
(* Invitations to an organization (api/auth/org_invites.go), beside the    *)
(* member requests of OrgMembership on the same database.                  *)
(*                                                                         *)
(* Creating an invite is one transaction around the INSERT and the sending *)
(* of the e-mail: the database's write lock is held while the mail is on   *)
(* its way, and the invite is visible only if the commit succeeds.         *)
(* Accepting one is one transaction too: it reads the invite, writes the   *)
(* membership row and deletes the invite.                                  *)
(***************************************************************************)
EXTENDS OrgMembership

CONSTANT InviteId    \* values of atombase_invites.id

VARIABLES
    invites,     \* atombase_invites: e-mail address -> row; one per address
    locked,      \* the invite handler whose transaction holds the write lock
    ireq,        \* the invite handlers in flight
    mailed       \* history: the invitations handed to the mail server

inviteVars == <<invites, locked, ireq, mailed>>
allVars == <<membership, ownerId, req, everOwner, byOwner, invites, locked, ireq, mailed>>

(***************************************************************************)
(* An address stands for the user it belongs to: users.email is unique,    *)
(* accepting compares the normalized addresses, and no address changes.    *)
(***************************************************************************)
Invite == [id : InviteId, role : Role, by : Actor, expired : BOOLEAN]

Letter == [id : InviteId, to : User]

Inviting == [pc : {"inviting"}, actor : Actor, to : User, role : Role]
Mailed == [pc : {"mailed"}, actor : Actor, to : User, role : Role, id : InviteId]
InviteRead == [pc : {"inviteRead"}, actor : Actor, id : InviteId, seen : Role]
Revoking == [pc : {"revoking"}, actor : Actor, id : InviteId]

InviteTypeOK ==
    /\ TypeOK
    /\ invites \in [User -> Invite \cup {None}]
    /\ locked \in Request \cup {None}
    /\ ireq \in [Request -> {Idle} \cup Inviting \cup Mailed \cup InviteRead \cup Revoking]
    /\ mailed \subseteq Letter

InviteInit ==
    /\ Init
    /\ invites = [u \in User |-> None]
    /\ locked = None
    /\ ireq = [r \in Request |-> Idle]
    /\ mailed = {}

IGoto(r, state) == ireq' = [ireq EXCEPT ![r] = state]

\* a slot runs one handler at a time, for members or for invites
Free(r) == req[r] = Idle /\ ireq[r] = Idle

HasId(u, id) == invites[u] # None /\ invites[u].id = id

-----------------------------------------------------------------------------
(* POST /auth/orgs/{id}/invites *)

\* Mutant: every active member may invite to every role.
AuthorizeInviteOfMember(r, actor, to, role) ==
    /\ Free(r)
    /\ ActorStillActive(actor)
    /\ IGoto(r, [pc |-> "inviting", actor |-> actor, to |-> to, role |-> role])
    /\ UNCHANGED <<vars, invites, locked, mailed>>

AuthorizeInvite(r, actor, to, role) ==
    /\ Free(r)
    /\ Allows(actor, "invite", role)
    /\ IGoto(r, [pc |-> "inviting", actor |-> actor, to |-> to, role |-> role])
    /\ UNCHANGED <<vars, invites, locked, mailed>>

\* Mutant: the INSERT commits at once, and the letter is sent after it.
SendInviteLater(r, id) ==
    LET q == ireq[r] IN
    /\ q.pc = "inviting"
    /\ locked = None
    /\ \A u \in User \ {q.to} : ~HasId(u, id)
    /\ locked' = r
    /\ invites' = [invites EXCEPT
                      ![q.to] = [id |-> id, role |-> q.role, by |-> q.actor,
                                 expired |-> FALSE]]
    /\ IGoto(r, [pc |-> "mailed", actor |-> q.actor, to |-> q.to, role |-> q.role,
                 id |-> id])
    /\ UNCHANGED <<vars, mailed>>

\* BEGIN; INSERT ... ON CONFLICT(email) DO UPDATE; send.  The id is fresh or
\* the caller's, and must not be another address's (the primary key).
SendInvite(r, id) ==
    LET q == ireq[r] IN
    /\ q.pc = "inviting"
    /\ locked = None
    /\ \A u \in User \ {q.to} : ~HasId(u, id)
    /\ locked' = r
    /\ mailed' = mailed \cup {[id |-> id, to |-> q.to]}
    /\ IGoto(r, [pc |-> "mailed", actor |-> q.actor, to |-> q.to, role |-> q.role,
                 id |-> id])
    /\ UNCHANGED <<vars, invites>>

\* COMMIT: the new row replaces the address's previous invite
CommitInvite(r) ==
    LET q == ireq[r] IN
    /\ q.pc = "mailed"
    /\ invites' = [invites EXCEPT
                      ![q.to] = [id |-> q.id, role |-> q.role, by |-> q.actor,
                                 expired |-> FALSE]]
    /\ locked' = None
    /\ IGoto(r, Idle)
    /\ UNCHANGED <<vars, mailed>>

-----------------------------------------------------------------------------
(* DELETE /auth/orgs/{id}/invites/{invite}                                 *)

ReadInvite(r, actor, to) ==
    /\ Free(r)
    /\ invites[to] # None
    /\ IGoto(r, [pc |-> "inviteRead", actor |-> actor, id |-> invites[to].id,
                 seen |-> invites[to].role])
    /\ UNCHANGED <<vars, invites, locked, mailed>>

AuthorizeRevoke(r) ==
    LET q == ireq[r] IN
    /\ q.pc = "inviteRead"
    /\ Allows(q.actor, "invite", q.seen)
    /\ IGoto(r, [pc |-> "revoking", actor |-> q.actor, id |-> q.id])
    /\ UNCHANGED <<vars, invites, locked, mailed>>

RevokeInvite(r, to) ==
    LET q == ireq[r] IN
    /\ q.pc = "revoking"
    /\ locked = None
    /\ HasId(to, q.id)
    /\ invites' = [invites EXCEPT ![to] = None]
    /\ IGoto(r, Idle)
    /\ UNCHANGED <<vars, locked, mailed>>

-----------------------------------------------------------------------------
\* POST /auth/orgs/{id}/invites/{invite}/accept by the user of the address: the
\* upsert overwrites the role of a row that is already there
AcceptInvite(u) ==
    /\ locked = None
    /\ invites[u] # None
    /\ ~invites[u].expired
    /\ Put(u, [role |-> invites[u].role, status |-> Active])
    /\ invites' = [invites EXCEPT ![u] = None]
    /\ UNCHANGED <<ownerId, req, locked, ireq, mailed>>
    /\ Remember

\* time passes expires_at; the row stays
Expire(u) ==
    /\ invites[u] # None
    /\ ~invites[u].expired
    /\ invites' = [invites EXCEPT ![u].expired = TRUE]
    /\ UNCHANGED <<vars, locked, ireq, mailed>>

\* an error return rolls the transaction back; a letter sent stays sent
FailInvite(r) ==
    /\ ireq[r] # Idle
    /\ locked' = IF locked = r THEN None ELSE locked
    /\ IGoto(r, Idle)
    /\ UNCHANGED <<vars, invites, mailed>>

-----------------------------------------------------------------------------
InviteStep(r) ==
    \/ \E actor \in Actor, to \in User :
           \/ \E role \in Role : AuthorizeInvite(r, actor, to, role)
           \/ ReadInvite(r, actor, to)
    \/ \E id \in InviteId : SendInvite(r, id)
    \/ CommitInvite(r)
    \/ AuthorizeRevoke(r)
    \/ \E to \in User : RevokeInvite(r, to)
    \/ FailInvite(r)

\* a member request's write waits for the write lock of its database
MemberStep(r) ==
    /\ \/ Free(r) /\ Begin(r)
       \/ Decide(r) \/ RecordOwner(r) \/ Fail(r)
       \/ locked = None /\ Write(r)
    /\ Remember
    /\ UNCHANGED inviteVars

InviteNext ==
    \/ \E r \in Request : InviteStep(r) \/ MemberStep(r)
    \/ \E u \in User : AcceptInvite(u) \/ Expire(u)

InviteSpec == InviteInit /\ [][InviteNext]_allVars

-----------------------------------------------------------------------------
(* Safety *)

\* No invite is stored whose letter was not handed to the mail server: the
\* sending comes before the commit (createOrganizationInvite).
StoredInvitesWereMailed ==
    \A u \in User : invites[u] # None =>
        [id |-> invites[u].id, to |-> u] \in mailed

\* An invitation to the owner role was sent by the service or by a user who has
\* been an owner, so that it is no way around the rule for members.
OwnersInvitedByOwners ==
    \A u \in User : invites[u] # None /\ invites[u].role = Owner =>
        invites[u].by \in everOwner \cup {Service}

\* The organization loses its last active owner in one way only: that owner
\* accepts an invitation to another role, which somebody sent to them.
LastOwnerLostByOwnAcceptance ==
    [][ActiveOwners # {} /\ ActiveOwners' = {} =>
          \E u \in ActiveOwners :
              /\ invites[u] # None /\ invites[u].role # Owner
              /\ invites'[u] = None
              /\ membership' = [membership EXCEPT ![u] =
                                   [role |-> invites[u].role, status |-> Active]]]_allVars

=============================================================================
