--------------------------- MODULE DatabaseLifecycle ---------------------------
(***************************************************************************)
(* How databases come and go: createDatabase and deleteDatabase            *)
(* (platform/databases.go), the auth handlers in front of them             *)
(* (auth/org_management.go, auth/user_database.go) and their glue          *)
(* (auth_resolver.go).                                                     *)
(*                                                                         *)
(* A database is a row in the primary database, a remote database at       *)
(* Turso, and, by the type of its definition, a user's link or an          *)
(* organization's row.  No transaction spans the two sides: the remote     *)
(* database is made first and deleted, as well as can be, when a later     *)
(* step fails; the rows come last, in one transaction, which for an        *)
(* organization stays open while the owner is inserted remotely.           *)
(* An organization and its database have the same id.                      *)
(***************************************************************************)
EXTENDS Naturals, FiniteSets

CONSTANTS
    User,
    Id,           \* ids of databases, chosen by the caller or random
    Request,      \* slots for handlers running at the same time
    Limit,        \* ATOMBASE_MAX_ORGANIZATIONS_PER_USER, 0 for no cap
    None

ASSUME LifecycleAssumption ==
    /\ Limit \in Nat
    /\ None \notin User \cup Id \cup Request
    /\ None \notin {"global", "user", "organization"}
    /\ IsFiniteSet(Id) /\ IsFiniteSet(Request)

Kind == {"global", "user", "organization"}

VARIABLES
    row,       \* atombase_databases: the definition's type, None without a row
    link,      \* atombase_users.database_id
    owner,     \* atombase_organizations: owner_id, None without a row
    lock,      \* the handler whose transaction holds the primary's write lock
    remote,    \* the databases at Turso
    req,       \* the handlers in flight
    doomed     \* history: the ids whose deletion somebody has begun

vars == <<row, link, owner, lock, remote, req, doomed>>
primary == <<row, link, owner>>

Idle == [pc |-> "idle"]

CreatePc == {"asked", "checked", "created", "built", "inserted", "seeded"}

\* account: the user of a user database, the owner of an organization.
\* capped: the request comes with a session and counts against the limit.
Creating ==
    [pc : CreatePc, id : Id, kind : {"user", "organization"}, account : User,
     capped : BOOLEAN]
    \cup [pc : CreatePc, id : Id, kind : {"global"}, account : {None}, capped : {FALSE}]
Deleting == [pc : {"found", "destroyed"}, id : Id]

TypeOK ==
    /\ row \in [Id -> Kind \cup {None}]
    /\ link \in [User -> Id \cup {None}]
    /\ owner \in [Id -> User \cup {None}]
    /\ lock \in Request \cup {None}
    /\ remote \in [Id -> {"absent", "empty", "built", "seeded"}]
    /\ req \in [Request -> {Idle} \cup Creating \cup Deleting]
    /\ doomed \subseteq Id

Init ==
    /\ row = [d \in Id |-> None]
    /\ link = [u \in User |-> None]
    /\ owner = [d \in Id |-> None]
    /\ lock = None
    /\ remote = [d \in Id |-> "absent"]
    /\ req = [r \in Request |-> Idle]
    /\ doomed = {}

-----------------------------------------------------------------------------
Goto(r, state) == req' = [req EXCEPT ![r] = state]
Advance(r, pc) == req' = [req EXCEPT ![r].pc = pc]

Owned(u) == {d \in Id : owner[d] = u}

Asked(id, kind, account, capped) ==
    [pc |-> "asked", id |-> id, kind |-> kind, account |-> account, capped |-> capped]

\* Mutant: the service may leave the owner out.
AskOrganizationUnowned(r, id, u, capped) ==
    /\ req[r] = Idle
    /\ capped /\ Limit > 0 => Cardinality(Owned(u)) < Limit
    /\ Goto(r, Asked(id, "organization", IF capped THEN u ELSE None, capped))
    /\ UNCHANGED <<primary, lock, remote, doomed>>

\* Mutant: the cap is off by one.
AskOrganizationAtLimit(r, id, u, capped) ==
    /\ req[r] = Idle
    /\ capped /\ Limit > 0 => Cardinality(Owned(u)) <= Limit
    /\ Goto(r, Asked(id, "organization", u, capped))
    /\ UNCHANGED <<primary, lock, remote, doomed>>

\* POST /auth/orgs; the service names any owner and has no cap
AskOrganization(r, id, u, capped) ==
    /\ req[r] = Idle
    /\ capped /\ Limit > 0 => Cardinality(Owned(u)) < Limit
    /\ Goto(r, Asked(id, "organization", u, capped))
    /\ UNCHANGED <<primary, lock, remote, doomed>>

\* POST /auth/me/database; the id is random, so nobody has used it
AskUserDatabase(r, id, u) ==
    /\ req[r] = Idle
    /\ link[u] = None
    /\ row[id] = None /\ remote[id] = "absent"
    /\ \A s \in Request : req[s] # Idle => req[s].id # id
    /\ Goto(r, Asked(id, "user", u, FALSE))
    /\ UNCHANGED <<primary, lock, remote, doomed>>

\* POST /platform/databases, which refuses organizations
AskDatabase(r, id, kind, account) ==
    /\ req[r] = Idle
    /\ kind = "user" <=> account # None
    /\ Goto(r, Asked(id, kind, account, FALSE))
    /\ UNCHANGED <<primary, lock, remote, doomed>>

-----------------------------------------------------------------------------
(* createDatabase *)

\* Two reads in one step: InsertRows repeats both.
CheckFree(r) ==
    LET q == req[r] IN
    /\ q.pc = "asked"
    /\ row[q.id] = None
    /\ q.kind = "user" => link[q.account] = None
    /\ Advance(r, "checked")
    /\ UNCHANGED <<primary, lock, remote, doomed>>

\* Mutant: a database that is there already counts as created.
CreateOrAdoptRemote(r) ==
    LET q == req[r] IN
    /\ q.pc = "checked"
    /\ remote' = [remote EXCEPT ![q.id] = IF @ = "absent" THEN "empty" ELSE @]
    /\ Advance(r, "created") \/ Goto(r, Idle)
    /\ UNCHANGED <<primary, lock, doomed>>

\* Turso refuses a name that is taken.  When its answer is lost the handler
\* fails, and does not delete what may be there.
CreateRemote(r) ==
    LET q == req[r] IN
    /\ q.pc = "checked"
    /\ remote[q.id] = "absent"
    /\ remote' = [remote EXCEPT ![q.id] = "empty"]
    /\ Advance(r, "created") \/ Goto(r, Idle)
    /\ UNCHANGED <<primary, lock, doomed>>

\* the token, and the schema in one batch, whose CREATE TABLEs want an empty
\* database
BuildRemote(r) ==
    LET q == req[r] IN
    /\ q.pc = "created"
    /\ remote[q.id] = "empty"
    /\ remote' = [remote EXCEPT ![q.id] = "built"]
    /\ Advance(r, "built") \/ UNCHANGED req
    /\ UNCHANGED <<primary, lock, doomed>>

\* the token, its encryption or the schema failed: delete by name, and look at
\* no answer.  A timeout or the end of the process deletes nothing.
Compensate(r) ==
    LET q == req[r] IN
    /\ q.pc = "created"
    /\ \/ remote' = [remote EXCEPT ![q.id] = "absent"]
       \/ UNCHANGED remote
    /\ Goto(r, Idle)
    /\ UNCHANGED <<primary, lock, doomed>>

\* Mutant: only the check made before the remote database exists.
InsertRowsUnchecked(r) ==
    LET q == req[r] IN
    /\ q.pc = "built" /\ q.kind # "organization"
    /\ lock = None
    /\ row[q.id] = None
    /\ row' = [row EXCEPT ![q.id] = q.kind]
    /\ link' = IF q.kind = "user" THEN [link EXCEPT ![q.account] = q.id] ELSE link
    /\ Goto(r, Idle)
    /\ UNCHANGED <<owner, lock, remote, doomed>>

\* Mutant: database_id is not UNIQUE.
InsertRowsNotUnique(r) ==
    LET q == req[r] IN
    /\ q.pc = "built" /\ q.kind # "organization"
    /\ lock = None
    /\ row[q.id] = None
    /\ row' = [row EXCEPT ![q.id] = q.kind]
    /\ \/ q.kind = "global" /\ UNCHANGED link
       \/ /\ q.kind = "user" /\ link[q.account] = None
          /\ link' = [link EXCEPT ![q.account] = q.id]
    /\ Goto(r, Idle)
    /\ UNCHANGED <<owner, lock, remote, doomed>>

\* the transaction for a global or a user definition; database_id is UNIQUE
InsertRows(r) ==
    LET q == req[r] IN
    /\ q.pc = "built" /\ q.kind # "organization"
    /\ lock = None
    /\ row[q.id] = None
    /\ row' = [row EXCEPT ![q.id] = q.kind]
    /\ \/ q.kind = "global" /\ UNCHANGED link
       \/ /\ q.kind = "user" /\ link[q.account] = None
          /\ \A u \in User : link[u] # q.id
          /\ link' = [link EXCEPT ![q.account] = q.id]
    /\ Goto(r, Idle)
    /\ UNCHANGED <<owner, lock, remote, doomed>>

\* the transaction for an organization: both rows are inserted ...
BeginOrganization(r) ==
    LET q == req[r] IN
    /\ q.pc = "built" /\ q.kind = "organization"
    /\ lock = None
    /\ row[q.id] = None /\ owner[q.id] = None
    /\ lock' = r
    /\ Advance(r, "inserted")
    /\ UNCHANGED <<primary, remote, doomed>>

\* Mutant: the owner's row is left to a later request.
SkipOwner(r) ==
    LET q == req[r] IN
    /\ q.pc = "inserted"
    /\ Advance(r, "seeded")
    /\ UNCHANGED <<primary, lock, remote, doomed>>

\* ... the membership tables and the owner's row are written remotely ...
SeedOwner(r) ==
    LET q == req[r] IN
    /\ q.pc = "inserted"
    /\ remote[q.id] # "absent"
    /\ remote' = [remote EXCEPT ![q.id] = "seeded"]
    /\ Advance(r, "seeded")
    /\ UNCHANGED <<primary, lock, doomed>>

\* ... and then the transaction commits
CommitOrganization(r) ==
    LET q == req[r] IN
    /\ q.pc = "seeded"
    /\ row' = [row EXCEPT ![q.id] = "organization"]
    /\ owner' = [owner EXCEPT ![q.id] = q.account]
    /\ lock' = None
    /\ Goto(r, Idle)
    /\ UNCHANGED <<link, remote, doomed>>

-----------------------------------------------------------------------------
(* deleteDatabase, and DeleteOrganization, which does the same              *)

FindRow(r, id) ==
    /\ req[r] = Idle
    /\ row[id] # None
    /\ Goto(r, [pc |-> "found", id |-> id])
    /\ doomed' = doomed \cup {id}
    /\ UNCHANGED <<primary, lock, remote>>

\* an error of Turso ends the handler, "not found" after a first attempt too
DestroyRemote(r) ==
    LET q == req[r] IN
    /\ q.pc = "found"
    /\ remote[q.id] # "absent"
    /\ remote' = [remote EXCEPT ![q.id] = "absent"]
    /\ Advance(r, "destroyed") \/ Goto(r, Idle)
    /\ UNCHANGED <<primary, lock, doomed>>

\* PRAGMA foreign_keys is set on one connection of the pool.  There a linked row
\* cannot be deleted, and an organization goes with its database; on the others
\* whatever refers to the row stays behind.
RemoveRow(r) ==
    LET q == req[r] IN
    /\ q.pc = "destroyed"
    /\ lock = None
    /\ row' = [row EXCEPT ![q.id] = None]
    /\ \/ /\ \A u \in User : link[u] # q.id
          /\ owner' = [owner EXCEPT ![q.id] = None]
       \/ UNCHANGED owner
    /\ Goto(r, Idle)
    /\ UNCHANGED <<link, lock, remote, doomed>>

-----------------------------------------------------------------------------
\* an error return, a timeout or the end of the process; an open transaction is
\* rolled back and nothing remote is
Fail(r) ==
    /\ req[r] # Idle /\ req[r].pc # "created"
    /\ lock' = IF lock = r THEN None ELSE lock
    /\ Goto(r, Idle)
    /\ UNCHANGED <<primary, remote, doomed>>

Ask(r) ==
    \E id \in Id :
        \/ \E u \in User, capped \in BOOLEAN : AskOrganization(r, id, u, capped)
        \/ \E u \in User : AskUserDatabase(r, id, u)
        \/ \E kind \in Kind \ {"organization"}, account \in User \cup {None} :
              AskDatabase(r, id, kind, account)
        \/ FindRow(r, id)

Create(r) ==
    \/ CheckFree(r) \/ CreateRemote(r) \/ BuildRemote(r) \/ Compensate(r)
    \/ InsertRows(r)
    \/ BeginOrganization(r) \/ SeedOwner(r) \/ CommitOrganization(r)

Delete(r) == DestroyRemote(r) \/ RemoveRow(r)

Next == \E r \in Request : Ask(r) \/ Create(r) \/ Delete(r) \/ Fail(r)

Spec == Init /\ [][Next]_vars

-----------------------------------------------------------------------------
(* Safety *)

\* A row is backed by a remote database with its schema, unless somebody asked
\* for the deletion of that id: whoever wins or loses a race for an id, the loser
\* does not delete the winner's database when it cleans up (createDatabase).
RowsAreBacked ==
    \A d \in Id \ doomed : row[d] # None => remote[d] \in {"built", "seeded"}

\* "user: one database per user": a user database belongs to exactly one user,
\* although two requests for the same user each build a remote database.
UserDatabasesLinked ==
    \A d \in Id : row[d] = "user" => \E u \in User : link[u] = d

OneLinkPerDatabase ==
    \A u, v \in User : link[u] # None /\ link[u] = link[v] => u = v

\* An organization in the primary database has its owner as a member in its own:
\* with no member nobody could ever invite one.
OrganizationsHaveOwner ==
    \A d \in Id : row[d] = "organization" =>
        /\ owner[d] # None
        /\ d \notin doomed => remote[d] = "seeded"

Makers(u) ==
    {r \in Request :
        req[r].pc \in CreatePc /\ req[r].kind = "organization" /\ req[r].account = u}

\* what u owns, and will own when all that is under way succeeds
UnderCap(u) == Cardinality(Owned(u)) + Cardinality(Makers(u)) <= Limit

\* ATOMBASE_MAX_ORGANIZATIONS_PER_USER is checked once, before the many steps of a
\* creation.  A user gets above it, whatever others do and which creations fail,
\* only by asking while another one of theirs is under way, or through the service
\* (createOrganization).
CapKept ==
    [][\A u \in User : Limit > 0 /\ ~UnderCap(u)' /\ UnderCap(u) =>
          \E r \in Makers(u)' \ Makers(u) :
              Makers(u) # {} \/ ~req'[r].capped]_vars

-----------------------------------------------------------------------------
(* Inductive invariants: what the safety properties rest on *)

Holds(r, id) ==
    req[r].pc \in {"created", "built", "inserted", "seeded"} /\ req[r].id = id

\* who deletes an id is on record, and the open transaction holds the lock
ProtocolInv ==
    \A r \in Request :
        /\ req[r].pc \in {"found", "destroyed"} => req[r].id \in doomed
        /\ req[r].pc \in {"inserted", "seeded"} =>
               lock = r /\ req[r].kind = "organization"

\* an id that nobody deletes has at most one maker, whose work is not lost and
\* not yet visible
MakerInv ==
    \A r \in Request : \A d \in Id \ doomed : Holds(r, d) =>
        /\ row[d] = None
        /\ \A s \in Request : Holds(s, d) => s = r
        /\ remote[d] # "absent"
        /\ req[r].pc \in {"built", "inserted"} => remote[d] \in {"built", "seeded"}
        /\ req[r].pc = "seeded" => remote[d] = "seeded"

-----------------------------------------------------------------------------
(* The directory that clients see: a database counts when all of it is there. *)

Whole(d) ==
    /\ remote[d] = "seeded" \/ (remote[d] = "built" /\ row[d] # "organization")
    /\ row[d] = "user" => \E u \in User : link[u] = d
    /\ row[d] = "organization" => owner[d] # None

Seen(d) ==
    IF d \in doomed THEN "doomed"
    ELSE IF row[d] = None THEN "absent"
    ELSE IF Whole(d) THEN row[d] ELSE "broken"

AccountOf(d) ==
    IF d \in doomed \/ row[d] \in {None, "global"} \/ ~Whole(d) THEN None
    ELSE IF row[d] = "user" THEN CHOOSE u \in User : link[u] = d
    ELSE owner[d]

D == INSTANCE Directory
        WITH kind <- [d \in Id |-> Seen(d)], account <- [d \in Id |-> AccountOf(d)]

\* Databases appear whole and at once, one for a user, and only a request for
\* their deletion takes them away (createDatabase, deleteDatabase).
ImplementsDirectory == D!Spec

=============================================================================
