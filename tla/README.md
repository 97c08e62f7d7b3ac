# Atombase: specifications and proofs

TLA+ models of the Atombase server (`src/api`, Go), the TLC configurations that
check them on small instances, and TLAPS proofs of what matters most for every
value of the constants. Paths are relative to the repository; `api/...` is the
server. A definition that translates code is listed with its lines in
`PROJECT.json` under `map`.

Run a check with `tlc -config X.cfg M`, a proof with `tlapm M_proofs.tla`.

## 1. The system

Atombase gives every organization, and every user who wants one, a SQLite
database of its own at Turso. One *primary database* knows definitions (a schema
with versions, access policies and management policies), databases, users,
sessions and organizations. One Go process serves three groups of endpoints:
`/platform` (service key: definitions, databases), `/auth` (logins, accounts,
organizations) and `/data` (queries on the remote databases).

**No transaction spans two databases**, and most handlers are sequences of single
statements in no transaction at all. What is hard is therefore the same
everywhere: what happens between two statements of a handler, when another
handler runs, an answer is lost, or the process ends there.

| Component | State | Operations | Interacts with | What makes it correct |
|---|---|---|---|---|
| Membership and ownership (`auth/org_membership.go`, `auth/org_management.go`) | `atombase_membership` in the organization's database; `owner_id` in the primary | create, update, delete a member; transfer ownership | reads roles, decides, writes later in a guarded statement; the transfer writes two databases | an active owner remains; owners come from owners; a revoked member writes nothing; owner recorded = owner promoted |
| Invitations (`auth/org_invites.go`) | `atombase_invites` in the organization's database | create (with a letter), revoke, accept, expiry | writes the membership table; holds the write lock while the mail server answers | nobody is invited to a role the inviter may not give; no invite without a letter; accepting takes no owner away |
| Definitions (`platform/definitions.go`) | `atombase_definitions`, `_history`, `atombase_migrations` | create, push, read | tries a push on the oldest database before publishing it | history is append-only; versions are consecutive; published SQL works |
| Lazy migration (`data/migration.go`, `data/schema_cache.go`, `data/data.go`, `primarystore/store.go`) | `definition_version` per database, the remote tables, a cache of the current definition | resolve, load definition, migrate batch, record version | every data request passes through it, pushes and restarts run beside it | a request sees tables at least as new as the version it serves; a database has the tables of one version |
| Database life cycle (`platform/databases.go`, `auth_resolver.go`, `auth/user_database.go`) | `atombase_databases`, `atombase_users.database_id`, `atombase_organizations`, the databases at Turso | create for a global, user or organization definition; delete | remote call first, rows last; compensation on failure; foreign keys | rows are backed; one user database per user; an organization has an owner on both sides; the cap is kept |
| Logins (`auth/magiclink.go`, `auth/users.go`, `auth/sessions.go`) | `email_magic_links`, `atombase_users`, `atombase_sessions` | start, complete, sign out | mail between the two halves | a link opens one session, for the address it was sent to; one user per address; a promised link works |
| Migration plans (`platform/migrations.go`, the push of `packages/cli`) | none | diff of schemas on both sides, renames by position, phases of statements | used by push | the plan takes one schema to the other; kept and renamed columns keep their data |
| Access policies (`definitions/compiler.go`, `data/*policy*.go`) | compiled conditions | compile, evaluate, attach to a query | loaded with the definition | a row is visible iff the condition holds of it |
| Queries and batches (`data/queries.go`, `data/build_query.go`, `data/batch.go`, `data/db_retry.go`) | none of their own | select, insert, upsert, update, delete; batch; retry while locked | run on the migrated database, under the policies of its version | what is written was permitted at that moment; a batch is all or nothing |
| Caches (`tools/cache_*.go`, `tools/schema_cache.go`) | key-value entries | get, set, invalidate | definitions, databases | entries agree with the primary database |
| Definition rules (`definitions/service.go`, `definitions/provision.go`, `primarystore/store.go`) | `atombase_provision_policies` and `_access_policies` per version, `_management_policies` per definition | validate, store with a push, load, evaluate | pushes race; user databases, members and queries read them | what is stored reads as it was authored; who is admitted is decided by a published rule |
| Callers (`tools/middleware.go`, `auth/sessions.go`, `auth/handlers.go`) | sessions, the header of a request | identify, validate a session, act, sign out | in front of every handler | a request acts as the one whose key or session it carries; an ended session stays ended |
| Filters (`packages/sdk/src/filters.ts`, `data/query_json.go`) | none | build in the SDK, translate to WHERE | part of selects, updates, deletes | a filter keeps the rows it says |
| Configuration, tools, the rest of SDK and CLI | configuration | format, log, send | - | - |

`PROJECT.json` lists them all, with the ones that are not modelled and why, and
lists under `hazards` what a test would hardly reach, each at its line.

## 2. The modules

| Module | Models | Checked by | Proofs |
|---|---|---|---|
| `OrgMembership` | member handlers and transfer | `MCOrgMembership` | `OrgInvites_proofs` |
| `OrgInvites` (EXTENDS `OrgMembership`) | invitations beside the member handlers on one database | `MCOrgInvites` | `OrgInvites_proofs` |
| `LazyMigration` | pushes, versions, creation and deletion as far as they touch versions, data requests | `MCLazyMigration` | `LazyMigration_proofs` |
| `DatabaseLifecycle` | creation, compensation and deletion of databases | `MCDatabaseLifecycle` | `DatabaseLifecycle_proofs` |
| `Directory` | abstract: a database is there whole or not at all; implemented by `DatabaseLifecycle` | `MCDatabaseLifecycle` | `DatabaseLifecycle_proofs` |
| `Logins` | magic links, first logins, sessions | `MCCallers` | `Callers_proofs` |
| `Callers` (EXTENDS `Logins`) | header, validation, expiry and end of sessions, beside the logins | `MCCallers` | `Callers_proofs` |
| `DefinitionRules` | provision, management and access: authored, pushed, stored, loaded, evaluated | `MCDefinitionRules` | `DefinitionRules_proofs` |
| `MigrationPlan` | one push: the client's diff and renames, the server's diff and plan, the plan's statements on a database | `MCMigrationPlan` | `MigrationPlan_proofs` |
| `AccessPolicy` | conditions, their compilation, a reference meaning | through `DataWrites` | `DataWrites_proofs` |
| `TernaryLogic` | SQLite's AND, OR and NOT over sets of truth values, for the reference meanings | through `AccessPolicy`, `Filters`, `DefinitionRules` | - |
| `DataWrites` (EXTENDS `AccessPolicy`) | insert, insert or ignore, upsert, update, delete and batches under policies | `MCDataWrites` | `DataWrites_proofs` |
| `SerialWrites` | abstract: each operation and each batch happens at one instant; implemented by `DataWrites` | `MCDataWrites` | `DataWrites_proofs` |
| `Filters` | the SDK's helpers, the clauses the server makes of what they build, what SQLite makes of those, and the reference meaning | through `Selects` | `Selects_proofs` |
| `Selects` (EXTENDS `Filters`) | one select with its count: policies, the SQL that is built, what SQLite makes of it | `MCSelects` | `Selects_proofs` |

In all but `MigrationPlan` and `Selects`, which are one push and one request, a handler is a slot (`Request`, `Push`) with a program counter and
what the Go code keeps in local variables. **One action is one SQL statement, one
transaction, or one remote call, with the Go code that follows it up to the next
one**; that is the granularity at which handlers interleave, because a SQLite
database runs one write at a time. `Fail` (or `FailPush`, `Finish`, `FailInvite`) is
any error return, timeout or end of the process between two of them: local state
is lost, an open transaction rolls back, everything else stays. Operators whose
comment starts with `Mutant:` are plausible bugs, used to show that the
properties notice them; no next-state relation contains one.

**OrgMembership.** `AuthorizeCreate`, `InsertMember`: `createOrganizationMember` reads
the actor's role, then inserts `WHERE EXISTS (actor active)`. `ReadTarget`,
`AuthorizeUpdate`, `UpdateMember` and `AuthorizeDelete`, `DeleteMember` likewise, whose
write counts the owners itself. `AuthorizeTransfer`, `PromoteOwner`, `RecordOwner`:
the transfer's write to the organization's database and the one to the primary.
`Management` is the definition's management map: per role the sets of roles it may
invite, assign and remove (`permissionAllows`). `everOwner` and `byOwner` are history
variables: the users who have been active owners, and the handlers in flight whose
actor has been one since they began.

**OrgInvites.** `SendInvite` is the INSERT and the letter, `CommitInvite` the commit;
in between `locked` keeps all other writes of that database waiting. `AcceptInvite`
is one transaction in the code and one action here. An e-mail address stands for
its user.

**LazyMigration.** A schema is a set of tables; the SQL between two versions creates
the new ones (fails when one exists) and drops the gone ones (never fails).
`ReadDefinition`, `Probe` or `SkipProbe`, `Publish`: `pushDefinition`. `ResolveTarget`,
`HitDefinition` or `LoadDefinition` and `SetDefinition`, `NoMigration` or `MigrateBatch`
and `RecordVersion`, `Finish`: `withDB` up to the query. `Restart` loses handlers and
perhaps the cache. `reached` is a history variable: the version a database was
brought to by SQL that was meant for it, 0 once other SQL ran there.

**DatabaseLifecycle.** `Ask...` are the three handlers in front of `createDatabase`
with their checks; `CheckFree`, `CreateRemote`, `BuildRemote`, `Compensate`,
`InsertRows`, and for an organization `BeginOrganization`, `SeedOwner`,
`CommitOrganization` (whose transaction stays open over a remote call) are
`createDatabase`; `FindRow`, `DestroyRemote`, `RemoveRow` are `deleteDatabase` and
`DeleteOrganization`. A lost answer is the same action with the handler failing.
`doomed` is a history variable: the ids whose deletion somebody has begun.
`Directory` sees of all this only ids that are absent, there with their user or
owner, or doomed. The refinement mapping (`Seen`, `AccountOf`) makes a database with a
row and something missing "broken", which is no kind `Directory` knows: a creation
has one step that takes an id from absent to whole.

**Logins.** `SaveLink`, `SendLetter`, `DropLink`: `BeginMagicLogin`. `ConsumeLink` (a
DELETE ... RETURNING), `FindUser`, `CreateUser`, `SaveSession`: `CompleteMagicLink`.

**Callers.** `AuthMiddleware` is the middleware of the same name: it looks at the shape
of the header and, for the service, at the key; a session token is passed on as it
came. `ResolvePrincipal` is whatever the handler calls for its caller (`getSession`,
`getOrgActor`, `ResolvePrincipal`), which reads the session's row: two steps, between
which another request may sign out and the clock may pass `expires_at` (`Lapse`).
`SignOut` deletes the row; `EndCall` is any answer. A token is the id of a session and
whether the secret is right.

**DefinitionRules.** One definition with racing pushes: `PlanPush` is all that
`pushDefinition` does with what it read, `CommitPush` its transaction, which fails when
the version is taken. `CreateDefinition` is one transaction. `JudgeUser`,
`BuildDatabase` and `InsertDatabase` are `createUserDatabase`, whose version is read
twice; `CreateOrganization` is `createOrganization`. A provision condition is a tree
of records of some `Depth`, evaluated as `evalProvisionCondition` does, in order, with
errors; a
permission is kept in its authored form and read back through the rows it is stored
as. Of an access condition it keeps what validation looks at. `pushed` is a history
variable: the request that made each version, which no request that stores over it replaces.

**MigrationPlan.** `Ask` is the CLI: it lists the changes and its user confirms some
drop and add pairs as renames, by position. `Plan` is the server's own list and
`GenerateMigrationPlan`. Then each step of the plan is an action, `RenameTable` to
`DropTable`, that says what its statements do to tables, columns, keys, full-text
indexes and indexes in SQLite; a step whose statement fails ends the push
(`Reject`). Lists are in any order a Go map can give. A column has a type, UNIQUE
and one clause (check, references or generated) that SQLite changes only in a new
table; NOT NULL, defaults and collations behave as one of these. The database is
both the probe database of `ValidateMigrationExecution` and the remote one, which run
the same statements; the current schema, not a drifted one, is what they start
from. The data of a column is the name it had in the old schema.

**AccessPolicy and DataWrites.** A condition is a tree of records; the compiled
predicate is its decision and the meaning of its SQL as a function of the stored
row, the written row and the membership. `Meaning` is the reference: leaf by leaf
the same comparisons, joined in SQLite's three-valued logic. `Depth` is how deep a condition
is nested, at most the 10000 levels that `encoding/json` decodes; the proofs go by it. A row is its owner, the
column that conditions speak of. `CheckInsert` or `SkipCheck` is `validateInsertRows`,
`LookUpRow` and `CheckUpdate` are the two statements per row of `validateUpsertRows`,
`Write...` are the statements that write, each with its policy in its WHERE.
`StartBatch` and `Commit` surround a batch. A transaction takes its snapshot at its
first statement (`Read`) and cannot write once it is stale: this is SQLite's
behaviour for deferred transactions. `execWithRetry` is the guard `MayWrite`.
`SerialWrites` has only the committed rows, the policies and the memberships, and lets
a whole operation or a whole batch happen in one step, under what the policies mean
then; `AfterEach` are the rows after each operation of a batch. The mapping is the
identity on the variables both have.

**Filters.** `On`, `or`, `and`, `not` build what the helpers of the SDK build. `Wheres`
is what `BuildWhereFromJSON` makes of it: a conjunction of disjunctions of
comparisons, in every grouping that the order of a Go map can give; `Binds` says
which values SQLite can bind. `Says` is the reference, in SQLite's three-valued logic.

**Selects.** A request names a chain of tables: the base table and what is nested in
it by foreign keys, or one table joined to it. `Build` asks the policy of every
table, checks depth and foreign keys, and puts `Statement` together as
`buildSelect`, `BuildCustomJoinSelect` and `selectJSON` do: the clauses that decide what
is returned, in the order in which they stand in the SQL, and the arguments in the
order in which they are appended. SQLite binds arguments by position and refuses a
second WHERE or one behind GROUP BY (`WellFormed`, `Bound`); `Results` is what it
returns, a tree of ids per row, and a set of them because an aggregate without GROUP
BY may take its columns from any row. `Count` and `Fetch` are the two statements of
`selectJSON`, `Change` is anybody else. `Asked` is the reference: the trees of
permitted rows along the foreign keys, said without SQL.

## 3. What the runs show

Most properties are safety properties: invariants, and action properties
`[][A]_vars`. Two runs show that a module implements an abstract one. Deadlock is
checked in every run but those of `Selects`, whose only request ends with its
answer, and of `DefinitionRules`, where versions end at the bound and everything else
may be refused.

**Fairness** is assumed in one place, `FairSpec` of `DataWrites`, run `writes_end`: a
handler that has a statement it can run goes on (the Go scheduler), and one whose
statement is an error for good returns it. That alone gives `SomebodyEnds`: whatever
locks and snapshots requests hold, they do not block each other in a circle, since a
transaction with a stale snapshot gets an error and not a place in the queue.
That each single request ends is not claimed of the model, which has neither the twelve
attempts of `execWithRetry` (`data/db_retry.go:46`) nor the thirty seconds of
`TimeoutMiddleware` (`tools/middleware.go:208`) that end it in the code. Nowhere else is
liveness claimed: every handler may fail at any point, remote services promise no
answer, clients promise no retry, and the code has no background worker that would
finish what a handler left.

| Run | Instance | Shows |
|---|---|---|
| `members` | 3 users, owner and one other role, 2 statuses, 2 handlers | an active owner remains, owners come from whoever was an owner during that request, recorded owners were promoted, revoked actors write nothing |
| `invites` | 2 users, 2 roles, 1 invite id, 2 handlers | owner invitations come from owners, stored invites were mailed, the last owner is lost only by accepting another role |
| `migration_requests` | 2 tables, 1 database, 1 push slot, 2 requests, 3 versions | served tables are new enough |
| `migration_pushes` | 1 table, 2 databases, 2 push slots, 1 request, 3 versions | history is fixed, no store names an unpublished version, tracked databases are whole |
| `lifecycle` | 2 users, 2 ids, 2 handlers, cap 1 | rows are backed, user databases linked and linked once, organizations have their owner on both sides; a user gets above the cap only by asking while another creation of theirs is under way; all of it implements `Directory` |
| `migration_plan` | one table in every shape of 4 columns that differs in a way the code distinguishes, or two plain tables; every pair of such schemas, every order of changes, every set of renames | an accepted push has the pushed schema, kept columns keep their data, renames carry it over |
| `data_writes` | 2 keys, 2 requests of a user, an anonymous client or the service, 6 operations, 2 batches, 5 sets of policies, changing membership | writes were permitted, refusals were justified, batches are seen whole, only rows without a verdict are left out; all of it implements `SerialWrites` |
| `writes_end` | 2 keys, 2 requests of a user, 2 operations, 2 batches, 1 set of policies | under fairness, as long as there are requests, one after another ends |
| `selects` | 3 tables, up to 3 rows in one, 5 sets of policies, 11 kinds of requests and 21 filters, one change by others | answers are the page asked for of the rows asked for, counts in a batch count them, refusals are exactly the denied tables |
| `callers` | 2 addresses, 2 links, 2 user ids, 2 session ids, 2 logins and 2 other requests | single use, promises kept, sessions of the right mailbox; an ended session opens nothing, and whoever acts holds the key |
| `rules` | 2 users, 2 roles, 2 schemas, 4 rules, 4 management maps, 3 access maps, 2 push slots, 2 versions | management and access read as authored with the version they belong to, users are judged by the rule of the version they looked up |
| `organizations_unruled` | the same | violated: see findings |

**Bounds.** *Handlers*: two are enough for every check-then-write race in this code,
because a handler writes an item after one read of it; that a failed letter may meet a
replaced link and a completion at once, which takes three, is in the proofs of
`Callers_proofs`, which are for any number. *Users*: three give an
owner, a second owner and a bystander, and with two users every invitation case
(owner invites other, other invites owner, owner invites owner) exists. *Versions*:
`MaxVersion` = 3 lets a database be two versions behind, a table disappear and come
back, and two pushes race after a first one; the guard is in `ReadDefinition`. Two are
enough in `DefinitionRules`, where versions do not build on each other.
*Ids* of databases, links, sessions and users are random in the code and pools
here; a used link or session id is not drawn again. *Cap*: `Limit` = 1 is the
smallest that two creations can exceed. `Symmetry` permutes values that are
interchangeable; databases in `LazyMigration` are numbers because
`getDatabasesByDefinition` orders them, and no symmetry is used for them.

*Rules*: together they have every kind of leaf and connective, a list where a list
belongs and where none does, and `allow()`; the management maps have every form of a
permission and one that names no role; the access maps one that only an
organization may have and one that no insert may have.

*Policies*: the five sets use every kind of leaf and every connective over parts
with and without SQL; the two keys let one statement write a permitted and a
refused row. *Schemas*: `MCMigrationPlan` groups them by what their changes can
meet: clauses and types with an index, several columns with a table built anew,
full-text indexes, key columns, and tables that come, go or change places.

*Selects*: a chain of three tables is the shortest with a relation inside a nested one;
three rows and a maximum of two make pages; one change falls between the two
statements, and before the first one any database is possible anyway. The requests of
the run `selects` are the ones whose SQL is sound, those that are refused, and
combinations SQLite rejects; the ones with a wrong answer have configurations of
their own, which refute the property (see findings).

The type invariants of `OrgInvites`, `LazyMigration`, `Logins`, `Callers` and
`DefinitionRules` hold on these instances too and are parts of the inductive invariants
below, and so do those of `MigrationPlan` and `Selects`; the runs leave them out in favour
of the properties above.
Each property of a passing run has a mutant in `PROJECT.json` under which it fails.

### Findings

The run `organizations_unruled` has one property that TLC refutes; the property states
what a document says:

**Organizations are made without a rule** (`auth/org_management.go:173`).
`createOrganization` never asks the definition's provision rule, as
`createUserDatabase` does; `docs/definition-model.md:176` says that self-service
provisioning is rejected when `provision` is omitted, of user and organization
definitions.

The following are refuted in the same way by configurations that are no runs of
the project, because each singles one defect out on an instance of a module that a
run already checks:

| Configuration | Refutes | Because |
|---|---|---|
| `MCOrgLastOwner.cfg` | `ActiveOwnerExists` | **The last owner can be demoted by an invitation** (`auth/org_invites.go:317`): the upsert of `acceptOrganizationInvite` overwrites the role of an existing member. The other two ways are guarded and tested (`org_membership_test.go:318`). |
| `MCLazyMigrationStale.cfg` | `LoadedIsCurrent` | **The cached definition is never refreshed** (`data/schema_cache.go:14`): no push invalidates it and entries have no expiry; databases are not migrated, and the probed one, ahead of the entry, is refused. |
| `MCLazyMigrationGap.cfg` | `BehindIsMigratable` | **A version without SQL stops all migrations** (`primarystore/store.go:418`): it has no migration row, and `GetMigrationsBetween` wants a chain without gaps. |
| `MCMigrationPlanLoss.cfg` | `OnlyAnnouncedLoss` | **A rename can lose the data it was to keep** (`platform/migrations.go:405`): when another change of the table needs a new one, only columns that both schemas name are copied. And the positions of a rename are those of the client's list, whereas the server's is in the order of a Go map (`migrations.go:573`): other changes may be renamed, or left out of the plan without a rename. |
| `MCSelectsFiltered.cfg` | `SelectsAnswered` | **Selects with a filter and a policy, or with a filter and a nested relation, are no SQL** (`data/queries.go:76`): the filter's WHERE is put behind the policy's WHERE and the GROUP BY. Example 5 of `docs/implementing-database-model.md` is one. |
| `MCSelectsColumns.cfg` | `SelectsAnswered` | **A nested select without columns of its own is no SQL** (`data/build_query.go:195`): it groups by the types of the columns. |
| `MCSelectsDeep.cfg` | `AnswerIsPage` | **A relation nested in a nested one loses rows** (`data/build_query.go:313`): its subquery aggregates without GROUP BY and returns one row. |
| `MCSelectsJoined.cfg` | `AnswerIsPage` | **In a join with a policy and a filter the arguments change places** (`data/queries.go:73`): those of the filter come first, its clause last. |
| `MCSelectsOperators.cfg` | `AnswerIsPage` | **Several operators of one column are alternatives** (`data/query_json.go:173`): `{gt: 1, lt: 3}` becomes one clause of two comparisons, and the comparisons of a clause are joined by OR. |
| `MCSelectsOr.cfg` | `AnswerIsPage` | **Several columns in one alternative are alternatives too** (`data/query_json.go:93`). |
| `MCSelectsAnd.cfg` | `HelpersUnderstood` | **`and(...)` and `not(...)` of the SDK are not all understood** (`packages/sdk/src/filters.ts:163`, `:152`): the server takes `and` for a column and refuses the request, and `not` of anything but comparisons of a column as well. |
| `MCDefinitionRulesRace.cfg` | `DatabasesAdmitted` | **A user's database may be of another version than the rule that admitted him** (`auth/user_database.go:77`): a push between judging and building. |
| `MCDefinitionRulesAllow.cfg` | `AllowAdmits` | **`allow()` denies everybody in a provision rule** (`definitions/provision.go:22`), while it admits everybody in an access policy (`definitions/compiler.go:34`). |
| `MCDefinitionRulesNone.cfg` | `GrantsAsPushed` | **A permission for an empty list of roles is one for any role**: it is stored as `''` and loaded as that (`primarystore/store.go:168`). |

Seen while modelling and without a run of their own:

- A policy on a column that both tables of a join have is ambiguous SQL, because it
  does not name its table (`data/build_query.go:594`).
- A push runs its SQL on `existingDBs[0]` whatever version that database has, and
  records the new version there: migrations still due on it never run
  (`platform/definitions.go:373`, `:474`).
- A committed batch whose answer is lost, or whose version is not recorded, is run
  again and fails on its own tables, in the retry loop and on every later request
  (`data/migration.go:56`).
- Requests in flight together are all counted against the cap on organizations
  before any of them creates one (`auth/org_management.go:204`): `CapKept` says that
  there is no other way above it.
- A push that changes access or management only is refused as `ErrNoChanges`
  (`platform/definitions.go:321`).
- `validateDataConstraints` is never reached: the only call of `ValidateMigrationPlan`
  passes no probe database (`platform/definitions.go:339`). `createDefinition` does not
  validate references, and a first version that cannot be built is the base of the
  probe of every later push (`platform/validation.go:46`), which is refused.
- An operator that a provision rule does not know makes its comparison false, and the
  negation of it true (`definitions/provision.go:65`).
- An upsert outside a batch looks rows up, asks their update policies and writes in
  separate statements: a row that appears or changes in between is replaced under
  the insert policy alone (`data/queries.go:304`; `api/README.md:239` says both must
  authorize). `WritesAuthorized` claims the update policy for batches.
- An insert leaves out, with success, rows for which the policy is NULL
  (`data/queries.go:353`): `DroppedRowsAreNull`.
- `auth.status` compared with `member` or `anonymous` ignores the operator in
  organizations (`definitions/compiler.go:139`); a membership counts whatever its
  status (`data/policy_sql.go:19`).
- A mirror whose key changes its type selects its columns in another order than it
  inserts them when a name sorts before the key's (`platform/migrations.go:426`);
  `KeptColumnsKeepData` leaves such tables out.
- A changed set of full-text columns ends without an index, because its creation
  comes before the removal of the old one (`platform/migrations.go:155`).
- A modified type, NOT NULL, UNIQUE or default has no SQL: databases that migrate and
  databases that are created differ (`platform/migrations.go:124`).
- An index that moves to another table under its name is not created, or removed
  with the old one (`platform/migrations.go:453`). A unique, indexed or referring
  column cannot be dropped: the push is rejected.
- A renamed table leaves its full-text index behind under the old name.
- `docs/unified-database-model.md:128` lets `owner_id` manage members whatever the
  management map says; the member handlers do not read `owner_id`.
- An update with a new role checks `assignRole` for the new role only
  (`auth/org_membership.go:301`), so the target's present role, an owner's for
  example, needs no permission; without a new role the target's role is checked.
- An owner who is demoted while a create is in flight still inserts an owner:
  the write asks whether the actor is active, not for the role
  (`auth/org_membership.go:242`). `OwnersMadeByOwners` therefore asks that he was an
  owner at some time since that request began, and no more.
- A push that fails after its probe leaves its SQL on the probed database
  (`platform/definitions.go:373`); `MigratedWhole` excludes such databases.
- A request that loaded an older definition runs its batch after a newer one
  (`data/migration.go:56`) and may drop a table the newer version has again.
- A second deletion of an id that was created again in between destroys the new
  database (`platform/databases.go:298`); the life-cycle properties speak of ids
  nobody has asked to delete.
- A linked user database cannot be deleted where foreign keys are on: the remote
  side is gone by then and the row stays (`platform/databases.go:301`).
- `PRAGMA foreign_keys` is executed on one connection of the pool (`main.go:99`),
  so that `RemoveRow` has both outcomes.
- A remote database whose creation was not recorded occupies its name for good.
- `max_members` is stored and returned, and no member or invitation handler reads it.

## 4. What is proved

TLAPS checks the following for all values of the constants that satisfy the named
assumption of the module: any number of users, handlers, ids, versions and tables. Every
inductive invariant was checked by TLC, on the instance of the module's run, before it was
proved.

Of the 40 properties of the passing runs, 39 are theorems; the other one is liveness.

### Membership and invitations

`OrgInvites_proofs`, from `ConstantsAssumption` (the owner role and the active
status exist, the service is no user, NULL is none of the values). Its first part is about
`Spec` of `OrgMembership`, member requests alone:

- `TypeCorrect`: `Spec => []TypeOK`.
- `OwnerAlwaysExists`: `Spec => []ActiveOwnerExists`. Inductive together with
  `TypeOK`: each write is one row; it either writes an active owner, or its guard
  finds a second one in the same statement, or it does not touch an active owner.
- `OwnerPromotedBeforeRecorded`: `Spec => []RecordedOwnerWasOwner`. Not inductive:
  `HistoryInv` adds that a handler between the two writes of a transfer has a
  target that has been an owner.
- `NoEscalation`: `Spec => OwnersMadeByOwners`, under `OwnersManageOwners`: only the
  owner role invites, assigns or transfers ownership. `AuthorityInv` adds that the actor
  of a handler about to write an owner row has been an active owner since that handler
  began: `byOwner` loses a handler only when it ends.
- `RevokedActorIsRefused`: `Spec => RevokedActorWritesNothing`. Only a statement that
  looks at its actor again changes a row.

Its second part is about `InviteSpec`, in which invitations and member requests share
one database. What a member request does there is taken from the lemmas of the first
part; the invitations' own inductive invariant is `InvitesInv`.

- `MailedBeforeStored`: `StoredInvitesWereMailed`, because a handler whose transaction is
  open has handed its letter over (`MailInv`).
- `OwnersInviteOwners`: `OwnersInvitedByOwners`, under `OwnersManageOwners` again.
  `InviterInv` adds that an invitation under way was authorized by an owner or the
  service, who may have lost the role by the time it is stored. Without the hypothesis
  the definition itself lets others manage owners, and there is nothing to claim.
- `LastOwnerAcceptsAway`: `LastOwnerLostByOwnAcceptance`. The finding of
  `MCOrgLastOwner.cfg` is the only way: a member request keeps an owner beside
  invitations as well, and an acceptance writes the row of the accepting user only.

### Database life cycle

`DatabaseLifecycle_proofs`, from `LifecycleAssumption`:

- `TypeCorrect`: `Spec => []TypeOK`.
- `RowsBacked`, `OrganizationsOwned`, `UsersLinked`, `LinksUnique`: the four safety
  properties of the run `lifecycle`. `RowsAreBacked` is not inductive: a
  compensation deletes a remote database by name, and must not meet a row of that
  name. `MakerInv` says why it does not: an id that nobody deletes has at most one
  handler between the creation of its remote database and its row, there is no
  row yet, and the remote database is as far as the handler's counter says;
  `ProtocolInv` says that deleters are on record in `doomed` and that the open
  transaction of an organization is the one that holds the write lock. The lemmas
  `Touches` and `Takes` reduce the proof to one observation about a step: nobody
  but the maker touches an id, and only creating the remote database makes one.
  The inductive invariant is `SafetyInv`, the conjunction of all of them.
- `CapNotPassed`: `Spec => CapKept`. What a user owns and what is being made for them
  are counted together; a step that makes one of the sets larger takes what it adds
  from the other, except for a request. Cardinalities need finite sets, so
  `LifecycleAssumption` says that ids and handlers are finite in number.
- `DirectoryImplemented`: `Spec => ImplementsDirectory`, the refinement. By `SafetyInv`
  what clients see of an id depends on its rows alone (`RowsAreSeen`), so that the steps
  at Turso are stutters, `InsertRows` and `CommitOrganization` are the abstract
  creation, and the begin of a deletion is the abstract deletion.

### Logins and callers

`Callers_proofs` is about `CallersSpec`, logins and other requests together:

- `CallersTyped`: the type invariants of both modules.
- `OneSessionPerLink`, `LinkWorksOnceAnnounced`, `SessionsAreOfTheirMailbox` (the last
  with `OneUserPerAddress`), from `LoginInv`. A promise that is kept is not inductive:
  one needs that the row of an address holds the link drawn last and that it is unused
  (`LinkInv`); that every link was drawn for one address (`LetterInv`); that a link that
  is still being sent is nobody else's and not announced (`SendInv`, `HoldInv`), or
  the failure of one letter could take back a link that another request has promised;
  and that a consumed link is in the hands of one request (`CompleteInv`).
- `EndedForGood` and `ActsByCredential`: `EndedSessionsStayEnded` and
  `CallersHoldTheirKey`, from `CallInv`, in which `ProperInv` says of each handler, state by
  state, what its header must be for it to have come there, and `SignedOutInv` that
  an ended session is gone and its id not used again.

### Definitions and their rules

`DefinitionRules_proofs`, from `RulesAssumption`. `StoreInv` says that the versions up to the
current one are there, each with the request that made it, and that management is the
current one's; `PushInv` that a push has been found valid and writes the version after
the one it read; `JudgeInv` that a judgement was by a published rule.

- `TypeCorrect`: `Spec => []TypeOK`.
- `PoliciesAsPushed`: `Spec => []AccessAsPushed`.
- `ManagementAsPushed`: `Spec => []GrantsAsPushed`, under `ListsNameRoles`: no permission
  is an empty list of roles. The hypothesis is the finding of
  `MCDefinitionRulesNone.cfg`: such a list is stored as a permission for any role.
- `RulesDecideAsMeant`: the evaluation of a provision rule decides what the rule says,
  in three-valued logic, for every rule: if it admits, the rule is true of the
  user, if it denies, false, and an error decides nothing. `allow()` without anything is
  read as the server reads it, as a rule that nobody satisfies (see the finding of
  `MCDefinitionRulesAllow.cfg`). By induction over the nesting of conditions.
- `UsersJudged`: `Spec => []JudgedByPublishedRule`, from both.

### Lazy migration

`LazyMigration_proofs`, whose inductive invariant is `MigrationInv`:

- `OnlyPublishedVersions`, `PublishedForGood`: `VersionsPublished`, `HistoryIsFixed`.
- `TablesOfOneVersion`: `Spec => []MigratedWhole`. By `TrackInv` a database on which no push
  tries its SQL has the tables of the version it reached; by `TryInv` a push that can
  still be published has left the tables it wants, and whoever publishes makes the next
  version of them. A batch from one version to another is a recursive function over the
  versions in between; that it ends in the tables of the last one if it runs at all is
  proved by induction over them.
- `ServesWhatItMigrated`: `Spec => []ServedIsMigrated`. `RequestInv` adds that what a request
  has read (`from`), wants (`to`) or serves is not ahead of the tables, whoever migrated
  them.

### Migration plans

`MigrationPlan_proofs`, from `PlanAssumption` (schemas have finitely many tables and indexes,
keys, indexes and searches name columns of their table, and the columns have an order).
It is about all pairs of schemas, all lists of changes that Go's maps can make of a pair,
and all pairs of positions that the client's user confirms. The inductive invariant is
`PlanInv`, three parts of which none needs an order of the steps:

- `Base`: each step of the plan is one of the differences of the two schemas or a rename by
  two of them, indexes and keys name columns that are there, and the tables that both
  schemas have are always there. What a list holds is separated first from the order it
  holds it in (`PickedElements`, `JoinedElements`): `Changes(old, new)` is the set of differences
  that every list of `DiffSchemas` holds (`SchemasListed`), and `Steps` what a plan is
  made of.
- `Direct`, if nothing is renamed: wherever the database differs from the pushed schema, the
  step that mends it is still in the plan (`OnWay`). A mirror, which makes the table
  as it is to be in the end, may come before the columns it adds or drops are at hand, and
  leaves nothing for the steps after it to spoil. That the plan drops last is not needed.
- `Carried`, for renames: a table or column that only the current schema has keeps its data for
  as long as it is there, and once its rename was taken the data is under the new name
  (`RenamesOnWay`). `KeepsTables` is what a step must leave alone for that, and
  `FirstIsDone` what a rename adds.

For every action there is a lemma (`AddColumnIsGood`, `MirrorIsGood` and so on) that it keeps
`Base`, whatever was on its way, and what renames carry (`StepIsGood`); the statements that
write one row share `RowStepIsGood`. The results:

- `PushedSchemaReached`: `Spec => []AcceptedHasSchema`.
- `KeptColumnsKept`: `Spec => []KeptColumnsKeepData`.
- `RenamedDataKept`: `Spec => []RenamesKeepData`.
- `TypeCorrect`: `Spec => []TypeOK`. SQLite reads what a trigger names when it fires, so
  that `TypeOK` does not say that triggers name columns that are there.

### Policies, writes and batches

`DataWrites_proofs`, from `PolicyAssumption` and `WritesAssumption`, in four parts.

*Conditions.* `PoliciesMean`: whatever a policy compiles to has the meaning of its
condition for every row and membership; it is refused at once only if nothing is
permitted, and left without SQL only if everything is. It is the lemma that every
other theorem on policies rests on, and it has one lemma per construct of the
compiler (`DecidedMeans`, `LeafMeans`, `ConjunctionMeans`, `DisjunctionMeans`,
`NegationMeans`).

*Handlers and transactions* (`WritesInv`).

- `TypeCorrect`: `Spec => []TypeOK`; its hard part is that the lock and the
  transaction that writes are one.
- `BatchesVisibleWhole`: `Spec => BatchVisibleWhole`. `HandlerInv` adds that an
  operation is at hand until the last one has written, that only a transaction
  that holds the lock is committed (without it, a commit could release the lock of
  somebody else), and that a handler without a transaction holds no snapshot. The
  proof needs nothing of the policies: batches are whole whatever they permit.

*Checks* (`PolicyInv`).

- `WritesAreAuthorized`, `RefusalsAreJustified`, `LeftOutRowsAreNull`: `WritesAuthorized`,
  `RefusalsJustified`, `DroppedRowsAreNull`. In a batch, a check and the write it was for
  are separate statements. `CheckedInv` says that what was checked still holds when it is
  written: the rows checked so far are permitted in the snapshot of the transaction, which
  others do not change; and a batch that checked before it has a snapshot did so
  without looking at rows, so that it holds in any. `ProgressInv` keeps the state
  of the loop: which rows of an upsert are still to be looked up.

*Batches* (`BatchInv`).

- `WritesAreSerial`: `Spec => ImplementsSerial`, the refinement. `SerialInv` says that the
  snapshot of a transaction that may still write is the latest, apart from what it
  wrote itself, and that what it wrote is the effect of a beginning of its batch run
  alone from the committed rows; what is left of the batch is the rest. Then a commit is
  one abstract batch, a write outside of a batch one abstract operation, and every
  other step a stutter. `AfterEachIs` is the induction over the operations of a batch.

### Selects

`Selects_proofs`, from `SelectsAssumption`.

- `DeniedAreRefused`: `Spec => []RefusedIffDenied`, for every request, with `RefusalInv`: a
  statement is built only after the policy of every table was asked.
- `FiltersMean`: if the server understands a filter, the WHERE it makes of it has the
  truth value that the filter says, for every row. Its hypothesis is `OneTestEach`: a column
  has one test, and an alternative of an `or` one column.
- `AnswersArePages`, `CountsAreOfAnswers`: `Spec => []AnswerIsPage` and
  `Spec => []CountIsOfAnswer`, under the hypothesis `SoundRequests`.

`SoundRequests` says of each request what the findings single out, for which TLC
refutes `AnswerIsPage`: its filter is `OneTestEach` (`MCSelectsOperators.cfg`, `MCSelectsOr.cfg`);
it follows one relation at most, unless it asks for more than `MaxQueryDepth` and is refused
(`MCSelectsDeep.cfg`); and a filter with arguments is not beside a policy of a joined table
(`MCSelectsJoined.cfg`). The one part that no finding asks for is that no table is in a chain
twice, because the model tells clauses apart by their table. Databases, policies, rows, filters,
limits, changes by others, and all other parts of a request are arbitrary. The run `selects`
has only requests that are `SoundRequests`, and TLC checked the inductive invariant on it.

The argument: SQLite binds arguments by position, and the code lists them apart from the
clauses and in another order (the filter's first). `ArgsOf` being a
recursion over clauses, induction gives the arguments of two lists one after the other
(`ArgsOfBoth`) and that the n-th placeholder finds the argument of its own clause
(`OwnArgument`). For a statement that SQLite takes, what is listed first is then either empty or
has no arguments, so that the two orders agree (`ArgumentsInOrder`, `StatementIs`). Hence
each clause demands what it was made for (`IsTrueIs`, `PermittedIs`, `FilterDemands`), and the
rows that are kept are the permitted ones that the filter wants (`KeptIs`). From there
`ResultsAre` and `AskedIs` bring the rows that SQLite puts together and those that the reference
asks for to one form (`Answer`), nested, joined, inner and flat. `AnswerInv` adds to the
properties that a statement once built stays the statement of the request, and that a
count is of the database it was read from, which in a batch is the one of the page.

### Induction

The library's theorems on induction and recursive functions take an operator as a
parameter, which the installed provers cannot instantiate. The proof modules go by the
least counterexample in a set instead (`LeastNumber`, `RangeInduction`, `PartsInduction`, at
the head of each module that uses them):
that a recursive function is defined is shown for conditions below depth 0, 1, 2 and so
on, and then for all of them. This is why conditions have a `Depth`, with a
bound: recursion over trees of unbounded depth would need a further argument that is of no
use to the code, whose decoder has a bound.

### What is only model-checked

- `SomebodyEnds` of `DataWrites`: it rests on fairness, which is out of the prover's
  reach.
- `TypeOK` of `Selects`: that a count is a number needs finitely many rows, which the
  other theorems do not. No run lists it; TLC checked it on the instance of `selects`.
- The configurations of the findings refute their properties; there is nothing to prove.

## 5. What is left out

- *Data that no property tells apart*: names, metadata, columns and indexes within a table, renames, the text of
  statements, answers and letters.
- *Turso's batch* is one atomic step (`BatchExecuteWithToken`), as the code assumes.
- *Changes of the management map during a member's request*: a push replaces it
  (`DefinitionRules`), and a handler reads it once; in `OrgMembership` `Management` is a
  constant. `NoEscalation` uses
  of it only that owners alone manage owners, which a push may keep or give up.
- *One API process*: handlers run concurrently in one process over one primary
  database. `Restart` is in `LazyMigration`; elsewhere `Fail` of each handler covers
  the end of the process, since nothing but databases outlives it.
- *The bound of three attempts* on a batch: `MigrateBatch` may repeat any number of
  times, a superset.
- *Database ids in `LazyMigration`* are not used again after deletion;
  `DatabaseLifecycle` covers that.
- *The cached metadata of databases*: `ResolveDatabaseTarget` reads the primary
  database and not the cache.
- *The two checks before the remote work* of a creation, of the id and of the account,
  are one step (`CheckFree`): both are repeated in the transaction that inserts the rows.
- *`CreateOrganization`'s update of metadata* after the commit is data; *provision
  rules* decide whether a request may ask for a database, and both answers are
  possible in `DatabaseLifecycle`; `DefinitionRules` has the decision.
- *Definitions*: names, roles and type are fixed when one is created, and there is
  one in `DefinitionRules`. Whether the schema of a push can be built is in
  `MigrationPlan`; conditions come from the helpers, not from arbitrary JSON. Of the
  six actions of management, three have targets and are alike, and three are
  booleans.
- *An address that is not verified*: `FindOrCreateUser` sets `email_verified_at` of every
  user, so that the field `verified` of provision rules is always true. Operators that the
  evaluation does not know are left out; it takes them for false.
- *The CLI's list of changes* is taken from the same differences as the server's, though
  its `columnModified` compares with `!==`: the list only numbers the changes for the
  renames, and no property depends on more of it.
- *Headers* that are not well formed are refused before anything is read, and
  are left out of `Callers`, as are the requests of the login itself. Sessions are not
  prolonged by use, and no code deletes those that have lapsed.
- *Foreign keys while a table is built anew*: dropping the old table deletes rows
  that refer to it where foreign keys are on; how the remote databases are set is not
  in the repository. *Rows that break a new constraint* make statements fail; the
  model has no rows there.
- *Policies*: order comparisons and lists (`gt`, `in`), columns beside the owner, and
  conditions that compare a column with the role. The flag
  `NeedsMembershipCTE` follows the SQL it belongs to and is not kept apart. Policies
  do not change during a request: they belong to the version the database has.
- *The number of lock retries*: giving up is possible at any time.
- *Selects*: several relations or joins beside each other, aliases, columns of the
  answer and order. Filters are on one column of the base table; `like`, `glob` and text
  search are left out. A policy of a
  table is one of four decisions here; `AccessPolicy` has the conditions. Text search
  always fails, since no code fills `FTSTables` of the schema cache.
- Not modelled at all: configuration, logging, encryption, the formatting of answers
  and errors, reading endpoints, the letters, and the TypeScript packages but for the
  push and the filters (input and output, no protocol of their own).

## 6. Plan

The modules of the first plan are written, in this order: `OrgMembership`,
`OrgInvites`, `LazyMigration`, `DatabaseLifecycle`, `Logins`, `MigrationPlan`,
`AccessPolicy`, `DataWrites`, `Selects`; then `Directory`, `SerialWrites`, `Filters`,
`DefinitionRules` and `Callers`. What could still be modelled: several relations beside
each other in `Selects`; foreign keys in `MigrationPlan`; an append-only history of
versions as the abstract specification of `LazyMigration`.

All proofs that were planned are done. What could be proved beyond them: `AnswerIsPage` for
chains in which a table comes twice, once clauses are told apart by their place.
