---------------------------- MODULE LazyMigration ----------------------------
(***************************************************************************)
(* Versions of one definition and the databases that follow it:            *)
(* pushDefinition (platform/definitions.go), createDatabase and            *)
(* deleteDatabase as far as they touch versions (platform/databases.go),   *)
(* and the lazy migration in front of every data request (data/data.go,    *)
(* data/schema_cache.go, data/migration.go, primarystore/store.go).        *)
(*                                                                         *)
(* Three stores take part and no transaction spans two of them: the        *)
(* primary database (the definition's history, one row per database with   *)
(* its definition_version), the remote databases, and a cache of the       *)
(* current definition.  A schema is the set of its tables.  The migration  *)
(* between two versions creates the tables that are new (CREATE TABLE      *)
(* fails on a table that exists) and drops those that are gone (DROP TABLE *)
(* IF EXISTS never fails); versions with equal tables, pushed to change    *)
(* the provision policy, have no SQL and no atombase_migrations row.       *)
(***************************************************************************)
EXTENDS Naturals, FiniteSets

CONSTANTS
    Table,        \* tables a schema may have
    Db,           \* ids of databases, numbered in the order of ORDER BY created_at, id
    Push,         \* slots for pushes running at the same time
    Request,      \* slots for data requests running at the same time
    MaxVersion,   \* bound: no push beyond this version
    None

ASSUME MigrationAssumption ==
    /\ Db \subseteq Nat
    /\ MaxVersion \in Nat \ {0}
    /\ None \notin Db

VARIABLES
    current,      \* atombase_definitions.current_version
    schema,       \* atombase_definitions_history.schema_json, per version
    stage,        \* where a database is between its creation and its deletion
    recorded,     \* atombase_databases.definition_version
    physical,     \* the tables the remote database really has
    cache,        \* the version of the cached definition, 0 when there is none
    push,         \* the pushes in flight
    req,          \* the data requests in flight
    reached       \* history: the version a database's tables were brought to,
                  \* 0 once it ran SQL meant for other tables than it had

primary == <<current, schema, stage, recorded>>
vars == <<current, schema, stage, recorded, physical, cache, push, req, reached>>

Version == 1..MaxVersion

Idle == [pc |-> "idle"]

PushRead == [pc : {"read"}, seen : Version, want : SUBSET Table]
PushProbed == [pc : {"probed"}, seen : Version, want : SUBSET Table,
               probe : Db \cup {None}]

Resolved == [pc : {"resolved"}, db : Db, from : Version]
Loading == [pc : {"missed", "loaded", "recording"}, db : Db, from : Version,
            to : Version]
Serving == [pc : {"serving"}, db : Db, version : Version]

TypeOK ==
    /\ current \in Version
    /\ schema \in [Version -> SUBSET Table]
    /\ stage \in [Db -> {"absent", "building", "live", "destroyed", "removed"}]
    /\ recorded \in [Db -> Version \cup {0}]
    /\ physical \in [Db -> SUBSET Table]
    /\ cache \in Version \cup {0}
    /\ push \in [Push -> {Idle} \cup PushRead \cup PushProbed]
    /\ req \in [Request -> {Idle} \cup Resolved \cup Loading \cup Serving]
    /\ reached \in [Db -> Version \cup {0}]

\* createDefinition publishes version 1, which has a table
Init ==
    /\ current = 1
    /\ \E tables \in SUBSET Table \ {{}} :
           schema = [v \in Version |-> IF v = 1 THEN tables ELSE {}]
    /\ stage = [d \in Db |-> "absent"]
    /\ recorded = [d \in Db |-> 0]
    /\ physical = [d \in Db |-> {}]
    /\ cache = 0
    /\ push = [p \in Push |-> Idle]
    /\ req = [r \in Request |-> Idle]
    /\ reached = [d \in Db |-> 0]

-----------------------------------------------------------------------------
(* Running the migration from one set of tables to another on a database. *)

Creates(old, new) == new \ old
Drops(old, new) == old \ new

Runs(tables, old, new) == Creates(old, new) \cap tables = {}
Result(tables, old, new) == (tables \ Drops(old, new)) \cup Creates(old, new)

HasSQL(old, new) == old # new

\* GetMigrationsBetween: the rows chain from one version to the other
Contiguous(from, to) ==
    \A v \in (from + 1)..to : HasSQL(schema[v - 1], schema[v])

\* the tables after each migration of the batch that starts at version from
Batch(tables, from, to) ==
    LET after[v \in from..to] ==
            IF v = from THEN tables
                        ELSE Result(after[v - 1], schema[v - 1], schema[v])
    IN  after

BatchRuns(tables, from, to) ==
    \A v \in (from + 1)..to :
        Runs(Batch(tables, from, to)[v - 1], schema[v - 1], schema[v])

HasRow(d) == stage[d] \in {"live", "destroyed"}

\* existingDBs[0]
First ==
    IF \E d \in Db : HasRow(d)
    THEN CHOOSE d \in Db : HasRow(d) /\ \A e \in Db : HasRow(e) => d <= e
    ELSE None

-----------------------------------------------------------------------------
(* POST /platform/definitions/{name}/push                                  *)

PGoto(p, state) == push' = [push EXCEPT ![p] = state]

\* the push has run its SQL on the database and is not published
Tried(p, d) == push[p].pc = "probed" /\ push[p].probe = d
UnderProbe(d) == \E p \in Push : Tried(p, d)

Untrack(dbs) == [d \in Db |-> IF d \in dbs THEN 0 ELSE reached[d]]

\* the definition as it is now, compared with the schema in the request
ReadDefinition(p, want) ==
    /\ push[p] = Idle
    /\ current < MaxVersion
    /\ PGoto(p, [pc |-> "read", seen |-> current, want |-> want])
    /\ UNCHANGED <<primary, physical, cache, req, reached>>

\* Mutant: the push warms the cache before it has published anything.
SkipProbeCaching(p) ==
    LET q == push[p] IN
    /\ q.pc = "read"
    /\ First = None \/ ~HasSQL(schema[q.seen], q.want)
    /\ cache' = q.seen + 1
    /\ PGoto(p, [pc |-> "probed", seen |-> q.seen, want |-> q.want, probe |-> None])
    /\ UNCHANGED <<primary, physical, req, reached>>

\* no database to try the SQL on, or no SQL
SkipProbe(p) ==
    LET q == push[p] IN
    /\ q.pc = "read"
    /\ First = None \/ ~HasSQL(schema[q.seen], q.want)
    /\ PGoto(p, [pc |-> "probed", seen |-> q.seen, want |-> q.want, probe |-> None])
    /\ UNCHANGED <<primary, physical, cache, req, reached>>

\* the SQL runs for good on the oldest database, whatever its version; an
\* answer that gets lost fails the push
Probe(p) ==
    LET q == push[p] IN
    /\ q.pc = "read"
    /\ HasSQL(schema[q.seen], q.want)
    /\ First # None
    /\ stage[First] = "live"
    /\ Runs(physical[First], schema[q.seen], q.want)
    /\ physical' = [physical EXCEPT ![First] = Result(@, schema[q.seen], q.want)]
    /\ \/ /\ PGoto(p, [pc |-> "probed", seen |-> q.seen, want |-> q.want,
                       probe |-> First])
          /\ reached' = [reached EXCEPT ![First] = IF @ = q.seen THEN q.seen + 1 ELSE 0]
       \/ /\ PGoto(p, Idle)
          /\ reached' = [reached EXCEPT ![First] = 0]
    /\ UNCHANGED <<primary, cache, req>>

\* Mutant: the history has no UNIQUE(definition_id, version).
PublishUnchecked(p) ==
    LET q == push[p] IN
    /\ q.pc = "probed"
    /\ current' = q.seen + 1
    /\ schema' = [schema EXCEPT ![q.seen + 1] = q.want]
    /\ recorded' = [d \in Db |-> IF d = q.probe /\ HasRow(d) THEN q.seen + 1
                                                             ELSE recorded[d]]
    /\ PGoto(p, Idle)
    /\ UNCHANGED <<stage, physical, cache, req, reached>>

\* one transaction; UNIQUE(definition_id, version) in the history
Publish(p) ==
    LET q == push[p] IN
    /\ q.pc = "probed"
    /\ q.seen = current
    /\ current' = q.seen + 1
    /\ schema' = [schema EXCEPT ![q.seen + 1] = q.want]
    /\ recorded' = [d \in Db |-> IF d = q.probe /\ HasRow(d) THEN q.seen + 1
                                                             ELSE recorded[d]]
    /\ PGoto(p, Idle)
    /\ UNCHANGED <<stage, physical, cache, req, reached>>

\* an error return; nothing undoes the SQL that ran on the probed database
FailPush(p) ==
    /\ push[p] # Idle
    /\ reached' = Untrack({d \in Db : Tried(p, d)})
    /\ PGoto(p, Idle)
    /\ UNCHANGED <<primary, physical, cache, req>>

-----------------------------------------------------------------------------
(* Creating and deleting databases *)

\* the definition is read once: its schema is built remotely, and its version
\* is what the row will say
BuildRemote(d) ==
    /\ stage[d] = "absent"
    /\ stage' = [stage EXCEPT ![d] = "building"]
    /\ recorded' = [recorded EXCEPT ![d] = current]
    /\ physical' = [physical EXCEPT ![d] = schema[current]]
    /\ reached' = [reached EXCEPT ![d] = current]
    /\ UNCHANGED <<current, schema, cache, push, req>>

\* Mutant: the INSERT selects the version that is current by then.
InsertRowReread(d) ==
    /\ stage[d] = "building"
    /\ stage' = [stage EXCEPT ![d] = "live"]
    /\ recorded' = [recorded EXCEPT ![d] = current]
    /\ UNCHANGED <<current, schema, physical, cache, push, req, reached>>

InsertRow(d) ==
    /\ stage[d] = "building"
    /\ stage' = [stage EXCEPT ![d] = "live"]
    /\ UNCHANGED <<current, schema, recorded, physical, cache, push, req, reached>>

\* the transaction fails: no row, and the remote database is of no use
AbandonCreate(d) ==
    /\ stage[d] = "building"
    /\ stage' = [stage EXCEPT ![d] = "removed"]
    /\ UNCHANGED <<current, schema, recorded, physical, cache, push, req, reached>>

\* deleteDatabase: the remote database first, the row after it
DestroyRemote(d) ==
    /\ stage[d] = "live"
    /\ stage' = [stage EXCEPT ![d] = "destroyed"]
    /\ UNCHANGED <<current, schema, recorded, physical, cache, push, req, reached>>

RemoveRow(d) ==
    /\ stage[d] = "destroyed"
    /\ stage' = [stage EXCEPT ![d] = "removed"]
    /\ UNCHANGED <<current, schema, recorded, physical, cache, push, req, reached>>

-----------------------------------------------------------------------------
(* POST /data/...: withDB up to the handler of the query                   *)

Goto(r, state) == req' = [req EXCEPT ![r] = state]

\* ResolveDatabaseTarget
ResolveTarget(r, d) ==
    /\ req[r] = Idle
    /\ HasRow(d)
    /\ Goto(r, [pc |-> "resolved", db |-> d, from |-> recorded[d]])
    /\ UNCHANGED <<primary, physical, cache, push, reached>>

With(q, pc, to) == [pc |-> pc, db |-> q.db, from |-> q.from, to |-> to]

\* GetCachedDefinition: a hit costs nothing and asks nobody ...
HitDefinition(r) ==
    /\ req[r].pc = "resolved"
    /\ cache # 0
    /\ Goto(r, With(req[r], "loaded", cache))
    /\ UNCHANGED <<primary, physical, cache, push, reached>>

\* ... a miss reads the primary database and stores what it read
LoadDefinition(r) ==
    /\ req[r].pc = "resolved"
    /\ cache = 0
    /\ Goto(r, With(req[r], "missed", current))
    /\ UNCHANGED <<primary, physical, cache, push, reached>>

SetDefinition(r) ==
    /\ req[r].pc = "missed"
    /\ cache' = req[r].to
    /\ Goto(r, With(req[r], "loaded", req[r].to))
    /\ UNCHANGED <<primary, physical, push, reached>>

\* Mutant: the versions are taken for equal when the database is behind.
NoMigrationBehind(r) ==
    LET q == req[r] IN
    /\ q.pc = "loaded"
    /\ q.from <= q.to
    /\ Goto(r, [pc |-> "serving", db |-> q.db, version |-> q.to])
    /\ UNCHANGED <<primary, physical, cache, push, reached>>

\* MigrateIfNeeded has nothing to do; a database ahead is refused
NoMigration(r) ==
    LET q == req[r] IN
    /\ q.pc = "loaded"
    /\ q.from = q.to
    /\ Goto(r, [pc |-> "serving", db |-> q.db, version |-> q.from])
    /\ UNCHANGED <<primary, physical, cache, push, reached>>

\* all the steps in one transaction of the remote database.  When the commit's
\* answer is lost with a retryable error the handler tries the batch again (the
\* bound of three attempts is left out).
MigrateBatch(r) ==
    LET q == req[r] IN
    /\ q.pc = "loaded"
    /\ q.from < q.to
    /\ Contiguous(q.from, q.to)
    /\ stage[q.db] = "live"
    /\ BatchRuns(physical[q.db], q.from, q.to)
    /\ physical' = [physical EXCEPT ![q.db] = Batch(@, q.from, q.to)[q.to]]
    /\ reached' = [reached EXCEPT ![q.db] = IF @ \in q.from..q.to THEN q.to ELSE 0]
    /\ \/ Goto(r, With(q, "recording", q.to))
       \/ UNCHANGED req
    /\ UNCHANGED <<primary, cache, push>>

\* UpdateDatabaseVersion, unconditional; its failure is only logged
RecordVersion(r) ==
    LET q == req[r] IN
    /\ q.pc = "recording"
    /\ \/ HasRow(q.db) /\ recorded' = [recorded EXCEPT ![q.db] = q.to]
       \/ UNCHANGED recorded
    /\ Goto(r, [pc |-> "serving", db |-> q.db, version |-> q.to])
    /\ UNCHANGED <<current, schema, stage, physical, cache, push, reached>>

\* the query has run, or the request was refused or failed anywhere
Finish(r) ==
    /\ req[r] # Idle
    /\ Goto(r, Idle)
    /\ UNCHANGED <<primary, physical, cache, push, reached>>

-----------------------------------------------------------------------------
\* the process stops and starts: a cache in memory is lost, one in Redis or
\* SQLite is kept, and its entries never expire
Restart ==
    /\ cache' \in {0, cache}
    /\ reached' = Untrack({d \in Db : UnderProbe(d)})
    /\ push' = [p \in Push |-> Idle]
    /\ req' = [r \in Request |-> Idle]
    /\ stage' = [d \in Db |-> IF stage[d] = "building" THEN "removed" ELSE stage[d]]
    /\ UNCHANGED <<current, schema, recorded, physical>>

PushStep(p) ==
    \/ \E want \in SUBSET Table : ReadDefinition(p, want)
    \/ SkipProbe(p) \/ Probe(p) \/ Publish(p) \/ FailPush(p)

DbStep(d) ==
    \/ BuildRemote(d) \/ InsertRow(d) \/ AbandonCreate(d)
    \/ DestroyRemote(d) \/ RemoveRow(d)

RequestStep(r) ==
    \/ \E d \in Db : ResolveTarget(r, d)
    \/ HitDefinition(r) \/ LoadDefinition(r) \/ SetDefinition(r)
    \/ NoMigration(r) \/ MigrateBatch(r) \/ RecordVersion(r) \/ Finish(r)

Next ==
    \/ \E p \in Push : PushStep(p)
    \/ \E d \in Db : DbStep(d)
    \/ \E r \in Request : RequestStep(r)
    \/ Restart

Spec == Init /\ [][Next]_vars

-----------------------------------------------------------------------------
(* Safety *)

\* the database ran no SQL of a push that failed or had read another version,
\* and no batch after one that went further
Tracked(d) == stage[d] = "live" /\ reached[d] # 0 /\ ~UnderProbe(d)

\* A database that only ran migrations from its recorded version has exactly the
\* tables of one published version, never older than the recorded one, though
\* batches are repeated after a lost answer, overtaken by other requests and
\* recorded late or not at all (MigrateIfNeeded).
MigratedWhole ==
    \A d \in Db : Tracked(d) =>
        \E v \in recorded[d]..current : physical[d] = schema[v]

\* A data request runs its query against tables at least as new as the version
\* it believes to serve, however often the definition moved meanwhile (withDB).
ServedIsMigrated ==
    \A r \in Request : req[r].pc = "serving" /\ Tracked(req[r].db) =>
        \E v \in req[r].version..current : physical[req[r].db] = schema[v]

\* Nothing anywhere names a version that is not published: a row, the cache or a
\* request that did would wait for SQL that does not exist.
VersionsPublished ==
    /\ cache <= current
    /\ \A d \in Db : recorded[d] <= current
    /\ \A r \in Request : req[r].pc \in {"missed", "loaded", "recording"} =>
           req[r].from <= current /\ req[r].to <= current

\* Of two pushes that read the same version at most one is published, and what
\* is published is never rewritten: databases in the middle of a migration rely
\* on it (pushDefinition, UNIQUE(definition_id, version)).
HistoryIsFixed ==
    [][/\ current' \in {current, current + 1}
       /\ \A v \in 1..current : schema'[v] = schema[v]]_vars

-----------------------------------------------------------------------------
(***************************************************************************)
(* What the comments and the documentation say and the code does not keep: *)
(* each has a run of its own that shows how it fails.                      *)
(***************************************************************************)

\* "GetCachedDefinition retrieves the current schema and version"
\* (data/schema_cache.go): no push removes the entry, and entries never expire.
LoadedIsCurrent ==
    [][\A r \in Request :
          req[r].pc = "resolved" /\ req'[r].pc = "loaded" => req'[r].to = current]_vars

\* "Databases migrate lazily on first access" (packages/cli/README.md): a version
\* without SQL has no migration row, and no database crosses the gap.
BehindIsMigratable ==
    \A d \in Db : stage[d] = "live" /\ recorded[d] < current =>
        Contiguous(recorded[d], current)

=============================================================================
