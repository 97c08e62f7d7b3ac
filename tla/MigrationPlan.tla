---------------------------- MODULE MigrationPlan ----------------------------
(***************************************************************************)
(* How a push turns two schemas into SQL (platform/migrations.go), with    *)
(* the renames its client asks for (packages/cli definitions.ts) and the   *)
(* database the SQL runs on (platform/validation.go, and the remote one).  *)
(*                                                                         *)
(* Both the client and the server list the differences of two schemas; the *)
(* client names a rename by two positions in its own list, and the server  *)
(* reads the positions in a list of its own, whose order is Go's random    *)
(* order of maps.  The statements then come phase by phase, whatever the   *)
(* list.  A statement that fails rejects the push.                         *)
(*                                                                         *)
(* A schema maps tables to a primary key, columns, indexes on one column   *)
(* each and the columns of the full-text index.  What a column is made of  *)
(* comes down to its type, UNIQUE, and the one clause that SQLite can      *)
(* change only by building the table anew.  The database keeps for every   *)
(* column where its data came from.                                        *)
(***************************************************************************)
EXTENDS Naturals, Sequences, FiniteSets, SequencesExt, Functions

CONSTANTS
    Table,
    ColumnOrder,  \* all column names, in the order of sort.Strings
    IndexName,
    Col,          \* columns: records of type, unique and clause
    Push          \* pairs of a current and a pushed schema

Column == Range(ColumnOrder)
Clause == {"none", "check", "references", "generated"}

SchemaTable(t) ==
    /\ DOMAIN t = {"pk", "cols", "indexes", "fts"}
    /\ DOMAIN t.cols \subseteq Column
    /\ t.pk # {} /\ t.pk \subseteq DOMAIN t.cols
    /\ DOMAIN t.indexes \subseteq IndexName /\ IsFiniteSet(DOMAIN t.indexes)
    /\ Range(t.indexes) \subseteq DOMAIN t.cols
    /\ t.fts \subseteq DOMAIN t.cols
    /\ Range(t.cols) \subseteq Col

ASSUME PlanAssumption ==
    /\ ColumnOrder \in Seq(Column) /\ IsInjective(ColumnOrder)
    /\ \A c \in Col : c.unique \in BOOLEAN /\ c.clause \in Clause
    /\ \A p \in Push, i \in 1..2 :
        /\ DOMAIN p[i] \subseteq Table /\ IsFiniteSet(DOMAIN p[i])
        /\ \A t \in DOMAIN p[i] : SchemaTable(p[i][t])

VARIABLES
    old, new,     \* the current schema and the pushed one
    listed,       \* the client's list of changes
    merges,       \* the renames its user confirmed, as positions in that list
    changes,      \* the server's list of changes
    plan,         \* what is left of the plan
    db,           \* the database: tables, and indexes by name
    status

vars == <<old, new, listed, merges, changes, plan, db, status>>
-----------------------------------------------------------------------------
(* The list of changes. *)

Change(type, t, item) == [type |-> type, table |-> t, item |-> item]
Whole(type, t) == Change(type, t, "")
Each(type, t, items) == {Change(type, t, i) : i \in items}

ColumnModified(a, b) == a # b
(* Mutant: a clause that goes away needs no mirror. *)
RequiresMirrorTableForNew(a, b) == b.clause \notin {"none", a.clause}
RequiresMirrorTable(a, b) == a.clause # b.clause
NoCol == [type |-> "", unique |-> FALSE, clause |-> "none"]

(* pkTypeChanged: other key columns, or one of them with another type. *)
Recast(a, b) ==
    {c \in b.pk \cap DOMAIN a.cols : a.cols[c].type # b.cols[c].type}
PkTypeChanged(a, b) == a.pk # b.pk \/ Recast(a, b) # {}

(* The parts in which diffSchemas lists the changes of a table that stays;
   the order inside a part is that of a map. *)
Modified(a, b) ==
    {c \in DOMAIN a.cols \cap DOMAIN b.cols : ColumnModified(a.cols[c], b.cols[c])}
DiffFTS(t, a, b) ==
    IF a.fts = b.fts THEN <<>>
    ELSE (IF a.fts = {} THEN <<>> ELSE <<Whole("drop_fts", t)>>)
         \o (IF b.fts = {} THEN <<>> ELSE <<Whole("add_fts", t)>>)
DiffTable(t, a, b) == <<
    SetToSeqs(Each("drop_column", t, DOMAIN a.cols \ DOMAIN b.cols)),
    SetToSeqs(Each("add_column", t, DOMAIN b.cols \ DOMAIN a.cols)
              \cup Each("modify_column", t, Modified(a, b))),
    SetToSeqs(Each("drop_index", t, DOMAIN a.indexes \ DOMAIN b.indexes)),
    SetToSeqs(Each("add_index", t, DOMAIN b.indexes \ DOMAIN a.indexes)),
    {DiffFTS(t, a, b)},
    {IF PkTypeChanged(a, b) THEN <<Whole("change_pk_type", t)>> ELSE <<>>} >>

DiffNew(a, b, t) ==
    IF t \in DOMAIN a THEN DiffTable(t, a[t], b[t])
    ELSE <<{<<Whole("add_table", t)>>}>>

Continued(lists, part) == {l \o p : l \in lists, p \in part}

(* One list of every part after the other. *)
Joined(parts) ==
    LET upTo[i \in 0..Len(parts)] ==
            IF i = 0 THEN {<<>>} ELSE Continued(upTo[i - 1], parts[i])
    IN  upTo[Len(parts)]

(* Every list diffSchemas may return. *)
DiffSchemas(a, b) ==
    UNION {Joined(<<SetToSeqs({Whole("drop_table", t) : t \in DOMAIN a \ DOMAIN b})>>
                  \o [i \in DOMAIN order |-> Joined(DiffNew(a, b, order[i]))]) :
           order \in SetToSeqs(DOMAIN b)}

(* What the client may offer as a rename: a table dropped and one added, or a
   column dropped and one added in the same table.  Drops and adds are paired
   by the likeness of their names, each at most once. *)
RenamePair(d, a) ==
    \/ d.type = "drop_table" /\ a.type = "add_table"
    \/ d.type = "drop_column" /\ a.type = "add_column" /\ d.table = a.table
RenamePairs(list) ==
    {p \in (DOMAIN list) \X (DOMAIN list) : RenamePair(list[p[1]], list[p[2]])}
Confirmable(list) ==
    {ps \in SUBSET RenamePairs(list) :
        \A p, q \in ps : p # q => p[1] # q[1] /\ p[2] # q[2]}
-----------------------------------------------------------------------------
(* The plan. *)

(* The elements of a list at some of its positions. *)
Picked(list, at) ==
    LET upTo[i \in 0..Len(list)] ==
            IF i = 0 THEN <<>>
            ELSE IF i \in at THEN Append(upTo[i - 1], list[i]) ELSE upTo[i - 1]
    IN  upTo[Len(list)]

Rename(d, a) == [type |-> "rename", from |-> d, to |-> a]

(* Mutant: only columns are renamed. *)
ApplyMergesOfColumns(list, ps) ==
    LET named == Picked(ps, {i \in DOMAIN ps : /\ ps[i] \in RenamePairs(list)
                                              /\ list[ps[i][1]].type = "drop_column"})
    IN  [i \in DOMAIN named |-> Rename(list[named[i][1]], list[named[i][2]])]

(* applyMerges: a pair of positions that hold no drop and add of one kind
   renames nothing ... *)
ApplyMerges(list, ps) ==
    LET named == Picked(ps, {i \in DOMAIN ps : ps[i] \in RenamePairs(list)})
    IN  [i \in DOMAIN named |-> Rename(list[named[i][1]], list[named[i][2]])]

(* ... and yet both changes are left out of the rest of the plan. *)
Unmerged(list, ps) ==
    LET merged == UNION {{ps[i][1], ps[i][2]} : i \in DOMAIN ps}
    IN  [i \in DOMAIN list |-> IF i \in merged THEN Whole("merged", "") ELSE list[i]]

OfType(list, type) == Picked(list, {i \in DOMAIN list : list[i].type = type})

GenerateMigrationPlan(list, ps) ==
    LET left == Unmerged(list, ps)
    IN  ApplyMerges(list, ps)
        \o OfType(left, "add_table") \o OfType(left, "add_column")
        \o OfType(left, "modify_column") \o OfType(left, "change_pk_type")
        \o OfType(left, "add_index") \o OfType(left, "add_fts")
        \o OfType(left, "drop_fts") \o OfType(left, "drop_index")
        \o OfType(left, "drop_column") \o OfType(left, "drop_table")
-----------------------------------------------------------------------------
(* The database and the statements of one step of the plan. *)

Empty == <<>>           \* data of a column that was added
InTable(t, c) == <<t, c>>

(* buildMigrationProbeDB: the current schema, every column with its own data. *)
Built(s) ==
    [tables |-> [t \in DOMAIN s |->
        [pk |-> s[t].pk, cols |-> s[t].cols,
         data |-> [c \in DOMAIN s[t].cols |-> InTable(t, c)],
         fts |-> s[t].fts, triggers |-> s[t].fts]],
     indexes |-> [x \in UNION {DOMAIN s[t].indexes : t \in DOMAIN s} |->
        CHOOSE on \in Table \X Column :
            /\ on[1] \in DOMAIN s /\ x \in DOMAIN s[on[1]].indexes
            /\ on[2] = s[on[1]].indexes[x]]]

Put(f, x, v) == [y \in DOMAIN f \cup {x} |-> IF y = x THEN v ELSE f[y]]
Drop(f, x) == Restrict(f, DOMAIN f \ {x})
Renamed(f, x, y) == [z \in (DOMAIN f \ {x}) \cup {y} |-> IF z = y THEN f[x] ELSE f[z]]

SetTable(d, t, row) == [d EXCEPT !.tables = Put(@, t, row)]
WithoutIndexesOn(d, t) ==
    [d EXCEPT !.indexes = Restrict(@, {x \in DOMAIN @ : @[x][1] # t})]

(* CREATE INDEX IF NOT EXISTS: index names belong to the database. *)
CreateIndexes(d, t, indexes) ==
    [d EXCEPT !.indexes =
        [x \in DOMAIN @ \cup DOMAIN indexes |->
            IF x \in DOMAIN @ THEN @[x] ELSE <<t, indexes[x]>>]]

(* generateFTSSQL: virtual table and triggers, each IF NOT EXISTS. *)
CreateFTS(row, fts) ==
    [row EXCEPT !.fts = IF @ = {} THEN fts ELSE @,
                !.triggers = IF @ = {} THEN fts ELSE @]

Columns(set) ==
    Picked(ColumnOrder, {i \in DOMAIN ColumnOrder : ColumnOrder[i] \in set})

(* Mutant: a modified column is not copied. *)
CopiedUnmodified(t) ==
    {c \in DOMAIN new[t].cols \cap DOMAIN old[t].cols : old[t].cols[c] = new[t].cols[c]}
(* The columns generateMirrorTableSQL copies, and the expressions it selects:
   it sorts both, and "CAST(" sorts before "[". *)
Copied(t) == DOMAIN new[t].cols \cap DOMAIN old[t].cols
Selected(t) ==
    Columns(Copied(t) \cap Recast(old[t], new[t]))
    \o Columns(Copied(t) \ Recast(old[t], new[t]))

MirrorRow(t, row) ==
    LET into == Columns(Copied(t))
        from(c) == Selected(t)[CHOOSE i \in DOMAIN into : into[i] = c]
    IN  CreateFTS([pk |-> new[t].pk, cols |-> new[t].cols,
                   data |-> [c \in DOMAIN new[t].cols |->
                                IF c \in Copied(t) THEN row.data[from(c)] ELSE Empty],
                   fts |-> row.fts, triggers |-> {}], new[t].fts)

MirrorRuns(t) ==
    /\ t \in DOMAIN db.tables
    /\ Copied(t) \subseteq DOMAIN db.tables[t].cols
    /\ \A c \in Copied(t) : new[t].cols[c].clause # "generated"
Mirror(t) ==
    CreateIndexes(SetTable(WithoutIndexesOn(db, t), t, MirrorRow(t, db.tables[t])),
                  t, new[t].indexes)

TakesMirror(s) ==
    \/ s.type = "change_pk_type"
    \/ s.type = "add_column" /\ RequiresMirrorTable(NoCol, new[s.table].cols[s.item])
    \/ s.type = "modify_column"
       /\ RequiresMirrorTable(old[s.table].cols[s.item], new[s.table].cols[s.item])

(* ALTER TABLE ... DROP COLUMN refuses keys, unique and indexed columns, and
   columns that a foreign key, a trigger or nothing but themselves holds. *)
Droppable(t, c) ==
    LET row == db.tables[t] IN
    /\ c \in DOMAIN row.cols /\ DOMAIN row.cols # {c}
    /\ c \notin row.pk /\ ~row.cols[c].unique /\ row.cols[c].clause # "references"
    /\ c \notin row.triggers /\ <<t, c>> \notin Range(db.indexes)

-----------------------------------------------------------------------------
(* The push. *)

Init ==
    /\ \E p \in Push : old = p[1] /\ new = p[2]
    /\ listed = <<>> /\ merges = <<>> /\ changes = <<>> /\ plan = <<>>
    /\ db = Built(old)
    /\ status = "new"

(* pushSingleDefinition: the client's diff, and what its user confirms.  Of the
   client's own comparison (columnModified) only the numbering matters. *)
Ask ==
    /\ status = "new"
    /\ \E list \in DiffSchemas(old, new) :
        /\ listed' = list
        /\ \E pairs \in Confirmable(list) : merges' \in SetToSeqs(pairs)
    /\ status' = "asked"
    /\ UNCHANGED <<old, new, changes, plan, db>>

(* pushDefinition: no change is refused, and otherwise the server's own diff
   goes into the plan. *)
Plan ==
    /\ status = "asked"
    /\ \E list \in DiffSchemas(old, new) :
        /\ changes' = list
        /\ plan' = GenerateMigrationPlan(list, merges)
        /\ status' = IF list = <<>> THEN "rejected" ELSE "running"
    /\ UNCHANGED <<old, new, listed, merges, db>>

First == Head(plan)
On == First.table

(* When the statements of the first step run. *)
TableRenames(s) ==
    s.from.table \in DOMAIN db.tables /\ s.to.table \notin DOMAIN db.tables
ColumnRenames(s) ==
    LET cols == db.tables[s.from.table].cols
    IN  s.from.item \in DOMAIN cols /\ s.to.item \notin DOMAIN cols
Alters(s) ==
    s.item \notin DOMAIN db.tables[s.table].cols /\ ~new[s.table].cols[s.item].unique
Runs(s) ==
    CASE s.type = "rename" /\ s.from.type = "drop_table" -> TableRenames(s)
      [] s.type = "rename" /\ s.from.type = "drop_column" -> ColumnRenames(s)
      [] s.type = "add_table" -> s.table \notin DOMAIN db.tables
      [] s.type # "rename" /\ TakesMirror(s) -> MirrorRuns(s.table)
      [] s.type = "add_column" /\ ~TakesMirror(s) -> Alters(s)
      [] s.type = "add_index" ->
            new[s.table].indexes[s.item] \in DOMAIN db.tables[s.table].cols
      [] s.type = "drop_column" -> Droppable(s.table, s.item)
      [] OTHER -> TRUE

Run(type) ==
    /\ status = "running" /\ plan # <<>>
    /\ First.type = type /\ Runs(First)
    /\ plan' = Tail(plan)
    /\ UNCHANGED <<old, new, listed, merges, changes, status>>

(* The renamed table leaves its full-text index behind under the old name. *)
RenameTable ==
    /\ Run("rename") /\ First.from.type = "drop_table"
    /\ LET t == First.from.table
           u == First.to.table
       IN  db' = [tables |-> Put(Drop(db.tables, t), u,
                                 [db.tables[t] EXCEPT !.fts = {}]),
                  indexes |-> [x \in DOMAIN db.indexes |->
                                  IF db.indexes[x][1] = t THEN <<u, db.indexes[x][2]>>
                                  ELSE db.indexes[x]]]

(* Keys, indexes and triggers follow the column, the full-text table does not. *)
RenameColumn ==
    /\ Run("rename") /\ First.from.type = "drop_column"
    /\ LET t == First.from.table
           c == First.from.item
           d == First.to.item
           as(x) == IF x = c THEN d ELSE x
           row == db.tables[t]
       IN  db' = [tables |-> Put(db.tables, t,
                      [pk |-> {as(x) : x \in row.pk}, cols |-> Renamed(row.cols, c, d),
                       data |-> Renamed(row.data, c, d), fts |-> row.fts,
                       triggers |-> {as(x) : x \in row.triggers}]),
                  indexes |-> [x \in DOMAIN db.indexes |->
                                  IF db.indexes[x][1] = t THEN <<t, as(db.indexes[x][2])>>
                                  ELSE db.indexes[x]]]

AddTable ==
    /\ Run("add_table")
    /\ db' = CreateIndexes(
                SetTable(db, On, [pk |-> new[On].pk, cols |-> new[On].cols,
                                  data |-> [c \in DOMAIN new[On].cols |-> Empty],
                                  fts |-> new[On].fts, triggers |-> new[On].fts]),
                On, new[On].indexes)

AddColumn ==
    /\ Run("add_column")
    /\ db' = IF TakesMirror(First) THEN Mirror(On)
             ELSE SetTable(db, On, [db.tables[On] EXCEPT
                        !.cols = Put(@, First.item, new[On].cols[First.item]),
                        !.data = Put(@, First.item, Empty)])

(* Without a mirror a modified column has no statement. *)
ModifyColumn ==
    /\ Run("modify_column")
    /\ db' = IF TakesMirror(First) THEN Mirror(On) ELSE db

ChangePkType ==
    /\ Run("change_pk_type")
    /\ db' = Mirror(On)

AddIndex ==
    /\ Run("add_index")
    /\ db' = CreateIndexes(db, On, [x \in {First.item} |-> new[On].indexes[x]])

AddFTS ==
    /\ Run("add_fts")
    /\ db' = SetTable(db, On, CreateFTS(db.tables[On], new[On].fts))

DropFTS ==
    /\ Run("drop_fts")
    /\ db' = SetTable(db, On, [db.tables[On] EXCEPT !.fts = {}, !.triggers = {}])

DropIndex ==
    /\ Run("drop_index")
    /\ db' = [db EXCEPT !.indexes = Drop(@, First.item)]

DropColumn ==
    /\ Run("drop_column")
    /\ db' = SetTable(db, On, [db.tables[On] EXCEPT !.cols = Drop(@, First.item),
                                                   !.data = Drop(@, First.item)])

DropTable ==
    /\ Run("drop_table")
    /\ db' = [WithoutIndexesOn(db, On) EXCEPT !.tables = Drop(@, On)]

(* A statement fails: the push ends, and its batch leaves nothing behind. *)
Reject ==
    /\ status = "running" /\ plan # <<>> /\ ~Runs(First)
    /\ db' = Built(old)
    /\ status' = "rejected"
    /\ UNCHANGED <<old, new, listed, merges, changes, plan>>

Accept ==
    /\ status = "running" /\ plan = <<>>
    /\ status' = "accepted"
    /\ UNCHANGED <<old, new, listed, merges, changes, plan, db>>

Done == status \in {"accepted", "rejected"} /\ UNCHANGED vars

Next ==
    \/ Ask \/ Plan \/ Reject \/ Accept \/ Done
    \/ RenameTable \/ RenameColumn \/ AddTable \/ AddColumn \/ ModifyColumn
    \/ ChangePkType \/ AddIndex \/ AddFTS \/ DropFTS \/ DropIndex \/ DropColumn
    \/ DropTable

Spec == Init /\ [][Next]_vars
-----------------------------------------------------------------------------
(* Properties. *)

(* Type correctness, and what SQLite itself keeps: indexes and keys name columns
   of their table.  What a trigger names, SQLite reads when it fires. *)
TypeOK ==
    /\ status \in {"new", "asked", "running", "accepted", "rejected"}
    /\ DOMAIN db.tables \subseteq Table
    /\ \A t \in DOMAIN db.tables :
        LET row == db.tables[t] IN
        /\ DOMAIN row.cols \subseteq Column /\ Range(row.cols) \subseteq Col
        /\ DOMAIN row.data = DOMAIN row.cols
        /\ row.pk \subseteq DOMAIN row.cols
        /\ row.fts \subseteq Column /\ row.triggers \subseteq Column
    /\ \A x \in DOMAIN db.indexes :
        /\ db.indexes[x][1] \in DOMAIN db.tables
        /\ db.indexes[x][2] \in DOMAIN db.tables[db.indexes[x][1]].cols

Accepted == status = "accepted"
Unmirrored(t) ==
    \A i \in DOMAIN changes :
        changes[i].table = t => ~TakesMirror(changes[i])

(* An accepted push without renames leaves the database with the tables,
   columns, keys and clauses of the pushed schema, with its full-text indexes
   unless their columns changed, and with its indexes unless their name was
   taken before by another one.  Types, NOT NULL, UNIQUE and DEFAULT of a
   column that stays are not claimed: modify_column has no SQL for them. *)
AcceptedHasSchema ==
    Accepted /\ merges = <<>> =>
        /\ DOMAIN db.tables = DOMAIN new
        /\ \A t \in DOMAIN new :
            LET row == db.tables[t]
                was == IF t \in DOMAIN old THEN old[t].fts ELSE {}
            IN
            /\ DOMAIN row.cols = DOMAIN new[t].cols
            /\ \A c \in DOMAIN row.cols : row.cols[c].clause = new[t].cols[c].clause
            /\ row.pk = new[t].pk
            /\ was \in {{}, new[t].fts} \/ new[t].fts = {} =>
                   row.fts = new[t].fts /\ row.triggers = new[t].fts
            /\ \A x \in DOMAIN new[t].indexes :
                /\ \A u \in DOMAIN new : x \in DOMAIN new[u].indexes => u = t
                /\ \A u \in DOMAIN old : x \in DOMAIN old[u].indexes =>
                       u = t /\ old[u].indexes[x] = new[t].indexes[x]
                => x \in DOMAIN db.indexes /\ db.indexes[x] = <<t, new[t].indexes[x]>>

(* An accepted push without renames keeps the data of every column that both
   schemas have, however often its table was built anew; a table whose key
   changes its type is not claimed (generateMirrorTableSQL sorts the columns
   and the expressions for them apart). *)
KeptColumnsKeepData ==
    Accepted /\ merges = <<>> =>
        \A t \in DOMAIN new \cap DOMAIN old :
            Recast(old[t], new[t]) = {} =>
                \A c \in DOMAIN new[t].cols \cap DOMAIN old[t].cols :
                    db.tables[t].data[c] = InTable(t, c)

(* A confirmed rename carries the data to the new name, when the server lists
   the changes as the client did and the table is not built anew. *)
RenamesKeepData ==
    Accepted /\ changes = listed =>
        \A i \in DOMAIN merges :
            LET d == listed[merges[i][1]]
                a == listed[merges[i][2]]
            IN
            /\ d.type = "drop_table" =>
                   /\ a.table \in DOMAIN db.tables
                   /\ \A c \in DOMAIN old[d.table].cols :
                          /\ c \in DOMAIN db.tables[a.table].cols
                          /\ db.tables[a.table].data[c] = InTable(d.table, c)
            /\ d.type = "drop_column" /\ Unmirrored(d.table) =>
                   /\ a.item \in DOMAIN db.tables[a.table].cols
                   /\ db.tables[a.table].data[a.item] = InTable(d.table, d.item)

(* getUnmergedDestructiveChanges: what the client warns of before the push,
   "This migration will delete existing data". *)
Announced(t, c) ==
    \E i \in DOMAIN listed :
        /\ \A j \in DOMAIN merges : merges[j][1] # i
        /\ listed[i] \in {Whole("drop_table", t), Change("drop_column", t, c)}

(* No data goes that the client did not warn of.  It fails: a table that is
   built anew loses its renamed columns, and a rename may hit other changes. *)
OnlyAnnouncedLoss ==
    Accepted =>
        \A t \in DOMAIN old : \A c \in DOMAIN old[t].cols :
            \/ Announced(t, c)
            \/ \E u \in DOMAIN db.tables : InTable(t, c) \in Range(db.tables[u].data)
=============================================================================
