------------------------------ MODULE Selects ------------------------------
(***************************************************************************)
(* The select operation of the data API (data/queries.go, build_query.go,  *)
(* select_policy.go): which tables a request reaches, the policy of each,  *)
(* the SQL that is put together from them, and what SQLite answers.        *)
(*                                                                         *)
(* SQL is a sequence of the clauses that decide what is returned, each     *)
(* with at most one placeholder; arguments are a sequence of their own, as *)
(* in the code, and SQLite binds them by position.  A row of the answer is *)
(* a tree: the set of the paths of ids from a row of the base table.       *)
(***************************************************************************)
EXTENDS Naturals, Sequences, FiniteSets, SequencesExt, Filters

CONSTANTS
    Table, Id,
    User, Service,       \* principals
    Value,               \* of the column "label"
    Absent, None,        \* no row under an id; not in the request
    References,          \* table to which the foreign key of a table points
    Owned,               \* tables with the column "owner"
    Policies,            \* select policies of a definition, by table
    Database,            \* databases: rows and members
    Query,               \* requests
    MaxQueryDepth, MaxQueryLimit, DefaultLimit,  \* of the configuration
    MaxChanges           \* bound: changes by others during a request

Row == [parent : Id \cup {Null}, owner : User \cup {Null}, label : Value \cup {Null}]
Decisions == {"denied", "open", "own", "member"}

(* Foreign keys point to rows. *)
IsDatabase(d) == d.rows \in [Table -> [Id -> Row \cup {Absent}]] /\ d.members \subseteq User
Whole(d) ==
    \A t \in Table, r \in Id : d.rows[t][r] # Absent /\ References[t] # None =>
        d.rows[t][r].parent = Null \/ d.rows[References[t]][d.rows[t][r].parent] # Absent

(* chain: the base table and what is nested in it or joined to it; kind:
   nested by foreign keys, or joined as the request says. *)
IsQuery(q) ==
    /\ q.chain # <<>> /\ q.chain \in Seq(Table)
    /\ q.kind \in {"nested", "left", "inner"}
    /\ q.kind # "nested" => Len(q.chain) = 2
    /\ q.by \in User \cup {Service}
    /\ q.limit \in Nat \cup {None} /\ q.offset \in Nat
    /\ {q.flat, q.star, q.count, q.batch} \subseteq BOOLEAN
    /\ q.flat => q.kind # "nested"

ASSUME SelectsAssumption ==
    /\ Absent \notin Row /\ Null \notin Id \cup User \cup Value /\ None \notin Nat
    /\ Column \subseteq {"parent", "owner", "label"}
    /\ Service \notin User /\ Owned \subseteq Table
    /\ None \notin Table /\ References \in [Table -> Table \cup {None}]
    /\ Policies \subseteq [Table -> Decisions]
    /\ \A p \in Policies, t \in Table : p[t] = "own" => t \in Owned
    /\ \A d \in Database : IsDatabase(d) /\ Whole(d)
    /\ \A q \in Query : IsQuery(q)
    /\ {MaxQueryDepth, MaxQueryLimit, DefaultLimit, MaxChanges} \subseteq Nat

VARIABLES
    policies,  \* of the version the database has
    query,     \* the request
    db,        \* the database
    pc, stmt,  \* the handler, and the SQL it has built
    seen,      \* what its last statement read
    total,     \* the count
    answer,    \* the rows
    changes    \* how often others changed the database

vars == <<policies, query, db, pc, stmt, seen, total, answer, changes>>
-----------------------------------------------------------------------------
(* Building the statement. *)

Depth(q) == IF q.kind = "nested" THEN Len(q.chain) ELSE 1
Related(q) ==
    q.kind = "nested" => \A i \in 2..Len(q.chain) : References[q.chain[i]] = q.chain[i - 1]

(* compilePolicy of one table: the service passes without SQL. *)
Decision(t) == IF query.by = Service THEN "open" ELSE policies[t]

Clause(at, t, cond, arg) == [at |-> at, table |-> t, cond |-> cond, arg |-> arg]
PolicyOf(at, t) ==
    IF Decision(t) \in {"own", "member"} THEN <<Clause(at, t, Decision(t), query.by)>> ELSE <<>>

(* Mutant: nested relations are not filtered. *)
NoSubqueries(q) == <<>>

(* buildSelect: subqueries from the innermost one outwards. *)
Subqueries(q) ==
    FlattenSeq([i \in 1..(Len(q.chain) - 1) |-> PolicyOf("subquery", q.chain[Len(q.chain) + 1 - i])])

JoinPolicies(q) ==
    IF q.kind = "nested" THEN Subqueries(q) ELSE PolicyOf("on", q.chain[2])
PolicyClauses(q) == JoinPolicies(q) \o PolicyOf("where", Head(q.chain))
Filter(q, where) ==
    IF q.filter = {} THEN <<>>
    ELSE <<Clause("where", Head(q.chain), IF Binds(where) THEN "filter" ELSE "test", where)>>
Group(q) ==
    IF Len(q.chain) = 1 \/ q.flat THEN <<>>
    ELSE <<Clause("group", Head(q.chain), "none", None)>>

(* The policies come with the query; the filter is put behind them.  In a query
   with nested relations, the grouping is part of the query already. *)
Clauses(q, where) ==
    IF q.kind = "nested" THEN PolicyClauses(q) \o Group(q) \o Filter(q, where)
    ELSE PolicyClauses(q) \o Filter(q, where) \o Group(q)

(* The arguments of a filter count as one. *)
HasArgument(clause) == clause.cond \notin {"none", "test"}
ArgsOf(clauses) ==
    LET upTo[i \in 0..Len(clauses)] ==
            IF i = 0 THEN <<>>
            ELSE IF HasArgument(clauses[i]) THEN Append(upTo[i - 1], clauses[i].arg)
            ELSE upTo[i - 1]
    IN  upTo[Len(clauses)]

(* The arguments of the filter come first. *)
Arguments(q, where) == ArgsOf(Filter(q, where) \o PolicyClauses(q))

(* applyPolicyCTE puts the memberships of the caller in front. *)
With(q) ==
    IF \E i \in DOMAIN PolicyClauses(q) : PolicyClauses(q)[i].cond = "member"
    THEN <<Clause("with", None, "with", q.by)>> ELSE <<>>

(* Without columns of its own a nested query groups by the types of the columns;
   an owner column is not qualified in the policy. *)
Resolves(q) ==
    IF q.kind = "nested" THEN ~(q.star /\ Len(q.chain) > 1)
    ELSE ~(Range(q.chain) \subseteq Owned /\ \E t \in Range(q.chain) : Decision(t) = "own")

Limit(q) ==
    LET asked == IF q.limit = None THEN DefaultLimit ELSE q.limit
    IN  IF MaxQueryLimit > 0 /\ (asked > MaxQueryLimit \/ asked = 0) THEN MaxQueryLimit
        ELSE asked

Statement(q, where) ==
    [clauses |-> With(q) \o Clauses(q, where),
     args |-> ArgsOf(With(q)) \o Arguments(q, where),
     resolves |-> Resolves(q) /\ where.kind = "sql"]
-----------------------------------------------------------------------------
(* SQLite: what a statement returns on a database d. *)

(* WHERE stands once and before GROUP BY. *)
WellFormed(s) ==
    /\ s.resolves
    /\ \A i, j \in DOMAIN s.clauses :
        i < j /\ s.clauses[j].at = "where" => s.clauses[i].at \notin {"where", "group"}
Pageable(q) == Limit(q) = 0 => q.offset = 0

Bound(s, i) == s.args[Cardinality({j \in 1..i : HasArgument(s.clauses[j])})]
Present(d, t) == {r \in Id : d.rows[t][r] # Absent}
IsTrue(s, i, d, row) ==
    LET cond == s.clauses[i].cond IN
    CASE cond = "own"    -> row.owner = Bound(s, i)
      [] cond = "filter" -> Bound(s, i) = s.clauses[i].arg /\ Holds(Bound(s, i), row) = "true"
      [] cond = "test"   -> Holds(s.clauses[i].arg, row) = "true"
      [] cond = "member" -> Bound(s, i) \in d.members \cap {s.args[1]}
      [] cond = "none"   -> TRUE
Kept(s, d, t) ==
    {r \in Present(d, t) : \A i \in DOMAIN s.clauses :
        s.clauses[i].table = t => IsTrue(s, i, d, d.rows[t][r])}

(* Rows of a subquery: an id and the paths below it. *)
Attached(d, t, r, below) ==
    UNION {{<<b.id>>} \cup {<<b.id>> \o u : u \in b.under} :
              b \in {x \in below : d.rows[t][x.id].parent = r}}

(* A subquery with a nested relation has an aggregate and no GROUP BY: one row,
   with the columns of any of its rows and everything nested in all of them. *)
Collapse(s, d, q, i, below) ==
    LET kept == Kept(s, d, q.chain[i])
        all == UNION {Attached(d, q.chain[i + 1], r, below) : r \in kept}
    IN  IF kept = {} THEN {{}} ELSE {{[id |-> r, under |-> all]} : r \in kept}
Subquery(s, d, q) ==
    LET n == Len(q.chain)
        f[i \in 2..n] ==
            IF i = n THEN {{[id |-> r, under |-> {}] : r \in Kept(s, d, q.chain[n])}}
            ELSE UNION {Collapse(s, d, q, i, below) : below \in f[i + 1]}
    IN  IF n = 1 THEN {{}} ELSE f[2]

(* The rows of the query: one per row of the base table, or per path if flat. *)
TreesOver(s, d, q, below) ==
    LET under(r) == IF below = {} THEN {} ELSE Attached(d, q.chain[2], r, below)
        base == {r \in Kept(s, d, Head(q.chain)) : q.kind = "inner" => under(r) # {}}
    IN  IF ~q.flat THEN {{<<r>>} \cup {<<r>> \o u : u \in under(r)} : r \in base}
        ELSE UNION {IF under(r) = {} THEN {{<<r>>}}
                    ELSE {{<<r>>, <<r>> \o u} : u \in under(r)} : r \in base}

(* All results that SQLite may give: sets of trees. *)
Results(s, d, q) == {TreesOver(s, d, q, below) : below \in Subquery(s, d, q)}

Least(a, b) == IF a < b THEN a ELSE b
PageSize(q, n) ==
    LET rest == IF n < q.offset THEN 0 ELSE n - q.offset
    IN  IF Limit(q) = 0 THEN rest ELSE Least(Limit(q), rest)
-----------------------------------------------------------------------------
NoStatement == [clauses |-> <<>>, args |-> <<>>, resolves |-> FALSE]
Pc == {"asked", "built", "counted", "refused", "invalid", "failed", "answered"}

Init ==
    /\ policies \in Policies /\ query \in Query /\ db \in Database
    /\ pc = "asked" /\ stmt = NoStatement /\ seen = db
    /\ total = 0 /\ answer = {} /\ changes = 0

(* Mutant: the policy of the base table only. *)
ReachedBase(q) == {Head(q.chain)}

(* compileSelectPolicies and compileCustomJoinPolicies ask the policy of every
   table; then the depth and the foreign keys are checked and the SQL is built. *)
Reached(q) == Range(q.chain)

Build ==
    /\ pc = "asked"
    /\ IF \E t \in Reached(query) : Decision(t) = "denied"
       THEN pc' = "refused" /\ stmt' = stmt
       ELSE IF Depth(query) > MaxQueryDepth \/ ~Related(query)
       THEN pc' = "invalid" /\ stmt' = stmt
       ELSE \E where \in Wheres(query.filter) :
               IF where.kind = "refused" THEN pc' = "invalid" /\ stmt' = stmt
               ELSE pc' = "built" /\ stmt' = Statement(query, where)
    /\ UNCHANGED <<policies, query, db, seen, total, answer, changes>>

(* Mutant: the rows are read beside the transaction. *)
VisibleBeside == db

(* A statement sees the database as it is; in a batch, as it was for the first
   statement of the transaction. *)
Visible == IF query.batch /\ pc = "counted" THEN seen ELSE db

Answerable == WellFormed(stmt)

(* "SELECT COUNT( * ) FROM (...)" of the query without order and limit. *)
Count ==
    /\ pc = "built" /\ query.count
    /\ IF Answerable
       THEN /\ \E rows \in Results(stmt, Visible, query) : total' = Cardinality(rows)
            /\ seen' = Visible
            /\ pc' = "counted"
       ELSE pc' = "failed" /\ UNCHANGED <<total, seen>>
    /\ UNCHANGED <<policies, query, db, stmt, answer, changes>>

(* The page that is asked for; the order of the rows is left open. *)
Fetch ==
    /\ pc = IF query.count THEN "counted" ELSE "built"
    /\ IF Answerable /\ Pageable(query)
       THEN /\ \E rows \in Results(stmt, Visible, query) :
                  answer' \in kSubset(PageSize(query, Cardinality(rows)), rows)
            /\ seen' = Visible
            /\ pc' = "answered"
       ELSE pc' = "failed" /\ UNCHANGED <<answer, seen>>
    /\ UNCHANGED <<policies, query, db, stmt, total, changes>>

(* Others change a row or the memberships between the two statements; before
   the first one, the database might as well have been another one. *)
RowsAt == [t \in Table |-> [r \in Id |-> {d.rows[t][r] : d \in Database}]]
Change ==
    /\ pc = "counted" /\ changes < MaxChanges
    /\ \/ \E t \in Table, r \in Id : \E row \in RowsAt[t][r] :
            db' = [db EXCEPT !.rows[t][r] = row]
       \/ \E u \in User : db' = [db EXCEPT !.members = @ \cup {u}]
       \/ \E u \in User : db' = [db EXCEPT !.members = @ \ {u}]
    /\ Whole(db')
    /\ changes' = changes + 1
    /\ UNCHANGED <<policies, query, pc, stmt, seen, total, answer>>

Next == Build \/ Count \/ Fetch \/ Change

Spec == Init /\ [][Next]_vars
-----------------------------------------------------------------------------
(* What a request asks for, said of the rows alone. *)

Permitted(d, t, r) ==
    /\ d.rows[t][r] # Absent
    /\ query.by # Service =>
        CASE policies[t] = "denied" -> FALSE
          [] policies[t] = "open"   -> TRUE
          [] policies[t] = "own"    -> d.rows[t][r].owner = query.by
          [] policies[t] = "member" -> query.by \in d.members

(* Paths of permitted rows along the foreign keys, from a row the filter wants. *)
Paths(d) ==
    LET chain == query.chain
        length == 1..Len(chain)
    IN  {p \in UNION {[1..k -> Id] : k \in length} :
            /\ \A i \in DOMAIN p : Permitted(d, chain[i], p[i])
            /\ \A i \in 2..Len(p) : d.rows[chain[i]][p[i]].parent = p[i - 1]
            /\ Says(query.filter, d.rows[chain[1]][p[1]]) = "true"}

(* The rows asked for: a tree of paths for each row of the base table. *)
Asked(d) ==
    LET trees == {{p \in Paths(d) : p[1] = r} : r \in {p[1] : p \in Paths(d)}}
        matched == {tree \in trees : query.kind = "inner" => tree # {p \in tree : Len(p) = 1}}
    IN  IF ~query.flat THEN matched
        ELSE UNION {IF \A p \in tree : Len(p) = 1 THEN {tree}
                    ELSE {{<<p[1]>>, p} : p \in {x \in tree : Len(x) > 1}} : tree \in matched}
-----------------------------------------------------------------------------
(* Properties. *)

(* Type correctness; the SQL of selectJSON has an argument per placeholder, and
   a request that is not answered returns no rows. *)
TypeOK ==
    /\ policies \in Policies /\ query \in Query
    /\ IsDatabase(db) /\ IsDatabase(seen)
    /\ pc \in Pc /\ total \in Nat /\ changes \in 0..MaxChanges
    /\ Len(stmt.args) = Len(ArgsOf(stmt.clauses))
    /\ answer # {} => pc = "answered"

(* "Definition policies are compiled into the database query path before
   execution", "nested relation selects are resolved from foreign keys"
   (api/README.md): an answer is the page asked for of the rows asked for, each
   permitted by the policy of its table, with all that is permitted below it,
   in the database the statement read. *)
AnswerIsPage ==
    pc = "answered" =>
        /\ answer \subseteq Asked(seen)
        /\ Cardinality(answer) = PageSize(query, Cardinality(Asked(seen)))

(* "count=exact": in a batch, the count is of the very rows whose page is
   returned, whoever changes the database in between. *)
CountIsOfAnswer ==
    pc = "answered" /\ query.count /\ query.batch => total = Cardinality(Asked(seen))

(* Nothing is read for a request that reaches a table its caller may never
   select from, and no request is refused for another reason. *)
RefusedIffDenied ==
    pc # "asked" =>
        (pc = "refused" <=> /\ query.by # Service
                            /\ \E i \in DOMAIN query.chain : policies[query.chain[i]] = "denied")

(* A select that was accepted is answered. *)
SelectsAnswered == pc # "failed"

(* "AND condition: (condition1 AND condition2 AND ...)", "Negate a condition"
   (packages/sdk/src/filters.ts): what the helpers build is understood, if the
   relations of the select are. *)
HelpersUnderstood ==
    pc = "invalid" => Depth(query) > MaxQueryDepth \/ ~Related(query)
=============================================================================
