-------------------------------- MODULE Filters --------------------------------
(***************************************************************************)
(* Filters of the data API: what the helpers of the SDK build              *)
(* (packages/sdk/src/filters.ts), and the WHERE that the server makes of   *)
(* it (data/query_json.go).                                                *)
(*                                                                         *)
(* A filter is an array of JSON objects, and an object a set of entries,   *)
(* which Go visits in any order: a column with its tests, or "or" and      *)
(* "and" with an array of objects.  A WHERE is a conjunction of            *)
(* disjunctions of comparisons; some filters make the server refuse the    *)
(* request, and some make SQL that SQLite refuses.                         *)
(***************************************************************************)
EXTENDS Naturals, Sequences, FiniteSets, Functions, TernaryLogic

CONSTANTS
    Column,
    Null,             \* SQL's NULL
    MaxInArraySize

Comparisons == {"eq", "neq", "gt", "gte", "lt", "lte"}

(* A test is an operator with arguments, several for a list, or with the name of
   a column; "not" has tests of its own. *)
Test(op, args) == [op |-> op, args |-> args]
TestColumn(op, ref) == [op |-> op, ref |-> ref]
-----------------------------------------------------------------------------
(* The helpers of the SDK: each makes an object with one entry. *)

On(col, test) == {[col |-> col, tests |-> {test}]}
or(objects) == {[any |-> objects]}
and(objects) == {[all |-> objects]}
not(object) ==
    LET e == CHOOSE x \in object : TRUE
    IN  IF "tests" \in DOMAIN e THEN On(e.col, [op |-> "not", tests |-> e.tests])
        ELSE {[malformed |-> e]}
-----------------------------------------------------------------------------
(* The server. *)

(* kind: sql, refused, or broken: a statement that SQLite does not take. *)
Sql(any) == [kind |-> "sql", any |-> any]
Refused == [kind |-> "refused", any |-> {}]
Broken == [kind |-> "broken", any |-> {}]

Compared(col, t, negated) == Sql({[col |-> col, test |-> t, negated |-> negated]})

(* The values of the list operators are counted. *)
Understood(t) ==
    \/ t.op \in Comparisons \cup {"is"}
    \/ t.op = "in" /\ Len(t.args) \in 1..MaxInArraySize
    \/ t.op = "between" /\ Len(t.args) = 2

(* opToSQL: between columns, what is no comparison is "=". *)
ColumnOp(op) == IF op \in Comparisons THEN op ELSE "eq"

TestClause(col, t) ==
    IF "ref" \in DOMAIN t
    THEN IF t.ref \in Column THEN Compared(col, TestColumn(ColumnOp(t.op), t.ref), FALSE)
                             ELSE Refused
    ELSE IF Understood(t) THEN Compared(col, t, FALSE) ELSE Refused

(* buildNotFilterClauseWithTable: of the operators some have a negation; a column
   becomes an argument no driver can bind. *)
NotClause(col, t) ==
    IF t.op \notin {"eq", "in", "is"} THEN Refused
    ELSE IF "ref" \in DOMAIN t THEN IF t.op = "in" THEN Refused ELSE Broken
    ELSE IF Understood(t) THEN Compared(col, t, TRUE) ELSE Refused

(* buildFilterClause returns with the first test it meets. *)
ColumnClauses(e) ==
    IF "col" \notin DOMAIN e \/ e.col \notin Column THEN {Refused}
    ELSE LET negated == {t \in e.tests : t.op = "not"}
             inner == UNION {t.tests : t \in negated}
         IN  IF negated # {}
             THEN IF inner = {} THEN {Broken} ELSE {NotClause(e.col, t) : t \in inner}
             ELSE IF e.tests = {} THEN {Broken} ELSE {TestClause(e.col, t) : t \in e.tests}

(* One clause for each entry. *)
Picks(entries, clauses(_)) ==
    {f \in [entries -> UNION {clauses(e) : e \in entries}] : \A e \in entries : f[e] \in clauses(e)}

(* What they make together: nothing at all is no SQL either. *)
Kind(f) ==
    LET kinds == {x.kind : x \in Range(f)}
    IN  IF "refused" \in kinds THEN "refused"
        ELSE IF "broken" \in kinds \/ kinds = {} THEN "broken" ELSE "sql"

(* buildOrClause: every entry of every object is an alternative. *)
Disjoin(f) == [kind |-> Kind(f), any |-> UNION {x.any : x \in Range(f)}]

EntryClauses(e) ==
    IF "any" \in DOMAIN e THEN {Disjoin(f) : f \in Picks(UNION e.any, ColumnClauses)}
    ELSE ColumnClauses(e)

(* Mutant: without its parentheses an alternative stands beside all the rest. *)
ConjoinOpen(f) == [kind |-> Kind(f), all |-> {UNION {x.any : x \in Range(f)}}]
Conjoin(f) == [kind |-> Kind(f), all |-> {x.any : x \in Range(f)}]

(* BuildWhereFromJSON: all that it may return. *)
Wheres(filter) ==
    IF filter = {} THEN {[kind |-> "sql", all |-> {}]}
    ELSE {Conjoin(f) : f \in Picks(UNION filter, EntryClauses)}

(* Does it have placeholders? *)
Binds(where) ==
    \E any \in where.all : \E x \in any :
        "args" \in DOMAIN x.test /\ x.test # Test("is", <<Null>>)
-----------------------------------------------------------------------------
(* What SQLite makes of it. *)

Compare(a, op, b) ==
    IF op = "is" THEN Truth(a = b)
    ELSE IF Null \in {a, b} THEN "null"
    ELSE CASE op = "eq" -> Truth(a = b)
           [] op = "neq" -> Truth(a # b)
           [] op = "gt" -> Truth(a > b)
           [] op = "gte" -> Truth(a >= b)
           [] op = "lt" -> Truth(a < b)
           [] op = "lte" -> Truth(a <= b)

TestOn(a, t, row) ==
    IF "ref" \in DOMAIN t THEN Compare(a, t.op, row[t.ref])
    ELSE IF t.op = "in" THEN AnyOf({Compare(a, "eq", v) : v \in Range(t.args)})
    ELSE IF t.op = "between"
    THEN AllOf({Compare(a, "gte", t.args[1]), Compare(a, "lte", t.args[2])})
    ELSE Compare(a, t.op, t.args[1])

Holds(where, row) ==
    LET value(x) ==
            LET v == TestOn(row[x.col], x.test, row) IN IF x.negated THEN Opposite(v) ELSE v
    IN  AllOf({AnyOf({value(x) : x \in any}) : any \in where.all})
-----------------------------------------------------------------------------
(* The reference: what a filter says.  Objects are joined by AND or OR, the
   entries of an object and the tests of a column by AND. *)

TestSays(a, t, row) ==
    IF t.op = "not" THEN Opposite(AllOf({TestOn(a, n, row) : n \in t.tests}))
    ELSE TestOn(a, t, row)

ColumnSays(e, row) == AllOf({TestSays(row[e.col], t, row) : t \in e.tests})

Says(filter, row) ==
    AllOf({IF "any" \in DOMAIN e
           THEN AnyOf({AllOf({ColumnSays(x, row) : x \in object}) : object \in e.any})
           ELSE ColumnSays(e, row) : e \in UNION filter})
=============================================================================
