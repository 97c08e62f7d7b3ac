---------------------------- MODULE Selects_proofs ----------------------------
(***************************************************************************)
(* Theorems about selects, for all databases, policies and changes by      *)
(* others: who is refused, for every request; and what is answered and     *)
(* counted, for the requests whose SQL says what they ask for.             *)
(*                                                                         *)
(* In this order: refusals (RefusalInv); filters (FiltersMean); which      *)
(* argument a placeholder gets (OwnArgument); the statement of a request   *)
(* (StatementIs); what its clauses demand of rows (KeptIs); the rows it    *)
(* returns (ResultsAre) and those asked for (AskedIs); and what is         *)
(* answered and counted (AnswerInv).                                       *)
(***************************************************************************)
EXTENDS Selects, WellFoundedInduction, FiniteSetTheorems, SequenceTheorems, TLAPS

(* Induction. *)

\* What holds of the first number of a range, and of each number after one it
\* holds of, holds of the whole range: there is no least number it fails.
LEMMA RangeInduction ==
    ASSUME NEW from \in Nat, NEW to \in Nat, NEW Good,
           from \in Good,
           \A v \in (from + 1)..to : v - 1 \in Good => v \in Good
    PROVE  from..to \subseteq Good
<1>1. PICK Bad : Bad = {v \in from..to : v \notin Good}
  OBVIOUS
<1>2. SUFFICES ASSUME Bad # {} PROVE FALSE
  BY <1>1
<1>3. Bad \subseteq Nat
  BY <1>1
<1>4. PICK n \in Bad : \A m \in Bad : ~(<<m, n>> \in OpToRel(<, Nat))
  BY <1>2, <1>3, NatLessThanWellFounded, WFMin, Zenon
<1>5. n \in (from + 1)..to /\ n \notin Good /\ n - 1 \in from..to
  <2>1. n \in from..to /\ n \notin Good /\ n # from
    BY <1>1
  <2> QED
    BY <2>1
<1>6. n - 1 \in Nat /\ n \in Nat /\ n - 1 < n
  BY <1>5
<1>7. <<n - 1, n>> \in OpToRel(<, Nat)
  BY <1>6, Zenon DEF OpToRel
<1>8. n - 1 \in Good
  BY <1>1, <1>4, <1>5, <1>7
<1> QED
  BY <1>5, <1>8
-----------------------------------------------------------------------------
(* Who is refused. *)

RefusalInv ==
    /\ pc \in Pc
    /\ pc # "asked" => (pc = "refused" <=> \E t \in Reached(query) : Decision(t) = "denied")

\* The policies are asked before anything else, and of every table.
LEMMA NextRefusal ==
    RefusalInv /\ [Next]_vars => RefusalInv'
<1> SUFFICES ASSUME RefusalInv, [Next]_vars PROVE RefusalInv'
  OBVIOUS
<1>1. policies' = policies /\ query' = query
  BY DEF Next, Build, Count, Fetch, Change, vars
<1>2. (\E t \in Reached(query) : Decision(t) = "denied")'
          <=> \E t \in Reached(query) : Decision(t) = "denied"
  BY <1>1 DEF Reached, Decision
<1>3. CASE Build
  BY <1>2, <1>3 DEF Build, RefusalInv, Pc
<1>4. CASE Count
  BY <1>2, <1>4 DEF Count, RefusalInv, Pc
<1>5. CASE Fetch
  BY <1>2, <1>5 DEF Fetch, RefusalInv, Pc
<1>6. CASE Change \/ UNCHANGED vars
  BY <1>2, <1>6 DEF Change, vars, RefusalInv, Pc
<1> QED
  BY <1>3, <1>4, <1>5, <1>6 DEF Next

\* A request is refused if and only if it is not the service's and reaches a table
\* from which its caller may never select (compileSelectPolicies).
THEOREM DeniedAreRefused == Spec => []RefusedIffDenied
<1>1. Init => RefusalInv
  BY DEF Init, RefusalInv, Pc
<1>2. RefusalInv => RefusedIffDenied
  <2> SUFFICES ASSUME RefusalInv PROVE RefusedIffDenied
    OBVIOUS
  <2>1. "open" # "denied"
    OBVIOUS
  <2>2. (\E t \in Reached(query) : Decision(t) = "denied")
            <=> /\ query.by # Service
                /\ \E i \in DOMAIN query.chain : policies[query.chain[i]] = "denied"
    BY <2>1 DEF Reached, Decision, Range
  <2> QED
    BY <2>2 DEF RefusalInv, RefusedIffDenied
<1> QED
  BY <1>1, <1>2, NextRefusal, PTL DEF Spec
-----------------------------------------------------------------------------
(* What a filter means. *)

ThreeValues == {"true", "false", "null"}

(* A column has one test, a negation is of one, and columns are compared as
   values are; eq() and the other helpers of the SDK build no other. *)
OneTest(e) ==
    "col" \in DOMAIN e =>
        \E t \in e.tests :
            /\ e.tests = {t}
            /\ IF t.op = "not" THEN \E n \in t.tests : t.tests = {n}
               ELSE "ref" \in DOMAIN t => t.op \in Comparisons
(* The alternatives of an "or" have one column each. *)
OneTestEach(e) ==
    IF "any" \in DOMAIN e
    THEN \A object \in e.any : \E x \in object : object = {x} /\ OneTest(x)
    ELSE OneTest(e)

(* what a comparison of the WHERE says of a row, and what an entry does *)
ComparisonSays(x, row) ==
    LET v == TestOn(row[x.col], x.test, row) IN IF x.negated THEN Opposite(v) ELSE v
EntrySays(e, row) ==
    IF "any" \in DOMAIN e
    THEN AnyOf({AllOf({ColumnSays(x, row) : x \in object}) : object \in e.any})
    ELSE ColumnSays(e, row)
ValuesOf(any, row) == {ComparisonSays(x, row) : x \in any}

\* A test that the server understands has a truth value.
LEMMA TestsHaveValues ==
    ASSUME NEW a, NEW t, NEW row,
           IF "ref" \in DOMAIN t THEN t.op \in Comparisons ELSE Understood(t)
    PROVE  TestOn(a, t, row) \in ThreeValues
<1>1. ASSUME NEW u, NEW v, NEW op \in Comparisons \cup {"is"}
      PROVE  Compare(u, op, v) \in ThreeValues
  BY DEF Compare, Comparisons, Truth, ThreeValues
<1>2. \A values : AllOf(values) \in ThreeValues /\ AnyOf(values) \in ThreeValues
  BY DEF AllOf, AnyOf, ThreeValues
<1>3. CASE "ref" \in DOMAIN t
  <2>1. t.op \in Comparisons \cup {"is"}
    BY <1>3
  <2>2. TestOn(a, t, row) = Compare(a, t.op, row[t.ref])
    BY <1>3 DEF TestOn
  <2> QED
    BY <1>1, <2>1, <2>2
<1>4. CASE "ref" \notin DOMAIN t /\ t.op \in {"in", "between"}
  BY <1>2, <1>4 DEF TestOn
<1>5. CASE "ref" \notin DOMAIN t /\ t.op \notin {"in", "between"}
  <2>1. t.op \in Comparisons \cup {"is"}
    BY <1>5 DEF Understood
  <2>2. TestOn(a, t, row) = Compare(a, t.op, t.args[1])
    BY <1>5 DEF TestOn
  <2> QED
    BY <1>1, <2>1, <2>2
<1> QED
  BY <1>3, <1>4, <1>5

\* One condition is as true as itself, alone in a conjunction or a disjunction.
LEMMA OfOne ==
    ASSUME NEW v \in ThreeValues
    PROVE  AllOf({v}) = v /\ AnyOf({v}) = v /\ Opposite(v) \in ThreeValues
BY DEF ThreeValues, AllOf, AnyOf, Opposite, Truth

\* What the server makes of one column is one comparison, with the same meaning.
LEMMA ColumnMeans ==
    ASSUME NEW e, OneTest(e), NEW x \in ColumnClauses(e), x.kind = "sql", NEW row
    PROVE  /\ ColumnSays(e, row) \in ThreeValues
           /\ \E y : x.any = {y} /\ ComparisonSays(y, row) = ColumnSays(e, row)
<1>1. "refused" # "sql" /\ "broken" # "sql" /\ Refused.kind = "refused" /\ Broken.kind = "broken"
  BY DEF Refused, Broken
<1>2. "col" \in DOMAIN e /\ e.col \in Column
  BY <1>1 DEF ColumnClauses
<1>3. PICK t \in e.tests :
          /\ e.tests = {t}
          /\ IF t.op = "not" THEN \E n \in t.tests : t.tests = {n}
             ELSE "ref" \in DOMAIN t => t.op \in Comparisons
  BY <1>2 DEF OneTest
<1>4. ColumnSays(e, row) = AllOf({TestSays(row[e.col], t, row)})
  BY <1>3 DEF ColumnSays
<1>5. ASSUME NEW c, NEW n
      PROVE  /\ Compared(c, n, TRUE).any = {[col |-> c, test |-> n, negated |-> TRUE]}
             /\ Compared(c, n, FALSE).any = {[col |-> c, test |-> n, negated |-> FALSE]}
             /\ ComparisonSays([col |-> c, test |-> n, negated |-> TRUE], row)
                  = Opposite(TestOn(row[c], n, row))
             /\ ComparisonSays([col |-> c, test |-> n, negated |-> FALSE], row)
                  = TestOn(row[c], n, row)
  BY DEF Compared, Sql, ComparisonSays
<1>6. CASE t.op = "not"
  <2>1. PICK n \in t.tests : t.tests = {n}
    BY <1>3, <1>6
  <2>2. {u \in e.tests : u.op = "not"} = {t}
    BY <1>3, <1>6
  <2>3. UNION {u.tests : u \in {u \in e.tests : u.op = "not"}} = {n}
    BY <2>1, <2>2
  <2>4. ColumnClauses(e) = {NotClause(e.col, n)}
    BY <1>2, <2>2, <2>3 DEF ColumnClauses
  <2>5. "ref" \notin DOMAIN n /\ Understood(n) /\ x = Compared(e.col, n, TRUE)
    BY <1>1, <2>4 DEF NotClause
  <2>6. TestOn(row[e.col], n, row) \in ThreeValues
    BY <2>5, TestsHaveValues
  <2>7. TestSays(row[e.col], t, row) = Opposite(AllOf({TestOn(row[e.col], n, row)}))
    BY <1>6, <2>1 DEF TestSays
  <2>8. TestSays(row[e.col], t, row) = Opposite(TestOn(row[e.col], n, row))
    BY <2>6, <2>7, OfOne
  <2>9. /\ TestSays(row[e.col], t, row) \in ThreeValues
        /\ ColumnSays(e, row) = TestSays(row[e.col], t, row)
    BY <1>4, <2>6, <2>8, OfOne
  <2>10. PICK y : y = [col |-> e.col, test |-> n, negated |-> TRUE]
    OBVIOUS
  <2>11. x.any = {y} /\ ComparisonSays(y, row) = Opposite(TestOn(row[e.col], n, row))
    BY <1>5, <2>5, <2>10
  <2> QED
    BY <2>8, <2>9, <2>11
<1>7. CASE t.op # "not"
  <2>1. {u \in e.tests : u.op = "not"} = {} /\ e.tests # {}
    BY <1>3, <1>7
  <2>2. ColumnClauses(e) = {TestClause(e.col, u) : u \in e.tests}
    BY <1>2, <2>1 DEF ColumnClauses
  <2>3. x = TestClause(e.col, t)
    BY <1>3, <2>2
  <2>4. PICK n : /\ x = Compared(e.col, n, FALSE)
                 /\ TestOn(row[e.col], n, row) = TestOn(row[e.col], t, row)
    <3>1. CASE "ref" \in DOMAIN t
      <4>1. PICK n : n = TestColumn(t.op, t.ref)
        OBVIOUS
      <4>2. t.op \in Comparisons /\ ColumnOp(t.op) = t.op
        BY <1>3, <1>7, <3>1 DEF ColumnOp
      <4>3. x = Compared(e.col, n, FALSE)
        BY <1>1, <2>3, <3>1, <4>1, <4>2 DEF TestClause
      <4>4. "ref" \in DOMAIN n /\ n.op = t.op /\ n.ref = t.ref
        BY <4>1 DEF TestColumn
      <4>5. TestOn(row[e.col], n, row) = TestOn(row[e.col], t, row)
        BY <3>1, <4>4 DEF TestOn
      <4> QED
        BY <4>3, <4>5
    <3>2. CASE "ref" \notin DOMAIN t
      BY <1>1, <2>3, <3>2 DEF TestClause
    <3> QED
      BY <3>1, <3>2
  <2>5. IF "ref" \in DOMAIN t THEN t.op \in Comparisons ELSE Understood(t)
    BY <1>1, <1>3, <1>7, <2>3 DEF TestClause
  <2>6. TestOn(row[e.col], t, row) \in ThreeValues
    BY <2>5, TestsHaveValues
  <2>7. TestSays(row[e.col], t, row) = TestOn(row[e.col], t, row)
    BY <1>7 DEF TestSays
  <2>8. ColumnSays(e, row) = TestOn(row[e.col], t, row)
    BY <1>4, <2>6, <2>7, OfOne
  <2>9. PICK y : y = [col |-> e.col, test |-> n, negated |-> FALSE]
    OBVIOUS
  <2>10. x.any = {y} /\ ComparisonSays(y, row) = TestOn(row[e.col], t, row)
    <3>1. /\ Compared(e.col, n, FALSE).any = {y}
          /\ ComparisonSays(y, row) = TestOn(row[e.col], n, row)
      BY <1>5, <2>9
    <3> QED
      BY <2>4, <3>1
  <2> QED
    BY <2>6, <2>8, <2>10
<1> QED
  BY <1>6, <1>7

Kinds == {"sql", "refused", "broken"}

\* Everything the server makes of a column is SQL or not ...
LEMMA ColumnKinds ==
    ASSUME NEW e, NEW x \in ColumnClauses(e)
    PROVE  x.kind \in Kinds
<1>1. Refused.kind \in Kinds /\ Broken.kind \in Kinds
      /\ \A col, t, negated : Compared(col, t, negated).kind \in Kinds
  BY DEF Refused, Broken, Compared, Sql, Kinds
<1>2. \A col, t : TestClause(col, t).kind \in Kinds /\ NotClause(col, t).kind \in Kinds
  BY <1>1 DEF TestClause, NotClause
<1> QED
  BY <1>1, <1>2 DEF ColumnClauses

\* ... and everything together is SQL only if each part is.
LEMMA KindIs ==
    ASSUME NEW f, \A e \in DOMAIN f : f[e].kind \in Kinds, Kind(f) = "sql", NEW e \in DOMAIN f
    PROVE  f[e].kind = "sql"
<1>1. PICK kinds : kinds = {x.kind : x \in Range(f)}
  OBVIOUS
<1>2. f[e].kind \in kinds
  BY <1>1 DEF Range
<1>3. "refused" \notin kinds /\ "broken" \notin kinds
  BY <1>1 DEF Kind
<1> QED
  BY <1>2, <1>3 DEF Kinds

\* The same of the entries.
LEMMA EntryKinds ==
    ASSUME NEW e, NEW x \in EntryClauses(e)
    PROVE  x.kind \in Kinds
<1>1. \A f : Kind(f) \in Kinds
  BY DEF Kind, Kinds
<1>2. \A f : Disjoin(f).kind = Kind(f)
  BY DEF Disjoin
<1> QED
  BY <1>1, <1>2, ColumnKinds DEF EntryClauses

\* What the server makes of an entry has its meaning.
LEMMA EntryMeans ==
    ASSUME NEW e, OneTestEach(e), NEW x \in EntryClauses(e), x.kind = "sql", NEW row
    PROVE  AnyOf(ValuesOf(x.any, row)) = EntrySays(e, row)
<1>1. CASE "any" \notin DOMAIN e
  <2>1. x \in ColumnClauses(e) /\ OneTest(e) /\ EntrySays(e, row) = ColumnSays(e, row)
    BY <1>1 DEF EntryClauses, OneTestEach, EntrySays
  <2>2. PICK y : x.any = {y} /\ ComparisonSays(y, row) = ColumnSays(e, row)
    BY <2>1, ColumnMeans
  <2>3. ValuesOf(x.any, row) = {ColumnSays(e, row)} /\ ColumnSays(e, row) \in ThreeValues
    BY <2>1, <2>2, ColumnMeans DEF ValuesOf
  <2> QED
    BY <2>1, <2>3, OfOne
<1>2. CASE "any" \in DOMAIN e
  <2>1. PICK S : S = UNION e.any
    OBVIOUS
  <2>2. PICK f : f \in Picks(S, ColumnClauses) /\ x = Disjoin(f)
    BY <1>2, <2>1 DEF EntryClauses
  <2>3. DOMAIN f = S /\ \A y \in S : f[y] \in ColumnClauses(y)
    BY <2>2 DEF Picks
  <2>4. x.any = UNION {f[y].any : y \in S} /\ x.kind = Kind(f)
    BY <2>2, <2>3 DEF Disjoin, Range
  <2>5. \A y \in S : OneTest(y)
    BY <1>2, <2>1 DEF OneTestEach
  <2>6. \A y \in S : f[y].kind = "sql"
    BY <2>3, <2>4, ColumnKinds, KindIs
  <2>7. ASSUME NEW y \in S
        PROVE  /\ ColumnSays(y, row) \in ThreeValues
               /\ \E z : f[y].any = {z} /\ ComparisonSays(z, row) = ColumnSays(y, row)
    BY <2>3, <2>5, <2>6, ColumnMeans
  <2>8. ASSUME NEW v
        PROVE  v \in ValuesOf(x.any, row) <=> \E y \in S : v = ColumnSays(y, row)
    BY <2>4, <2>7 DEF ValuesOf
  <2>9. PICK Meant : Meant = {AllOf({ColumnSays(y, row) : y \in object}) : object \in e.any}
    OBVIOUS
  <2>10. ASSUME NEW object \in e.any
         PROVE  \E y \in object : /\ object = {y} /\ y \in S
                                  /\ AllOf({ColumnSays(z, row) : z \in object}) = ColumnSays(y, row)
    <3>1. PICK y \in object : object = {y}
      BY <1>2 DEF OneTestEach
    <3>2. y \in S /\ {ColumnSays(z, row) : z \in object} = {ColumnSays(y, row)}
      BY <2>1, <3>1
    <3> QED
      BY <2>7, <3>1, <3>2, OfOne
  <2>11. \A v : v \in Meant <=> \E y \in S : v = ColumnSays(y, row)
    <3>1. ASSUME NEW v \in Meant PROVE \E y \in S : v = ColumnSays(y, row)
      BY <2>9, <2>10
    <3>2. ASSUME NEW y \in S PROVE ColumnSays(y, row) \in Meant
      <4>1. PICK object \in e.any : y \in object
        BY <2>1
      <4>2. AllOf({ColumnSays(z, row) : z \in object}) = ColumnSays(y, row)
        BY <2>10, <4>1
      <4> QED
        BY <2>9, <4>1, <4>2
    <3> QED
      BY <3>1, <3>2
  <2>12. ValuesOf(x.any, row) = Meant
    BY <2>8, <2>11
  <2> QED
    BY <1>2, <2>9, <2>12 DEF EntrySays
<1> QED
  BY <1>1, <1>2

\* If the server understands a filter, its SQL means what the filter says
\* (BuildWhereFromJSON).
THEOREM FiltersMean ==
    ASSUME NEW filter, \A e \in UNION filter : OneTestEach(e),
           NEW where \in Wheres(filter), where.kind = "sql", NEW row
    PROVE  Holds(where, row) = Says(filter, row)
<1>1. Holds(where, row) = AllOf({AnyOf(ValuesOf(any, row)) : any \in where.all})
  BY Zenon DEF Holds, ValuesOf, ComparisonSays
<1>2. PICK E : E = UNION filter
  OBVIOUS
<1>3. Says(filter, row) = AllOf({EntrySays(e, row) : e \in E})
  BY <1>2, Zenon DEF Says, EntrySays
<1>4. CASE filter = {}
  <2>1. where.all = {} /\ E = {}
    BY <1>2, <1>4 DEF Wheres
  <2>2. {AnyOf(ValuesOf(any, row)) : any \in where.all} = {} /\ {EntrySays(e, row) : e \in E} = {}
    BY <2>1
  <2> QED
    BY <1>1, <1>3, <2>2
<1>5. CASE filter # {}
  <2>1. PICK f : f \in Picks(E, EntryClauses) /\ where = Conjoin(f)
    BY <1>2, <1>5 DEF Wheres
  <2>2. DOMAIN f = E /\ \A e \in E : f[e] \in EntryClauses(e)
    BY <2>1 DEF Picks
  <2>3. where.all = {f[e].any : e \in E} /\ Kind(f) = "sql"
    BY <2>1, <2>2 DEF Conjoin, Range
  <2>4. \A e \in E : f[e].kind = "sql"
    BY <2>2, <2>3, EntryKinds, KindIs
  <2>5. \A e \in E : AnyOf(ValuesOf(f[e].any, row)) = EntrySays(e, row)
    BY <1>2, <2>2, <2>4, EntryMeans
  <2>6. {AnyOf(ValuesOf(any, row)) : any \in where.all} = {EntrySays(e, row) : e \in E}
    BY <2>3, <2>5
  <2> QED
    BY <1>1, <1>3, <2>6
<1> QED
  BY <1>4, <1>5
-----------------------------------------------------------------------------
(* Which argument a placeholder gets. *)

(* the arguments of the first n clauses, and where placeholders are up to n *)
ArgsTo(f, cs, n) ==
    f = [i \in 0..n |-> IF i = 0 THEN <<>>
                        ELSE IF HasArgument(cs[i]) THEN Append(f[i - 1], cs[i].arg)
                        ELSE f[i - 1]]
Placed(cs, n) == {j \in 1..n : HasArgument(cs[j])}
ArgsIn(C) == {c.arg : c \in C}

\* Arguments are collected by a recursion that ends ...
LEMMA ArgsRecursion ==
    ASSUME NEW cs, NEW n \in Nat
    PROVE  \E f : ArgsTo(f, cs, n)
<1> DEFINE Good == {m \in 0..n : \E f : ArgsTo(f, cs, m)}
<1>1. 0 \in Good
  <2>1. PICK f : f = [i \in 0..0 |-> <<>>]
    OBVIOUS
  <2>2. ArgsTo(f, cs, 0)
    BY <2>1 DEF ArgsTo
  <2> QED
    BY <2>2
<1>2. ASSUME NEW m \in (0 + 1)..n, m - 1 \in Good PROVE m \in Good
  <2>1. PICK f : ArgsTo(f, cs, m - 1)
    BY <1>2
  <2>2. PICK g : g = [i \in 0..m |->
            IF i < m THEN f[i]
            ELSE IF HasArgument(cs[m]) THEN Append(f[m - 1], cs[m].arg) ELSE f[m - 1]]
    OBVIOUS
  <2>3. \A i \in 0..(m - 1) :
            f[i] = IF i = 0 THEN <<>>
                   ELSE IF HasArgument(cs[i]) THEN Append(f[i - 1], cs[i].arg) ELSE f[i - 1]
    BY <2>1 DEF ArgsTo
  <2>4. \A i \in 0..m : i # 0 => i - 1 \in 0..m /\ i - 1 < m /\ (i < m => i \in 0..(m - 1))
    OBVIOUS
  <2>5. \A i \in 0..m : i # 0 => g[i - 1] = f[i - 1]
    BY <2>2, <2>4
  <2>6. ASSUME NEW i \in 0..m
        PROVE  g[i] = IF i = 0 THEN <<>>
                      ELSE IF HasArgument(cs[i]) THEN Append(g[i - 1], cs[i].arg)
                      ELSE g[i - 1]
    <3>1. CASE i = 0
      BY <2>2, <2>3, <3>1
    <3>2. CASE i # 0 /\ i < m
      BY <2>2, <2>3, <2>4, <2>5, <3>2
    <3>3. CASE i # 0 /\ i = m
      BY <2>2, <2>5, <3>3
    <3> QED
      BY <3>1, <3>2, <3>3
  <2>7. ArgsTo(g, cs, m)
    BY <2>2, <2>6 DEF ArgsTo
  <2> QED
    BY <2>7
<1> HIDE DEF Good
<1>3. n \in Good
  BY <1>1, <1>2, RangeInduction
<1> QED
  BY <1>3 DEF Good

\* ... and has these values.
LEMMA ArgsOfIs ==
    ASSUME NEW C, NEW cs \in Seq(C)
    PROVE  \E f : /\ ArgsTo(f, cs, Len(cs)) /\ ArgsOf(cs) = f[Len(cs)]
                  /\ f[0] = <<>>
                  /\ \A i \in 1..Len(cs) :
                         f[i] = IF HasArgument(cs[i]) THEN Append(f[i - 1], cs[i].arg)
                                ELSE f[i - 1]
                  /\ \A i \in 0..Len(cs) : f[i] \in Seq(ArgsIn(C))
<1>1. PICK n \in Nat : n = Len(cs)
  BY LenProperties
<1>2. PICK f : f = CHOOSE g : ArgsTo(g, cs, n)
  OBVIOUS
<1>3. ArgsTo(f, cs, n)
  BY <1>2, ArgsRecursion, Zenon
<1>4. ArgsOf(cs) = f[n]
  BY <1>1, <1>2, Zenon DEF ArgsOf, ArgsTo
<1>5. /\ f[0] = <<>>
      /\ \A i \in 1..n : f[i] = IF HasArgument(cs[i]) THEN Append(f[i - 1], cs[i].arg)
                                ELSE f[i - 1]
  <2>1. 0 \in 0..n /\ \A i \in 1..n : i \in 0..n /\ i # 0
    OBVIOUS
  <2>2. \A i \in 0..n : f[i] = IF i = 0 THEN <<>>
                               ELSE IF HasArgument(cs[i]) THEN Append(f[i - 1], cs[i].arg)
                               ELSE f[i - 1]
    BY <1>3 DEF ArgsTo
  <2> QED
    BY <2>1, <2>2
<1> DEFINE Good == {i \in 0..n : f[i] \in Seq(ArgsIn(C))}
<1>6. 0 \in Good
  <2>1. 0 \in 0..n /\ <<>> \in Seq(ArgsIn(C))
    BY EmptySeq
  <2> QED
    BY <1>5, <2>1
<1>7. ASSUME NEW i \in (0 + 1)..n, i - 1 \in Good PROVE i \in Good
  <2>1. f[i - 1] \in Seq(ArgsIn(C)) /\ i \in 1..n /\ i \in 0..n
    BY <1>7
  <2>2. cs[i] \in C
    BY <1>1, <2>1, ElementOfSeq
  <2>3. cs[i].arg \in ArgsIn(C)
    BY <2>2 DEF ArgsIn
  <2>4. f[i] \in Seq(ArgsIn(C))
    BY <1>5, <2>1, <2>3, AppendProperties
  <2> QED
    BY <2>1, <2>4
<1> HIDE DEF Good
<1>8. 0..n \subseteq Good
  BY <1>6, <1>7, RangeInduction
<1> QED
  BY <1>1, <1>3, <1>4, <1>5, <1>8 DEF Good

\* The n-th placeholder finds the argument of its own clause.
LEMMA OwnArgument ==
    ASSUME NEW C, NEW cs \in Seq(C), NEW k \in Placed(cs, Len(cs))
    PROVE  ArgsOf(cs)[Cardinality(Placed(cs, k))] = cs[k].arg
<1>1. PICK n \in Nat : n = Len(cs)
  BY LenProperties
<1>2. PICK f : /\ ArgsOf(cs) = f[n] /\ f[0] = <<>>
               /\ \A i \in 1..n : f[i] = IF HasArgument(cs[i]) THEN Append(f[i - 1], cs[i].arg)
                                         ELSE f[i - 1]
               /\ \A i \in 0..n : f[i] \in Seq(ArgsIn(C))
  BY <1>1, ArgsOfIs
<1> DEFINE Number(i) == Cardinality(Placed(cs, i))
           Found(i) == \A j \in Placed(cs, i) : /\ Number(j) \in 1..Len(f[i])
                                                 /\ f[i][Number(j)] = cs[j].arg
           Good == {i \in 0..n : Len(f[i]) = Number(i) /\ Found(i)}
<1>3. 0 \in Good
  <2>1. Placed(cs, 0) = {} /\ 0 \in 0..n
    BY DEF Placed
  <2>2. Number(0) = 0 /\ Len(f[0]) = 0
    BY <1>2, <2>1, FS_EmptySet
  <2> QED
    BY <2>1, <2>2
<1>4. ASSUME NEW i \in (0 + 1)..n, i - 1 \in Good PROVE i \in Good
  <2>1. i \in 1..n /\ i \in 0..n /\ i - 1 \in 0..n /\ i \in Nat /\ i \notin 1..(i - 1)
    BY <1>4
  <2>2. PICK p, q, s : p = f[i - 1] /\ q = f[i] /\ s = Placed(cs, i - 1)
    OBVIOUS
  <2>3. /\ p \in Seq(ArgsIn(C)) /\ q \in Seq(ArgsIn(C)) /\ Len(p) \in Nat
        /\ Len(p) = Cardinality(s)
        /\ \A j \in s : Number(j) \in 1..Len(p) /\ p[Number(j)] = cs[j].arg
    BY <1>2, <1>4, <2>1, <2>2, LenProperties
  <2>4. IsFiniteSet(s) /\ i \notin s
    <3>1. IsFiniteSet(1..(i - 1)) /\ s \in SUBSET (1..(i - 1))
      BY <2>1, <2>2, FS_Interval DEF Placed
    <3> QED
      BY <2>1, <3>1, FS_Subset
  <2>5. CASE HasArgument(cs[i])
    <3>1. Placed(cs, i) = s \cup {i}
      BY <2>1, <2>2, <2>5 DEF Placed
    <3>2. Number(i) = Len(p) + 1
      BY <2>3, <2>4, <3>1, FS_AddElement
    <3>3. q = Append(p, cs[i].arg) /\ cs[i].arg \in ArgsIn(C)
      BY <1>1, <1>2, <2>1, <2>2, <2>5, ElementOfSeq DEF ArgsIn
    <3>4. Len(q) = Len(p) + 1 /\ q[Len(p) + 1] = cs[i].arg /\ \A j \in 1..Len(p) : q[j] = p[j]
      BY <2>3, <3>3, AppendProperties
    <3>5. \A j \in s \cup {i} : Number(j) \in 1..Len(q) /\ q[Number(j)] = cs[j].arg
      <4> HIDE DEF Number
      <4> QED
        BY <2>3, <3>2, <3>4
    <3> QED
      BY <2>1, <2>2, <3>1, <3>2, <3>4, <3>5
  <2>6. CASE ~HasArgument(cs[i])
    <3>1. Placed(cs, i) = s
      BY <2>1, <2>2, <2>6 DEF Placed
    <3>2. q = p
      BY <1>2, <2>1, <2>2, <2>6
    <3> QED
      BY <2>1, <2>2, <2>3, <3>1, <3>2
  <2> QED
    BY <2>5, <2>6
<1> HIDE DEF Good
<1>5. 0..n \subseteq Good
  BY <1>3, <1>4, RangeInduction
<1>6. n \in Good
  BY <1>5
<1> QED
  BY <1>1, <1>2, <1>6 DEF Good

\* The arguments of clauses one after the other.
LEMMA ArgsOfBoth ==
    ASSUME NEW C, NEW a \in Seq(C), NEW b \in Seq(C)
    PROVE  ArgsOf(a \o b) = ArgsOf(a) \o ArgsOf(b)
<1>1. PICK n \in Nat, m \in Nat : n = Len(a) /\ m = Len(b)
  BY LenProperties
<1>2. PICK cs : cs = a \o b /\ cs \in Seq(C) /\ Len(cs) = n + m
                /\ (\A i \in 1..n : cs[i] = a[i]) /\ \A i \in 1..m : cs[n + i] = b[i]
  <2>1. \A i \in 1..n : i \in 1..(n + m) /\ i <= n
    OBVIOUS
  <2>2. \A i \in 1..m : n + i \in 1..(n + m) /\ ~(n + i <= n) /\ (n + i) - n = i
    OBVIOUS
  <2>3. PICK cs : cs = a \o b
    OBVIOUS
  <2>4. /\ cs \in Seq(C) /\ Len(cs) = n + m
        /\ \A i \in 1..(n + m) : cs[i] = IF i <= n THEN a[i] ELSE b[i - n]
    BY <1>1, <2>3, ConcatProperties
  <2>5. \A i \in 1..m : cs[n + i] = b[i]
    BY <2>2, <2>4
  <2> QED
    BY <2>1, <2>3, <2>4, <2>5
<1>3. PICK f : /\ ArgsOf(a) = f[n] /\ f[0] = <<>>
               /\ \A i \in 1..n : f[i] = IF HasArgument(a[i]) THEN Append(f[i - 1], a[i].arg)
                                         ELSE f[i - 1]
               /\ \A i \in 0..n : f[i] \in Seq(ArgsIn(C))
  BY <1>1, ArgsOfIs
<1>4. PICK g : /\ ArgsOf(b) = g[m] /\ g[0] = <<>>
               /\ \A i \in 1..m : g[i] = IF HasArgument(b[i]) THEN Append(g[i - 1], b[i].arg)
                                         ELSE g[i - 1]
               /\ \A i \in 0..m : g[i] \in Seq(ArgsIn(C))
  BY <1>1, ArgsOfIs
<1>5. PICK h : /\ ArgsOf(cs) = h[n + m] /\ h[0] = <<>>
               /\ \A i \in 1..(n + m) :
                      h[i] = IF HasArgument(cs[i]) THEN Append(h[i - 1], cs[i].arg)
                             ELSE h[i - 1]
  <2>1. PICK l : l = n + m /\ l = Len(cs)
    BY <1>2
  <2>2. cs \in Seq(C)
    BY <1>2
  <2>3. PICK h : /\ ArgsTo(h, cs, Len(cs)) /\ ArgsOf(cs) = h[Len(cs)]
                 /\ h[0] = <<>>
                 /\ \A i \in 1..Len(cs) :
                        h[i] = IF HasArgument(cs[i]) THEN Append(h[i - 1], cs[i].arg)
                               ELSE h[i - 1]
                 /\ \A i \in 0..Len(cs) : h[i] \in Seq(ArgsIn(C))
    BY <2>2, ArgsOfIs, Zenon
  <2> QED
    BY <2>1, <2>3
<1> DEFINE Same == {i \in 0..n : h[i] = f[i]}
           After == {i \in 0..m : h[n + i] = f[n] \o g[i]}
<1>6. 0..n \subseteq Same
  <2>1. 0 \in Same
    BY <1>3, <1>5
  <2>2. ASSUME NEW i \in (0 + 1)..n, i - 1 \in Same PROVE i \in Same
    <3>1. i \in 1..n /\ i \in 1..(n + m) /\ i \in 0..n
      BY <2>2
    <3>2. h[i - 1] = f[i - 1]
      BY <2>2
    <3>3. h[i] = f[i]
      BY <1>2, <1>3, <1>5, <3>1, <3>2
    <3> QED
      BY <3>1, <3>3
  <2> HIDE DEF Same
  <2> QED
    BY <2>1, <2>2, RangeInduction
<1>7. 0..m \subseteq After
  <2>1. 0 \in After
    <3>1. f[n] \in Seq(ArgsIn(C)) /\ h[n] = f[n] /\ n + 0 = n /\ 0 \in 0..m
      <4>1. n \in 0..n /\ 0 \in 0..m
        OBVIOUS
      <4> QED
        BY <1>3, <1>6, <4>1
    <3>2. f[n] \o <<>> = f[n]
      BY <3>1, ConcatEmptySeq
    <3> QED
      BY <1>4, <3>1, <3>2
  <2>2. ASSUME NEW i \in (0 + 1)..m, i - 1 \in After PROVE i \in After
    <3>1. i \in 1..m /\ n + i \in 1..(n + m) /\ i \in 0..m /\ (n + i) - 1 = n + (i - 1) /\ i - 1 \in 0..m
      BY <2>2
    <3>2. PICK p, q, c : p = f[n] /\ q = g[i - 1] /\ c = b[i]
      OBVIOUS
    <3>3. h[(n + i) - 1] = p \o q
      BY <2>2, <3>1, <3>2
    <3>4. /\ h[n + i] = IF HasArgument(c) THEN Append(p \o q, c.arg) ELSE p \o q
          /\ g[i] = IF HasArgument(c) THEN Append(q, c.arg) ELSE q
      BY <1>2, <1>4, <1>5, <3>1, <3>2, <3>3
    <3>5. p \in Seq(ArgsIn(C)) /\ q \in Seq(ArgsIn(C)) /\ c.arg \in ArgsIn(C)
      <4>1. c \in C
        BY <1>1, <3>1, <3>2, ElementOfSeq
      <4>2. n \in 0..n
        OBVIOUS
      <4> QED
        BY <1>3, <1>4, <3>1, <3>2, <4>1, <4>2 DEF ArgsIn
    <3>6. Append(p \o q, c.arg) = p \o Append(q, c.arg)
      <4>1. p \o q \in Seq(ArgsIn(C)) /\ <<c.arg>> \in Seq(ArgsIn(C))
        BY <3>5, ConcatProperties
      <4>2. Append(p \o q, c.arg) = (p \o q) \o <<c.arg>> /\ Append(q, c.arg) = q \o <<c.arg>>
        BY <3>5, <4>1, AppendIsConcat
      <4> QED
        BY <3>5, <4>1, <4>2, ConcatAssociative
    <3> QED
      BY <3>1, <3>2, <3>4, <3>6
  <2> HIDE DEF After
  <2> QED
    BY <2>1, <2>2, RangeInduction
<1>8. m \in After
  <2> HIDE DEF After
  <2>1. m \in 0..m
    OBVIOUS
  <2> QED
    BY <1>7, <2>1
<1> QED
  BY <1>2, <1>3, <1>4, <1>5, <1>8
-----------------------------------------------------------------------------
(* The statement of a request. *)

(* Requests whose SQL says what they ask for: those that are not refuted by a
   finding.  Filters are as the helpers build them; the tables of a chain differ; at
   most one relation is followed, unless the configuration stops at fewer than asked;
   and a filter with arguments is not beside a policy of a joined table. *)
Sound(q) ==
    /\ \A e \in UNION q.filter : OneTestEach(e)
    /\ IsInjective(q.chain)
    /\ Len(q.chain) > 2 => Len(q.chain) > MaxQueryDepth
    /\ q.kind # "nested" /\ q.by # Service /\ (\E where \in Wheres(q.filter) : Binds(where))
           => \A p \in Policies : p[q.chain[2]] \notin {"own", "member"}
SoundRequests == \A q \in Query : Sound(q)

(* The handler has found the request answerable and built its SQL. *)
IsBuilt(where) ==
    /\ query \in Query /\ policies \in Policies
    /\ \A t \in Reached(query) : Decision(t) # "denied"
    /\ Depth(query) <= MaxQueryDepth
    /\ where \in Wheres(query.filter)
    /\ stmt = Statement(query, where)

AtMostOne(s) == s = <<>> \/ \E c : s = <<c>>
Before(cs, x, y) == \E i, j \in DOMAIN cs : i < j /\ cs[i] = x /\ cs[j] = y

\* Such a list is a sequence of what it holds.
LEMMA OneIsSeq ==
    ASSUME NEW s, AtMostOne(s), NEW C, Range(s) \subseteq C
    PROVE  s \in Seq(C)
<1>1. CASE s = <<>>
  BY <1>1
<1>2. CASE \E c : s = <<c>>
  <2>1. PICK c : s = <<c>>
    BY <1>2
  <2>2. c \in Range(s)
    BY <2>1 DEF Range
  <2> QED
    BY <2>1, <2>2
<1> QED
  BY <1>1, <1>2 DEF AtMostOne

\* Two lists one after the other hold what both do, the first before the second.
LEMMA RangeOfBoth ==
    ASSUME NEW C, NEW a \in Seq(C), NEW b \in Seq(C)
    PROVE  /\ Range(a \o b) = Range(a) \cup Range(b)
           /\ \A x \in Range(a), y \in Range(b) : Before(a \o b, x, y)
           /\ \A x, y : Before(a, x, y) \/ Before(b, x, y) => Before(a \o b, x, y)
<1>1. PICK n \in Nat, m \in Nat : n = Len(a) /\ m = Len(b)
  BY LenProperties
<1>2. PICK cs : cs = a \o b
  OBVIOUS
<1>3. /\ cs \in Seq(C) /\ Len(cs) = n + m
      /\ \A i \in 1..(n + m) : cs[i] = IF i <= n THEN a[i] ELSE b[i - n]
  BY <1>1, <1>2, ConcatProperties
<1>4. DOMAIN a = 1..n /\ DOMAIN b = 1..m /\ DOMAIN cs = 1..(n + m)
  BY <1>1, <1>3, LenProperties
<1>5. \A i \in 1..n : i \in 1..(n + m) /\ cs[i] = a[i]
  BY <1>3
<1>6. \A i \in 1..m : n + i \in 1..(n + m) /\ cs[n + i] = b[i]
  <2>1. \A i \in 1..m : n + i \in 1..(n + m) /\ ~(n + i <= n) /\ (n + i) - n = i
    OBVIOUS
  <2> QED
    BY <1>3, <2>1
<1>7. \A i \in 1..(n + m) : i \in 1..n \/ (i - n \in 1..m /\ cs[i] = b[i - n])
  BY <1>3
<1>8. Range(cs) = Range(a) \cup Range(b)
  <2>1. Range(cs) \subseteq Range(a) \cup Range(b)
    BY <1>4, <1>5, <1>7 DEF Range
  <2>2. Range(a) \cup Range(b) \subseteq Range(cs)
    BY <1>4, <1>5, <1>6 DEF Range
  <2> QED
    BY <2>1, <2>2
<1>9. ASSUME NEW x \in Range(a), NEW y \in Range(b) PROVE Before(cs, x, y)
  <2>1. PICK i \in 1..n, j \in 1..m : a[i] = x /\ b[j] = y
    BY <1>4 DEF Range
  <2>2. i < n + j
    OBVIOUS
  <2> QED
    BY <1>4, <1>5, <1>6, <2>1, <2>2 DEF Before
<1>10. ASSUME NEW x, NEW y, Before(a, x, y) \/ Before(b, x, y) PROVE Before(cs, x, y)
  <2>1. CASE Before(a, x, y)
    BY <1>4, <1>5, <2>1 DEF Before
  <2>2. CASE Before(b, x, y)
    <3>1. PICK i \in 1..m, j \in 1..m : i < j /\ b[i] = x /\ b[j] = y
      BY <1>4, <2>2 DEF Before
    <3>2. n + i < n + j
      BY <3>1
    <3> QED
      BY <1>4, <1>6, <3>1, <3>2 DEF Before
  <2> QED
    BY <1>10, <2>1, <2>2
<1> QED
  BY <1>2, <1>8, <1>9, <1>10

\* What a request may ask for.
LEMMA QueryIs ==
    ASSUME NEW q \in Query, Sound(q), Depth(q) <= MaxQueryDepth
    PROVE  /\ q.chain \in Seq(Table) /\ Len(q.chain) \in {1, 2} /\ DOMAIN q.chain = 1..Len(q.chain)
           /\ Head(q.chain) = q.chain[1] /\ q.chain[1] \in Table
           /\ Len(q.chain) = 2 => q.chain[2] \in Table /\ q.chain[2] # q.chain[1]
           /\ q.kind # "nested" => Len(q.chain) = 2
           /\ q.kind \in {"nested", "left", "inner"} /\ q.flat \in BOOLEAN
           /\ q.flat => q.kind # "nested"
           /\ q.by \in User \cup {Service}
<1>1. PICK c : c = q.chain
  OBVIOUS
<1>2. /\ c # <<>> /\ c \in Seq(Table)
      /\ q.kind \in {"nested", "left", "inner"} /\ (q.kind # "nested" => Len(c) = 2)
      /\ q.by \in User \cup {Service}
      /\ {q.flat, q.star, q.count, q.batch} \subseteq BOOLEAN
      /\ q.flat => q.kind # "nested"
      /\ MaxQueryDepth \in Nat
  <2>1. IsQuery(q) /\ MaxQueryDepth \in Nat
    BY SelectsAssumption
  <2> QED
    BY <1>1, <2>1 DEF IsQuery
<1>3. PICK n \in Nat \ {0} : n = Len(c) /\ DOMAIN c = 1..n
  <2>1. Len(c) \in Nat \ {0}
    BY <1>2, EmptySeq
  <2>2. DOMAIN c = 1..Len(c)
    BY <1>2, LenProperties
  <2> QED
    BY <2>1, <2>2
<1>4. ~(n > 2)
  <2>1. SUFFICES ASSUME n > 2 PROVE FALSE
    OBVIOUS
  <2>2. Len(c) > 2 => Len(c) > MaxQueryDepth
    BY <1>1, Zenon DEF Sound
  <2>3. Len(c) # 2
    BY <1>3, <2>1
  <2>4. q.kind = "nested"
    BY <1>2, <2>3
  <2>5. n <= MaxQueryDepth
    BY <1>1, <1>3, <2>4 DEF Depth
  <2> QED
    BY <1>2, <1>3, <2>1, <2>2, <2>5
<1>5. n \in {1, 2}
  BY <1>3, <1>4
<1>6. \A i \in 1..n : c[i] \in Table
  BY <1>2, <1>3, ElementOfSeq
<1>7. n = 2 => c[2] # c[1]
  BY <1>1, <1>3 DEF Sound, IsInjective
<1>8. Head(c) = c[1]
  BY <1>2
<1>9. 1 \in 1..n /\ (n = 2 => 2 \in 1..n)
  BY <1>3
<1> QED
  BY <1>1, <1>2, <1>3, <1>5, <1>6, <1>7, <1>8, <1>9


\* At most one subquery is built ...
LEMMA SubqueriesAre ==
    ASSUME NEW q, Len(q.chain) \in {1, 2}
    PROVE  Subqueries(q) = IF Len(q.chain) = 1 THEN <<>> ELSE PolicyOf("subquery", q.chain[2])
<1>1. CASE Len(q.chain) = 1
  <2>1. PICK s : s = [i \in 1..(Len(q.chain) - 1) |-> PolicyOf("subquery", q.chain[Len(q.chain) + 1 - i])]
    OBVIOUS
  <2>2. s = <<>>
    BY <1>1, <2>1
  <2>3. FlattenSeq(s) = <<>>
    BY <2>2 DEF FlattenSeq
  <2> QED
    BY <1>1, <2>1, <2>3 DEF Subqueries
<1>2. CASE Len(q.chain) = 2
  <2>1. PICK s, p : /\ s = [i \in 1..(Len(q.chain) - 1) |-> PolicyOf("subquery", q.chain[Len(q.chain) + 1 - i])]
                    /\ p = PolicyOf("subquery", q.chain[2])
    OBVIOUS
  <2>2. s = <<p>>
    BY <1>2, <2>1
  <2>3. FlattenSeq(s) = p
    <3>1. PICK f : f = [i \in 1..1 |-> p]
      OBVIOUS
    <3>2. f = [i \in 1..1 |-> IF i = 1 THEN s[i] ELSE f[i - 1] \o s[i]]
      BY <2>2, <3>1
    <3>3. \A g : g = [i \in 1..1 |-> IF i = 1 THEN s[i] ELSE g[i - 1] \o s[i]] => g[1] = p
      BY <2>2
    <3>4. PICK h : h = CHOOSE g : g = [i \in 1..1 |-> IF i = 1 THEN s[i] ELSE g[i - 1] \o s[i]]
      OBVIOUS
    <3>5. h[1] = p
      BY <3>2, <3>3, <3>4
    <3>6. Len(s) = 1
      BY <2>2
    <3> QED
      BY <3>4, <3>5, <3>6 DEF FlattenSeq
  <2> QED
    BY <1>2, <2>1, <2>3 DEF Subqueries
<1> QED
  BY <1>1, <1>2

Placeless(s) == \A c \in Range(s) : ~HasArgument(c)

\* Clauses without a placeholder have no arguments.
LEMMA NoArguments ==
    ASSUME NEW s, AtMostOne(s), Placeless(s)
    PROVE  ArgsOf(s) = <<>>
<1>1. PICK n \in Nat : n = Len(s) /\ (n = 0 \/ (n = 1 /\ s[1] \in Range(s)))
  <2>1. CASE s = <<>>
    BY <2>1
  <2>2. CASE \E c : s = <<c>>
    <3>1. PICK c : s = <<c>>
      BY <2>2
    <3>2. Len(s) = 1 /\ s[1] \in Range(s)
      BY <3>1 DEF Range
    <3> QED
      BY <3>2
  <2> QED
    BY <2>1, <2>2 DEF AtMostOne
<1>2. s \in Seq(Range(s))
  BY OneIsSeq
<1>3. PICK f : /\ ArgsOf(s) = f[n] /\ f[0] = <<>>
               /\ \A i \in 1..n : f[i] = IF HasArgument(s[i]) THEN Append(f[i - 1], s[i].arg)
                                         ELSE f[i - 1]
  BY <1>1, <1>2, ArgsOfIs
<1> QED
  BY <1>1, <1>3 DEF Placeless

\* A caller's own clauses have the caller as argument.
LEMMA PolicyIs ==
    ASSUME NEW at, NEW t
    PROVE  /\ AtMostOne(PolicyOf(at, t))
           /\ Range(PolicyOf(at, t)) = {c \in {Clause(at, t, Decision(t), query.by)} :
                                          Decision(t) \in {"own", "member"}}
<1>1. \A c : Range(<<c>>) = {c}
  BY DEF Range
<1>2. \A c : c \notin Range(<<>>)
  BY DEF Range
<1>3. PICK c : c = Clause(at, t, Decision(t), query.by)
  OBVIOUS
<1>4. CASE Decision(t) \in {"own", "member"}
  <2>1. PolicyOf(at, t) = <<c>>
    BY <1>3, <1>4 DEF PolicyOf
  <2> QED
    BY <1>1, <1>3, <1>4, <2>1 DEF AtMostOne
<1>5. CASE Decision(t) \notin {"own", "member"}
  <2>1. PolicyOf(at, t) = <<>>
    BY <1>5 DEF PolicyOf
  <2> QED
    BY <1>2, <1>5, <2>1 DEF AtMostOne
<1> QED
  BY <1>4, <1>5

(* five lists, the fourth and the fifth in either order *)
LaidOut(C, W, J, P, F, G, cs) ==
    /\ W \in Seq(C) /\ J \in Seq(C) /\ P \in Seq(C) /\ F \in Seq(C) /\ G \in Seq(C)
    /\ cs = W \o (((J \o P) \o G) \o F) \/ cs = W \o (((J \o P) \o F) \o G)

\* Five lists, the arguments of the fourth first: it makes no
\* difference if it or those it is put before have none.
LEMMA ArgumentsInOrder ==
    ASSUME NEW C, NEW W, NEW J, NEW P, NEW F, NEW G, NEW cs, LaidOut(C, W, J, P, F, G, cs),
           ArgsOf(G) = <<>>,
           ArgsOf(F) = <<>> \/ (ArgsOf(J) = <<>> /\ ArgsOf(P) = <<>>)
    PROVE  ArgsOf(cs) = ArgsOf(W) \o ArgsOf(F \o (J \o P))
<1>0. /\ W \in Seq(C) /\ J \in Seq(C) /\ P \in Seq(C) /\ F \in Seq(C) /\ G \in Seq(C)
      /\ cs = W \o (((J \o P) \o G) \o F) \/ cs = W \o (((J \o P) \o F) \o G)
  BY DEF LaidOut
<1>1. PICK D : D = ArgsIn(C)
  OBVIOUS
<1>2. \A s \in Seq(C) : ArgsOf(s) \in Seq(D)
  <2>1. ASSUME NEW s \in Seq(C) PROVE ArgsOf(s) \in Seq(D)
    <3>1. PICK n \in Nat : n = Len(s)
      BY LenProperties
    <3>2. PICK f : ArgsOf(s) = f[n] /\ \A i \in 0..n : f[i] \in Seq(D)
      BY <1>1, <3>1, ArgsOfIs
    <3>3. n \in 0..n
      OBVIOUS
    <3> QED
      BY <3>2, <3>3
  <2> QED
    BY <2>1
<1>3. \A s, t \in Seq(C) : s \o t \in Seq(C) /\ ArgsOf(s \o t) = ArgsOf(s) \o ArgsOf(t)
  BY ArgsOfBoth, ConcatProperties
<1>4. PICK b : b = J \o P
  OBVIOUS
<1>5. b \in Seq(C) /\ (ArgsOf(J) = <<>> /\ ArgsOf(P) = <<>> => ArgsOf(b) = <<>>)
  <2>1. <<>> \o <<>> = <<>>
    BY EmptySeq, ConcatEmptySeq
  <2>2. b \in Seq(C) /\ ArgsOf(b) = ArgsOf(J) \o ArgsOf(P)
    BY <1>0, <1>3, <1>4, Zenon
  <2> QED
    BY <2>1, <2>2
<1>6. PICK w, x, f, e : e = ArgsOf(G) /\ w = ArgsOf(W) /\ x = ArgsOf(b) /\ f = ArgsOf(F)
  OBVIOUS
<1>7. w \in Seq(D) /\ x \in Seq(D) /\ f \in Seq(D) /\ e = <<>>
  BY <1>0, <1>2, <1>5, <1>6, EmptySeq
<1>8. x \o f = f \o x
  <2>1. f = <<>> \/ x = <<>>
    BY <1>5, <1>6
  <2>2. \A s \in Seq(D) : s \o <<>> = s /\ <<>> \o s = s
    BY ConcatEmptySeq
  <2>3. CASE f = <<>>
    BY <1>7, <2>2, <2>3
  <2>4. CASE x = <<>>
    BY <1>7, <2>2, <2>4
  <2> QED
    BY <2>1, <2>3, <2>4
<1>9. ArgsOf(W) \o ArgsOf(F \o b) = w \o (f \o x)
  BY <1>0, <1>3, <1>5, <1>6
<1>10. CASE cs = W \o ((b \o G) \o F)
  <2>1. ArgsOf(cs) = w \o ((x \o e) \o f)
    <3>1. b \o G \in Seq(C) /\ ArgsOf(b \o G) = x \o e
      BY <1>0, <1>3, <1>5, <1>6
    <3>2. (b \o G) \o F \in Seq(C) /\ ArgsOf((b \o G) \o F) = (x \o e) \o f
      BY <1>0, <1>3, <1>6, <3>1
    <3>3. PICK r : r = (b \o G) \o F
      OBVIOUS
    <3>4. ArgsOf(W \o r) = ArgsOf(W) \o ArgsOf(r)
      BY <1>0, <1>3, <3>2, <3>3
    <3> QED
      BY <1>6, <1>10, <3>2, <3>3, <3>4
  <2>2. x \o e = x
    BY <1>7, ConcatEmptySeq
  <2> QED
    BY <1>4, <1>8, <1>9, <2>1, <2>2
<1>11. CASE cs = W \o ((b \o F) \o G)
  <2>1. ArgsOf(cs) = w \o ((x \o f) \o e)
    <3>1. b \o F \in Seq(C) /\ ArgsOf(b \o F) = x \o f
      BY <1>0, <1>3, <1>5, <1>6
    <3>2. (b \o F) \o G \in Seq(C) /\ ArgsOf((b \o F) \o G) = (x \o f) \o e
      BY <1>0, <1>3, <1>6, <3>1
    <3>3. PICK r : r = (b \o F) \o G
      OBVIOUS
    <3>4. ArgsOf(W \o r) = ArgsOf(W) \o ArgsOf(r)
      BY <1>0, <1>3, <3>2, <3>3
    <3> QED
      BY <1>6, <1>11, <3>2, <3>3, <3>4
  <2>2. (x \o f) \o e = x \o f
    BY <1>7, ConcatEmptySeq, ConcatProperties
  <2> QED
    BY <1>4, <1>8, <1>9, <2>1, <2>2
<1> QED
  BY <1>0, <1>4, <1>10, <1>11

\* The filter and the grouping are a clause each, or none.
LEMMA FilterIs ==
    ASSUME NEW q, NEW where
    PROVE  /\ AtMostOne(Filter(q, where))
           /\ Range(Filter(q, where)) =
                {c \in {Clause("where", Head(q.chain), IF Binds(where) THEN "filter" ELSE "test", where)} :
                    q.filter # {}}
<1>1. \A c : Range(<<c>>) = {c}
  BY DEF Range
<1>2. \A c : c \notin Range(<<>>)
  BY DEF Range
<1>3. PICK c : c = Clause("where", Head(q.chain), IF Binds(where) THEN "filter" ELSE "test", where)
  OBVIOUS
<1>4. CASE q.filter # {}
  <2>1. Filter(q, where) = <<c>>
    BY <1>3, <1>4 DEF Filter
  <2> QED
    BY <1>1, <1>3, <1>4, <2>1 DEF AtMostOne
<1>5. CASE q.filter = {}
  <2>1. Filter(q, where) = <<>>
    BY <1>5 DEF Filter
  <2> QED
    BY <1>2, <1>5, <2>1 DEF AtMostOne
<1> QED
  BY <1>4, <1>5

LEMMA GroupIs ==
    ASSUME NEW q
    PROVE  /\ AtMostOne(Group(q))
           /\ Range(Group(q)) = {c \in {Clause("group", Head(q.chain), "none", None)} :
                                   Len(q.chain) # 1 /\ ~q.flat}
<1>1. \A c : Range(<<c>>) = {c}
  BY DEF Range
<1>2. \A c : c \notin Range(<<>>)
  BY DEF Range
<1>3. PICK c : c = Clause("group", Head(q.chain), "none", None)
  OBVIOUS
<1>4. CASE Len(q.chain) # 1 /\ ~q.flat
  <2>1. Group(q) = <<c>>
    BY <1>3, <1>4 DEF Group
  <2> QED
    BY <1>1, <1>3, <1>4, <2>1 DEF AtMostOne
<1>5. CASE ~(Len(q.chain) # 1 /\ ~q.flat)
  <2>1. Group(q) = <<>>
    BY <1>5 DEF Group
  <2> QED
    BY <1>2, <1>5, <2>1 DEF AtMostOne
<1> QED
  BY <1>4, <1>5

\* The memberships are there if a policy asks for them.
LEMMA WithIs ==
    ASSUME NEW q
    PROVE  /\ AtMostOne(With(q))
           /\ Range(With(q)) = {c \in {Clause("with", None, "with", q.by)} :
                                  \E x \in Range(PolicyClauses(q)) : x.cond = "member"}
<1>1. \A c : Range(<<c>>) = {c}
  BY DEF Range
<1>2. \A c : c \notin Range(<<>>)
  BY DEF Range
<1>3. PICK c, s : c = Clause("with", None, "with", q.by) /\ s = PolicyClauses(q)
  OBVIOUS
<1>4. (\E i \in DOMAIN s : s[i].cond = "member") <=> \E x \in Range(s) : x.cond = "member"
  BY DEF Range
<1>5. CASE \E i \in DOMAIN s : s[i].cond = "member"
  <2>1. With(q) = <<c>>
    BY <1>3, <1>5 DEF With
  <2> QED
    BY <1>1, <1>3, <1>4, <1>5, <2>1 DEF AtMostOne
<1>6. CASE ~\E i \in DOMAIN s : s[i].cond = "member"
  <2>1. With(q) = <<>>
    BY <1>3, <1>6 DEF With
  <2> QED
    BY <1>2, <1>3, <1>4, <1>6, <2>1 DEF AtMostOne
<1> QED
  BY <1>5, <1>6

\* The policy of the other table, if there is one.
LEMMA JoinIs ==
    ASSUME NEW q \in Query, Sound(q), Depth(q) <= MaxQueryDepth
    PROVE  /\ AtMostOne(JoinPolicies(q))
           /\ \E at \in {"subquery", "on"} :
                Range(JoinPolicies(q)) = {c \in {Clause(at, q.chain[2], Decision(q.chain[2]), query.by)} :
                                    Len(q.chain) = 2 /\ Decision(q.chain[2]) \in {"own", "member"}}
<1>1. Len(q.chain) \in {1, 2} /\ (q.kind # "nested" => Len(q.chain) = 2)
  BY QueryIs
<1>2. CASE Len(q.chain) = 1
  <2>1. q.kind = "nested"
    BY <1>1, <1>2
  <2>2. JoinPolicies(q) = <<>>
    BY <1>1, <1>2, <2>1, SubqueriesAre DEF JoinPolicies
  <2> QED
    BY <1>2, <2>2 DEF AtMostOne, Range
<1>3. CASE Len(q.chain) = 2
  <2>1. PICK at \in {"subquery", "on"} : JoinPolicies(q) = PolicyOf(at, q.chain[2])
    BY <1>1, <1>3, SubqueriesAre DEF JoinPolicies
  <2>2. \E a \in {"subquery", "on"} :
            Range(JoinPolicies(q)) = {c \in {Clause(a, q.chain[2], Decision(q.chain[2]), query.by)} :
                                Len(q.chain) = 2 /\ Decision(q.chain[2]) \in {"own", "member"}}
    BY <1>3, <2>1, PolicyIs
  <2> QED
    BY <2>1, <2>2, PolicyIs
<1> QED
  BY <1>1, <1>2, <1>3

(* what such a list holds, and what is before what *)
Holding(C, W, J, P, F, G, cs) ==
    /\ cs \in Seq(C)
    /\ Range(cs) = UNION {Range(W), Range(J), Range(P), Range(F), Range(G)}
    /\ W # <<>> => 1 \in DOMAIN cs /\ cs[1] = W[1]
    /\ \A x \in Range(P), y \in Range(F) : Before(cs, x, y)
    /\ cs = W \o (((J \o P) \o G) \o F) =>
        \A x \in Range(G), y \in Range(F) : Before(cs, x, y)

\* Five lists in either order: what they hold, and what is before what.
LEMMA Layout ==
    ASSUME NEW C, NEW W, NEW J, NEW P, NEW F, NEW G, NEW cs, LaidOut(C, W, J, P, F, G, cs)
    PROVE  Holding(C, W, J, P, F, G, cs)
<1>0. /\ W \in Seq(C) /\ J \in Seq(C) /\ P \in Seq(C) /\ F \in Seq(C) /\ G \in Seq(C)
      /\ cs = W \o (((J \o P) \o G) \o F) \/ cs = W \o (((J \o P) \o F) \o G)
  BY DEF LaidOut
<1>1. \A a, b \in Seq(C) :
        /\ a \o b \in Seq(C) /\ Range(a \o b) = Range(a) \cup Range(b)
        /\ \A x \in Range(a), y \in Range(b) : Before(a \o b, x, y)
        /\ \A x, y : Before(a, x, y) \/ Before(b, x, y) => Before(a \o b, x, y)
  BY RangeOfBoth, ConcatProperties
<1>9. ASSUME NEW v \in Seq(C), W # <<>> PROVE 1 \in DOMAIN (W \o v) /\ (W \o v)[1] = W[1]
  <2>1. Len(W) \in Nat \ {0} /\ Len(v) \in Nat
    BY <1>0, <1>9, EmptySeq, LenProperties
  <2>2. /\ W \o v \in Seq(C) /\ Len(W \o v) = Len(W) + Len(v)
        /\ \A i \in 1..(Len(W) + Len(v)) : (W \o v)[i] = IF i <= Len(W) THEN W[i] ELSE v[i - Len(W)]
    BY <1>0, ConcatProperties
  <2>3. 1 \in 1..(Len(W) + Len(v)) /\ 1 <= Len(W)
    BY <2>1
  <2>4. DOMAIN (W \o v) = 1..(Len(W) + Len(v))
    BY <2>2, LenProperties
  <2> QED
    BY <2>2, <2>3, <2>4
<1>2. PICK b : b = J \o P
  OBVIOUS
<1>3. b \in Seq(C) /\ Range(b) = Range(J) \cup Range(P)
  BY <1>0, <1>1, <1>2
<1>4. CASE cs = W \o ((b \o G) \o F)
  <2>1. PICK c, r : c = b \o G /\ r = c \o F
    OBVIOUS
  <2>2. c \in Seq(C) /\ Range(c) = Range(b) \cup Range(G)
    BY <1>0, <1>1, <1>3, <2>1
  <2>3. /\ r \in Seq(C) /\ Range(r) = Range(c) \cup Range(F)
        /\ \A x \in Range(c), y \in Range(F) : Before(r, x, y)
    BY <1>0, <1>1, <2>1, <2>2
  <2>4. /\ cs \in Seq(C) /\ Range(cs) = Range(W) \cup Range(r)
        /\ \A x, y : Before(r, x, y) => Before(cs, x, y)
    BY <1>0, <1>1, <1>4, <2>1, <2>3
  <2> QED
    BY <1>3, <1>4, <1>9, <2>1, <2>2, <2>3, <2>4 DEF Holding
<1>5. CASE cs = W \o ((b \o F) \o G) /\ cs # W \o ((b \o G) \o F)
  <2>1. PICK c, r : c = b \o F /\ r = c \o G
    OBVIOUS
  <2>2. /\ c \in Seq(C) /\ Range(c) = Range(b) \cup Range(F)
        /\ \A x \in Range(b), y \in Range(F) : Before(c, x, y)
    BY <1>0, <1>1, <1>3, <2>1
  <2>3. /\ r \in Seq(C) /\ Range(r) = Range(c) \cup Range(G)
        /\ \A x, y : Before(c, x, y) => Before(r, x, y)
    BY <1>0, <1>1, <2>1, <2>2
  <2>4. /\ cs \in Seq(C) /\ Range(cs) = Range(W) \cup Range(r)
        /\ \A x, y : Before(r, x, y) => Before(cs, x, y)
    BY <1>0, <1>1, <1>5, <2>1, <2>3
  <2> QED
    BY <1>2, <1>3, <1>5, <1>9, <2>1, <2>2, <2>3, <2>4 DEF Holding
<1> QED
  BY <1>0, <1>2, <1>4, <1>5

Pieces(where) ==
    UNION {Range(With(query)), Range(JoinPolicies(query)),
           Range(PolicyOf("where", query.chain[1])), Range(Filter(query, where)),
           Range(Group(query))}

\* A statement that SQLite takes has these clauses, and the arguments in their order.
LEMMA StatementIs ==
    ASSUME SoundRequests, NEW where, IsBuilt(where), WellFormed(stmt)
    PROVE  /\ stmt.clauses \in Seq(Pieces(where)) /\ Range(stmt.clauses) = Pieces(where)
           /\ stmt.args = ArgsOf(stmt.clauses)
           /\ \A c \in Range(With(query)) : 1 \in DOMAIN stmt.clauses /\ stmt.clauses[1] = c
           /\ where.kind = "sql"
<1>1. /\ query \in Query /\ Sound(query) /\ Depth(query) <= MaxQueryDepth
      /\ stmt = Statement(query, where) /\ where \in Wheres(query.filter)
  BY DEF SoundRequests, IsBuilt
<1>2. /\ Len(query.chain) \in {1, 2} /\ Head(query.chain) = query.chain[1]
      /\ (query.kind # "nested" => Len(query.chain) = 2)
      /\ (query.flat => query.kind # "nested")
  BY <1>1, QueryIs
<1>3. PICK W, J, P, F, G :
        /\ W = With(query) /\ J = JoinPolicies(query) /\ P = PolicyOf("where", query.chain[1])
        /\ F = Filter(query, where) /\ G = Group(query)
  OBVIOUS
<1>4. PICK cs, args : cs = stmt.clauses /\ args = stmt.args
  OBVIOUS
<1>5. AtMostOne(W) /\ AtMostOne(J) /\ AtMostOne(P) /\ AtMostOne(F) /\ AtMostOne(G)
  BY <1>1, <1>3, WithIs, JoinIs, PolicyIs, FilterIs, GroupIs
<1>6. PICK C : C = Pieces(where)
  OBVIOUS
<1>7. W \in Seq(C) /\ J \in Seq(C) /\ P \in Seq(C) /\ F \in Seq(C) /\ G \in Seq(C)
  <2>1. /\ Range(W) \subseteq C /\ Range(J) \subseteq C /\ Range(P) \subseteq C
        /\ Range(F) \subseteq C /\ Range(G) \subseteq C
    BY <1>3, <1>6 DEF Pieces
  <2> QED
    BY <1>5, <2>1, OneIsSeq
<1>8. /\ query.kind = "nested" => cs = W \o (((J \o P) \o G) \o F)
      /\ query.kind # "nested" => cs = W \o (((J \o P) \o F) \o G)
      /\ args = ArgsOf(W) \o ArgsOf(F \o (J \o P))
      /\ stmt.resolves = (Resolves(query) /\ where.kind = "sql")
  BY <1>1, <1>2, <1>3, <1>4 DEF Statement, Clauses, PolicyClauses, Arguments
<1>21. LaidOut(C, W, J, P, F, G, cs)
  BY <1>7, <1>8 DEF LaidOut
<1>9. where.kind = "sql"
  BY <1>8 DEF WellFormed
<1>10. /\ cs \in Seq(C) /\ Range(cs) = C
       /\ (W # <<>> => 1 \in DOMAIN cs /\ cs[1] = W[1])
       /\ \A x \in Range(P), y \in Range(F) : Before(cs, x, y)
       /\ query.kind = "nested" => \A x \in Range(G), y \in Range(F) : Before(cs, x, y)
  <2>1. C = UNION {Range(W), Range(J), Range(P), Range(F), Range(G)}
    BY <1>3, <1>6 DEF Pieces
  <2>2. Holding(C, W, J, P, F, G, cs)
    BY <1>21, Layout
  <2> QED
    BY <1>8, <2>1, <2>2 DEF Holding
<1>11. ASSUME NEW x, NEW y, Before(cs, x, y), y.at = "where"
       PROVE  x.at \notin {"where", "group"}
  BY <1>4, <1>11 DEF WellFormed, Before
<1>12. \A y \in Range(F) : y.at = "where"
  BY <1>3, FilterIs DEF Clause
<1>13. \A x \in Range(P) : x.at = "where"
  BY <1>3, PolicyIs DEF Clause
<1>14. \A x \in Range(G) : x.at = "group" /\ ~HasArgument(x)
  BY <1>3, GroupIs DEF Clause, HasArgument
<1>15. Range(F) = {} \/ Range(P) = {}
  BY <1>10, <1>11, <1>12, <1>13
<1>16. query.kind = "nested" => Range(F) = {} \/ Range(G) = {}
  BY <1>10, <1>11, <1>12, <1>14
<1>17. Placeless(F) \/ (Placeless(J) /\ Placeless(P))
  <2>1. SUFFICES ASSUME ~Placeless(F) PROVE Placeless(J) /\ Placeless(P)
    OBVIOUS
  <2>2. Range(F) # {} /\ Range(P) = {}
    BY <1>15, <2>1 DEF Placeless
  <2>3. Placeless(P)
    BY <2>2 DEF Placeless
  <2>4. Range(J) = {}
    <3>1. CASE query.kind = "nested"
      <4>1. Range(G) = {} /\ ~query.flat
        BY <1>2, <1>16, <2>2, <3>1
      <4>2. Len(query.chain) = 1
        BY <1>2, <1>3, <4>1, GroupIs
      <4> QED
        BY <1>1, <1>3, <4>2, JoinIs
    <3>2. CASE query.kind # "nested"
      <4>1. Binds(where)
        BY <1>3, <2>1, FilterIs DEF Placeless, HasArgument, Clause
      <4>2. query.by # Service => \A p \in Policies : p[query.chain[2]] \notin {"own", "member"}
        BY <1>1, <3>2, <4>1 DEF Sound
      <4>3. Decision(query.chain[2]) \notin {"own", "member"}
        BY <4>2 DEF IsBuilt, Decision
      <4> QED
        BY <1>1, <1>3, <4>3, JoinIs
    <3> QED
      BY <3>1, <3>2
  <2> QED
    BY <2>3, <2>4 DEF Placeless
<1>18. ArgsOf(F) = <<>> \/ (ArgsOf(J) = <<>> /\ ArgsOf(P) = <<>>)
  BY <1>5, <1>17, NoArguments
<1>19. ArgsOf(G) = <<>>
  BY <1>5, <1>14, NoArguments DEF Placeless
<1>20. ArgsOf(cs) = args
  BY <1>8, <1>18, <1>19, <1>21, ArgumentsInOrder
<1>22. \A c \in Range(W) : W # <<>> /\ W[1] = c
  BY <1>5 DEF AtMostOne, Range
<1> QED
  BY <1>3, <1>4, <1>6, <1>9, <1>10, <1>20, <1>22
-----------------------------------------------------------------------------
(* What the clauses demand. *)

(* with its own argument *)
Demands(c, d, row) ==
    CASE c.cond = "own" -> row.owner = c.arg
      [] c.cond \in {"filter", "test"} -> Holds(c.arg, row) = "true"
      [] c.cond = "member" -> c.arg \in d.members
      [] c.cond = "none" -> TRUE

\* The clauses of a request, and whose arguments they have.
LEMMA PiecesAre ==
    ASSUME NEW where, query \in Query, Sound(query), Depth(query) <= MaxQueryDepth,
           NEW c \in Pieces(where)
    PROVE  /\ c.cond \in {"with", "own", "member", "filter", "test", "none"}
           /\ c.cond \in {"own", "member"} => c.arg = query.by
           /\ c.cond = "with" => c.table = None
           /\ c.cond = "member" => c \in Range(JoinPolicies(query)) \cup
                                        Range(PolicyOf("where", query.chain[1]))
<1>1. CASE c \in Range(With(query))
  BY <1>1, WithIs DEF Clause
<1>2. CASE c \in Range(JoinPolicies(query))
  <2>1. PICK at : c = Clause(at, query.chain[2], Decision(query.chain[2]), query.by)
                  /\ Decision(query.chain[2]) \in {"own", "member"}
    BY <1>2, JoinIs
  <2> QED
    BY <1>2, <2>1 DEF Clause
<1>3. CASE c \in Range(PolicyOf("where", query.chain[1]))
  BY <1>3, PolicyIs DEF Clause
<1>4. CASE c \in Range(Filter(query, where))
  BY <1>4, FilterIs DEF Clause
<1>5. CASE c \in Range(Group(query))
  BY <1>5, GroupIs DEF Clause
<1> QED
  BY <1>1, <1>2, <1>3, <1>4, <1>5 DEF Pieces

\* A clause demands what it says, as its placeholder gets its own argument.
LEMMA IsTrueIs ==
    ASSUME SoundRequests, NEW where, IsBuilt(where), WellFormed(stmt),
           NEW i \in DOMAIN stmt.clauses, stmt.clauses[i].cond # "with", NEW d, NEW row
    PROVE  IsTrue(stmt, i, d, row) <=> Demands(stmt.clauses[i], d, row)
<1>1. PICK C, cs, args, c : C = Pieces(where) /\ cs = stmt.clauses /\ args = stmt.args /\ c = cs[i]
  OBVIOUS
<1>2. query \in Query /\ Sound(query) /\ Depth(query) <= MaxQueryDepth
  BY DEF SoundRequests, IsBuilt
<1>3. /\ cs \in Seq(C) /\ Range(cs) = C /\ args = ArgsOf(cs)
      /\ \A x \in Range(With(query)) : 1 \in DOMAIN cs /\ cs[1] = x
  BY <1>1, StatementIs
<1>4. PICK n \in Nat : n = Len(cs) /\ DOMAIN cs = 1..n
  BY <1>3, LenProperties
<1>5. /\ i \in 1..n /\ c \in C
      /\ c.cond \in {"own", "member", "filter", "test", "none"}
      /\ (c.cond \in {"own", "member"} => c.arg = query.by)
  <2>1. i \in 1..n /\ c \in C
    BY <1>1, <1>3, <1>4 DEF Range
  <2> QED
    BY <1>1, <1>2, <2>1, PiecesAre
<1>6. ASSUME NEW k \in 1..n, HasArgument(cs[k])
      PROVE  args[Cardinality(Placed(cs, k))] = cs[k].arg
  <2>1. k \in Placed(cs, Len(cs))
    BY <1>4, <1>6 DEF Placed
  <2> QED
    BY <1>3, <2>1, OwnArgument
<1>7. HasArgument(c) => Bound(stmt, i) = c.arg
  <2>1. Bound(stmt, i) = args[Cardinality(Placed(cs, i))]
    BY <1>1 DEF Bound, Placed
  <2> QED
    BY <1>1, <1>5, <1>6, <2>1
<1>8. HasArgument(c) <=> c.cond \notin {"none", "test"}
  BY DEF HasArgument
<1>9. CASE c.cond = "own"
  BY <1>1, <1>7, <1>8, <1>9 DEF IsTrue, Demands
<1>10. CASE c.cond = "filter"
  BY <1>1, <1>7, <1>8, <1>10 DEF IsTrue, Demands
<1>11. CASE c.cond = "test"
  BY <1>1, <1>11 DEF IsTrue, Demands
<1>12. CASE c.cond = "none"
  BY <1>1, <1>12 DEF IsTrue, Demands
<1>13. CASE c.cond = "member"
  <2>1. c \in Range(PolicyClauses(query))
    <3>1. c \in Range(JoinPolicies(query)) \cup Range(PolicyOf("where", query.chain[1]))
      BY <1>1, <1>2, <1>5, <1>13, PiecesAre
    <3>2. Head(query.chain) = query.chain[1]
      BY <1>2, QueryIs
    <3>3. PICK j, p : j = JoinPolicies(query) /\ p = PolicyOf("where", query.chain[1])
      OBVIOUS
    <3>4. AtMostOne(j) /\ AtMostOne(p)
      BY <1>2, <3>3, JoinIs, PolicyIs
    <3>5. PICK S : S = Range(j) \cup Range(p)
      OBVIOUS
    <3>6. j \in Seq(S) /\ p \in Seq(S)
      BY <3>4, <3>5, OneIsSeq
    <3>7. Range(j \o p) = Range(j) \cup Range(p)
      BY <3>6, RangeOfBoth
    <3> QED
      BY <3>1, <3>2, <3>3, <3>7 DEF PolicyClauses
  <2>2. PICK w : w = Clause("with", None, "with", query.by)
    OBVIOUS
  <2>3. w \in Range(With(query))
    BY <1>13, <2>1, <2>2, WithIs
  <2>4. 1 \in 1..n /\ cs[1] = w
    BY <1>3, <1>4, <2>3
  <2>5. HasArgument(cs[1]) /\ cs[1].arg = query.by
    BY <2>2, <2>4 DEF HasArgument, Clause
  <2>6. Cardinality(Placed(cs, 1)) = 1
    <3>1. Placed(cs, 1) = {1}
      BY <2>5 DEF Placed
    <3> QED
      BY <3>1, FS_Singleton
  <2>7. args[1] = query.by
    BY <1>6, <2>4, <2>5, <2>6
  <2>8. Bound(stmt, i) = query.by /\ c.arg = query.by
    BY <1>5, <1>7, <1>8, <1>13
  <2> QED
    BY <1>1, <1>13, <2>7, <2>8 DEF IsTrue, Demands
<1> QED
  BY <1>5, <1>9, <1>10, <1>11, <1>12, <1>13

\* The clauses of a policy demand what it permits.
LEMMA PermittedIs ==
    ASSUME NEW t \in Table, policies \in Policies, Decision(t) # "denied", NEW at, NEW d, NEW r
    PROVE  Permitted(d, t, r) <=>
                /\ d.rows[t][r] # Absent
                /\ \A c \in Range(PolicyOf(at, t)) : Demands(c, d, d.rows[t][r])
<1>1. PICK row, c : row = d.rows[t][r] /\ c = Clause(at, t, Decision(t), query.by)
  OBVIOUS
<1>2. policies[t] \in Decisions
  BY SelectsAssumption
<1>3. \A x : x \in Range(PolicyOf(at, t)) <=> x = c /\ Decision(t) \in {"own", "member"}
  BY <1>1, PolicyIs
<1>4. c.cond = Decision(t) /\ c.arg = query.by
  BY <1>1 DEF Clause
<1>5. CASE query.by = Service
  <2>1. Decision(t) = "open"
    BY <1>5 DEF Decision
  <2> QED
    BY <1>1, <1>3, <1>5, <2>1 DEF Permitted
<1>6. CASE query.by # Service /\ policies[t] = "open"
  <2>1. Decision(t) = "open"
    BY <1>6 DEF Decision
  <2> QED
    BY <1>1, <1>3, <1>6, <2>1 DEF Permitted
<1>7. CASE query.by # Service /\ policies[t] = "own"
  <2>1. Decision(t) = "own"
    BY <1>7 DEF Decision
  <2>2. Demands(c, d, row) <=> row.owner = query.by
    BY <1>4, <2>1 DEF Demands
  <2> QED
    BY <1>1, <1>3, <1>7, <2>1, <2>2 DEF Permitted
<1>8. CASE query.by # Service /\ policies[t] = "member"
  <2>1. Decision(t) = "member"
    BY <1>8 DEF Decision
  <2>2. Demands(c, d, row) <=> query.by \in d.members
    BY <1>4, <2>1 DEF Demands
  <2> QED
    BY <1>1, <1>3, <1>8, <2>1, <2>2 DEF Permitted
<1>9. query.by # Service => policies[t] # "denied"
  BY DEF Decision
<1> QED
  BY <1>2, <1>5, <1>6, <1>7, <1>8, <1>9 DEF Decisions

\* The clause of a filter demands what the filter says.
LEMMA FilterDemands ==
    ASSUME NEW where \in Wheres(query.filter), where.kind = "sql", Sound(query), NEW d, NEW row
    PROVE  Says(query.filter, row) = "true" <=>
                \A c \in Range(Filter(query, where)) : Demands(c, d, row)
<1>1. Holds(where, row) = Says(query.filter, row)
  BY FiltersMean DEF Sound
<1>2. PICK c : c = Clause("where", Head(query.chain), IF Binds(where) THEN "filter" ELSE "test", where)
  OBVIOUS
<1>3. \A x : x \in Range(Filter(query, where)) <=> x = c /\ query.filter # {}
  BY <1>2, FilterIs
<1>4. Demands(c, d, row) <=> Holds(where, row) = "true"
  <2>1. c.cond \in {"filter", "test"} /\ c.arg = where
    BY <1>2 DEF Clause
  <2> QED
    BY <2>1 DEF Demands
<1>5. query.filter = {} => Holds(where, row) = "true"
  <2>1. SUFFICES ASSUME query.filter = {} PROVE Holds(where, row) = "true"
    OBVIOUS
  <2>2. where.all = {}
    BY <2>1 DEF Wheres
  <2>3. PICK S : S = {AnyOf(ValuesOf(any, row)) : any \in where.all}
    OBVIOUS
  <2>4. Holds(where, row) = AllOf(S)
    BY <2>3, Zenon DEF Holds, ValuesOf, ComparisonSays
  <2>5. \A v : v \notin S
    BY <2>2, <2>3
  <2> QED
    BY <2>4, <2>5 DEF AllOf
<1> QED
  BY <1>1, <1>3, <1>4, <1>5

(* the rows of the base table that are asked for, and those permitted of the other *)
Wanted(d) ==
    {r \in Id : /\ Permitted(d, query.chain[1], r)
                /\ Says(query.filter, d.rows[query.chain[1]][r]) = "true"}
Other(d) == {r \in Id : Permitted(d, query.chain[2], r)}

\* A table's clauses keep the rows that meet the demands of each.
LEMMA KeptMeets ==
    ASSUME SoundRequests, NEW where, IsBuilt(where), WellFormed(stmt), NEW d, NEW t \in Table
    PROVE  Kept(stmt, d, t) =
                {r \in Id : /\ d.rows[t][r] # Absent
                            /\ \A c \in Pieces(where) : c.table = t => Demands(c, d, d.rows[t][r])}
<1>1. query \in Query /\ Sound(query) /\ Depth(query) <= MaxQueryDepth /\ None \notin Table
  BY SelectsAssumption DEF SoundRequests, IsBuilt
<1>2. PICK cs, C : cs = stmt.clauses /\ C = Pieces(where)
  OBVIOUS
<1>3. Range(cs) = C
  BY <1>2, StatementIs
<1>4. ASSUME NEW row
      PROVE  (\A i \in DOMAIN cs : cs[i].table = t => IsTrue(stmt, i, d, row))
                <=> \A c \in C : c.table = t => Demands(c, d, row)
  <2>1. ASSUME NEW i \in DOMAIN cs, cs[i].table = t
        PROVE  IsTrue(stmt, i, d, row) <=> Demands(cs[i], d, row)
    <3>1. cs[i] \in Pieces(where)
      BY <1>2, <1>3 DEF Range
    <3>2. cs[i].cond # "with"
      BY <1>1, <2>1, <3>1, PiecesAre
    <3> QED
      BY <1>2, <3>2, IsTrueIs
  <2> QED
    BY <1>3, <2>1 DEF Range
<1> QED
  BY <1>2, <1>4 DEF Kept, Present

\* The rows that the statement keeps are those that the request asks for.
LEMMA KeptIs ==
    ASSUME SoundRequests, NEW where, IsBuilt(where), WellFormed(stmt), NEW d
    PROVE  /\ Kept(stmt, d, query.chain[1]) = Wanted(d)
           /\ Len(query.chain) = 2 => Kept(stmt, d, query.chain[2]) = Other(d)
<1>1. /\ query \in Query /\ Sound(query) /\ Depth(query) <= MaxQueryDepth /\ None \notin Table
      /\ policies \in Policies /\ where \in Wheres(query.filter)
  BY SelectsAssumption DEF SoundRequests, IsBuilt
<1>2. /\ query.chain[1] \in Table /\ Head(query.chain) = query.chain[1]
      /\ Len(query.chain) \in {1, 2} /\ DOMAIN query.chain = 1..Len(query.chain)
      /\ Len(query.chain) = 2 => query.chain[2] \in Table /\ query.chain[2] # query.chain[1]
  BY <1>1, QueryIs
<1>3. where.kind = "sql"
  BY StatementIs
<1>4. PICK P, F : P = Range(PolicyOf("where", query.chain[1])) /\ F = Range(Filter(query, where))
  OBVIOUS
<1>5. PICK at : Range(JoinPolicies(query)) =
                    {c \in {Clause(at, query.chain[2], Decision(query.chain[2]), query.by)} :
                        Len(query.chain) = 2 /\ Decision(query.chain[2]) \in {"own", "member"}}
  BY <1>1, JoinIs
<1>6. PICK J : J = Range(JoinPolicies(query))
  OBVIOUS
<1>7. \A c \in J : Len(query.chain) = 2 /\ c.table = query.chain[2]
  BY <1>5, <1>6 DEF Clause
<1>8. \A c \in P : c.table = query.chain[1]
  BY <1>4, PolicyIs DEF Clause
<1>9. \A c \in F : c.table = query.chain[1]
  BY <1>2, <1>4, FilterIs DEF Clause
<1>10. \A c \in Range(With(query)) : c.table = None
  BY WithIs DEF Clause
<1>11. \A c \in Range(Group(query)) : c.table = query.chain[1] /\ \A row : Demands(c, d, row)
  <2>1. ASSUME NEW c \in Range(Group(query))
        PROVE  c.table = query.chain[1] /\ \A row : Demands(c, d, row)
    <3>1. c = Clause("group", Head(query.chain), "none", None)
      BY GroupIs
    <3>2. c.table = query.chain[1] /\ c.cond = "none"
      BY <1>2, <3>1 DEF Clause
    <3> QED
      BY <3>2 DEF Demands
  <2> QED
    BY <2>1
<1>12. \A c : c \in Pieces(where) <=> \/ c \in Range(With(query)) \/ c \in J \/ c \in P \/ c \in F
                                        \/ c \in Range(Group(query))
  BY <1>4, <1>6 DEF Pieces
<1>13. Decision(query.chain[1]) # "denied" /\ (Len(query.chain) = 2 => Decision(query.chain[2]) # "denied")
  BY <1>2 DEF IsBuilt, Reached, Range
<1>14. Kept(stmt, d, query.chain[1]) = Wanted(d)
  <2>1. PICK t : t = query.chain[1]
    OBVIOUS
  <2>2. ASSUME NEW row
        PROVE  (\A c \in Pieces(where) : c.table = t => Demands(c, d, row))
                  <=> (\A c \in P : Demands(c, d, row)) /\ (\A c \in F : Demands(c, d, row))
    BY <1>2, <1>7, <1>8, <1>9, <1>10, <1>11, <1>12, <1>1, <2>1
  <2>3. ASSUME NEW r
        PROVE  Permitted(d, t, r) <=> /\ d.rows[t][r] # Absent
                                      /\ \A c \in P : Demands(c, d, d.rows[t][r])
    BY <1>1, <1>2, <1>4, <1>13, <2>1, PermittedIs
  <2>4. ASSUME NEW row
        PROVE  Says(query.filter, row) = "true" <=> \A c \in F : Demands(c, d, row)
    BY <1>1, <1>3, <1>4, FilterDemands
  <2>5. Kept(stmt, d, t) =
            {r \in Id : /\ d.rows[t][r] # Absent
                        /\ \A c \in Pieces(where) : c.table = t => Demands(c, d, d.rows[t][r])}
    BY <1>2, <2>1, KeptMeets
  <2>6. ASSUME NEW r \in Id PROVE r \in Kept(stmt, d, t) <=> r \in Wanted(d)
    BY <2>1, <2>2, <2>3, <2>4, <2>5 DEF Wanted
  <2>7. Kept(stmt, d, t) \subseteq Id /\ Wanted(d) \subseteq Id
    BY <2>5 DEF Wanted
  <2> QED
    BY <2>1, <2>6, <2>7
<1>15. ASSUME Len(query.chain) = 2 PROVE Kept(stmt, d, query.chain[2]) = Other(d)
  <2>1. PICK t : t = query.chain[2]
    OBVIOUS
  <2>2. ASSUME NEW row
        PROVE  (\A c \in Pieces(where) : c.table = t => Demands(c, d, row))
                  <=> (\A c \in J : Demands(c, d, row))
    BY <1>2, <1>7, <1>8, <1>9, <1>10, <1>11, <1>12, <1>1, <1>15, <2>1
  <2>3. ASSUME NEW r
        PROVE  Permitted(d, t, r) <=> /\ d.rows[t][r] # Absent
                                      /\ \A c \in J : Demands(c, d, d.rows[t][r])
    <3>1. J = Range(PolicyOf(at, t))
      BY <1>5, <1>6, <1>15, <2>1, PolicyIs
    <3> QED
      BY <1>1, <1>2, <1>13, <1>15, <2>1, <3>1, PermittedIs
  <2>5. Kept(stmt, d, t) =
            {r \in Id : /\ d.rows[t][r] # Absent
                        /\ \A c \in Pieces(where) : c.table = t => Demands(c, d, d.rows[t][r])}
    BY <1>2, <1>15, <2>1, KeptMeets
  <2>6. ASSUME NEW r \in Id PROVE r \in Kept(stmt, d, t) <=> r \in Other(d)
    BY <2>1, <2>2, <2>3, <2>5 DEF Other
  <2>7. Kept(stmt, d, t) \subseteq Id /\ Other(d) \subseteq Id
    BY <2>5 DEF Other
  <2> QED
    BY <2>1, <2>6, <2>7
<1> QED
  BY <1>14, <1>15
-----------------------------------------------------------------------------
(* The rows of the answer. *)

(* what hangs below a row, the tree of the row, and the rows that are left: of an
   inner join, those with something below *)
Under(d, r) ==
    {x \in Other(d) : Len(query.chain) = 2 /\ d.rows[query.chain[2]][x].parent = r}
Tree(d, r) == {<<r>>} \cup {<<r, x>> : x \in Under(d, r)}
Left(d) == {r \in Wanted(d) : query.kind = "inner" => Under(d, r) # {}}
Flat(d, r) ==
    IF Under(d, r) = {} THEN {{<<r>>}} ELSE {{<<r>>, <<r, x>>} : x \in Under(d, r)}
Answer(d) ==
    IF ~query.flat THEN {Tree(d, r) : r \in Left(d)} ELSE UNION {Flat(d, r) : r \in Left(d)}

(* the rows of a subquery below a row, as TreesOver takes them *)
Below(d, r, below) == IF below = {} THEN {} ELSE Attached(d, query.chain[2], r, below)

(* the recursion of Subquery *)
IsSubquery(f, s, d, q) ==
    f = [i \in 2..Len(q.chain) |->
            IF i = Len(q.chain)
            THEN {{[id |-> r, under |-> {}] : r \in Kept(s, d, q.chain[Len(q.chain)])}}
            ELSE UNION {Collapse(s, d, q, i, below) : below \in f[i + 1]}]

\* It ends at once if there is only one relation.
LEMMA SubqueryEnds ==
    ASSUME NEW s, NEW d, NEW q, Len(q.chain) = 2
    PROVE  Subquery(s, d, q) = {{[id |-> r, under |-> {}] : r \in Kept(s, d, q.chain[2])}}
<1>1. PICK all : all = {[id |-> r, under |-> {}] : r \in Kept(s, d, q.chain[Len(q.chain)])}
  OBVIOUS
<1>2. PICK h : h = CHOOSE f : IsSubquery(f, s, d, q)
  OBVIOUS
<1>3. Subquery(s, d, q) = IF Len(q.chain) = 1 THEN {{}} ELSE h[2]
  <2>1. Subquery(s, d, q) = IF Len(q.chain) = 1 THEN {{}} ELSE (CHOOSE f : IsSubquery(f, s, d, q))[2]
    BY Zenon DEF Subquery, IsSubquery
  <2> QED
    BY <1>2, <2>1, Zenon
<1>4. ASSUME NEW f
      PROVE  IsSubquery(f, s, d, q) <=>
                f = [i \in 2..Len(q.chain) |->
                        IF i = Len(q.chain) THEN {all}
                        ELSE UNION {Collapse(s, d, q, i, below) : below \in f[i + 1]}]
  BY <1>1, Zenon DEF IsSubquery
<1>5. \A f : f = [i \in 2..2 |-> {all}] => IsSubquery(f, s, d, q)
  BY <1>4
<1>6. \A f : IsSubquery(f, s, d, q) => f[2] = {all}
  BY <1>4
<1>7. PICK f : f = [i \in 2..2 |-> {all}]
  OBVIOUS
<1>8. IsSubquery(h, s, d, q)
  BY <1>2, <1>5, <1>7, Zenon
<1> QED
  BY <1>1, <1>3, <1>6, <1>8

\* The only result of the subquery is what hangs below.
LEMMA SubqueryIs ==
    ASSUME SoundRequests, NEW where, IsBuilt(where), WellFormed(stmt), NEW d
    PROVE  \E below : /\ Subquery(stmt, d, query) = {below}
                      /\ \A r : Below(d, r, below) = {<<x>> : x \in Under(d, r)}
<1>1. Len(query.chain) \in {1, 2}
  BY QueryIs DEF SoundRequests, IsBuilt
<1>2. CASE Len(query.chain) = 1
  <2>1. Subquery(stmt, d, query) = {{}}
    BY <1>2 DEF Subquery
  <2>2. \A r : Below(d, r, {}) = {} /\ \A x : x \notin Under(d, r)
    BY <1>2 DEF Below, Under
  <2> QED
    BY <2>1, <2>2
<1>3. CASE Len(query.chain) = 2
  <2>1. PICK all, t : all = {[id |-> r, under |-> {}] : r \in Other(d)} /\ t = query.chain[2]
    OBVIOUS
  <2>2. Kept(stmt, d, t) = Other(d)
    BY <1>3, <2>1, KeptIs
  <2>3. Subquery(stmt, d, query) = {all}
    BY <1>3, <2>1, <2>2, SubqueryEnds
  <2>4. ASSUME NEW r PROVE Below(d, r, all) = {<<x>> : x \in Under(d, r)}
    <3>1. \A v : v \in Attached(d, t, r, all) <=> \E x \in Other(d) : d.rows[t][x].parent = r /\ v = <<x>>
      <4>1. PICK S : S = {b \in all : d.rows[t][b.id].parent = r}
        OBVIOUS
      <4> DEFINE Reach(b) == {<<b.id>>} \cup {<<b.id>> \o u : u \in b.under}
      <4>2. Attached(d, t, r, all) = UNION {Reach(b) : b \in S}
        BY <4>1, Zenon DEF Attached
      <4>3. ASSUME NEW b \in S PROVE Reach(b) = {<<b.id>>}
        BY <2>1, <4>1
      <4> HIDE DEF Reach
      <4>4. \A v : v \in Attached(d, t, r, all) <=> \E b \in S : v = <<b.id>>
        BY <4>2, <4>3
      <4>5. \A x \in Other(d) : d.rows[t][x].parent = r => \E b \in S : b.id = x
        <5>1. ASSUME NEW x \in Other(d), d.rows[t][x].parent = r PROVE \E b \in S : b.id = x
          <6>1. PICK b : b = [id |-> x, under |-> {}]
            OBVIOUS
          <6>2. b \in all /\ b.id = x
            BY <2>1, <6>1
          <6> QED
            BY <4>1, <5>1, <6>2
        <5> QED
          BY <5>1
      <4>6. \A b \in S : b.id \in Other(d) /\ d.rows[t][b.id].parent = r
        BY <2>1, <4>1
      <4> QED
        BY <4>4, <4>5, <4>6
    <3>2. \A x : x \in Under(d, r) <=> x \in Other(d) /\ d.rows[t][x].parent = r
      BY <1>3, <2>1 DEF Under
    <3>3. Attached(d, t, r, all) = {<<x>> : x \in Under(d, r)}
      BY <3>1, <3>2
    <3>4. CASE all # {}
      BY <2>1, <3>3, <3>4 DEF Below
    <3>5. CASE all = {}
      <4>1. \A x : x \notin Other(d)
        BY <2>1, <3>5
      <4> QED
        BY <3>2, <3>5, <4>1 DEF Below
    <3> QED
      BY <3>4, <3>5
  <2> QED
    BY <2>3, <2>4
<1> QED
  BY <1>1, <1>2, <1>3

\* What SQLite gives is one set of rows.
LEMMA ResultsAre ==
    ASSUME SoundRequests, NEW where, IsBuilt(where), WellFormed(stmt), NEW d
    PROVE  Results(stmt, d, query) = {Answer(d)}
<1>1. PICK below : /\ Subquery(stmt, d, query) = {below}
                   /\ \A r : Below(d, r, below) = {<<x>> : x \in Under(d, r)}
  BY SubqueryIs
<1>2. Head(query.chain) = query.chain[1]
  BY QueryIs DEF SoundRequests, IsBuilt
<1>3. Kept(stmt, d, query.chain[1]) = Wanted(d)
  BY KeptIs
<1>4. PICK base : base = {r \in Kept(stmt, d, Head(query.chain)) :
                              query.kind = "inner" => Below(d, r, below) # {}}
  OBVIOUS
<1>5. TreesOver(stmt, d, query, below) =
          IF ~query.flat
          THEN {{<<r>>} \cup {<<r>> \o u : u \in Below(d, r, below)} : r \in base}
          ELSE UNION {IF Below(d, r, below) = {} THEN {{<<r>>}}
                      ELSE {{<<r>>, <<r>> \o u} : u \in Below(d, r, below)} : r \in base}
  BY <1>4, Zenon DEF TreesOver, Below
<1>6. \A r : Below(d, r, below) = {} <=> Under(d, r) = {}
  <2>1. ASSUME NEW r PROVE Below(d, r, below) = {} <=> Under(d, r) = {}
    <3>1. PICK B, U : B = Below(d, r, below) /\ U = Under(d, r)
      OBVIOUS
    <3>2. \A v : v \in B <=> \E x \in U : v = <<x>>
      BY <1>1, <3>1
    <3>3. (\E v : v \in B) <=> \E x : x \in U
      BY <3>2
    <3> QED
      BY <3>1, <3>3
  <2> QED
    BY <2>1
<1>7. base = Left(d)
  BY <1>2, <1>3, <1>4, <1>6 DEF Left
<1>8. \A r, x : <<r>> \o <<x>> = <<r, x>>
  <2>1. ASSUME NEW r, NEW x PROVE <<r>> \o <<x>> = <<r, x>>
    <3>1. PICK S : S = {r, x}
      OBVIOUS
    <3>2. <<r>> \in Seq(S) /\ x \in S
      BY <3>1
    <3>3. Append(<<r>>, x) = <<r>> \o <<x>>
      BY <3>2, AppendIsConcat
    <3>4. Append(<<r>>, x) = <<r, x>>
      <4>1. PICK a, b : a = Append(<<r>>, x) /\ b = <<r, x>>
        OBVIOUS
      <4>2. /\ a \in Seq(S) /\ Len(a) = Len(<<r>>) + 1 /\ a[Len(<<r>>) + 1] = x
            /\ \A i \in 1..Len(<<r>>) : a[i] = <<r>>[i]
        BY <3>2, <4>1, AppendProperties
      <4>3. Len(<<r>>) = 1 /\ <<r>>[1] = r
        OBVIOUS
      <4>4. Len(a) = 2 /\ a[1] = r /\ a[2] = x
        BY <4>2, <4>3
      <4>5. b \in Seq(S) /\ Len(b) = 2 /\ b[1] = r /\ b[2] = x
        BY <3>1, <4>1
      <4>6. \A i \in 1..2 : a[i] = b[i]
        BY <4>4, <4>5
      <4> QED
        BY <4>1, <4>2, <4>4, <4>5, <4>6, SeqEqual
    <3> QED
      BY <3>3, <3>4
  <2> QED
    BY <2>1
<1>9. \A r : {<<r>>} \cup {<<r>> \o u : u \in Below(d, r, below)} = Tree(d, r)
  <2>1. ASSUME NEW r PROVE {<<r>>} \cup {<<r>> \o u : u \in Below(d, r, below)} = Tree(d, r)
    <3>1. PICK B, U : B = Below(d, r, below) /\ U = Under(d, r)
      OBVIOUS
    <3> DEFINE One(x) == <<x>>
               Two(x) == <<r, x>>
               Cat(u) == <<r>> \o u
    <3>2. \A v : v \in B <=> \E x \in U : v = One(x)
      BY <1>1, <3>1
    <3>3. \A x : Cat(One(x)) = Two(x)
      BY <1>8
    <3>4. {Cat(u) : u \in B} = {Two(x) : x \in U}
      <4> HIDE DEF One, Two, Cat
      <4> QED
        BY <3>2, <3>3
    <3> QED
      BY <3>1, <3>4 DEF Tree
  <2> QED
    BY <2>1
<1>10. \A r : (IF Below(d, r, below) = {} THEN {{<<r>>}}
                ELSE {{<<r>>, <<r>> \o u} : u \in Below(d, r, below)}) = Flat(d, r)
  <2>1. ASSUME NEW r PROVE {{<<r>>, <<r>> \o u} : u \in Below(d, r, below)}
                             = {{<<r>>, <<r, x>>} : x \in Under(d, r)}
    <3>1. PICK B, U : B = Below(d, r, below) /\ U = Under(d, r)
      OBVIOUS
    <3> DEFINE One(x) == <<x>>
               Two(x) == {<<r>>, <<r, x>>}
               Cat(u) == {<<r>>, <<r>> \o u}
    <3>2. \A v : v \in B <=> \E x \in U : v = One(x)
      BY <1>1, <3>1
    <3>4. \A x : Cat(One(x)) = Two(x)
      BY <1>8
    <3>3. {Cat(u) : u \in B} = {Two(x) : x \in U}
      <4> HIDE DEF One, Two, Cat
      <4> QED
        BY <3>2, <3>4
    <3> QED
      BY <3>1, <3>3
  <2>2. ASSUME NEW r, Under(d, r) = {}
        PROVE  Flat(d, r) = {{<<r>>}} /\ Below(d, r, below) = {}
    BY <1>6, <2>2 DEF Flat
  <2>3. ASSUME NEW r, Under(d, r) # {}
        PROVE  /\ Flat(d, r) = {{<<r>>, <<r, x>>} : x \in Under(d, r)}
               /\ Below(d, r, below) # {}
    BY <1>6, <2>3, Zenon DEF Flat
  <2>4. ASSUME NEW r
        PROVE  (IF Below(d, r, below) = {} THEN {{<<r>>}}
                ELSE {{<<r>>, <<r>> \o u} : u \in Below(d, r, below)}) = Flat(d, r)
    <3>1. CASE Under(d, r) = {}
      BY <2>2, <3>1, Zenon
    <3>2. CASE Under(d, r) # {}
      BY <2>1, <2>3, <3>2, Zenon
    <3> QED
      BY <3>1, <3>2
  <2> QED
    BY <2>4
<1>11. TreesOver(stmt, d, query, below) = Answer(d)
  <2> DEFINE Grown(r) == {<<r>>} \cup {<<r>> \o u : u \in Below(d, r, below)}
             Spread(r) == IF Below(d, r, below) = {} THEN {{<<r>>}}
                          ELSE {{<<r>>, <<r>> \o u} : u \in Below(d, r, below)}
  <2>1. TreesOver(stmt, d, query, below) =
            IF ~query.flat THEN {Grown(r) : r \in base} ELSE UNION {Spread(r) : r \in base}
    BY <1>5, Zenon
  <2>2. \A r : Grown(r) = Tree(d, r)
    BY <1>9, Zenon
  <2>3. \A r : Spread(r) = Flat(d, r)
    BY <1>10, Zenon
  <2> HIDE DEF Grown, Spread
  <2> QED
    BY <1>7, <2>1, <2>2, <2>3 DEF Answer
<1> QED
  BY <1>1, <1>11 DEF Results

\* The paths are the rows asked for, with what hangs below them.
LEMMA PathsAre ==
    ASSUME query \in Query, Sound(query), Depth(query) <= MaxQueryDepth, NEW d, NEW p
    PROVE  p \in Paths(d) <=>
                \/ \E r \in Wanted(d) : p = <<r>>
                \/ \E r \in Wanted(d) : \E x \in Under(d, r) : p = <<r, x>>
<1>1. PICK c, n, filter : c = query.chain /\ n = Len(query.chain) /\ filter = query.filter
  OBVIOUS
<1>2. n \in {1, 2} /\ \A k \in 1..n : k \in {1, 2}
  <2>1. n \in {1, 2}
    BY <1>1, QueryIs
  <2> QED
    BY <2>1
<1> DEFINE Lawful(q) == /\ \A i \in DOMAIN q : Permitted(d, c[i], q[i])
                        /\ \A i \in 2..Len(q) : d.rows[c[i]][q[i]].parent = q[i - 1]
                        /\ Says(filter, d.rows[c[1]][q[1]]) = "true"
<1>3. p \in Paths(d) <=> (\E k \in 1..n : p \in [1..k -> Id]) /\ Lawful(p)
  BY <1>1, Zenon DEF Paths
<1>4. \A r : r \in Wanted(d) <=> /\ r \in Id /\ Permitted(d, c[1], r)
                                 /\ Says(filter, d.rows[c[1]][r]) = "true"
  BY <1>1 DEF Wanted
<1>5. \A r, x : x \in Under(d, r) <=> /\ x \in Id /\ Permitted(d, c[2], x) /\ n = 2
                                      /\ d.rows[c[2]][x].parent = r
  BY <1>1 DEF Under, Other
<1>6. ASSUME p \in Paths(d)
      PROVE  \/ \E r \in Wanted(d) : p = <<r>>
             \/ \E r \in Wanted(d) : \E x \in Under(d, r) : p = <<r, x>>
  <2>1. PICK k \in 1..n : p \in [1..k -> Id]
    BY <1>3, <1>6
  <2>2. Lawful(p)
    BY <1>3, <1>6
  <2>3. CASE k = 1
    <3>1. PICK r : r = p[1]
      OBVIOUS
    <3>2. r \in Id /\ 1 \in DOMAIN p /\ p = <<r>>
      BY <2>1, <2>3, <3>1
    <3>3. r \in Wanted(d)
      BY <1>4, <2>2, <3>1, <3>2
    <3> QED
      BY <3>2, <3>3
  <2>4. CASE k = 2
    <3>1. PICK r, x : r = p[1] /\ x = p[2]
      OBVIOUS
    <3>2. r \in Id /\ x \in Id /\ DOMAIN p = 1..2 /\ p = <<r, x>>
      BY <2>1, <2>4, <3>1
    <3>3. 1 \in DOMAIN p /\ 2 \in DOMAIN p /\ 2 \in 2..Len(p) /\ n = 2
      BY <1>2, <2>4, <3>2
    <3>4. r \in Wanted(d)
      BY <1>4, <2>2, <3>1, <3>2, <3>3
    <3>5. d.rows[c[2]][p[2]].parent = p[2 - 1] /\ Permitted(d, c[2], p[2])
      BY <2>2, <3>3
    <3>6. x \in Under(d, r)
      BY <1>5, <3>1, <3>2, <3>3, <3>5
    <3> QED
      BY <3>2, <3>4, <3>6
  <2> QED
    BY <1>2, <2>3, <2>4
<1>7. ASSUME NEW r \in Wanted(d) PROVE <<r>> \in Paths(d)
  <2>1. PICK q : q = <<r>>
    OBVIOUS
  <2>2. q \in [1..1 -> Id] /\ DOMAIN q = 1..1 /\ Len(q) = 1 /\ q[1] = r
    BY <1>4, <2>1
  <2>3. 1 \in 1..n
    BY <1>2
  <2>4. Lawful(q)
    BY <1>4, <2>2
  <2>5. q \in Paths(d) <=> (\E k \in 1..n : q \in [1..k -> Id]) /\ Lawful(q)
    BY <1>1, Zenon DEF Paths
  <2> QED
    BY <2>1, <2>2, <2>3, <2>4, <2>5
<1>8. ASSUME NEW r \in Wanted(d), NEW x \in Under(d, r) PROVE <<r, x>> \in Paths(d)
  <2>1. PICK q : q = <<r, x>>
    OBVIOUS
  <2>2. q \in [1..2 -> Id] /\ DOMAIN q = 1..2 /\ Len(q) = 2 /\ q[1] = r /\ q[2] = x
    BY <1>4, <1>5, <2>1
  <2>3. 2 \in 1..n
    BY <1>2, <1>5
  <2>4. Lawful(q)
    <3>1. \A i \in 1..2 : i = 1 \/ i = 2
      OBVIOUS
    <3>2. \A i \in 2..2 : i = 2 /\ i - 1 = 1
      OBVIOUS
    <3>3. Permitted(d, c[1], r) /\ Permitted(d, c[2], x) /\ d.rows[c[2]][x].parent = r
          /\ Says(filter, d.rows[c[1]][r]) = "true"
      BY <1>4, <1>5
    <3> QED
      BY <2>2, <3>1, <3>2, <3>3
  <2>5. q \in Paths(d) <=> (\E k \in 1..n : q \in [1..k -> Id]) /\ Lawful(q)
    BY <1>1, Zenon DEF Paths
  <2> QED
    BY <2>1, <2>2, <2>3, <2>4, <2>5
<1> QED
  BY <1>6, <1>7, <1>8

LEMMA FlatIs ==
    ASSUME NEW d, NEW r, Under(d, r) # {}
    PROVE  Flat(d, r) = {{<<r>>, <<r, x>>} : x \in Under(d, r)}
BY Zenon DEF Flat

\* The rows asked for are those that SQLite gives.
LEMMA AskedIs ==
    ASSUME query \in Query, Sound(query), Depth(query) <= MaxQueryDepth, NEW d
    PROVE  Asked(d) = Answer(d)
<1> DEFINE P == Paths(d)
           TreeAt(r) == {p \in P : p[1] = r}
           Short(tree) == {p \in tree : Len(p) = 1}
           Split(tree) == IF \A p \in tree : Len(p) = 1 THEN {tree}
                          ELSE {{<<p[1]>>, p} : p \in {x \in tree : Len(x) > 1}}
           roots == {p[1] : p \in P}
           trees == {TreeAt(r) : r \in roots}
           matched == {tree \in trees : query.kind = "inner" => tree # Short(tree)}
<1>2. \A p : p \in P <=> \/ \E r \in Wanted(d) : p = <<r>>
                         \/ \E r \in Wanted(d) : \E x \in Under(d, r) : p = <<r, x>>
  BY PathsAre
<1>4. Asked(d) = IF ~query.flat THEN matched ELSE UNION {Split(tree) : tree \in matched}
  BY Zenon DEF Asked
<1> HIDE DEF P
<1>5. \A r, x : /\ <<r>>[1] = r /\ <<r, x>>[1] = r /\ Len(<<r>>) = 1 /\ Len(<<r, x>>) = 2
                /\ <<r>> # <<r, x>>
  OBVIOUS
<1>6. \A r : r \in roots <=> r \in Wanted(d)
  <2>1. ASSUME NEW r \in roots PROVE r \in Wanted(d)
    BY <1>2, <1>5, <2>1
  <2>2. ASSUME NEW r \in Wanted(d) PROVE r \in roots
    <3>1. <<r>> \in P
      BY <1>2
    <3> QED
      BY <1>5, <3>1
  <2> QED
    BY <2>1, <2>2
<1> HIDE DEF roots
<1>7. ASSUME NEW r, NEW p
      PROVE  p \in Tree(d, r) <=> p = <<r>> \/ \E x \in Under(d, r) : p = <<r, x>>
  BY DEF Tree
<1>8. ASSUME NEW r \in Wanted(d) PROVE TreeAt(r) = Tree(d, r)
  <2>1. ASSUME NEW p PROVE p \in TreeAt(r) <=> p \in Tree(d, r)
    BY <1>2, <1>5, <1>7
  <2> QED
    BY <2>1
<1>9. ASSUME NEW r
      PROVE  /\ Tree(d, r) # Short(Tree(d, r)) <=> \E x : x \in Under(d, r)
             /\ (\A p \in Tree(d, r) : Len(p) = 1) <=> \A x : x \notin Under(d, r)
  <2>1. \A p \in Tree(d, r) : Len(p) = 1 <=> p = <<r>>
    BY <1>5, <1>7
  <2>2. ASSUME NEW x \in Under(d, r)
        PROVE <<r, x>> \in Tree(d, r) /\ Len(<<r, x>>) # 1 /\ <<r, x>> \notin Short(Tree(d, r))
    BY <1>5, <1>7
  <2>3. ASSUME \A x : x \notin Under(d, r)
        PROVE  (\A p \in Tree(d, r) : Len(p) = 1) /\ Tree(d, r) = Short(Tree(d, r))
    BY <1>5, <1>7, <2>3
  <2> QED
    BY <2>2, <2>3
<1>10. \A r : Under(d, r) # {} <=> \E x : x \in Under(d, r)
  OBVIOUS
<1>11. matched = {Tree(d, r) : r \in Left(d)}
  <2>1. ASSUME NEW tree PROVE tree \in matched <=> \E r \in Left(d) : tree = Tree(d, r)
    <3>1. tree \in matched <=> /\ \E r \in roots : tree = TreeAt(r)
                               /\ query.kind = "inner" => tree # Short(tree)
      <4>1. tree \in trees <=> \E r \in roots : tree = TreeAt(r)
        <5> HIDE DEF TreeAt
        <5> QED
          OBVIOUS
      <4>2. tree \in matched <=> tree \in trees /\ (query.kind = "inner" => tree # Short(tree))
        <5> HIDE DEF trees, Short
        <5> QED
          OBVIOUS
      <4> HIDE DEF trees, matched, TreeAt, Short
      <4> QED
        BY <4>1, <4>2
    <3>2. tree \in matched <=> /\ \E r \in Wanted(d) : tree = Tree(d, r)
                               /\ query.kind = "inner" => tree # Short(tree)
      <4> HIDE DEF TreeAt, Short
      <4> QED
        BY <1>6, <1>8, <3>1
    <3>3. \A r : Tree(d, r) # Short(Tree(d, r)) <=> Under(d, r) # {}
      <4> HIDE DEF Short
      <4> QED
        BY <1>9, <1>10
    <3>4. \A r : r \in Left(d) <=> r \in Wanted(d) /\ (query.kind = "inner" => Under(d, r) # {})
      BY DEF Left
    <3> QED
      <4> HIDE DEF Short, matched
      <4> QED
        <5>1. CASE query.kind = "inner"
          BY <3>2, <3>3, <3>4, <5>1
        <5>2. CASE query.kind # "inner"
          BY <3>2, <3>4, <5>2
        <5> QED
          BY <5>1, <5>2
  <2> QED
    BY <2>1
<1>12. ASSUME NEW r PROVE Split(Tree(d, r)) = Flat(d, r)
  <2>1. CASE \A x : x \notin Under(d, r)
    <3>1. Split(Tree(d, r)) = {Tree(d, r)}
      BY <1>9, <2>1
    <3>2. Tree(d, r) = {<<r>>}
      BY <1>7, <2>1
    <3>3. Flat(d, r) = {{<<r>>}}
      BY <1>10, <2>1 DEF Flat
    <3> QED
      BY <3>1, <3>2, <3>3
  <2>2. CASE \E x : x \in Under(d, r)
    <3> DEFINE Pair(p) == {<<p[1]>>, p}
               Two(x) == <<r, x>>
    <3>1. Split(Tree(d, r)) = {Pair(p) : p \in {x \in Tree(d, r) : Len(x) > 1}}
      BY <1>9, <2>2
    <3>2. Flat(d, r) = {{<<r>>, <<r, x>>} : x \in Under(d, r)}
      BY <1>10, <2>2, FlatIs
    <3>3. \A p : p \in {x \in Tree(d, r) : Len(x) > 1} <=> \E x \in Under(d, r) : p = Two(x)
      <4>1. ASSUME NEW p \in Tree(d, r), Len(p) > 1 PROVE \E x \in Under(d, r) : p = Two(x)
        <5>1. p # <<r>>
          <6>1. PICK one : one = <<r>>
            OBVIOUS
          <6>2. Len(one) = 1
            BY <1>5, <6>1
          <6>3. ~(Len(one) > 1)
            BY <6>2
          <6> QED
            BY <4>1, <6>1, <6>3, Zenon
        <5> QED
          BY <1>7, <5>1
      <4>2. ASSUME NEW x \in Under(d, r) PROVE <<r, x>> \in Tree(d, r) /\ Len(<<r, x>>) > 1
        BY <1>5, <1>7
      <4> QED
        BY <4>1, <4>2
    <3>4. \A x : Pair(Two(x)) = {<<r>>, <<r, x>>}
      BY <1>5
    <3>5. PICK L : L = {x \in Tree(d, r) : Len(x) > 1}
      OBVIOUS
    <3>6. {Pair(p) : p \in L} = {Pair(Two(x)) : x \in Under(d, r)}
      <4> HIDE DEF Pair, Two
      <4> QED
        BY <3>3, <3>5
    <3>7. {Pair(Two(x)) : x \in Under(d, r)} = {{<<r>>, <<r, x>>} : x \in Under(d, r)}
      BY <3>4
    <3> QED
      BY <3>1, <3>2, <3>5, <3>6, <3>7
  <2> QED
    BY <2>1, <2>2
<1> HIDE DEF matched
<1>13. {Split(tree) : tree \in matched} = {Flat(d, r) : r \in Left(d)}
  <2> HIDE DEF Split
  <2> QED
    BY <1>11, <1>12
<1> QED
  BY <1>4, <1>11, <1>13 DEF Answer
-----------------------------------------------------------------------------
\* What is asked for changes with the database only ...
LEMMA SameAsked ==
    ASSUME policies' = policies, query' = query, NEW d
    PROVE  Asked(d)' = Asked(d)
<1>1. ASSUME NEW t, NEW r PROVE Permitted(d, t, r)' <=> Permitted(d, t, r)
  BY DEF Permitted
<1>2. Paths(d)' = Paths(d)
  BY <1>1 DEF Paths
<1>3. PICK P : P = Paths(d) /\ P = Paths(d)'
  BY <1>2
<1> QED
  BY <1>3 DEF Asked

LEMMA SameDecision ==
    ASSUME policies' = policies, query' = query, NEW t
    PROVE  Decision(t)' = Decision(t)
BY DEF Decision

\* ... and the statement not at all.
LEMMA SameStatement ==
    ASSUME policies' = policies, query' = query, NEW where
    PROVE  Statement(query, where)' = Statement(query, where)
<1>1. PICK q : q = query /\ q = query'
  OBVIOUS
<1>2. \A t : Decision(t)' = Decision(t)
  BY SameDecision
<1>3. \A at, t : PolicyOf(at, t)' = PolicyOf(at, t)
  BY <1>1, <1>2 DEF PolicyOf
<1>4. Subqueries(query)' = Subqueries(q) /\ Subqueries(query) = Subqueries(q)
  BY <1>1, <1>3 DEF Subqueries
<1>5. PolicyClauses(query)' = PolicyClauses(query)
  BY <1>1, <1>3, <1>4 DEF PolicyClauses, JoinPolicies
<1>6. With(query)' = With(query)
  BY <1>1, <1>5 DEF With
<1>7. /\ Filter(query, where)' = Filter(query, where)
      /\ Group(query)' = Group(query)
  BY <1>1 DEF Filter, Group
<1>8. Clauses(query, where)' = Clauses(query, where)
  BY <1>1, <1>5, <1>7 DEF Clauses
<1>9. Arguments(query, where)' = Arguments(query, where)
  BY <1>5, <1>7 DEF Arguments
<1>10. Resolves(query)' = Resolves(query)
  BY <1>1, <1>2 DEF Resolves
<1> QED
  BY <1>6, <1>8, <1>9, <1>10 DEF Statement

LEMMA StaysBuilt ==
    ASSUME policies' = policies, query' = query, stmt' = stmt, NEW where, IsBuilt(where)
    PROVE  IsBuilt(where)'
<1>1. Statement(query, where)' = Statement(query, where)
  BY SameStatement
<1>2. \A t : Decision(t)' = Decision(t)
  BY SameDecision
<1>3. PICK q : q = query /\ q = query'
  OBVIOUS
<1>4. Reached(query)' = Reached(query) /\ Depth(query)' = Depth(query)
  BY <1>3 DEF Reached, Depth
<1> QED
  BY <1>1, <1>2, <1>3, <1>4 DEF IsBuilt
-----------------------------------------------------------------------------
(* What is answered and counted. *)

AnswerInv ==
    /\ pc \in Pc /\ policies \in Policies /\ query \in Query
    /\ pc \in {"built", "counted", "answered"} =>
          \E where \in Wheres(query.filter) : IsBuilt(where)
    /\ pc = "counted" => total = Cardinality(Asked(seen))
    /\ AnswerIsPage /\ CountIsOfAnswer

\* The statement is built only when nothing is refused.
LEMMA BuildAnswers ==
    ASSUME SoundRequests, AnswerInv, Build
    PROVE  AnswerInv'
<1>1. /\ policies' = policies /\ query' = query /\ policies \in Policies /\ query \in Query
      /\ pc' \in {"refused", "invalid", "built"}
  BY DEF Build, AnswerInv
<1>2. ASSUME pc' = "built" PROVE (\E where \in Wheres(query.filter) : IsBuilt(where))'
  <2>1. PICK where \in Wheres(query.filter) :
            /\ stmt' = Statement(query, where) /\ ~(Depth(query) > MaxQueryDepth)
            /\ ~\E t \in Reached(query) : Decision(t) = "denied"
    BY <1>2 DEF Build
  <2>2. Depth(query) <= MaxQueryDepth
    <3>1. IsQuery(query) /\ MaxQueryDepth \in Nat
      BY <1>1, SelectsAssumption
    <3>2. Depth(query) \in Nat
      <4>1. query.chain \in Seq(Table)
        BY <3>1 DEF IsQuery
      <4>2. Len(query.chain) \in Nat
        BY <4>1, LenProperties
      <4> QED
        BY <4>2 DEF Depth
    <3> QED
      BY <2>1, <3>1, <3>2
  <2>3. Statement(query, where)' = Statement(query, where)
    BY <1>1, SameStatement
  <2>4. \A t : Decision(t)' = Decision(t)
    BY <1>1, SameDecision
  <2>5. PICK q : q = query /\ q = query'
    BY <1>1
  <2>6. Reached(query)' = Reached(query) /\ Depth(query)' = Depth(query)
    BY <2>5 DEF Reached, Depth
  <2>7. IsBuilt(where)'
    BY <1>1, <2>1, <2>2, <2>3, <2>4, <2>5, <2>6 DEF IsBuilt
  <2> QED
    BY <2>1, <2>5, <2>7
<1> QED
  BY <1>1, <1>2 DEF AnswerInv, AnswerIsPage, CountIsOfAnswer, Pc

\* What a statement returns is what the request asks for.
LEMMA ResultIsAsked ==
    ASSUME SoundRequests, AnswerInv, pc \in {"built", "counted"}, Answerable, NEW d
    PROVE  Results(stmt, d, query) = {Asked(d)}
<1>1. PICK where : IsBuilt(where)
  BY DEF AnswerInv
<1>2. Results(stmt, d, query) = {Answer(d)}
  BY <1>1, ResultsAre DEF Answerable
<1>3. Asked(d) = Answer(d)
  BY <1>1, AskedIs DEF SoundRequests, IsBuilt
<1> QED
  BY <1>2, <1>3

\* The invariant is preserved.
LEMMA NextAnswers ==
    SoundRequests /\ AnswerInv /\ [Next]_vars => AnswerInv'
<1> SUFFICES ASSUME SoundRequests, AnswerInv, [Next]_vars PROVE AnswerInv'
  OBVIOUS
<1>1. policies' = policies /\ query' = query /\ policies \in Policies /\ query \in Query
  BY DEF Next, Build, Count, Fetch, Change, vars, AnswerInv
<1>2. CASE Build
  BY <1>2, BuildAnswers
<1>3. ASSUME stmt' = stmt, pc \in {"built", "counted", "answered"}
      PROVE  (\E where \in Wheres(query.filter) : IsBuilt(where))'
  <2>1. PICK where \in Wheres(query.filter) : IsBuilt(where)
    BY <1>3 DEF AnswerInv
  <2>2. IsBuilt(where)'
    BY <1>1, <1>3, <2>1, StaysBuilt
  <2> QED
    BY <1>1, <2>2
<1>4. \A d : Asked(d)' = Asked(d)
  BY <1>1, SameAsked
<1>5. CASE Count
  <2>1. pc = "built" /\ stmt' = stmt /\ pc' \in {"counted", "failed"}
    BY <1>5 DEF Count
  <2>2. ASSUME pc' = "counted" PROVE (total = Cardinality(Asked(seen)))'
    <3>1. PICK v : v = Visible
      OBVIOUS
    <3>2. Answerable /\ seen' = v /\ \E rows \in Results(stmt, v, query) : total' = Cardinality(rows)
      BY <1>5, <2>2, <3>1 DEF Count
    <3>3. Results(stmt, v, query) = {Asked(v)}
      BY <2>1, <3>2, ResultIsAsked
    <3>4. total' = Cardinality(Asked(v))
      BY <3>2, <3>3
    <3>5. Asked(seen)' = Asked(v)
      BY <1>4, <3>2
    <3> QED
      BY <3>4, <3>5
  <2> QED
    BY <1>1, <1>3, <2>1, <2>2 DEF AnswerInv, AnswerIsPage, CountIsOfAnswer, Pc
<1>6. CASE Fetch
  <2>1. /\ pc \in {"built", "counted"} /\ stmt' = stmt /\ pc' \in {"answered", "failed"}
        /\ total' = total /\ (query.count => pc = "counted")
    BY <1>6 DEF Fetch
  <2>2. ASSUME pc' = "answered" PROVE AnswerIsPage' /\ CountIsOfAnswer'
    <3>1. PICK v : v = Visible
      OBVIOUS
    <3>2. /\ Answerable /\ seen' = v
          /\ \E rows \in Results(stmt, v, query) :
                answer' \in kSubset(PageSize(query, Cardinality(rows)), rows)
      BY <1>6, <2>2, <3>1 DEF Fetch
    <3>3. Results(stmt, v, query) = {Asked(v)}
      BY <2>1, <3>2, ResultIsAsked
    <3>4. answer' \in kSubset(PageSize(query, Cardinality(Asked(v))), Asked(v))
      BY <3>2, <3>3
    <3>5. /\ answer' \subseteq Asked(v)
          /\ Cardinality(answer') = PageSize(query, Cardinality(Asked(v)))
      BY <3>4 DEF kSubset
    <3>6. Asked(seen)' = Asked(v)
      BY <1>4, <3>2
    <3>7. AnswerIsPage'
      BY <1>1, <3>5, <3>6 DEF AnswerIsPage
    <3>8. CountIsOfAnswer'
      <4>1. SUFFICES ASSUME query.count, query.batch PROVE total' = Cardinality(Asked(v))
        BY <1>1, <3>6 DEF CountIsOfAnswer
      <4>2. pc = "counted" /\ v = seen
        BY <2>1, <3>1, <4>1 DEF Visible
      <4> QED
        BY <2>1, <4>2 DEF AnswerInv
    <3> QED
      BY <3>7, <3>8
  <2>3. pc' = "failed" => AnswerIsPage' /\ CountIsOfAnswer'
    BY DEF AnswerIsPage, CountIsOfAnswer
  <2> QED
    BY <1>1, <1>3, <2>1, <2>2, <2>3 DEF AnswerInv, Pc
<1>7. CASE Change
  <2>1. pc = "counted" /\ pc' = pc /\ stmt' = stmt /\ seen' = seen /\ total' = total
    BY <1>7 DEF Change
  <2>2. Asked(seen)' = Asked(seen)
    BY <1>4, <2>1
  <2> QED
    BY <1>1, <1>3, <2>1, <2>2 DEF AnswerInv, AnswerIsPage, CountIsOfAnswer
<1>8. CASE UNCHANGED vars
  <2>1. /\ pc' = pc /\ stmt' = stmt /\ seen' = seen /\ total' = total /\ answer' = answer
    BY <1>8 DEF vars
  <2>2. Asked(seen)' = Asked(seen)
    BY <1>4, <2>1
  <2> QED
    BY <1>1, <1>3, <2>1, <2>2 DEF AnswerInv, AnswerIsPage, CountIsOfAnswer
<1> QED
  BY <1>2, <1>5, <1>6, <1>7, <1>8 DEF Next

LEMMA InitAnswers ==
    Init => AnswerInv
BY DEF Init, AnswerInv, AnswerIsPage, CountIsOfAnswer, Pc

\* An answer is the page asked for of the rows asked for, each permitted by the policy
\* of its table, with all that is permitted below it (selectJSON).
THEOREM AnswersArePages ==
    ASSUME SoundRequests PROVE Spec => []AnswerIsPage
<1>1. AnswerInv => AnswerIsPage
  BY DEF AnswerInv
<1>2. AnswerInv /\ [Next]_vars => AnswerInv'
  BY NextAnswers
<1> QED
  BY <1>1, <1>2, InitAnswers, PTL DEF Spec

\* In a batch, a count is of the very rows whose page is returned.
THEOREM CountsAreOfAnswers ==
    ASSUME SoundRequests PROVE Spec => []CountIsOfAnswer
<1>1. AnswerInv => CountIsOfAnswer
  BY DEF AnswerInv
<1>2. AnswerInv /\ [Next]_vars => AnswerInv'
  BY NextAnswers
<1> QED
  BY <1>1, <1>2, InitAnswers, PTL DEF Spec
===============================================================================
