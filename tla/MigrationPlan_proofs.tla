------------------------- MODULE MigrationPlan_proofs -------------------------
(***************************************************************************)
(* What a push keeps and what it carries over, for all schemas, whatever   *)
(* lists of changes Go's maps make of them and whatever renames the        *)
(* client's user confirms.                                                 *)
(***************************************************************************)
EXTENDS MigrationPlan, WellFoundedInduction, FiniteSetTheorems, SequenceTheorems, TLAPS

(* Induction. *)

\* What holds of the first number of a range, and of each number after one it
\* holds of, holds of the whole range: there is no least number it fails.
LEMMA RangeInduction ==
    ASSUME NEW from \in Nat, NEW to \in Nat, NEW Good,
           from \in Good,
           \A v \in (from + 1)..to : v - 1 \in Good => v \in Good
    PROVE  from..to \subseteq Good
<1>1. PICK Bad : Bad = {v \in from..to : v \notin Good}
  OBVIOUS
<1>2. SUFFICES ASSUME Bad # {} PROVE FALSE
  BY <1>1
<1>3. Bad \subseteq Nat
  BY <1>1
<1>4. PICK n \in Bad : \A m \in Bad : ~(<<m, n>> \in OpToRel(<, Nat))
  BY <1>2, <1>3, NatLessThanWellFounded, WFMin, Zenon
<1>5. n \in (from + 1)..to /\ n \notin Good /\ n - 1 \in from..to
  <2>1. n \in from..to /\ n \notin Good /\ n # from
    BY <1>1
  <2> QED
    BY <2>1
<1>6. n - 1 \in Nat /\ n \in Nat /\ n - 1 < n
  BY <1>5
<1>7. <<n - 1, n>> \in OpToRel(<, Nat)
  BY <1>6, Zenon DEF OpToRel
<1>8. n - 1 \in Good
  BY <1>1, <1>4, <1>5, <1>7
<1> QED
  BY <1>5, <1>8
-----------------------------------------------------------------------------
(* Lists: what is in them, whatever their order. *)

(* what the positions at of a list hold, those up to n, and the recursion that
   picks them *)
Elements(list, at) == {list[i] : i \in at}
UpTo(at, n) == at \cap 1..n

PicksTo(f, list, at, n) ==
    f = [i \in 0..n |-> IF i = 0 THEN <<>>
                        ELSE IF i \in at THEN Append(f[i - 1], list[i]) ELSE f[i - 1]]

\* Picking positions of a list is a recursion that ends ...
LEMMA PickingIs ==
    ASSUME NEW list, NEW at, NEW n \in Nat
    PROVE  \E f : PicksTo(f, list, at, n)
<1> DEFINE Good == {m \in 0..n : \E f : PicksTo(f, list, at, m)}
<1>1. 0 \in Good
  <2>1. PICK f : f = [i \in 0..0 |-> <<>>]
    OBVIOUS
  <2>2. PicksTo(f, list, at, 0)
    BY <2>1 DEF PicksTo
  <2> QED
    BY <2>2
<1>2. ASSUME NEW m \in (0 + 1)..n, m - 1 \in Good PROVE m \in Good
  <2>1. PICK f : PicksTo(f, list, at, m - 1)
    BY <1>2
  <2>2. PICK g : g = [i \in 0..m |->
            IF i < m THEN f[i]
            ELSE IF m \in at THEN Append(f[m - 1], list[m]) ELSE f[m - 1]]
    OBVIOUS
  <2>3. \A i \in 0..(m - 1) :
            f[i] = IF i = 0 THEN <<>>
                   ELSE IF i \in at THEN Append(f[i - 1], list[i]) ELSE f[i - 1]
    BY <2>1 DEF PicksTo
  <2>4. \A i \in 0..m : i # 0 => i - 1 \in 0..m /\ i - 1 < m /\ (i < m => i \in 0..(m - 1))
    OBVIOUS
  <2>5. \A i \in 0..m : i # 0 => g[i - 1] = f[i - 1]
    BY <2>2, <2>4
  <2>6. ASSUME NEW i \in 0..m
        PROVE  g[i] = IF i = 0 THEN <<>>
                      ELSE IF i \in at THEN Append(g[i - 1], list[i]) ELSE g[i - 1]
    <3>1. CASE i = 0
      BY <2>2, <2>3, <3>1
    <3>2. CASE i # 0 /\ i < m
      BY <2>2, <2>3, <2>4, <2>5, <3>2
    <3>3. CASE i # 0 /\ i = m
      BY <2>2, <2>5, <3>3
    <3> QED
      BY <3>1, <3>2, <3>3
  <2>7. PicksTo(g, list, at, m)
    BY <2>2, <2>6 DEF PicksTo
  <2> QED
    BY <2>7
<1> HIDE DEF Good
<1>3. n \in Good
  BY <1>1, <1>2, RangeInduction
<1> QED
  BY <1>3 DEF Good

(* l holds what those positions do, in any order and however often *)
HasElements(l, list, at, S) == l \in Seq(S) /\ Range(l) = Elements(list, at)

\* ... with the elements at these positions.
LEMMA PickedElements ==
    ASSUME NEW S, NEW list \in Seq(S), NEW at, at \subseteq DOMAIN list
    PROVE  /\ Picked(list, at) \in Seq(S)
           /\ Range(Picked(list, at)) = Elements(list, at)
<1>1. PICK n \in Nat : n = Len(list) /\ DOMAIN list = 1..n
  BY LenProperties
<1>2. PICK F : F = CHOOSE f : PicksTo(f, list, at, n)
  OBVIOUS
<1>3. Picked(list, at) = F[n]
  BY <1>1, <1>2 DEF Picked, PicksTo
<1>4. PicksTo(F, list, at, n)
  BY <1>2, PickingIs, Zenon
<1>5a. \A i \in 0..n : F[i] = IF i = 0 THEN <<>>
                             ELSE IF i \in at THEN Append(F[i - 1], list[i]) ELSE F[i - 1]
  BY <1>4 DEF PicksTo
<1> DEFINE Good == {m \in 0..n : HasElements(F[m], list, UpTo(at, m), S)}
<1>5. 0 \in Good
  <2>1. F[0] = <<>>
    BY <1>5a
  <2>2. Elements(list, UpTo(at, 0)) = {}
    BY DEF Elements, UpTo
  <2>3. <<>> \in Seq(S) /\ Range(<<>>) = {}
    BY EmptySeq DEF Range
  <2>4. HasElements(F[0], list, UpTo(at, 0), S)
    BY <2>1, <2>2, <2>3 DEF HasElements
  <2> QED
    BY <2>4
<1>6. ASSUME NEW m \in (0 + 1)..n, m - 1 \in Good PROVE m \in Good
  <2>1. F[m] = IF m \in at THEN Append(F[m - 1], list[m]) ELSE F[m - 1]
    BY <1>5a
  <2>2. F[m - 1] \in Seq(S) /\ Range(F[m - 1]) = Elements(list, UpTo(at, m - 1))
    BY <1>6 DEF HasElements
  <2>3. list[m] \in S
    BY <1>1, ElementOfSeq
  <2>4. ASSUME m \in at PROVE HasElements(F[m], list, UpTo(at, m), S)
    <3>1. F[m] \in Seq(S) /\ Range(F[m]) = Range(F[m - 1]) \cup {list[m]}
      <4>1. F[m] = F[m - 1] \o <<list[m]>>
        BY <2>1, <2>2, <2>3, <2>4, AppendIsConcat
      <4>2. <<list[m]>> \in Seq(S) /\ Range(<<list[m]>>) = {list[m]}
        BY <2>3 DEF Range
      <4>3. PICK before \in Seq(S) : before = F[m - 1]
        BY <2>2
      <4>4. PICK this \in Seq(S) : this = <<list[m]>>
        BY <4>2
      <4>5. before \o this \in Seq(S) /\ Range(before \o this) = Range(before) \cup Range(this)
        BY RangeConcatenation, ConcatProperties
      <4> QED
        BY <4>1, <4>2, <4>3, <4>4, <4>5
    <3>2. UpTo(at, m) = UpTo(at, m - 1) \cup {m}
      BY <2>4 DEF UpTo
    <3>3. Elements(list, UpTo(at, m)) = Elements(list, UpTo(at, m - 1)) \cup {list[m]}
      BY <3>2 DEF Elements
    <3> QED
      BY <2>2, <3>1, <3>3 DEF HasElements
  <2>5. ASSUME m \notin at PROVE HasElements(F[m], list, UpTo(at, m), S)
    <3>1. UpTo(at, m) = UpTo(at, m - 1)
      BY <2>5 DEF UpTo
    <3> QED
      BY <2>1, <2>2, <2>5, <3>1 DEF HasElements
  <2> QED
    BY <2>4, <2>5
<1> HIDE DEF Good
<1>7. n \in Good
  <2>1. 0..n \subseteq Good
    BY <1>5, <1>6, RangeInduction
  <2> QED
    BY <2>1
<1>8. UpTo(at, n) = at
  BY <1>1 DEF UpTo
<1> QED
  BY <1>3, <1>7, <1>8 DEF Good, HasElements

\* Every list of a finite set has its elements.
LEMMA ListsOfSet ==
    ASSUME NEW S, IsFiniteSet(S), NEW list \in SetToSeqs(S)
    PROVE  list \in Seq(S) /\ Range(list) = S
<1>1. PICK n \in Nat : n = Cardinality(S)
  BY FS_CardinalityType
<1>2. list \in [1..n -> S] /\ \A i, j \in 1..n : i # j => list[i] # list[j]
  BY <1>1 DEF SetToSeqs
<1>3. list \in Seq(S)
  BY <1>2
<1>4. list \in Injection(1..n, S)
  BY <1>2 DEF Injection, IsInjective
<1>5. IsFiniteSet(1..n) /\ Cardinality(1..n) = n
  BY FS_Interval
<1>6. list \in Surjection(1..n, S)
  BY <1>1, <1>4, <1>5, FS_Injection
<1> QED
  BY <1>2, <1>3, <1>6 DEF Surjection, Range

\* a list with exactly these elements
ListOf(list, S) == list \in Seq(S) /\ Range(list) = S

\* Two lists after each other have the elements of both.
LEMMA ListsConcatenated ==
    ASSUME NEW A, NEW B, NEW list, ListOf(list, A), NEW rest, ListOf(rest, B)
    PROVE  ListOf(list \o rest, A \cup B)
<1>1. A \subseteq A \cup B /\ B \subseteq A \cup B
  OBVIOUS
<1>2. list \in Seq(A \cup B) /\ rest \in Seq(A \cup B)
  BY <1>1, SeqMonotonic DEF ListOf
<1>3. list \o rest \in Seq(A \cup B) /\ Range(list \o rest) = Range(list) \cup Range(rest)
  BY <1>2, ConcatProperties, RangeConcatenation
<1> QED
  BY <1>3 DEF ListOf

(* the recursion that joins lists of parts *)
JoinsTo(f, parts, n) ==
    f = [i \in 0..n |-> IF i = 0 THEN {<<>>}
                        ELSE Continued(f[i - 1], parts[i])]

\* Joining parts is a recursion that ends ...
LEMMA JoiningIs ==
    ASSUME NEW parts, NEW n \in Nat
    PROVE  \E f : JoinsTo(f, parts, n)
<1> DEFINE Good == {m \in 0..n : \E f : JoinsTo(f, parts, m)}
<1>1. 0 \in Good
  <2>1. PICK f : f = [i \in 0..0 |-> {<<>>}]
    OBVIOUS
  <2>2. JoinsTo(f, parts, 0)
    BY <2>1 DEF JoinsTo
  <2> QED
    BY <2>2
<1>2. ASSUME NEW m \in (0 + 1)..n, m - 1 \in Good PROVE m \in Good
  <2>1. PICK f : JoinsTo(f, parts, m - 1)
    BY <1>2
  <2>2. PICK g : g = [i \in 0..m |->
            IF i < m THEN f[i] ELSE Continued(f[m - 1], parts[m])]
    OBVIOUS
  <2>3. \A i \in 0..(m - 1) :
            f[i] = IF i = 0 THEN {<<>>} ELSE Continued(f[i - 1], parts[i])
    BY <2>1 DEF JoinsTo
  <2>4. \A i \in 0..m : i # 0 => i - 1 \in 0..m /\ i - 1 < m /\ (i < m => i \in 0..(m - 1))
    OBVIOUS
  <2>5. \A i \in 0..m : i # 0 => g[i - 1] = f[i - 1]
    BY <2>2, <2>4
  <2>6. ASSUME NEW i \in 0..m
        PROVE  g[i] = IF i = 0 THEN {<<>>} ELSE Continued(g[i - 1], parts[i])
    <3>1. CASE i = 0
      BY <2>2, <2>3, <3>1
    <3>2. CASE i # 0 /\ i < m
      BY <2>2, <2>3, <2>4, <2>5, <3>2
    <3>3. CASE i # 0 /\ i = m
      BY <2>2, <2>5, <3>3
    <3> QED
      BY <3>1, <3>2, <3>3
  <2>7. JoinsTo(g, parts, m)
    BY <2>2, <2>6 DEF JoinsTo
  <2> QED
    BY <2>7
<1> HIDE DEF Good
<1>3. n \in Good
  BY <1>1, <1>2, RangeInduction
<1> QED
  BY <1>3 DEF Good

AllOf(R, n) == UNION {R[i] : i \in 1..n}

\* ... with the elements of all parts.
LEMMA JoinedElements ==
    ASSUME NEW n \in Nat, NEW parts, Len(parts) = n, NEW R,
           \A i \in 1..n : \A p \in parts[i] : ListOf(p, R[i])
    PROVE  \A l \in Joined(parts) : ListOf(l, AllOf(R, n))
<1>1. PICK F : F = CHOOSE f : JoinsTo(f, parts, n)
  OBVIOUS
<1>2. Joined(parts) = F[n]
  BY <1>1 DEF Joined, JoinsTo
<1>3. JoinsTo(F, parts, n)
  BY <1>1, JoiningIs, Zenon
<1>4. \A i \in 0..n : F[i] = IF i = 0 THEN {<<>>}
                             ELSE Continued(F[i - 1], parts[i])
  BY <1>3 DEF JoinsTo
<1> DEFINE Good == {m \in 0..n : \A l \in F[m] : ListOf(l, AllOf(R, m))}
<1>5. 0 \in Good
  <2>1. F[0] = {<<>>} /\ AllOf(R, 0) = {}
    BY <1>4 DEF AllOf
  <2>2. ListOf(<<>>, {})
    BY EmptySeq DEF ListOf, Range
  <2>3. ListOf(<<>>, AllOf(R, 0))
    BY <2>2 DEF AllOf
  <2> QED
    BY <2>1, <2>3
<1>6. ASSUME NEW m \in (0 + 1)..n, m - 1 \in Good PROVE m \in Good
  <2>1. F[m] = Continued(F[m - 1], parts[m])
    BY <1>4
  <2>2. AllOf(R, m) = AllOf(R, m - 1) \cup R[m]
    BY DEF AllOf
  <2>3. ASSUME NEW l \in F[m] PROVE ListOf(l, AllOf(R, m))
    <3>1. PICK k \in F[m - 1], p \in parts[m] : l = k \o p
      BY <2>1, <2>3 DEF Continued
    <3>2. ListOf(k, AllOf(R, m - 1)) /\ ListOf(p, R[m])
      BY <1>6, <3>1
    <3>3. ListOf(k \o p, AllOf(R, m - 1) \cup R[m])
      BY <3>2, ListsConcatenated
    <3> QED
      BY <2>2, <3>1, <3>3
  <2> QED
    BY <2>3
<1> HIDE DEF Good
<1>7. n \in Good
  <2>1. 0..n \subseteq Good
    BY <1>5, <1>6, RangeInduction
  <2> QED
    BY <2>1
<1> QED
  BY <1>2, <1>7 DEF Good
-----------------------------------------------------------------------------
(* The list of changes: in any order, it is this set. *)

(* a schema with finitely many tables *)
Schema(s) ==
    /\ DOMAIN s \subseteq Table /\ IsFiniteSet(DOMAIN s)
    /\ \A t \in DOMAIN s : SchemaTable(s[t])

(* what diffFTS and pkTypeChanged say of two versions of a table *)
FTSChanges(t, a, b) ==
    {c \in {Whole("drop_fts", t), Whole("add_fts", t)} :
        /\ a.fts # b.fts
        /\ c.type = "drop_fts" => a.fts # {}
        /\ c.type = "add_fts" => b.fts # {}}
KeyChanges(t, a, b) == {c \in {Whole("change_pk_type", t)} : PkTypeChanged(a, b)}

(* the changes of a table that both schemas have, part by part *)
TableParts(t, a, b) == <<
    Each("drop_column", t, DOMAIN a.cols \ DOMAIN b.cols),
    Each("add_column", t, DOMAIN b.cols \ DOMAIN a.cols)
        \cup Each("modify_column", t, Modified(a, b)),
    Each("drop_index", t, DOMAIN a.indexes \ DOMAIN b.indexes),
    Each("add_index", t, DOMAIN b.indexes \ DOMAIN a.indexes),
    FTSChanges(t, a, b),
    KeyChanges(t, a, b) >>
TableChanges(t, a, b) == AllOf(TableParts(t, a, b), 6)

(* the changes from a to b *)
ChangesNew(a, b, t) ==
    IF t \in DOMAIN a THEN TableChanges(t, a[t], b[t]) ELSE {Whole("add_table", t)}
Dropped(a, b) == {Whole("drop_table", t) : t \in DOMAIN a \ DOMAIN b}
Changes(a, b) == Dropped(a, b) \cup UNION {ChangesNew(a, b, t) : t \in DOMAIN b}

\* There are finitely many column names ...
LEMMA ColumnsAreFinite ==
    IsFiniteSet(Column)
<1>1. PICK n \in Nat : n = Len(ColumnOrder) /\ DOMAIN ColumnOrder = 1..n
                       /\ ColumnOrder \in [1..n -> Column]
  BY PlanAssumption, LenProperties
<1>2. ColumnOrder \in Surjection(1..n, Column)
  BY <1>1 DEF Surjection, Column, Range
<1>3. IsFiniteSet(1..n)
  BY FS_Interval
<1> QED
  BY <1>2, <1>3, FS_Surjection

\* ... and finitely many changes of one kind.
LEMMA EachIsFinite ==
    ASSUME NEW type, NEW t, NEW items, IsFiniteSet(items)
    PROVE  IsFiniteSet(Each(type, t, items))
<1>1. PICK f : f = [i \in items |-> Change(type, t, i)]
  OBVIOUS
<1>2. f \in Surjection(items, Each(type, t, items))
  BY <1>1 DEF Surjection, Each
<1> QED
  BY <1>2, FS_Surjection

\* ... of dropped tables too.
LEMMA DroppedIsFinite ==
    ASSUME NEW a, NEW b, IsFiniteSet(DOMAIN a)
    PROVE  IsFiniteSet(Dropped(a, b))
<1>1. PICK S : S = DOMAIN a \ DOMAIN b
  OBVIOUS
<1>2. IsFiniteSet(S)
  BY <1>1, FS_Subset
<1>3. PICK f : f = [t \in S |-> Whole("drop_table", t)]
  OBVIOUS
<1>4. f \in Surjection(S, Dropped(a, b))
  BY <1>1, <1>3 DEF Surjection, Dropped
<1> QED
  BY <1>2, <1>4, FS_Surjection

\* Tuples are as long as they look.
LEMMA TupleLength ==
    /\ \A x : Len(<<x>>) = 1 /\ <<x>>[1] = x
    /\ \A x, S : x \in S => <<x>> \in Seq(S)
    /\ \A a, b, c, d, e, f : Len(<<a, b, c, d, e, f>>) = 6
  OBVIOUS

\* The differences of a table that stays, whatever the order of its maps.
LEMMA TableListed ==
    ASSUME NEW t, NEW a, NEW b, SchemaTable(a), SchemaTable(b)
    PROVE  \A list \in Joined(DiffTable(t, a, b)) : ListOf(list, TableChanges(t, a, b))
<1>1. /\ IsFiniteSet(DOMAIN a.cols \ DOMAIN b.cols) /\ IsFiniteSet(DOMAIN b.cols \ DOMAIN a.cols)
      /\ IsFiniteSet(Modified(a, b))
  <2>1. /\ DOMAIN a.cols \ DOMAIN b.cols \in SUBSET Column
        /\ DOMAIN b.cols \ DOMAIN a.cols \in SUBSET Column
        /\ Modified(a, b) \in SUBSET Column
    BY DEF SchemaTable, Modified
  <2> QED
    BY <2>1, ColumnsAreFinite, FS_Subset
<1>2. IsFiniteSet(DOMAIN a.indexes \ DOMAIN b.indexes) /\ IsFiniteSet(DOMAIN b.indexes \ DOMAIN a.indexes)
  <2>1. IsFiniteSet(DOMAIN a.indexes) /\ IsFiniteSet(DOMAIN b.indexes)
    BY DEF SchemaTable
  <2> QED
    BY <2>1, FS_Subset
<1>3. \A S : IsFiniteSet(S) => \A list \in SetToSeqs(S) : ListOf(list, S)
  BY ListsOfSet DEF ListOf
<1>4. ListOf(DiffFTS(t, a, b), FTSChanges(t, a, b))
  <2>0. Whole("add_fts", t).type = "add_fts" /\ Whole("drop_fts", t).type = "drop_fts"
    BY DEF Whole, Change
  <2>1. CASE a.fts = b.fts
    BY <2>1 DEF DiffFTS, FTSChanges, ListOf, Range
  <2>2. CASE a.fts # b.fts /\ a.fts # {} /\ b.fts # {}
    <3>1. ListOf(<<Whole("drop_fts", t)>>, {Whole("drop_fts", t)})
      BY DEF ListOf, Range
    <3>2. ListOf(<<Whole("add_fts", t)>>, {Whole("add_fts", t)})
      BY DEF ListOf, Range
    <3>3. ListOf(<<Whole("drop_fts", t)>> \o <<Whole("add_fts", t)>>,
                 {Whole("drop_fts", t)} \cup {Whole("add_fts", t)})
      BY <3>1, <3>2, ListsConcatenated
    <3>4. DiffFTS(t, a, b) = <<Whole("drop_fts", t)>> \o <<Whole("add_fts", t)>>
      BY <2>2 DEF DiffFTS
    <3>5. FTSChanges(t, a, b) = {Whole("drop_fts", t)} \cup {Whole("add_fts", t)}
      BY <2>2 DEF FTSChanges, Whole, Change
    <3> QED
      BY <3>3, <3>4, <3>5
  <2>3. CASE a.fts # b.fts /\ a.fts = {}
    <3>1. ListOf(<<Whole("add_fts", t)>>, {Whole("add_fts", t)})
      BY DEF ListOf, Range
    <3>2. DiffFTS(t, a, b) = <<>> \o <<Whole("add_fts", t)>>
      BY <2>3 DEF DiffFTS
    <3>5. b.fts # {}
      BY <2>3, Zenon
    <3>3. FTSChanges(t, a, b) = {Whole("add_fts", t)}
      BY <2>3, <3>5, <2>0 DEF FTSChanges
    <3>4. DiffFTS(t, a, b) = <<Whole("add_fts", t)>>
      BY <3>2
    <3> QED
      BY <3>1, <3>3, <3>4
  <2>4. CASE a.fts # b.fts /\ b.fts = {}
    <3>1. ListOf(<<Whole("drop_fts", t)>>, {Whole("drop_fts", t)})
      BY DEF ListOf, Range
    <3>2. DiffFTS(t, a, b) = <<Whole("drop_fts", t)>> \o <<>>
      BY <2>4 DEF DiffFTS
    <3>5. a.fts # {}
      BY <2>4, Zenon
    <3>3. FTSChanges(t, a, b) = {Whole("drop_fts", t)}
      BY <2>4, <3>5, <2>0 DEF FTSChanges
    <3>4. DiffFTS(t, a, b) = <<Whole("drop_fts", t)>>
      BY <3>2
    <3> QED
      BY <3>1, <3>3, <3>4
  <2> QED
    BY <2>1, <2>2, <2>3, <2>4
<1>5. ListOf(IF PkTypeChanged(a, b) THEN <<Whole("change_pk_type", t)>> ELSE <<>>,
             KeyChanges(t, a, b))
  <2>1. CASE PkTypeChanged(a, b)
    <3>1. ListOf(<<Whole("change_pk_type", t)>>, {Whole("change_pk_type", t)})
      BY DEF ListOf, Range
    <3>2. KeyChanges(t, a, b) = {Whole("change_pk_type", t)}
      BY <2>1 DEF KeyChanges
    <3> QED
      BY <2>1, <3>1, <3>2
  <2>2. CASE ~PkTypeChanged(a, b)
    <3>1. ListOf(<<>>, {})
      BY EmptySeq DEF ListOf, Range
    <3>2. KeyChanges(t, a, b) = {}
      BY <2>2 DEF KeyChanges
    <3> QED
      BY <2>2, <3>1, <3>2
  <2> QED
    BY <2>1, <2>2
<1>6. PICK parts : parts = DiffTable(t, a, b) /\ Len(parts) = 6
  <2>1. \E p1, p2, p3, p4, p5, p6 : DiffTable(t, a, b) = <<p1, p2, p3, p4, p5, p6>>
    BY Zenon DEF DiffTable
  <2>2. Len(DiffTable(t, a, b)) = 6
    BY <2>1, TupleLength
  <2> QED
    BY <2>2
<1>7. PICK R : R = TableParts(t, a, b)
  OBVIOUS
<1>8. \A i \in 1..6 : \A p \in parts[i] : ListOf(p, R[i])
  <2>1. ASSUME NEW p \in parts[1] PROVE ListOf(p, R[1])
    BY <1>1, <1>3, <1>6, <1>7, <2>1, EachIsFinite DEF DiffTable, TableParts
  <2>2. ASSUME NEW p \in parts[2] PROVE ListOf(p, R[2])
    <3>1. PICK S : S = R[2]
      OBVIOUS
    <3>2. IsFiniteSet(S) /\ p \in SetToSeqs(S)
      BY <1>1, <1>6, <1>7, <2>2, <3>1, EachIsFinite, FS_Union DEF DiffTable, TableParts
    <3> QED
      BY <1>3, <3>1, <3>2
  <2>3. ASSUME NEW p \in parts[3] PROVE ListOf(p, R[3])
    BY <1>2, <1>3, <1>6, <1>7, <2>3, EachIsFinite DEF DiffTable, TableParts
  <2>4. ASSUME NEW p \in parts[4] PROVE ListOf(p, R[4])
    BY <1>2, <1>3, <1>6, <1>7, <2>4, EachIsFinite DEF DiffTable, TableParts
  <2>5. ASSUME NEW p \in parts[5] PROVE ListOf(p, R[5])
    BY <1>4, <1>6, <1>7, <2>5 DEF DiffTable, TableParts
  <2>6. ASSUME NEW p \in parts[6] PROVE ListOf(p, R[6])
    BY <1>5, <1>6, <1>7, <2>6 DEF DiffTable, TableParts
  <2>7. \A i \in 1..6 : i = 1 \/ i = 2 \/ i = 3 \/ i = 4 \/ i = 5 \/ i = 6
    OBVIOUS
  <2> QED
    BY <2>1, <2>2, <2>3, <2>4, <2>5, <2>6, <2>7
<1>9. \A list \in Joined(parts) : ListOf(list, AllOf(R, 6))
  BY <1>6, <1>8, JoinedElements
<1> QED
  BY <1>6, <1>7, <1>9 DEF TableChanges

\* The differences of two schemas, whatever the order of their maps.
LEMMA SchemasListed ==
    ASSUME NEW a, NEW b, Schema(a), Schema(b)
    PROVE  \A list \in DiffSchemas(a, b) : ListOf(list, Changes(a, b))
<1> SUFFICES ASSUME NEW list \in DiffSchemas(a, b) PROVE ListOf(list, Changes(a, b))
  OBVIOUS
<1>1. PICK order \in SetToSeqs(DOMAIN b) :
        list \in Joined(<<SetToSeqs(Dropped(a, b))>>
                        \o [i \in DOMAIN order |-> Joined(DiffNew(a, b, order[i]))])
  BY DEF DiffSchemas, Dropped
<1>2. order \in Seq(DOMAIN b) /\ Range(order) = DOMAIN b
  BY ListsOfSet DEF Schema
<1>3. PICK n \in Nat : n = Len(order) /\ DOMAIN order = 1..n /\ order \in [1..n -> DOMAIN b]
  BY <1>2, LenProperties
<1>4. PICK rest : rest = [i \in 1..n |-> Joined(DiffNew(a, b, order[i]))]
  OBVIOUS
<1>5. PICK Lists : Lists = {rest[i] : i \in 1..n} \cup {SetToSeqs(Dropped(a, b))}
  OBVIOUS
<1>6. rest \in Seq(Lists) /\ Len(rest) = n
  <2>1. rest \in [1..n -> Lists]
    BY <1>4, <1>5
  <2> QED
    BY <2>1
<1>7. PICK front \in Seq(Lists) : front = <<SetToSeqs(Dropped(a, b))>> /\ Len(front) = 1
                                  /\ front[1] = SetToSeqs(Dropped(a, b))
  <2>1. SetToSeqs(Dropped(a, b)) \in Lists
    BY <1>5
  <2> QED
    BY <2>1, TupleLength, Zenon
<1>8. PICK parts : parts = front \o rest
  OBVIOUS
<1>9. /\ Len(parts) = n + 1 /\ parts[1] = SetToSeqs(Dropped(a, b))
      /\ \A i \in 2..(n + 1) : parts[i] = Joined(DiffNew(a, b, order[i - 1]))
  <2>1. /\ Len(front \o rest) = Len(front) + Len(rest)
        /\ \A i \in 1..(Len(front) + Len(rest)) :
               (front \o rest)[i] = IF i <= Len(front) THEN front[i] ELSE rest[i - Len(front)]
    BY <1>6, <1>7, ConcatProperties
  <2>2. \A i \in 1..(n + 1) : parts[i] = IF i <= 1 THEN front[i] ELSE rest[i - 1]
    BY <1>6, <1>7, <1>8, <2>1
  <2> QED
    BY <1>4, <1>6, <1>7, <1>8, <2>1, <2>2
<1>10. PICK R : R = [i \in 1..(n + 1) |->
                        IF i = 1 THEN Dropped(a, b) ELSE ChangesNew(a, b, order[i - 1])]
  OBVIOUS
<1>11. ASSUME NEW t \in DOMAIN b, NEW p \in Joined(DiffNew(a, b, t))
       PROVE  ListOf(p, ChangesNew(a, b, t))
  <2>1. CASE t \in DOMAIN a
    BY <1>11, <2>1, TableListed DEF DiffNew, ChangesNew, Schema
  <2>2. CASE t \notin DOMAIN a
    <3>1. PICK one : one = <<{<<Whole("add_table", t)>>}>> /\ Len(one) = 1
                     /\ one[1] = {<<Whole("add_table", t)>>}
      BY TupleLength, Zenon
    <3>2. ListOf(<<Whole("add_table", t)>>, {Whole("add_table", t)})
      BY DEF ListOf, Range
    <3>3. PICK S : S = <<{Whole("add_table", t)}>> /\ S[1] = {Whole("add_table", t)}
      BY TupleLength, Zenon
    <3>4. \A i \in 1..1 : \A q \in one[i] : ListOf(q, S[i])
      <4>1. \A q \in one[1] : ListOf(q, S[1])
        BY <3>1, <3>2, <3>3, Zenon
      <4> QED
        BY <4>1
    <3>5. p \in Joined(one)
      BY <1>11, <2>2, <3>1 DEF DiffNew
    <3>6. ListOf(p, AllOf(S, 1))
      BY <3>1, <3>4, <3>5, JoinedElements
    <3>7. AllOf(S, 1) = ChangesNew(a, b, t)
      BY <2>2, <3>3 DEF AllOf, ChangesNew
    <3> QED
      BY <3>6, <3>7
  <2> QED
    BY <2>1, <2>2
<1>12. \A i \in 1..(n + 1) : \A p \in parts[i] : ListOf(p, R[i])
  <2>1. ASSUME NEW p \in parts[1] PROVE ListOf(p, R[1])
    <3>1. IsFiniteSet(Dropped(a, b))
      BY DroppedIsFinite DEF Schema
    <3>2. R[1] = Dropped(a, b)
      BY <1>10
    <3> QED
      BY <1>9, <2>1, <3>1, <3>2, ListsOfSet DEF ListOf
  <2>2. ASSUME NEW i \in 2..(n + 1), NEW p \in parts[i] PROVE ListOf(p, R[i])
    <3>1. i - 1 \in 1..n /\ i \in 1..(n + 1) /\ i # 1
      OBVIOUS
    <3>2. order[i - 1] \in DOMAIN b /\ R[i] = ChangesNew(a, b, order[i - 1])
      BY <1>3, <1>10, <3>1
    <3> QED
      BY <1>9, <1>11, <2>2, <3>2
  <2>3. \A i \in 1..(n + 1) : i = 1 \/ i \in 2..(n + 1)
    OBVIOUS
  <2> QED
    BY <2>1, <2>2, <2>3
<1>13. list \in Joined(parts)
  BY <1>1, <1>3, <1>4, <1>7, <1>8
<1>14. ListOf(list, AllOf(R, n + 1))
  BY <1>9, <1>12, <1>13, JoinedElements
<1>15. AllOf(R, n + 1) = Changes(a, b)
  <2>1. \A t \in DOMAIN b : \E i \in 2..(n + 1) : order[i - 1] = t
    <3>1. \A t \in DOMAIN b : \E j \in 1..n : order[j] = t
      BY <1>2, <1>3 DEF Range
    <3>2. \A j \in 1..n : j + 1 \in 2..(n + 1) /\ (j + 1) - 1 = j
      OBVIOUS
    <3> QED
      BY <3>1, <3>2
  <2>2. \A i \in 2..(n + 1) : i \in 1..(n + 1) /\ i # 1 /\ i - 1 \in 1..n
    OBVIOUS
  <2>3. \A i \in 2..(n + 1) : order[i - 1] \in DOMAIN b /\ R[i] = ChangesNew(a, b, order[i - 1])
    BY <1>3, <1>10, <2>2
  <2>4. R[1] = Dropped(a, b) /\ 1 \in 1..(n + 1)
    BY <1>10
  <2>5. AllOf(R, n + 1) = R[1] \cup UNION {R[i] : i \in 2..(n + 1)}
    BY <2>2, <2>4 DEF AllOf
  <2>6. UNION {R[i] : i \in 2..(n + 1)} = UNION {ChangesNew(a, b, t) : t \in DOMAIN b}
    <3>1. ASSUME NEW c, NEW i \in 2..(n + 1), c \in R[i]
          PROVE  \E t \in DOMAIN b : c \in ChangesNew(a, b, t)
      BY <2>3, <3>1
    <3>2. ASSUME NEW c, NEW t \in DOMAIN b, c \in ChangesNew(a, b, t)
          PROVE  \E i \in 2..(n + 1) : c \in R[i]
      BY <2>1, <2>3, <3>2
    <3> QED
      BY <3>1, <3>2
  <2> QED
    BY <2>4, <2>5, <2>6 DEF Changes
<1> QED
  BY <1>14, <1>15

(* types.go names these *)
ChangeTypes == {"drop_table", "add_table", "drop_column", "add_column", "modify_column",
                "drop_index", "add_index", "drop_fts", "add_fts", "change_pk_type"}

\* what a change says of the schemas a and b
Says(c, a, b) ==
    LET was == a[c.table]
        is == b[c.table]
    IN
    /\ c.type \in ChangeTypes /\ c = Change(c.type, c.table, c.item)
    /\ c.type = "drop_table" => c.table \in DOMAIN a \ DOMAIN b
    /\ c.type = "add_table" => c.table \in DOMAIN b \ DOMAIN a
    /\ c.type \notin {"drop_table", "add_table"} => c.table \in DOMAIN a \cap DOMAIN b
    /\ c.type = "drop_column" => c.item \in DOMAIN was.cols \ DOMAIN is.cols
    /\ c.type = "add_column" => c.item \in DOMAIN is.cols \ DOMAIN was.cols
    /\ c.type = "modify_column" => c.item \in Modified(was, is)
    /\ c.type = "drop_index" => c.item \in DOMAIN was.indexes \ DOMAIN is.indexes
    /\ c.type = "add_index" => c.item \in DOMAIN is.indexes \ DOMAIN was.indexes
    /\ c.type = "drop_fts" => was.fts # is.fts /\ was.fts # {}
    /\ c.type = "add_fts" => was.fts # is.fts /\ is.fts # {}
    /\ c.type = "change_pk_type" => PkTypeChanged(was, is)

\* The parts of a table's changes.
LEMMA TableChangesAre ==
    ASSUME NEW t, NEW a, NEW b
    PROVE  TableChanges(t, a, b) =
               Each("drop_column", t, DOMAIN a.cols \ DOMAIN b.cols)
               \cup (Each("add_column", t, DOMAIN b.cols \ DOMAIN a.cols)
                     \cup Each("modify_column", t, Modified(a, b)))
               \cup Each("drop_index", t, DOMAIN a.indexes \ DOMAIN b.indexes)
               \cup Each("add_index", t, DOMAIN b.indexes \ DOMAIN a.indexes)
               \cup FTSChanges(t, a, b) \cup KeyChanges(t, a, b)
<1>2. PICK p1, p2, p3, p4, p5, p6 :
        /\ p1 = Each("drop_column", t, DOMAIN a.cols \ DOMAIN b.cols)
        /\ p2 = Each("add_column", t, DOMAIN b.cols \ DOMAIN a.cols)
                \cup Each("modify_column", t, Modified(a, b))
        /\ p3 = Each("drop_index", t, DOMAIN a.indexes \ DOMAIN b.indexes)
        /\ p4 = Each("add_index", t, DOMAIN b.indexes \ DOMAIN a.indexes)
        /\ p5 = FTSChanges(t, a, b)
        /\ p6 = KeyChanges(t, a, b)
  BY Zenon
<1>3. TableParts(t, a, b) = <<p1, p2, p3, p4, p5, p6>>
  BY <1>2, Zenon DEF TableParts
<1>4. PICK R : R = <<p1, p2, p3, p4, p5, p6>>
  OBVIOUS
<1>5. R[1] = p1 /\ R[2] = p2 /\ R[3] = p3 /\ R[4] = p4 /\ R[5] = p5 /\ R[6] = p6
  BY <1>4
<1>6. 1..6 = {1, 2, 3, 4, 5, 6}
  OBVIOUS
<1>7. AllOf(R, 6) = R[1] \cup R[2] \cup R[3] \cup R[4] \cup R[5] \cup R[6]
  BY <1>6, Zenon DEF AllOf
<1>8. TableChanges(t, a, b) = p1 \cup p2 \cup p3 \cup p4 \cup p5 \cup p6
  BY <1>3, <1>4, <1>5, <1>7, Zenon DEF TableChanges
<1> QED
  BY <1>2, <1>8, Zenon

\* A change of a whole table is a change.
LEMMA WholeIs ==
    \A type, t : /\ Whole(type, t).type = type /\ Whole(type, t).table = t
                 /\ Whole(type, t) = Change(type, t, Whole(type, t).item)
  BY DEF Whole, Change

\* Every change says what it means ...
LEMMA ChangesSay ==
    ASSUME NEW a, NEW b, NEW c \in Changes(a, b)
    PROVE  Says(c, a, b)
<1>1. CASE c \in Dropped(a, b)
  <2>1. PICK t \in DOMAIN a \ DOMAIN b : c = Whole("drop_table", t)
    BY <1>1 DEF Dropped
  <2> QED
    BY <2>1, WholeIs DEF Says, ChangeTypes
<1>2. ASSUME NEW t \in DOMAIN b, c \in ChangesNew(a, b, t), t \notin DOMAIN a
      PROVE  Says(c, a, b)
  <2>1. c = Whole("add_table", t)
    BY <1>2 DEF ChangesNew
  <2> QED
    BY <1>2, <2>1, WholeIs DEF Says, ChangeTypes
<1>3. ASSUME NEW t \in DOMAIN b, c \in ChangesNew(a, b, t), t \in DOMAIN a
      PROVE  Says(c, a, b)
  <2>1. \/ c \in Each("drop_column", t, DOMAIN a[t].cols \ DOMAIN b[t].cols)
        \/ c \in Each("add_column", t, DOMAIN b[t].cols \ DOMAIN a[t].cols)
        \/ c \in Each("modify_column", t, Modified(a[t], b[t]))
        \/ c \in Each("drop_index", t, DOMAIN a[t].indexes \ DOMAIN b[t].indexes)
        \/ c \in Each("add_index", t, DOMAIN b[t].indexes \ DOMAIN a[t].indexes)
        \/ c \in FTSChanges(t, a[t], b[t])
        \/ c \in KeyChanges(t, a[t], b[t])
    BY <1>3, TableChangesAre DEF ChangesNew
  <2>2. ASSUME NEW type, NEW items, c \in Each(type, t, items)
        PROVE  c.type = type /\ c.table = t /\ c.item \in items
               /\ c = Change(c.type, c.table, c.item)
    BY <2>2 DEF Each, Change
  <2>3. CASE c \in FTSChanges(t, a[t], b[t])
    <3>1. c.table = t /\ c = Change(c.type, c.table, c.item)
          /\ c.type \in {"drop_fts", "add_fts"}
      BY <2>3, WholeIs DEF FTSChanges
    <3>2. /\ a[t].fts # b[t].fts
          /\ c.type = "drop_fts" => a[t].fts # {}
          /\ c.type = "add_fts" => b[t].fts # {}
      BY <2>3 DEF FTSChanges
    <3> QED
      BY <1>3, <3>1, <3>2 DEF Says, ChangeTypes
  <2>4. CASE c \in KeyChanges(t, a[t], b[t])
    <3>1. c.table = t /\ c = Change(c.type, c.table, c.item)
          /\ c.type = "change_pk_type" /\ PkTypeChanged(a[t], b[t])
      BY <2>4, WholeIs DEF KeyChanges
    <3> QED
      BY <1>3, <3>1 DEF Says, ChangeTypes
  <2>5. CASE c \in Each("drop_column", t, DOMAIN a[t].cols \ DOMAIN b[t].cols)
    BY <1>3, <2>2, <2>5 DEF Says, ChangeTypes
  <2>6. CASE c \in Each("add_column", t, DOMAIN b[t].cols \ DOMAIN a[t].cols)
    BY <1>3, <2>2, <2>6 DEF Says, ChangeTypes
  <2>7. CASE c \in Each("modify_column", t, Modified(a[t], b[t]))
    BY <1>3, <2>2, <2>7 DEF Says, ChangeTypes
  <2>8. CASE c \in Each("drop_index", t, DOMAIN a[t].indexes \ DOMAIN b[t].indexes)
    BY <1>3, <2>2, <2>8 DEF Says, ChangeTypes
  <2>9. CASE c \in Each("add_index", t, DOMAIN b[t].indexes \ DOMAIN a[t].indexes)
    BY <1>3, <2>2, <2>9 DEF Says, ChangeTypes
  <2> QED
    BY <2>1, <2>3, <2>4, <2>5, <2>6, <2>7, <2>8, <2>9
<1> QED
  BY <1>1, <1>2, <1>3 DEF Changes

\* the changes between the tables a and b called t
Differ(t, a, b, S) ==
    /\ \A c \in DOMAIN a.cols \ DOMAIN b.cols : Change("drop_column", t, c) \in S
    /\ \A c \in DOMAIN b.cols \ DOMAIN a.cols : Change("add_column", t, c) \in S
    /\ \A c \in Modified(a, b) : Change("modify_column", t, c) \in S
    /\ \A x \in DOMAIN b.indexes \ DOMAIN a.indexes : Change("add_index", t, x) \in S
    /\ a.fts # b.fts /\ a.fts # {} => Whole("drop_fts", t) \in S
    /\ a.fts # b.fts /\ b.fts # {} => Whole("add_fts", t) \in S
    /\ PkTypeChanged(a, b) => Whole("change_pk_type", t) \in S

\* ... and there is a change for every difference.
LEMMA ChangesComplete ==
    ASSUME NEW a, NEW b
    PROVE  /\ \A t \in DOMAIN a \ DOMAIN b : Whole("drop_table", t) \in Changes(a, b)
           /\ \A t \in DOMAIN b \ DOMAIN a : Whole("add_table", t) \in Changes(a, b)
           /\ \A t \in DOMAIN a \cap DOMAIN b : Differ(t, a[t], b[t], Changes(a, b))
<1>1. ASSUME NEW t \in DOMAIN a \ DOMAIN b PROVE Whole("drop_table", t) \in Changes(a, b)
  BY DEF Changes, Dropped
<1>2. ASSUME NEW t \in DOMAIN b \ DOMAIN a PROVE Whole("add_table", t) \in Changes(a, b)
  BY DEF Changes, ChangesNew
<1>3. ASSUME NEW t \in DOMAIN a \cap DOMAIN b PROVE Differ(t, a[t], b[t], Changes(a, b))
  <2>1. TableChanges(t, a[t], b[t]) \subseteq Changes(a, b)
    BY DEF Changes, ChangesNew
  <2>2. PICK S : S = Changes(a, b)
    OBVIOUS
  <2>3. /\ Each("drop_column", t, DOMAIN a[t].cols \ DOMAIN b[t].cols) \subseteq S
        /\ Each("add_column", t, DOMAIN b[t].cols \ DOMAIN a[t].cols) \subseteq S
        /\ Each("modify_column", t, Modified(a[t], b[t])) \subseteq S
        /\ Each("add_index", t, DOMAIN b[t].indexes \ DOMAIN a[t].indexes) \subseteq S
        /\ FTSChanges(t, a[t], b[t]) \subseteq S
        /\ KeyChanges(t, a[t], b[t]) \subseteq S
    BY <2>1, <2>2, TableChangesAre
  <2>4. ASSUME NEW type, NEW items, Each(type, t, items) \subseteq S, NEW i \in items
        PROVE  Change(type, t, i) \in S
    BY <2>4 DEF Each
  <2>5. Whole("drop_fts", t).type = "drop_fts" /\ Whole("add_fts", t).type = "add_fts"
    BY DEF Whole, Change
  <2>6. /\ a[t].fts # b[t].fts /\ a[t].fts # {} => Whole("drop_fts", t) \in S
        /\ a[t].fts # b[t].fts /\ b[t].fts # {} => Whole("add_fts", t) \in S
    BY <2>3, <2>5 DEF FTSChanges
  <2>7. PkTypeChanged(a[t], b[t]) => Whole("change_pk_type", t) \in S
    BY <2>3 DEF KeyChanges
  <2>8. Differ(t, a[t], b[t], S)
    BY <2>3, <2>4, <2>6, <2>7 DEF Differ
  <2> QED
    BY <2>2, <2>8
<1> QED
  BY <1>1, <1>2, <1>3
-----------------------------------------------------------------------------
(* The plan: in any order, it is made of these steps. *)

(* the renames of a drop to an add of S, and all steps a plan may have *)
Renames(S) == {Rename(p[1], p[2]) : p \in {q \in S \X S : RenamePair(q[1], q[2])}}
Steps(S) == Renames(S) \cup S
OfKind(S, type) == {c \in S : c.type = type}

\* The changes of one kind, out of a list.
LEMMA OfTypeListed ==
    ASSUME NEW S, NEW list, ListOf(list, S), NEW type
    PROVE  ListOf(OfType(list, type), OfKind(S, type))
<1>1. PICK at : at = {i \in DOMAIN list : list[i].type = type}
  OBVIOUS
<1>2. OfType(list, type) = Picked(list, at)
  BY <1>1 DEF OfType
<1>3. list \in Seq(S) /\ at \subseteq DOMAIN list
  BY <1>1 DEF ListOf
<1>4. Picked(list, at) \in Seq(S) /\ Range(Picked(list, at)) = Elements(list, at)
  BY <1>3, PickedElements
<1>5. Elements(list, at) = OfKind(S, type)
  BY <1>1 DEF Elements, OfKind, ListOf, Range
<1> QED
  BY <1>2, <1>4, <1>5, SeqOfRange DEF ListOf

\* The renames a list of confirmed pairs comes to.
LEMMA MergesListed ==
    ASSUME NEW S, NEW list, ListOf(list, S), NEW P, NEW ps \in Seq(P)
    PROVE  /\ ApplyMerges(list, ps) \in Seq(Renames(S))
           /\ \A i \in DOMAIN ps : ps[i] \in RenamePairs(list) =>
                  Rename(list[ps[i][1]], list[ps[i][2]]) \in Range(ApplyMerges(list, ps))
           /\ ps = <<>> => Range(ApplyMerges(list, ps)) = {}
<1>1. PICK at : at = {i \in DOMAIN ps : ps[i] \in RenamePairs(list)}
  OBVIOUS
<1>2. PICK named : named = Picked(ps, at)
  OBVIOUS
<1>3. named \in Seq(P) /\ Range(named) = Elements(ps, at)
  BY <1>1, <1>2, PickedElements
<1>4. ApplyMerges(list, ps) =
          [i \in DOMAIN named |-> Rename(list[named[i][1]], list[named[i][2]])]
  BY <1>1, <1>2 DEF ApplyMerges
<1>5. PICK n \in Nat : n = Len(named) /\ DOMAIN named = 1..n
  BY <1>3, LenProperties
<1>6. \A i \in 1..n : named[i] \in RenamePairs(list)
  BY <1>1, <1>3, <1>5 DEF Elements, Range
<1>7. \A p \in RenamePairs(list) : Rename(list[p[1]], list[p[2]]) \in Renames(S)
  <2>1. \A i \in DOMAIN list : list[i] \in S
    BY DEF ListOf, Range
  <2> SUFFICES ASSUME NEW p \in RenamePairs(list)
               PROVE  Rename(list[p[1]], list[p[2]]) \in Renames(S)
    OBVIOUS
  <2>2. p[1] \in DOMAIN list /\ p[2] \in DOMAIN list /\ RenamePair(list[p[1]], list[p[2]])
    BY DEF RenamePairs
  <2>3. PICK d \in S, e \in S : d = list[p[1]] /\ e = list[p[2]]
    BY <2>1, <2>2
  <2>4. PICK q \in S \X S : q[1] = d /\ q[2] = e
    <3>1. <<d, e>> \in S \X S /\ <<d, e>>[1] = d /\ <<d, e>>[2] = e
      OBVIOUS
    <3> QED
      BY <3>1, Zenon
  <2> QED
    BY <2>2, <2>3, <2>4 DEF Renames
<1>8. ApplyMerges(list, ps) \in Seq(Renames(S))
  BY <1>4, <1>5, <1>6, <1>7
<1>9. ASSUME NEW i \in DOMAIN ps, ps[i] \in RenamePairs(list)
      PROVE  Rename(list[ps[i][1]], list[ps[i][2]]) \in Range(ApplyMerges(list, ps))
  <2>1. PICK j \in DOMAIN named : named[j] = ps[i]
    BY <1>1, <1>3, <1>9 DEF Elements, Range
  <2> QED
    BY <1>4, <2>1 DEF Range
<1>10. ASSUME ps = <<>> PROVE Range(ApplyMerges(list, ps)) = {}
  <2>1. \A i : i \notin at
    BY <1>1, <1>10
  <2>2. \A i : i \notin DOMAIN named
    BY <1>3, <2>1 DEF Elements, Range
  <2> QED
    BY <1>4, <2>2 DEF Range
<1> QED
  BY <1>8, <1>9, <1>10

\* A plan has the confirmed renames and changes that the list has, and without
\* renames it has all of them.
LEMMA PlanListed ==
    ASSUME NEW S, NEW list, ListOf(list, S), \A c \in S : c.type \in ChangeTypes,
           NEW P, NEW ps \in Seq(P)
    PROVE  /\ GenerateMigrationPlan(list, ps) \in Seq(Steps(S))
           /\ ps = <<>> => Range(GenerateMigrationPlan(list, ps)) = S
           /\ \A i \in DOMAIN ps : ps[i] \in RenamePairs(list) =>
                  Rename(list[ps[i][1]], list[ps[i][2]])
                      \in Range(GenerateMigrationPlan(list, ps))
<1>1. PICK left : left = Unmerged(list, ps)
  OBVIOUS
<1>2. PICK merged : merged = UNION {{ps[i][1], ps[i][2]} : i \in DOMAIN ps}
  OBVIOUS
<1>3. left = [i \in DOMAIN list |-> IF i \in merged THEN Whole("merged", "") ELSE list[i]]
  BY <1>1, <1>2 DEF Unmerged
<1>4. PICK n \in Nat : n = Len(list) /\ DOMAIN list = 1..n
  BY LenProperties DEF ListOf
<1>5. \A i \in 1..n : list[i] \in S
  BY <1>4 DEF ListOf, Range
<1>6. PICK L : L = Range(left)
  OBVIOUS
<1>7. ListOf(left, L)
  <2>1. left \in [1..n -> L]
    BY <1>3, <1>4, <1>6 DEF Range
  <2>2. left \in Seq(L)
    BY <2>1
  <2> QED
    BY <1>6, <2>2 DEF ListOf
<1>8. L \subseteq S \cup {Whole("merged", "")}
  BY <1>3, <1>4, <1>5, <1>6 DEF Range
<1>9. ASSUME ps = <<>> PROVE L = S
  <2>1. \A i : i \notin merged
    BY <1>2, <1>9
  <2>2. left = list
    <3>1. \A i \in 1..n : left[i] = list[i]
      BY <1>3, <1>4, <2>1
    <3>2. Len(left) = n
      <4>1. Len(left) \in Nat /\ DOMAIN left = 1..Len(left)
        BY <1>7, LenProperties DEF ListOf
      <4>2. DOMAIN left = 1..n
        BY <1>3, <1>4
      <4>3. PICK m \in Nat : m = Len(left) /\ 1..m = 1..n
        BY <4>1, <4>2
      <4>4. \A i \in Nat : i \in 1..m <=> i \in 1..n
        BY <4>3
      <4>5. (m # 0 => m <= n) /\ (n # 0 => n <= m)
        BY <4>4
      <4> QED
        BY <4>3, <4>5
    <3>3. left \in Seq(L \cup S) /\ list \in Seq(L \cup S)
      BY <1>7, SeqMonotonic DEF ListOf
    <3> QED
      BY <1>4, <3>1, <3>2, <3>3, SeqEqual
  <2> QED
    BY <1>6, <2>2 DEF ListOf
<1>10. PICK renames : renames = ApplyMerges(list, ps)
  OBVIOUS
<1>11. ListOf(renames, Range(renames)) /\ Range(renames) \subseteq Renames(S)
  BY <1>10, MergesListed, SeqOfRange, RangeOfSeq DEF ListOf
<1>12. PICK K0, K1, K2, K3, K4, K5, K6, K7, K8, K9, K10 :
         /\ K0 = Range(renames)
         /\ K1 = OfKind(L, "add_table") /\ K2 = OfKind(L, "add_column")
         /\ K3 = OfKind(L, "modify_column") /\ K4 = OfKind(L, "change_pk_type")
         /\ K5 = OfKind(L, "add_index") /\ K6 = OfKind(L, "add_fts")
         /\ K7 = OfKind(L, "drop_fts") /\ K8 = OfKind(L, "drop_index")
         /\ K9 = OfKind(L, "drop_column") /\ K10 = OfKind(L, "drop_table")
  BY Zenon
<1>13. PICK l1, l2, l3, l4, l5, l6, l7, l8, l9, l10 :
         /\ l1 = OfType(left, "add_table") /\ l2 = OfType(left, "add_column")
         /\ l3 = OfType(left, "modify_column") /\ l4 = OfType(left, "change_pk_type")
         /\ l5 = OfType(left, "add_index") /\ l6 = OfType(left, "add_fts")
         /\ l7 = OfType(left, "drop_fts") /\ l8 = OfType(left, "drop_index")
         /\ l9 = OfType(left, "drop_column") /\ l10 = OfType(left, "drop_table")
  BY Zenon
<1>14. /\ ListOf(l1, K1) /\ ListOf(l2, K2) /\ ListOf(l3, K3) /\ ListOf(l4, K4)
       /\ ListOf(l5, K5) /\ ListOf(l6, K6) /\ ListOf(l7, K7) /\ ListOf(l8, K8)
       /\ ListOf(l9, K9) /\ ListOf(l10, K10)
  BY <1>7, <1>12, <1>13, OfTypeListed
<1>15. PICK all : all = GenerateMigrationPlan(list, ps)
  OBVIOUS
<1>16. all = renames \o l1 \o l2 \o l3 \o l4 \o l5 \o l6 \o l7 \o l8 \o l9 \o l10
  BY <1>1, <1>10, <1>13, <1>15, Zenon DEF GenerateMigrationPlan
<1>17. ListOf(all, K0 \cup K1 \cup K2 \cup K3 \cup K4 \cup K5 \cup K6 \cup K7 \cup K8
                   \cup K9 \cup K10)
  <2>1. ListOf(renames \o l1 \o l2 \o l3, K0 \cup K1 \cup K2 \cup K3)
    BY <1>11, <1>12, <1>14, ListsConcatenated, Zenon
  <2>2. ListOf(renames \o l1 \o l2 \o l3 \o l4 \o l5 \o l6,
               K0 \cup K1 \cup K2 \cup K3 \cup K4 \cup K5 \cup K6)
    BY <1>14, <2>1, ListsConcatenated, Zenon
  <2>3. ListOf(renames \o l1 \o l2 \o l3 \o l4 \o l5 \o l6 \o l7 \o l8 \o l9 \o l10,
               K0 \cup K1 \cup K2 \cup K3 \cup K4 \cup K5 \cup K6 \cup K7 \cup K8
               \cup K9 \cup K10)
    BY <1>14, <2>2, ListsConcatenated, Zenon
  <2> QED
    BY <1>16, <2>3
<1>18. \A type \in ChangeTypes : OfKind(L, type) \subseteq S
  <2>1. Whole("merged", "").type = "merged"
    BY WholeIs
  <2> QED
    BY <1>8, <2>1 DEF OfKind, ChangeTypes
<1>19. all \in Seq(Steps(S))
  <2>1. /\ K1 \subseteq S /\ K2 \subseteq S /\ K3 \subseteq S /\ K4 \subseteq S
        /\ K5 \subseteq S /\ K6 \subseteq S /\ K7 \subseteq S /\ K8 \subseteq S
        /\ K9 \subseteq S /\ K10 \subseteq S
    BY <1>12, <1>18 DEF ChangeTypes
  <2>2. K0 \cup K1 \cup K2 \cup K3 \cup K4 \cup K5 \cup K6 \cup K7 \cup K8 \cup K9 \cup K10
            \subseteq Steps(S)
    BY <1>11, <1>12, <2>1 DEF Steps
  <2> QED
    BY <1>17, <2>2, SeqMonotonic DEF ListOf
<1>20. ASSUME ps = <<>>, NEW c \in S PROVE c \in Range(all)
  <2>1. c \in L /\ c.type \in ChangeTypes
    BY <1>9, <1>20
  <2>2. \/ c \in K1 \/ c \in K2 \/ c \in K3 \/ c \in K4 \/ c \in K5 \/ c \in K6 \/ c \in K7
        \/ c \in K8 \/ c \in K9 \/ c \in K10
    BY <1>12, <2>1 DEF OfKind, ChangeTypes
  <2> QED
    BY <1>17, <2>2 DEF ListOf
<1>21. ASSUME NEW i \in DOMAIN ps, ps[i] \in RenamePairs(list)
       PROVE  Rename(list[ps[i][1]], list[ps[i][2]]) \in Range(all)
  <2>1. Rename(list[ps[i][1]], list[ps[i][2]]) \in K0
    BY <1>10, <1>12, <1>21, MergesListed
  <2> QED
    BY <1>17, <2>1 DEF ListOf
<1>22. ASSUME ps = <<>>, NEW c \in Range(all) PROVE c \in S
  <2>1. \A k : k \notin K0
    BY <1>10, <1>12, <1>22, MergesListed
  <2>2. \/ c \in K1 \/ c \in K2 \/ c \in K3 \/ c \in K4 \/ c \in K5 \/ c \in K6 \/ c \in K7
        \/ c \in K8 \/ c \in K9 \/ c \in K10
    BY <1>17, <1>22, <2>1 DEF ListOf
  <2> QED
    BY <1>12, <1>18, <2>2 DEF ChangeTypes
<1> QED
  BY <1>15, <1>19, <1>20, <1>21, <1>22
-----------------------------------------------------------------------------
(* What holds of the database at every step, whatever is renamed. *)

(* rows, indexes and databases as SQLite keeps them *)
RowOK(row) ==
    /\ DOMAIN row = {"pk", "cols", "data", "fts", "triggers"}
    /\ DOMAIN row.cols \subseteq Column /\ Range(row.cols) \subseteq Col
    /\ DOMAIN row.data = DOMAIN row.cols
    /\ row.pk \subseteq DOMAIN row.cols
    /\ row.fts \subseteq Column /\ row.triggers \subseteq Column
IndexOK(on, T) ==
    /\ on \in Table \X Column
    /\ on[1] \in DOMAIN T /\ on[2] \in DOMAIN T[on[1]].cols
DatabaseOK(d) ==
    /\ DOMAIN d = {"tables", "indexes"}
    /\ DOMAIN d.tables \subseteq Table
    /\ \A t \in DOMAIN d.tables : RowOK(d.tables[t])
    /\ \A x \in DOMAIN d.indexes : IndexOK(d.indexes[x], d.tables)

(* the plan was made and is not refused *)
Under == status \in {"running", "accepted"}

(* The plan is made of what the schemas differ in, the database is one, and the
   tables of both schemas are always there. *)
Base ==
    /\ status \in {"new", "asked", "running", "accepted", "rejected"}
    /\ Schema(old) /\ Schema(new)
    /\ plan \in Seq(Steps(Changes(old, new)))
    /\ merges \in Seq(Nat \X Nat)
    /\ \A i \in DOMAIN merges : merges[i] \in RenamePairs(listed)
    /\ status \in {"new", "asked"} => plan = <<>> /\ changes = <<>> /\ db = Built(old)
    /\ Under => ListOf(changes, Changes(old, new))
    /\ status = "accepted" => plan = <<>>
    /\ DatabaseOK(db)
    /\ DOMAIN old \cap DOMAIN new \subseteq DOMAIN db.tables

-----------------------------------------------------------------------------
(* Without renames: what differs from the pushed schema is still planned. *)

(* a row of the table t, a in the current schema and b in the pushed one, when
   the steps of P are left *)
RowOnWay(row, t, a, b, P) ==
    /\ DOMAIN a.cols \cap DOMAIN b.cols \subseteq DOMAIN row.cols
    /\ Recast(a, b) = {} =>
           \A c \in DOMAIN a.cols \cap DOMAIN b.cols : row.data[c] = InTable(t, c)
    /\ \A c \in DOMAIN b.cols \ DOMAIN a.cols :
           c \in DOMAIN row.cols \/ Change("add_column", t, c) \in P
    /\ \A c \in DOMAIN row.cols \ DOMAIN b.cols : Change("drop_column", t, c) \in P
    /\ \A c \in DOMAIN row.cols \cap DOMAIN b.cols :
           \/ row.cols[c].clause = b.cols[c].clause
           \/ /\ c \in DOMAIN a.cols /\ row.cols[c].clause = a.cols[c].clause
              /\ Change("modify_column", t, c) \in P
    /\ row.pk = b.pk \/ Whole("change_pk_type", t) \in P
(* the text search of that row: its table and its triggers *)
FTSOnWay(row, t, a, b, P) ==
    /\ a.fts = b.fts => row.fts = b.fts /\ row.triggers = b.fts
    /\ a.fts = {} =>
           /\ row.triggers = row.fts
           /\ row.fts = b.fts \/ (row.fts = {} /\ Whole("add_fts", t) \in P)
    /\ b.fts = {} =>
           (row.fts = {} /\ row.triggers = {}) \/ Whole("drop_fts", t) \in P
(* a table built from the pushed schema *)
RowIsNew(row, b) ==
    /\ row.pk = b.pk /\ row.cols = b.cols /\ row.fts = b.fts /\ row.triggers = b.fts
(* all tables T, o the current schema and n the pushed one *)
TablesOnWay(T, o, n, P) ==
    /\ \A t \in DOMAIN T \ DOMAIN n : Whole("drop_table", t) \in P
    /\ \A t \in DOMAIN n \ DOMAIN o :
           \/ t \in DOMAIN T /\ RowIsNew(T[t], n[t])
           \/ t \notin DOMAIN T /\ Whole("add_table", t) \in P
    /\ \A t \in DOMAIN n \cap DOMAIN o :
           RowOnWay(T[t], t, o[t], n[t], P) /\ FTSOnWay(T[t], t, o[t], n[t], P)
(* the name of the index x of t is no other's *)
Own(x, t, o, n) ==
    /\ \A u \in DOMAIN n : x \in DOMAIN n[u].indexes => u = t
    /\ \A u \in DOMAIN o : x \in DOMAIN o[u].indexes =>
           u = t /\ o[u].indexes[x] = n[t].indexes[x]
(* the indexes X of the database *)
IndexesOnWay(X, o, n, P) ==
    \A t \in DOMAIN n : \A x \in DOMAIN n[t].indexes : Own(x, t, o, n) =>
        IF x \in DOMAIN X THEN X[x] = <<t, n[t].indexes[x]>>
        ELSE \/ Change("add_index", t, x) \in P
             \/ t \notin DOMAIN o /\ Whole("add_table", t) \in P

OnWay(d, o, n, P) ==
    /\ P \subseteq Changes(o, n)
    /\ TablesOnWay(d.tables, o, n, P) /\ IndexesOnWay(d.indexes, o, n, P)

(* without renames the database is on its way to the pushed schema *)
Direct == Under /\ merges = <<>> => OnWay(db, old, new, Range(plan))
-----------------------------------------------------------------------------
(* With renames: dropped data stays with its name until its step comes, and goes
   with its new name once it was renamed. *)

(* the data of t is in the table u *)
TableKept(T, t, u, o) ==
    \A c \in DOMAIN o[t].cols : c \in DOMAIN T[u].cols /\ T[u].data[c] = InTable(t, c)
(* no change in S builds t anew *)
NotMirrored(t, S, n, o) ==
    \A s \in S : s.table = t =>
        /\ s.type # "change_pk_type"
        /\ s.type = "add_column" => ~RequiresMirrorTable(NoCol, n[t].cols[s.item])
        /\ s.type = "modify_column" => ~RequiresMirrorTable(o[t].cols[s.item], n[t].cols[s.item])
(* what only the current schema has keeps its data while it is there *)
DroppedKept(T, o, n, S) ==
    /\ \A t \in DOMAIN T \ DOMAIN n : t \in DOMAIN o => TableKept(T, t, t, o)
    /\ \A t \in DOMAIN o \cap DOMAIN n : NotMirrored(t, S, n, o) =>
           \A c \in DOMAIN o[t].cols \ DOMAIN n[t].cols :
               c \in DOMAIN T[t].cols => T[t].data[c] = InTable(t, c)
(* the data of d has the name of a *)
RenameDone(T, d, a, o, n, S) ==
    /\ d.type = "drop_table" => a.table \in DOMAIN T /\ TableKept(T, d.table, a.table, o)
    /\ d.type = "drop_column" /\ NotMirrored(d.table, S, n, o) =>
           /\ a.item \in DOMAIN T[d.table].cols
           /\ T[d.table].data[a.item] = InTable(d.table, d.item)
(* every confirmed rename is planned or done *)
RenamesOnWay(T, list, ms, o, n, S, P) ==
    \A i \in DOMAIN ms : ms[i] \in RenamePairs(list) =>
        LET d == list[ms[i][1]]
            a == list[ms[i][2]]
        IN  Rename(d, a) \in P \/ RenameDone(T, d, a, o, n, S)

(* no step takes away what a rename carries over *)
Carried ==
    /\ DroppedKept(db.tables, old, new, Changes(old, new))
    /\ Under => RenamesOnWay(db.tables, changes, merges, old, new, Changes(old, new),
                             Range(plan))
-----------------------------------------------------------------------------
(* The push begins. *)

\* A table as the current schema has it is one.
LEMMA BuiltIsOK ==
    ASSUME NEW s, Schema(s)
    PROVE  /\ DatabaseOK(Built(s)) /\ DOMAIN Built(s).tables = DOMAIN s
           /\ \A t \in DOMAIN s : \A x \in DOMAIN s[t].indexes :
                  \E u \in DOMAIN s :
                      /\ x \in DOMAIN Built(s).indexes /\ x \in DOMAIN s[u].indexes
                      /\ Built(s).indexes[x] = <<u, s[u].indexes[x]>>
           /\ \A x \in DOMAIN Built(s).indexes :
                  \E u \in DOMAIN s :
                      /\ x \in DOMAIN s[u].indexes
                      /\ Built(s).indexes[x] = <<u, s[u].indexes[x]>>
<1>1. PICK T : T = [t \in DOMAIN s |->
          [pk |-> s[t].pk, cols |-> s[t].cols,
           data |-> [c \in DOMAIN s[t].cols |-> InTable(t, c)],
           fts |-> s[t].fts, triggers |-> s[t].fts]]
  OBVIOUS
<1> DEFINE At(x) == {on \in Table \X Column :
                        /\ on[1] \in DOMAIN s /\ x \in DOMAIN s[on[1]].indexes
                        /\ on[2] = s[on[1]].indexes[x]}
<1>2. PICK Names : Names = UNION {DOMAIN s[t].indexes : t \in DOMAIN s}
  OBVIOUS
<1>3. PICK X : X = [x \in Names |-> CHOOSE on : on \in At(x)]
  OBVIOUS
<1>4. Built(s).tables = T /\ DOMAIN Built(s) = {"tables", "indexes"}
  BY <1>1 DEF Built
<1>5. Built(s).indexes = X
  BY <1>2, <1>3 DEF Built
<1>6. ASSUME NEW t \in DOMAIN s
      PROVE  /\ RowOK(T[t]) /\ T[t].cols = s[t].cols
             /\ t \in Table
             /\ \A x \in DOMAIN s[t].indexes :
                    s[t].indexes[x] \in Column /\ s[t].indexes[x] \in DOMAIN s[t].cols
  <2>1. SchemaTable(s[t]) /\ t \in Table
    BY DEF Schema
  <2>2. T[t] = [pk |-> s[t].pk, cols |-> s[t].cols,
                data |-> [c \in DOMAIN s[t].cols |-> InTable(t, c)],
                fts |-> s[t].fts, triggers |-> s[t].fts]
    BY <1>1
  <2>3. RowOK(T[t]) /\ T[t].cols = s[t].cols
    BY <2>1, <2>2 DEF RowOK, SchemaTable
  <2> QED
    BY <2>1, <2>3 DEF SchemaTable, Range
<1>7. ASSUME NEW t \in DOMAIN s, NEW x \in DOMAIN s[t].indexes PROVE At(x) # {}
  <2>1. PICK c \in Column : c = s[t].indexes[x]
    BY <1>6
  <2>2. <<t, c>> \in At(x)
    BY <1>6, <2>1
  <2> QED
    BY <2>2
<1>8. ASSUME NEW x \in Names
      PROVE  \E u \in DOMAIN s : /\ x \in DOMAIN s[u].indexes
                                 /\ X[x] = <<u, s[u].indexes[x]>>
                                 /\ IndexOK(X[x], T)
  <2>1. PICK t \in DOMAIN s : x \in DOMAIN s[t].indexes
    BY <1>2
  <2>2. At(x) # {}
    BY <1>7, <2>1
  <2>3. PICK on : on = X[x] /\ on \in At(x)
    <3>1. X[x] = CHOOSE on : on \in At(x)
      BY <1>3
    <3>2. \E on : on \in At(x)
      BY <2>2
    <3> HIDE DEF At
    <3>3. (CHOOSE on : on \in At(x)) \in At(x)
      BY <3>2, Zenon
    <3> QED
      BY <3>1, <3>3
  <2>4. /\ on \in Table \X Column /\ on[1] \in DOMAIN s /\ x \in DOMAIN s[on[1]].indexes
        /\ on[2] = s[on[1]].indexes[x]
    BY <2>3
  <2>5. PICK u, c : on = <<u, c>> /\ u = on[1] /\ c = on[2]
    BY <2>4
  <2>6. IndexOK(on, T)
    <3>1. on[1] \in DOMAIN T /\ on[2] \in DOMAIN T[on[1]].cols
      BY <1>1, <1>6, <2>4
    <3> QED
      BY <2>4, <3>1 DEF IndexOK
  <2> QED
    BY <2>3, <2>4, <2>5, <2>6
<1>9. DatabaseOK(Built(s))
  BY <1>1, <1>3, <1>4, <1>5, <1>6, <1>8 DEF DatabaseOK, Schema
<1>10. \A x : x \in Names <=> \E t \in DOMAIN s : x \in DOMAIN s[t].indexes
  BY <1>2
<1>11. DOMAIN X = Names
  BY <1>3
<1> HIDE DEF At
<1> QED
  BY <1>1, <1>4, <1>5, <1>8, <1>9, <1>10, <1>11

\* Every state of both schemas is a possible one.
LEMMA InitBase ==
    Init => Base
<1> SUFFICES ASSUME Init PROVE Base
  OBVIOUS
<1>1. Schema(old) /\ Schema(new)
  <2>1. PICK p \in Push : old = p[1] /\ new = p[2]
    BY DEF Init
  <2>2. \A i \in 1..2 : Schema(p[i])
    BY PlanAssumption DEF Schema
  <2> QED
    BY <2>1, <2>2
<1>2. <<>> \in Seq(Steps(Changes(old, new))) /\ <<>> \in Seq(Nat \X Nat)
  BY EmptySeq
<1>3. DatabaseOK(db) /\ DOMAIN old \cap DOMAIN new \subseteq DOMAIN db.tables
  BY <1>1, BuiltIsOK DEF Init
<1>4. \A i \in DOMAIN merges : FALSE
  BY DEF Init
<1>5. status = "new" /\ plan = <<>> /\ merges = <<>> /\ changes = <<>> /\ db = Built(old)
  BY DEF Init
<1> QED
  BY <1>1, <1>2, <1>3, <1>4, <1>5 DEF Base, Under

\* Its rows are those of the schema, with their own data.
LEMMA BuiltRows ==
    ASSUME NEW s
    PROVE  /\ DOMAIN Built(s).tables = DOMAIN s
           /\ \A t \in DOMAIN s :
                  LET row == Built(s).tables[t] IN
                  /\ row.pk = s[t].pk /\ row.cols = s[t].cols
                  /\ row.fts = s[t].fts /\ row.triggers = s[t].fts
                  /\ \A c \in DOMAIN s[t].cols : row.data[c] = InTable(t, c)
<1>1. PICK T : T = [t \in DOMAIN s |->
          [pk |-> s[t].pk, cols |-> s[t].cols,
           data |-> [c \in DOMAIN s[t].cols |-> InTable(t, c)],
           fts |-> s[t].fts, triggers |-> s[t].fts]]
  OBVIOUS
<1>2. Built(s).tables = T
  BY <1>1 DEF Built
<1>3. ASSUME NEW t \in DOMAIN s
      PROVE  /\ T[t].pk = s[t].pk /\ T[t].cols = s[t].cols
             /\ T[t].fts = s[t].fts /\ T[t].triggers = s[t].fts
             /\ \A c \in DOMAIN s[t].cols : T[t].data[c] = InTable(t, c)
  BY <1>1
<1>4. DOMAIN T = DOMAIN s
  BY <1>1
<1> QED
  BY <1>2, <1>3, <1>4

\* Before the first step everything in which the schemas differ is planned ...
LEMMA BuiltOnWay ==
    ASSUME NEW o, NEW n, Schema(o), Schema(n)
    PROVE  OnWay(Built(o), o, n, Changes(o, n))
<1>1. PICK T, X, P : T = Built(o).tables /\ X = Built(o).indexes /\ P = Changes(o, n)
  OBVIOUS
<1>2. /\ \A t \in DOMAIN o \ DOMAIN n : Whole("drop_table", t) \in P
      /\ \A t \in DOMAIN n \ DOMAIN o : Whole("add_table", t) \in P
      /\ \A t \in DOMAIN o \cap DOMAIN n : Differ(t, o[t], n[t], P)
  BY <1>1, ChangesComplete
<1>3. /\ DOMAIN T = DOMAIN o
      /\ \A t \in DOMAIN o :
             /\ T[t].pk = o[t].pk /\ T[t].cols = o[t].cols
             /\ T[t].fts = o[t].fts /\ T[t].triggers = o[t].fts
             /\ \A c \in DOMAIN o[t].cols : T[t].data[c] = InTable(t, c)
  BY <1>1, BuiltRows
<1>4. ASSUME NEW t \in DOMAIN n \cap DOMAIN o
      PROVE  RowOnWay(T[t], t, o[t], n[t], P) /\ FTSOnWay(T[t], t, o[t], n[t], P)
  <2>1. PICK row, a, b : row = T[t] /\ a = o[t] /\ b = n[t]
    OBVIOUS
  <2>2. /\ row.pk = a.pk /\ row.cols = a.cols /\ row.fts = a.fts /\ row.triggers = a.fts
        /\ \A c \in DOMAIN a.cols : row.data[c] = InTable(t, c)
        /\ Differ(t, a, b, P)
    BY <1>2, <1>3, <2>1
  <2>3. \A c \in DOMAIN a.cols \cap DOMAIN b.cols :
            a.cols[c] = b.cols[c] \/ c \in Modified(a, b)
    BY DEF Modified, ColumnModified
  <2>4. RowOnWay(row, t, a, b, P)
    BY <2>2, <2>3 DEF RowOnWay, Differ, PkTypeChanged
  <2>5. FTSOnWay(row, t, a, b, P)
    <3>1. a.fts # b.fts /\ a.fts # {} => Whole("drop_fts", t) \in P
      BY <2>2 DEF Differ
    <3>2. a.fts # b.fts /\ b.fts # {} => Whole("add_fts", t) \in P
      BY <2>2 DEF Differ
    <3>3. a.fts = {} => row.fts = b.fts \/ (row.fts = {} /\ Whole("add_fts", t) \in P)
      <4>1. CASE b.fts = a.fts
        BY <2>2, <4>1, Zenon
      <4>2. CASE b.fts # a.fts
        BY <2>2, <3>2, <4>2, Zenon
      <4> QED
        BY <4>1, <4>2
    <3>4. b.fts = {} => (row.fts = {} /\ row.triggers = {}) \/ Whole("drop_fts", t) \in P
      <4>1. CASE b.fts = a.fts
        BY <2>2, <4>1, Zenon
      <4>2. CASE b.fts # a.fts
        BY <2>2, <3>1, <4>2, Zenon
      <4> QED
        BY <4>1, <4>2
    <3>5. a.fts = b.fts => row.fts = b.fts /\ row.triggers = b.fts
      BY <2>2, Zenon
    <3>6. row.triggers = row.fts
      BY <2>2, Zenon
    <3> QED
      BY <3>3, <3>4, <3>5, <3>6, Zenon DEF FTSOnWay
  <2> QED
    BY <2>1, <2>4, <2>5
<1>5. TablesOnWay(T, o, n, P)
  BY <1>2, <1>3, <1>4 DEF TablesOnWay
<1>6. ASSUME NEW t \in DOMAIN n, NEW x \in DOMAIN n[t].indexes, Own(x, t, o, n)
      PROVE  IF x \in DOMAIN X THEN X[x] = <<t, n[t].indexes[x]>>
             ELSE \/ Change("add_index", t, x) \in P
                  \/ t \notin DOMAIN o /\ Whole("add_table", t) \in P
  <2>1. CASE x \in DOMAIN X
    <3>1. PICK u \in DOMAIN o : x \in DOMAIN o[u].indexes /\ X[x] = <<u, o[u].indexes[x]>>
      BY <1>1, <2>1, BuiltIsOK
    <3>2. u = t /\ o[u].indexes[x] = n[t].indexes[x]
      BY <1>6, <3>1 DEF Own
    <3> QED
      BY <2>1, <3>1, <3>2
  <2>2. CASE x \notin DOMAIN X /\ t \in DOMAIN o
    <3>1. x \notin DOMAIN o[t].indexes
      BY <1>1, <2>2, BuiltIsOK
    <3> QED
      BY <1>2, <2>2, <3>1 DEF Differ
  <2>3. CASE x \notin DOMAIN X /\ t \notin DOMAIN o
    BY <1>2, <2>3
  <2> QED
    BY <2>1, <2>2, <2>3
<1>7. IndexesOnWay(X, o, n, P)
  BY <1>6 DEF IndexesOnWay
<1> QED
  BY <1>1, <1>5, <1>7 DEF OnWay

\* ... and all data is in its place.
LEMMA BuiltIsKept ==
    ASSUME NEW o, NEW n, NEW S
    PROVE  DroppedKept(Built(o).tables, o, n, S)
<1>1. PICK T : T = Built(o).tables
  OBVIOUS
<1>2. /\ DOMAIN T = DOMAIN o
      /\ \A t \in DOMAIN o :
             /\ T[t].cols = o[t].cols
             /\ \A c \in DOMAIN o[t].cols : T[t].data[c] = InTable(t, c)
  BY <1>1, BuiltRows
<1>3. DroppedKept(T, o, n, S)
  BY <1>2 DEF DroppedKept, TableKept
<1> QED
  BY <1>1, <1>3

\* The client asks for renames of its own list ...
LEMMA AskKeepsBase ==
    ASSUME Base, Ask
    PROVE  Base'
<1>1. PICK list \in DiffSchemas(old, new) :
        /\ listed' = list
        /\ \E pairs \in Confirmable(list) : merges' \in SetToSeqs(pairs)
  BY DEF Ask
<1>2. PICK pairs \in Confirmable(list) : merges' \in SetToSeqs(pairs)
  BY <1>1
<1>3. ListOf(list, Changes(old, new))
  BY SchemasListed DEF Base
<1>4. PICK m \in Nat : DOMAIN list = 1..m
  BY <1>3, LenProperties DEF ListOf
<1>5. pairs \subseteq RenamePairs(list) /\ RenamePairs(list) \subseteq (1..m) \X (1..m)
  BY <1>4 DEF Confirmable, RenamePairs
<1>6. IsFiniteSet(pairs)
  <2>1. IsFiniteSet(1..m)
    BY FS_Interval
  <2>2. IsFiniteSet((1..m) \X (1..m))
    BY <2>1, FS_Product
  <2> QED
    BY <1>5, <2>2, FS_Subset
<1>7. merges' \in Seq(pairs) /\ Range(merges') = pairs
  BY <1>2, <1>6, ListsOfSet
<1>8. merges' \in Seq(Nat \X Nat)
  <2>1. PICK ms \in Seq(pairs) : ms = merges'
    BY <1>7
  <2>2. pairs \subseteq Nat \X Nat
    BY <1>5
  <2> QED
    BY <2>1, <2>2, SeqMonotonic
<1>9. \A i \in DOMAIN merges' : merges'[i] \in RenamePairs(listed')
  BY <1>1, <1>5, <1>7 DEF Range
<1> QED
  BY <1>8, <1>9 DEF Base, Ask, Under

\* ... and the server plans.
LEMMA PlanKeepsBase ==
    ASSUME Base, Plan
    PROVE  /\ Base'
           /\ ListOf(changes', Changes(old, new))
           /\ merges = <<>> => Range(plan') = Changes(old, new)
           /\ \A i \in DOMAIN merges : merges[i] \in RenamePairs(changes') =>
                  Rename(changes'[merges[i][1]], changes'[merges[i][2]]) \in Range(plan')
<1>1. PICK list \in DiffSchemas(old, new) :
        /\ changes' = list /\ plan' = GenerateMigrationPlan(list, merges)
        /\ status' = IF list = <<>> THEN "rejected" ELSE "running"
  BY DEF Plan
<1>2. PICK S : S = Changes(old, new)
  OBVIOUS
<1>3. ListOf(list, S)
  BY <1>2, SchemasListed DEF Base
<1>4. \A c \in S : c.type \in ChangeTypes
  BY <1>2, ChangesSay DEF Says
<1>5. merges \in Seq(Nat \X Nat)
  BY DEF Base
<1>6. PICK ps \in Seq(Nat \X Nat) : ps = merges
  BY <1>5
<1>7. /\ GenerateMigrationPlan(list, ps) \in Seq(Steps(S))
      /\ ps = <<>> => Range(GenerateMigrationPlan(list, ps)) = S
      /\ \A i \in DOMAIN ps : ps[i] \in RenamePairs(list) =>
             Rename(list[ps[i][1]], list[ps[i][2]]) \in Range(GenerateMigrationPlan(list, ps))
  BY <1>3, <1>4, PlanListed
<1>8. plan' \in Seq(Steps(Changes(old, new))) /\ ListOf(changes', Changes(old, new))
  BY <1>1, <1>2, <1>3, <1>6, <1>7
<1>9. Base'
  BY <1>1, <1>8 DEF Base, Plan, Under
<1> QED
  BY <1>1, <1>2, <1>6, <1>7, <1>8, <1>9
-----------------------------------------------------------------------------
(* One step of the plan. *)

(* what is left of P after s *)
Rest(P, s, P2) == P2 \subseteq P /\ P \subseteq P2 \cup {s}

(* s renames by two changes of S *)
IsRename(s, S) ==
    \E d, a \in S : s = Rename(d, a) /\ RenamePair(d, a)

\* The first step is a change of the two schemas or renames by two of them.
LEMMA Running ==
    ASSUME Base, NEW type, Run(type)
    PROVE  /\ First.type = type /\ Runs(First)
           /\ plan' \in Seq(Steps(Changes(old, new)))
           /\ Rest(Range(plan), First, Range(plan'))
           /\ First \in Range(plan)
           /\ Under /\ Under'
           /\ type = "rename" => IsRename(First, Changes(old, new))
           /\ type # "rename" => First \in Changes(old, new) /\ Says(First, old, new)
<1>1. PICK S : S = Changes(old, new)
  OBVIOUS
<1>2. PICK p \in Seq(Steps(S)) : p = plan /\ p # <<>>
  BY <1>1 DEF Base, Run
<1>3. plan' = Tail(p) /\ First = Head(p)
  BY <1>2 DEF Run, First
<1>4. /\ Head(p) \in Steps(S) /\ Tail(p) \in Seq(Steps(S)) /\ Len(Tail(p)) = Len(p) - 1
      /\ \A i \in 1..Len(Tail(p)) : Tail(p)[i] = p[i + 1]
  BY <1>2, HeadTailProperties
<1>5. Rest(Range(p), Head(p), Range(Tail(p))) /\ Head(p) \in Range(p)
  <2>1. PICK m \in Nat : m = Len(p) /\ DOMAIN p = 1..m /\ m # 0
    BY <1>2, EmptySeq, LenProperties
  <2>2. DOMAIN Tail(p) = 1..(m - 1)
    BY <1>4, <2>1, LenProperties
  <2>3. Head(p) = p[1] /\ 1 \in 1..m
    BY <1>2, <2>1
  <2>4. \A i \in 1..(m - 1) : Tail(p)[i] = p[i + 1] /\ i + 1 \in 1..m
    BY <1>4, <2>1
  <2>5. Range(Tail(p)) \subseteq Range(p)
    BY <2>1, <2>2, <2>4 DEF Range
  <2>6. \A j \in 1..m : j = 1 \/ (j - 1 \in 1..(m - 1) /\ (j - 1) + 1 = j)
    OBVIOUS
  <2>7. ASSUME NEW j \in 1..m PROVE p[j] \in Range(Tail(p)) \cup {Head(p)}
    <3>1. CASE j = 1
      BY <2>3, <3>1
    <3>2. CASE j # 1
      <4>1. PICK i \in 1..(m - 1) : i + 1 = j
        BY <2>6, <3>2
      <4> QED
        BY <2>2, <2>4, <4>1 DEF Range
    <3> QED
      BY <3>1, <3>2
  <2> QED
    BY <2>1, <2>3, <2>5, <2>7 DEF Rest, Range
<1>6. ASSUME type = "rename" PROVE IsRename(First, S)
  <2>1. CASE First \in S
    <3>1. First.type \in ChangeTypes
      BY <1>1, <2>1, ChangesSay DEF Says
    <3> QED
      BY <1>6, <3>1 DEF Run, ChangeTypes
  <2>2. CASE First \in Renames(S)
    <3>1. PICK q \in S \X S : RenamePair(q[1], q[2]) /\ First = Rename(q[1], q[2])
      BY <2>2 DEF Renames
    <3> QED
      BY <3>1 DEF IsRename
  <2> QED
    BY <1>3, <1>4, <2>1, <2>2 DEF Steps
<1>7. ASSUME type # "rename" PROVE First \in S
  <2>1. CASE First \in Renames(S)
    <3>1. First.type = "rename"
      BY <2>1 DEF Renames, Rename
    <3> QED
      BY <1>7, <3>1 DEF Run
  <2> QED
    BY <1>3, <1>4, <2>1 DEF Steps
<1> QED
  BY <1>1, <1>2, <1>3, <1>4, <1>5, <1>6, <1>7, ChangesSay DEF Run, Under

\* A step that leaves the database one leaves the rest in order.
LEMMA StepKeepsBase ==
    ASSUME Base, NEW type, Run(type), DatabaseOK(db'),
           DOMAIN old \cap DOMAIN new \subseteq DOMAIN db'.tables
    PROVE  Base'
<1>1. plan' \in Seq(Steps(Changes(old, new)))
  BY Running
<1>2. UNCHANGED <<old, new, listed, merges, changes, status>> /\ status = "running"
  BY DEF Run
<1> QED
  BY <1>1, <1>2 DEF Base, Under

(* one row changes *)
RowStep(d, d2, t, row) ==
    /\ DOMAIN d2 = {"tables", "indexes"}
    /\ DOMAIN d2.tables = DOMAIN d.tables \cup {t} /\ d2.tables[t] = row
    /\ \A u \in DOMAIN d.tables : u # t => d2.tables[u] = d.tables[u]
    /\ d2.indexes = d.indexes

\* The database is well formed if the new row is and has the indexed columns.
LEMMA RowStepOK ==
    ASSUME NEW d, NEW d2, NEW t \in Table, NEW row, DatabaseOK(d), RowStep(d, d2, t, row),
           RowOK(row),
           \A x \in DOMAIN d.indexes :
               d.indexes[x][1] = t => d.indexes[x][2] \in DOMAIN row.cols
    PROVE  DatabaseOK(d2) /\ DOMAIN d.tables \subseteq DOMAIN d2.tables
<1>1. PICK T, T2, X : T = d.tables /\ T2 = d2.tables /\ X = d.indexes /\ d2.indexes = X
  BY DEF RowStep
<1>2. /\ DOMAIN T2 = DOMAIN T \cup {t} /\ T2[t] = row
      /\ \A u \in DOMAIN T : u # t => T2[u] = T[u]
  BY <1>1 DEF RowStep
<1>3. DOMAIN T \subseteq Table /\ (\A u \in DOMAIN T : RowOK(T[u]))
      /\ \A x \in DOMAIN X : IndexOK(X[x], T)
  BY <1>1 DEF DatabaseOK
<1>4. \A x \in DOMAIN X : IndexOK(X[x], T2)
  BY <1>1, <1>2, <1>3 DEF IndexOK
<1>5. DOMAIN T2 \subseteq Table /\ \A u \in DOMAIN T2 : RowOK(T2[u])
  BY <1>2, <1>3
<1> QED
  BY <1>1, <1>2, <1>4, <1>5 DEF DatabaseOK, RowStep

\* What is planned for a table is done by the steps on this table.
LEMMA RowPending ==
    ASSUME NEW row, NEW t, NEW a, NEW b, NEW P, NEW s, NEW P2, Rest(P, s, P2),
           s.table # t
    PROVE  /\ RowOnWay(row, t, a, b, P) => RowOnWay(row, t, a, b, P2)
           /\ FTSOnWay(row, t, a, b, P) => FTSOnWay(row, t, a, b, P2)
<1>1. \A type, c : Change(type, t, c) \in P => Change(type, t, c) \in P2
  BY DEF Rest, Change
<1>2. \A type : Whole(type, t) \in P => Whole(type, t) \in P2
  BY WholeIs DEF Rest
<1>3. RowOnWay(row, t, a, b, P) => RowOnWay(row, t, a, b, P2)
  BY <1>1, <1>2 DEF RowOnWay
<1>4. FTSOnWay(row, t, a, b, P) => FTSOnWay(row, t, a, b, P2)
  BY <1>2 DEF FTSOnWay
<1> QED
  BY <1>3, <1>4

(* the table t gets the row row *)
RowSet(T, T2, t, row) ==
    /\ DOMAIN T2 = DOMAIN T \cup {t} /\ T2[t] = row
    /\ \A u \in DOMAIN T : u # t => T2[u] = T[u]

\* A step that leaves one row on its way leaves the tables on their way.
LEMMA RowSetOnWay ==
    ASSUME NEW T, NEW T2, NEW t, NEW row, NEW o, NEW n, NEW P, NEW s, NEW P2,
           TablesOnWay(T, o, n, P), Rest(P, s, P2), RowSet(T, T2, t, row),
           DOMAIN o \cap DOMAIN n \subseteq DOMAIN T,
           t \in DOMAIN o \cap DOMAIN n, s.table = t,
           s.type \notin {"drop_table", "add_table"},
           RowOnWay(row, t, o[t], n[t], P2), FTSOnWay(row, t, o[t], n[t], P2)
    PROVE  TablesOnWay(T2, o, n, P2)
<1>1. /\ DOMAIN T2 = DOMAIN T /\ T2[t] = row
      /\ \A u \in DOMAIN T : u # t => T2[u] = T[u]
  BY DEF RowSet
<1>2. \A type \in {"drop_table", "add_table"} : \A u : Whole(type, u) \in P => Whole(type, u) \in P2
  BY WholeIs DEF Rest
<1>3. ASSUME NEW u \in DOMAIN n \cap DOMAIN o
      PROVE  RowOnWay(T2[u], u, o[u], n[u], P2) /\ FTSOnWay(T2[u], u, o[u], n[u], P2)
  <2>1. CASE u = t
    BY <1>1, <2>1
  <2>2. CASE u # t
    <3>1. T2[u] = T[u]
      BY <1>1, <2>2
    <3>2. RowOnWay(T[u], u, o[u], n[u], P) /\ FTSOnWay(T[u], u, o[u], n[u], P)
      BY DEF TablesOnWay
    <3> QED
      BY <2>2, <3>1, <3>2, RowPending
  <2> QED
    BY <2>1, <2>2
<1>4. \A u \in DOMAIN T2 \ DOMAIN n : Whole("drop_table", u) \in P2
  BY <1>1, <1>2 DEF TablesOnWay
<1>5. ASSUME NEW u \in DOMAIN n \ DOMAIN o
      PROVE  \/ u \in DOMAIN T2 /\ RowIsNew(T2[u], n[u])
             \/ u \notin DOMAIN T2 /\ Whole("add_table", u) \in P2
  BY <1>1, <1>2 DEF TablesOnWay
<1> QED
  BY <1>3, <1>4, <1>5 DEF TablesOnWay

\* Indexes are on their way as before, when no index is created.
LEMMA RowStepOnWay ==
    ASSUME NEW d, NEW d2, NEW t, NEW row, NEW o, NEW n, NEW P, NEW s, NEW P2,
           OnWay(d, o, n, P), Rest(P, s, P2), RowStep(d, d2, t, row),
           DOMAIN o \cap DOMAIN n \subseteq DOMAIN d.tables,
           t \in DOMAIN o \cap DOMAIN n, s.table = t,
           s.type \notin {"drop_table", "add_table", "add_index"},
           RowOnWay(row, t, o[t], n[t], P2), FTSOnWay(row, t, o[t], n[t], P2)
    PROVE  OnWay(d2, o, n, P2)
<1>1. PICK T, T2, X : T = d.tables /\ T2 = d2.tables /\ X = d.indexes /\ d2.indexes = X
  BY DEF RowStep
<1>2. RowSet(T, T2, t, row)
  BY <1>1 DEF RowStep, RowSet
<1>3. P2 \subseteq Changes(o, n)
  BY DEF OnWay, Rest
<1>4. \A type \in {"drop_table", "add_table"} : \A u : Whole(type, u) \in P => Whole(type, u) \in P2
  BY WholeIs DEF Rest
<1>5. \A u, x : Change("add_index", u, x) \in P => Change("add_index", u, x) \in P2
  BY DEF Rest, Change
<1>6. TablesOnWay(T, o, n, P) /\ IndexesOnWay(X, o, n, P)
  BY <1>1 DEF OnWay
<1>7. TablesOnWay(T2, o, n, P2)
  BY <1>1, <1>2, <1>6, RowSetOnWay
<1>8. IndexesOnWay(X, o, n, P2)
  BY <1>4, <1>5, <1>6 DEF IndexesOnWay
<1> QED
  BY <1>1, <1>3, <1>7, <1>8 DEF OnWay

\* the data that a rename has moved or may still move stays, from row to row2
KeepsRenamed(row, row2, a, b) ==
    /\ \A c \in DOMAIN a.cols \ DOMAIN b.cols : c \in DOMAIN row2.cols =>
           c \in DOMAIN row.cols /\ row2.data[c] = row.data[c]
    /\ \A c \in DOMAIN b.cols \ DOMAIN a.cols : c \in DOMAIN row.cols =>
           c \in DOMAIN row2.cols /\ row2.data[c] = row.data[c]
(* the same of all tables, those that are renamed as a whole included *)
KeepsTables(T, T2, o, n, S) ==
    /\ \A t \in DOMAIN T2 \ DOMAIN n : t \in DOMAIN o =>
           t \in DOMAIN T /\ T2[t] = T[t]
    /\ \A t \in DOMAIN n \ DOMAIN o : t \in DOMAIN T =>
           t \in DOMAIN T2 /\ T2[t] = T[t]
    /\ \A t \in DOMAIN o \cap DOMAIN n : NotMirrored(t, S, n, o) =>
           KeepsRenamed(T[t], T2[t], o[t], n[t])

\* Then renames stay on their way.
LEMMA KeepsRenames ==
    ASSUME NEW T, NEW T2, NEW o, NEW n, NEW S, S = Changes(o, n), NEW list, ListOf(list, S),
           NEW ms, NEW P, NEW s, NEW P2, Rest(P, s, P2),
           DroppedKept(T, o, n, S), RenamesOnWay(T, list, ms, o, n, S, P),
           KeepsTables(T, T2, o, n, S),
           \A d, a \in S : s = Rename(d, a) /\ RenamePair(d, a) => RenameDone(T2, d, a, o, n, S)
    PROVE  DroppedKept(T2, o, n, S) /\ RenamesOnWay(T2, list, ms, o, n, S, P2)
<1>1. DroppedKept(T2, o, n, S)
  <2>1. ASSUME NEW t \in DOMAIN T2 \ DOMAIN n, t \in DOMAIN o PROVE TableKept(T2, t, t, o)
    <3>1. t \in DOMAIN T /\ T2[t] = T[t]
      BY <2>1 DEF KeepsTables
    <3>2. TableKept(T, t, t, o)
      BY <2>1, <3>1 DEF DroppedKept
    <3> QED
      BY <3>1, <3>2 DEF TableKept
  <2>2. ASSUME NEW t \in DOMAIN o \cap DOMAIN n, NotMirrored(t, S, n, o),
               NEW c \in DOMAIN o[t].cols \ DOMAIN n[t].cols, c \in DOMAIN T2[t].cols
        PROVE  T2[t].data[c] = InTable(t, c)
    <3>1. c \in DOMAIN T[t].cols /\ T2[t].data[c] = T[t].data[c]
      BY <2>2 DEF KeepsTables, KeepsRenamed
    <3> QED
      BY <2>2, <3>1 DEF DroppedKept
  <2> QED
    BY <2>1, <2>2 DEF DroppedKept
<1>2. ASSUME NEW i \in DOMAIN ms, ms[i] \in RenamePairs(list),
             NEW d \in S, NEW a \in S, d = list[ms[i][1]], a = list[ms[i][2]]
      PROVE  Rename(d, a) \in P2 \/ RenameDone(T2, d, a, o, n, S)
  <2>1. RenamePair(d, a)
    BY <1>2 DEF RenamePairs
  <2>2. Rename(d, a) \in P \/ RenameDone(T, d, a, o, n, S)
    BY <1>2 DEF RenamesOnWay
  <2>3. CASE Rename(d, a) \in P
    BY <2>1, <2>3 DEF Rest
  <2>4. CASE RenameDone(T, d, a, o, n, S)
    <3>1. Says(d, o, n) /\ Says(a, o, n)
      BY ChangesSay
    <3>2. ASSUME d.type = "drop_table"
          PROVE  a.table \in DOMAIN T2 /\ TableKept(T2, d.table, a.table, o)
      <4>1. a.table \in DOMAIN n \ DOMAIN o
        BY <2>1, <3>1, <3>2 DEF RenamePair, Says
      <4>2. a.table \in DOMAIN T /\ TableKept(T, d.table, a.table, o)
        BY <2>4, <3>2 DEF RenameDone
      <4>3. a.table \in DOMAIN T2 /\ T2[a.table] = T[a.table]
        BY <4>1, <4>2 DEF KeepsTables
      <4> QED
        BY <4>2, <4>3 DEF TableKept
    <3>3. ASSUME d.type = "drop_column", NotMirrored(d.table, S, n, o)
          PROVE  /\ a.item \in DOMAIN T2[d.table].cols
                 /\ T2[d.table].data[a.item] = InTable(d.table, d.item)
      <4>1. /\ d.table = a.table /\ a.type = "add_column"
            /\ d.table \in DOMAIN o \cap DOMAIN n
            /\ a.item \in DOMAIN n[a.table].cols \ DOMAIN o[a.table].cols
        BY <2>1, <3>1, <3>3 DEF RenamePair, Says
      <4>2. a.item \in DOMAIN T[d.table].cols /\ T[d.table].data[a.item] = InTable(d.table, d.item)
        BY <2>4, <3>3 DEF RenameDone
      <4> QED
        BY <3>3, <4>1, <4>2 DEF KeepsTables, KeepsRenamed
    <3> QED
      BY <3>2, <3>3 DEF RenameDone
  <2> QED
    BY <2>2, <2>3, <2>4
<1>3. \A i \in DOMAIN ms : ms[i] \in RenamePairs(list) =>
          list[ms[i][1]] \in S /\ list[ms[i][2]] \in S
  BY DEF RenamePairs, ListOf, Range
<1>4. RenamesOnWay(T2, list, ms, o, n, S, P2)
  BY <1>2, <1>3 DEF RenamesOnWay
<1> QED
  BY <1>1, <1>4
-----------------------------------------------------------------------------
(* Steps that change one row. *)

(* the database stays well formed and on its way, and its data where it was *)
StepIsGood ==
    /\ Base'
    /\ OnWay(db, old, new, Range(plan)) => OnWay(db', old, new, Range(plan'))
    /\ KeepsTables(db.tables, db'.tables, old, new, Changes(old, new))

(* the steps that write one row of db.tables *)
RowSteps == {"add_column", "modify_column", "change_pk_type", "add_fts", "drop_fts",
             "drop_column"}

\* What a step leaves planned for its table.
LEMMA PlannedRest ==
    ASSUME NEW P, NEW s, NEW P2, Rest(P, s, P2)
    PROVE  /\ \A type, t, i : /\ Change(type, t, i) \in P
                              /\ type # s.type \/ t # s.table \/ i # s.item
                              => Change(type, t, i) \in P2
           /\ \A type, t : /\ Whole(type, t) \in P
                           /\ type # s.type \/ t # s.table
                           => Whole(type, t) \in P2
<1>1. ASSUME NEW type, NEW t, NEW i, Change(type, t, i) \in P,
             type # s.type \/ t # s.table \/ i # s.item
      PROVE  Change(type, t, i) \in P2
  BY <1>1 DEF Rest, Change
<1>2. ASSUME NEW type, NEW t, Whole(type, t) \in P, type # s.type \/ t # s.table
      PROVE  Whole(type, t) \in P2
  BY <1>2, WholeIs DEF Rest
<1> QED
  BY <1>1, <1>2

\* the row row is replaced by row2, and what was on its way is
RowGoesOn(row, row2, t, a, b, P, P2) ==
    /\ RowOK(row2)
    /\ RowOnWay(row, t, a, b, P) => RowOnWay(row2, t, a, b, P2)
    /\ FTSOnWay(row, t, a, b, P) => FTSOnWay(row2, t, a, b, P2)
    /\ KeepsRenamed(row, row2, a, b)

\* A step that changes one row that way is a good one.
LEMMA RowStepIsGood ==
    ASSUME Base, NEW type \in RowSteps, Run(type), NEW t, t = First.table, NEW row,
           RowStep(db, db', t, row),
           \A x \in DOMAIN db.indexes :
               db.indexes[x][1] = t => db.indexes[x][2] \in DOMAIN row.cols,
           RowGoesOn(db.tables[t], row, t, old[t], new[t], Range(plan), Range(plan'))
    PROVE  StepIsGood
<1>1. PICK o, n, d, d2, P, P2, s :
        /\ o = old /\ n = new /\ d = db /\ d2 = db' /\ P = Range(plan) /\ P2 = Range(plan')
        /\ s = First
  OBVIOUS
<1> DEFINE was == d.tables[t]
<1>0. /\ RowOK(row)
      /\ RowOnWay(was, t, o[t], n[t], P) => RowOnWay(row, t, o[t], n[t], P2)
      /\ FTSOnWay(was, t, o[t], n[t], P) => FTSOnWay(row, t, o[t], n[t], P2)
      /\ KeepsRenamed(was, row, o[t], n[t])
  BY <1>1, Zenon DEF RowGoesOn
<1>2. /\ Rest(P, s, P2) /\ s.type = type /\ Says(s, o, n)
  BY <1>1, Running DEF RowSteps
<1>3. t \in DOMAIN o \cap DOMAIN n /\ DOMAIN o \cap DOMAIN n \subseteq DOMAIN d.tables
      /\ DatabaseOK(d) /\ Schema(o)
  BY <1>1, <1>2 DEF Says, RowSteps, Base
<1>4. t \in Table
  BY <1>3 DEF Schema
<1>5. RowStep(d, d2, t, row) /\ \A x \in DOMAIN d.indexes :
          d.indexes[x][1] = t => d.indexes[x][2] \in DOMAIN row.cols
  BY <1>1
<1>6. DatabaseOK(d2) /\ DOMAIN d.tables \subseteq DOMAIN d2.tables
  BY <1>0, <1>3, <1>4, <1>5, RowStepOK
<1>7. Base'
  <2>1. DatabaseOK(db') /\ DOMAIN old \cap DOMAIN new \subseteq DOMAIN db'.tables
    BY <1>1, <1>3, <1>6
  <2> QED
    BY <2>1, StepKeepsBase
<1>8. ASSUME OnWay(d, o, n, P) PROVE OnWay(d2, o, n, P2)
  <2>1. RowOnWay(d.tables[t], t, o[t], n[t], P) /\ FTSOnWay(d.tables[t], t, o[t], n[t], P)
    BY <1>3, <1>8 DEF OnWay, TablesOnWay
  <2>2. RowOnWay(row, t, o[t], n[t], P2) /\ FTSOnWay(row, t, o[t], n[t], P2)
    BY <1>0, <2>1
  <2>3. s.table = t /\ s.type \notin {"drop_table", "add_table", "add_index"}
    BY <1>1, <1>2 DEF RowSteps
  <2> QED
    BY <1>2, <1>3, <1>5, <1>8, <2>2, <2>3, RowStepOnWay
<1>9. PICK S : S = Changes(o, n)
  OBVIOUS
<1>10. KeepsTables(d.tables, d2.tables, o, n, S)
  <2>1. PICK T, T2 : T = d.tables /\ T2 = d2.tables
    OBVIOUS
  <2>2. DOMAIN T2 = DOMAIN T /\ T2[t] = row /\ \A u \in DOMAIN T : u # t => T2[u] = T[u]
    BY <1>3, <1>5, <2>1 DEF RowStep
  <2>3. KeepsRenamed(T[t], T2[t], o[t], n[t])
    BY <1>0, <2>1, <2>2
  <2>4. ASSUME NEW u \in DOMAIN o \cap DOMAIN n PROVE KeepsRenamed(T[u], T2[u], o[u], n[u])
    <3>1. CASE u = t
      BY <2>3, <3>1
    <3>2. CASE u # t
      <4>1. T2[u] = T[u]
        BY <1>3, <2>1, <2>2, <3>2
      <4>2. KeepsRenamed(T[u], T[u], o[u], n[u])
        BY DEF KeepsRenamed
      <4> QED
        BY <4>1, <4>2
    <3> QED
      BY <3>1, <3>2
  <2>5. KeepsTables(T, T2, o, n, S)
    BY <1>3, <2>2, <2>4 DEF KeepsTables
  <2> QED
    BY <2>1, <2>5
<1> QED
  BY <1>1, <1>7, <1>8, <1>9, <1>10 DEF StepIsGood

(* the rows that ADD COLUMN, DROP COLUMN and the end of a search leave *)
Altered(row, c, col) == [row EXCEPT !.cols = Put(@, c, col), !.data = Put(@, c, Empty)]
Lacking(row, c) == [row EXCEPT !.cols = Drop(@, c), !.data = Drop(@, c)]

\* ALTER TABLE ... ADD COLUMN.
LEMMA AlteredRow ==
    ASSUME NEW row, RowOK(row), NEW t, NEW a, NEW b, SchemaTable(b),
           NEW c, c \in DOMAIN b.cols, c \notin DOMAIN a.cols, c \notin DOMAIN row.cols,
           NEW row2, row2 = Altered(row, c, b.cols[c]),
           NEW P, NEW P2, Rest(P, Change("add_column", t, c), P2)
    PROVE  RowGoesOn(row, row2, t, a, b, P, P2)
<1>1. /\ DOMAIN row2 = DOMAIN row /\ row2.pk = row.pk /\ row2.fts = row.fts
      /\ row2.triggers = row.triggers
      /\ row2.cols = Put(row.cols, c, b.cols[c]) /\ row2.data = Put(row.data, c, Empty)
  BY DEF RowOK, Altered
<1>2. PICK s : s = Change("add_column", t, c) /\ s.type = "add_column" /\ s.table = t /\ s.item = c
  BY DEF Change
<1>3. /\ \A type, i : Change(type, t, i) \in P /\ (type # "add_column" \/ i # c) =>
             Change(type, t, i) \in P2
      /\ \A type : Whole(type, t) \in P /\ type # "add_column" => Whole(type, t) \in P2
  BY <1>2, PlannedRest
<1>4. /\ DOMAIN row2.cols = DOMAIN row.cols \cup {c} /\ row2.cols[c] = b.cols[c]
      /\ DOMAIN row2.data = DOMAIN row.data \cup {c}
      /\ \A i \in DOMAIN row.cols : row2.cols[i] = row.cols[i]
      /\ \A i \in DOMAIN row.data : row2.data[i] = row.data[i]
  BY <1>1 DEF Put, RowOK
<1>5. b.cols[c] \in Col /\ c \in Column
  BY DEF SchemaTable, Range
<1>6. Range(row2.cols) \subseteq Col
  BY <1>4, <1>5 DEF Range, RowOK
<1>7. RowOK(row2)
  BY <1>1, <1>4, <1>5, <1>6 DEF RowOK
<1>8. RowOnWay(row, t, a, b, P) => RowOnWay(row2, t, a, b, P2)
  <2> SUFFICES ASSUME RowOnWay(row, t, a, b, P) PROVE RowOnWay(row2, t, a, b, P2)
    OBVIOUS
  <2>1. DOMAIN a.cols \cap DOMAIN b.cols \subseteq DOMAIN row2.cols
    BY <1>4 DEF RowOnWay
  <2>2. Recast(a, b) = {} =>
            \A i \in DOMAIN a.cols \cap DOMAIN b.cols : row2.data[i] = InTable(t, i)
    BY <1>4 DEF RowOnWay, RowOK
  <2>3. \A i \in DOMAIN b.cols \ DOMAIN a.cols :
            i \in DOMAIN row2.cols \/ Change("add_column", t, i) \in P2
    BY <1>3, <1>4 DEF RowOnWay
  <2>4. \A i \in DOMAIN row2.cols \ DOMAIN b.cols : Change("drop_column", t, i) \in P2
    BY <1>3, <1>4 DEF RowOnWay
  <2>5. \A i \in DOMAIN row2.cols \cap DOMAIN b.cols :
           \/ row2.cols[i].clause = b.cols[i].clause
           \/ /\ i \in DOMAIN a.cols /\ row2.cols[i].clause = a.cols[i].clause
              /\ Change("modify_column", t, i) \in P2
    BY <1>3, <1>4 DEF RowOnWay
  <2>6. row2.pk = b.pk \/ Whole("change_pk_type", t) \in P2
    BY <1>1, <1>3 DEF RowOnWay
  <2> QED
    BY <2>1, <2>2, <2>3, <2>4, <2>5, <2>6 DEF RowOnWay
<1>9. FTSOnWay(row, t, a, b, P) => FTSOnWay(row2, t, a, b, P2)
  BY <1>1, <1>3, Zenon DEF FTSOnWay
<1>10. KeepsRenamed(row, row2, a, b)
  BY <1>4 DEF KeepsRenamed, RowOK
<1> QED
  BY <1>4, <1>7, <1>8, <1>9, <1>10 DEF RowGoesOn

\* ALTER TABLE ... DROP COLUMN.
LEMMA DroppedFromRow ==
    ASSUME NEW row, RowOK(row), NEW t, NEW a, NEW b,
           NEW c, c \in DOMAIN a.cols, c \notin DOMAIN b.cols, c \notin row.pk,
           NEW row2, row2 = Lacking(row, c),
           NEW P, NEW P2, Rest(P, Change("drop_column", t, c), P2)
    PROVE  RowGoesOn(row, row2, t, a, b, P, P2)
<1>1. /\ DOMAIN row2 = DOMAIN row /\ row2.pk = row.pk /\ row2.fts = row.fts
      /\ row2.triggers = row.triggers
      /\ row2.cols = Drop(row.cols, c) /\ row2.data = Drop(row.data, c)
  BY DEF RowOK, Lacking
<1>2. PICK s : s = Change("drop_column", t, c) /\ s.type = "drop_column" /\ s.table = t /\ s.item = c
  BY DEF Change
<1>3. /\ \A type, i : Change(type, t, i) \in P /\ (type # "drop_column" \/ i # c) =>
             Change(type, t, i) \in P2
      /\ \A type : Whole(type, t) \in P /\ type # "drop_column" => Whole(type, t) \in P2
  BY <1>2, PlannedRest
<1>4. /\ DOMAIN row2.cols = DOMAIN row.cols \ {c}
      /\ DOMAIN row2.data = DOMAIN row.data \ {c}
      /\ \A i \in DOMAIN row2.cols : row2.cols[i] = row.cols[i]
      /\ \A i \in DOMAIN row2.data : row2.data[i] = row.data[i]
  BY <1>1 DEF Drop, Restrict, RowOK
<1>5. Range(row2.cols) \subseteq Col
  BY <1>4 DEF Range, RowOK
<1>6. RowOK(row2)
  BY <1>1, <1>4, <1>5 DEF RowOK
<1>7. RowOnWay(row, t, a, b, P) => RowOnWay(row2, t, a, b, P2)
  <2> SUFFICES ASSUME RowOnWay(row, t, a, b, P) PROVE RowOnWay(row2, t, a, b, P2)
    OBVIOUS
  <2>1. DOMAIN a.cols \cap DOMAIN b.cols \subseteq DOMAIN row2.cols
    BY <1>4 DEF RowOnWay
  <2>2. Recast(a, b) = {} =>
            \A i \in DOMAIN a.cols \cap DOMAIN b.cols : row2.data[i] = InTable(t, i)
    BY <1>4, <2>1 DEF RowOnWay, RowOK
  <2>3. \A i \in DOMAIN b.cols \ DOMAIN a.cols :
            i \in DOMAIN row2.cols \/ Change("add_column", t, i) \in P2
    BY <1>3, <1>4 DEF RowOnWay
  <2>4. \A i \in DOMAIN row2.cols \ DOMAIN b.cols : Change("drop_column", t, i) \in P2
    BY <1>3, <1>4 DEF RowOnWay
  <2>5. \A i \in DOMAIN row2.cols \cap DOMAIN b.cols :
           \/ row2.cols[i].clause = b.cols[i].clause
           \/ /\ i \in DOMAIN a.cols /\ row2.cols[i].clause = a.cols[i].clause
              /\ Change("modify_column", t, i) \in P2
    BY <1>3, <1>4 DEF RowOnWay
  <2>6. row2.pk = b.pk \/ Whole("change_pk_type", t) \in P2
    BY <1>1, <1>3 DEF RowOnWay
  <2> QED
    BY <2>1, <2>2, <2>3, <2>4, <2>5, <2>6 DEF RowOnWay
<1>8. FTSOnWay(row, t, a, b, P) => FTSOnWay(row2, t, a, b, P2)
  BY <1>1, <1>3, Zenon DEF FTSOnWay
<1>9. KeepsRenamed(row, row2, a, b)
  BY <1>4 DEF KeepsRenamed, RowOK
<1> QED
  BY <1>4, <1>6, <1>7, <1>8, <1>9 DEF RowGoesOn

\* A row whose columns stay is on its way as before, when its search is.
LEMMA SearchedRow ==
    ASSUME NEW row, RowOK(row), NEW t, NEW a, NEW b, NEW row2, RowOK(row2),
           row2.pk = row.pk, row2.cols = row.cols, row2.data = row.data,
           NEW P, NEW s, NEW P2, Rest(P, s, P2),
           s.type \in {"add_fts", "drop_fts"}, s.table = t,
           FTSOnWay(row, t, a, b, P) => FTSOnWay(row2, t, a, b, P2)
    PROVE  RowGoesOn(row, row2, t, a, b, P, P2)
<1>1. /\ \A kind, i : Change(kind, t, i) \in P /\ kind # s.type => Change(kind, t, i) \in P2
      /\ \A kind : Whole(kind, t) \in P /\ kind # s.type => Whole(kind, t) \in P2
  BY PlannedRest
<1>2. RowOnWay(row, t, a, b, P) => RowOnWay(row2, t, a, b, P2)
  BY <1>1 DEF RowOnWay
<1>3. KeepsRenamed(row, row2, a, b)
  BY DEF KeepsRenamed
<1> QED
  BY <1>2, <1>3 DEF RowGoesOn

Unsearched(row) == [row EXCEPT !.fts = {}, !.triggers = {}]

\* CREATE VIRTUAL TABLE and its triggers, unless they exist.
LEMMA SearchableRow ==
    ASSUME NEW row, RowOK(row), NEW t, NEW a, NEW b, SchemaTable(b),
           a.fts # b.fts, b.fts # {},
           NEW row2, row2 = CreateFTS(row, b.fts),
           NEW P, NEW s, NEW P2, Rest(P, s, P2), s.type = "add_fts", s.table = t
    PROVE  RowGoesOn(row, row2, t, a, b, P, P2)
<1>1. /\ DOMAIN row2 = DOMAIN row /\ row2.pk = row.pk /\ row2.cols = row.cols
      /\ row2.data = row.data
      /\ row2.fts = IF row.fts = {} THEN b.fts ELSE row.fts
      /\ row2.triggers = IF row.triggers = {} THEN b.fts ELSE row.triggers
  BY DEF RowOK, CreateFTS
<1>2. b.fts \subseteq Column
  BY DEF SchemaTable
<1>3. RowOK(row2)
  BY <1>1, <1>2 DEF RowOK
<1>4. FTSOnWay(row, t, a, b, P) => FTSOnWay(row2, t, a, b, P2)
  <2> SUFFICES ASSUME FTSOnWay(row, t, a, b, P)
               PROVE  a.fts = {} => row2.triggers = row2.fts /\ row2.fts = b.fts
    BY Zenon DEF FTSOnWay
  <2>1. a.fts = {} => row.triggers = row.fts /\ (row.fts = b.fts \/ row.fts = {})
    BY Zenon DEF FTSOnWay
  <2>2. CASE row.fts = {}
    BY <1>1, <2>1, <2>2, Zenon
  <2>3. CASE row.fts # {}
    BY <1>1, <2>1, <2>3, Zenon
  <2> QED
    BY <2>2, <2>3
<1> QED
  BY <1>1, <1>3, <1>4, SearchedRow

\* DROP TABLE and DROP TRIGGER of a search.
LEMMA UnsearchedRow ==
    ASSUME NEW row, RowOK(row), NEW t, NEW a, NEW b, a.fts # b.fts, a.fts # {},
           NEW row2, row2 = Unsearched(row),
           NEW P, NEW s, NEW P2, Rest(P, s, P2), s.type = "drop_fts", s.table = t
    PROVE  RowGoesOn(row, row2, t, a, b, P, P2)
<1>1. /\ DOMAIN row2 = DOMAIN row /\ row2.pk = row.pk /\ row2.cols = row.cols
      /\ row2.data = row.data /\ row2.fts = {} /\ row2.triggers = {}
  BY DEF RowOK, Unsearched
<1>2. RowOK(row2)
  BY <1>1 DEF RowOK
<1>3. FTSOnWay(row, t, a, b, P) => FTSOnWay(row2, t, a, b, P2)
  BY <1>1, Zenon DEF FTSOnWay
<1> QED
  BY <1>1, <1>2, <1>3, SearchedRow

\* A column whose clause stays has no statement.
LEMMA UnchangedRow ==
    ASSUME NEW row, RowOK(row), NEW t, NEW a, NEW b,
           NEW P, NEW s, NEW P2, Rest(P, s, P2), s.type = "modify_column", s.table = t,
           a.cols[s.item].clause = b.cols[s.item].clause
    PROVE  RowGoesOn(row, row, t, a, b, P, P2)
<1>1. /\ \A kind, i : /\ Change(kind, t, i) \in P
                      /\ kind # s.type \/ i # s.item
                      => Change(kind, t, i) \in P2
      /\ \A kind : Whole(kind, t) \in P /\ kind # s.type => Whole(kind, t) \in P2
  BY PlannedRest
<1>2. RowOnWay(row, t, a, b, P) => RowOnWay(row, t, a, b, P2)
  BY <1>1 DEF RowOnWay
<1>3. FTSOnWay(row, t, a, b, P) => FTSOnWay(row, t, a, b, P2)
  BY <1>1, Zenon DEF FTSOnWay
<1>4. KeepsRenamed(row, row, a, b)
  BY DEF KeepsRenamed
<1> QED
  BY <1>2, <1>3, <1>4 DEF RowGoesOn

\* What the first step of the plan needs to run.
LEMMA RunsMeans ==
    ASSUME NEW s, Runs(s)
    PROVE  /\ s.type = "rename" /\ s.from.type = "drop_table" => TableRenames(s)
           /\ s.type = "rename" /\ s.from.type = "drop_column" => ColumnRenames(s)
           /\ s.type = "add_table" => s.table \notin DOMAIN db.tables
           /\ s.type \in RowSteps /\ TakesMirror(s) => MirrorRuns(s.table)
           /\ s.type = "add_column" /\ ~TakesMirror(s) => Alters(s)
           /\ s.type = "add_index" =>
                  new[s.table].indexes[s.item] \in DOMAIN db.tables[s.table].cols
           /\ s.type = "drop_column" => Droppable(s.table, s.item)
<1>1. CASE s.type = "rename"
  <2>1. CASE s.from.type = "drop_table"
    BY <1>1, <2>1 DEF Runs, RowSteps
  <2>2. CASE s.from.type = "drop_column"
    BY <1>1, <2>2 DEF Runs, RowSteps
  <2>3. CASE s.from.type \notin {"drop_table", "drop_column"}
    BY <1>1, <2>3 DEF RowSteps
  <2> QED
    BY <2>1, <2>2, <2>3
<1>2. CASE s.type # "rename" /\ TakesMirror(s)
  <2>1. s.type \in {"change_pk_type", "add_column", "modify_column"}
    BY <1>2 DEF TakesMirror
  <2> HIDE DEF TakesMirror
  <2> QED
    BY <1>2, <2>1 DEF Runs
<1>3. CASE s.type # "rename" /\ ~TakesMirror(s)
  <2>1. CASE s.type = "add_table"
    BY <1>3, <2>1 DEF Runs
  <2>2. CASE s.type = "add_column"
    BY <1>3, <2>2 DEF Runs
  <2>3. CASE s.type = "add_index"
    BY <1>3, <2>3 DEF Runs
  <2>4. CASE s.type = "drop_column"
    BY <1>3, <2>4 DEF Runs
  <2> QED
    BY <1>3, <2>1, <2>2, <2>3, <2>4
<1> QED
  BY <1>1, <1>2, <1>3

\* The row of a step's table, and the step.
LEMMA RowOfStep ==
    ASSUME Base, NEW type \in RowSteps \cup {"add_index", "drop_index"}, Run(type)
    PROVE  /\ First.type = type /\ Says(First, old, new) /\ Runs(First)
           /\ First.table \in DOMAIN old \cap DOMAIN new
           /\ First.table \in DOMAIN db.tables
           /\ First = Change(type, First.table, First.item)
           /\ RowOK(db.tables[First.table])
           /\ Rest(Range(plan), First, Range(plan'))
           /\ SchemaTable(old[First.table]) /\ SchemaTable(new[First.table])
           /\ \A x \in DOMAIN db.indexes : IndexOK(db.indexes[x], db.tables)
<1>1. type # "rename" /\ type \notin {"drop_table", "add_table"}
  BY DEF RowSteps
<1>2. /\ First.type = type /\ Says(First, old, new) /\ Runs(First)
      /\ Rest(Range(plan), First, Range(plan'))
  BY <1>1, Running
<1>3. First.table \in DOMAIN old \cap DOMAIN new /\ First = Change(type, First.table, First.item)
  BY <1>1, <1>2 DEF Says
<1> QED
  BY <1>2, <1>3 DEF Base, DatabaseOK, Schema

\* A step that sets one row steps one row.
LEMMA SetTableSteps ==
    ASSUME DatabaseOK(db), NEW t, NEW row, db' = SetTable(db, t, row)
    PROVE  RowStep(db, db', t, row)
BY DEF DatabaseOK, RowStep, SetTable, Put

\* ALTER TABLE ... ADD COLUMN.
LEMMA AddColumnIsGood ==
    ASSUME Base, AddColumn, ~TakesMirror(First)
    PROVE  StepIsGood
<1>1. Run("add_column") /\ "add_column" \in RowSteps
  BY DEF AddColumn, RowSteps
<1>2. PICK t, c, row, a, b, P, P2 :
        /\ t = First.table /\ c = First.item /\ row = db.tables[t] /\ a = old[t] /\ b = new[t]
        /\ P = Range(plan) /\ P2 = Range(plan')
  OBVIOUS
<1>3. /\ RowOK(row) /\ SchemaTable(b) /\ Rest(P, Change("add_column", t, c), P2)
      /\ c \in DOMAIN b.cols /\ c \notin DOMAIN a.cols /\ c \notin DOMAIN row.cols
      /\ \A x \in DOMAIN db.indexes :
             db.indexes[x][1] = t => db.indexes[x][2] \in DOMAIN row.cols
  <2>1. /\ First.type = "add_column" /\ Says(First, old, new) /\ Runs(First)
        /\ RowOK(row) /\ SchemaTable(b) /\ First = Change("add_column", t, c)
        /\ Rest(P, First, P2)
        /\ \A x \in DOMAIN db.indexes : IndexOK(db.indexes[x], db.tables)
    BY <1>1, <1>2, RowOfStep
  <2>2. Alters(First)
    BY <2>1, RunsMeans
  <2> QED
    BY <1>2, <2>1, <2>2 DEF Says, Alters, IndexOK
<1>4. PICK row2 : row2 = Altered(row, c, b.cols[c])
  OBVIOUS
<1>5. RowGoesOn(row, row2, t, a, b, P, P2)
  BY <1>3, <1>4, AlteredRow
<1>7. \A i \in DOMAIN row.cols : i \in DOMAIN row2.cols
  BY <1>3, <1>4 DEF Altered, Put, RowOK
<1>6. RowStep(db, db', t, row2)
  <2>1. db' = SetTable(db, t, row2)
    BY <1>2, <1>4 DEF AddColumn, On, Altered
  <2> QED
    BY <2>1, SetTableSteps DEF Base
<1> QED
  BY <1>1, <1>2, <1>3, <1>5, <1>6, <1>7, RowStepIsGood

\* ALTER TABLE ... DROP COLUMN.
LEMMA DropColumnIsGood ==
    ASSUME Base, DropColumn
    PROVE  StepIsGood
<1>1. Run("drop_column") /\ "drop_column" \in RowSteps
  BY DEF DropColumn, RowSteps
<1>2. PICK t, c, row, a, b, P, P2 :
        /\ t = First.table /\ c = First.item /\ row = db.tables[t] /\ a = old[t] /\ b = new[t]
        /\ P = Range(plan) /\ P2 = Range(plan')
  OBVIOUS
<1>3. /\ RowOK(row) /\ Rest(P, Change("drop_column", t, c), P2)
      /\ c \in DOMAIN a.cols /\ c \notin DOMAIN b.cols /\ c \notin row.pk
      /\ \A x \in DOMAIN db.indexes :
             db.indexes[x][1] = t => db.indexes[x][2] \in DOMAIN row.cols \ {c}
  <2>1. /\ First.type = "drop_column" /\ Says(First, old, new) /\ Runs(First)
        /\ RowOK(row) /\ First = Change("drop_column", t, c)
        /\ Rest(P, First, P2)
        /\ \A x \in DOMAIN db.indexes : IndexOK(db.indexes[x], db.tables)
    BY <1>1, <1>2, RowOfStep
  <2>2. c \notin row.pk /\ <<t, c>> \notin Range(db.indexes)
    BY <1>2, <2>1, RunsMeans DEF Droppable
  <2>3. ASSUME NEW x \in DOMAIN db.indexes, db.indexes[x][1] = t
        PROVE  db.indexes[x][2] \in DOMAIN row.cols \ {c}
    <3>1. PICK on : on = db.indexes[x] /\ on \in Table \X Column /\ on[1] = t
                    /\ on[2] \in DOMAIN row.cols
      BY <1>2, <2>1, <2>3 DEF IndexOK
    <3>2. on \in Range(db.indexes)
      BY <3>1 DEF Range
    <3>3. on[2] = c => on = <<t, c>>
      BY <3>1
    <3> QED
      BY <2>2, <3>1, <3>2, <3>3
  <2> QED
    BY <1>2, <2>1, <2>2, <2>3 DEF Says
<1>4. PICK row2 : row2 = Lacking(row, c)
  OBVIOUS
<1>5. RowGoesOn(row, row2, t, a, b, P, P2)
  BY <1>3, <1>4, DroppedFromRow
<1>7. \A i \in DOMAIN row.cols : i # c => i \in DOMAIN row2.cols
  BY <1>3, <1>4 DEF Lacking, Drop, Restrict, RowOK
<1>6. RowStep(db, db', t, row2)
  <2>1. db' = SetTable(db, t, row2)
    BY <1>2, <1>4 DEF DropColumn, On, Lacking
  <2> QED
    BY <2>1, SetTableSteps DEF Base
<1> QED
  BY <1>1, <1>2, <1>3, <1>5, <1>6, <1>7, RowStepIsGood

\* The search table and its triggers are built ...
LEMMA AddFTSIsGood ==
    ASSUME Base, AddFTS
    PROVE  StepIsGood
<1>1. Run("add_fts") /\ "add_fts" \in RowSteps
  BY DEF AddFTS, RowSteps
<1>2. PICK t, row, a, b, P, P2, s :
        /\ t = First.table /\ row = db.tables[t] /\ a = old[t] /\ b = new[t]
        /\ P = Range(plan) /\ P2 = Range(plan') /\ s = First
  OBVIOUS
<1>3. /\ RowOK(row) /\ SchemaTable(b) /\ Rest(P, s, P2) /\ s.type = "add_fts" /\ s.table = t
      /\ a.fts # b.fts /\ b.fts # {}
      /\ \A x \in DOMAIN db.indexes :
             db.indexes[x][1] = t => db.indexes[x][2] \in DOMAIN row.cols
  <2>1. /\ s.type = "add_fts" /\ Says(s, old, new)
        /\ RowOK(row) /\ SchemaTable(b) /\ Rest(P, s, P2)
        /\ \A x \in DOMAIN db.indexes : IndexOK(db.indexes[x], db.tables)
    BY <1>1, <1>2, RowOfStep
  <2> QED
    BY <1>2, <2>1 DEF Says, IndexOK
<1>4. PICK row2 : row2 = CreateFTS(row, b.fts)
  OBVIOUS
<1>5. RowGoesOn(row, row2, t, a, b, P, P2)
  BY <1>3, <1>4, SearchableRow
<1>6. RowStep(db, db', t, row2)
  <2>1. db' = SetTable(db, t, row2)
    BY <1>2, <1>4 DEF AddFTS, On
  <2> QED
    BY <2>1, SetTableSteps DEF Base
<1>7. row2.cols = row.cols
  BY <1>3, <1>4 DEF CreateFTS, RowOK
<1> QED
  BY <1>1, <1>2, <1>3, <1>5, <1>6, <1>7, RowStepIsGood

\* ... and dropped.
LEMMA DropFTSIsGood ==
    ASSUME Base, DropFTS
    PROVE  StepIsGood
<1>1. Run("drop_fts") /\ "drop_fts" \in RowSteps
  BY DEF DropFTS, RowSteps
<1>2. PICK t, row, a, b, P, P2, s :
        /\ t = First.table /\ row = db.tables[t] /\ a = old[t] /\ b = new[t]
        /\ P = Range(plan) /\ P2 = Range(plan') /\ s = First
  OBVIOUS
<1>3. /\ RowOK(row) /\ Rest(P, s, P2) /\ s.type = "drop_fts" /\ s.table = t
      /\ a.fts # b.fts /\ a.fts # {}
      /\ \A x \in DOMAIN db.indexes :
             db.indexes[x][1] = t => db.indexes[x][2] \in DOMAIN row.cols
  <2>1. /\ s.type = "drop_fts" /\ Says(s, old, new)
        /\ RowOK(row) /\ Rest(P, s, P2)
        /\ \A x \in DOMAIN db.indexes : IndexOK(db.indexes[x], db.tables)
    BY <1>1, <1>2, RowOfStep
  <2> QED
    BY <1>2, <2>1 DEF Says, IndexOK
<1>4. PICK row2 : row2 = Unsearched(row)
  OBVIOUS
<1>5. RowGoesOn(row, row2, t, a, b, P, P2)
  BY <1>3, <1>4, UnsearchedRow
<1>6. RowStep(db, db', t, row2)
  <2>1. db' = SetTable(db, t, row2)
    BY <1>2, <1>4 DEF DropFTS, On, Unsearched
  <2> QED
    BY <2>1, SetTableSteps DEF Base
<1>7. row2.cols = row.cols
  BY <1>3, <1>4 DEF Unsearched, RowOK
<1> QED
  BY <1>1, <1>2, <1>3, <1>5, <1>6, <1>7, RowStepIsGood

\* A modified column that needs no mirror leaves the table alone.
LEMMA ModifyColumnIsGood ==
    ASSUME Base, ModifyColumn, ~TakesMirror(First)
    PROVE  StepIsGood
<1>1. Run("modify_column") /\ "modify_column" \in RowSteps
  BY DEF ModifyColumn, RowSteps
<1>2. PICK t, row, a, b, P, P2, s :
        /\ t = First.table /\ row = db.tables[t] /\ a = old[t] /\ b = new[t]
        /\ P = Range(plan) /\ P2 = Range(plan') /\ s = First
  OBVIOUS
<1>3. /\ RowOK(row) /\ Rest(P, s, P2) /\ s.type = "modify_column" /\ s.table = t
      /\ t \in DOMAIN db.tables
      /\ \A x \in DOMAIN db.indexes : IndexOK(db.indexes[x], db.tables)
  BY <1>1, <1>2, RowOfStep
<1>4. a.cols[s.item].clause = b.cols[s.item].clause
  BY <1>2, <1>3 DEF TakesMirror, RequiresMirrorTable
<1>5. RowGoesOn(row, row, t, a, b, P, P2)
  BY <1>3, <1>4, UnchangedRow
<1>6. RowStep(db, db', t, row)
  BY <1>2, <1>3 DEF ModifyColumn, RowStep, Base, DatabaseOK
<1>7. \A x \in DOMAIN db.indexes : db.indexes[x][1] = t => db.indexes[x][2] \in DOMAIN row.cols
  BY <1>2, <1>3 DEF IndexOK
<1> QED
  BY <1>1, <1>2, <1>3, <1>5, <1>6, <1>7, RowStepIsGood
-----------------------------------------------------------------------------
(* Steps on indexes. *)

\* A table that stays as it is keeps its data.
LEMMA SameTablesKept ==
    ASSUME NEW T, NEW o, NEW n, NEW S
    PROVE  KeepsTables(T, T, o, n, S)
<1>1. \A row, a, b : KeepsRenamed(row, row, a, b)
  BY DEF KeepsRenamed
<1> QED
  BY <1>1 DEF KeepsTables

\* A step that leaves the tables alone, and the indexes on their way, is good.
LEMMA IndexStepIsGood ==
    ASSUME Base, NEW type \in {"add_index", "drop_index"}, Run(type),
           DOMAIN db' = {"tables", "indexes"}, db'.tables = db.tables,
           \A x \in DOMAIN db'.indexes : IndexOK(db'.indexes[x], db.tables),
           IndexesOnWay(db.indexes, old, new, Range(plan)) =>
               IndexesOnWay(db'.indexes, old, new, Range(plan'))
    PROVE  StepIsGood
<1>1. PICK o, n, T, P, P2, s :
        /\ o = old /\ n = new /\ T = db.tables /\ P = Range(plan) /\ P2 = Range(plan')
        /\ s = First
  OBVIOUS
<1>2. Rest(P, s, P2) /\ s.type = type
  BY <1>1, Running
<1>3. Base'
  <2>1. DatabaseOK(db')
    BY DEF Base, DatabaseOK
  <2>2. DOMAIN old \cap DOMAIN new \subseteq DOMAIN db'.tables
    BY DEF Base
  <2> QED
    BY <2>1, <2>2, StepKeepsBase
<1>4. ASSUME TablesOnWay(T, o, n, P) PROVE TablesOnWay(T, o, n, P2)
  <2>1. \A kind, u : Whole(kind, u) \in P /\ kind # type => Whole(kind, u) \in P2
    BY <1>2, PlannedRest
  <2>2. \A kind, u, i : Change(kind, u, i) \in P /\ kind # type => Change(kind, u, i) \in P2
    BY <1>2, PlannedRest
  <2>3. ASSUME NEW row, NEW u, NEW a, NEW b
        PROVE  /\ RowOnWay(row, u, a, b, P) => RowOnWay(row, u, a, b, P2)
               /\ FTSOnWay(row, u, a, b, P) => FTSOnWay(row, u, a, b, P2)
    <3>1. RowOnWay(row, u, a, b, P) => RowOnWay(row, u, a, b, P2)
      BY <2>1, <2>2 DEF RowOnWay
    <3>2. FTSOnWay(row, u, a, b, P) => FTSOnWay(row, u, a, b, P2)
      BY <2>1 DEF FTSOnWay
    <3> QED
      BY <3>1, <3>2
  <2> QED
    BY <1>4, <2>1, <2>3 DEF TablesOnWay
<1>5. ASSUME OnWay(db, o, n, P) PROVE OnWay(db', o, n, P2)
  <2>1. TablesOnWay(T, o, n, P2)
    BY <1>1, <1>4, <1>5 DEF OnWay
  <2>2. P2 \subseteq Changes(o, n)
    BY <1>2, <1>5 DEF OnWay, Rest
  <2> QED
    BY <1>1, <1>5, <2>1, <2>2 DEF OnWay
<1>6. KeepsTables(db.tables, db'.tables, old, new, Changes(old, new))
  BY SameTablesKept
<1> QED
  BY <1>1, <1>3, <1>5, <1>6 DEF StepIsGood

(* CREATE INDEX IF NOT EXISTS of one index *)
WithIndex(X, x, on) ==
    [y \in DOMAIN X \cup {x} |-> IF y \in DOMAIN X THEN X[y] ELSE on]

\* An index that is created now is no longer planned ...
LEMMA IndexAdded ==
    ASSUME NEW X, NEW o, NEW n, NEW P, NEW s, NEW P2, Rest(P, s, P2),
           s.type = "add_index", s.table \in DOMAIN n, s.item \in DOMAIN n[s.table].indexes,
           IndexesOnWay(X, o, n, P),
           NEW X2, X2 = WithIndex(X, s.item, <<s.table, n[s.table].indexes[s.item]>>)
    PROVE  IndexesOnWay(X2, o, n, P2)
<1>1. PICK t, i : t = s.table /\ i = s.item
  OBVIOUS
<1>2. /\ DOMAIN X2 = DOMAIN X \cup {i} /\ \A x \in DOMAIN X : X2[x] = X[x]
      /\ i \notin DOMAIN X => X2[i] = <<t, n[t].indexes[i]>>
  BY <1>1 DEF WithIndex
<1>3. /\ \A u, x : Change("add_index", u, x) \in P /\ x # i => Change("add_index", u, x) \in P2
      /\ \A u : Whole("add_table", u) \in P => Whole("add_table", u) \in P2
  BY <1>1, PlannedRest
<1>4. ASSUME NEW u \in DOMAIN n, NEW x \in DOMAIN n[u].indexes, Own(x, u, o, n)
      PROVE  IF x \in DOMAIN X2 THEN X2[x] = <<u, n[u].indexes[x]>>
             ELSE \/ Change("add_index", u, x) \in P2
                  \/ u \notin DOMAIN o /\ Whole("add_table", u) \in P2
  <2>1. CASE x \in DOMAIN X
    BY <1>2, <1>4, <2>1 DEF IndexesOnWay
  <2>2. CASE x \notin DOMAIN X /\ x = i
    <3>1. t = u
      BY <1>1, <1>4, <2>2 DEF Own
    <3> QED
      BY <1>2, <2>2, <3>1
  <2>3. CASE x \notin DOMAIN X /\ x # i
    BY <1>2, <1>3, <1>4, <2>3 DEF IndexesOnWay
  <2> QED
    BY <2>1, <2>2, <2>3
<1> QED
  BY <1>4 DEF IndexesOnWay

\* ... and one that is dropped is none of the pushed schema.
LEMMA IndexDropped ==
    ASSUME NEW X, NEW o, NEW n, NEW P, NEW s, NEW P2, Rest(P, s, P2),
           s.type = "drop_index", s.table \in DOMAIN o,
           s.item \in DOMAIN o[s.table].indexes, s.item \notin DOMAIN n[s.table].indexes,
           IndexesOnWay(X, o, n, P), NEW X2, X2 = Drop(X, s.item)
    PROVE  IndexesOnWay(X2, o, n, P2)
<1>1. PICK t, i : t = s.table /\ i = s.item
  OBVIOUS
<1>2. DOMAIN X2 = DOMAIN X \ {i} /\ \A x \in DOMAIN X2 : X2[x] = X[x]
  BY <1>1 DEF Drop, Restrict
<1>3. /\ \A u, x : Change("add_index", u, x) \in P => Change("add_index", u, x) \in P2
      /\ \A u : Whole("add_table", u) \in P => Whole("add_table", u) \in P2
  BY <1>1, PlannedRest
<1>4. ASSUME NEW u \in DOMAIN n, NEW x \in DOMAIN n[u].indexes, Own(x, u, o, n)
      PROVE  IF x \in DOMAIN X2 THEN X2[x] = <<u, n[u].indexes[x]>>
             ELSE \/ Change("add_index", u, x) \in P2
                  \/ u \notin DOMAIN o /\ Whole("add_table", u) \in P2
  <2>1. x # i
    BY <1>1, <1>4 DEF Own
  <2>2. IF x \in DOMAIN X THEN X[x] = <<u, n[u].indexes[x]>>
        ELSE \/ Change("add_index", u, x) \in P
             \/ u \notin DOMAIN o /\ Whole("add_table", u) \in P
    BY <1>4 DEF IndexesOnWay
  <2> QED
    BY <1>2, <1>3, <2>1, <2>2
<1> QED
  BY <1>4 DEF IndexesOnWay

\* CREATE INDEX, if the name is free ...
LEMMA AddIndexIsGood ==
    ASSUME Base, AddIndex
    PROVE  StepIsGood
<1>1. Run("add_index") /\ "add_index" \in RowSteps \cup {"add_index", "drop_index"}
  BY DEF AddIndex, RowSteps
<1>2. PICK s, t, i, X, X2 :
        /\ s = First /\ t = First.table /\ i = First.item
        /\ X = db.indexes /\ X2 = db'.indexes
  OBVIOUS
<1>3. /\ s.type = "add_index" /\ Says(s, old, new) /\ Runs(s) /\ s.table = t /\ s.item = i
      /\ t \in DOMAIN new /\ t \in DOMAIN db.tables
      /\ RowOK(db.tables[t]) /\ Rest(Range(plan), s, Range(plan'))
      /\ \A x \in DOMAIN X : IndexOK(X[x], db.tables)
  BY <1>1, <1>2, RowOfStep
<1>4. i \in DOMAIN new[t].indexes /\ new[t].indexes[i] \in DOMAIN db.tables[t].cols
  <2>1. i \in DOMAIN new[t].indexes
    BY <1>3, Zenon DEF Says
  <2> QED
    BY <1>3, <2>1, RunsMeans
<1>5. /\ DOMAIN db' = {"tables", "indexes"} /\ db'.tables = db.tables
      /\ X2 = [x \in DOMAIN X \cup {i} |->
                  IF x \in DOMAIN X THEN X[x] ELSE <<t, new[t].indexes[i]>>]
  <2>1. db' = CreateIndexes(db, t, [x \in {i} |-> new[t].indexes[x]])
    BY <1>2 DEF AddIndex, On
  <2> QED
    BY <1>2, <2>1 DEF CreateIndexes, Base, DatabaseOK
<1>6. X2 = WithIndex(X, i, <<t, new[t].indexes[i]>>)
  BY <1>5 DEF WithIndex
<1>7. IndexesOnWay(X, old, new, Range(plan)) => IndexesOnWay(X2, old, new, Range(plan'))
  <2>1. PICK o, n, P, P2 : o = old /\ n = new /\ P = Range(plan) /\ P2 = Range(plan')
    OBVIOUS
  <2>2. ASSUME IndexesOnWay(X, o, n, P) PROVE IndexesOnWay(X2, o, n, P2)
    BY <1>3, <1>4, <1>6, <2>1, <2>2, IndexAdded
  <2> QED
    BY <2>1, <2>2
<1>8. \A x \in DOMAIN X2 : IndexOK(X2[x], db.tables)
  <2>1. IndexOK(<<t, new[t].indexes[i]>>, db.tables)
    <3>1. t \in Table /\ new[t].indexes[i] \in Column
      BY <1>3, <1>4 DEF Base, DatabaseOK, RowOK
    <3> QED
      BY <1>3, <1>4, <3>1 DEF IndexOK
  <2> QED
    BY <1>3, <1>5, <2>1
<1> QED
  BY <1>1, <1>2, <1>5, <1>7, <1>8, IndexStepIsGood

\* ... and DROP INDEX, whoever's the name is.
LEMMA DropIndexIsGood ==
    ASSUME Base, DropIndex
    PROVE  StepIsGood
<1>1. Run("drop_index") /\ "drop_index" \in RowSteps \cup {"add_index", "drop_index"}
  BY DEF DropIndex, RowSteps
<1>2. PICK s, t, i, X, X2 :
        /\ s = First /\ t = First.table /\ i = First.item
        /\ X = db.indexes /\ X2 = db'.indexes
  OBVIOUS
<1>3. /\ s.type = "drop_index" /\ Says(s, old, new) /\ s.table = t /\ s.item = i
      /\ t \in DOMAIN old /\ Rest(Range(plan), s, Range(plan'))
      /\ \A x \in DOMAIN X : IndexOK(X[x], db.tables)
  BY <1>1, <1>2, RowOfStep
<1>4. i \in DOMAIN old[t].indexes /\ i \notin DOMAIN new[t].indexes
  BY <1>3, Zenon DEF Says
<1>5. DOMAIN db' = {"tables", "indexes"} /\ db'.tables = db.tables /\ X2 = Drop(X, i)
  BY <1>2 DEF DropIndex, Base, DatabaseOK
<1>6. IndexesOnWay(X, old, new, Range(plan)) => IndexesOnWay(X2, old, new, Range(plan'))
  <2>1. PICK o, n, P, P2 : o = old /\ n = new /\ P = Range(plan) /\ P2 = Range(plan')
    OBVIOUS
  <2>2. ASSUME IndexesOnWay(X, o, n, P) PROVE IndexesOnWay(X2, o, n, P2)
    BY <1>3, <1>4, <1>5, <2>1, <2>2, IndexDropped
  <2> QED
    BY <2>1, <2>2
<1>7. \A x \in DOMAIN X2 : IndexOK(X2[x], db.tables)
  BY <1>3, <1>5 DEF Drop, Restrict
<1> QED
  BY <1>1, <1>2, <1>5, <1>6, <1>7, IndexStepIsGood
-----------------------------------------------------------------------------
(* Steps that build or drop a table with its indexes. *)

(* t gets the row row, and its indexes are indexes unless a name is taken *)
TableBuilt(d, d2, t, row, indexes) ==
    /\ DOMAIN d2 = {"tables", "indexes"}
    /\ RowSet(d.tables, d2.tables, t, row)
    /\ \A x \in DOMAIN d2.indexes :
           x \in DOMAIN indexes \/ (x \in DOMAIN d.indexes /\ d.indexes[x][1] # t)
    /\ \A x \in DOMAIN d.indexes : d.indexes[x][1] # t =>
           x \in DOMAIN d2.indexes /\ d2.indexes[x] = d.indexes[x]
    /\ \A x \in DOMAIN indexes :
           /\ x \in DOMAIN d2.indexes
           /\ \/ d2.indexes[x] = <<t, indexes[x]>>
              \/ x \in DOMAIN d.indexes /\ d.indexes[x][1] # t

\* The database is well formed if the table that was built is.
LEMMA TableBuiltOK ==
    ASSUME NEW d, NEW d2, NEW t \in Table, NEW row, NEW indexes,
           TableBuilt(d, d2, t, row, indexes), DatabaseOK(d), RowOK(row),
           Range(indexes) \subseteq DOMAIN row.cols
    PROVE  DatabaseOK(d2) /\ DOMAIN d.tables \subseteq DOMAIN d2.tables
<1>1. PICK T, T2, X, X2 : T = d.tables /\ T2 = d2.tables /\ X = d.indexes /\ X2 = d2.indexes
  OBVIOUS
<1>2. /\ DOMAIN T2 = DOMAIN T \cup {t} /\ T2[t] = row
      /\ \A u \in DOMAIN T : u # t => T2[u] = T[u]
  BY <1>1 DEF TableBuilt, RowSet
<1>3. DOMAIN T \subseteq Table /\ (\A u \in DOMAIN T : RowOK(T[u]))
      /\ \A x \in DOMAIN X : IndexOK(X[x], T)
  BY <1>1 DEF DatabaseOK
<1>4. ASSUME NEW x \in DOMAIN X2 PROVE IndexOK(X2[x], T2)
  <2>1. CASE x \in DOMAIN X /\ X[x][1] # t
    <3>1. X2[x] = X[x]
      BY <1>1, <2>1 DEF TableBuilt
    <3> QED
      BY <1>2, <1>3, <2>1, <3>1 DEF IndexOK
  <2>2. CASE ~(x \in DOMAIN X /\ X[x][1] # t)
    <3>1. x \in DOMAIN indexes /\ X2[x] = <<t, indexes[x]>>
      BY <1>1, <1>4, <2>2 DEF TableBuilt
    <3>2. indexes[x] \in DOMAIN row.cols /\ indexes[x] \in Column
      BY <3>1 DEF Range, RowOK
    <3> QED
      BY <1>2, <3>1, <3>2 DEF IndexOK
  <2> QED
    BY <2>1, <2>2
<1>5. DOMAIN T2 \subseteq Table /\ \A u \in DOMAIN T2 : RowOK(T2[u])
  BY <1>2, <1>3
<1>6. DOMAIN d2 = {"tables", "indexes"}
  BY DEF TableBuilt
<1> QED
  BY <1>1, <1>2, <1>4, <1>5, <1>6 DEF DatabaseOK

\* The indexes of the pushed schema are on their way as before.
LEMMA TableBuiltIndexes ==
    ASSUME NEW d, NEW d2, NEW t, NEW row, NEW o, NEW n, NEW P, NEW s, NEW P2,
           TableBuilt(d, d2, t, row, n[t].indexes), IndexesOnWay(d.indexes, o, n, P),
           Rest(P, s, P2), s.table = t, s.type # "add_index", t \in DOMAIN n
    PROVE  IndexesOnWay(d2.indexes, o, n, P2)
<1>1. PICK X, X2 : X = d.indexes /\ X2 = d2.indexes
  OBVIOUS
<1>2. /\ \A u, x : Change("add_index", u, x) \in P => Change("add_index", u, x) \in P2
      /\ \A u : Whole("add_table", u) \in P /\ u # t => Whole("add_table", u) \in P2
  BY PlannedRest
<1>3. ASSUME NEW u \in DOMAIN n, NEW x \in DOMAIN n[u].indexes, Own(x, u, o, n)
      PROVE  IF x \in DOMAIN X2 THEN X2[x] = <<u, n[u].indexes[x]>>
             ELSE \/ Change("add_index", u, x) \in P2
                  \/ u \notin DOMAIN o /\ Whole("add_table", u) \in P2
  <2>1. IF x \in DOMAIN X THEN X[x] = <<u, n[u].indexes[x]>>
        ELSE \/ Change("add_index", u, x) \in P
             \/ u \notin DOMAIN o /\ Whole("add_table", u) \in P
    BY <1>1, <1>3 DEF IndexesOnWay
  <2>2. x \in DOMAIN X => X[x][1] = u
    BY <2>1
  <2>3. CASE u = t
    BY <1>1, <2>2, <2>3 DEF TableBuilt
  <2>4. CASE u # t /\ x \in DOMAIN X
    BY <1>1, <2>1, <2>2, <2>4 DEF TableBuilt
  <2>5. CASE u # t /\ x \notin DOMAIN X
    <3>1. x \notin DOMAIN n[t].indexes
      BY <1>3, <2>5 DEF Own
    <3>2. x \notin DOMAIN X2
      BY <1>1, <2>5, <3>1 DEF TableBuilt
    <3> QED
      BY <1>2, <2>1, <2>5, <3>2
  <2> QED
    BY <2>3, <2>4, <2>5
<1> QED
  BY <1>1, <1>3 DEF IndexesOnWay

\* The statements that build a table and its indexes.
LEMMA StatementsBuild ==
    ASSUME NEW d, NEW d0, NEW t, NEW row, NEW indexes, NEW d2,
           DOMAIN d0 = {"tables", "indexes"}, d0.tables = d.tables,
           \A x : x \in DOMAIN d0.indexes <=> x \in DOMAIN d.indexes /\ d.indexes[x][1] # t,
           \A x \in DOMAIN d0.indexes : d0.indexes[x] = d.indexes[x],
           d2 = CreateIndexes(SetTable(d0, t, row), t, indexes)
    PROVE  TableBuilt(d, d2, t, row, indexes)
<1>1. PICK d1 : d1 = SetTable(d0, t, row)
  OBVIOUS
<1>2. DOMAIN d1 = {"tables", "indexes"} /\ d1.indexes = d0.indexes /\ RowSet(d.tables, d1.tables, t, row)
  BY <1>1 DEF SetTable, Put, RowSet
<1>3. PICK X, X0, X2 : X = d.indexes /\ X0 = d0.indexes /\ X2 = d2.indexes
  OBVIOUS
<1>4. /\ DOMAIN d2 = {"tables", "indexes"} /\ d2.tables = d1.tables
      /\ X2 = [x \in DOMAIN X0 \cup DOMAIN indexes |->
                  IF x \in DOMAIN X0 THEN X0[x] ELSE <<t, indexes[x]>>]
  BY <1>1, <1>2, <1>3 DEF CreateIndexes
<1>5. /\ \A x \in DOMAIN X2 : x \in DOMAIN indexes \/ x \in DOMAIN X0
      /\ \A x \in DOMAIN X0 : x \in DOMAIN X2 /\ X2[x] = X0[x]
      /\ \A x \in DOMAIN indexes :
             x \in DOMAIN X2 /\ (X2[x] = <<t, indexes[x]>> \/ x \in DOMAIN X0)
  BY <1>4
<1> QED
  BY <1>2, <1>3, <1>4, <1>5 DEF TableBuilt

\* CREATE TABLE with its search and indexes.
LEMMA AddTableIsGood ==
    ASSUME Base, AddTable
    PROVE  StepIsGood
<1>1. Run("add_table")
  BY DEF AddTable
<1>2. PICK s, t, o, n, b, d, d2, P, P2 :
        /\ s = First /\ t = First.table /\ o = old /\ n = new /\ b = new[t]
        /\ d = db /\ d2 = db' /\ P = Range(plan) /\ P2 = Range(plan')
  OBVIOUS
<1>3. PICK row : row = [pk |-> b.pk, cols |-> b.cols,
                        data |-> [c \in DOMAIN b.cols |-> Empty],
                        fts |-> b.fts, triggers |-> b.fts]
  OBVIOUS
<1>4. /\ s.type = "add_table" /\ Says(s, o, n) /\ Runs(s) /\ s.table = t
      /\ Rest(P, s, P2) /\ DatabaseOK(d) /\ Schema(n)
      /\ DOMAIN o \cap DOMAIN n \subseteq DOMAIN d.tables
  BY <1>1, <1>2, Running DEF Base
<1>5. t \in DOMAIN n /\ t \notin DOMAIN o /\ t \notin DOMAIN d.tables
  <2>1. s.table \notin DOMAIN db.tables
    BY <1>4, RunsMeans
  <2> QED
    BY <1>2, <1>4, <2>1 DEF Says
<1>6. SchemaTable(b) /\ t \in Table /\ b = n[t]
  BY <1>2, <1>4, <1>5 DEF Schema
<1>7. /\ RowOK(row) /\ RowIsNew(row, b) /\ Range(b.indexes) \subseteq DOMAIN row.cols
  <2>1. RowOK(row)
    BY <1>3, <1>6 DEF RowOK, SchemaTable
  <2> QED
    BY <1>3, <1>6, <2>1 DEF RowIsNew, SchemaTable
<1>8. TableBuilt(d, d2, t, row, b.indexes)
  <2>1. d2 = CreateIndexes(SetTable(d, t, row), t, b.indexes)
    BY <1>2, <1>3 DEF AddTable, On
  <2>2. \A x \in DOMAIN d.indexes : d.indexes[x][1] # t
    BY <1>4, <1>5 DEF DatabaseOK, IndexOK
  <2>3. DOMAIN d = {"tables", "indexes"}
    BY <1>4 DEF DatabaseOK
  <2> QED
    BY <2>1, <2>2, <2>3, StatementsBuild
<1>9. DatabaseOK(d2) /\ DOMAIN d.tables \subseteq DOMAIN d2.tables
  BY <1>4, <1>6, <1>7, <1>8, TableBuiltOK
<1>10. Base'
  <2>1. DatabaseOK(db') /\ DOMAIN old \cap DOMAIN new \subseteq DOMAIN db'.tables
    BY <1>2, <1>4, <1>9
  <2> QED
    BY <1>1, <2>1, StepKeepsBase
<1>11. PICK T, T2 : T = d.tables /\ T2 = d2.tables
  OBVIOUS
<1>12. /\ DOMAIN T2 = DOMAIN T \cup {t} /\ T2[t] = row
       /\ \A u \in DOMAIN T : u # t => T2[u] = T[u]
  BY <1>8, <1>11 DEF TableBuilt, RowSet
<1>13. ASSUME OnWay(d, o, n, P) PROVE OnWay(d2, o, n, P2)
  <2>1. TablesOnWay(T, o, n, P) /\ IndexesOnWay(d.indexes, o, n, P)
    BY <1>11, <1>13 DEF OnWay
  <2>2. /\ \A u : Whole("drop_table", u) \in P => Whole("drop_table", u) \in P2
        /\ \A u : Whole("add_table", u) \in P /\ u # t => Whole("add_table", u) \in P2
    BY <1>4, PlannedRest
  <2>3. \A u \in DOMAIN T2 \ DOMAIN n : Whole("drop_table", u) \in P2
    BY <1>5, <1>12, <2>1, <2>2 DEF TablesOnWay
  <2>4. ASSUME NEW u \in DOMAIN n \ DOMAIN o
        PROVE  \/ u \in DOMAIN T2 /\ RowIsNew(T2[u], n[u])
               \/ u \notin DOMAIN T2 /\ Whole("add_table", u) \in P2
    <3>1. CASE u = t
      BY <1>6, <1>7, <1>12, <3>1
    <3>2. CASE u # t
      BY <1>12, <2>1, <2>2, <3>2 DEF TablesOnWay
    <3> QED
      BY <3>1, <3>2
  <2>5. ASSUME NEW u \in DOMAIN n \cap DOMAIN o
        PROVE  RowOnWay(T2[u], u, o[u], n[u], P2) /\ FTSOnWay(T2[u], u, o[u], n[u], P2)
    <3>1. u # t /\ T2[u] = T[u]
      BY <1>4, <1>5, <1>11, <1>12
    <3>2. RowOnWay(T[u], u, o[u], n[u], P) /\ FTSOnWay(T[u], u, o[u], n[u], P)
      BY <2>1 DEF TablesOnWay
    <3> QED
      BY <1>4, <3>1, <3>2, RowPending
  <2>6. TablesOnWay(T2, o, n, P2)
    BY <2>3, <2>4, <2>5 DEF TablesOnWay
  <2>7. IndexesOnWay(d2.indexes, o, n, P2)
    BY <1>4, <1>5, <1>6, <1>8, <2>1, TableBuiltIndexes
  <2>8. P2 \subseteq Changes(o, n)
    BY <1>4, <1>13 DEF OnWay, Rest
  <2> QED
    BY <1>11, <2>6, <2>7, <2>8 DEF OnWay
<1>14. KeepsTables(T, T2, o, n, Changes(o, n))
  <2>1. \A kept, a, c : KeepsRenamed(kept, kept, a, c)
    BY DEF KeepsRenamed
  <2>2. \A u \in DOMAIN o \cap DOMAIN n : T2[u] = T[u]
    BY <1>4, <1>5, <1>11, <1>12
  <2>3. \A u \in DOMAIN o \cap DOMAIN n : KeepsRenamed(T[u], T2[u], o[u], n[u])
    BY <2>1, <2>2
  <2>4. /\ \A u \in DOMAIN T2 : u \notin DOMAIN n => u \in DOMAIN T /\ T2[u] = T[u]
        /\ \A u \in DOMAIN T : u \in DOMAIN T2 /\ T2[u] = T[u]
    BY <1>5, <1>11, <1>12
  <2> QED
    BY <2>3, <2>4 DEF KeepsTables
<1> QED
  BY <1>2, <1>10, <1>11, <1>13, <1>14 DEF StepIsGood

\* DROP TABLE takes only what the pushed schema lacks.
LEMMA DropTableIsGood ==
    ASSUME Base, DropTable
    PROVE  StepIsGood
<1>1. Run("drop_table")
  BY DEF DropTable
<1>2. PICK s, t, o, n, d, d2, P, P2 :
        /\ s = First /\ t = First.table /\ o = old /\ n = new
        /\ d = db /\ d2 = db' /\ P = Range(plan) /\ P2 = Range(plan')
  OBVIOUS
<1>3. /\ s.type = "drop_table" /\ Says(s, o, n) /\ s.table = t
      /\ Rest(P, s, P2) /\ DatabaseOK(d)
      /\ DOMAIN o \cap DOMAIN n \subseteq DOMAIN d.tables
  BY <1>1, <1>2, Running DEF Base
<1>4. t \in DOMAIN o /\ t \notin DOMAIN n
  BY <1>3 DEF Says
<1>5. PICK T, T2, X, X2 : T = d.tables /\ T2 = d2.tables /\ X = d.indexes /\ X2 = d2.indexes
  OBVIOUS
<1>6. /\ DOMAIN d2 = {"tables", "indexes"} /\ T2 = Drop(T, t)
      /\ X2 = Restrict(X, {x \in DOMAIN X : X[x][1] # t})
  <2>1. d2 = [WithoutIndexesOn(d, t) EXCEPT !.tables = Drop(@, t)]
    BY <1>2 DEF DropTable, On
  <2> QED
    BY <1>3, <1>5, <2>1 DEF WithoutIndexesOn, DatabaseOK
<1>7. /\ DOMAIN T2 = DOMAIN T \ {t} /\ \A u \in DOMAIN T2 : T2[u] = T[u]
      /\ \A x : x \in DOMAIN X2 <=> x \in DOMAIN X /\ X[x][1] # t
      /\ \A x \in DOMAIN X2 : X2[x] = X[x]
  BY <1>6 DEF Drop, Restrict
<1>8. DatabaseOK(d2)
  <2>1. \A x \in DOMAIN X2 : IndexOK(X2[x], T2)
    BY <1>3, <1>5, <1>7 DEF DatabaseOK, IndexOK
  <2> QED
    BY <1>3, <1>5, <1>6, <1>7, <2>1 DEF DatabaseOK
<1>9. Base'
  <2>1. DatabaseOK(db') /\ DOMAIN old \cap DOMAIN new \subseteq DOMAIN db'.tables
    BY <1>2, <1>3, <1>4, <1>5, <1>7, <1>8
  <2> QED
    BY <1>1, <2>1, StepKeepsBase
<1>10. ASSUME OnWay(d, o, n, P) PROVE OnWay(d2, o, n, P2)
  <2>1. TablesOnWay(T, o, n, P) /\ IndexesOnWay(X, o, n, P)
    BY <1>5, <1>10 DEF OnWay
  <2>2. /\ \A u : Whole("drop_table", u) \in P /\ u # t => Whole("drop_table", u) \in P2
        /\ \A u : Whole("add_table", u) \in P => Whole("add_table", u) \in P2
        /\ \A u, x : Change("add_index", u, x) \in P => Change("add_index", u, x) \in P2
    BY <1>3, PlannedRest
  <2>3. \A u \in DOMAIN T2 \ DOMAIN n : Whole("drop_table", u) \in P2
    BY <1>7, <2>1, <2>2 DEF TablesOnWay
  <2>4. ASSUME NEW u \in DOMAIN n \ DOMAIN o
        PROVE  \/ u \in DOMAIN T2 /\ RowIsNew(T2[u], n[u])
               \/ u \notin DOMAIN T2 /\ Whole("add_table", u) \in P2
    BY <1>4, <1>7, <2>1, <2>2 DEF TablesOnWay
  <2>5. ASSUME NEW u \in DOMAIN n \cap DOMAIN o
        PROVE  RowOnWay(T2[u], u, o[u], n[u], P2) /\ FTSOnWay(T2[u], u, o[u], n[u], P2)
    <3>1. u # t /\ T2[u] = T[u]
      BY <1>3, <1>4, <1>5, <1>7
    <3>2. RowOnWay(T[u], u, o[u], n[u], P) /\ FTSOnWay(T[u], u, o[u], n[u], P)
      BY <2>1 DEF TablesOnWay
    <3> QED
      BY <1>3, <3>1, <3>2, RowPending
  <2>6. TablesOnWay(T2, o, n, P2)
    BY <2>3, <2>4, <2>5 DEF TablesOnWay
  <2>7. ASSUME NEW u \in DOMAIN n, NEW x \in DOMAIN n[u].indexes, Own(x, u, o, n)
        PROVE  IF x \in DOMAIN X2 THEN X2[x] = <<u, n[u].indexes[x]>>
               ELSE \/ Change("add_index", u, x) \in P2
                    \/ u \notin DOMAIN o /\ Whole("add_table", u) \in P2
    <3>1. IF x \in DOMAIN X THEN X[x] = <<u, n[u].indexes[x]>>
          ELSE \/ Change("add_index", u, x) \in P
               \/ u \notin DOMAIN o /\ Whole("add_table", u) \in P
      BY <2>1, <2>7 DEF IndexesOnWay
    <3> QED
      BY <1>4, <1>7, <2>2, <3>1
  <2>8. IndexesOnWay(X2, o, n, P2)
    BY <2>7 DEF IndexesOnWay
  <2>9. P2 \subseteq Changes(o, n)
    BY <1>3, <1>10 DEF OnWay, Rest
  <2> QED
    BY <1>5, <2>6, <2>8, <2>9 DEF OnWay
<1>11. KeepsTables(T, T2, o, n, Changes(o, n))
  <2>1. \A kept, a, c : KeepsRenamed(kept, kept, a, c)
    BY DEF KeepsRenamed
  <2>2. \A u \in DOMAIN o \cap DOMAIN n : T2[u] = T[u]
    BY <1>3, <1>4, <1>5, <1>7
  <2> QED
    BY <1>4, <1>7, <2>1, <2>2 DEF KeepsTables
<1> QED
  BY <1>2, <1>5, <1>9, <1>10, <1>11 DEF StepIsGood
-----------------------------------------------------------------------------
(* Steps that build a table anew. *)

\* The list of some columns holds these columns.
LEMMA ColumnsHold ==
    ASSUME NEW set, set \subseteq Column
    PROVE  Columns(set) \in Seq(Column) /\ Range(Columns(set)) = set
<1>1. PICK at : at = {i \in DOMAIN ColumnOrder : ColumnOrder[i] \in set}
  OBVIOUS
<1>2. Columns(set) = Picked(ColumnOrder, at)
  BY <1>1 DEF Columns
<1>3. PICK order \in Seq(Column) : order = ColumnOrder
  BY PlanAssumption
<1>4. Picked(order, at) \in Seq(Column) /\ Range(Picked(order, at)) = Elements(order, at)
  BY <1>1, <1>3, PickedElements
<1>5. Column = Range(order)
  BY <1>3 DEF Column
<1>6. Elements(order, at) = set
  BY <1>1, <1>3, <1>5 DEF Elements, Range
<1> QED
  BY <1>2, <1>3, <1>4, <1>6

\* When no key column changes its type, the columns and the expressions for
\* them are in the same order.
LEMMA SelectedInOrder ==
    ASSUME NEW t, Recast(old[t], new[t]) = {}, Copied(t) \subseteq Column
    PROVE  Selected(t) = Columns(Copied(t))
<1>1. Copied(t) \cap Recast(old[t], new[t]) = {} /\ Copied(t) \ Recast(old[t], new[t]) = Copied(t)
  OBVIOUS
<1>2. Selected(t) = Columns({}) \o Columns(Copied(t))
  BY <1>1, Zenon DEF Selected
<1>3. PICK none \in Seq(Column) : none = Columns({}) /\ Range(none) = {}
  BY ColumnsHold
<1>4. none = <<>>
  <2>1. PICK m \in Nat : m = Len(none) /\ DOMAIN none = 1..m
    BY LenProperties
  <2>2. m = 0
    <3>1. m # 0 => 1 \in 1..m
      OBVIOUS
    <3> QED
      BY <1>3, <2>1, <3>1 DEF Range
  <2> QED
    BY <2>1, <2>2, EmptySeq
<1>5. PICK all \in Seq(Column) : all = Columns(Copied(t))
  BY ColumnsHold
<1>6. <<>> \o all = all
  OBVIOUS
<1> QED
  BY <1>2, <1>3, <1>4, <1>5, <1>6

(* row2 is the row row built anew *)
Mirrored(row, row2, a, b) ==
    /\ RowOK(row2) /\ row2.pk = b.pk /\ row2.cols = b.cols
    /\ row2.fts = IF row.fts = {} THEN b.fts ELSE row.fts
    /\ row2.triggers = b.fts
    /\ Recast(a, b) = {} =>
           \A c \in DOMAIN a.cols \cap DOMAIN b.cols : row2.data[c] = row.data[c]

\* A table that is built anew has what the pushed schema says, and its data.
LEMMA MirroredRow ==
    ASSUME NEW t, NEW row, RowOK(row), NEW a, NEW b, a = old[t], b = new[t], SchemaTable(b),
           NEW row2, row2 = MirrorRow(t, row)
    PROVE  Mirrored(row, row2, a, b)
<1> DEFINE into == Columns(Copied(t))
           from(c) == Selected(t)[CHOOSE i \in DOMAIN into : into[i] = c]
           moved == [c \in DOMAIN b.cols |->
                        IF c \in Copied(t) THEN row.data[from(c)] ELSE Empty]
           bare == [pk |-> b.pk, cols |-> b.cols, data |-> moved, fts |-> row.fts,
                    triggers |-> {}]
<1>1. row2 = CreateFTS(bare, b.fts)
  BY DEF MirrorRow
<1>2. /\ DOMAIN row2 = {"pk", "cols", "data", "fts", "triggers"}
      /\ row2.pk = b.pk /\ row2.cols = b.cols /\ row2.data = moved
      /\ row2.fts = IF row.fts = {} THEN b.fts ELSE row.fts
      /\ row2.triggers = b.fts
  <2> HIDE DEF moved
  <2> QED
    BY <1>1 DEF CreateFTS
<1>3. DOMAIN moved = DOMAIN b.cols
  OBVIOUS
<1>4. RowOK(row2)
  <2> HIDE DEF moved
  <2>1. b.fts \subseteq Column /\ row.fts \subseteq Column
    BY DEF SchemaTable, RowOK
  <2>2. row2.fts \subseteq Column /\ row2.triggers \subseteq Column
    BY <1>2, <2>1
  <2> QED
    BY <1>2, <1>3, <2>2 DEF RowOK, SchemaTable
<1>5. ASSUME Recast(a, b) = {}, NEW c \in DOMAIN a.cols \cap DOMAIN b.cols
      PROVE  row2.data[c] = row.data[c]
  <2>1. c \in Copied(t) /\ Copied(t) \subseteq Column
    BY <1>5 DEF Copied, SchemaTable
  <2>2. PICK all \in Seq(Column) : all = into /\ Range(all) = Copied(t)
    BY <2>1, ColumnsHold
  <2>3. Selected(t) = all
    BY <1>5, <2>1, <2>2, SelectedInOrder
  <2>4. \E i \in DOMAIN all : all[i] = c
    BY <2>1, <2>2 DEF Range
  <2>5. all[CHOOSE i \in DOMAIN all : all[i] = c] = c
    BY <2>4, Zenon
  <2>6. from(c) = c
    <3>1. from(c) = all[CHOOSE i \in DOMAIN all : all[i] = c]
      BY <2>2, <2>3, Zenon
    <3> QED
      BY <2>5, <3>1, Zenon
  <2>7. moved[c] = row.data[from(c)]
    <3> HIDE DEF from
    <3> QED
      BY <1>5, <2>1
  <2> HIDE DEF moved, from
  <2> QED
    BY <1>2, <2>6, <2>7
<1> HIDE DEF moved
<1> QED
  BY <1>2, <1>4, <1>5 DEF Mirrored

\* It is on its way, and needs no other mirror.
LEMMA MirroredOnWay ==
    ASSUME NEW row, NEW row2, NEW t, NEW a, NEW b, Mirrored(row, row2, a, b),
           NEW P, NEW s, NEW P2, Rest(P, s, P2), s.table = t,
           s.type \in {"add_column", "modify_column", "change_pk_type"},
           RowOnWay(row, t, a, b, P), FTSOnWay(row, t, a, b, P)
    PROVE  RowOnWay(row2, t, a, b, P2) /\ FTSOnWay(row2, t, a, b, P2)
<1>1. Whole("drop_fts", t) \in P => Whole("drop_fts", t) \in P2
  BY PlannedRest
<1>2. RowOnWay(row2, t, a, b, P2)
  <2>1. /\ row2.pk = b.pk /\ row2.cols = b.cols
        /\ Recast(a, b) = {} =>
               \A c \in DOMAIN a.cols \cap DOMAIN b.cols : row2.data[c] = row.data[c]
    BY DEF Mirrored
  <2>2. Recast(a, b) = {} =>
            \A c \in DOMAIN a.cols \cap DOMAIN b.cols : row2.data[c] = InTable(t, c)
    BY <2>1 DEF RowOnWay
  <2> QED
    BY <2>1, <2>2 DEF RowOnWay
<1>3. FTSOnWay(row2, t, a, b, P2)
  <2>1. row2.fts = (IF row.fts = {} THEN b.fts ELSE row.fts) /\ row2.triggers = b.fts
    BY Zenon DEF Mirrored
  <2>2. /\ a.fts = b.fts => row.fts = b.fts
        /\ a.fts = {} => row.fts = b.fts \/ row.fts = {}
        /\ b.fts = {} => row.fts = {} \/ Whole("drop_fts", t) \in P
    BY Zenon DEF FTSOnWay
  <2>3. CASE row.fts = {}
    <3>1. row2.fts = b.fts /\ row2.triggers = b.fts
      BY <2>1, <2>3, Zenon
    <3> QED
      BY <3>1, Zenon DEF FTSOnWay
  <2>4. CASE row.fts # {}
    <3>1. row2.fts = row.fts /\ row2.triggers = b.fts
      BY <2>1, <2>4, Zenon
    <3> QED
      BY <1>1, <2>2, <2>4, <3>1, Zenon DEF FTSOnWay
  <2> QED
    BY <2>3, <2>4
<1> QED
  BY <1>2, <1>3

\* A step that takes the mirror builds its table anew.
LEMMA MirrorIsGood ==
    ASSUME Base, NEW type \in {"add_column", "modify_column", "change_pk_type"}, Run(type),
           TakesMirror(First), db' = Mirror(First.table)
    PROVE  StepIsGood
<1>1. type \in RowSteps
  BY DEF RowSteps
<1>2. PICK s, t, o, n, a, b, d, d2, P, P2 :
        /\ s = First /\ t = First.table /\ o = old /\ n = new /\ a = old[t] /\ b = new[t]
        /\ d = db /\ d2 = db' /\ P = Range(plan) /\ P2 = Range(plan')
  OBVIOUS
<1>3. PICK row, row2 : row = db.tables[t] /\ row2 = MirrorRow(t, row)
  OBVIOUS
<1>4. /\ s.type = type /\ s.table = t /\ Rest(P, s, P2)
      /\ t \in DOMAIN o \cap DOMAIN n /\ RowOK(row) /\ SchemaTable(b)
  BY <1>1, <1>2, <1>3, RowOfStep
<1>5. /\ DatabaseOK(d) /\ DOMAIN o \cap DOMAIN n \subseteq DOMAIN d.tables
      /\ t \in Table /\ a = o[t] /\ b = n[t]
  BY <1>2, <1>4 DEF Base, Schema
<1>6. Mirrored(row, row2, a, b)
  BY <1>2, <1>3, <1>4, MirroredRow
<1>7. RowOK(row2) /\ Range(b.indexes) \subseteq DOMAIN row2.cols
  BY <1>4, <1>6 DEF Mirrored, SchemaTable
<1>8. TableBuilt(d, d2, t, row2, b.indexes)
  <2>1. PICK d0 : d0 = WithoutIndexesOn(d, t)
    OBVIOUS
  <2>2. /\ DOMAIN d0 = {"tables", "indexes"} /\ d0.tables = d.tables
        /\ d0.indexes = Restrict(d.indexes, {x \in DOMAIN d.indexes : d.indexes[x][1] # t})
    BY <1>5, <2>1 DEF WithoutIndexesOn, DatabaseOK
  <2>3. PICK X, X0 : X = d.indexes /\ X0 = d0.indexes
    OBVIOUS
  <2>4. /\ \A x : x \in DOMAIN X0 <=> x \in DOMAIN X /\ X[x][1] # t
        /\ \A x \in DOMAIN X0 : X0[x] = X[x]
    BY <2>2, <2>3 DEF Restrict
  <2>5. d2 = CreateIndexes(SetTable(d0, t, row2), t, b.indexes)
    BY <1>2, <1>3, <2>1, Zenon DEF Mirror
  <2> QED
    BY <2>2, <2>3, <2>4, <2>5, StatementsBuild
<1>9. DatabaseOK(d2) /\ DOMAIN d.tables \subseteq DOMAIN d2.tables
  BY <1>5, <1>7, <1>8, TableBuiltOK
<1>10. Base'
  <2>1. DatabaseOK(db') /\ DOMAIN old \cap DOMAIN new \subseteq DOMAIN db'.tables
    BY <1>2, <1>5, <1>9
  <2> QED
    BY <2>1, StepKeepsBase
<1>11. PICK T, T2 : T = d.tables /\ T2 = d2.tables
  OBVIOUS
<1>12. RowSet(T, T2, t, row2)
  BY <1>8, <1>11 DEF TableBuilt
<1>13. ASSUME OnWay(d, o, n, P) PROVE OnWay(d2, o, n, P2)
  <2>1. TablesOnWay(T, o, n, P) /\ IndexesOnWay(d.indexes, o, n, P)
    BY <1>11, <1>13 DEF OnWay
  <2>2. RowOnWay(row, t, a, b, P) /\ FTSOnWay(row, t, a, b, P)
    BY <1>2, <1>3, <1>4, <1>11, <2>1 DEF TablesOnWay
  <2>3. RowOnWay(row2, t, a, b, P2) /\ FTSOnWay(row2, t, a, b, P2)
    BY <1>4, <1>6, <2>2, MirroredOnWay
  <2>4. TablesOnWay(T2, o, n, P2)
    BY <1>4, <1>5, <1>11, <1>12, <2>1, <2>3, RowSetOnWay
  <2>5. IndexesOnWay(d2.indexes, o, n, P2)
    BY <1>4, <1>5, <1>8, <2>1, TableBuiltIndexes
  <2>6. P2 \subseteq Changes(o, n)
    BY <1>4, <1>13 DEF OnWay, Rest
  <2> QED
    BY <1>11, <2>4, <2>5, <2>6 DEF OnWay
<1>14. KeepsTables(T, T2, o, n, Changes(o, n))
  <2>1. \A kept, e, f : KeepsRenamed(kept, kept, e, f)
    BY DEF KeepsRenamed
  <2>2. PICK S : S = Changes(o, n)
    OBVIOUS
  <2>3. ~NotMirrored(t, S, n, o)
    <3>1. s \in S
      BY <1>1, <1>2, <2>2, Running DEF RowSteps
    <3> QED
      BY <1>2, <1>4, <3>1 DEF TakesMirror, NotMirrored
  <2>4. ASSUME NEW u \in DOMAIN o \cap DOMAIN n, NotMirrored(u, S, n, o)
        PROVE  KeepsRenamed(T[u], T2[u], o[u], n[u])
    <3>1. u # t
      BY <2>3, <2>4
    <3>2. T2[u] = T[u]
      BY <1>5, <1>11, <1>12, <3>1 DEF RowSet
    <3> QED
      BY <2>1, <3>2
  <2>5. \A u \in DOMAIN T2 : u # t => u \in DOMAIN T /\ T2[u] = T[u]
    BY <1>12 DEF RowSet
  <2>6. \A u \in DOMAIN T : u # t => u \in DOMAIN T2 /\ T2[u] = T[u]
    BY <1>12 DEF RowSet
  <2>7. KeepsTables(T, T2, o, n, S)
    BY <1>4, <2>4, <2>5, <2>6 DEF KeepsTables
  <2> QED
    BY <2>2, <2>7
<1> QED
  BY <1>2, <1>10, <1>11, <1>13, <1>14 DEF StepIsGood
-----------------------------------------------------------------------------
(* Steps that rename. *)

\* A rename has the two changes it was made of.
LEMMA RenameIs ==
    \A d, a : /\ Rename(d, a).type = "rename" /\ Rename(d, a).from = d
              /\ Rename(d, a).to = a
  BY DEF Rename

\* No database is on its way without renames while one is planned.
LEMMA RenameNotDirect ==
    ASSUME Base, Run("rename")
    PROVE  ~OnWay(db, old, new, Range(plan))
<1>1. First.type = "rename" /\ First \in Range(plan)
  BY Running
<1>2. \A c \in Changes(old, new) : c.type # "rename"
  BY ChangesSay DEF Says, ChangeTypes
<1> QED
  BY <1>1, <1>2 DEF OnWay

(* what the first step renames is done *)
FirstIsDone ==
    LET S == Changes(old, new) IN
    DroppedKept(db.tables, old, new, S) =>
        \A d, a \in S : First = Rename(d, a) /\ RenamePair(d, a) =>
            RenameDone(db'.tables, d, a, old, new, S)

\* ALTER TABLE ... RENAME TO gives all columns of a dropped table the new name.
LEMMA RenameTableIsGood ==
    ASSUME Base, RenameTable
    PROVE  StepIsGood /\ FirstIsDone
<1>1. Run("rename") /\ First.from.type = "drop_table"
  BY DEF RenameTable
<1>2. PICK S, s, o, n, d, d2, T, T2, X, X2 :
        /\ S = Changes(o, n) /\ s = First /\ o = old /\ n = new /\ d = db /\ d2 = db'
        /\ T = d.tables /\ T2 = d2.tables /\ X = d.indexes /\ X2 = d2.indexes
  OBVIOUS
<1>3. PICK f \in S, a \in S : s = Rename(f, a) /\ RenamePair(f, a)
  BY <1>1, <1>2, Running DEF IsRename
<1>4. PICK t, u : t = f.table /\ u = a.table
  OBVIOUS
<1>5. s.type = "rename" /\ s.from = f /\ s.to = a /\ f.type = "drop_table" /\ a.type = "add_table"
  BY <1>1, <1>2, <1>3, RenameIs DEF RenamePair
<1>6. t \in DOMAIN o /\ t \notin DOMAIN n /\ u \in DOMAIN n /\ u \notin DOMAIN o
  BY <1>2, <1>3, <1>4, <1>5, ChangesSay DEF Says
<1>7. t \in DOMAIN T /\ u \notin DOMAIN T
  <2>1. TableRenames(s)
    BY <1>1, <1>2, <1>5, Running, RunsMeans
  <2> QED
    BY <1>2, <1>4, <1>5, <2>1 DEF TableRenames
<1>8. /\ DatabaseOK(d) /\ Schema(n) /\ DOMAIN o \cap DOMAIN n \subseteq DOMAIN T
  BY <1>2 DEF Base
<1>9. PICK row2 : row2 = [T[t] EXCEPT !.fts = {}]
  OBVIOUS
<1>10. /\ DOMAIN d2 = {"tables", "indexes"} /\ T2 = Put(Drop(T, t), u, row2)
       /\ X2 = [x \in DOMAIN X |-> IF X[x][1] = t THEN <<u, X[x][2]>> ELSE X[x]]
  BY <1>2, <1>4, <1>5, <1>9 DEF RenameTable
<1>11. /\ DOMAIN T2 = (DOMAIN T \ {t}) \cup {u} /\ T2[u] = row2
       /\ \A x \in DOMAIN T : x # t => T2[x] = T[x]
  BY <1>7, <1>10 DEF Put, Drop, Restrict
<1>12. RowOK(T[t]) /\ DOMAIN T \subseteq Table /\ u \in Table
  BY <1>2, <1>6, <1>7, <1>8 DEF DatabaseOK, Schema
<1>13. RowOK(row2) /\ row2.cols = T[t].cols /\ row2.data = T[t].data
  BY <1>9, <1>12 DEF RowOK
<1>14. DatabaseOK(d2)
  <2>1. ASSUME NEW x \in DOMAIN X PROVE IndexOK(X2[x], T2)
    <3>1. IndexOK(X[x], T)
      BY <1>2, <1>8 DEF DatabaseOK
    <3>2. CASE X[x][1] = t
      <4>1. X2[x] = <<u, X[x][2]>> /\ X[x][2] \in Column /\ X[x][2] \in DOMAIN T[t].cols
        BY <1>10, <3>1, <3>2 DEF IndexOK
      <4> QED
        BY <1>11, <1>12, <1>13, <4>1 DEF IndexOK
    <3>3. CASE X[x][1] # t
      <4>1. X2[x] = X[x]
        BY <1>10, <3>3
      <4> QED
        BY <1>11, <3>1, <3>3, <4>1 DEF IndexOK
    <3> QED
      BY <3>2, <3>3
  <2>2. DOMAIN X2 = DOMAIN X
    BY <1>10
  <2>3. DOMAIN T2 \subseteq Table /\ \A x \in DOMAIN T2 : RowOK(T2[x])
    BY <1>2, <1>8, <1>11, <1>12, <1>13 DEF DatabaseOK
  <2> QED
    BY <1>2, <1>10, <2>1, <2>2, <2>3 DEF DatabaseOK
<1>15. Base'
  <2>1. DatabaseOK(db') /\ DOMAIN old \cap DOMAIN new \subseteq DOMAIN db'.tables
    BY <1>2, <1>6, <1>8, <1>11, <1>14
  <2> QED
    BY <1>1, <2>1, StepKeepsBase
<1>16. KeepsTables(T, T2, o, n, S)
  <2>1. \A kept, e, g : KeepsRenamed(kept, kept, e, g)
    BY DEF KeepsRenamed
  <2>2. \A x \in DOMAIN o \cap DOMAIN n : T2[x] = T[x]
    BY <1>6, <1>8, <1>11
  <2>3. \A x \in DOMAIN o \cap DOMAIN n : KeepsRenamed(T[x], T2[x], o[x], n[x])
    BY <2>1, <2>2
  <2>4. /\ \A x \in DOMAIN T2 : x \notin DOMAIN n => x \in DOMAIN T /\ T2[x] = T[x]
        /\ \A x \in DOMAIN T : x \notin DOMAIN o => x \in DOMAIN T2 /\ T2[x] = T[x]
    BY <1>6, <1>7, <1>11
  <2> QED
    BY <2>3, <2>4 DEF KeepsTables
<1>17. ASSUME DroppedKept(T, o, n, S), NEW g \in S, NEW e \in S, s = Rename(g, e)
       PROVE  RenameDone(T2, g, e, o, n, S)
  <2>1. g = f /\ e = a
    <3>1. Rename(g, e).from = g /\ Rename(g, e).to = e
      BY RenameIs, Zenon
    <3> QED
      BY <1>5, <1>17, <3>1
  <2>2. TableKept(T, t, t, o)
    BY <1>6, <1>7, <1>17 DEF DroppedKept
  <2>3. u \in DOMAIN T2 /\ TableKept(T2, t, u, o)
    BY <1>11, <1>13, <2>2 DEF TableKept
  <2> QED
    BY <1>4, <1>5, <2>1, <2>3 DEF RenameDone
<1>18. FirstIsDone
  BY <1>2, <1>17 DEF FirstIsDone
<1> QED
  BY <1>1, <1>2, <1>15, <1>16, <1>18, RenameNotDirect DEF StepIsGood

(* the row that RENAME COLUMN c TO e leaves *)
As(x, c, e) == IF x = c THEN e ELSE x
AllAs(set, c, e) == {As(x, c, e) : x \in set}
RenamedRow(row, c, e) ==
    [pk |-> AllAs(row.pk, c, e), cols |-> Renamed(row.cols, c, e),
     data |-> Renamed(row.data, c, e), fts |-> row.fts,
     triggers |-> AllAs(row.triggers, c, e)]

\* ALTER TABLE ... RENAME COLUMN.
LEMMA RenamedRowIs ==
    ASSUME NEW row, RowOK(row), NEW c, NEW e, c \in DOMAIN row.cols, e \notin DOMAIN row.cols,
           e \in Column, NEW row2, row2 = RenamedRow(row, c, e)
    PROVE  /\ RowOK(row2)
           /\ \A x : x \in DOMAIN row2.cols <=> x = e \/ (x \in DOMAIN row.cols /\ x # c)
           /\ row2.data[e] = row.data[c]
           /\ \A x \in DOMAIN row.cols : x # c => row2.data[x] = row.data[x]
<1>1. /\ DOMAIN row2 = {"pk", "cols", "data", "fts", "triggers"}
      /\ row2.pk = AllAs(row.pk, c, e) /\ row2.triggers = AllAs(row.triggers, c, e)
      /\ row2.cols = Renamed(row.cols, c, e) /\ row2.data = Renamed(row.data, c, e)
      /\ row2.fts = row.fts
  BY DEF RenamedRow
<1>2. /\ DOMAIN row.cols \subseteq Column /\ Range(row.cols) \subseteq Col
      /\ DOMAIN row.data = DOMAIN row.cols /\ row.pk \subseteq DOMAIN row.cols
      /\ row.fts \subseteq Column /\ row.triggers \subseteq Column
  BY DEF RowOK
<1>3. /\ DOMAIN row2.cols = (DOMAIN row.cols \ {c}) \cup {e}
      /\ row2.cols[e] = row.cols[c]
      /\ \A x \in DOMAIN row2.cols : x # e => row2.cols[x] = row.cols[x]
  BY <1>1 DEF Renamed
<1>4. /\ DOMAIN row2.data = (DOMAIN row.cols \ {c}) \cup {e}
      /\ row2.data[e] = row.data[c]
      /\ \A x \in DOMAIN row2.data : x # e => row2.data[x] = row.data[x]
  BY <1>1, <1>2 DEF Renamed
<1>5. Range(row2.cols) \subseteq Col
  <2> SUFFICES ASSUME NEW x \in DOMAIN row2.cols PROVE row2.cols[x] \in Col
    BY DEF Range
  <2>1. \A y \in DOMAIN row.cols : row.cols[y] \in Col
    BY <1>2 DEF Range
  <2> QED
    BY <1>3, <2>1
<1>6. row2.pk \subseteq DOMAIN row2.cols
  BY <1>1, <1>2, <1>3 DEF AllAs, As
<1>7. row2.triggers \subseteq Column
  BY <1>1, <1>2 DEF AllAs, As
<1>8. RowOK(row2)
  BY <1>1, <1>2, <1>3, <1>4, <1>5, <1>6, <1>7 DEF RowOK
<1> QED
  BY <1>2, <1>3, <1>4, <1>8

\* ALTER TABLE ... RENAME COLUMN moves the data of one column and no other.
LEMMA RenameColumnIsGood ==
    ASSUME Base, RenameColumn
    PROVE  StepIsGood /\ FirstIsDone
<1>1. Run("rename") /\ First.from.type = "drop_column"
  BY DEF RenameColumn
<1>2. PICK S, s, o, n, d, d2, T, T2, X, X2 :
        /\ S = Changes(o, n) /\ s = First /\ o = old /\ n = new /\ d = db /\ d2 = db'
        /\ T = d.tables /\ T2 = d2.tables /\ X = d.indexes /\ X2 = d2.indexes
  OBVIOUS
<1>3. PICK f \in S, a \in S : s = Rename(f, a) /\ RenamePair(f, a)
  BY <1>1, <1>2, Running DEF IsRename
<1>4. PICK t, c, e : t = f.table /\ c = f.item /\ e = a.item
  OBVIOUS
<1>5. /\ s.type = "rename" /\ s.from = f /\ s.to = a /\ f.type = "drop_column"
      /\ a.type = "add_column" /\ a.table = t
  BY <1>1, <1>2, <1>3, <1>4, RenameIs DEF RenamePair
<1>6. /\ t \in DOMAIN o /\ t \in DOMAIN n
      /\ c \in DOMAIN o[t].cols /\ c \notin DOMAIN n[t].cols
      /\ e \in DOMAIN n[t].cols /\ e \notin DOMAIN o[t].cols
  <2>1. Says(f, o, n) /\ Says(a, o, n)
    BY <1>2, <1>3, ChangesSay
  <2> QED
    BY <1>4, <1>5, <2>1 DEF Says
<1>7. DatabaseOK(d) /\ Schema(n) /\ DOMAIN o \cap DOMAIN n \subseteq DOMAIN T
  BY <1>2 DEF Base
<1>8. t \in DOMAIN T /\ RowOK(T[t]) /\ t \in Table /\ e \in Column
  BY <1>2, <1>6, <1>7 DEF DatabaseOK, Schema, SchemaTable
<1>9. PICK row, row2 : row = T[t] /\ row2 = RenamedRow(row, c, e)
  OBVIOUS
<1>10. c \in DOMAIN row.cols /\ e \notin DOMAIN row.cols
  <2>1. ColumnRenames(s)
    BY <1>1, <1>2, <1>5, Running, RunsMeans
  <2> QED
    BY <1>2, <1>4, <1>5, <1>9, <2>1 DEF ColumnRenames
<1>11. /\ RowOK(row2)
       /\ \A x : x \in DOMAIN row2.cols <=> x = e \/ (x \in DOMAIN row.cols /\ x # c)
       /\ row2.data[e] = row.data[c]
       /\ \A x \in DOMAIN row.cols : x # c => row2.data[x] = row.data[x]
  BY <1>8, <1>9, <1>10, RenamedRowIs
<1>12. /\ DOMAIN d2 = {"tables", "indexes"} /\ T2 = Put(T, t, row2)
       /\ X2 = [x \in DOMAIN X |->
                   IF X[x][1] = t THEN <<t, As(X[x][2], c, e)>> ELSE X[x]]
  <2>1. db' = [tables |-> Put(T, t, row2),
               indexes |-> [x \in DOMAIN X |->
                   IF X[x][1] = t THEN <<t, As(X[x][2], c, e)>> ELSE X[x]]]
    BY <1>2, <1>4, <1>5, <1>9 DEF RenameColumn, RenamedRow, AllAs, As
  <2> QED
    BY <1>2, <2>1
<1>13. RowSet(T, T2, t, row2) /\ DOMAIN T2 = DOMAIN T
  BY <1>8, <1>12 DEF Put, RowSet
<1>14. DatabaseOK(d2)
  <2>1. ASSUME NEW x \in DOMAIN X PROVE IndexOK(X2[x], T2)
    <3>1. IndexOK(X[x], T)
      BY <1>2, <1>7 DEF DatabaseOK
    <3>2. CASE X[x][1] = t
      <4>1. PICK y : y = As(X[x][2], c, e)
        OBVIOUS
      <4>2. X2[x] = <<t, y>> /\ X[x][2] \in Column /\ X[x][2] \in DOMAIN row.cols
        BY <1>9, <1>12, <3>1, <3>2, <4>1 DEF IndexOK
      <4>3. y \in Column /\ y \in DOMAIN row2.cols
        BY <1>8, <1>11, <4>1, <4>2 DEF As
      <4> QED
        BY <1>8, <1>13, <4>2, <4>3 DEF IndexOK, RowSet
    <3>3. CASE X[x][1] # t
      <4>1. X2[x] = X[x]
        BY <1>12, <3>3
      <4> QED
        BY <1>13, <3>1, <3>3, <4>1 DEF IndexOK, RowSet
    <3> QED
      BY <3>2, <3>3
  <2>2. DOMAIN X2 = DOMAIN X
    BY <1>12
  <2>3. DOMAIN T2 \subseteq Table /\ \A x \in DOMAIN T2 : RowOK(T2[x])
    BY <1>2, <1>7, <1>11, <1>13 DEF DatabaseOK, RowSet
  <2> QED
    BY <1>2, <1>12, <2>1, <2>2, <2>3 DEF DatabaseOK
<1>15. Base'
  <2>1. DatabaseOK(db') /\ DOMAIN old \cap DOMAIN new \subseteq DOMAIN db'.tables
    BY <1>2, <1>7, <1>13, <1>14
  <2> QED
    BY <1>1, <2>1, StepKeepsBase
<1>16. KeepsTables(T, T2, o, n, S)
  <2>1. \A kept, g, h : KeepsRenamed(kept, kept, g, h)
    BY DEF KeepsRenamed
  <2>2. KeepsRenamed(row, row2, o[t], n[t])
    BY <1>6, <1>10, <1>11 DEF KeepsRenamed
  <2>3. ASSUME NEW x \in DOMAIN o \cap DOMAIN n PROVE KeepsRenamed(T[x], T2[x], o[x], n[x])
    <3>1. CASE x = t
      BY <1>9, <1>13, <2>2, <3>1 DEF RowSet
    <3>2. CASE x # t
      <4>1. T2[x] = T[x]
        BY <1>7, <1>13, <3>2 DEF RowSet
      <4> QED
        BY <2>1, <4>1
    <3> QED
      BY <3>1, <3>2
  <2>4. \A x \in DOMAIN T : x # t => x \in DOMAIN T2 /\ T2[x] = T[x]
    BY <1>13 DEF RowSet
  <2> QED
    BY <1>6, <1>13, <2>3, <2>4 DEF KeepsTables
<1>17. ASSUME DroppedKept(T, o, n, S), NEW g \in S, NEW h \in S, s = Rename(g, h)
       PROVE  RenameDone(T2, g, h, o, n, S)
  <2>1. g = f /\ h = a
    <3>1. Rename(g, h).from = g /\ Rename(g, h).to = h
      BY RenameIs, Zenon
    <3> QED
      BY <1>5, <1>17, <3>1
  <2>2. ASSUME NotMirrored(t, S, n, o)
        PROVE  e \in DOMAIN T2[t].cols /\ T2[t].data[e] = InTable(t, c)
    <3>1. T[t].data[c] = InTable(t, c)
      BY <1>6, <1>9, <1>10, <1>17, <2>2 DEF DroppedKept
    <3> QED
      BY <1>9, <1>11, <1>13, <3>1 DEF RowSet
  <2> QED
    BY <1>4, <1>5, <2>1, <2>2 DEF RenameDone
<1>18. FirstIsDone
  BY <1>2, <1>17 DEF FirstIsDone
<1> QED
  BY <1>1, <1>2, <1>15, <1>16, <1>18, RenameNotDirect DEF StepIsGood
-----------------------------------------------------------------------------
(* The inductive invariant. *)

\* Every step of the plan is a good one.
LEMMA StepsAreGood ==
    ASSUME Base,
           RenameTable \/ RenameColumn \/ AddTable \/ AddColumn \/ ModifyColumn
           \/ ChangePkType \/ AddIndex \/ AddFTS \/ DropFTS \/ DropIndex \/ DropColumn
           \/ DropTable
    PROVE  (\E type : Run(type)) /\ StepIsGood /\ FirstIsDone
<1>1. ASSUME NEW type, Run(type), type # "rename" PROVE FirstIsDone
  <2>1. First.type # "rename"
    BY <1>1, Running
  <2>2. \A d, a : First # Rename(d, a)
    BY <2>1, RenameIs
  <2> QED
    BY <2>2 DEF FirstIsDone
<1>2. CASE RenameTable
  BY <1>2, RenameTableIsGood DEF RenameTable
<1>3. CASE RenameColumn
  BY <1>3, RenameColumnIsGood DEF RenameColumn
<1>4. CASE AddTable
  <2>1. Run("add_table")
    BY <1>4 DEF AddTable
  <2> QED
    BY <1>1, <1>4, <2>1, AddTableIsGood
<1>5. CASE AddColumn
  <2>1. Run("add_column")
    BY <1>5 DEF AddColumn
  <2>2. CASE TakesMirror(First)
    <3>1. db' = Mirror(First.table)
      BY <1>5, <2>2 DEF AddColumn, On
    <3> QED
      BY <1>1, <2>1, <2>2, <3>1, MirrorIsGood
  <2>3. CASE ~TakesMirror(First)
    BY <1>1, <1>5, <2>1, <2>3, AddColumnIsGood
  <2> QED
    BY <2>2, <2>3
<1>6. CASE ModifyColumn
  <2>1. Run("modify_column")
    BY <1>6 DEF ModifyColumn
  <2>2. CASE TakesMirror(First)
    <3>1. db' = Mirror(First.table)
      BY <1>6, <2>2 DEF ModifyColumn, On
    <3> QED
      BY <1>1, <2>1, <2>2, <3>1, MirrorIsGood
  <2>3. CASE ~TakesMirror(First)
    BY <1>1, <1>6, <2>1, <2>3, ModifyColumnIsGood
  <2> QED
    BY <2>2, <2>3
<1>7. CASE ChangePkType
  <2>1. Run("change_pk_type") /\ db' = Mirror(First.table)
    BY <1>7 DEF ChangePkType, On
  <2>2. TakesMirror(First)
    BY <2>1, Running DEF TakesMirror
  <2> QED
    BY <1>1, <2>1, <2>2, MirrorIsGood
<1>8. CASE AddIndex
  <2>1. Run("add_index")
    BY <1>8 DEF AddIndex
  <2> QED
    BY <1>1, <1>8, <2>1, AddIndexIsGood
<1>9. CASE AddFTS
  <2>1. Run("add_fts")
    BY <1>9 DEF AddFTS
  <2> QED
    BY <1>1, <1>9, <2>1, AddFTSIsGood
<1>10. CASE DropFTS
  <2>1. Run("drop_fts")
    BY <1>10 DEF DropFTS
  <2> QED
    BY <1>1, <1>10, <2>1, DropFTSIsGood
<1>11. CASE DropIndex
  <2>1. Run("drop_index")
    BY <1>11 DEF DropIndex
  <2> QED
    BY <1>1, <1>11, <2>1, DropIndexIsGood
<1>12. CASE DropColumn
  <2>1. Run("drop_column")
    BY <1>12 DEF DropColumn
  <2> QED
    BY <1>1, <1>12, <2>1, DropColumnIsGood
<1>13. CASE DropTable
  <2>1. Run("drop_table")
    BY <1>13 DEF DropTable
  <2> QED
    BY <1>1, <1>13, <2>1, DropTableIsGood
<1> QED
  BY <1>2, <1>3, <1>4, <1>5, <1>6, <1>7, <1>8, <1>9, <1>10, <1>11, <1>12, <1>13

\* A good step keeps the invariant.
LEMMA GoodStepKeeps ==
    ASSUME Base, Direct, Carried, NEW type, Run(type), StepIsGood, FirstIsDone
    PROVE  Base' /\ Direct' /\ Carried'
<1>1. Base'
  BY DEF StepIsGood
<1>2. UNCHANGED <<old, new, listed, merges, changes, status>>
  BY DEF Run
<1>3. Under /\ Under' /\ Rest(Range(plan), First, Range(plan'))
  BY Running
<1>4. Direct'
  <2>1. merges = <<>> => OnWay(db', old, new, Range(plan'))
    BY <1>3 DEF Direct, StepIsGood
  <2> QED
    BY <1>2, <2>1 DEF Direct
<1>5. PICK T, T2, o, n, S, list, ms, P, s, P2 :
        /\ T = db.tables /\ T2 = db'.tables /\ o = old /\ n = new /\ S = Changes(old, new)
        /\ list = changes /\ ms = merges /\ P = Range(plan) /\ s = First /\ P2 = Range(plan')
  OBVIOUS
<1>6. /\ S = Changes(o, n) /\ ListOf(list, S) /\ Rest(P, s, P2)
      /\ DroppedKept(T, o, n, S) /\ RenamesOnWay(T, list, ms, o, n, S, P)
      /\ KeepsTables(T, T2, o, n, S)
  BY <1>3, <1>5 DEF Carried, StepIsGood, Base
<1>7. \A d, a \in S : s = Rename(d, a) /\ RenamePair(d, a) => RenameDone(T2, d, a, o, n, S)
  BY <1>5, <1>6 DEF FirstIsDone
<1>8. DroppedKept(T2, o, n, S) /\ RenamesOnWay(T2, list, ms, o, n, S, P2)
  BY <1>6, <1>7, KeepsRenames
<1>9. Carried'
  BY <1>2, <1>5, <1>8 DEF Carried
<1> QED
  BY <1>1, <1>4, <1>9

(* the inductive invariant *)
PlanInv == Base /\ Direct /\ Carried

\* A push begins with a database of its schema.
LEMMA InitPlanInv ==
    Init => PlanInv
<1> SUFFICES ASSUME Init PROVE PlanInv
  OBVIOUS
<1>1. Base
  BY InitBase
<1>2. ~Under /\ db = Built(old)
  BY DEF Init, Under
<1>3. DroppedKept(db.tables, old, new, Changes(old, new))
  BY <1>2, BuiltIsKept
<1> QED
  BY <1>1, <1>2, <1>3 DEF PlanInv, Direct, Carried

\* Asking, planning and the ends of a push keep the invariant.
LEMMA OthersKeep ==
    ASSUME PlanInv, Ask \/ Plan \/ Reject \/ Accept \/ UNCHANGED vars
    PROVE  PlanInv'
<1> USE DEF PlanInv
<1>1. CASE Ask
  <2>1. Base'
    BY <1>1, AskKeepsBase
  <2>2. UNCHANGED <<old, new, db>> /\ ~Under'
    BY <1>1 DEF Ask, Under
  <2> QED
    BY <2>1, <2>2 DEF Direct, Carried
<1>2. CASE Plan
  <2>1. /\ Base'
        /\ ListOf(changes', Changes(old, new))
        /\ merges = <<>> => Range(plan') = Changes(old, new)
        /\ \A i \in DOMAIN merges : merges[i] \in RenamePairs(changes') =>
               Rename(changes'[merges[i][1]], changes'[merges[i][2]]) \in Range(plan')
    BY <1>2, PlanKeepsBase
  <2>2. UNCHANGED <<old, new, merges, db>> /\ status = "asked"
    BY <1>2 DEF Plan
  <2>3. db = Built(old) /\ Schema(old) /\ Schema(new)
    BY <2>2 DEF Base
  <2>4. Direct'
    <3>1. OnWay(Built(old), old, new, Changes(old, new))
      BY <2>3, BuiltOnWay
    <3>2. merges = <<>> => OnWay(db, old, new, Range(plan'))
      BY <2>1, <2>3, <3>1
    <3> QED
      BY <2>2, <3>2 DEF Direct
  <2>5. Carried'
    <3>1. PICK T, S, list, ms, P :
            /\ T = db.tables /\ S = Changes(old, new) /\ list = changes' /\ ms = merges
            /\ P = Range(plan')
      OBVIOUS
    <3>2. RenamesOnWay(T, list, ms, old, new, S, P)
      BY <2>1, <3>1 DEF RenamesOnWay
    <3>3. DroppedKept(T, old, new, S)
      BY <3>1 DEF Carried
    <3> QED
      BY <2>2, <3>1, <3>2, <3>3 DEF Carried
  <2> QED
    BY <2>1, <2>4, <2>5
<1>3. CASE Reject
  <2>1. UNCHANGED <<old, new, listed, merges, changes, plan>> /\ db' = Built(old)
        /\ status' = "rejected"
    BY <1>3 DEF Reject
  <2>2. DatabaseOK(db') /\ DOMAIN old \cap DOMAIN new \subseteq DOMAIN db'.tables
    BY <2>1, BuiltIsOK DEF Base
  <2>3. Base' /\ ~Under'
    BY <2>1, <2>2 DEF Base, Under
  <2>4. DroppedKept(db'.tables, old, new, Changes(old, new))
    BY <2>1, BuiltIsKept
  <2> QED
    BY <2>1, <2>3, <2>4 DEF Direct, Carried
<1>4. CASE Accept
  <2>1. UNCHANGED <<old, new, listed, merges, changes, plan, db>> /\ Under /\ plan = <<>>
        /\ status' = "accepted"
    BY <1>4 DEF Accept, Under
  <2>2. Base'
    BY <2>1 DEF Base, Under
  <2> QED
    BY <2>1, <2>2 DEF Direct, Carried
<1>5. CASE UNCHANGED vars
  BY <1>5 DEF vars, Base, Direct, Carried, Under
<1> QED
  BY <1>1, <1>2, <1>3, <1>4, <1>5

\* So does every step.
LEMMA NextPlanInv ==
    PlanInv /\ [Next]_vars => PlanInv'
<1> SUFFICES ASSUME PlanInv, [Next]_vars PROVE PlanInv'
  OBVIOUS
<1>1. CASE Ask \/ Plan \/ Reject \/ Accept \/ UNCHANGED vars
  BY <1>1, OthersKeep
<1>2. CASE RenameTable \/ RenameColumn \/ AddTable \/ AddColumn \/ ModifyColumn
           \/ ChangePkType \/ AddIndex \/ AddFTS \/ DropFTS \/ DropIndex \/ DropColumn
           \/ DropTable
  BY <1>2, StepsAreGood, GoodStepKeeps DEF PlanInv
<1> QED
  BY <1>1, <1>2 DEF Next, Done

\* Whatever Go's maps, the client's merges and SQLite do, every step of the plan
\* leaves what is still to come possible (GenerateMigrationPlan).
THEOREM PlanHolds == Spec => []PlanInv
BY InitPlanInv, NextPlanInv, PTL DEF Spec
-----------------------------------------------------------------------------
(* What the invariant says. *)

\* Whatever is planned, and in whatever order, tables have their columns, their
\* keys and indexes name these, and every column has its data.
THEOREM TypeCorrect == Spec => []TypeOK
<1>1. PlanInv => TypeOK
  <2> SUFFICES ASSUME PlanInv PROVE TypeOK
    OBVIOUS
  <2>1. DatabaseOK(db) /\ status \in {"new", "asked", "running", "accepted", "rejected"}
    BY DEF PlanInv, Base
  <2> QED
    BY <2>1 DEF TypeOK, DatabaseOK, RowOK, IndexOK
<1> QED
  BY <1>1, PlanHolds, PTL

\* Nothing is left of the plan of an accepted push.
LEMMA NothingLeft ==
    ASSUME Base, Accepted
    PROVE  Under /\ \A c : c \notin Range(plan)
<1>1. plan = <<>> /\ Under
  BY DEF Base, Accepted, Under
<1>2. PICK p : p = <<>> /\ p = plan
  BY <1>1
<1>3. \A i : i \notin DOMAIN p
  BY <1>2
<1> QED
  BY <1>1, <1>2, <1>3 DEF Range

(* the row row of t, and the indexes of t in X, are as the pushed schema n says *)
TableReached(row, X, t, o, n) ==
    LET was == IF t \in DOMAIN o THEN o[t].fts ELSE {}
    IN
    /\ DOMAIN row.cols = DOMAIN n[t].cols
    /\ \A c \in DOMAIN row.cols : row.cols[c].clause = n[t].cols[c].clause
    /\ row.pk = n[t].pk
    /\ was \in {{}, n[t].fts} \/ n[t].fts = {} =>
           row.fts = n[t].fts /\ row.triggers = n[t].fts
    /\ \A x \in DOMAIN n[t].indexes : Own(x, t, o, n) =>
           x \in DOMAIN X /\ X[x] = <<t, n[t].indexes[x]>>

\* For any schemas, and whatever lists the two sides make of their differences, an
\* accepted push without renames leaves the tables, columns, keys, clauses,
\* searches and indexes of the pushed schema (platform/migrations.go).
THEOREM PushedSchemaReached == Spec => []AcceptedHasSchema
<1>1. ASSUME PlanInv, Accepted, merges = <<>>
      PROVE  /\ DOMAIN db.tables = DOMAIN new
             /\ \A t \in DOMAIN new :
                    TableReached(db.tables[t], db.indexes, t, old, new)
  <2>1. PICK o, n, T, X, P :
          /\ o = old /\ n = new /\ T = db.tables /\ X = db.indexes /\ P = Range(plan)
    OBVIOUS
  <2>2. /\ \A c : c \notin P
        /\ TablesOnWay(T, o, n, P) /\ IndexesOnWay(X, o, n, P)
        /\ DOMAIN o \cap DOMAIN n \subseteq DOMAIN T
    BY <1>1, <2>1, NothingLeft DEF PlanInv, Direct, OnWay, Base
  <2>3. DOMAIN T = DOMAIN n
    BY <2>2 DEF TablesOnWay
  <2>4. ASSUME NEW t \in DOMAIN n PROVE TableReached(T[t], X, t, o, n)
    <3>1. PICK row, b, was :
            row = T[t] /\ b = n[t] /\ was = IF t \in DOMAIN o THEN o[t].fts ELSE {}
      OBVIOUS
    <3>2. /\ DOMAIN row.cols = DOMAIN b.cols
          /\ \A c \in DOMAIN row.cols : row.cols[c].clause = b.cols[c].clause
          /\ row.pk = b.pk
          /\ was \in {{}, b.fts} \/ b.fts = {} => row.fts = b.fts /\ row.triggers = b.fts
      <4>1. CASE t \notin DOMAIN o
        BY <2>2, <3>1, <4>1 DEF TablesOnWay, RowIsNew
      <4>2. CASE t \in DOMAIN o
        <5>1. PICK a : a = o[t] /\ a.fts = was
          BY <3>1, <4>2
        <5>2. RowOnWay(row, t, a, b, P) /\ FTSOnWay(row, t, a, b, P)
          BY <2>2, <3>1, <4>2, <5>1 DEF TablesOnWay
        <5>3. /\ DOMAIN row.cols = DOMAIN b.cols
              /\ \A c \in DOMAIN row.cols : row.cols[c].clause = b.cols[c].clause
              /\ row.pk = b.pk
          BY <2>2, <5>2 DEF RowOnWay
        <5>4. ASSUME was = {} \/ was = b.fts \/ b.fts = {}
              PROVE  row.fts = b.fts /\ row.triggers = b.fts
          BY <2>2, <5>1, <5>2, <5>4, Zenon DEF FTSOnWay
        <5> QED
          BY <5>3, <5>4
      <4> QED
        BY <4>1, <4>2
    <3>3. \A x \in DOMAIN n[t].indexes : Own(x, t, o, n) =>
              x \in DOMAIN X /\ X[x] = <<t, n[t].indexes[x]>>
      BY <2>2 DEF IndexesOnWay
    <3> QED
      BY <3>1, <3>2, <3>3, Zenon DEF TableReached
  <2> QED
    BY <2>1, <2>3, <2>4
<1>2. PlanInv => AcceptedHasSchema
  BY <1>1, Zenon DEF AcceptedHasSchema, TableReached, Own
<1> QED
  BY <1>2, PlanHolds, PTL

\* It keeps the data of every column of both schemas, however often a table is
\* built anew (generateMirrorTableSQL).
THEOREM KeptColumnsKept == Spec => []KeptColumnsKeepData
<1>1. ASSUME PlanInv, Accepted, merges = <<>>, NEW t \in DOMAIN new \cap DOMAIN old,
             Recast(old[t], new[t]) = {},
             NEW c \in DOMAIN new[t].cols \cap DOMAIN old[t].cols
      PROVE  db.tables[t].data[c] = InTable(t, c)
  <2>1. TablesOnWay(db.tables, old, new, Range(plan))
    BY <1>1, NothingLeft DEF PlanInv, Direct, OnWay
  <2>2. RowOnWay(db.tables[t], t, old[t], new[t], Range(plan))
    BY <1>1, <2>1 DEF TablesOnWay
  <2> QED
    BY <1>1, <2>2 DEF RowOnWay
<1>2. PlanInv => KeptColumnsKeepData
  BY <1>1 DEF KeptColumnsKeepData
<1> QED
  BY <1>2, PlanHolds, PTL

\* A table that no change builds anew takes no mirror.
LEMMA UnmirroredIs ==
    ASSUME Base, Under, NEW t, Unmirrored(t)
    PROVE  NotMirrored(t, Changes(old, new), new, old)
<1>1. \A s \in Changes(old, new) : \E i \in DOMAIN changes : changes[i] = s
  BY DEF Base, ListOf, Range
<1>2. \A s \in Changes(old, new) : s.table = t => ~TakesMirror(s)
  BY <1>1 DEF Unmirrored
<1> QED
  BY <1>2 DEF NotMirrored, TakesMirror

\* Whatever else is pushed with it, a rename that both sides mean alike carries
\* the data to its new name (applyMerges).
THEOREM RenamedDataKept == Spec => []RenamesKeepData
<1>1. ASSUME PlanInv, Accepted, changes = listed, NEW i \in DOMAIN merges,
             NEW d, NEW a, d = listed[merges[i][1]], a = listed[merges[i][2]]
      PROVE  /\ d.type = "drop_table" =>
                   /\ a.table \in DOMAIN db.tables
                   /\ \A c \in DOMAIN old[d.table].cols :
                          /\ c \in DOMAIN db.tables[a.table].cols
                          /\ db.tables[a.table].data[c] = InTable(d.table, c)
             /\ d.type = "drop_column" /\ Unmirrored(d.table) =>
                   /\ a.item \in DOMAIN db.tables[a.table].cols
                   /\ db.tables[a.table].data[a.item] = InTable(d.table, d.item)
  <2>1. /\ merges[i] \in RenamePairs(changes) /\ d = changes[merges[i][1]]
        /\ a = changes[merges[i][2]]
    BY <1>1 DEF PlanInv, Base
  <2>2. RenamePair(d, a)
    BY <2>1 DEF RenamePairs
  <2>3. PICK S : S = Changes(old, new)
    OBVIOUS
  <2>4. RenameDone(db.tables, d, a, old, new, S)
    <3>1. RenamesOnWay(db.tables, changes, merges, old, new, S, Range(plan))
      BY <1>1, <2>3, NothingLeft DEF PlanInv, Carried
    <3>2. Rename(d, a) \notin Range(plan)
      BY <1>1, NothingLeft DEF PlanInv
    <3> QED
      BY <2>1, <3>1, <3>2 DEF RenamesOnWay
  <2>5. Unmirrored(d.table) => NotMirrored(d.table, S, new, old)
    BY <1>1, <2>3, NothingLeft, UnmirroredIs DEF PlanInv
  <2> QED
    BY <2>2, <2>4, <2>5 DEF RenameDone, TableKept, RenamePair
<1>2. PlanInv => RenamesKeepData
  BY <1>1 DEF RenamesKeepData
<1> QED
  BY <1>2, PlanHolds, PTL
===============================================================================
