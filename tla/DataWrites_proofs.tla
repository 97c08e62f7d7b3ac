-------------------------- MODULE DataWrites_proofs --------------------------
(***************************************************************************)
(* Theorems about DataWrites for every set of keys, users, requests,       *)
(* operations and policies, the conditions of the policies included.       *)
(*                                                                         *)
(*   1  Conditions: they compile to predicates that mean what they say.    *)
(*   2  Handlers and transactions: WritesInv, types and the write lock.    *)
(*   3  Checks: PolicyInv, what was checked holds when it is written.      *)
(*   4  Batches: BatchInv, a snapshot that may be written is the latest.   *)
(***************************************************************************)
EXTENDS DataWrites, SequenceTheorems, WellFoundedInduction, TLAPS

(* Induction. *)

\* A set of numbers has a least one.
LEMMA LeastNumber ==
    ASSUME NEW S \in SUBSET Nat, S # {}
    PROVE  \E n \in S : \A m \in S : n <= m
<1>1. \A m, n \in Nat : m < n => <<m, n>> \in OpToRel(<, Nat)
  BY Zenon DEF OpToRel
<1>2. PICK n \in S : \A m \in S : ~(<<m, n>> \in OpToRel(<, Nat))
  BY NatLessThanWellFounded, WFMin, Zenon
<1>3. \A m \in S : ~(m < n)
  BY <1>1, <1>2, Zenon
<1>4. \A m \in Nat : m < n \/ n <= m
  OBVIOUS
<1> QED
  BY <1>3, <1>4

\* What holds of the first number of a range, and of each number after one it
\* holds of, holds of the whole range.
LEMMA RangeInduction ==
    ASSUME NEW from \in Nat, NEW to \in Nat, NEW Good,
           from \in Good,
           \A v \in (from + 1)..to : v - 1 \in Good => v \in Good
    PROVE  from..to \subseteq Good
<1> DEFINE Bad == {v \in from..to : v \notin Good}
<1>1. SUFFICES ASSUME Bad # {} PROVE FALSE
  OBVIOUS
<1>2. Bad \subseteq Nat
  OBVIOUS
<1>3. PICK n \in Bad : \A m \in Bad : n <= m
  BY <1>1, <1>2, LeastNumber
<1>4. n \in from..to /\ n \notin Good /\ n # from
  BY <1>3
<1>5. n - 1 \in from..to /\ n \in (from + 1)..to /\ ~(n <= n - 1)
  BY <1>4
<1>6. n - 1 \in Good
  BY <1>3, <1>5
<1> QED
  BY <1>4, <1>5, <1>6

\* What holds of everything of whose parts it holds, holds of everything, when the
\* parts of a thing are of lower rank.
LEMMA PartsInduction ==
    ASSUME NEW S, NEW rank, \A c \in S : rank[c] \in Nat,
           NEW parts, \A c \in S : \A d \in parts[c] : d \in S /\ rank[d] < rank[c],
           NEW Good, \A c \in S : parts[c] \subseteq Good => c \in Good
    PROVE  S \subseteq Good
<1> DEFINE Ranks == {rank[c] : c \in S \ Good}
<1>1. SUFFICES ASSUME S \ Good # {} PROVE FALSE
  OBVIOUS
<1>2. Ranks # {} /\ Ranks \in SUBSET Nat
  BY <1>1
<1>3. PICK n \in Ranks : \A m \in Ranks : n <= m
  BY <1>2, LeastNumber
<1>4. PICK c \in S \ Good : rank[c] = n
  BY <1>3
<1>5. \A d \in parts[c] : d \in S /\ rank[d] \in Nat /\ ~(n <= rank[d])
  BY <1>4
<1>6. parts[c] \subseteq Good
  BY <1>3, <1>5
<1> QED
  BY <1>4, <1>6
-----------------------------------------------------------------------------
(* 1  Conditions. *)

\* What holds of every condition of whose parts it holds, holds of all conditions.
LEMMA ConditionInduction ==
    ASSUME NEW Good, \A c \in Condition : Parts(c) \subseteq Good => c \in Good
    PROVE  Condition \subseteq Good
<1>1. PICK parts : parts = [c \in Condition |-> Parts(c)]
  OBVIOUS
<1>2. \A c \in Condition : Depth[c] \in Nat
  BY PolicyAssumption
<1>3. \A c \in Condition : \A d \in parts[c] : d \in Condition /\ Depth[d] < Depth[c]
  BY <1>1, PolicyAssumption
<1>4. \A c \in Condition : parts[c] \subseteq Good => c \in Good
  BY <1>1
<1> QED
  BY <1>2, <1>3, <1>4, PartsInduction

\* What a condition compiles to, and what it says, depends on its parts only.
LEMMA OfItsParts ==
    ASSUME NEW c, NEW in, NEW e, NEW f, NEW g
    PROVE  /\ (\A d \in Parts(c) : f[<<d, in>>] = g[<<d, in>>]) =>
                  CompileWith(f, c, in) = CompileWith(g, c, in)
           /\ (\A d \in Parts(c) : f[<<d, in, e>>] = g[<<d, in, e>>]) =>
                  MeaningWith(f, c, in, e) = MeaningWith(g, c, in, e)
<1>1. CASE IsLeaf(c)
  BY <1>1 DEF CompileWith, MeaningWith
<1>2. CASE ~IsLeaf(c) /\ IsAnd(c)
  BY <1>2 DEF CompileWith, MeaningWith, Parts
<1>3. CASE ~IsLeaf(c) /\ ~IsAnd(c) /\ IsOr(c)
  BY <1>3 DEF CompileWith, MeaningWith, Parts
<1>4. CASE ~IsLeaf(c) /\ ~IsAnd(c) /\ ~IsOr(c)
  BY <1>4 DEF CompileWith, MeaningWith, Parts
<1> QED
  BY <1>1, <1>2, <1>3, <1>4

\* conditions of less than some depth
Below(n) == {c \in Condition : Depth[c] < n}

\* Ranks of nesting: the parts of a condition are below the rank it is below.
LEMMA BelowGrows ==
    /\ Below(0) = {} /\ Below(MaxDepth + 1) = Condition
    /\ \A n \in 1..(MaxDepth + 1) : \A c \in Below(n) : Parts(c) \subseteq Below(n - 1)
<1>1. \A c \in Condition : Depth[c] \in 0..MaxDepth
  BY PolicyAssumption
<1>2. \A c \in Condition : \A d \in Parts(c) : d \in Condition /\ Depth[d] < Depth[c]
  BY PolicyAssumption
<1>3. MaxDepth \in Nat
  BY DEF MaxDepth
<1>4. Below(0) = {} /\ Below(MaxDepth + 1) = Condition
  BY <1>1, <1>3 DEF Below
<1>5. ASSUME NEW n \in 1..(MaxDepth + 1), NEW c \in Below(n), NEW d \in Parts(c)
      PROVE  d \in Below(n - 1)
  <2>1. /\ d \in Condition /\ Depth[d] < Depth[c] /\ Depth[c] < n
        /\ Depth[d] \in Nat /\ Depth[c] \in Nat /\ n \in Nat
    BY <1>1, <1>2, <1>3, <1>5 DEF Below
  <2> QED
    BY <2>1 DEF Below
<1> QED
  BY <1>4, <1>5

CompiledTo(f, n) == f = [p \in Below(n) \X Input |-> CompileWith(f, p[1], p[2])]

\* The compiler's recursion has a result for every condition ...
LEMMA CompileIs ==
    \A c \in Condition, in \in Input :
        CompileCondition[<<c, in>>] = CompileWith(CompileCondition, c, in)
<1> DEFINE Good == {n \in 0..(MaxDepth + 1) : \E f : CompiledTo(f, n)}
<1>1. 0 \in Good
  <2>1. PICK f : f = [p \in Below(0) \X Input |-> CompileWith(Null, p[1], p[2])]
    OBVIOUS
  <2>2. Below(0) \X Input = {}
    BY BelowGrows
  <2>3. CompiledTo(f, 0)
    BY <2>1, <2>2 DEF CompiledTo
  <2> QED
    BY <2>3 DEF MaxDepth
<1>2. ASSUME NEW n \in (0 + 1)..(MaxDepth + 1), n - 1 \in Good PROVE n \in Good
  <2>1. PICK f : CompiledTo(f, n - 1)
    BY <1>2
  <2>2. PICK g : g = [p \in Below(n) \X Input |-> CompileWith(f, p[1], p[2])]
    OBVIOUS
  <2>3. ASSUME NEW c \in Below(n), NEW in \in Input
        PROVE  CompileWith(f, c, in) = CompileWith(g, c, in)
    <3>1. ASSUME NEW d \in Parts(c) PROVE f[<<d, in>>] = g[<<d, in>>]
      <4>1. d \in Below(n - 1)
        BY BelowGrows
      <4>2. d \in Below(n)
        <5>1. d \in Condition /\ Depth[d] \in 0..MaxDepth /\ Depth[d] < n - 1 /\ n \in Nat
          BY <4>1, PolicyAssumption DEF Below
        <5> QED
          BY <5>1 DEF Below
      <4>3. f[<<d, in>>] = CompileWith(f, d, in)
        BY <2>1, <4>1 DEF CompiledTo
      <4> QED
        BY <2>2, <4>2, <4>3
    <3> QED
      BY <3>1, OfItsParts
  <2>4. CompiledTo(g, n)
    BY <2>2, <2>3 DEF CompiledTo
  <2> QED
    BY <2>4 DEF MaxDepth
<1> HIDE DEF Good
<1>3. MaxDepth + 1 \in 0..(MaxDepth + 1) /\ MaxDepth + 1 \in Nat
  BY DEF MaxDepth
<1>4. MaxDepth + 1 \in Good
  BY <1>1, <1>2, <1>3, RangeInduction
<1>5. CompileCondition = CHOOSE f : CompiledTo(f, MaxDepth + 1)
  BY BelowGrows DEF CompileCondition, CompiledTo
<1>6. CompiledTo(CompileCondition, MaxDepth + 1)
  BY <1>4, <1>5, Zenon DEF Good
<1>7. PICK f : f = CompileCondition
  OBVIOUS
<1>8. f = [p \in Condition \X Input |-> CompileWith(f, p[1], p[2])]
  BY <1>6, <1>7, BelowGrows DEF CompiledTo
<1>9. \A c \in Condition, in \in Input : f[<<c, in>>] = CompileWith(f, c, in)
  BY <1>8
<1> QED
  BY <1>7, <1>9

MeantTo(f, n) == f = [p \in Below(n) \X Input \X Env |-> MeaningWith(f, p[1], p[2], p[3])]

\* ... and so has the recursion of what conditions say.
LEMMA MeaningIs ==
    \A c \in Condition, in \in Input, e \in Env :
        Meaning[<<c, in, e>>] = MeaningWith(Meaning, c, in, e)
<1> DEFINE Good == {n \in 0..(MaxDepth + 1) : \E f : MeantTo(f, n)}
<1>1. 0 \in Good
  <2>1. PICK f : f = [p \in Below(0) \X Input \X Env |-> MeaningWith(Null, p[1], p[2], p[3])]
    OBVIOUS
  <2>2. Below(0) \X Input \X Env = {}
    BY BelowGrows
  <2>3. MeantTo(f, 0)
    BY <2>1, <2>2 DEF MeantTo
  <2> QED
    BY <2>3 DEF MaxDepth
<1>2. ASSUME NEW n \in (0 + 1)..(MaxDepth + 1), n - 1 \in Good PROVE n \in Good
  <2>1. PICK f : MeantTo(f, n - 1)
    BY <1>2
  <2>2. PICK g : g = [p \in Below(n) \X Input \X Env |-> MeaningWith(f, p[1], p[2], p[3])]
    OBVIOUS
  <2>3. ASSUME NEW c \in Below(n), NEW in \in Input, NEW e \in Env
        PROVE  MeaningWith(f, c, in, e) = MeaningWith(g, c, in, e)
    <3>1. ASSUME NEW d \in Parts(c) PROVE f[<<d, in, e>>] = g[<<d, in, e>>]
      <4>1. d \in Below(n - 1)
        BY BelowGrows
      <4>2. d \in Below(n)
        <5>1. d \in Condition /\ Depth[d] \in 0..MaxDepth /\ Depth[d] < n - 1 /\ n \in Nat
          BY <4>1, PolicyAssumption DEF Below
        <5> QED
          BY <5>1 DEF Below
      <4>3. f[<<d, in, e>>] = MeaningWith(f, d, in, e)
        BY <2>1, <4>1 DEF MeantTo
      <4> QED
        BY <2>2, <4>2, <4>3
    <3> QED
      BY <3>1, OfItsParts
  <2>4. MeantTo(g, n)
    BY <2>2, <2>3 DEF MeantTo
  <2> QED
    BY <2>4 DEF MaxDepth
<1> HIDE DEF Good
<1>3. MaxDepth + 1 \in 0..(MaxDepth + 1) /\ MaxDepth + 1 \in Nat
  BY DEF MaxDepth
<1>4. MaxDepth + 1 \in Good
  BY <1>1, <1>2, <1>3, RangeInduction
<1>5. Meaning = CHOOSE f : MeantTo(f, MaxDepth + 1)
  BY BelowGrows DEF Meaning, MeantTo
<1>6. MeantTo(Meaning, MaxDepth + 1)
  BY <1>4, <1>5, Zenon DEF Good
<1>7. PICK f : f = Meaning
  OBVIOUS
<1>8. f = [p \in Condition \X Input \X Env |-> MeaningWith(f, p[1], p[2], p[3])]
  BY <1>6, <1>7, BelowGrows DEF MeantTo
<1>9. \A c \in Condition, in \in Input, e \in Env : f[<<c, in, e>>] = MeaningWith(f, c, in, e)
  BY <1>8
<1> QED
  BY <1>7, <1>9

Truths == {"true", "false", "null"}

\* A predicate means what is said, and is refused only where nothing is permitted
\* and left without SQL only where everything is.
Means(p, says) ==
    /\ p.allowed \in BOOLEAN /\ p.filters \in BOOLEAN
    /\ \A e \in Env : /\ p.where[e] = says[e] /\ p.where[e] \in Truths
                      /\ ~p.allowed => p.where[e] = "false"
                      /\ p.allowed /\ ~p.filters => p.where[e] = "true"

\* Each construct of the compiler keeps the meaning: a decision, a leaf, and the three
\* connectives over parts that keep it.
LEMMA DecidedMeans ==
    ASSUME NEW b \in BOOLEAN, NEW says, \A e \in Env : says[e] = Truth(b)
    PROVE  Means(Decided(b), says)
BY DEF Means, Decided, Truth, Truths

\* A comparison compiles to what it says by definition.
LEMMA LeafMeans ==
    ASSUME NEW c \in Condition, IsLeaf(c), NEW in \in Input
    PROVE  Means(Leaf(c, in), Leaf(c, in).where)
<1>1. /\ c.field \in {"auth.id", "auth.status", "auth.role", "new.owner", "old.owner"}
      /\ c.op \in {"eq", "ne", "is", "is_not"}
  BY PolicyAssumption
<1>2. ASSUME NEW b \in BOOLEAN PROVE Means(Decided(b), Decided(b).where)
  BY DEF Means, Decided, Truth, Truths
<1>3. ASSUME NEW w, \A e \in Env : w[e] \in Truths PROVE Means(Filter(w), Filter(w).where)
  BY <1>3 DEF Means, Filter
<1>4. \A a, b : GoCompare(a, c.op, b) \in BOOLEAN /\ SqlCompare(a, c.op, b) \in Truths
  BY <1>1 DEF GoCompare, SqlCompare, Truth, Truths
<1>5. CASE c.field = "auth.id"
  BY <1>2, <1>4, <1>5 DEF Leaf
<1>6. CASE c.field = "auth.status"
  <2>1. PICK w : w = [e \in Env |-> Truth((e.role # Nobody) <=> c.value = "member")]
    OBVIOUS
  <2>2. \A e \in Env : w[e] \in Truths
    BY <2>1 DEF Truth, Truths
  <2>3. StatusLeaf(c, in) = Filter(w) \/ StatusLeaf(c, in) = Decided(GoCompare(AuthStatus(in.id), c.op, c.value))
    BY <2>1 DEF StatusLeaf
  <2> QED
    BY <1>2, <1>3, <1>4, <1>6, <2>2, <2>3 DEF Leaf
<1>7. CASE c.field = "auth.role"
  <2>1. PICK w : w = [e \in Env |-> Truth(/\ e.role # Nobody
                                         /\ SqlCompare(e.role, c.op, ResolveValue(c.value, in)) = "true")]
    OBVIOUS
  <2>2. \A e \in Env : w[e] \in Truths
    BY <2>1 DEF Truth, Truths
  <2>3. RoleLeaf(c, in) = Filter(w)
    BY <2>1 DEF RoleLeaf
  <2> QED
    BY <1>3, <1>7, <2>2, <2>3 DEF Leaf
<1>8. CASE c.field = "new.owner"
  <2>1. PICK w : w = [e \in Env |-> SqlCompare(e.new, c.op, Operand(c, in))]
    OBVIOUS
  <2>2. \A e \in Env : w[e] \in Truths
    BY <1>4, <2>1
  <2>3. PICK b \in BOOLEAN : b = (in.new # Unset /\ GoCompare(in.new, c.op, ResolveValue(c.value, in)))
    OBVIOUS
  <2>4. NewLeaf(c, in) = Filter(w) \/ NewLeaf(c, in) = Decided(b)
    BY <2>1, <2>3 DEF NewLeaf
  <2> QED
    BY <1>2, <1>3, <1>8, <2>2, <2>4 DEF Leaf
<1>9. CASE c.field = "old.owner"
  <2>1. PICK w : w = [e \in Env |-> SqlCompare(e.old, c.op, Operand(c, in))]
    OBVIOUS
  <2>2. \A e \in Env : w[e] \in Truths
    BY <1>4, <2>1
  <2>3. OldLeaf(c, in) = Filter(w)
    BY <2>1 DEF OldLeaf
  <2> QED
    BY <1>3, <1>9, <2>2, <2>3 DEF Leaf
<1> QED
  BY <1>1, <1>5, <1>6, <1>7, <1>8, <1>9

\* what some parts say of a row and membership
Said(D, m, e) == {m[d][e] : d \in D}

\* A conjunction: one refused part refuses all, and all parts are joined otherwise.
LEMMA ConjunctionMeans ==
    ASSUME NEW D, NEW p, NEW m, \A d \in D : Means(p[d], m[d]),
           NEW parts, parts = {p[d] : d \in D},
           NEW says, \A e \in Env : says[e] = AllOf(Said(D, m, e))
    PROVE  Means(Conjunction(parts), says)
<1>1. \A d \in D : /\ p[d].allowed \in BOOLEAN /\ p[d].filters \in BOOLEAN
                   /\ \A e \in Env : p[d].where[e] = m[d][e]
  BY DEF Means
<1>a. \A e \in Env : says[e] = AllOf({m[d][e] : d \in D})
  BY DEF Said
<1>2. CASE \E d \in D : ~p[d].allowed
  <2>1. PICK d \in D : ~p[d].allowed
    BY <1>2
  <2>2. ASSUME NEW e \in Env PROVE AllOf({m[i][e] : i \in D}) = "false"
    <3>1. m[d][e] = "false"
      BY <2>1 DEF Means
    <3> QED
      BY <3>1 DEF AllOf
  <2>3. Conjunction(parts) = Decided(FALSE)
    BY <1>2 DEF Conjunction
  <2> QED
    BY <2>2, <2>3, <1>a, DecidedMeans DEF Truth
<1>3. CASE \A d \in D : p[d].allowed
  <2>1. PICK q : q = Conjunction(parts)
    OBVIOUS
  <2>2. /\ q.allowed = TRUE /\ q.filters = (\E i \in parts : i.filters)
        /\ \A e \in Env : q.where[e] = AllOf({i.where[e] : i \in parts})
    BY <1>3, <2>1 DEF Conjunction
  <2>3. ASSUME NEW e \in Env
        PROVE  /\ q.where[e] = AllOf({m[d][e] : d \in D}) /\ q.where[e] \in Truths
               /\ ~q.filters => q.where[e] = "true"
    <3>1. {i.where[e] : i \in parts} = {m[d][e] : d \in D}
      BY <1>1
    <3>2. AllOf({m[d][e] : d \in D}) \in Truths
      BY DEF AllOf, Truths
    <3>3. ASSUME ~q.filters PROVE AllOf({m[d][e] : d \in D}) = "true"
      <4>1. \A d \in D : m[d][e] = "true"
        BY <1>1, <1>3, <2>2, <3>3 DEF Means
      <4> QED
        BY <4>1 DEF AllOf
    <3> QED
      BY <2>2, <3>1, <3>2, <3>3
  <2> QED
    BY <1>a, <2>1, <2>2, <2>3 DEF Means
<1> QED
  BY <1>2, <1>3

\* A disjunction: refused parts can be left out, and one that needs no SQL allows all.
LEMMA DisjunctionMeans ==
    ASSUME NEW D, NEW p, NEW m, \A d \in D : Means(p[d], m[d]),
           NEW parts, parts = {p[d] : d \in D},
           NEW says, \A e \in Env : says[e] = AnyOf(Said(D, m, e))
    PROVE  Means(Disjunction(parts), says)
<1> PICK open : open = {i \in parts : i.allowed}
  OBVIOUS
<1>1. \A d \in D : /\ p[d].allowed \in BOOLEAN /\ p[d].filters \in BOOLEAN
                   /\ \A e \in Env : p[d].where[e] = m[d][e]
  BY DEF Means
<1>a. \A e \in Env : says[e] = AnyOf({m[d][e] : d \in D})
  BY DEF Said
<1>2. CASE open = {}
  <2>1. ASSUME NEW e \in Env PROVE AnyOf({m[d][e] : d \in D}) = "false"
    <3>1. \A d \in D : m[d][e] = "false"
      BY <1>1, <1>2 DEF Means
    <3> QED
      BY <3>1 DEF AnyOf
  <2>2. Disjunction(parts) = Decided(FALSE)
    BY <1>2 DEF Disjunction
  <2> QED
    BY <2>1, <2>2, <1>a, DecidedMeans DEF Truth
<1>3. CASE \E i \in open : ~i.filters
  <2>1. PICK d \in D : p[d].allowed /\ ~p[d].filters
    BY <1>3
  <2>2. ASSUME NEW e \in Env PROVE AnyOf({m[i][e] : i \in D}) = "true"
    <3>1. m[d][e] = "true"
      BY <2>1 DEF Means
    <3> QED
      BY <3>1 DEF AnyOf
  <2>3. Disjunction(parts) = Decided(TRUE)
    BY <1>3 DEF Disjunction
  <2> QED
    BY <2>2, <2>3, <1>a, DecidedMeans DEF Truth
<1>4. CASE open # {} /\ \A i \in open : i.filters
  <2>1. PICK w : w = [e \in Env |-> AnyOf({i.where[e] : i \in open})]
    OBVIOUS
  <2>2. Disjunction(parts) = Filter(w)
    BY <1>4, <2>1 DEF Disjunction
  <2>3. ASSUME NEW e \in Env
        PROVE  w[e] = AnyOf({m[d][e] : d \in D}) /\ w[e] \in Truths
    <3>1. PICK some : some = {i.where[e] : i \in open}
      OBVIOUS
    <3>2. PICK all : all = {m[d][e] : d \in D}
      OBVIOUS
    <3>3. some \subseteq all
      BY <1>1, <3>1, <3>2
    <3>4. \A v \in all : v \in some \/ v = "false"
      BY <1>1, <3>1, <3>2 DEF Means
    <3>5. AnyOf(some) = AnyOf(all) /\ AnyOf(some) \in Truths
      BY <3>3, <3>4 DEF AnyOf, Truths
    <3> QED
      BY <2>1, <3>1, <3>2, <3>5
  <2>4. \A e \in Env : w[e] = says[e] /\ w[e] \in Truths
    BY <1>a, <2>3
  <2>5. PICK q : q = Disjunction(parts)
    OBVIOUS
  <2>6. q.allowed = TRUE /\ q.filters = TRUE /\ q.where = w
    BY <2>2, <2>5 DEF Filter
  <2>7. Means(q, says)
    BY <2>4, <2>6 DEF Means
  <2> QED
    BY <2>5, <2>7
<1> QED
  BY <1>2, <1>3, <1>4

\* A negation, also of a part that was decided without SQL.
LEMMA NegationMeans ==
    ASSUME NEW p, NEW m, Means(p, m), NEW says, \A e \in Env : says[e] = Opposite(m[e])
    PROVE  Means(Negation(p), says)
<1>1. CASE p.filters
  <2>1. PICK w : w = [e \in Env |-> Opposite(p.where[e])]
    OBVIOUS
  <2>2. Negation(p) = Filter(w)
    BY <1>1, <2>1 DEF Negation
  <2>3. \A e \in Env : w[e] = says[e] /\ w[e] \in Truths
    BY <2>1 DEF Means, Opposite, Truth, Truths
  <2> QED
    BY <2>2, <2>3 DEF Means, Filter
<1>2. CASE ~p.filters
  <2>1. p.allowed \in BOOLEAN /\ Negation(p) = Decided(~p.allowed)
    BY <1>2 DEF Negation, Means
  <2>2. \A e \in Env : says[e] = Truth(~p.allowed)
    BY <1>2 DEF Means, Opposite, Truth
  <2>3. PICK b \in BOOLEAN : b = ~p.allowed
    OBVIOUS
  <2> QED
    BY <2>1, <2>2, <2>3, DecidedMeans
<1> QED
  BY <1>1, <1>2 DEF Means

\* what a condition says of each row and membership
Says(c, in) == [e \in Env |-> Meaning[<<c, in, e>>]]

\* Compilation keeps the meaning of every condition.
LEMMA ConditionsMean ==
    ASSUME NEW in \in Input, NEW c \in Condition
    PROVE  Means(CompileCondition[<<c, in>>], Says(c, in))
<1> DEFINE Good == {i \in Condition : Means(CompileCondition[<<i, in>>], Says(i, in))}
<1>1. ASSUME NEW i \in Condition, Parts(i) \subseteq Good PROVE i \in Good
  <2>1. PICK p : p = [d \in Parts(i) |-> CompileCondition[<<d, in>>]]
    OBVIOUS
  <2>2. PICK m : m = [d \in Parts(i) |-> Says(d, in)]
    OBVIOUS
  <2>3. \A d \in Parts(i) : Means(p[d], m[d])
    BY <1>1, <2>1, <2>2
  <2>a. PICK D : D = Parts(i)
    OBVIOUS
  <2>b. \A d \in D : Means(p[d], m[d])
    BY <2>3, <2>a
  <2>4. CompileCondition[<<i, in>>] = CompileWith(CompileCondition, i, in)
    BY CompileIs
  <2>5. \A e \in Env : Says(i, in)[e] = MeaningWith(Meaning, i, in, e)
    BY MeaningIs DEF Says
  <2>6. \A d \in Parts(i), e \in Env : m[d][e] = Meaning[<<d, in, e>>]
    BY <2>2 DEF Says
  <2>7. CASE IsLeaf(i)
    <3>1. CompileCondition[<<i, in>>] = Leaf(i, in)
      BY <2>4, <2>7 DEF CompileWith
    <3>2. \A e \in Env : Says(i, in)[e] = Leaf(i, in).where[e]
      BY <2>5, <2>7 DEF MeaningWith
    <3>3. Means(Leaf(i, in), Leaf(i, in).where)
      BY <2>7, LeafMeans
    <3> QED
      BY <3>1, <3>2, <3>3 DEF Means
  <2>8. CASE ~IsLeaf(i) /\ IsAnd(i)
    <3>1. Parts(i) = Range(i.all)
      BY <2>8 DEF Parts
    <3>2. CompileCondition[<<i, in>>] = Conjunction({p[d] : d \in Parts(i)})
      <4>1. {p[d] : d \in Parts(i)} = {CompileCondition[<<d, in>>] : d \in Range(i.all)}
        BY <2>1, <3>1
      <4> QED
        BY <2>4, <2>8, <4>1 DEF CompileWith
    <3>3. ASSUME NEW e \in Env PROVE Says(i, in)[e] = AllOf({m[d][e] : d \in Parts(i)})
      <4>1. {m[d][e] : d \in Parts(i)} = {Meaning[<<d, in, e>>] : d \in Range(i.all)}
        BY <2>6, <3>1
      <4> QED
        BY <2>5, <2>8, <4>1 DEF MeaningWith
    <3>4. PICK parts : parts = {p[d] : d \in D}
      OBVIOUS
    <3>5. PICK says : says = Says(i, in)
      OBVIOUS
    <3>6. \A e \in Env : says[e] = AllOf(Said(D, m, e))
      BY <3>3, <3>5, <2>a DEF Said
    <3>7. Means(Conjunction(parts), says)
      BY <2>b, <3>4, <3>6, ConjunctionMeans
    <3> QED
      BY <3>2, <3>4, <3>5, <3>7, <2>a
  <2>9. CASE ~IsLeaf(i) /\ ~IsAnd(i) /\ IsOr(i)
    <3>1. Parts(i) = Range(i.any)
      BY <2>9 DEF Parts
    <3>2. CompileCondition[<<i, in>>] = Disjunction({p[d] : d \in Parts(i)})
      <4>1. {p[d] : d \in Parts(i)} = {CompileCondition[<<d, in>>] : d \in Range(i.any)}
        BY <2>1, <3>1
      <4> QED
        BY <2>4, <2>9, <4>1 DEF CompileWith
    <3>3. ASSUME NEW e \in Env PROVE Says(i, in)[e] = AnyOf({m[d][e] : d \in Parts(i)})
      <4>1. {m[d][e] : d \in Parts(i)} = {Meaning[<<d, in, e>>] : d \in Range(i.any)}
        BY <2>6, <3>1
      <4> QED
        BY <2>5, <2>9, <4>1 DEF MeaningWith
    <3>4. PICK parts : parts = {p[d] : d \in D}
      OBVIOUS
    <3>5. PICK says : says = Says(i, in)
      OBVIOUS
    <3>6. \A e \in Env : says[e] = AnyOf(Said(D, m, e))
      BY <3>3, <3>5, <2>a DEF Said
    <3>7. Means(Disjunction(parts), says)
      BY <2>b, <3>4, <3>6, DisjunctionMeans
    <3> QED
      BY <3>2, <3>4, <3>5, <3>7, <2>a
  <2>10. CASE ~IsLeaf(i) /\ ~IsAnd(i) /\ ~IsOr(i)
    <3>1. i.not \in Parts(i)
      BY <2>10 DEF Parts
    <3>2. CompileCondition[<<i, in>>] = Negation(p[i.not])
      BY <2>1, <2>4, <2>10, <3>1 DEF CompileWith
    <3>3. \A e \in Env : Says(i, in)[e] = Opposite(m[i.not][e])
      BY <2>5, <2>6, <2>10, <3>1 DEF MeaningWith
    <3> QED
      BY <2>3, <3>1, <3>2, <3>3, NegationMeans
  <2> QED
    BY <2>7, <2>8, <2>9, <2>10
<1> HIDE DEF Good
<1>2. c \in Good
  BY <1>1, ConditionInduction
<1> QED
  BY <1>2 DEF Good

\* What Compile makes of a policy, with a condition or without, decides as the policy
\* says of every row and membership: nothing is refused at once that could be
\* permitted, and nothing left unfiltered that could be refused.
THEOREM PoliciesMean ==
    ASSUME NEW in \in Input, NEW policy \in Condition \cup {NoPolicy, Unconditional},
           NEW says, says = [e \in Env |-> Permits(policy, in, e)]
    PROVE  Means(Compile(policy, in), says)
<1>1. ASSUME NEW b \in BOOLEAN, Compile(policy, in) = Decided(b),
             \A e \in Env : Permits(policy, in, e) = Truth(b)
      PROVE  Means(Compile(policy, in), says)
  <2>1. \A e \in Env : says[e] = Truth(b)
    BY <1>1
  <2> QED
    BY <1>1, <2>1, DecidedMeans
<1>2. CASE in.id = Service
  <2>1. Compile(policy, in) = Decided(TRUE)
    BY <1>2 DEF Compile
  <2>2. \A e \in Env : Permits(policy, in, e) = Truth(TRUE)
    BY <1>2 DEF Permits, Truth
  <2> QED
    BY <1>1, <2>1, <2>2
<1>3. CASE in.id # Service /\ policy \in {NoPolicy, Unconditional}
  <2>1. PICK b \in BOOLEAN : b = (policy = Unconditional)
    OBVIOUS
  <2>2. \A e \in Env : Permits(policy, in, e) = Truth(b)
    BY <1>3, <2>1 DEF Permits
  <2>3. Compile(policy, in) = Decided(b)
    BY <1>3, <2>1 DEF Compile
  <2> QED
    BY <1>1, <2>2, <2>3
<1>4. CASE in.id # Service /\ policy \notin {NoPolicy, Unconditional}
  <2>1. says = Says(policy, in)
    BY <1>4 DEF Permits, Says
  <2>2. Means(CompileCondition[<<policy, in>>], Says(policy, in))
    BY <1>4, ConditionsMean
  <2>3. Compile(policy, in) = CompileCondition[<<policy, in>>]
    BY <1>4 DEF Compile
  <2> QED
    BY <2>1, <2>2, <2>3
<1> QED
  BY <1>2, <1>3, <1>4

-----------------------------------------------------------------------------
(* 2  Handlers and transactions. *)

\* What a request may ask for, and the states of handlers and transactions.
Asked == Operation \cup UNION {Range(b) : b \in Batch}
RowsType == [Key -> Owner \cup {Absent}]
RolesType == [User -> Role \cup {Nobody}]
ReqType == [pc : Pc, by : Principal, ops : Seq(Asked), left : SUBSET Key,
            key : Key \cup {Absent}]
TxType == [state : {"none", "new", "reading", "stale", "writing"},
           rows : RowsType, roles : RolesType]

AtOperation == {"next", "conflicts", "conflict", "write"}

\* An operation is at hand until the last one has written, the lock belongs to the
\* transaction that writes, which is what commits, and a handler at rest has none.
HandlerInv ==
    \A r \in Request :
        /\ req[r].pc \in AtOperation => req[r].ops # <<>>
        /\ tx[r].state = "writing" <=> lock = r
        /\ req[r].pc \in {"idle", "refused"} => tx[r] = NoTx
        /\ req[r].pc = "commit" => tx[r].state = "writing"
        /\ tx[r].state = "none" => tx[r] = NoTx

WritesInv ==
    /\ policies \in Policies
    /\ rows \in RowsType /\ roles \in RolesType
    /\ req \in [Request -> ReqType] /\ tx \in [Request -> TxType]
    /\ lock \in Request \cup {NoRequest}
    /\ HandlerInv

\* Whatever is asked for is an operation.
LEMMA AskedOperations == \A op \in Asked : IsOperation(op)
<1>1. ASSUME NEW b \in Batch, NEW op \in Range(b) PROVE IsOperation(op)
  <2>1. PICK i \in DOMAIN b : op = b[i]
    BY DEF Range
  <2> QED
    BY <2>1, WritesAssumption
<1> QED
  BY <1>1, WritesAssumption DEF Asked

\* Idle handlers and transactions that have not begun are well formed.
LEMMA Initial ==
    /\ Idle \in ReqType /\ Refused \in ReqType
    /\ NoTx \in TxType /\ NewTx \in TxType
<1>1. <<>> \in Seq(Asked) /\ Service \in Principal
  BY DEF Principal
<1>2. NoRows \in RowsType /\ NoRoles \in RolesType
  BY DEF NoRows, NoRoles, RowsType, RolesType
<1> QED
  BY <1>1, <1>2 DEF Idle, Refused, Handler, ReqType, Pc, NoTx, NewTx, TxType

\* The operation at hand.
LEMMA OperationAtHand ==
    ASSUME WritesInv, NEW r \in Request, req[r].pc \in AtOperation
    PROVE  /\ Op(r) \in Asked /\ IsOperation(Op(r))
           /\ Tail(req[r].ops) \in Seq(Asked)
           /\ req[r].ops # <<>> /\ req[r] \in ReqType
<1>1. req[r] \in ReqType /\ req[r].ops \in Seq(Asked) /\ req[r].ops # <<>>
  BY DEF WritesInv, HandlerInv, ReqType
<1>2. Head(req[r].ops) \in Asked /\ Tail(req[r].ops) \in Seq(Asked)
  BY <1>1
<1> QED
  BY <1>1, <1>2, AskedOperations DEF Op

\* What a statement sees is a table and memberships.
LEMMA Seen ==
    ASSUME WritesInv, NEW r \in Request
    PROVE  Rows(r) \in RowsType /\ Roles(r) \in RolesType
BY DEF WritesInv, Rows, Roles, TxType

\* The initial states satisfy the invariant.
LEMMA InitInv == Init => WritesInv
<1>1. SUFFICES ASSUME Init PROVE WritesInv
  OBVIOUS
<1>2. rows \in RowsType /\ roles \in RolesType
  BY <1>1 DEF Init, NoRows, NoRoles, RowsType, RolesType
<1>3. HandlerInv
  BY <1>1, WritesAssumption DEF Init, HandlerInv, Idle, Handler, NoTx, AtOperation
<1> QED
  BY <1>1, <1>2, <1>3, Initial DEF Init, WritesInv

-----------------------------------------------------------------------------
\* The end of a request releases what it holds.
LEMMA EndInv ==
    ASSUME WritesInv, NEW r \in Request, NEW how \in {Idle, Refused}, End(r, how)
    PROVE  WritesInv'
<1>1. req' \in [Request -> ReqType] /\ tx' \in [Request -> TxType]
  BY Initial DEF WritesInv, End
<1>2. how.pc \in {"idle", "refused"}
  BY DEF Idle, Refused, Handler
<1>3. HandlerInv'
  <2> SUFFICES ASSUME NEW s \in Request
               PROVE  /\ req'[s].pc \in AtOperation => req'[s].ops # <<>>
                      /\ tx'[s].state = "writing" <=> lock' = s
                      /\ req'[s].pc \in {"idle", "refused"} => tx'[s] = NoTx
                      /\ req'[s].pc = "commit" => tx'[s].state = "writing"
                      /\ tx'[s].state = "none" => tx'[s] = NoTx
    BY DEF HandlerInv
  <2>1. CASE s = r
    BY <2>1, <1>2, WritesAssumption DEF WritesInv, End, AtOperation, NoTx
  <2>2. CASE s # r
    <3>1. req'[s] = req[s] /\ tx'[s] = tx[s] /\ (lock' = s <=> lock = s)
      BY <2>2, WritesAssumption DEF WritesInv, End
    <3> QED
      BY <3>1 DEF WritesInv, HandlerInv
  <2> QED
    BY <2>1, <2>2
<1> QED
  BY <1>1, <1>3, WritesAssumption DEF WritesInv, End

\* A handler that moves on without writing, its transaction at most reading.
LEMMA MoveInv ==
    ASSUME WritesInv, NEW r \in Request, NEW h \in ReqType, NEW t \in TxType,
           req' = [req EXCEPT ![r] = h],
           tx' = [tx EXCEPT ![r] = t],
           h.pc \in AtOperation, h.ops # <<>>,
           t.state = "writing" <=> tx[r].state = "writing",
           t.state = "none" => t = NoTx,
           UNCHANGED <<policies, rows, roles, lock>>
    PROVE  WritesInv'
<1>1. req' \in [Request -> ReqType] /\ tx' \in [Request -> TxType]
  BY DEF WritesInv
<1>2. HandlerInv'
  <2> SUFFICES ASSUME NEW s \in Request
               PROVE  /\ req'[s].pc \in AtOperation => req'[s].ops # <<>>
                      /\ tx'[s].state = "writing" <=> lock' = s
                      /\ req'[s].pc \in {"idle", "refused"} => tx'[s] = NoTx
                      /\ req'[s].pc = "commit" => tx'[s].state = "writing"
                      /\ tx'[s].state = "none" => tx'[s] = NoTx
    BY DEF HandlerInv
  <2>1. CASE s = r
    BY <2>1 DEF WritesInv, HandlerInv, AtOperation
  <2>2. CASE s # r
    BY <2>2 DEF WritesInv, HandlerInv
  <2> QED
    BY <2>1, <2>2
<1> QED
  BY <1>1, <1>2 DEF WritesInv

\* A statement that reads leaves a transaction that reads, or the one there was.
LEMMA ReadTx ==
    ASSUME WritesInv, NEW r \in Request, Read(r)
    PROVE  \E t \in TxType : /\ tx' = [tx EXCEPT ![r] = t]
                             /\ t.state = "writing" <=> tx[r].state = "writing"
                             /\ t.state = "none" => t = NoTx
<1>1. CASE tx[r].state # "new"
  <2>1. tx' = [tx EXCEPT ![r] = tx[r]] /\ tx[r] \in TxType
    BY <1>1 DEF WritesInv, Read
  <2>2. tx[r].state = "none" => tx[r] = NoTx
    BY DEF WritesInv, HandlerInv
  <2> QED
    BY <2>1, <2>2
<1>2. CASE tx[r].state = "new"
  <2>1. [state |-> "reading", rows |-> rows, roles |-> roles] \in TxType
    BY DEF WritesInv, TxType
  <2> QED
    BY <1>2, <2>1 DEF Read
<1> QED
  BY <1>1, <1>2

\* Snapshots that become stale are otherwise what they were.
LEMMA StaleTx ==
    ASSUME WritesInv, NEW r
    PROVE  /\ Stale(r) \in [Request -> TxType]
           /\ \A s \in Request :
                 /\ Stale(r)[s].state = "writing" <=> tx[s].state = "writing"
                 /\ tx[s] = NoTx => Stale(r)[s] = NoTx
                 /\ Stale(r)[s].state = "none" => Stale(r)[s] = tx[s]
<1>1. ASSUME NEW s \in Request
      PROVE  /\ Stale(r)[s] \in TxType
             /\ Stale(r)[s].state = "writing" <=> tx[s].state = "writing"
             /\ tx[s] = NoTx => Stale(r)[s] = NoTx
             /\ Stale(r)[s].state = "none" => Stale(r)[s] = tx[s]
  <2>1. tx[s] \in TxType
    BY DEF WritesInv
  <2>2. CASE s # r /\ tx[s].state = "reading"
    <3>1. Stale(r)[s] = [tx[s] EXCEPT !.state = "stale"]
      BY <2>2 DEF Stale
    <3> QED
      BY <2>1, <2>2, <3>1 DEF TxType, NoTx
  <2>3. CASE ~(s # r /\ tx[s].state = "reading")
    <3>1. Stale(r)[s] = tx[s]
      BY <2>3 DEF Stale
    <3> QED
      BY <2>1, <3>1
  <2> QED
    BY <2>2, <2>3
<1>2. Stale(r) = [s \in Request |-> Stale(r)[s]]
  BY DEF Stale
<1> QED
  BY <1>1, <1>2

\* A statement that writes rows of the table leaves a handler that is done, or one
\* with its next operation or its commit to come, in the transaction it locks.
LEMMA WriteInv ==
    ASSUME WritesInv, NEW r \in Request, req[r].pc \in AtOperation,
           NEW written \in RowsType, Write(r, written)
    PROVE  WritesInv'
<1>1. CASE tx[r].state = "none"
  <2>1. /\ req' = [req EXCEPT ![r] = Idle] /\ rows' = written
        /\ tx' = IF written # rows THEN Stale(r) ELSE tx
        /\ UNCHANGED <<lock, policies, roles>>
    BY <1>1 DEF Write
  <2>2. /\ tx' \in [Request -> TxType]
        /\ \A s \in Request : /\ tx'[s].state = "writing" <=> tx[s].state = "writing"
                              /\ tx[s] = NoTx => tx'[s] = NoTx
                              /\ tx'[s].state = "none" => tx'[s] = tx[s]
    BY <2>1, StaleTx DEF WritesInv
  <2>3. tx'[r] = NoTx
    <3>1. tx'[r] = tx[r]
      BY <2>1, <1>1 DEF Stale, WritesInv
    <3> QED
      BY <3>1, <1>1 DEF WritesInv, HandlerInv
  <2>4. req' \in [Request -> ReqType]
    BY <2>1, Initial DEF WritesInv
  <2>5. HandlerInv'
    BY <2>1, <2>2, <2>3 DEF WritesInv, HandlerInv, Idle, Handler, AtOperation
  <2> QED
    BY <2>1, <2>2, <2>4, <2>5 DEF WritesInv
<1>2. CASE tx[r].state # "none"
  <2> DEFINE ops == Tail(req[r].ops)
             h == [req[r] EXCEPT !.ops = ops,
                                 !.pc = IF ops = <<>> THEN "commit" ELSE "next"]
             t == [state |-> "writing", rows |-> written, roles |-> Roles(r)]
  <2>1. /\ req' = [req EXCEPT ![r] = h] /\ tx' = [tx EXCEPT ![r] = t]
        /\ lock' = r /\ lock \in {NoRequest, r}
        /\ UNCHANGED <<rows, policies, roles>>
    BY <1>2 DEF Write, MayWrite, WritesInv
  <2>2. h \in ReqType /\ t \in TxType
    BY OperationAtHand, Seen DEF ReqType, Pc, TxType
  <2>3. h.pc = (IF ops = <<>> THEN "commit" ELSE "next") /\ h.ops = ops
    BY OperationAtHand DEF ReqType
  <2>4. HandlerInv'
    <3> HIDE DEF h, ops
    <3> SUFFICES ASSUME NEW s \in Request
                 PROVE  /\ req'[s].pc \in AtOperation => req'[s].ops # <<>>
                        /\ tx'[s].state = "writing" <=> lock' = s
                        /\ req'[s].pc \in {"idle", "refused"} => tx'[s] = NoTx
                        /\ req'[s].pc = "commit" => tx'[s].state = "writing"
                        /\ tx'[s].state = "none" => tx'[s] = NoTx
      BY DEF HandlerInv
    <3>1. CASE s = r
      BY <3>1, <2>1, <2>3 DEF WritesInv, AtOperation
    <3>2. CASE s # r
      BY <3>2, <2>1, WritesAssumption DEF WritesInv, HandlerInv
    <3> QED
      BY <3>1, <3>2
  <2> QED
    BY <2>1, <2>2, <2>4 DEF WritesInv
<1> QED
  BY <1>1, <1>2

\* Writing the rows of an operation, whose values are owners, gives a table.
LEMMA StoredRows ==
    ASSUME WritesInv, NEW r \in Request, req[r].pc \in AtOperation,
           NEW keys \in SUBSET DOMAIN Op(r).rows,
           \A k \in keys : Op(r).rows[k] \in Owner
    PROVE  Stored(r, keys) \in RowsType
BY Seen DEF Stored, RowsType

\* The values of an inserting operation, and those of an update that are set.
LEMMA WrittenOwners ==
    ASSUME WritesInv, NEW r \in Request, req[r].pc \in AtOperation
    PROVE  /\ Op(r).kind \in Inserting => \A k \in DOMAIN Op(r).rows : Op(r).rows[k] \in Owner
           /\ Op(r).kind = "update" =>
                \A k \in DOMAIN Op(r).rows : Op(r).rows[k] # Unset => Op(r).rows[k] \in Owner
<1>1. IsOperation(Op(r))
  BY OperationAtHand
<1> QED
  BY <1>1 DEF IsOperation, Range
-----------------------------------------------------------------------------
\* Every step preserves the invariant.
LEMMA NextInv == WritesInv /\ [Next]_vars => WritesInv'
<1> SUFFICES ASSUME WritesInv, [Next]_vars PROVE WritesInv'
  OBVIOUS
<1>1. ASSUME NEW r \in Request, NEW p \in Client, NEW op \in Operation,
             StartOperation(r, p, op)
      PROVE  WritesInv'
  <2>1. <<op>> \in Seq(Asked) /\ <<op>> # <<>>
    BY DEF Asked
  <2>2. Handler("next", p, <<op>>) \in ReqType
    BY <2>1, WritesAssumption DEF Handler, ReqType, Pc
  <2>3. tx' = [tx EXCEPT ![r] = tx[r]] /\ tx[r] \in TxType
    BY <1>1 DEF StartOperation, WritesInv
  <2>4. /\ Handler("next", p, <<op>>).pc \in AtOperation
        /\ Handler("next", p, <<op>>).ops = <<op>>
    BY DEF Handler, AtOperation
  <2>5. tx[r].state = "none" => tx[r] = NoTx
    BY DEF WritesInv, HandlerInv
  <2> QED
    BY <1>1, <2>1, <2>2, <2>3, <2>4, <2>5, MoveInv DEF StartOperation
<1>2. ASSUME NEW r \in Request, NEW p \in Client, NEW ops \in Batch,
             StartBatch(r, p, ops)
      PROVE  WritesInv'
  <2>1. ops \in Seq(Asked) /\ ops # <<>>
    <3>1. ops \in Seq(Range(ops)) /\ ops # <<>>
      BY WritesAssumption
    <3>2. Range(ops) \subseteq Asked
      BY DEF Asked
    <3> QED
      BY <3>1, <3>2
  <2>2. Handler("next", p, ops) \in ReqType
    BY <2>1, WritesAssumption DEF Handler, ReqType, Pc
  <2>3. NewTx.state = "new" /\ tx[r].state # "writing"
    BY <1>2 DEF NewTx, StartBatch, WritesInv, HandlerInv, NoTx
  <2>4. /\ Handler("next", p, ops).pc \in AtOperation
        /\ Handler("next", p, ops).ops = ops
    BY DEF Handler, AtOperation
  <2> QED
    BY <1>2, <2>1, <2>2, <2>3, <2>4, Initial, MoveInv DEF StartBatch
<1>3. ASSUME NEW r \in Request, RefuseOperation(r) PROVE WritesInv'
  BY <1>3, EndInv DEF RefuseOperation, Refuse
<1>4. ASSUME NEW r \in Request, req[r].pc = "next", Checked(r), Read(r) PROVE WritesInv'
  <2> DEFINE h == [req[r] EXCEPT
                     !.pc = AfterCheck(r),
                     !.left = IF Op(r).kind = "upsert" THEN DOMAIN Op(r).rows ELSE {}]
  <2>1. IsOperation(Op(r)) /\ req[r] \in ReqType /\ req[r].ops # <<>>
    BY <1>4, OperationAtHand DEF AtOperation
  <2>2. h \in ReqType /\ h.pc \in AtOperation /\ h.ops # <<>>
    BY <2>1 DEF ReqType, Pc, AfterCheck, AtOperation, IsOperation
  <2>3. req' = [req EXCEPT ![r] = h]
    BY <1>4 DEF Checked, WritesInv
  <2>4. PICK t \in TxType : /\ tx' = [tx EXCEPT ![r] = t]
                            /\ t.state = "writing" <=> tx[r].state = "writing"
                            /\ t.state = "none" => t = NoTx
    BY <1>4, ReadTx
  <2>5. UNCHANGED <<policies, rows, roles, lock>>
    BY <1>4 DEF Read
  <2> HIDE DEF h
  <2> QED
    BY <2>2, <2>3, <2>4, <2>5, MoveInv
<1>5. ASSUME NEW r \in Request, SkipCheck(r) PROVE WritesInv'
  <2> DEFINE h == [req[r] EXCEPT
                     !.pc = AfterCheck(r),
                     !.left = IF Op(r).kind = "upsert" THEN DOMAIN Op(r).rows ELSE {}]
  <2>1. IsOperation(Op(r)) /\ req[r] \in ReqType /\ req[r].ops # <<>>
    BY <1>5, OperationAtHand DEF AtOperation, SkipCheck, Inserts
  <2>2. h \in ReqType /\ h.pc \in AtOperation /\ h.ops # <<>>
    BY <2>1 DEF ReqType, Pc, AfterCheck, AtOperation, IsOperation
  <2>3. req' = [req EXCEPT ![r] = h]
    BY <1>5 DEF SkipCheck, Checked, WritesInv
  <2>4. /\ tx' = [tx EXCEPT ![r] = tx[r]] /\ tx[r] \in TxType
        /\ tx[r].state = "none" => tx[r] = NoTx
    BY <1>5 DEF SkipCheck, WritesInv, HandlerInv
  <2>5. UNCHANGED <<policies, rows, roles, lock>>
    BY <1>5 DEF SkipCheck
  <2> HIDE DEF h
  <2> QED
    BY <2>2, <2>3, <2>4, <2>5, MoveInv
<1>6. ASSUME NEW r \in Request, CheckInsert(r) PROVE WritesInv'
  <2>1. CASE Refuse(r)
    BY <2>1, EndInv DEF Refuse
  <2>2. CASE Checked(r) /\ Read(r)
    BY <1>6, <2>2, <1>4 DEF CheckInsert, Inserts
  <2> QED
    BY <1>6, <2>1, <2>2 DEF CheckInsert
<1>7. ASSUME NEW r \in Request, NEW k, req[r].pc \in AtOperation, Proceed(r, k), Read(r)
      PROVE  WritesInv'
  <2> DEFINE left == req[r].left \ {k}
             h == [req[r] EXCEPT !.left = left, !.key = Absent,
                                 !.pc = IF left = {} THEN "write" ELSE "conflicts"]
  <2>1. req[r] \in ReqType /\ req[r].ops # <<>>
    BY <1>7, OperationAtHand
  <2>2. h \in ReqType /\ h.pc \in AtOperation /\ h.ops # <<>>
    BY <2>1 DEF ReqType, Pc, AtOperation
  <2>3. req' = [req EXCEPT ![r] = h]
    BY <1>7 DEF Proceed, WritesInv
  <2>4. PICK t \in TxType : /\ tx' = [tx EXCEPT ![r] = t]
                            /\ t.state = "writing" <=> tx[r].state = "writing"
                            /\ t.state = "none" => t = NoTx
    BY <1>7, ReadTx
  <2>5. UNCHANGED <<policies, rows, roles, lock>>
    BY <1>7 DEF Read
  <2> HIDE DEF h
  <2> QED
    BY <2>2, <2>3, <2>4, <2>5, MoveInv
<1>8. ASSUME NEW r \in Request, NEW k \in Key, LookUpRow(r, k) PROVE WritesInv'
  <2>1. req[r].pc = "conflicts"
    BY <1>8 DEF LookUpRow
  <2>2. CASE Proceed(r, k) /\ Read(r)
    BY <2>1, <2>2, <1>7 DEF AtOperation
  <2>3. CASE Refuse(r)
    BY <2>3, EndInv DEF Refuse
  <2>4. CASE req' = [req EXCEPT ![r].pc = "conflict", ![r].key = k] /\ Read(r)
    <3> DEFINE h == [req[r] EXCEPT !.pc = "conflict", !.key = k]
    <3>1. req[r] \in ReqType /\ req[r].ops # <<>>
      BY <2>1, OperationAtHand DEF AtOperation
    <3>2. h \in ReqType /\ h.pc \in AtOperation /\ h.ops # <<>>
      BY <3>1 DEF ReqType, Pc, AtOperation
    <3>3. req' = [req EXCEPT ![r] = h]
      BY <2>4 DEF WritesInv
    <3>4. PICK t \in TxType : /\ tx' = [tx EXCEPT ![r] = t]
                              /\ t.state = "writing" <=> tx[r].state = "writing"
                              /\ t.state = "none" => t = NoTx
      BY <2>4, ReadTx
    <3>5. UNCHANGED <<policies, rows, roles, lock>>
      BY <2>4 DEF Read
    <3> HIDE DEF h
    <3> QED
      BY <3>2, <3>3, <3>4, <3>5, MoveInv
  <2> QED
    BY <1>8, <2>2, <2>3, <2>4 DEF LookUpRow
<1>9. ASSUME NEW r \in Request, CheckUpdate(r) PROVE WritesInv'
  <2>1. CASE Proceed(r, req[r].key) /\ Read(r)
    BY <1>9, <2>1, <1>7 DEF CheckUpdate, AtOperation
  <2>2. CASE Refuse(r)
    BY <2>2, EndInv DEF Refuse
  <2> QED
    BY <1>9, <2>1, <2>2 DEF CheckUpdate
<1>10. ASSUME NEW r \in Request, WriteInsert(r) \/ WriteIgnore(r) \/ WriteUpsert(r)
       PROVE  WritesInv'
  <2>1. PICK keys \in SUBSET DOMAIN Op(r).rows : Write(r, Stored(r, keys))
    <3>1. /\ Insertable(r) \in SUBSET DOMAIN Op(r).rows
          /\ {k \in Insertable(r) : Rows(r)[k] = Absent} \in SUBSET DOMAIN Op(r).rows
      BY DEF Insertable
    <3> QED
      BY <1>10, <3>1 DEF WriteInsert, WriteIgnore, WriteUpsert
  <2>2. Op(r).kind \in Inserting /\ req[r].pc \in AtOperation
    BY <1>10 DEF WriteInsert, WriteIgnore, WriteUpsert, Inserting, AtOperation
  <2>3. Stored(r, keys) \in RowsType
    BY <2>2, WrittenOwners, StoredRows
  <2> QED
    BY <2>1, <2>2, <2>3, WriteInv
<1>11. ASSUME NEW r \in Request, WriteUpdate(r) PROVE WritesInv'
  <2> DEFINE keys == {k \in Updatable(r) : Op(r).rows[k] # Unset}
  <2>1. keys \in SUBSET DOMAIN Op(r).rows
    BY DEF Updatable
  <2>2. Op(r).kind = "update" /\ req[r].pc \in AtOperation /\ Write(r, Stored(r, keys))
    BY <1>11 DEF WriteUpdate, AtOperation
  <2>3. \A k \in keys : Op(r).rows[k] # Unset
    OBVIOUS
  <2> HIDE DEF keys
  <2>4. Stored(r, keys) \in RowsType
    BY <2>1, <2>2, <2>3, WrittenOwners, StoredRows
  <2> QED
    BY <2>2, <2>4, WriteInv
<1>12. ASSUME NEW r \in Request, WriteDelete(r) PROVE WritesInv'
  <2> DEFINE left == [k \in Key |-> IF k \in Deletable(r) THEN Absent ELSE Rows(r)[k]]
  <2>1. left \in RowsType
    BY Seen DEF RowsType
  <2>2. req[r].pc \in AtOperation /\ Write(r, left)
    BY <1>12 DEF WriteDelete, AtOperation
  <2> HIDE DEF left
  <2> QED
    BY <2>1, <2>2, WriteInv
<1>13. ASSUME NEW r \in Request, Commit(r) PROVE WritesInv'
  <2> DEFINE others == IF tx[r].rows # rows THEN Stale(r) ELSE tx
  <2>1. /\ others \in [Request -> TxType]
        /\ \A s \in Request : /\ others[s].state = "writing" <=> tx[s].state = "writing"
                              /\ tx[s] = NoTx => others[s] = NoTx
                              /\ others[s].state = "none" => others[s] = tx[s]
    BY StaleTx DEF WritesInv
  <2>2. /\ req[r].pc = "commit" /\ req' = [req EXCEPT ![r] = Idle]
        /\ rows' = tx[r].rows /\ tx' = [others EXCEPT ![r] = NoTx]
        /\ lock' = NoRequest /\ UNCHANGED <<policies, roles>>
    BY <1>13 DEF Commit
  <2> HIDE DEF others
  <2>3. lock = r
    BY <2>2 DEF WritesInv, HandlerInv
  <2>4. rows' \in RowsType
    BY <2>2 DEF WritesInv, TxType
  <2>5. req' \in [Request -> ReqType] /\ tx' \in [Request -> TxType]
    BY <2>1, <2>2, Initial DEF WritesInv
  <2>6. HandlerInv'
    <3> SUFFICES ASSUME NEW s \in Request
                 PROVE  /\ req'[s].pc \in AtOperation => req'[s].ops # <<>>
                        /\ tx'[s].state = "writing" <=> lock' = s
                        /\ req'[s].pc \in {"idle", "refused"} => tx'[s] = NoTx
                        /\ req'[s].pc = "commit" => tx'[s].state = "writing"
                        /\ tx'[s].state = "none" => tx'[s] = NoTx
      BY DEF HandlerInv
    <3>1. CASE s = r
      BY <3>1, <2>1, <2>2, WritesAssumption
         DEF WritesInv, Idle, Handler, AtOperation, NoTx
    <3>2. CASE s # r
      BY <3>2, <2>1, <2>2, <2>3, WritesAssumption DEF WritesInv, HandlerInv
    <3> QED
      BY <3>1, <3>2
  <2> QED
    BY <2>2, <2>4, <2>5, <2>6 DEF WritesInv
<1>14. ASSUME NEW r \in Request, Fail(r) PROVE WritesInv'
  BY <1>14, EndInv DEF Fail
<1>15. ASSUME NEW u \in User \cap Client, NEW role \in Role \cup {Nobody},
              ChangeMember(u, role)
       PROVE  WritesInv'
  <2>1. roles' \in RolesType
    BY <1>15 DEF ChangeMember, WritesInv, RolesType
  <2>2. /\ tx' \in [Request -> TxType]
        /\ \A s \in Request : /\ tx'[s].state = "writing" <=> tx[s].state = "writing"
                              /\ tx[s] = NoTx => tx'[s] = NoTx
                              /\ tx'[s].state = "none" => tx'[s] = tx[s]
    BY <1>15, StaleTx DEF ChangeMember
  <2>3. UNCHANGED <<policies, rows, req, lock>>
    BY <1>15 DEF ChangeMember
  <2>4. HandlerInv'
    BY <2>2, <2>3 DEF WritesInv, HandlerInv
  <2> QED
    BY <2>1, <2>2, <2>3, <2>4 DEF WritesInv
<1>16. CASE UNCHANGED vars
  BY <1>16 DEF vars, WritesInv, HandlerInv
<1> QED
  BY <1>1, <1>2, <1>3, <1>5, <1>6, <1>8, <1>9, <1>10, <1>11, <1>12, <1>13, <1>14,
     <1>15, <1>16
     DEF Next, Step, Work
-----------------------------------------------------------------------------
\* Type correctness of the data API: in particular the write lock belongs to the
\* one transaction that writes, and no request that has ended left one behind.
THEOREM TypeCorrect == Spec => []TypeOK
<1>1. WritesInv => TypeOK
  <2> SUFFICES ASSUME WritesInv PROVE TypeOK
    OBVIOUS
  <2>1. ASSUME NEW r \in Request
        PROVE  /\ req[r].pc \in Pc /\ req[r].by \in Principal
               /\ req[r].left \subseteq Key /\ req[r].key \in Key \cup {Absent}
               /\ tx[r].rows \in RowsType /\ tx[r].roles \in RolesType
    BY DEF WritesInv, ReqType, TxType
  <2> QED
    BY <2>1 DEF TypeOK, WritesInv, HandlerInv, RowsType, RolesType
<1> QED
  BY <1>1, InitInv, NextInv, PTL DEF Spec

\* A batch is seen by others when it commits, and then all of it.
THEOREM BatchesVisibleWhole == Spec => BatchVisibleWhole
<1> DEFINE Whole == \A r \in Request :
             tx[r].state # "none" /\ req'[r] # req[r] /\ rows' # rows =>
                 req[r].pc = "commit" /\ rows' = tx[r].rows
<1>1. WritesInv /\ [Next]_vars => [Whole]_vars
  <2> SUFFICES ASSUME WritesInv, Next, NEW r \in Request, tx[r].state # "none",
                      req'[r] # req[r], rows' # rows
               PROVE  req[r].pc = "commit" /\ rows' = tx[r].rows
    OBVIOUS
  <2>1. ASSUME NEW s \in Request, NEW written, Write(s, written)
        PROVE  FALSE
    <3>1. tx[s].state = "none" /\ req' = [req EXCEPT ![s] = Idle]
      BY <2>1 DEF Write
    <3> QED
      BY <3>1 DEF WritesInv
  <2>2. ASSUME NEW s \in Request, Commit(s)
        PROVE  req[r].pc = "commit" /\ rows' = tx[r].rows
    <3>1. s = r
      BY <2>2 DEF Commit, WritesInv
    <3> QED
      BY <2>2, <3>1 DEF Commit
  <2>3. ASSUME NEW s \in Request, Step(s)
        PROVE  Commit(s) \/ \E written : Write(s, written)
    <3>1. \/ WriteInsert(s) \/ WriteIgnore(s) \/ WriteUpsert(s)
          \/ WriteUpdate(s) \/ WriteDelete(s) \/ Commit(s)
      BY <2>3 DEF Step, Work, StartOperation, StartBatch, RefuseOperation, SkipCheck,
                  CheckInsert, LookUpRow, CheckUpdate, Fail, Refuse, End, Read
    <3> QED
      BY <3>1 DEF WriteInsert, WriteIgnore, WriteUpsert, WriteUpdate, WriteDelete
  <2>4. \A u \in User \cap Client, role \in Role \cup {Nobody} : ~ChangeMember(u, role)
    BY DEF ChangeMember
  <2> QED
    BY <2>1, <2>2, <2>3, <2>4 DEF Next
<1> QED
  BY <1>1, InitInv, NextInv, PTL DEF Spec, BatchVisibleWhole

-----------------------------------------------------------------------------
(* 3  Checks. *)

\* A policy is decided by the reference as by what it compiles to.
Decides(predicate, policy, in) ==
    /\ predicate.allowed \in BOOLEAN /\ predicate.filters \in BOOLEAN
    /\ \A e \in Env :
        /\ predicate.where[e] = Permits(policy, in, e)
        /\ Permits(policy, in, e) \in Truths
        /\ ~predicate.allowed => Permits(policy, in, e) = "false"
        /\ predicate.allowed /\ ~predicate.filters => Permits(policy, in, e) = "true"

\* A policy and what it compiles to decide the same.
LEMMA PolicyDecides ==
    ASSUME NEW in \in Input, NEW policy \in Condition \cup {NoPolicy, Unconditional}
    PROVE  Decides(Compile(policy, in), policy, in)
<1>1. PICK said : said = [e \in Env |-> Permits(policy, in, e)]
  OBVIOUS
<1>2. Means(Compile(policy, in), said)
  BY <1>1, PoliciesMean
<1> QED
  BY <1>1, <1>2 DEF Means, Decides

\* So do the three policies of a request.
LEMMA PoliciesDecide ==
    ASSUME WritesInv, NEW r \in Request
    PROVE  /\ Decides(InsertPolicy(r), policies.insert, InsertInput(r))
           /\ \A v \in Owner \cup {Unset} :
                 Decides(UpdatePolicy(r, v), policies.update, UpdateInput(r, v))
           /\ Decides(DeletePolicy(r), policies.delete, UpdateInput(r, Unset))
<1>1. policies.insert \in Condition \cup {NoPolicy, Unconditional}
  BY WritesAssumption DEF WritesInv, Range
<1>2. policies.update \in Condition \cup {NoPolicy, Unconditional}
  BY WritesAssumption DEF WritesInv, Range
<1>3. policies.delete \in Condition \cup {NoPolicy, Unconditional}
  BY WritesAssumption DEF WritesInv, Range
<1>4. InsertInput(r) \in Input
  BY DEF WritesInv, ReqType, InsertInput, Input
<1>5. \A v \in Owner \cup {Unset} : UpdateInput(r, v) \in Input
  BY DEF WritesInv, ReqType, UpdateInput, Input
<1> QED
  BY <1>1, <1>2, <1>3, <1>4, <1>5, PolicyDecides DEF InsertPolicy, UpdatePolicy, DeletePolicy

\* The rows of the operation at hand, and what its policies are asked about.
LEMMA OperationRows ==
    ASSUME WritesInv, NEW r \in Request, req[r].pc \in AtOperation
    PROVE  /\ DOMAIN Op(r).rows # {} /\ DOMAIN Op(r).rows \subseteq Key
           /\ Op(r).kind \in Kinds
           /\ \A k \in DOMAIN Op(r).rows : Op(r).rows[k] \in Owner \cup {Unset}
           /\ Op(r).kind \in Inserting => \A k \in DOMAIN Op(r).rows : Op(r).rows[k] \in Owner
<1>1. IsOperation(Op(r))
  BY OperationAtHand
<1> QED
  BY <1>1 DEF IsOperation, Range, Kinds, Inserting, Owner

\* They are asked about rows and memberships that exist.
LEMMA AskedAbout ==
    ASSUME WritesInv, NEW r \in Request
    PROVE  /\ \A v \in Owner : InsertEnv(r, v) \in Env
           /\ \A k \in Key : Rows(r)[k] \in Owner => StoredEnv(r, k) \in Env
           /\ \A k \in Key : Rows(r)[k] \in Owner \cup {Absent}
<1>1. RoleOf(r) \in Role \cup {Nobody}
  BY Seen DEF RoleOf, RolesType
<1>2. Null \in Owner
  BY DEF Owner
<1> QED
  BY <1>1, <1>2, Seen DEF InsertEnv, StoredEnv, Env, RowsType

\* What a statement writes is what the reference permits.
LEMMA InsertableRows ==
    ASSUME WritesInv, NEW r \in Request, req[r].pc \in AtOperation,
           Op(r).kind \in Inserting
    PROVE  /\ Insertable(r) = {k \in DOMAIN Op(r).rows : MayInsert(r, Op(r).rows[k]) = "true"}
           /\ Rejected(r) = {k \in DOMAIN Op(r).rows : MayInsert(r, Op(r).rows[k]) = "false"}
           /\ \A k \in DOMAIN Op(r).rows : MayInsert(r, Op(r).rows[k]) \in Truths
<1>1. \A k \in DOMAIN Op(r).rows : InsertEnv(r, Op(r).rows[k]) \in Env
  BY AskedAbout, OperationRows
<1>2. \A k \in DOMAIN Op(r).rows :
         /\ InsertPolicy(r).where[InsertEnv(r, Op(r).rows[k])] = MayInsert(r, Op(r).rows[k])
         /\ MayInsert(r, Op(r).rows[k]) \in Truths
  BY <1>1, PoliciesDecide DEF Decides, MayInsert
<1> QED
  BY <1>2 DEF Insertable, Rejected

\* The rows that an update finds.
LEMMA UpdatableRows ==
    ASSUME WritesInv, NEW r \in Request, req[r].pc \in AtOperation
    PROVE  Updatable(r) = {k \in DOMAIN Op(r).rows :
               Rows(r)[k] # Absent /\ MayUpdate(r, k, Op(r).rows[k]) = "true"}
<1>1. \A k \in DOMAIN Op(r).rows : Rows(r)[k] # Absent => StoredEnv(r, k) \in Env
  BY AskedAbout, OperationRows
<1>2. \A k \in DOMAIN Op(r).rows : Rows(r)[k] # Absent =>
         UpdatePolicy(r, Op(r).rows[k]).where[StoredEnv(r, k)] = MayUpdate(r, k, Op(r).rows[k])
  BY <1>1, PoliciesDecide, OperationRows DEF Decides, MayUpdate
<1> QED
  BY <1>2 DEF Updatable

\* The rows that a delete finds.
LEMMA DeletableRows ==
    ASSUME WritesInv, NEW r \in Request, req[r].pc \in AtOperation
    PROVE  Deletable(r) = {k \in DOMAIN Op(r).rows :
               Rows(r)[k] # Absent /\ MayDelete(r, k) = "true"}
<1>1. \A k \in DOMAIN Op(r).rows : Rows(r)[k] # Absent => StoredEnv(r, k) \in Env
  BY AskedAbout, OperationRows
<1>2. \A k \in DOMAIN Op(r).rows : Rows(r)[k] # Absent =>
         DeletePolicy(r).where[StoredEnv(r, k)] = MayDelete(r, k)
  BY <1>1, PoliciesDecide DEF Decides, MayDelete
<1> QED
  BY <1>2 DEF Deletable

\* What r sees and may do does not change with its program counter.
LEMMA SameView ==
    ASSUME NEW r, policies' = policies, req'[r].by = req[r].by,
           Rows(r)' = Rows(r), Roles(r)' = Roles(r)
    PROVE  /\ InsertInput(r)' = InsertInput(r)
           /\ \A k, v : /\ MayInsert(r, v)' = MayInsert(r, v)
                        /\ MayUpdate(r, k, v)' = MayUpdate(r, k, v)
BY DEF InsertInput, UpdateInput, MayInsert, MayUpdate, InsertEnv, StoredEnv, RoleOf

\* A statement that reads sees what the next statement will see.
LEMMA ReadView ==
    ASSUME WritesInv, NEW r \in Request, Read(r)
    PROVE  /\ policies' = policies /\ rows' = rows /\ roles' = roles
           /\ Rows(r)' = Rows(r) /\ Roles(r)' = Roles(r)
           /\ tx[r].state # "new" => tx'[r] = tx[r]
           /\ tx[r].state = "new" => /\ tx'[r].state = "reading"
                                     /\ tx'[r].rows = rows /\ tx'[r].roles = roles
BY DEF Read, WritesInv, Rows, Roles, Reading

\* The steps of others change nothing that r holds, and of its transaction only that
\* the snapshot is stale, which it is before anything else is committed.
Undisturbed(r) ==
    /\ req'[r] = req[r] /\ policies' = policies
    /\ tx'[r].rows = tx[r].rows /\ tx'[r].roles = tx[r].roles
    /\ \/ tx'[r].state = tx[r].state
       \/ tx[r].state = "reading" /\ tx'[r].state = "stale"
    /\ tx'[r].state \in {"reading", "writing"} => rows' = rows /\ roles' = roles

\* A snapshot that becomes stale keeps its rows and memberships.
LEMMA StaleView ==
    ASSUME WritesInv, NEW s, NEW r \in Request, s # r
    PROVE  /\ Stale(s)[r].rows = tx[r].rows /\ Stale(s)[r].roles = tx[r].roles
           /\ IF tx[r].state = "reading" THEN Stale(s)[r].state = "stale"
              ELSE Stale(s)[r] = tx[r]
<1>1. tx[r] \in TxType
  BY DEF WritesInv
<1>2. CASE tx[r].state = "reading"
  <2>1. Stale(s)[r] = [tx[r] EXCEPT !.state = "stale"]
    BY <1>2 DEF Stale
  <2> QED
    BY <1>1, <1>2, <2>1 DEF TxType
<1>3. CASE tx[r].state # "reading"
  BY <1>3 DEF Stale
<1> QED
  BY <1>2, <1>3

\* A step of another request leaves r undisturbed.
LEMMA OthersLeaveIt ==
    ASSUME WritesInv, NEW r \in Request, NEW s \in Request, s # r, Step(s)
    PROVE  Undisturbed(r)
<1>1. ASSUME NEW written, Write(s, written) PROVE Undisturbed(r)
  <2>1. CASE tx[s].state = "none"
    <3>1. /\ req' = [req EXCEPT ![s] = Idle] /\ lock \in {NoRequest, s}
          /\ rows' = written /\ tx' = IF written # rows THEN Stale(s) ELSE tx
          /\ UNCHANGED <<policies, roles>>
      BY <1>1, <2>1 DEF Write, MayWrite
    <3>2. tx[r].state # "writing"
      BY <3>1, WritesAssumption DEF WritesInv, HandlerInv
    <3> QED
      BY <3>1, <3>2, StaleView DEF Undisturbed, WritesInv
  <2>2. CASE tx[s].state # "none"
    BY <1>1, <2>2 DEF Write, Undisturbed, WritesInv
  <2> QED
    BY <2>1, <2>2
<1>2. ASSUME Commit(s) PROVE Undisturbed(r)
  <2>1. /\ req' = [req EXCEPT ![s] = Idle] /\ rows' = tx[s].rows
        /\ tx' = [(IF tx[s].rows # rows THEN Stale(s) ELSE tx) EXCEPT ![s] = NoTx]
        /\ UNCHANGED <<policies, roles>> /\ req[s].pc = "commit"
    BY <1>2 DEF Commit
  <2>2. lock = s /\ tx[r].state # "writing"
    BY <2>1 DEF WritesInv, HandlerInv
  <2>3. CASE tx[s].rows # rows
    <3>1. tx'[r] = Stale(s)[r]
      BY <2>1, <2>3 DEF Stale
    <3> QED
      BY <2>1, <2>2, <3>1, StaleView DEF Undisturbed, WritesInv
  <2>4. CASE tx[s].rows = rows
    BY <2>1, <2>4 DEF Undisturbed, WritesInv
  <2> QED
    BY <2>3, <2>4
<1>3. ASSUME UNCHANGED <<rows, roles, policies>>, req'[r] = req[r], tx'[r] = tx[r]
      PROVE  Undisturbed(r)
  BY <1>3 DEF Undisturbed
<1>4. ASSUME NEW how, End(s, how) PROVE Undisturbed(r)
  BY <1>3, <1>4 DEF End, WritesInv
<1>5. ASSUME Read(s), req'[r] = req[r] PROVE Undisturbed(r)
  BY <1>3, <1>5 DEF Read, WritesInv
<1>6. ASSUME NEW p, NEW op, StartOperation(s, p, op) PROVE Undisturbed(r)
  BY <1>3, <1>6 DEF StartOperation, WritesInv
<1>7. ASSUME NEW p, NEW ops, StartBatch(s, p, ops) PROVE Undisturbed(r)
  BY <1>3, <1>7 DEF StartBatch, WritesInv
<1>8. ASSUME RefuseOperation(s) \/ Fail(s) PROVE Undisturbed(r)
  BY <1>4, <1>8 DEF RefuseOperation, Fail, Refuse
<1>9. ASSUME SkipCheck(s) PROVE Undisturbed(r)
  BY <1>3, <1>9 DEF SkipCheck, Checked, WritesInv
<1>10. ASSUME CheckInsert(s) PROVE Undisturbed(r)
  BY <1>4, <1>5, <1>10 DEF CheckInsert, Checked, Refuse, WritesInv
<1>11. ASSUME NEW k, LookUpRow(s, k) PROVE Undisturbed(r)
  BY <1>4, <1>5, <1>11 DEF LookUpRow, Proceed, Refuse, WritesInv
<1>12. ASSUME CheckUpdate(s) PROVE Undisturbed(r)
  BY <1>4, <1>5, <1>12 DEF CheckUpdate, Proceed, Refuse, WritesInv
<1>13. ASSUME \/ WriteInsert(s) \/ WriteIgnore(s) \/ WriteUpsert(s)
              \/ WriteUpdate(s) \/ WriteDelete(s)
       PROVE  Undisturbed(r)
  BY <1>1, <1>13 DEF WriteInsert, WriteIgnore, WriteUpsert, WriteUpdate, WriteDelete
<1> QED
  BY <1>2, <1>6, <1>7, <1>8, <1>9, <1>10, <1>11, <1>12, <1>13 DEF Step, Work

\* So does a change of a membership.
LEMMA MembersLeaveIt ==
    ASSUME WritesInv, NEW r \in Request, NEW u, NEW role, ChangeMember(u, role)
    PROVE  Undisturbed(r)
<1>1. /\ tx' = Stale(NoRequest) /\ lock = NoRequest
      /\ UNCHANGED <<policies, rows, req, lock>> /\ NoRequest # r
  BY WritesAssumption DEF ChangeMember
<1>2. tx[r].state # "writing"
  BY <1>1 DEF WritesInv, HandlerInv
<1> QED
  BY <1>1, <1>2, StaleView DEF Undisturbed
-----------------------------------------------------------------------------
Between == {"conflicts", "conflict", "write"}

\* A handler that has ended has no operation left, and one between the check and the
\* write of an operation is inserting; only rows of an upsert are looked up, and all
\* of them before it writes.
ProgressInv(r) ==
    /\ req[r].pc \in {"idle", "refused", "commit"} => req[r].ops = <<>>
    /\ req[r].pc \in {"conflicts", "conflict"} =>
          Op(r).kind = "upsert" /\ req[r].left \subseteq DOMAIN Op(r).rows
    /\ req[r].pc = "conflict" => req[r].key \in DOMAIN Op(r).rows
    /\ req[r].pc = "write" => Op(r).kind \in Inserting /\ req[r].left = {}

\* In a batch, no row of the operation is forbidden after the check, and a row of an
\* upsert that was looked up may be replaced: both in the snapshot, and if there is
\* none yet, whatever it will be.
CheckedInv(r) ==
    req[r].pc \in Between /\ tx[r].state # "none" =>
        IF tx[r].state = "new"
        THEN /\ \A e \in Env : Permits(policies.insert, InsertInput(r), e) = "true"
             /\ Op(r).kind = "upsert" =>
                   req[r].pc = "conflicts" /\ req[r].left = DOMAIN Op(r).rows
        ELSE /\ \A k \in DOMAIN Op(r).rows : MayInsert(r, Op(r).rows[k]) # "false"
             /\ Op(r).kind = "upsert" =>
                   \A k \in DOMAIN Op(r).rows \ req[r].left :
                       Rows(r)[k] = Absent \/ MayUpdate(r, k, Op(r).rows[k]) = "true"

PolicyInv == WritesInv /\ \A r \in Request : ProgressInv(r) /\ CheckedInv(r)

\* A handler at an operation that sees what it saw.
LEMMA StillChecked ==
    ASSUME NEW r, ProgressInv(r), CheckedInv(r),
           req'[r] = req[r], policies' = policies,
           tx'[r].state = "new" <=> tx[r].state = "new",
           tx'[r].state = "none" <=> tx[r].state = "none",
           tx[r].state \notin {"none", "new"} => Rows(r)' = Rows(r) /\ Roles(r)' = Roles(r)
    PROVE  ProgressInv(r)' /\ CheckedInv(r)'
<1>1. ProgressInv(r)'
  BY DEF ProgressInv, Op
<1>2. CASE tx[r].state = "none"
  <2>1. tx'[r].state = "none"
    BY <1>2
  <2> QED
    BY <1>1, <2>1 DEF CheckedInv
<1>4. CASE tx[r].state = "new"
  <2>1. tx'[r].state = "new"
    BY <1>4
  <2>2. InsertInput(r)' = InsertInput(r) /\ Op(r)' = Op(r)
    BY DEF InsertInput, Op
  <2> QED
    BY <1>1, <1>4, <2>1, <2>2 DEF CheckedInv
<1>3. CASE tx[r].state \notin {"none", "new"}
  <2>1. Op(r)' = Op(r) /\ Rows(r)' = Rows(r)
    BY <1>3 DEF Op
  <2>2. \A k, v : MayInsert(r, v)' = MayInsert(r, v) /\ MayUpdate(r, k, v)' = MayUpdate(r, k, v)
    BY <1>3, SameView
  <2>3. CheckedInv(r)'
    BY <1>3, <2>1, <2>2 DEF CheckedInv
  <2> QED
    BY <1>1, <2>3
<1> QED
  BY <1>2, <1>3, <1>4

\* What r sees in its snapshot when it is left undisturbed.
LEMMA UndisturbedView ==
    ASSUME WritesInv, NEW r \in Request, Undisturbed(r)
    PROVE  /\ tx'[r].state = "new" <=> tx[r].state = "new"
           /\ tx'[r].state = "none" <=> tx[r].state = "none"
           /\ tx[r].state \notin {"none", "new"} => Rows(r)' = Rows(r) /\ Roles(r)' = Roles(r)
BY DEF Undisturbed, WritesInv, TxType, Rows, Roles, Reading

\* The initial states satisfy the second invariant.
LEMMA InitPolicyInv == Init => PolicyInv
<1> SUFFICES ASSUME Init PROVE PolicyInv
  OBVIOUS
<1>1. ASSUME NEW r \in Request PROVE ProgressInv(r) /\ CheckedInv(r)
  <2>1. req[r].pc = "idle" /\ req[r].ops = <<>>
    BY DEF Init, Idle, Handler
  <2> QED
    BY <2>1 DEF ProgressInv, CheckedInv, Between
<1> QED
  BY <1>1, InitInv DEF PolicyInv

\* The steps of r itself.
LEMMA OwnStepChecked ==
    ASSUME PolicyInv, NEW r \in Request, Step(r)
    PROVE  ProgressInv(r)' /\ CheckedInv(r)'
<1> USE DEF PolicyInv
<1> DEFINE Kept == ProgressInv(r)' /\ CheckedInv(r)'
<1>0. ProgressInv(r) /\ CheckedInv(r) /\ req[r] \in ReqType /\ tx[r] \in TxType
  BY DEF WritesInv
<1>1. ASSUME req'[r].pc = "next" PROVE Kept
  BY <1>1 DEF ProgressInv, CheckedInv, Between
<1>2. ASSUME req'[r].pc \in {"idle", "refused", "commit"}, req'[r].ops = <<>> PROVE Kept
  BY <1>2 DEF ProgressInv, CheckedInv, Between
<1>3. ASSUME NEW how \in {Idle, Refused}, End(r, how) PROVE Kept
  <2>1. req'[r] = how
    BY <1>3 DEF End, WritesInv
  <2> QED
    BY <1>2, <2>1 DEF Idle, Refused, Handler
<1>4. ASSUME NEW written, Write(r, written) PROVE Kept
  <2>1. \/ req'[r] = Idle
        \/ /\ req'[r].ops = Tail(req[r].ops)
           /\ req'[r].pc = IF Tail(req[r].ops) = <<>> THEN "commit" ELSE "next"
    BY <1>4, <1>0 DEF Write, WritesInv, ReqType
  <2>2. CASE req'[r] = Idle
    BY <1>2, <2>2 DEF Idle, Handler
  <2>3. CASE /\ req'[r].ops = Tail(req[r].ops)
             /\ req'[r].pc = IF Tail(req[r].ops) = <<>> THEN "commit" ELSE "next"
    BY <1>1, <1>2, <2>3
  <2> QED
    BY <2>1, <2>2, <2>3
<1>5. ASSUME Commit(r) PROVE Kept
  <2>1. req'[r] = Idle
    BY <1>5 DEF Commit, WritesInv
  <2> QED
    BY <1>2, <2>1 DEF Idle, Handler
<1>6. ASSUME NEW p \in Client,
             (\E op \in Operation : StartOperation(r, p, op)) \/ \E ops \in Batch : StartBatch(r, p, ops)
      PROVE  Kept
  <2>1. req'[r].pc = "next"
    BY <1>6 DEF StartOperation, StartBatch, Handler, WritesInv
  <2> QED
    BY <1>1, <2>1
<1>7. ASSUME req[r].pc = "next", Op(r).kind \in Inserting, Checked(r),
             policies' = policies, Rows(r)' = Rows(r), Roles(r)' = Roles(r),
             tx'[r].state = "new" =>
                 \A e \in Env : Permits(policies.insert, InsertInput(r), e) = "true",
             \A k \in DOMAIN Op(r).rows : MayInsert(r, Op(r).rows[k]) # "false"
      PROVE  Kept
  <2>1. req'[r] = [req[r] EXCEPT
             !.pc = AfterCheck(r),
             !.left = IF Op(r).kind = "upsert" THEN DOMAIN Op(r).rows ELSE {}]
    BY <1>7 DEF Checked, WritesInv
  <2>2. /\ req'[r].by = req[r].by /\ req'[r].ops = req[r].ops
        /\ Op(r).kind = "upsert" => req'[r].pc = "conflicts" /\ req'[r].left = DOMAIN Op(r).rows
        /\ Op(r).kind # "upsert" => req'[r].pc = "write" /\ req'[r].left = {}
    BY <2>1, <1>0 DEF ReqType, AfterCheck
  <2>3. Op(r)' = Op(r)
    BY <2>2 DEF Op
  <2>4. /\ InsertInput(r)' = InsertInput(r)
        /\ \A k, v : MayInsert(r, v)' = MayInsert(r, v) /\ MayUpdate(r, k, v)' = MayUpdate(r, k, v)
    BY <1>7, <2>2, SameView
  <2>5. ProgressInv(r)'
    BY <1>7, <2>2, <2>3 DEF ProgressInv
  <2>6. CheckedInv(r)'
    BY <1>7, <2>2, <2>3, <2>4 DEF CheckedInv
  <2> QED
    BY <2>5, <2>6
<1>8. ASSUME SkipCheck(r) PROVE Kept
  <2>1. /\ req[r].pc = "next" /\ Op(r).kind \in Inserting
        /\ InsertPolicy(r).allowed /\ ~InsertPolicy(r).filters
        /\ Checked(r) /\ UNCHANGED <<policies, rows, roles, tx, lock>>
    BY <1>8 DEF SkipCheck, Inserts
  <2>2. \A e \in Env : Permits(policies.insert, InsertInput(r), e) = "true"
    BY <2>1, PoliciesDecide DEF Decides
  <2>3. \A k \in DOMAIN Op(r).rows : MayInsert(r, Op(r).rows[k]) = "true"
    BY <2>1, <2>2, OperationRows, AskedAbout DEF MayInsert, AtOperation
  <2>4. Rows(r)' = Rows(r) /\ Roles(r)' = Roles(r)
    BY <2>1 DEF Rows, Roles
  <2> QED
    BY <1>7, <2>1, <2>2, <2>3, <2>4
<1>9. ASSUME CheckInsert(r) PROVE Kept
  <2>1. CASE Refuse(r)
    BY <1>3, <2>1 DEF Refuse
  <2>2. CASE Rejected(r) = {} /\ Checked(r) /\ Read(r)
    <3>1. req[r].pc = "next" /\ Op(r).kind \in Inserting
      BY <1>9 DEF CheckInsert, Inserts
    <3>2. \A k \in DOMAIN Op(r).rows : MayInsert(r, Op(r).rows[k]) # "false"
      BY <2>2, <3>1, InsertableRows DEF AtOperation
    <3>3. tx'[r].state # "new"
      BY <2>2, ReadView
    <3> QED
      BY <1>7, <2>2, <3>1, <3>2, <3>3, ReadView
  <2> QED
    BY <1>9, <2>1, <2>2 DEF CheckInsert
<1>10. ASSUME req[r].pc \in {"conflicts", "conflict"}, Read(r),
              req'[r].by = req[r].by, req'[r].ops = req[r].ops,
              req'[r].pc \in Between, req'[r].left \subseteq req[r].left,
              req'[r].pc = "write" => req'[r].left = {},
              req'[r].pc = "conflict" => req'[r].key \in DOMAIN Op(r).rows,
              tx[r].state = "new" => req[r].pc = "conflicts",
              \A k \in req[r].left \ req'[r].left :
                  Rows(r)[k] = Absent \/ MayUpdate(r, k, Op(r).rows[k]) = "true"
       PROVE  Kept
  <2>1. Op(r)' = Op(r) /\ Op(r).kind = "upsert" /\ req[r].left \subseteq DOMAIN Op(r).rows
    BY <1>10, <1>0 DEF Op, ProgressInv
  <2>2. \A k, v : MayInsert(r, v)' = MayInsert(r, v) /\ MayUpdate(r, k, v)' = MayUpdate(r, k, v)
    BY <1>10, ReadView, SameView
  <2>3. Rows(r)' = Rows(r) /\ tx'[r].state # "new"
    BY <1>10, ReadView
  <2>4. ProgressInv(r)'
    BY <1>10, <2>1 DEF ProgressInv, Inserting, Between
  <2>5. CASE tx[r].state = "new"
    <3>1. \A k \in DOMAIN Op(r).rows : MayInsert(r, Op(r).rows[k]) = "true"
      <4>1. \A e \in Env : Permits(policies.insert, InsertInput(r), e) = "true"
        BY <1>0, <1>10, <2>5 DEF CheckedInv, Between
      <4> QED
        BY <1>10, <2>1, <4>1, OperationRows, AskedAbout DEF MayInsert, AtOperation, Inserting
    <3>2. req[r].left = DOMAIN Op(r).rows
      BY <1>0, <1>10, <2>1, <2>5 DEF CheckedInv, Between
    <3>3. CheckedInv(r)'
      BY <1>10, <2>1, <2>2, <2>3, <3>1, <3>2 DEF CheckedInv
    <3> QED
      BY <2>4, <3>3
  <2>6. CASE tx[r].state = "none"
    <3>1. tx'[r].state = "none"
      BY <1>10, <2>6, ReadView
    <3>2. CheckedInv(r)'
      BY <3>1 DEF CheckedInv
    <3> QED
      BY <2>4, <3>2
  <2>7. CASE tx[r].state \notin {"none", "new"}
    <3>1. /\ \A k \in DOMAIN Op(r).rows : MayInsert(r, Op(r).rows[k]) # "false"
          /\ \A k \in DOMAIN Op(r).rows \ req[r].left :
                 Rows(r)[k] = Absent \/ MayUpdate(r, k, Op(r).rows[k]) = "true"
      BY <1>0, <1>10, <2>1, <2>7 DEF CheckedInv, Between
    <3>2. CheckedInv(r)'
      BY <1>10, <2>1, <2>2, <2>3, <3>1 DEF CheckedInv
    <3> QED
      BY <2>4, <3>2
  <2> QED
    BY <2>5, <2>6, <2>7
<1>11. ASSUME NEW k, Proceed(r, k)
       PROVE  /\ req'[r].by = req[r].by /\ req'[r].ops = req[r].ops
              /\ req'[r].left = req[r].left \ {k}
              /\ req'[r].pc = IF req'[r].left = {} THEN "write" ELSE "conflicts"
  BY <1>0, <1>11 DEF Proceed, WritesInv, ReqType
<1>12. ASSUME NEW k \in Key, LookUpRow(r, k) PROVE Kept
  <2>1. req[r].pc = "conflicts" /\ k \in req[r].left
    BY <1>12 DEF LookUpRow
  <2>2. CASE Refuse(r)
    BY <1>3, <2>2 DEF Refuse
  <2>3. CASE Rows(r)[k] = Absent /\ Proceed(r, k) /\ Read(r)
    BY <1>10, <1>11, <2>1, <2>3 DEF Between
  <2>4. CASE req' = [req EXCEPT ![r].pc = "conflict", ![r].key = k] /\ Read(r)
    <3>1. /\ req'[r].by = req[r].by /\ req'[r].ops = req[r].ops
          /\ req'[r].left = req[r].left /\ req'[r].key = k
          /\ req'[r].pc = "conflict"
      BY <1>0, <2>4 DEF WritesInv, ReqType
    <3>2. k \in DOMAIN Op(r).rows
      BY <1>0, <2>1 DEF ProgressInv
    <3> QED
      BY <1>10, <2>1, <2>4, <3>1, <3>2 DEF Between
  <2> QED
    BY <1>12, <2>2, <2>3, <2>4 DEF LookUpRow
<1>13. ASSUME CheckUpdate(r) PROVE Kept
  <2>1. req[r].pc = "conflict"
    BY <1>13 DEF CheckUpdate
  <2>2. CASE Refuse(r)
    BY <1>3, <2>2 DEF Refuse
  <2>3. CASE req[r].key \in Updatable(r) /\ Proceed(r, req[r].key) /\ Read(r)
    <3>1. MayUpdate(r, req[r].key, Op(r).rows[req[r].key]) = "true"
      BY <2>1, <2>3, UpdatableRows DEF AtOperation
    <3>2. tx[r].state # "new"
      BY <1>0, <2>1 DEF CheckedInv, ProgressInv, Between
    <3> QED
      BY <1>10, <1>11, <2>1, <2>3, <3>1, <3>2 DEF Between
  <2> QED
    BY <1>13, <2>2, <2>3 DEF CheckUpdate
<1>14. ASSUME RefuseOperation(r) \/ Fail(r) PROVE Kept
  BY <1>3, <1>14 DEF RefuseOperation, Fail, Refuse
<1>15. ASSUME \/ WriteInsert(r) \/ WriteIgnore(r) \/ WriteUpsert(r)
              \/ WriteUpdate(r) \/ WriteDelete(r)
       PROVE  Kept
  BY <1>4, <1>15 DEF WriteInsert, WriteIgnore, WriteUpsert, WriteUpdate, WriteDelete
<1> HIDE DEF Kept
<1>16. Kept
  BY <1>5, <1>6, <1>8, <1>9, <1>12, <1>13, <1>14, <1>15 DEF Step, Work
<1> QED
  BY <1>16 DEF Kept

\* Every step preserves it: those of r itself, and those that leave r undisturbed.
LEMMA NextPolicyInv == PolicyInv /\ [Next]_vars => PolicyInv'
<1> SUFFICES ASSUME PolicyInv, [Next]_vars PROVE PolicyInv'
  OBVIOUS
<1>1. WritesInv /\ WritesInv'
  BY NextInv DEF PolicyInv
<1>2. ASSUME NEW r \in Request PROVE ProgressInv(r)' /\ CheckedInv(r)'
  <2>1. ASSUME Undisturbed(r) PROVE ProgressInv(r)' /\ CheckedInv(r)'
    BY <1>1, <2>1, UndisturbedView, StillChecked DEF Undisturbed, PolicyInv
  <2>2. CASE Step(r)
    BY <2>2, OwnStepChecked
  <2>3. ASSUME NEW s \in Request, s # r, Step(s) PROVE Undisturbed(r)
    BY <1>1, <2>3, OthersLeaveIt
  <2>4. ASSUME NEW u, NEW role, ChangeMember(u, role) PROVE Undisturbed(r)
    BY <1>1, <2>4, MembersLeaveIt
  <2>5. CASE UNCHANGED vars
    BY <2>1, <2>5 DEF vars, Undisturbed
  <2> QED
    BY <2>1, <2>2, <2>3, <2>4, <2>5 DEF Next
<1> QED
  BY <1>1, <1>2 DEF PolicyInv
-----------------------------------------------------------------------------
\* Operations write in the statements that say so, and in no other step.
LEMMA WroteByStatement ==
    ASSUME PolicyInv, [Next]_vars, NEW r \in Request, Wrote(r)
    PROVE  \/ WriteInsert(r) \/ WriteIgnore(r) \/ WriteUpsert(r)
           \/ WriteUpdate(r) \/ WriteDelete(r)
<1>1. req[r].ops # <<>> /\ req'[r].ops = Tail(req[r].ops) /\ req[r].ops \in Seq(Asked)
  BY DEF Wrote, PolicyInv, WritesInv, ReqType
<1>2. req'[r].ops # req[r].ops
  <2>1. Len(Tail(req[r].ops)) # Len(req[r].ops)
    BY <1>1
  <2> QED
    BY <1>1, <2>1
<1>3. req[r].pc \notin {"idle", "refused", "commit"}
  BY <1>1 DEF PolicyInv, ProgressInv
<1>4. Step(r)
  <2>1. ASSUME NEW s \in Request, s # r, Step(s) PROVE FALSE
    BY <1>2, <2>1, OthersLeaveIt DEF Undisturbed, PolicyInv
  <2>2. ASSUME NEW u, NEW role, ChangeMember(u, role) PROVE FALSE
    BY <1>2, <2>2 DEF ChangeMember
  <2> QED
    BY <1>2, <2>1, <2>2 DEF Next, vars
<1>5. \A how : ~End(r, how)
  <2> SUFFICES ASSUME NEW how, End(r, how) PROVE FALSE
    OBVIOUS
  <2>1. rows' = rows /\ tx'[r].state = "none"
    BY DEF End, PolicyInv, WritesInv, NoTx
  <2> QED
    BY <2>1 DEF Wrote
<1>6. \A k : ~Proceed(r, k)
  BY <1>2 DEF Proceed, PolicyInv, WritesInv, ReqType
<1>7. ~Checked(r)
  BY <1>2 DEF Checked, PolicyInv, WritesInv, ReqType
<1>8. \A k \in Key : ~LookUpRow(r, k)
  <2> SUFFICES ASSUME NEW k \in Key, LookUpRow(r, k) PROVE FALSE
    OBVIOUS
  <2>1. req' = [req EXCEPT ![r].pc = "conflict", ![r].key = k]
    BY <1>5, <1>6 DEF LookUpRow, Refuse
  <2> QED
    BY <1>2, <2>1 DEF PolicyInv, WritesInv, ReqType
<1>9. ~Commit(r) /\ ~RefuseOperation(r) /\ ~Fail(r) /\ ~SkipCheck(r) /\ ~CheckInsert(r) /\ ~CheckUpdate(r)
  BY <1>3, <1>5, <1>6, <1>7
     DEF Commit, RefuseOperation, Fail, SkipCheck, CheckInsert, CheckUpdate, Refuse
<1> QED
  BY <1>3, <1>4, <1>8, <1>9 DEF Step, Work, StartOperation, StartBatch

\* After a statement that writes, r sees what it wrote.
LEMMA WrittenRows ==
    ASSUME WritesInv, NEW r \in Request, NEW written, Write(r, written)
    PROVE  After(r) = written
BY DEF Write, After, WritesInv

\* The rows that a statement leaves, and those of them that are new.
LEMMA StoredRow ==
    ASSUME WritesInv, NEW r \in Request, NEW keys, NEW k \in Key
    PROVE  Stored(r, keys)[k] = IF k \in keys THEN Op(r).rows[k] ELSE Rows(r)[k]
BY DEF Stored

\* In a batch, what an operation writes has passed its check, and its rows were looked
\* up, in the snapshot they are written to.
LEMMA CheckedWhenWritten ==
    ASSUME PolicyInv, NEW r \in Request, req[r].pc = "write", tx[r].state # "none"
    PROVE  /\ \A k \in DOMAIN Op(r).rows : MayInsert(r, Op(r).rows[k]) # "false"
           /\ Op(r).kind = "upsert" =>
                \A k \in DOMAIN Op(r).rows :
                    Rows(r)[k] # Absent => MayUpdate(r, k, Op(r).rows[k]) = "true"
<1>1. ProgressInv(r) /\ CheckedInv(r) /\ WritesInv
  BY DEF PolicyInv
<1>2. req[r].left = {} /\ Op(r).kind \in Inserting
  BY <1>1 DEF ProgressInv
<1>3. CASE tx[r].state = "new"
  <2>1. /\ \A e \in Env : Permits(policies.insert, InsertInput(r), e) = "true"
        /\ Op(r).kind # "upsert"
    BY <1>1, <1>3 DEF CheckedInv, Between
  <2>2. \A k \in DOMAIN Op(r).rows : MayInsert(r, Op(r).rows[k]) = "true"
    BY <1>1, <1>2, <2>1, OperationRows, AskedAbout DEF MayInsert, AtOperation
  <2> QED
    BY <2>1, <2>2
<1>4. CASE tx[r].state # "new"
  BY <1>1, <1>2, <1>4 DEF CheckedInv, Between
<1> QED
  BY <1>3, <1>4

\* Every row that an operation changes was permitted to change as the operation saw it
\* then, and a batch replaces a row by an upsert only if the update policy holds of it
\* too: for every set of policies, rows and requests (data/queries.go, data/batch.go).
THEOREM WritesAreAuthorized == Spec => WritesAuthorized
<1> DEFINE Fine(r, k) ==
             LET op == Op(r)
                 before == Rows(r)[k]
             IN
             /\ k \in DOMAIN op.rows
             /\ op.kind \in Inserting => MayInsert(r, op.rows[k]) = "true"
             /\ op.kind \in {"insert", "ignore"} => before = Absent
             /\ op.kind = "upsert" /\ before # Absent /\ tx[r].state # "none" =>
                   MayUpdate(r, k, op.rows[k]) = "true"
             /\ op.kind = "update" => MayUpdate(r, k, op.rows[k]) = "true"
             /\ op.kind = "delete" => MayDelete(r, k) = "true"
           All == \A r \in Request : Wrote(r) =>
                     \A k \in Key : After(r)[k] # Rows(r)[k] => Fine(r, k)
<1>1. PolicyInv /\ [Next]_vars => [All]_vars
  <2> SUFFICES ASSUME PolicyInv, [Next]_vars, NEW r \in Request, Wrote(r),
                      NEW k \in Key, After(r)[k] # Rows(r)[k]
               PROVE  Fine(r, k)
    OBVIOUS
  <2>1. WritesInv
    BY DEF PolicyInv
  <2>2. CASE WriteInsert(r)
    <3>1. req[r].pc \in AtOperation /\ Op(r).kind = "insert" /\ Op(r).kind \in Inserting
      BY <2>2 DEF WriteInsert, AtOperation, Inserting
    <3>2. k \in Insertable(r) /\ Rows(r)[k] = Absent
      BY <2>1, <2>2, WrittenRows, StoredRow DEF WriteInsert
    <3> QED
      BY <2>1, <3>1, <3>2, InsertableRows
  <2>3. CASE WriteIgnore(r)
    <3>1. req[r].pc \in AtOperation /\ Op(r).kind = "ignore" /\ Op(r).kind \in Inserting
      BY <2>3 DEF WriteIgnore, AtOperation, Inserting
    <3>2. k \in Insertable(r) /\ Rows(r)[k] = Absent
      BY <2>1, <2>3, WrittenRows, StoredRow DEF WriteIgnore
    <3> QED
      BY <2>1, <3>1, <3>2, InsertableRows
  <2>4. CASE WriteUpsert(r)
    <3>1. req[r].pc \in AtOperation /\ Op(r).kind = "upsert" /\ Op(r).kind \in Inserting
      BY <2>4 DEF WriteUpsert, AtOperation, Inserting
    <3>2. k \in Insertable(r)
      BY <2>1, <2>4, WrittenRows, StoredRow DEF WriteUpsert
    <3>3. k \in DOMAIN Op(r).rows /\ MayInsert(r, Op(r).rows[k]) = "true"
      BY <2>1, <3>1, <3>2, InsertableRows
    <3>4. tx[r].state # "none" /\ Rows(r)[k] # Absent => MayUpdate(r, k, Op(r).rows[k]) = "true"
      BY <2>4, <3>3, CheckedWhenWritten DEF WriteUpsert
    <3> QED
      BY <3>1, <3>3, <3>4
  <2>5. CASE WriteUpdate(r)
    <3>1. /\ req[r].pc \in AtOperation /\ Op(r).kind = "update"
          /\ Op(r).kind \notin Inserting
      BY <2>5 DEF WriteUpdate, AtOperation, Inserting
    <3>2. k \in Updatable(r)
      BY <2>1, <2>5, WrittenRows, StoredRow DEF WriteUpdate
    <3> QED
      BY <2>1, <3>1, <3>2, UpdatableRows
  <2>6. CASE WriteDelete(r)
    <3>1. /\ req[r].pc \in AtOperation /\ Op(r).kind = "delete"
          /\ Op(r).kind \notin Inserting
      BY <2>6 DEF WriteDelete, AtOperation, Inserting
    <3>2. k \in Deletable(r)
      BY <2>1, <2>6, WrittenRows DEF WriteDelete
    <3> QED
      BY <2>1, <3>1, <3>2, DeletableRows
  <2> QED
    BY <2>2, <2>3, <2>4, <2>5, <2>6, WroteByStatement
<1> QED
  BY <1>1, InitPolicyInv, NextPolicyInv, PTL DEF Spec, WritesAuthorized

\* An insert in a batch leaves out a row only if its policy is neither true nor false of
\* it, since validateInsertRows counted the false ones in the same snapshot.
THEOREM LeftOutRowsAreNull == Spec => DroppedRowsAreNull
<1> DEFINE All ==
             \A r \in Request :
                 Wrote(r) /\ tx[r].state # "none" /\ Op(r).kind \in {"insert", "upsert"} =>
                     \A k \in DOMAIN Op(r).rows :
                         After(r)[k] # Op(r).rows[k] => MayInsert(r, Op(r).rows[k]) = "null"
<1>1. PolicyInv /\ [Next]_vars => [All]_vars
  <2> SUFFICES ASSUME PolicyInv, [Next]_vars, NEW r \in Request, Wrote(r),
                      tx[r].state # "none", Op(r).kind \in {"insert", "upsert"},
                      NEW k \in DOMAIN Op(r).rows, After(r)[k] # Op(r).rows[k]
               PROVE  MayInsert(r, Op(r).rows[k]) = "null"
    OBVIOUS
  <2>1. WritesInv
    BY DEF PolicyInv
  <2>2. req[r].pc = "write" /\ Write(r, Stored(r, Insertable(r)))
    <3>1. WriteInsert(r) \/ WriteUpsert(r)
      BY WroteByStatement DEF WriteIgnore, WriteUpdate, WriteDelete
    <3> QED
      BY <3>1 DEF WriteInsert, WriteUpsert
  <2>3. req[r].pc \in AtOperation /\ Op(r).kind \in Inserting
    BY <2>2 DEF AtOperation, Inserting
  <2>4. k \in Key
    BY <2>1, <2>3, OperationRows
  <2>5. k \notin Insertable(r)
    BY <2>1, <2>2, <2>4, WrittenRows, StoredRow
  <2>6. MayInsert(r, Op(r).rows[k]) \in Truths /\ MayInsert(r, Op(r).rows[k]) # "true"
    BY <2>1, <2>3, <2>5, InsertableRows
  <2>7. MayInsert(r, Op(r).rows[k]) # "false"
    BY <2>2, CheckedWhenWritten
  <2> QED
    BY <2>6, <2>7 DEF Truths
<1> QED
  BY <1>1, InitPolicyInv, NextPolicyInv, PTL DEF Spec, DroppedRowsAreNull

\* A request is refused in the statements that check policies, and in no other step.
LEMMA RefusedByCheck ==
    ASSUME PolicyInv, [Next]_vars, NEW r \in Request,
           req'[r] = Refused, req[r].pc \notin {"idle", "refused"}
    PROVE  \/ RefuseOperation(r)
           \/ CheckInsert(r) /\ Rejected(r) # {}
           \/ \E k \in Key : /\ req[r].pc = "conflicts" /\ k \in req[r].left
                             /\ Rows(r)[k] # Absent
                             /\ ~UpdatePolicy(r, Op(r).rows[k]).allowed
           \/ req[r].pc = "conflict" /\ req[r].key \notin Updatable(r)
<1>1. req'[r].pc = "refused" /\ req[r] \in ReqType
  BY DEF Refused, Handler, PolicyInv, WritesInv
<1>2. Idle.pc = "idle"
  BY DEF Idle, Handler
<1>3. Step(r)
  <2>1. req'[r] # req[r]
    BY <1>1
  <2>2. ASSUME NEW s \in Request, s # r, Step(s) PROVE FALSE
    BY <2>1, <2>2, OthersLeaveIt DEF Undisturbed, PolicyInv
  <2>3. ASSUME NEW u, NEW role, ChangeMember(u, role) PROVE FALSE
    BY <2>1, <2>3 DEF ChangeMember
  <2> QED
    BY <2>1, <2>2, <2>3 DEF Next, vars
<1>4. ~Commit(r) /\ ~Fail(r)
  BY <1>1, <1>2 DEF Commit, Fail, End, PolicyInv, WritesInv
<1>5. \A written : ~Write(r, written)
  <2> SUFFICES ASSUME NEW written, Write(r, written) PROVE FALSE
    OBVIOUS
  <2>1. req'[r].pc \in {"idle", "commit", "next"}
    BY <1>1, <1>2 DEF Write, PolicyInv, WritesInv, ReqType
  <2> QED
    BY <1>1, <2>1
<1>6. ~Checked(r)
  <2> SUFFICES ASSUME Checked(r) PROVE FALSE
    OBVIOUS
  <2>1. req'[r].pc \in {"conflicts", "write"}
    BY <1>1 DEF Checked, AfterCheck, PolicyInv, WritesInv, ReqType
  <2> QED
    BY <1>1, <2>1
<1>7. \A k : ~Proceed(r, k)
  <2> SUFFICES ASSUME NEW k, Proceed(r, k) PROVE FALSE
    OBVIOUS
  <2>1. req'[r].pc \in {"conflicts", "write"}
    BY <1>1 DEF Proceed, PolicyInv, WritesInv, ReqType
  <2> QED
    BY <1>1, <2>1
<1>8. \A k : req' # [req EXCEPT ![r].pc = "conflict", ![r].key = k]
  <2> SUFFICES ASSUME NEW k, req' = [req EXCEPT ![r].pc = "conflict", ![r].key = k] PROVE FALSE
    OBVIOUS
  <2>1. req'[r].pc = "conflict"
    BY <1>1 DEF PolicyInv, WritesInv, ReqType
  <2> QED
    BY <1>1, <2>1
<1>9. \/ RefuseOperation(r) \/ CheckInsert(r)
      \/ \E k \in Key : LookUpRow(r, k)
      \/ CheckUpdate(r)
  BY <1>3, <1>4, <1>5, <1>6
     DEF Step, Work, StartOperation, StartBatch, SkipCheck, WriteInsert, WriteIgnore,
         WriteUpsert, WriteUpdate, WriteDelete
<1>10. CASE RefuseOperation(r)
  BY <1>10
<1>11. CASE CheckInsert(r)
  BY <1>6, <1>11 DEF CheckInsert
<1>12. CASE \E k \in Key : LookUpRow(r, k)
  BY <1>7, <1>8, <1>12 DEF LookUpRow
<1>13. CASE CheckUpdate(r)
  BY <1>7, <1>13 DEF CheckUpdate
<1> QED
  BY <1>9, <1>10, <1>11, <1>12, <1>13

\* "Request does not satisfy definition policy" is only said when a row of the request
\* was not permitted or is gone, never because of how the policy was compiled.
THEOREM RefusalsAreJustified == Spec => RefusalsJustified
<1> DEFINE Reason(r, op) ==
          CASE op.kind \in {"insert", "ignore"} ->
                  \E k \in DOMAIN op.rows : MayInsert(r, op.rows[k]) # "true"
            [] op.kind = "upsert" ->
                  \E k \in DOMAIN op.rows :
                      \/ MayInsert(r, op.rows[k]) # "true"
                      \/ k = req[r].key /\ Rows(r)[k] = Absent
                      \/ /\ Rows(r)[k] # Absent
                         /\ MayUpdate(r, k, op.rows[k]) # "true"
            [] op.kind = "update" ->
                  \E k \in DOMAIN op.rows : \A e \in Env :
                      Permits(policies.update, UpdateInput(r, op.rows[k]), e) # "true"
            [] op.kind = "delete" ->
                  \A e \in Env : Permits(policies.delete, UpdateInput(r, Unset), e) # "true"
           All == \A r \in Request :
                      req'[r] = Refused /\ req[r].pc \notin {"idle", "refused"} => Reason(r, Op(r))
<1>1. PolicyInv /\ [Next]_vars => [All]_vars
  <2> SUFFICES ASSUME PolicyInv, [Next]_vars, NEW r \in Request,
                      req'[r] = Refused, req[r].pc \notin {"idle", "refused"}
               PROVE  Reason(r, Op(r))
    OBVIOUS
  <2>1. WritesInv /\ ProgressInv(r)
    BY DEF PolicyInv
  <2>2. ASSUME req[r].pc = "next", Op(r).kind \in Inserting,
               \E k \in DOMAIN Op(r).rows : MayInsert(r, Op(r).rows[k]) # "true"
        PROVE  Reason(r, Op(r))
    BY <2>2 DEF Inserting
  <2>3. CASE RefuseOperation(r)
    <3>1. req[r].pc = "next" /\ RefusedAtOnce(r) /\ req[r].pc \in AtOperation
      BY <2>3 DEF RefuseOperation, AtOperation
    <3>2. Op(r).kind \in Inserting \/ Op(r).kind = "update" \/ Op(r).kind = "delete"
      BY <2>1, <3>1, OperationRows DEF Kinds, Inserting
    <3>3. CASE Op(r).kind \in Inserting
      <4>1. ~InsertPolicy(r).allowed
        BY <3>1, <3>3 DEF RefusedAtOnce, Inserting
      <4>2. PICK k : k \in DOMAIN Op(r).rows
        BY <2>1, <3>1, OperationRows
      <4>3. InsertEnv(r, Op(r).rows[k]) \in Env
        BY <2>1, <3>1, <3>3, <4>2, OperationRows, AskedAbout
      <4>4. MayInsert(r, Op(r).rows[k]) = "false"
        BY <2>1, <4>1, <4>3, PoliciesDecide DEF Decides, MayInsert
      <4> QED
        BY <2>2, <3>1, <3>3, <4>2, <4>4
    <3>4. CASE Op(r).kind = "update"
      <4>1. PICK k \in DOMAIN Op(r).rows : ~UpdatePolicy(r, Op(r).rows[k]).allowed
        BY <3>1, <3>4 DEF RefusedAtOnce, Inserting
      <4>2. Op(r).rows[k] \in Owner \cup {Unset}
        BY <2>1, <3>1, <4>1, OperationRows
      <4>3. \A e \in Env : Permits(policies.update, UpdateInput(r, Op(r).rows[k]), e) # "true"
        BY <2>1, <4>1, <4>2, PoliciesDecide DEF Decides
      <4> QED
        BY <3>4, <4>1, <4>3
    <3>5. CASE Op(r).kind = "delete"
      <4>1. ~DeletePolicy(r).allowed
        BY <3>1, <3>5 DEF RefusedAtOnce, Inserting
      <4>2. \A e \in Env : Permits(policies.delete, UpdateInput(r, Unset), e) # "true"
        BY <2>1, <4>1, PoliciesDecide DEF Decides
      <4> QED
        BY <3>5, <4>2
    <3> QED
      BY <3>2, <3>3, <3>4, <3>5
  <2>4. CASE CheckInsert(r) /\ Rejected(r) # {}
    <3>1. req[r].pc = "next" /\ Op(r).kind \in Inserting /\ req[r].pc \in AtOperation
      BY <2>4 DEF CheckInsert, Inserts, AtOperation
    <3>2. \E k \in DOMAIN Op(r).rows : MayInsert(r, Op(r).rows[k]) # "true"
      BY <2>1, <2>4, <3>1, InsertableRows
    <3> QED
      BY <2>2, <3>1, <3>2
  <2>5. ASSUME req[r].pc \in {"conflicts", "conflict"}, NEW k \in DOMAIN Op(r).rows,
               \/ k = req[r].key /\ Rows(r)[k] = Absent
               \/ Rows(r)[k] # Absent /\ MayUpdate(r, k, Op(r).rows[k]) # "true"
        PROVE  Reason(r, Op(r))
    <3>1. Op(r).kind = "upsert"
      BY <2>1, <2>5 DEF ProgressInv
    <3> QED
      BY <2>5, <3>1
  <2>6. ASSUME NEW k \in Key, req[r].pc = "conflicts", k \in req[r].left,
               Rows(r)[k] # Absent, ~UpdatePolicy(r, Op(r).rows[k]).allowed
        PROVE  Reason(r, Op(r))
    <3>1. k \in DOMAIN Op(r).rows /\ req[r].pc \in AtOperation
      BY <2>1, <2>6 DEF ProgressInv, AtOperation
    <3>2. StoredEnv(r, k) \in Env /\ Op(r).rows[k] \in Owner \cup {Unset}
      BY <2>1, <2>6, <3>1, OperationRows, AskedAbout
    <3>3. MayUpdate(r, k, Op(r).rows[k]) = "false"
      BY <2>1, <2>6, <3>2, PoliciesDecide DEF Decides, MayUpdate
    <3> QED
      BY <2>5, <2>6, <3>1, <3>3
  <2>7. CASE req[r].pc = "conflict" /\ req[r].key \notin Updatable(r)
    <3>1. req[r].key \in DOMAIN Op(r).rows /\ req[r].pc \in AtOperation
      BY <2>1, <2>7 DEF ProgressInv, AtOperation
    <3>2. Rows(r)[req[r].key] = Absent
              \/ MayUpdate(r, req[r].key, Op(r).rows[req[r].key]) # "true"
      BY <2>1, <2>7, <3>1, UpdatableRows
    <3> QED
      BY <2>5, <2>7, <3>1, <3>2
  <2> HIDE DEF Reason
  <2> QED
    BY <2>3, <2>4, <2>6, <2>7, RefusedByCheck
<1> QED
  BY <1>1, InitPolicyInv, NextPolicyInv, PTL DEF Spec, RefusalsJustified

-----------------------------------------------------------------------------
(* 4  Batches. *)

\* What is left of a sequence after the next of its elements.
LEMMA NextOfRest ==
    ASSUME NEW S, NEW ops \in Seq(S), NEW n \in 0..Len(ops),
           NEW rest, rest = SubSeq(ops, n + 1, Len(ops))
    PROVE  /\ rest = <<>> => n = Len(ops)
           /\ rest # <<>> => /\ n + 1 \in 1..Len(ops) /\ Head(rest) = ops[n + 1]
                             /\ Tail(rest) = SubSeq(ops, n + 2, Len(ops))
<1>1. Len(ops) \in Nat /\ n \in Nat /\ n <= Len(ops)
  OBVIOUS
<1>2. /\ rest \in Seq(S) /\ Len(rest) = Len(ops) - n
      /\ \A i \in 1..(Len(ops) - n) : rest[i] = ops[n + i]
  BY <1>1
<1>3. CASE n = Len(ops)
  BY <1>1, <1>2, <1>3
<1>4. CASE n < Len(ops)
  <2>1. rest # <<>> /\ Head(rest) = ops[n + 1]
    <3>1. Len(rest) # 0 /\ 1 \in 1..(Len(ops) - n)
      BY <1>1, <1>2, <1>4
    <3>2. rest[1] = ops[n + 1] /\ rest # <<>>
      BY <1>2, <3>1
    <3> QED
      BY <1>2, <3>2
  <2>2. Tail(rest) = SubSeq(ops, n + 2, Len(ops))
    <3>1. PICK a : a = Tail(rest)
      OBVIOUS
    <3>2. PICK b : b = SubSeq(ops, n + 2, Len(ops))
      OBVIOUS
    <3>3. /\ a \in Seq(S) /\ Len(a) = Len(ops) - n - 1
          /\ \A i \in 1..(Len(ops) - n - 1) : a[i] = ops[n + 1 + i]
      BY <1>1, <1>2, <1>4, <2>1, <3>1
    <3>4. /\ b \in Seq(S) /\ Len(b) = Len(ops) - n - 1
          /\ \A i \in 1..(Len(ops) - n - 1) : b[i] = ops[n + 1 + i]
      BY <1>1, <1>4, <3>2
    <3>5. Len(a) = Len(b) /\ \A i \in 1..Len(a) : a[i] = b[i]
      BY <3>3, <3>4
    <3>6. a = b
      BY <3>3, <3>4, <3>5, SeqEqual
    <3> QED
      BY <3>1, <3>2, <3>6
  <2> QED
    BY <1>1, <1>4, <2>1, <2>2
<1> QED
  BY <1>1, <1>3, <1>4

\* What a batch that ran alone from the committed rows would have done by now: f[i]
\* are the rows after i operations.
Ran(p, ops, n, f) ==
    /\ f[0] = rows
    /\ \A i \in 1..n : /\ Serial!KeysFree(p, ops[i], f[i - 1])
                       /\ Serial!Authorized(p, ops[i], f[i - 1])
                       /\ f[i] = Serial!Effect(p, ops[i], f[i - 1])

\* The snapshot of a transaction that may still write is the latest, apart from what it
\* wrote itself, and that is the effect of a beginning of its batch.
SerialInv(r) ==
    req[r].pc \notin {"idle", "refused"} =>
        /\ req[r].by \in Client
        /\ tx[r].state = "none" => \E op \in Operation : req[r].ops = <<op>>
        /\ tx[r].state \in {"new", "reading"} => req[r].ops \in Batch
        /\ tx[r].state = "reading" => tx[r].rows = rows
        /\ tx[r].state \in {"reading", "writing"} => tx[r].roles = roles
        /\ tx[r].state = "writing" =>
              \E p \in Client, ops \in Batch : \E n \in 0..Len(ops) : \E f :
                  /\ Ran(p, ops, n, f) /\ p = req[r].by /\ tx[r].rows = f[n]
                  /\ req[r].ops = SubSeq(ops, n + 1, Len(ops))

BatchInv == PolicyInv /\ \A r \in Request : SerialInv(r)

\* The abstract specification speaks of the same meaning of policies.
LEMMA SamePermits ==
    ASSUME NEW policy, NEW in, NEW e
    PROVE  Serial!Permits(policy, in, e) = Permits(policy, in, e)
<1>1. Serial!Meaning = Meaning
  BY DEF Serial!Meaning, Meaning, Serial!MeaningWith, MeaningWith,
         Serial!IsLeaf, IsLeaf, Serial!IsAnd, IsAnd, Serial!IsOr, IsOr,
         Serial!Leaf, Leaf, Serial!StatusLeaf, StatusLeaf, Serial!RoleLeaf, RoleLeaf,
         Serial!NewLeaf, NewLeaf, Serial!OldLeaf, OldLeaf,
         Serial!Decided, Decided, Serial!Filter, Filter,
         Serial!GoCompare, GoCompare, Serial!SqlCompare, SqlCompare,
         Serial!ResolveValue, ResolveValue, Serial!Operand, Operand,
         Serial!AuthStatus, AuthStatus,
         Serial!Input, Input, Serial!Env, Env, Serial!Owner, Owner,
         Serial!Principal, Principal, Serial!Range, Range,
         Serial!AllOf, AllOf, Serial!AnyOf, AnyOf, Serial!Opposite, Opposite,
         Serial!Truth, Truth
<1> QED
  BY <1>1 DEF Serial!Permits, Permits, Serial!Truth, Truth

\* What an operation does depends on policies and memberships alone.
LEMMA EffectsStay ==
    ASSUME policies' = policies, roles' = roles,
           NEW p, NEW op, op.kind \in Kinds, NEW before
    PROVE  /\ Serial!KeysFree(p, op, before)' = Serial!KeysFree(p, op, before)
           /\ Serial!Authorized(p, op, before)' = Serial!Authorized(p, op, before)
           /\ Serial!Effect(p, op, before)' = Serial!Effect(p, op, before)
<1>1. \A v, old : /\ Serial!SaysInsert(p, v)' = Serial!SaysInsert(p, v)
                  /\ Serial!SaysUpdate(p, old, v)' = Serial!SaysUpdate(p, old, v)
                  /\ Serial!SaysDelete(p, old)' = Serial!SaysDelete(p, old)
  BY SamePermits
     DEF Serial!SaysInsert, Serial!SaysUpdate, Serial!SaysDelete, Serial!RoleIn
<1>2. Serial!Touched(p, op, before)' = Serial!Touched(p, op, before)
  BY <1>1 DEF Serial!Touched, Kinds
<1> QED
  BY <1>1, <1>2 DEF Serial!KeysFree, Serial!Authorized, Serial!Effect

\* So does the effect of a beginning of a batch, given the rows it began with.
LEMMA RanStays ==
    ASSUME policies' = policies, roles' = roles, rows' = rows,
           NEW p, NEW ops, NEW n, \A i \in 1..n : ops[i].kind \in Kinds,
           NEW f, Ran(p, ops, n, f)
    PROVE  Ran(p, ops, n, f)'
<1>1. \A op, before : op.kind \in Kinds =>
           /\ Serial!KeysFree(p, op, before)' = Serial!KeysFree(p, op, before)
           /\ Serial!Authorized(p, op, before)' = Serial!Authorized(p, op, before)
           /\ Serial!Effect(p, op, before)' = Serial!Effect(p, op, before)
  BY EffectsStay
<1> QED
  BY <1>1 DEF Ran

\* A statement that writes has the effect of its operation.
LEMMA StatementEffect ==
    ASSUME PolicyInv, NEW r \in Request, Roles(r) = roles,
           \/ WriteInsert(r) \/ WriteIgnore(r) \/ WriteUpsert(r)
           \/ WriteUpdate(r) \/ WriteDelete(r),
           NEW p, p = req[r].by, NEW op, op = Op(r)
    PROVE  /\ req[r].pc \in AtOperation
           /\ Write(r, Serial!Effect(p, op, Rows(r)))
           /\ Serial!KeysFree(p, op, Rows(r))
           /\ tx[r].state # "none" => Serial!Authorized(p, op, Rows(r))
<1>1. WritesInv /\ ProgressInv(r) /\ CheckedInv(r)
  BY DEF PolicyInv
<1>2. /\ \A v : Serial!SaysInsert(p, v) = MayInsert(r, v)
      /\ \A k, v : Serial!SaysUpdate(p, Rows(r)[k], v) = MayUpdate(r, k, v)
      /\ \A k : Serial!SaysDelete(p, Rows(r)[k]) = MayDelete(r, k)
  BY SamePermits
     DEF Serial!SaysInsert, Serial!SaysUpdate, Serial!SaysDelete, Serial!RoleIn,
         MayInsert, MayUpdate, MayDelete, InsertInput, UpdateInput, InsertEnv, StoredEnv, RoleOf
<1>3. req[r].pc \in AtOperation
  BY DEF WriteInsert, WriteIgnore, WriteUpsert, WriteUpdate, WriteDelete, AtOperation
<1>4. \A k \in DOMAIN op.rows : k \in Key /\ Op(r).rows[k] = op.rows[k]
  BY <1>1, <1>3, OperationRows
<1>5. PICK touched : touched = Serial!Touched(p, op, Rows(r))
  OBVIOUS
<1>6. Unset \notin Owner
  BY PolicyAssumption DEF Owner
<1>7. ASSUME op.kind \in Inserting
      PROVE  /\ Insertable(r) = {k \in DOMAIN op.rows : MayInsert(r, op.rows[k]) = "true"}
             /\ \A k \in DOMAIN op.rows : op.rows[k] # Unset
  BY <1>1, <1>3, <1>6, <1>7, InsertableRows, OperationRows
<1>8. ASSUME NEW keys, op.kind # "delete", Write(r, Stored(r, keys)),
             keys = {k \in touched : op.rows[k] # Unset}
      PROVE  Write(r, Serial!Effect(p, op, Rows(r)))
  <2>1. Stored(r, keys) = Serial!Effect(p, op, Rows(r))
    BY <1>5, <1>8 DEF Stored, Serial!Effect
  <2> QED
    BY <1>8, <2>1
<1>9. CASE WriteInsert(r)
  <2>1. op.kind = "insert" /\ op.kind \in Inserting /\ req[r].pc = "write"
    BY <1>9 DEF WriteInsert, Inserting
  <2>2. touched = Insertable(r)
    BY <1>2, <1>5, <1>7, <2>1 DEF Serial!Touched
  <2>3. Insertable(r) = {k \in touched : op.rows[k] # Unset}
    BY <1>7, <2>1, <2>2
  <2>4. Write(r, Serial!Effect(p, op, Rows(r)))
    BY <1>8, <1>9, <2>1, <2>3 DEF WriteInsert
  <2>5. Serial!KeysFree(p, op, Rows(r))
    BY <1>5, <1>9, <2>2 DEF WriteInsert, Serial!KeysFree
  <2>6. ASSUME tx[r].state # "none" PROVE Serial!Authorized(p, op, Rows(r))
    BY <1>2, <2>1, <2>6, CheckedWhenWritten DEF Serial!Authorized
  <2> QED
    BY <1>3, <2>4, <2>5, <2>6
<1>10. CASE WriteIgnore(r)
  <2>1. op.kind = "ignore" /\ op.kind \in Inserting
    BY <1>10 DEF WriteIgnore, Inserting
  <2>2. touched = {k \in Insertable(r) : Rows(r)[k] = Absent}
    BY <1>2, <1>5, <1>7, <2>1 DEF Serial!Touched
  <2>3. touched = {k \in touched : op.rows[k] # Unset}
    BY <1>7, <2>1, <2>2
  <2>4. Write(r, Serial!Effect(p, op, Rows(r)))
    BY <1>8, <1>10, <2>1, <2>2, <2>3 DEF WriteIgnore
  <2> QED
    BY <1>3, <2>1, <2>4 DEF Serial!KeysFree, Serial!Authorized
<1>11. CASE WriteUpsert(r)
  <2>1. op.kind = "upsert" /\ op.kind \in Inserting /\ req[r].pc = "write"
    BY <1>11 DEF WriteUpsert, Inserting
  <2>2. touched = Insertable(r)
    BY <1>2, <1>5, <1>7, <2>1 DEF Serial!Touched
  <2>3. Insertable(r) = {k \in touched : op.rows[k] # Unset}
    BY <1>7, <2>1, <2>2
  <2>4. Write(r, Serial!Effect(p, op, Rows(r)))
    BY <1>8, <1>11, <2>1, <2>3 DEF WriteUpsert
  <2>5. ASSUME tx[r].state # "none" PROVE Serial!Authorized(p, op, Rows(r))
    BY <1>2, <2>1, <2>5, CheckedWhenWritten DEF Serial!Authorized
  <2> QED
    BY <1>3, <2>1, <2>4, <2>5 DEF Serial!KeysFree
<1>12. CASE WriteUpdate(r)
  <2>1. op.kind = "update"
    BY <1>12 DEF WriteUpdate
  <2>2. touched = Updatable(r)
    BY <1>1, <1>2, <1>3, <1>5, <2>1, UpdatableRows DEF Serial!Touched
  <2>3. Write(r, Serial!Effect(p, op, Rows(r)))
    BY <1>8, <1>12, <2>1, <2>2 DEF WriteUpdate
  <2> QED
    BY <1>3, <2>1, <2>3 DEF Serial!KeysFree, Serial!Authorized
<1>13. CASE WriteDelete(r)
  <2>1. op.kind = "delete"
    BY <1>13 DEF WriteDelete
  <2>2. touched = Deletable(r)
    BY <1>1, <1>2, <1>3, <1>5, <2>1, DeletableRows DEF Serial!Touched
  <2>3. [k \in Key |-> IF k \in Deletable(r) THEN Absent ELSE Rows(r)[k]]
            = Serial!Effect(p, op, Rows(r))
    BY <1>5, <2>1, <2>2 DEF Serial!Effect
  <2>4. Write(r, Serial!Effect(p, op, Rows(r)))
    BY <1>13, <2>3 DEF WriteDelete
  <2> QED
    BY <1>3, <2>1, <2>4 DEF Serial!KeysFree, Serial!Authorized
<1> QED
  BY <1>9, <1>10, <1>11, <1>12, <1>13

\* The recursion of the specification gives the rows after each operation.
LEMMA AfterEachIs ==
    ASSUME NEW p, NEW S, NEW ops \in Seq(S), NEW f, Ran(p, ops, Len(ops), f)
    PROVE  \A n \in 0..Len(ops) : Serial!AfterEach(p, ops)[n] = f[n]
<1> DEFINE Run(g) == g = [i \in 0..Len(ops) |->
                            IF i = 0 THEN rows ELSE Serial!Effect(p, ops[i], g[i - 1])]
<1>1. Len(ops) \in Nat
  OBVIOUS
<1>2. PICK h : h = [i \in 0..Len(ops) |-> f[i]]
  OBVIOUS
<1>3. \A i \in 0..Len(ops) : h[i] = IF i = 0 THEN rows ELSE Serial!Effect(p, ops[i], h[i - 1])
  BY <1>1, <1>2 DEF Ran
<1>4. Run(h)
  BY <1>2, <1>3
<1>5. Serial!AfterEach(p, ops) = CHOOSE g : Run(g)
  BY DEF Serial!AfterEach
<1> HIDE DEF Run
<1>6. Run(Serial!AfterEach(p, ops))
  BY <1>4, <1>5, Zenon
<1>7. PICK g : g = Serial!AfterEach(p, ops)
  OBVIOUS
<1>8. Run(g)
  BY <1>6, <1>7
<1>9. \A i \in 0..Len(ops) : g[i] = IF i = 0 THEN rows ELSE Serial!Effect(p, ops[i], g[i - 1])
  BY <1>8 DEF Run
<1>10. PICK Good : Good = {i \in 0..Len(ops) : g[i] = h[i]}
  OBVIOUS
<1>11. 0 \in Good
  BY <1>1, <1>3, <1>9, <1>10
<1>12. ASSUME NEW i \in (0 + 1)..Len(ops), i - 1 \in Good PROVE i \in Good
  BY <1>1, <1>3, <1>9, <1>10, <1>12
<1>13. 0..Len(ops) \subseteq Good
  BY <1>1, <1>11, <1>12, RangeInduction
<1> QED
  BY <1>2, <1>7, <1>10, <1>13

\* A batch is a sequence of operations.
LEMMA BatchOperations ==
    ASSUME NEW ops \in Batch
    PROVE  /\ ops \in Seq(Range(ops)) /\ ops # <<>> /\ Len(ops) \in Nat
           /\ \A i \in 1..Len(ops) : ops[i].kind \in Kinds
<1>1. ops \in Seq(Range(ops)) /\ ops # <<>>
  BY WritesAssumption
<1>2. Len(ops) \in Nat /\ DOMAIN ops = 1..Len(ops)
  BY <1>1
<1>3. \A i \in DOMAIN ops : IsOperation(ops[i])
  BY WritesAssumption
<1> QED
  BY <1>1, <1>2, <1>3 DEF IsOperation

\* What a transaction did holds as long as nothing else is committed.
LEMMA SnapshotStays ==
    ASSUME BatchInv, NEW r \in Request,
           req'[r].by = req[r].by, req'[r].ops = req[r].ops,
           req[r].pc \notin {"idle", "refused"}, policies' = policies,
           tx'[r].rows = tx[r].rows, tx'[r].roles = tx[r].roles,
           tx'[r].state = tx[r].state \/ tx'[r].state = "stale",
           tx'[r].state \in {"reading", "writing"} => rows' = rows /\ roles' = roles
    PROVE  SerialInv(r)'
<1>1. SerialInv(r)
  BY DEF BatchInv
<1>2. ASSUME tx'[r].state = "writing"
      PROVE  \E p \in Client, ops \in Batch : \E n \in 0..Len(ops) : \E f :
                  /\ Ran(p, ops, n, f)' /\ p = req'[r].by /\ tx'[r].rows = f[n]
                  /\ req'[r].ops = SubSeq(ops, n + 1, Len(ops))
  <2>1. tx[r].state = "writing" /\ rows' = rows /\ roles' = roles
    BY <1>2
  <2>2. PICK p \in Client, ops \in Batch : \E n \in 0..Len(ops) : \E f :
            /\ Ran(p, ops, n, f) /\ p = req[r].by /\ tx[r].rows = f[n]
            /\ req[r].ops = SubSeq(ops, n + 1, Len(ops))
    BY <1>1, <2>1 DEF SerialInv
  <2>3. PICK n \in 0..Len(ops) : \E f :
            /\ Ran(p, ops, n, f) /\ p = req[r].by /\ tx[r].rows = f[n]
            /\ req[r].ops = SubSeq(ops, n + 1, Len(ops))
    BY <2>2
  <2>4. PICK f : /\ Ran(p, ops, n, f) /\ p = req[r].by /\ tx[r].rows = f[n]
                 /\ req[r].ops = SubSeq(ops, n + 1, Len(ops))
    BY <2>3
  <2>5. \A i \in 1..n : ops[i].kind \in Kinds
    BY BatchOperations
  <2>6. Ran(p, ops, n, f)'
    BY <2>1, <2>4, <2>5, RanStays
  <2> QED
    BY <2>4, <2>6
<1> QED
  BY <1>1, <1>2 DEF SerialInv

\* The initial states satisfy the third invariant.
LEMMA InitBatchInv == Init => BatchInv
<1> SUFFICES ASSUME Init PROVE BatchInv
  OBVIOUS
<1>1. ASSUME NEW r \in Request PROVE SerialInv(r)
  BY DEF Init, Idle, Handler, SerialInv
<1> QED
  BY <1>1, InitPolicyInv DEF BatchInv

\* A statement that writes in a batch takes it one operation further.
LEMMA WriteRuns ==
    ASSUME BatchInv, NEW r \in Request, tx[r].state # "none",
           \/ WriteInsert(r) \/ WriteIgnore(r) \/ WriteUpsert(r)
           \/ WriteUpdate(r) \/ WriteDelete(r)
    PROVE  SerialInv(r)'
<1>1. SerialInv(r) /\ PolicyInv /\ WritesInv /\ HandlerInv
  BY DEF BatchInv, PolicyInv, WritesInv
<1>2. req[r].pc \in AtOperation
  BY DEF WriteInsert, WriteIgnore, WriteUpsert, WriteUpdate, WriteDelete, AtOperation
<1>3. MayWrite(r)
  BY DEF WriteInsert, WriteIgnore, WriteUpsert, WriteUpdate, WriteDelete, Write
<1>4. tx[r].state \in {"new", "reading", "writing"}
  BY <1>1, <1>3 DEF MayWrite, WritesInv, TxType
<1>5. Roles(r) = roles /\ req[r].by \in Client
  BY <1>1, <1>2, <1>4 DEF SerialInv, AtOperation, Roles, Reading
<1>6. PICK p \in Client : p = req[r].by
  BY <1>5
<1>7. PICK op : op = Op(r)
  OBVIOUS
<1>8. PICK before : before = Rows(r)
  OBVIOUS
<1>9. PICK written : written = Serial!Effect(p, op, before)
  OBVIOUS
<1>10. /\ Write(r, written)
       /\ Serial!KeysFree(p, op, before) /\ Serial!Authorized(p, op, before)
  BY <1>1, <1>5, <1>6, <1>7, <1>8, <1>9, StatementEffect
<1>11. /\ req' = [req EXCEPT ![r].ops = Tail(req[r].ops),
                             ![r].pc = IF Tail(req[r].ops) = <<>> THEN "commit" ELSE "next"]
       /\ tx' = [tx EXCEPT ![r] =
                    [state |-> "writing", rows |-> written, roles |-> Roles(r)]]
       /\ rows' = rows /\ policies' = policies /\ roles' = roles
  BY <1>10 DEF Write
<1>12. /\ req'[r].ops = Tail(req[r].ops) /\ req'[r].by = p
       /\ tx'[r].state = "writing" /\ tx'[r].rows = written /\ tx'[r].roles = roles'
  BY <1>1, <1>5, <1>6, <1>11 DEF WritesInv, ReqType
<1>13. \E ops \in Batch : \E n \in 0..Len(ops) : \E f :
          /\ Ran(p, ops, n, f) /\ before = f[n]
          /\ req[r].ops = SubSeq(ops, n + 1, Len(ops))
  <2>1. CASE tx[r].state = "writing"
    BY <1>1, <1>2, <1>6, <1>8, <2>1 DEF SerialInv, AtOperation, Rows, Reading
  <2>2. CASE tx[r].state \in {"new", "reading"}
    <3>1. PICK ops \in Batch : ops = req[r].ops
      BY <1>1, <1>2, <2>2 DEF SerialInv, AtOperation
    <3>2. PICK f : f = [i \in {0} |-> rows]
      OBVIOUS
    <3>3. Ran(p, ops, 0, f)
      BY <3>2 DEF Ran
    <3>4. before = f[0]
      BY <1>1, <1>2, <1>8, <2>2, <3>2 DEF SerialInv, AtOperation, Rows, Reading
    <3>5. ops = SubSeq(ops, 0 + 1, Len(ops)) /\ 0 \in 0..Len(ops)
      BY BatchOperations
    <3> QED
      BY <3>1, <3>3, <3>4, <3>5
  <2> QED
    BY <1>4, <2>1, <2>2
<1>14. PICK ops \in Batch : \E n \in 0..Len(ops) : \E f :
          /\ Ran(p, ops, n, f) /\ before = f[n]
          /\ req[r].ops = SubSeq(ops, n + 1, Len(ops))
  BY <1>13
<1>15. PICK n \in 0..Len(ops) : \E f :
          /\ Ran(p, ops, n, f) /\ before = f[n]
          /\ req[r].ops = SubSeq(ops, n + 1, Len(ops))
  BY <1>14
<1>16. PICK f : /\ Ran(p, ops, n, f) /\ before = f[n]
                /\ req[r].ops = SubSeq(ops, n + 1, Len(ops))
  BY <1>15
<1>17. /\ n + 1 \in 1..Len(ops) /\ op = ops[n + 1]
       /\ Tail(req[r].ops) = SubSeq(ops, n + 2, Len(ops))
  BY <1>1, <1>2, <1>7, <1>16, BatchOperations, NextOfRest DEF HandlerInv, Op
<1>18. PICK g : g = [i \in 0..(n + 1) |-> IF i = n + 1 THEN written ELSE f[i]]
  OBVIOUS
<1>19. n \in Nat /\ g[n + 1] = written /\ \A i \in 0..n : g[i] = f[i]
  BY <1>18
<1>20. Ran(p, ops, n + 1, g)
  <2>1. g[0] = rows
    BY <1>16, <1>19 DEF Ran
  <2>2. ASSUME NEW i \in 1..(n + 1)
        PROVE  /\ Serial!KeysFree(p, ops[i], g[i - 1])
               /\ Serial!Authorized(p, ops[i], g[i - 1])
               /\ g[i] = Serial!Effect(p, ops[i], g[i - 1])
    <3>1. CASE i = n + 1
      <4>1. g[i - 1] = before /\ ops[i] = op /\ g[i] = written
        BY <1>16, <1>17, <1>19, <3>1
      <4> QED
        BY <1>9, <1>10, <4>1
    <3>2. CASE i # n + 1
      <4>1. i \in 1..n /\ g[i] = f[i] /\ g[i - 1] = f[i - 1]
        BY <1>19, <3>2
      <4> QED
        BY <1>16, <4>1 DEF Ran
    <3> QED
      BY <3>1, <3>2
  <2> QED
    BY <2>1, <2>2 DEF Ran
<1>21. \A i \in 1..(n + 1) : ops[i].kind \in Kinds
  BY <1>17, <1>19, BatchOperations
<1>22. PICK m : m = n + 1
  OBVIOUS
<1>23. Ran(p, ops, m, g)'
  BY <1>11, <1>20, <1>21, <1>22, RanStays
<1>24. /\ m \in 0..Len(ops) /\ tx'[r].rows = g[m]
       /\ req'[r].ops = SubSeq(ops, m + 1, Len(ops))
  BY <1>12, <1>17, <1>19, <1>22
<1> QED
  BY <1>6, <1>12, <1>23, <1>24 DEF SerialInv

\* A handler that has ended, and one that has begun.
LEMMA OwnStepRuns ==
    ASSUME BatchInv, NEW r \in Request, Step(r)
    PROVE  SerialInv(r)'
<1>1. /\ SerialInv(r) /\ WritesInv /\ PolicyInv /\ req[r] \in ReqType /\ tx[r] \in TxType
  BY DEF BatchInv, PolicyInv, WritesInv
<1>2. ASSUME req'[r].pc \in {"idle", "refused"} PROVE SerialInv(r)'
  BY <1>2 DEF SerialInv
<1>3. ASSUME NEW how \in {Idle, Refused}, End(r, how) PROVE SerialInv(r)'
  BY <1>1, <1>2, <1>3 DEF End, Idle, Refused, Handler, WritesInv
<1>4. ASSUME Commit(r) PROVE SerialInv(r)'
  BY <1>1, <1>2, <1>4 DEF Commit, Idle, Handler, WritesInv
<1>5. ASSUME NEW p \in Client, NEW op \in Operation, StartOperation(r, p, op)
      PROVE  SerialInv(r)'
  <2>1. /\ req'[r].by = p /\ req'[r].ops = <<op>>
        /\ tx' = tx /\ req[r].pc \in {"idle", "refused"}
    BY <1>1, <1>5 DEF StartOperation, Handler, WritesInv
  <2>2. tx'[r].state = "none"
    BY <1>1, <2>1 DEF WritesInv, HandlerInv, NoTx
  <2> QED
    BY <2>1, <2>2 DEF SerialInv
<1>6. ASSUME NEW p \in Client, NEW ops \in Batch, StartBatch(r, p, ops)
      PROVE  SerialInv(r)'
  <2>1. req'[r].by = p /\ req'[r].ops = ops /\ tx'[r].state = "new"
    BY <1>1, <1>6 DEF StartBatch, Handler, NewTx, WritesInv
  <2> QED
    BY <2>1 DEF SerialInv
<1>7. ASSUME req[r].pc \notin {"idle", "refused"},
             req'[r].by = req[r].by, req'[r].ops = req[r].ops,
             Read(r) \/ UNCHANGED <<policies, rows, roles, tx>>
      PROVE  SerialInv(r)'
  <2>1. CASE tx'[r] = tx[r]
    <3>1. policies' = policies /\ rows' = rows /\ roles' = roles
      BY <1>7 DEF Read
    <3> QED
      BY <1>7, <2>1, <3>1, SnapshotStays
  <2>2. CASE tx'[r] # tx[r]
    <3>1. Read(r) /\ tx[r].state = "new"
      BY <1>1, <1>7, <2>2, ReadView
    <3>2. /\ tx'[r].state = "reading" /\ tx'[r].rows = rows' /\ tx'[r].roles = roles'
      BY <1>1, <3>1, ReadView
    <3> QED
      BY <1>1, <1>7, <3>1, <3>2 DEF SerialInv
  <2> QED
    BY <2>1, <2>2
<1>8. ASSUME Checked(r) PROVE req'[r].by = req[r].by /\ req'[r].ops = req[r].ops
  BY <1>1, <1>8 DEF Checked, WritesInv, ReqType
<1>9. ASSUME NEW k, Proceed(r, k) PROVE req'[r].by = req[r].by /\ req'[r].ops = req[r].ops
  BY <1>1, <1>9 DEF Proceed, WritesInv, ReqType
<1>10. ASSUME NEW k, req' = [req EXCEPT ![r].pc = "conflict", ![r].key = k]
       PROVE  req'[r].by = req[r].by /\ req'[r].ops = req[r].ops
  BY <1>1, <1>10 DEF WritesInv, ReqType
<1>11. ASSUME SkipCheck(r) PROVE SerialInv(r)'
  BY <1>7, <1>8, <1>11 DEF SkipCheck, Inserts
<1>12. ASSUME CheckInsert(r) PROVE SerialInv(r)'
  BY <1>3, <1>7, <1>8, <1>12 DEF CheckInsert, Inserts, Refuse
<1>13. ASSUME NEW k, LookUpRow(r, k) PROVE SerialInv(r)'
  BY <1>3, <1>7, <1>9, <1>10, <1>13 DEF LookUpRow, Refuse
<1>14. ASSUME CheckUpdate(r) PROVE SerialInv(r)'
  BY <1>3, <1>7, <1>9, <1>14 DEF CheckUpdate, Refuse
<1>15. ASSUME \/ WriteInsert(r) \/ WriteIgnore(r) \/ WriteUpsert(r)
              \/ WriteUpdate(r) \/ WriteDelete(r)
       PROVE  SerialInv(r)'
  <2>1. CASE tx[r].state = "none"
    <3>1. req' = [req EXCEPT ![r] = Idle]
      BY <1>15, <2>1
         DEF WriteInsert, WriteIgnore, WriteUpsert, WriteUpdate, WriteDelete, Write
    <3> QED
      BY <1>1, <1>2, <3>1 DEF Idle, Handler, WritesInv
  <2>2. CASE tx[r].state # "none"
    BY <1>15, <2>2, WriteRuns
  <2> QED
    BY <2>1, <2>2
<1>16. ASSUME RefuseOperation(r) \/ Fail(r) PROVE SerialInv(r)'
  BY <1>3, <1>16 DEF RefuseOperation, Fail, Refuse
<1> QED
  BY <1>4, <1>5, <1>6, <1>11, <1>12, <1>13, <1>14, <1>15, <1>16 DEF Step, Work

\* Every step preserves it.
LEMMA NextBatchInv == BatchInv /\ [Next]_vars => BatchInv'
<1> SUFFICES ASSUME BatchInv, [Next]_vars PROVE BatchInv'
  OBVIOUS
<1>1. WritesInv /\ PolicyInv'
  BY NextPolicyInv DEF BatchInv, PolicyInv
<1>2. ASSUME NEW r \in Request PROVE SerialInv(r)'
  <2>1. ASSUME Undisturbed(r) PROVE SerialInv(r)'
    <3>1. CASE req[r].pc \in {"idle", "refused"}
      BY <2>1, <3>1 DEF Undisturbed, SerialInv
    <3>2. CASE req[r].pc \notin {"idle", "refused"}
      BY <2>1, <3>2, SnapshotStays DEF Undisturbed
    <3> QED
      BY <3>1, <3>2
  <2>2. CASE Step(r)
    BY <2>2, OwnStepRuns
  <2>3. ASSUME NEW s \in Request, s # r, Step(s) PROVE Undisturbed(r)
    BY <1>1, <2>3, OthersLeaveIt
  <2>4. ASSUME NEW u, NEW role, ChangeMember(u, role) PROVE Undisturbed(r)
    BY <1>1, <2>4, MembersLeaveIt
  <2>5. CASE UNCHANGED vars
    BY <2>1, <2>5 DEF vars, Undisturbed
  <2> QED
    BY <2>1, <2>2, <2>3, <2>4, <2>5 DEF Next
<1> QED
  BY <1>1, <1>2 DEF BatchInv

\* Refinement: operations and batches that run together have the effect of whole ones,
\* one after another, each under its policies at that instant (SerialWrites).
THEOREM WritesAreSerial == Spec => ImplementsSerial
<1>1. Init => Serial!Init
  BY DEF Init, Serial!Init, NoRows, NoRoles
<1>2. BatchInv /\ [Next]_vars => [Serial!Next]_<<policies, rows, roles>>
  <2> SUFFICES ASSUME BatchInv, [Next]_vars
               PROVE  Serial!Next \/ UNCHANGED <<policies, rows, roles>>
    OBVIOUS
  <2>1. WritesInv /\ PolicyInv /\ \A r \in Request : SerialInv(r)
    BY DEF BatchInv, PolicyInv
  <2>2. ASSUME NEW r \in Request,
               \/ WriteInsert(r) \/ WriteIgnore(r) \/ WriteUpsert(r)
               \/ WriteUpdate(r) \/ WriteDelete(r)
        PROVE  Serial!Next \/ UNCHANGED <<policies, rows, roles>>
    <3>1. CASE tx[r].state # "none"
      <4>1. UNCHANGED <<policies, rows, roles>>
        BY <2>2, <3>1
           DEF WriteInsert, WriteIgnore, WriteUpsert, WriteUpdate, WriteDelete, Write
      <4> QED
        BY <4>1
    <3>2. CASE tx[r].state = "none"
      <4>1. Rows(r) = rows /\ Roles(r) = roles
        BY <3>2 DEF Rows, Roles, Reading
      <4>2. PICK p : p = req[r].by
        OBVIOUS
      <4>3. PICK op : op = Op(r)
        OBVIOUS
      <4>4. /\ req[r].pc \in AtOperation
            /\ Write(r, Serial!Effect(p, op, rows)) /\ Serial!KeysFree(p, op, rows)
        BY <2>1, <2>2, <4>1, <4>2, <4>3, StatementEffect
      <4>5. p \in Client /\ op \in Operation
        BY <2>1, <3>2, <4>2, <4>3, <4>4 DEF SerialInv, Op, AtOperation
      <4>6. rows' = Serial!Effect(p, op, rows) /\ UNCHANGED <<policies, roles>>
        BY <3>2, <4>4 DEF Write
      <4>7. Serial!Single(p, op)
        BY <4>4, <4>6 DEF Serial!Single
      <4> QED
        BY <4>5, <4>6, <4>7 DEF Serial!Next, Serial!Change
    <3> QED
      BY <3>1, <3>2
  <2>3. ASSUME NEW r \in Request, Commit(r)
        PROVE  Serial!Next \/ UNCHANGED <<policies, rows, roles>>
    <3>1. req[r].pc = "commit" /\ rows' = tx[r].rows /\ UNCHANGED <<policies, roles>>
      BY <2>3 DEF Commit
    <3>2. tx[r].state = "writing" /\ req[r].ops = <<>>
      BY <2>1, <3>1 DEF WritesInv, HandlerInv, PolicyInv, ProgressInv
    <3>3. PICK p \in Client, ops \in Batch : \E n \in 0..Len(ops) : \E f :
              /\ Ran(p, ops, n, f) /\ p = req[r].by /\ tx[r].rows = f[n]
              /\ req[r].ops = SubSeq(ops, n + 1, Len(ops))
      BY <2>1, <3>1, <3>2 DEF SerialInv
    <3>4. PICK n \in 0..Len(ops) : \E f :
              /\ Ran(p, ops, n, f) /\ p = req[r].by /\ tx[r].rows = f[n]
              /\ req[r].ops = SubSeq(ops, n + 1, Len(ops))
      BY <3>3
    <3>5. PICK f : /\ Ran(p, ops, n, f) /\ p = req[r].by /\ tx[r].rows = f[n]
                   /\ req[r].ops = SubSeq(ops, n + 1, Len(ops))
      BY <3>4
    <3>6. n = Len(ops)
      BY <3>2, <3>5, BatchOperations, NextOfRest
    <3>7. Ran(p, ops, Len(ops), f) /\ rows' = f[Len(ops)]
      BY <3>1, <3>5, <3>6
    <3>8. PICK g : g = Serial!AfterEach(p, ops)
      OBVIOUS
    <3>9. \A i \in 0..Len(ops) : g[i] = f[i]
      BY <3>7, <3>8, BatchOperations, AfterEachIs
    <3>10. Len(ops) \in Nat
      BY BatchOperations
    <3>11. rows' = g[Len(ops)]
      BY <3>7, <3>9, <3>10
    <3>12. \A i \in 1..Len(ops) :
             Serial!KeysFree(p, ops[i], g[i - 1]) /\ Serial!Authorized(p, ops[i], g[i - 1])
      BY <3>7, <3>9, <3>10 DEF Ran
    <3>13. Serial!Whole(p, ops)
      BY <3>8, <3>11, <3>12 DEF Serial!Whole
    <3> QED
      BY <3>1, <3>13 DEF Serial!Next, Serial!Change
  <2>4. ASSUME NEW u \in User \cap Client, NEW role \in Role \cup {Nobody},
               ChangeMember(u, role)
        PROVE  Serial!Next
    BY <2>4 DEF ChangeMember, Serial!Next, Serial!ChangeMember
  <2>5. ASSUME NEW r \in Request, Step(r),
               ~Commit(r), ~WriteInsert(r), ~WriteIgnore(r), ~WriteUpsert(r),
               ~WriteUpdate(r), ~WriteDelete(r)
        PROVE  UNCHANGED <<policies, rows, roles>>
    BY <2>5 DEF Step, Work, StartOperation, StartBatch, RefuseOperation, SkipCheck,
                CheckInsert, LookUpRow, CheckUpdate, Fail, Refuse, End, Read
  <2>6. CASE UNCHANGED vars
    BY <2>6 DEF vars
  <2> QED
    BY <2>2, <2>3, <2>4, <2>5, <2>6 DEF Next
<1> QED
  BY <1>1, <1>2, InitBatchInv, NextBatchInv, PTL DEF Spec, ImplementsSerial, Serial!Spec
=============================================================================
