---------------------------- MODULE AccessPolicy ----------------------------
(***************************************************************************)
(* Access policies of an organization's database: conditions over the      *)
(* principal (auth), the stored row (old) and the written one (new), and   *)
(* what definitions/compiler.go makes of them: a refusal, a permission, or *)
(* SQL that is attached to the statement.  The SQL is given by its meaning *)
(* in SQLite's three-valued logic, per row and membership.                 *)
(*                                                                         *)
(* Rows have one column that conditions speak of, their owner.             *)
(***************************************************************************)
EXTENDS Naturals, Sequences, SequencesExt, TernaryLogic

CONSTANTS
    User, Role,
    Anonymous, Service,   \* principals that are no users
    Nobody,               \* the role of a user without a membership row
    Null,                 \* SQL's NULL
    Unset,                \* a column that is not among the values written
    NoPolicy,             \* no row in atombase_access_policies
    Unconditional,        \* a row without a condition
    Condition,            \* conditions, with all their parts
    Depth                 \* how deep a condition is nested

IsLeaf(c) == "field" \in DOMAIN c
IsAnd(c) == "all" \in DOMAIN c
IsOr(c) == "any" \in DOMAIN c
Parts(c) ==
    IF IsLeaf(c) THEN {}
    ELSE IF IsAnd(c) THEN Range(c.all)
    ELSE IF IsOr(c) THEN Range(c.any)
    ELSE {c.not}

\* encoding/json decodes no deeper nesting
MaxDepth == 10000

ASSUME PolicyAssumption ==
    /\ Anonymous \notin User /\ Service \notin User /\ Anonymous # Service
    /\ Null \notin User \cup {Anonymous, Service} /\ Unset \notin User \cup {Null}
    /\ Nobody \notin Role
    /\ {NoPolicy, Unconditional} \cap Condition = {} /\ NoPolicy # Unconditional
    /\ Depth \in [Condition -> 0..MaxDepth]
    /\ \A c \in Condition :
        /\ Parts(c) \subseteq Condition /\ \A d \in Parts(c) : Depth[d] < Depth[c]
        /\ IsLeaf(c) => /\ c.field \in {"auth.id", "auth.status", "auth.role", "new.owner", "old.owner"}
                       /\ c.op \in {"eq", "ne", "is", "is_not"}

Principal == User \cup {Anonymous, Service}
Owner == User \cup {Null}

(* What SQL can refer to, and what the compiler is given: the principal, and
   the values written, which are columns of a subquery (alias) or known. *)
Env == [old : Owner, new : Owner, role : Role \cup {Nobody}]
Input == [id : Principal, alias : BOOLEAN, new : Owner \cup {Unset}]

-----------------------------------------------------------------------------
(* A comparison in SQL, and compareValues in Go, where nil is a value. *)
SqlCompare(a, op, b) ==
    CASE op = "is" -> Truth(a = b)
      [] op = "is_not" -> Truth(a # b)
      [] op \in {"eq", "ne"} /\ Null \in {a, b} -> "null"
      [] op = "eq" /\ Null \notin {a, b} -> Truth(a = b)
      [] op = "ne" /\ Null \notin {a, b} -> Truth(a # b)
GoCompare(a, op, b) ==
    CASE op = "eq" -> a = b
      [] op = "ne" -> a # b
      [] op = "is" -> a = Null /\ b = Null
      [] op = "is_not" -> a # Null
-----------------------------------------------------------------------------
(* The compiler.  A predicate is allowed or not, and if it filters, it does so
   by SQL with the meaning where. *)

Filter(where) == [allowed |-> TRUE, filters |-> TRUE, where |-> where]
Decided(allowed) ==
    [allowed |-> allowed, filters |-> FALSE, where |-> [e \in Env |-> Truth(allowed)]]

AuthStatus(id) == IF id = Anonymous THEN "anonymous" ELSE "authenticated"
ResolveValue(raw, in) == IF raw = "auth.id" THEN in.id ELSE raw

(* compileAuthLeaf: the two statuses that are membership ignore the operator. *)
StatusLeaf(c, in) ==
    IF c.value \in {"member", "anonymous"}
    THEN Filter([e \in Env |-> Truth((e.role # Nobody) <=> c.value = "member")])
    ELSE Decided(GoCompare(AuthStatus(in.id), c.op, c.value))
RoleLeaf(c, in) ==
    Filter([e \in Env |->
        Truth(/\ e.role # Nobody
              /\ SqlCompare(e.role, c.op, ResolveValue(c.value, in)) = "true")])
\* IS and IS NOT of a column are about NULL whatever the value, unless it is auth.id.
Operand(c, in) ==
    IF c.op \in {"is", "is_not"} /\ c.value # "auth.id" THEN Null
    ELSE ResolveValue(c.value, in)
(* compileNewLeaf for an alias, else evalNewLeaf: a column that is not written
   satisfies nothing. *)
NewLeaf(c, in) ==
    IF in.alias
    THEN Filter([e \in Env |-> SqlCompare(e.new, c.op, Operand(c, in))])
    ELSE Decided(in.new # Unset /\ GoCompare(in.new, c.op, ResolveValue(c.value, in)))
OldLeaf(c, in) ==
    Filter([e \in Env |-> SqlCompare(e.old, c.op, Operand(c, in))])

Leaf(c, in) ==
    CASE c.field = "auth.id" ->
            Decided(GoCompare(in.id, c.op, ResolveValue(c.value, in)))
      [] c.field = "auth.status" -> StatusLeaf(c, in)
      [] c.field = "auth.role" -> RoleLeaf(c, in)
      [] c.field = "new.owner" -> NewLeaf(c, in)
      [] c.field = "old.owner" -> OldLeaf(c, in)

(* One child that is not allowed refuses all of them; the SQL of the others is
   joined by AND. *)
Conjunction(parts) ==
    IF \E p \in parts : ~p.allowed THEN Decided(FALSE)
    ELSE [allowed |-> TRUE,
          filters |-> \E p \in parts : p.filters,
          where |-> [e \in Env |-> AllOf({p.where[e] : p \in parts})]]

(* Mutant: the SQL of the other children is kept beside one without any. *)
DisjunctionOfFilters(parts) ==
    LET open == {p \in parts : p.allowed /\ p.filters}
    IN  [allowed |-> TRUE, filters |-> TRUE,
         where |-> [e \in Env |-> AnyOf({p.where[e] : p \in open})]]

(* Children that are not allowed are left out, and one that is allowed without
   SQL allows them all. *)
Disjunction(parts) ==
    LET open == {p \in parts : p.allowed}
    IN  IF open = {} THEN Decided(FALSE)
        ELSE IF \E p \in open : ~p.filters THEN Decided(TRUE)
        ELSE Filter([e \in Env |-> AnyOf({p.where[e] : p \in open})])

Negation(p) ==
    IF p.filters THEN Filter([e \in Env |-> Opposite(p.where[e])]) ELSE Decided(~p.allowed)

CompileWith(compiled, c, in) ==
    IF IsLeaf(c) THEN Leaf(c, in)
    ELSE IF IsAnd(c) THEN Conjunction({compiled[<<d, in>>] : d \in Range(c.all)})
    ELSE IF IsOr(c) THEN Disjunction({compiled[<<d, in>>] : d \in Range(c.any)})
    ELSE Negation(compiled[<<c.not, in>>])
CompileCondition[p \in Condition \X Input] == CompileWith(CompileCondition, p[1], p[2])

(* Compile: the service may do everything, and what has no policy is refused. *)
Compile(policy, in) ==
    IF in.id = Service THEN Decided(TRUE)
    ELSE IF policy \in {NoPolicy, Unconditional} THEN Decided(policy = Unconditional)
    ELSE CompileCondition[<<policy, in>>]
-----------------------------------------------------------------------------
(* The reference: what a condition says, connective by connective. *)

MeaningWith(meant, c, in, e) ==
    IF IsLeaf(c) THEN Leaf(c, in).where[e]
    ELSE IF IsAnd(c) THEN AllOf({meant[<<d, in, e>>] : d \in Range(c.all)})
    ELSE IF IsOr(c) THEN AnyOf({meant[<<d, in, e>>] : d \in Range(c.any)})
    ELSE Opposite(meant[<<c.not, in, e>>])
Meaning[p \in Condition \X Input \X Env] == MeaningWith(Meaning, p[1], p[2], p[3])

Permits(policy, in, e) ==
    IF in.id = Service THEN "true"
    ELSE IF policy \in {NoPolicy, Unconditional} THEN Truth(policy = Unconditional)
    ELSE Meaning[<<policy, in, e>>]
=============================================================================
