---------------------------- MODULE DefinitionRules ----------------------------
(***************************************************************************)
(* The rules a definition carries besides its schema: which users may make *)
(* a database for themselves (provision), which roles may manage which     *)
(* members of an organization (management), and who may do what to a table *)
(* (access).  How they are pushed (platform/definitions.go,                *)
(* definitions/service.go), stored and loaded (primarystore/store.go), and *)
(* evaluated (definitions/provision.go, auth/user_database.go,             *)
(* auth/org_management.go, auth/org_membership.go; what access policies    *)
(* mean is in AccessPolicy).                                               *)
(*                                                                         *)
(* Provision and access belong to a version, management to the definition. *)
(* One definition is modelled.  The three actions with target roles are    *)
(* alike and are one, and the three without, which are stored and loaded   *)
(* as booleans, are left out.                                              *)
(***************************************************************************)
EXTENDS Naturals, Sequences, Functions, TernaryLogic

CONSTANTS
    User,
    Address,      \* per user, his e-mail address
    Role,         \* the roles the definition declares
    Schema,
    Table,
    Tables,       \* per schema, its tables
    Access,       \* access as authored: sets of policies
    Condition,    \* conditions with all their parts
    Depth,        \* how deep a condition is nested
    Rule,         \* the conditions that are authored as provision rules
    NoRule,       \* provision is omitted
    Grants,       \* management as authored: a permission for every role
    Pusher,       \* slots for pushes running at the same time
    MaxVersion,   \* bound: the versions pushed
    None

Type == {"global", "user", "organization"}
Version == 1 .. MaxVersion

\* of the condition of an access policy, what its fields refer to
Policy == [table : Table, operation : {"select", "insert", "update", "delete"},
           uses : SUBSET {"auth.role", "old", "new"}]

Request == [schema : Schema, provision : Rule \cup {NoRule}, management : Grants,
            access : Access]

IsLeaf(c) == "field" \in DOMAIN c
IsList(c) == "list" \in DOMAIN c
IsAnd(c) == "all" \in DOMAIN c
IsOr(c) == "any" \in DOMAIN c
IsNot(c) == "but" \in DOMAIN c
IsZero(c) == ~(IsLeaf(c) \/ IsAnd(c) \/ IsOr(c) \/ IsNot(c))
Parts(c) ==
    IF IsLeaf(c) THEN {}
    ELSE IF IsAnd(c) THEN Range(c.all)
    ELSE IF IsOr(c) THEN Range(c.any)
    ELSE IF IsNot(c) THEN {c.but}
    ELSE {}

\* encoding/json decodes no deeper nesting
MaxDepth == 10000

ASSUME RulesAssumption ==
    /\ Rule \subseteq Condition /\ NoRule \notin Condition
    /\ Depth \in [Condition -> 0..MaxDepth]
    /\ \A c \in Condition :
        /\ IsAnd(c) => c.all \in Seq(Condition) \ {<<>>}
        /\ IsOr(c) => c.any \in Seq(Condition) \ {<<>>}
        /\ Parts(c) \subseteq Condition /\ \A d \in Parts(c) : Depth[d] < Depth[c]
    /\ MaxVersion \in Nat \ {0}
    /\ None \notin {"global", "user", "organization"} \cup Schema
    /\ Access \subseteq SUBSET Policy
    /\ \A g \in Grants :
           DOMAIN g = Role /\ \A r \in Role : g[r].form \in {"no", "yes", "any", "list"}

VARIABLES
    type,         \* atombase_definitions: definition_type, None without a row
    current,      \* current_version
    history,      \* atombase_definitions_history
    rules,        \* atombase_provision_policies
    access,       \* atombase_access_policies
    management,   \* atombase_management_policies; no targets is stored as ''
    push,         \* the pushes in flight
    req,          \* POST /auth/me/database, one handler per user
    databases,    \* the users' databases, and the version each was built at
    organizations,\* self-service organizations likewise
    pushed        \* history: the request that made each version, the first that stored it

vars == <<type, current, history, rules, access, management, push, req, databases,
          organizations, pushed>>
definition == <<type, current, history, rules, access, management, pushed>>

Idle == [pc |-> "idle"]
Row == [role : Role, targets : SUBSET Role]
Made == [user : User, version : Version]

TypeOK ==
    /\ type \in Type \cup {None}
    /\ current \in 0 .. MaxVersion
    /\ history \in [Version -> Schema \cup {None}]
    /\ rules \in [Version -> Rule \cup {NoRule}]
    /\ access \in [Version -> SUBSET Policy]
    /\ management \subseteq Row
    /\ push \in [Pusher -> {Idle} \cup [pc : {"planned"}, version : Version, request : Request]]
    /\ req \in [User -> {Idle}
                \cup [pc : {"allowed", "denied"}, version : Version]
                \cup [pc : {"building"}, version : Version, built : Version]]
    /\ databases \subseteq Made
    /\ organizations \subseteq Made
    /\ \A v \in Version : pushed[v] = None \/ pushed[v] \in Request

-----------------------------------------------------------------------------
(* Provision rules.  A leaf compares a field of the caller with a literal,
   another field of his or a list of literals; everything is compared
   as it prints.  allow() is the rule without any part. *)

\* FindOrCreateUser verifies the address of every user.
Field(u, f) ==
    CASE f = "id" -> u
      [] f = "email" -> Address[u]
      [] f = "status" -> "authenticated"
      [] f = "verified" -> "true"

\* compareValues for a field, which is never nil
CompareValues(left, op, right) ==
    CASE op = "eq" -> left = right
      [] op = "ne" -> left # right
      [] op = "is" -> FALSE
      [] op = "is_not" -> TRUE

Verdict(yes) == IF yes THEN "yes" ELSE "no"

Value(c, u) == IF c.from = "auth" THEN Field(u, c.value) ELSE c.value

\* "in" wants a list, which holds literals
EvalLeaf(c, u) ==
    IF c.op # "in" THEN Verdict(CompareValues(Field(u, c.field), c.op, Value(c, u)))
    ELSE IF IsList(c) THEN Verdict(Field(u, c.field) \in c.list)
    ELSE "error"

\* the first part that decides ends the evaluation, an error does always
First(answers, deciding, otherwise) ==
    LET ends == {i \in DOMAIN answers : answers[i] \in {deciding, "error"}} IN
    IF ends = {} THEN otherwise
    ELSE answers[CHOOSE i \in ends : \A j \in ends : i <= j]

Negated(answer) ==
    IF answer = "error" THEN answer ELSE Verdict(answer = "no")

EvalWith(eval, c, u) ==
    IF IsLeaf(c) THEN EvalLeaf(c, u)
    ELSE IF IsAnd(c) THEN First([i \in DOMAIN c.all |-> eval[c.all[i]]], "no", "yes")
    ELSE IF IsOr(c) THEN First([i \in DOMAIN c.any |-> eval[c.any[i]]], "yes", "no")
    ELSE IF IsNot(c) THEN Negated(eval[c.but])
    ELSE "no"
EvalCondition(u) == LET eval[c \in Condition] == EvalWith(eval, c, u) IN eval

EvaluateProvision(rule, u) ==
    IF rule = NoRule \/ IsZero(rule) THEN "no" ELSE EvalCondition(u)[rule]

-----------------------------------------------------------------------------
(* Management: a permission is authored as a boolean, a list of roles, or
   { any: true }; it is allowed or not, for any target or for some *)

Parsed(p) ==
    [allowed |-> p.form # "no", any |-> p.form = "any",
     roles |-> IF p.form = "list" THEN p.roles ELSE {}]

\* ParseAndValidateManagement
ValidManagement(t, grants) ==
    /\ t # "organization" => \A r \in DOMAIN grants : grants[r].form = "no"
    /\ \A r \in DOMAIN grants : Parsed(grants[r]).roles \subseteq Role
RowsOf(grants) ==
    {[role |-> r, targets |-> Parsed(grants[r]).roles] :
        r \in {s \in DOMAIN grants : Parsed(grants[s]).allowed}}

\* loadManagementPolicies, managementAllows and permissionAllows
Loaded(rows, role) ==
    LET own == {row.targets : row \in {x \in rows : x.role = role}} IN
    [any |-> {} \in own, roles |-> UNION own]
ManagementAllows(rows, role, target) ==
    LET p == Loaded(rows, role) IN p.any \/ target \in p.roles

-----------------------------------------------------------------------------
(* Access: a policy for a table and an operation, or none, which denies *)

\* ParseAndValidateAccess and ValidateConditionContext
ValidAccess(t, schema, policies) ==
    \A p \in policies :
        /\ p.table \in Tables[schema]
        /\ p.operation = "insert" => "old" \notin p.uses
        /\ p.operation \in {"select", "delete"} => "new" \notin p.uses
        /\ t # "organization" => "auth.role" \notin p.uses

LoadAccessPolicy(version, table, operation) ==
    {p \in access[version] : p.table = table /\ p.operation = operation}

-----------------------------------------------------------------------------
Init ==
    /\ type = None /\ current = 0
    /\ history = [v \in Version |-> None]
    /\ rules = [v \in Version |-> NoRule]
    /\ access = [v \in Version |-> {}]
    /\ management = {}
    /\ push = [p \in Pusher |-> Idle]
    /\ req = [u \in User |-> Idle]
    /\ databases = {} /\ organizations = {}
    /\ pushed = [v \in Version |-> None]

Valid(t, q) ==
    /\ ValidAccess(t, q.schema, q.access)
    /\ ValidManagement(t, q.management)
    /\ t = "global" => q.provision = NoRule

\* the rows a transaction of createDefinition or pushDefinition leaves
Store(version, q) ==
    /\ current' = version
    /\ history' = [history EXCEPT ![version] = q.schema]
    /\ rules' = [rules EXCEPT ![version] = q.provision]
    /\ access' = [access EXCEPT ![version] = q.access]
    /\ management' = RowsOf(q.management)
    /\ pushed' = [pushed EXCEPT ![version] = IF @ = None THEN q ELSE @]

\* POST /platform/definitions
CreateDefinition(t, q) ==
    /\ type = None
    /\ Valid(t, q)
    /\ type' = t
    /\ Store(1, q)
    /\ UNCHANGED <<push, req, databases, organizations>>

\* pushDefinition reads the definition and refuses a request that changes neither
\* the schema nor the provision rule ...
PlanPush(p, q) ==
    /\ push[p] = Idle
    /\ type # None /\ current < MaxVersion
    /\ q.schema # history[current] \/ q.provision # rules[current]
    /\ Valid(type, q)
    /\ push' = [push EXCEPT ![p] =
          [pc |-> "planned", version |-> current + 1, request |-> q]]
    /\ UNCHANGED <<definition, req, databases, organizations>>

\* Mutant: the rows of the roles that are pushed replace what they had.
CommitPushMerging(p) ==
    LET q == push[p]
        new == RowsOf(q.request.management)
    IN
    /\ q.pc = "planned"
    /\ history[q.version] = None
    /\ current' = q.version
    /\ history' = [history EXCEPT ![q.version] = q.request.schema]
    /\ rules' = [rules EXCEPT ![q.version] = q.request.provision]
    /\ access' = [access EXCEPT ![q.version] = q.request.access]
    /\ management' = new \cup
          {row \in management : \A other \in new : other.role # row.role}
    /\ pushed' = [pushed EXCEPT ![q.version] = IF @ = None THEN q.request ELSE @]
    /\ push' = [push EXCEPT ![p] = Idle]
    /\ UNCHANGED <<type, req, databases, organizations>>

\* Mutant: a version that another push has taken is stored over.
CommitPushUnchecked(p) ==
    LET q == push[p] IN
    /\ q.pc = "planned"
    /\ Store(q.version, q.request)
    /\ push' = [push EXCEPT ![p] = Idle]
    /\ UNCHANGED <<type, req, databases, organizations>>

\* Mutant: a rule is stored when it has changed.
CommitPushOfChanges(p) ==
    LET q == push[p] IN
    /\ q.pc = "planned"
    /\ history[q.version] = None
    /\ current' = q.version
    /\ history' = [history EXCEPT ![q.version] = q.request.schema]
    /\ rules' = IF q.request.provision = rules[q.version - 1] THEN rules
                ELSE [rules EXCEPT ![q.version] = q.request.provision]
    /\ access' = [access EXCEPT ![q.version] = q.request.access]
    /\ management' = RowsOf(q.request.management)
    /\ pushed' = [pushed EXCEPT ![q.version] = IF @ = None THEN q.request ELSE @]
    /\ push' = [push EXCEPT ![p] = Idle]
    /\ UNCHANGED <<type, req, databases, organizations>>

\* ... and after its checks writes everything in one transaction, which fails when
\* another push has taken the version
CommitPush(p) ==
    LET q == push[p] IN
    /\ q.pc = "planned"
    /\ history[q.version] = None
    /\ Store(q.version, q.request)
    /\ push' = [push EXCEPT ![p] = Idle]
    /\ UNCHANGED <<type, req, databases, organizations>>

\* a version that is taken, or any other error
FailPush(p) ==
    /\ push[p] # Idle
    /\ push' = [push EXCEPT ![p] = Idle]
    /\ UNCHANGED <<definition, req, databases, organizations>>

-----------------------------------------------------------------------------
\* createUserDatabase: the current version and its rule are read in one statement;
\* an evaluation that fails ends the handler
JudgeUser(u) ==
    /\ req[u] = Idle
    /\ \A d \in databases : d.user # u
    /\ type = "user"
    /\ \/ /\ EvaluateProvision(rules[current], u) = "yes"
          /\ req' = [req EXCEPT ![u] = [pc |-> "allowed", version |-> current]]
       \/ /\ EvaluateProvision(rules[current], u) = "no"
          /\ req' = [req EXCEPT ![u] = [pc |-> "denied", version |-> current]]
    /\ UNCHANGED <<definition, push, databases, organizations>>

\* createDatabase reads the definition once more and builds its schema
BuildDatabase(u) ==
    /\ req[u].pc = "allowed"
    /\ req' = [req EXCEPT ![u] =
          [pc |-> "building", version |-> req[u].version, built |-> current]]
    /\ UNCHANGED <<definition, push, databases, organizations>>

InsertDatabase(u) ==
    /\ req[u].pc = "building"
    /\ databases' = databases \cup {[user |-> u, version |-> req[u].built]}
    /\ req' = [req EXCEPT ![u] = Idle]
    /\ UNCHANGED <<definition, push, organizations>>

\* "provisioning denied", or an error further on
EndRequest(u) ==
    /\ req[u] # Idle
    /\ req' = [req EXCEPT ![u] = Idle]
    /\ UNCHANGED <<definition, push, databases, organizations>>

\* createOrganization with a session: the definition's rule is not looked at
CreateOrganization(u) ==
    /\ type = "organization"
    /\ \A o \in organizations : o.user # u     \* bound: one for each user
    /\ organizations' = organizations \cup {[user |-> u, version |-> current]}
    /\ UNCHANGED <<definition, push, req, databases>>

Next ==
    \/ \E q \in Request :
        \/ \E t \in Type : CreateDefinition(t, q)
        \/ \E p \in Pusher : PlanPush(p, q)
    \/ \E p \in Pusher : CommitPush(p) \/ FailPush(p)
    \/ \E u \in User :
        \/ JudgeUser(u) \/ BuildDatabase(u) \/ InsertDatabase(u) \/ EndRequest(u)
        \/ CreateOrganization(u)

Spec == Init /\ [][Next]_vars

-----------------------------------------------------------------------------
(* What the authors of a definition mean *)

SaysLeaf(c, u) ==
    LET x == EvalLeaf(c, u) IN IF x = "error" THEN "null" ELSE Truth(x = "yes")

\* a rule's meaning; a comparison that makes no sense is unknown.  allow() is
\* whatever the reader of the rule takes it for.
SaysWith(says, c, u, allow) ==
    IF IsLeaf(c) THEN SaysLeaf(c, u)
    ELSE IF IsAnd(c) THEN AllOf({says[d] : d \in Range(c.all)})
    ELSE IF IsOr(c) THEN AnyOf({says[d] : d \in Range(c.any)})
    ELSE IF IsNot(c) THEN Opposite(says[c.but])
    ELSE Truth(allow)
Says(u, allow) == LET says[c \in Condition] == SaysWith(says, c, u, allow) IN says

Admits(rule, u) == rule # NoRule /\ Says(u, FALSE)[rule] = "true"

\* What the evaluation decides is what the rule says of the user; an error decides
\* nothing.
DecidesAsMeant ==
    \A rule \in Rule \cup {NoRule}, u \in User :
        /\ EvaluateProvision(rule, u) = "yes" => Admits(rule, u)
        /\ EvaluateProvision(rule, u) = "no" => ~Admits(rule, u)

GrantSays(p, target) ==
    CASE p.form = "no" -> FALSE
      [] p.form \in {"yes", "any"} -> TRUE
      [] p.form = "list" -> target \in p.roles

(* Safety *)

\* Whoever manages members does so by the management of the push that made the
\* current version, not of one that found the version taken, read as it was authored
\* (pushDefinition, LoadManagementPolicies, managementAllows).
GrantsAsPushed ==
    current # 0 =>
        \A r, t \in Role :
            ManagementAllows(management, r, t) <=>
                GrantSays(pushed[current].management[r], t)

\* A user's request for a database is decided by the rule that was pushed with
\* the version current when it was looked up, through all that is pushed
\* meanwhile (createUserDatabase, EvaluateProvision): an error grants nothing.
JudgedByPublishedRule ==
    \A u \in User : req[u] # Idle =>
        (req[u].pc # "denied") = Admits(pushed[req[u].version].provision, u)

\* The databases of a version, which may be behind the current one for long, find
\* for each table and operation the policy of the push that made their version or,
\* without one, none (LoadAccessPolicy): never that of a later push or of one that
\* raced for the same version and lost.
AccessAsPushed ==
    \A v \in 1 .. current : \A t \in Table, op \in {"select", "insert", "update", "delete"} :
        LoadAccessPolicy(v, t, op) =
            {p \in pushed[v].access : p.table = t /\ p.operation = op}

(* What the code does not keep to *)

\* "If `provision` is omitted, self-service provisioning is rejected", of user and
\* organization definitions (createOrganization).
OrganizationsAdmitted ==
    \A o \in organizations : Admits(pushed[o.version].provision, o.user)

\* A user's database is of a version whose rule admits him.
DatabasesAdmitted ==
    \A d \in databases : Admits(pushed[d.version].provision, d.user)

\* allow() is a rule that anybody satisfies, as it is in access policies.
AllowAdmits ==
    \A u \in User : req[u] # Idle /\ req[u].pc = "denied" =>
        LET rule == pushed[req[u].version].provision
        IN  rule # NoRule => Says(u, TRUE)[rule] # "true"

=============================================================================
