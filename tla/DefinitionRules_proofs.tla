------------------------- MODULE DefinitionRules_proofs -------------------------
(***************************************************************************)
(* Proofs about DefinitionRules, for any definition, rules, grants,        *)
(* policies, number of versions, and number of pushes and users.           *)
(***************************************************************************)
EXTENDS DefinitionRules, WellFoundedInduction, TLAPS

(* Induction. *)

\* A set of numbers has a least one.
LEMMA LeastNumber ==
    ASSUME NEW S \in SUBSET Nat, S # {}
    PROVE  \E n \in S : \A m \in S : n <= m
<1>1. \A m, n \in Nat : m < n => <<m, n>> \in OpToRel(<, Nat)
  BY Zenon DEF OpToRel
<1>2. PICK n \in S : \A m \in S : ~(<<m, n>> \in OpToRel(<, Nat))
  BY NatLessThanWellFounded, WFMin, Zenon
<1>3. \A m \in S : ~(m < n)
  BY <1>1, <1>2, Zenon
<1>4. \A m \in Nat : m < n \/ n <= m
  OBVIOUS
<1> QED
  BY <1>3, <1>4

\* What holds of the first number of a range, and of each number after one it
\* holds of, holds of the whole range.
LEMMA RangeInduction ==
    ASSUME NEW from \in Nat, NEW to \in Nat, NEW Good,
           from \in Good,
           \A v \in (from + 1)..to : v - 1 \in Good => v \in Good
    PROVE  from..to \subseteq Good
<1> DEFINE Bad == {v \in from..to : v \notin Good}
<1>1. SUFFICES ASSUME Bad # {} PROVE FALSE
  OBVIOUS
<1>2. Bad \subseteq Nat
  OBVIOUS
<1>3. PICK n \in Bad : \A m \in Bad : n <= m
  BY <1>1, <1>2, LeastNumber
<1>4. n \in from..to /\ n \notin Good /\ n # from
  BY <1>3
<1>5. n - 1 \in from..to /\ n \in (from + 1)..to /\ ~(n <= n - 1)
  BY <1>4
<1>6. n - 1 \in Good
  BY <1>3, <1>5
<1> QED
  BY <1>4, <1>5, <1>6

\* What holds of everything of whose parts it holds, holds of everything, when the
\* parts of a thing are of lower rank.
LEMMA PartsInduction ==
    ASSUME NEW S, NEW rank, \A c \in S : rank[c] \in Nat,
           NEW parts, \A c \in S : \A d \in parts[c] : d \in S /\ rank[d] < rank[c],
           NEW Good, \A c \in S : parts[c] \subseteq Good => c \in Good
    PROVE  S \subseteq Good
<1> DEFINE Ranks == {rank[c] : c \in S \ Good}
<1>1. SUFFICES ASSUME S \ Good # {} PROVE FALSE
  OBVIOUS
<1>2. Ranks # {} /\ Ranks \in SUBSET Nat
  BY <1>1
<1>3. PICK n \in Ranks : \A m \in Ranks : n <= m
  BY <1>2, LeastNumber
<1>4. PICK c \in S \ Good : rank[c] = n
  BY <1>3
<1>5. \A d \in parts[c] : d \in S /\ rank[d] \in Nat /\ ~(n <= rank[d])
  BY <1>4
<1>6. parts[c] \subseteq Good
  BY <1>3, <1>5
<1> QED
  BY <1>4, <1>6
-----------------------------------------------------------------------------
\* No permission is an empty list of roles: stored, one is a permission for any
\* role (ParseAndValidateManagement takes it, loadManagementPolicies reads '').
ListsNameRoles ==
    \A g \in Grants, r \in Role : g[r].form = "list" => g[r].roles # {}

-----------------------------------------------------------------------------
(* What is stored *)

\* The versions up to the current one, and no others, are there, each with what
\* was pushed with it; management is that of the current one.
StoreInv ==
    /\ type = None <=> current = 0
    /\ DOMAIN pushed = Version
    /\ \A v \in Version : history[v] = None <=> v > current
    /\ \A v \in Version : v > current => pushed[v] = None
    /\ \A v \in 1 .. current :
          /\ pushed[v] \in Request
          /\ rules[v] = pushed[v].provision
          /\ access[v] = pushed[v].access
    /\ current # 0 => management = RowsOf(pushed[current].management)

\* A push that was found valid writes the version after the one it read.
PushInv ==
    \A p \in Pusher : push[p] # Idle =>
        /\ type # None /\ Valid(type, push[p].request)
        /\ push[p].version \in 2 .. current + 1

\* A request is judged by the rule of a version that is there.
JudgeInv ==
    \A u \in User : req[u] # Idle =>
        /\ req[u].version \in 1 .. current
        /\ EvaluateProvision(pushed[req[u].version].provision, u) =
               IF req[u].pc = "denied" THEN "no" ELSE "yes"

RulesInv == TypeOK /\ StoreInv /\ PushInv /\ JudgeInv

\* Nothing is stored and nothing is under way at first.
LEMMA InitRules == Init => RulesInv
<1> SUFFICES ASSUME Init PROVE RulesInv
  OBVIOUS
<1>1. TypeOK
  BY RulesAssumption DEF Init, TypeOK, Type
<1>2. StoreInv
  BY RulesAssumption DEF Init, StoreInv, Version
<1>3. PushInv /\ JudgeInv
  BY DEF Init, PushInv, JudgeInv
<1> QED
  BY <1>1, <1>2, <1>3 DEF RulesInv

\* The parts of a request have the types in which they are stored.
LEMMA RequestParts ==
    ASSUME NEW q \in Request, NEW t, Valid(t, q)
    PROVE  /\ q.schema \in Schema /\ q.schema # None
           /\ q.provision \in Rule \cup {NoRule}
           /\ q.access \subseteq Policy
           /\ RowsOf(q.management) \subseteq Row
<1>1. q.schema \in Schema /\ q.access \in Access /\ q.management \in Grants
      /\ q.provision \in Rule \cup {NoRule}
  BY DEF Request
<1>2. RowsOf(q.management) \subseteq Row
  BY <1>1, RulesAssumption DEF Valid, ValidManagement, RowsOf, Row
<1> QED
  BY <1>1, <1>2, RulesAssumption

\* A transaction that stores the version after the current one keeps the
\* versions before it.
LEMMA StoreNext ==
    ASSUME TypeOK, StoreInv, NEW q \in Request, NEW t, Valid(t, q), type' # None,
           current + 1 \in Version, Store(current + 1, q)
    PROVE  /\ current' \in 0 .. MaxVersion
           /\ history' \in [Version -> Schema \cup {None}]
           /\ rules' \in [Version -> Rule \cup {NoRule}]
           /\ access' \in [Version -> SUBSET Policy]
           /\ management' \subseteq Row
           /\ \A v \in Version : pushed'[v] = None \/ pushed'[v] \in Request
           /\ \A v \in 1 .. current : pushed'[v] = pushed[v]
           /\ StoreInv'
<1> DEFINE new == current + 1
<1>1. current \in Nat /\ MaxVersion \in Nat
  BY RulesAssumption DEF TypeOK
<1>2. /\ current' = new
      /\ \A v \in Version :
            /\ history'[v] = IF v = new THEN q.schema ELSE history[v]
            /\ rules'[v] = IF v = new THEN q.provision ELSE rules[v]
            /\ access'[v] = IF v = new THEN q.access ELSE access[v]
            /\ pushed'[v] = IF v = new THEN q ELSE pushed[v]
      /\ management' = RowsOf(q.management)
      /\ DOMAIN pushed' = Version
  <2>1. new > current /\ pushed[new] = None
    BY <1>1 DEF StoreInv
  <2> QED
    BY <2>1 DEF Store, TypeOK, StoreInv
<1>3. /\ history' \in [Version -> Schema \cup {None}]
      /\ rules' \in [Version -> Rule \cup {NoRule}]
      /\ access' \in [Version -> SUBSET Policy]
      /\ management' \subseteq Row
  BY RequestParts DEF Store, TypeOK
<1>4. \A v \in 1 .. current : v \in Version /\ v # new
  BY <1>1 DEF Version, TypeOK
<1>5. StoreInv'
  <2>1. \A v \in Version : history'[v] = None <=> v > current'
    BY <1>1, <1>2, RequestParts DEF StoreInv, Version
  <2>2. \A v \in 1 .. current' :
            /\ pushed'[v] \in Request
            /\ rules'[v] = pushed'[v].provision
            /\ access'[v] = pushed'[v].access
    BY <1>1, <1>2, <1>4 DEF StoreInv
  <2>3. management' = RowsOf(pushed'[current'].management)
    BY <1>2
  <2>4. current' # 0
    BY <1>1, <1>2
  <2>5. \A v \in Version : v > current' => pushed'[v] = None
    BY <1>1, <1>2 DEF StoreInv, Version
  <2> QED
    BY <1>2, <2>1, <2>2, <2>3, <2>4, <2>5 DEF StoreInv
<1>6. current' \in 0 .. MaxVersion
  BY <1>1, <1>2 DEF Version
<1> QED
  BY <1>2, <1>3, <1>4, <1>5, <1>6 DEF TypeOK

\* Versions are added and stay, so that requests and pushes are as they were.
LEMMA OthersNext ==
    ASSUME RulesInv, current' \in Nat, current' >= current,
           \A v \in 1 .. current : pushed'[v] = pushed[v]
    PROVE  /\ \A u \in User : req'[u] = req[u] /\ req[u] # Idle =>
                  /\ req'[u].version \in 1 .. current'
                  /\ EvaluateProvision(pushed'[req'[u].version].provision, u) =
                         IF req'[u].pc = "denied" THEN "no" ELSE "yes"
           /\ \A p \in Pusher : push'[p] = push[p] /\ push[p] # Idle =>
                  push'[p].version \in 2 .. current' + 1
<1>1. current \in Nat
  BY DEF RulesInv, TypeOK
<1> QED
  BY <1>1 DEF RulesInv, JudgeInv, PushInv

\* createDefinition stores the first version.
LEMMA CreateKeepsRules ==
    ASSUME RulesInv, NEW q \in Request, NEW t \in Type, CreateDefinition(t, q)
    PROVE  RulesInv'
<1> USE DEF RulesInv
<1>1. current = 0 /\ type' = t /\ type' # None /\ Valid(t, q)
  BY RulesAssumption DEF CreateDefinition, StoreInv, Type
<1>2. Store(current + 1, q) /\ current + 1 \in Version
  BY <1>1, RulesAssumption DEF CreateDefinition, Version
<1>3. UNCHANGED <<push, req, databases, organizations>>
  BY DEF CreateDefinition
<1>4. StoreInv' /\ TypeOK'
  BY <1>1, <1>2, <1>3, StoreNext DEF TypeOK
<1>5. PushInv'
  BY <1>3 DEF PushInv, CreateDefinition
<1>6. JudgeInv'
  BY <1>1, <1>3 DEF JudgeInv
<1> QED
  BY <1>4, <1>5, <1>6

\* pushDefinition keeps what is stored.
LEMMA PushesKeepRules ==
    ASSUME RulesInv, NEW p \in Pusher,
           (\E q \in Request : PlanPush(p, q)) \/ CommitPush(p) \/ FailPush(p)
    PROVE  RulesInv'
<1> USE DEF RulesInv
<1>0. current \in Nat /\ MaxVersion \in Nat /\ None \notin Type
  BY RulesAssumption DEF TypeOK, Type
<1>1. ASSUME NEW q \in Request, PlanPush(p, q) PROVE RulesInv'
  <2>1. UNCHANGED <<definition, req, databases, organizations>>
    BY <1>1 DEF PlanPush
  <2>2. /\ push' = [push EXCEPT ![p] =
               [pc |-> "planned", version |-> current + 1, request |-> q]]
        /\ current + 1 \in Version /\ type # None /\ current # 0 /\ Valid(type, q)
    BY <1>0, <1>1 DEF PlanPush, Version, StoreInv
  <2>3. TypeOK'
    BY <2>1, <2>2 DEF TypeOK, definition
  <2>4. StoreInv' /\ JudgeInv'
    BY <2>1 DEF StoreInv, JudgeInv, definition
  <2>5. PushInv'
    BY <1>0, <2>1, <2>2 DEF PushInv, definition, TypeOK
  <2> QED
    BY <2>3, <2>4, <2>5
<1>2. CASE CommitPush(p)
  <2> DEFINE s == push[p]
  <2>1. s # Idle /\ s.pc = "planned"
    BY <1>2 DEF CommitPush, Idle
  <2>2. s.version \in Version /\ s.request \in Request
    BY <2>1 DEF TypeOK
  <2>3. s.version = current + 1
    BY <1>0, <1>2, <2>1, <2>2 DEF CommitPush, PushInv, StoreInv
  <2>4. Valid(type, s.request)
    BY <2>1 DEF PushInv
  <2>5. type' = type /\ type' # None /\ UNCHANGED <<req, databases, organizations>>
    BY <1>2, <2>1 DEF CommitPush, PushInv
  <2>6. Store(current + 1, s.request)
    BY <1>2, <2>3 DEF CommitPush
  <2>7. push' = [push EXCEPT ![p] = Idle]
    BY <1>2 DEF CommitPush
  <2>8. StoreInv' /\ TypeOK'
    BY <2>2, <2>3, <2>4, <2>5, <2>6, <2>7, StoreNext DEF TypeOK
  <2>9. current' = current + 1 /\ \A v \in 1 .. current : pushed'[v] = pushed[v]
    BY <2>2, <2>3, <2>4, <2>5, <2>6, StoreNext DEF Store
  <2>10. PushInv' /\ JudgeInv'
    BY <1>0, <2>5, <2>7, <2>9, OthersNext DEF PushInv, JudgeInv, TypeOK
  <2> QED
    BY <2>8, <2>10
<1>3. CASE FailPush(p)
  <2>1. UNCHANGED <<definition, req, databases, organizations>>
        /\ push' = [push EXCEPT ![p] = Idle]
    BY <1>3 DEF FailPush
  <2> QED
    BY <2>1 DEF TypeOK, StoreInv, PushInv, JudgeInv, definition
<1> QED
  BY <1>1, <1>2, <1>3

\* createUserDatabase and createOrganization read what is stored and leave it.
LEMMA UsersKeepRules ==
    ASSUME RulesInv, NEW u \in User,
           \/ JudgeUser(u) \/ BuildDatabase(u) \/ InsertDatabase(u) \/ EndRequest(u)
           \/ CreateOrganization(u)
    PROVE  RulesInv'
<1> USE DEF RulesInv
<1>1. UNCHANGED <<definition, push>>
  BY DEF JudgeUser, BuildDatabase, InsertDatabase, EndRequest, CreateOrganization
<1>2. StoreInv' /\ PushInv'
  BY <1>1 DEF StoreInv, PushInv, definition
<1>3. type # None => current \in Version /\ current \in 1 .. current
  BY RulesAssumption DEF TypeOK, StoreInv, Version
<1>4. CASE JudgeUser(u)
  <2>1. type # None /\ UNCHANGED <<databases, organizations>>
    BY <1>4, RulesAssumption DEF JudgeUser
  <2>2. PICK pc \in {"allowed", "denied"} :
            /\ EvaluateProvision(rules[current], u) = IF pc = "denied" THEN "no" ELSE "yes"
            /\ req' = [req EXCEPT ![u] = [pc |-> pc, version |-> current]]
    BY <1>4 DEF JudgeUser
  <2>3. TypeOK'
    BY <1>1, <1>3, <2>1, <2>2 DEF TypeOK, definition
  <2>4. JudgeInv'
    BY <1>1, <1>3, <2>1, <2>2 DEF JudgeInv, StoreInv, TypeOK, definition
  <2> QED
    BY <1>2, <2>3, <2>4
<1>5. CASE BuildDatabase(u)
  <2>1. req[u] # Idle /\ req[u].pc = "allowed" /\ req[u].version \in Version
    BY <1>5 DEF BuildDatabase, TypeOK, Idle
  <2>2. current \in Version
    BY <2>1, RulesAssumption DEF JudgeInv, TypeOK, Version
  <2>3. req' = [req EXCEPT ![u] =
            [pc |-> "building", version |-> req[u].version, built |-> current]]
        /\ UNCHANGED <<databases, organizations>>
    BY <1>5 DEF BuildDatabase
  <2>4. TypeOK'
    BY <1>1, <2>1, <2>2, <2>3 DEF TypeOK, definition
  <2>5. JudgeInv'
    BY <1>1, <2>1, <2>3 DEF JudgeInv, TypeOK, definition
  <2> QED
    BY <1>2, <2>4, <2>5
<1>6. CASE InsertDatabase(u)
  <2>1. req[u].built \in Version
    BY <1>6 DEF InsertDatabase, TypeOK, Idle
  <2>2. TypeOK' /\ JudgeInv'
    BY <1>1, <1>6, <2>1 DEF InsertDatabase, TypeOK, JudgeInv, Made, definition
  <2> QED
    BY <1>2, <2>2
<1>7. CASE EndRequest(u)
  BY <1>1, <1>2, <1>7 DEF EndRequest, TypeOK, JudgeInv, definition
<1>8. CASE CreateOrganization(u)
  <2>1. type # None
    BY <1>8, RulesAssumption DEF CreateOrganization
  <2> QED
    BY <1>1, <1>2, <1>3, <1>8, <2>1 DEF CreateOrganization, TypeOK, JudgeInv, Made, definition
<1> QED
  BY <1>4, <1>5, <1>6, <1>7, <1>8

\* What is stored, planned and judged stays consistent through every step.
LEMMA Rules == Spec => []RulesInv
<1>1. RulesInv /\ [Next]_vars => RulesInv'
  <2> SUFFICES ASSUME RulesInv, [Next]_vars PROVE RulesInv'
    OBVIOUS
  <2>1. CASE UNCHANGED vars
    BY <2>1 DEF vars, definition, RulesInv, TypeOK, StoreInv, PushInv, JudgeInv
  <2>2. CASE Next
    BY <2>2, CreateKeepsRules, PushesKeepRules, UsersKeepRules DEF Next
  <2> QED
    BY <2>1, <2>2
<1> QED
  BY InitRules, <1>1, PTL DEF Spec

\* Every variable keeps its type: no rule, policy or role is stored that the
\* definition's own schema and roles do not know.
THEOREM TypeCorrect == Spec => []TypeOK
<1>1. RulesInv => TypeOK
  BY DEF RulesInv
<1> QED
  BY Rules, <1>1, PTL

-----------------------------------------------------------------------------
(* What is read *)

\* Permissions that name somebody are read as they were authored.
LEMMA GrantsReadAsAuthored ==
    ASSUME ListsNameRoles, NEW grants \in Grants, NEW r \in Role, NEW target \in Role
    PROVE  ManagementAllows(RowsOf(grants), r, target) <=> GrantSays(grants[r], target)
<1> DEFINE p == grants[r]
           own == {row.targets : row \in {x \in RowsOf(grants) : x.role = r}}
<1>1. r \in DOMAIN grants /\ p.form \in {"no", "yes", "any", "list"}
  BY RulesAssumption
<1>2. own = IF p.form = "no" THEN {} ELSE {Parsed(p).roles}
  <2>1. \A s : Parsed(grants[s]).allowed <=> grants[s].form # "no"
    BY DEF Parsed
  <2>2. RowsOf(grants) =
            {[role |-> s, targets |-> Parsed(grants[s]).roles] :
                s \in {x \in Role : grants[x].form # "no"}}
    BY <2>1, RulesAssumption DEF RowsOf
  <2>3. CASE p.form = "no"
    <3>1. \A row \in RowsOf(grants) : row.role # r
      BY <2>2, <2>3
    <3> QED
      BY <2>3, <3>1
  <2>4. CASE p.form # "no"
    <3> DEFINE mine == [role |-> r, targets |-> Parsed(p).roles]
    <3>1. mine \in RowsOf(grants) /\ mine.role = r /\ mine.targets = Parsed(p).roles
      BY <2>2, <2>4
    <3>2. \A row \in RowsOf(grants) : row.role = r => row = mine
      BY <2>2
    <3> HIDE DEF mine
    <3> QED
      BY <2>4, <3>1, <3>2
  <2> QED
    BY <2>3, <2>4
<1>3. ManagementAllows(RowsOf(grants), r, target) <=> {} \in own \/ target \in UNION own
  BY DEF ManagementAllows, Loaded
<1>4. CASE p.form = "no"
  BY <1>2, <1>3, <1>4 DEF GrantSays
<1>5. CASE p.form \in {"yes", "any"}
  BY <1>2, <1>3, <1>5 DEF GrantSays, Parsed
<1>6. CASE p.form = "list"
  <2>1. p.roles # {}
    BY <1>6 DEF ListsNameRoles
  <2>2. own = {p.roles}
    BY <1>2, <1>6 DEF Parsed
  <2> QED
    BY <1>3, <1>6, <2>1, <2>2 DEF GrantSays
<1> QED
  BY <1>1, <1>4, <1>5, <1>6

\* pushDefinition and LoadManagementPolicies: members are managed by the
\* management of the current version, as it was authored, whichever of several
\* pushes made it; provided that no list of roles is empty.
THEOREM ManagementAsPushed ==
    ASSUME ListsNameRoles
    PROVE  Spec => []GrantsAsPushed
<1>1. RulesInv => GrantsAsPushed
  <2> SUFFICES ASSUME RulesInv, current # 0, NEW r \in Role, NEW t \in Role
               PROVE  ManagementAllows(management, r, t) <=>
                          GrantSays(pushed[current].management[r], t)
    BY DEF GrantsAsPushed
  <2>1. management = RowsOf(pushed[current].management)
        /\ pushed[current].management \in Grants
    BY DEF RulesInv, StoreInv, TypeOK, Request
  <2> QED
    BY <2>1, GrantsReadAsAuthored
<1> QED
  BY Rules, <1>1, PTL

\* LoadAccessPolicy: a database of any version finds the access policies that
\* were pushed with its version, and none of another push, be it one that raced for
\* that version.
THEOREM PoliciesAsPushed == Spec => []AccessAsPushed
<1>1. RulesInv => AccessAsPushed
  BY DEF RulesInv, StoreInv, AccessAsPushed, LoadAccessPolicy
<1> QED
  BY Rules, <1>1, PTL

-----------------------------------------------------------------------------
(* What provision rules decide *)

\* An evaluation, and what a rule says, depends on the parts of a rule only.
LEMMA OfItsParts ==
    ASSUME NEW c \in Condition, NEW u, NEW allow, NEW f, NEW g,
           \A d \in Parts(c) : f[d] = g[d]
    PROVE  /\ EvalWith(f, c, u) = EvalWith(g, c, u)
           /\ SaysWith(f, c, u, allow) = SaysWith(g, c, u, allow)
<1>1. CASE IsLeaf(c)
  BY <1>1 DEF EvalWith, SaysWith
<1>2. CASE ~IsLeaf(c) /\ IsAnd(c)
  <2>1. \A i \in DOMAIN c.all : c.all[i] \in Parts(c)
    BY <1>2 DEF Parts, Range
  <2>2. [i \in DOMAIN c.all |-> f[c.all[i]]] = [i \in DOMAIN c.all |-> g[c.all[i]]]
    BY <2>1
  <2>3. {f[d] : d \in Range(c.all)} = {g[d] : d \in Range(c.all)}
    BY <1>2 DEF Parts
  <2> QED
    BY <1>2, <2>2, <2>3 DEF EvalWith, SaysWith
<1>3. CASE ~IsLeaf(c) /\ ~IsAnd(c) /\ IsOr(c)
  <2>1. \A i \in DOMAIN c.any : c.any[i] \in Parts(c)
    BY <1>3 DEF Parts, Range
  <2>2. [i \in DOMAIN c.any |-> f[c.any[i]]] = [i \in DOMAIN c.any |-> g[c.any[i]]]
    BY <2>1
  <2>3. {f[d] : d \in Range(c.any)} = {g[d] : d \in Range(c.any)}
    BY <1>3 DEF Parts
  <2> QED
    BY <1>3, <2>2, <2>3 DEF EvalWith, SaysWith
<1>4. CASE ~IsLeaf(c) /\ ~IsAnd(c) /\ ~IsOr(c)
  BY <1>4 DEF EvalWith, SaysWith, Parts
<1> QED
  BY <1>1, <1>2, <1>3, <1>4

\* conditions of less than some depth
Below(n) == {c \in Condition : Depth[c] < n}

\* Ranks of nesting: the parts of a condition are below the rank it is below.
LEMMA BelowGrows ==
    /\ Below(0) = {} /\ Below(MaxDepth + 1) = Condition
    /\ \A n \in 1..(MaxDepth + 1) : \A c \in Below(n) : \A d \in Parts(c) :
           d \in Below(n - 1) /\ d \in Below(n)
<1>1. \A c \in Condition : Depth[c] \in 0..MaxDepth
  BY RulesAssumption
<1>2. \A c \in Condition : \A d \in Parts(c) : d \in Condition /\ Depth[d] < Depth[c]
  BY RulesAssumption
<1>3. MaxDepth \in Nat
  BY DEF MaxDepth
<1>4. Below(0) = {} /\ Below(MaxDepth + 1) = Condition
  BY <1>1, <1>3 DEF Below
<1>5. ASSUME NEW n \in 1..(MaxDepth + 1), NEW c \in Below(n), NEW d \in Parts(c)
      PROVE  d \in Below(n - 1) /\ d \in Below(n)
  <2>1. /\ d \in Condition /\ Depth[d] < Depth[c] /\ Depth[c] < n
        /\ Depth[d] \in Nat /\ Depth[c] \in Nat /\ n \in Nat
    BY <1>1, <1>2, <1>3, <1>5 DEF Below
  <2> QED
    BY <2>1 DEF Below
<1> QED
  BY <1>4, <1>5

Evaluated(f, u, n) == f = [c \in Below(n) |-> EvalWith(f, c, u)]

\* The evaluation's recursion has an answer for every condition ...
LEMMA EvaluationIs ==
    ASSUME NEW u
    PROVE  \A c \in Condition : EvalCondition(u)[c] = EvalWith(EvalCondition(u), c, u)
<1> DEFINE Good == {n \in 0..(MaxDepth + 1) : \E f : Evaluated(f, u, n)}
<1>1. 0 \in Good
  <2>1. PICK f : f = [c \in Below(0) |-> EvalWith(None, c, u)]
    OBVIOUS
  <2>2. Evaluated(f, u, 0)
    BY <2>1, BelowGrows DEF Evaluated
  <2> QED
    BY <2>2 DEF MaxDepth
<1>2. ASSUME NEW n \in (0 + 1)..(MaxDepth + 1), n - 1 \in Good PROVE n \in Good
  <2>1. PICK f : Evaluated(f, u, n - 1)
    BY <1>2
  <2>2. PICK g : g = [c \in Below(n) |-> EvalWith(f, c, u)]
    OBVIOUS
  <2>3. ASSUME NEW c \in Below(n) PROVE EvalWith(f, c, u) = EvalWith(g, c, u)
    <3>1. ASSUME NEW d \in Parts(c) PROVE f[d] = g[d]
      BY <2>1, <2>2, BelowGrows DEF Evaluated
    <3>2. c \in Condition
      BY DEF Below
    <3> QED
      BY <3>1, <3>2, OfItsParts
  <2>4. Evaluated(g, u, n)
    BY <2>2, <2>3 DEF Evaluated
  <2> QED
    BY <2>4 DEF MaxDepth
<1> HIDE DEF Good
<1>3. MaxDepth + 1 \in 0..(MaxDepth + 1) /\ MaxDepth + 1 \in Nat
  BY DEF MaxDepth
<1>4. MaxDepth + 1 \in Good
  BY <1>1, <1>2, <1>3, RangeInduction
<1>5. EvalCondition(u) = CHOOSE f : Evaluated(f, u, MaxDepth + 1)
  BY BelowGrows DEF EvalCondition, Evaluated
<1>6. Evaluated(EvalCondition(u), u, MaxDepth + 1)
  BY <1>4, <1>5, Zenon DEF Good
<1>7. PICK f : f = EvalCondition(u)
  OBVIOUS
<1>8. f = [c \in Condition |-> EvalWith(f, c, u)]
  BY <1>6, <1>7, BelowGrows DEF Evaluated
<1>9. \A c \in Condition : f[c] = EvalWith(f, c, u)
  BY <1>8
<1> QED
  BY <1>7, <1>9

SaidBy(f, u, allow, n) == f = [c \in Below(n) |-> SaysWith(f, c, u, allow)]

\* ... and so has the recursion of what conditions say.
LEMMA SayingIs ==
    ASSUME NEW u, NEW allow
    PROVE  \A c \in Condition : Says(u, allow)[c] = SaysWith(Says(u, allow), c, u, allow)
<1> DEFINE Good == {n \in 0..(MaxDepth + 1) : \E f : SaidBy(f, u, allow, n)}
<1>1. 0 \in Good
  <2>1. PICK f : f = [c \in Below(0) |-> SaysWith(None, c, u, allow)]
    OBVIOUS
  <2>2. SaidBy(f, u, allow, 0)
    BY <2>1, BelowGrows DEF SaidBy
  <2> QED
    BY <2>2 DEF MaxDepth
<1>2. ASSUME NEW n \in (0 + 1)..(MaxDepth + 1), n - 1 \in Good PROVE n \in Good
  <2>1. PICK f : SaidBy(f, u, allow, n - 1)
    BY <1>2
  <2>2. PICK g : g = [c \in Below(n) |-> SaysWith(f, c, u, allow)]
    OBVIOUS
  <2>3. ASSUME NEW c \in Below(n) PROVE SaysWith(f, c, u, allow) = SaysWith(g, c, u, allow)
    <3>1. ASSUME NEW d \in Parts(c) PROVE f[d] = g[d]
      BY <2>1, <2>2, BelowGrows DEF SaidBy
    <3>2. c \in Condition
      BY DEF Below
    <3> QED
      BY <3>1, <3>2, OfItsParts
  <2>4. SaidBy(g, u, allow, n)
    BY <2>2, <2>3 DEF SaidBy
  <2> QED
    BY <2>4 DEF MaxDepth
<1> HIDE DEF Good
<1>3. MaxDepth + 1 \in 0..(MaxDepth + 1) /\ MaxDepth + 1 \in Nat
  BY DEF MaxDepth
<1>4. MaxDepth + 1 \in Good
  BY <1>1, <1>2, <1>3, RangeInduction
<1>5. Says(u, allow) = CHOOSE f : SaidBy(f, u, allow, MaxDepth + 1)
  BY BelowGrows DEF Says, SaidBy
<1>6. SaidBy(Says(u, allow), u, allow, MaxDepth + 1)
  BY <1>4, <1>5, Zenon DEF Good
<1>7. PICK f : f = Says(u, allow)
  OBVIOUS
<1>8. f = [c \in Condition |-> SaysWith(f, c, u, allow)]
  BY <1>6, <1>7, BelowGrows DEF SaidBy
<1>9. \A c \in Condition : f[c] = SaysWith(f, c, u, allow)
  BY <1>8
<1> QED
  BY <1>7, <1>9

\* Parts evaluated in turn: with the answer that decides only if some part gives it,
\* and with the other only if every part gives that.
LEMMA FirstDecides ==
    ASSUME NEW n \in Nat, NEW answers, DOMAIN answers = 1..n,
           NEW deciding, NEW otherwise, deciding # otherwise,
           "error" \notin {deciding, otherwise},
           \A i \in 1..n : answers[i] \in {deciding, otherwise, "error"}
    PROVE  LET first == First(answers, deciding, otherwise) IN
           /\ first \in {deciding, otherwise, "error"}
           /\ first = deciding => \E i \in 1..n : answers[i] = deciding
           /\ first = otherwise => \A i \in 1..n : answers[i] = otherwise
<1> DEFINE ends == {i \in 1..n : answers[i] \in {deciding, "error"}}
           least == CHOOSE i \in ends : \A j \in ends : i <= j
<1>1. First(answers, deciding, otherwise) = IF ends = {} THEN otherwise ELSE answers[least]
  BY DEF First
<1>2. CASE ends = {}
  BY <1>1, <1>2
<1>3. CASE ends # {}
  <2>1. ends \subseteq Nat
    OBVIOUS
  <2>2. \E i \in ends : \A j \in ends : i <= j
    BY <1>3, <2>1, LeastNumber
  <2>3. least \in ends
    BY <2>2, Zenon
  <2> HIDE DEF least
  <2> QED
    BY <1>1, <1>3, <2>3
<1> QED
  BY <1>2, <1>3

Agrees(answer, says) ==
    /\ answer \in {"yes", "no", "error"}
    /\ answer = "yes" => says = "true"
    /\ answer = "no" => says = "false"

\* A condition decides as it is meant when its parts do.
LEMMA PartsAgree ==
    ASSUME NEW c \in Condition, NEW u, NEW eval, NEW says,
           \A d \in Parts(c) : Agrees(eval[d], says[d])
    PROVE  Agrees(EvalWith(eval, c, u), SaysWith(says, c, u, FALSE))
<1>1. CASE IsLeaf(c)
  <2>1. EvalLeaf(c, u) \in {"yes", "no", "error"}
    BY DEF EvalLeaf, Verdict
  <2> QED
    BY <1>1, <2>1 DEF EvalWith, SaysWith, SaysLeaf, Agrees, Truth
<1>2. CASE ~IsLeaf(c) /\ IsAnd(c)
  <2>1. PICK n \in Nat : DOMAIN c.all = 1..n
    BY <1>2, RulesAssumption
  <2>2. PICK answers : answers = [i \in 1..n |-> eval[c.all[i]]]
    OBVIOUS
  <2>3. \A i \in 1..n : Agrees(answers[i], says[c.all[i]])
    BY <1>2, <2>1, <2>2 DEF Parts, Range
  <2>4. \A i \in 1..n : answers[i] \in {"no", "yes", "error"}
    BY <2>3 DEF Agrees
  <2>5. PICK first : first = First(answers, "no", "yes")
    OBVIOUS
  <2>6. /\ first \in {"no", "yes", "error"}
        /\ first = "no" => \E i \in 1..n : answers[i] = "no"
        /\ first = "yes" => \A i \in 1..n : answers[i] = "yes"
    BY <2>2, <2>4, <2>5, FirstDecides
  <2>7. PICK said : said = {says[d] : d \in Range(c.all)}
    OBVIOUS
  <2>8. first = "no" => "false" \in said
    BY <2>1, <2>3, <2>6, <2>7 DEF Agrees, Range
  <2>9. first = "yes" => \A v \in said : v = "true"
    BY <2>1, <2>3, <2>6, <2>7 DEF Agrees, Range
  <2>10. Agrees(first, AllOf(said))
    BY <2>6, <2>8, <2>9 DEF Agrees, AllOf
  <2> QED
    BY <1>2, <2>1, <2>2, <2>5, <2>7, <2>10 DEF EvalWith, SaysWith
<1>3. CASE ~IsLeaf(c) /\ ~IsAnd(c) /\ IsOr(c)
  <2>1. PICK n \in Nat : DOMAIN c.any = 1..n
    BY <1>3, RulesAssumption
  <2>2. PICK answers : answers = [i \in 1..n |-> eval[c.any[i]]]
    OBVIOUS
  <2>3. \A i \in 1..n : Agrees(answers[i], says[c.any[i]])
    BY <1>3, <2>1, <2>2 DEF Parts, Range
  <2>4. \A i \in 1..n : answers[i] \in {"yes", "no", "error"}
    BY <2>3 DEF Agrees
  <2>5. PICK first : first = First(answers, "yes", "no")
    OBVIOUS
  <2>6. /\ first \in {"yes", "no", "error"}
        /\ first = "yes" => \E i \in 1..n : answers[i] = "yes"
        /\ first = "no" => \A i \in 1..n : answers[i] = "no"
    BY <2>2, <2>4, <2>5, FirstDecides
  <2>7. PICK said : said = {says[d] : d \in Range(c.any)}
    OBVIOUS
  <2>8. first = "yes" => "true" \in said
    BY <2>1, <2>3, <2>6, <2>7 DEF Agrees, Range
  <2>9. first = "no" => \A v \in said : v = "false"
    BY <2>1, <2>3, <2>6, <2>7 DEF Agrees, Range
  <2>10. Agrees(first, AnyOf(said))
    BY <2>6, <2>8, <2>9 DEF Agrees, AnyOf
  <2> QED
    BY <1>3, <2>1, <2>2, <2>5, <2>7, <2>10 DEF EvalWith, SaysWith
<1>4. CASE ~IsLeaf(c) /\ ~IsAnd(c) /\ ~IsOr(c)
  BY <1>4 DEF EvalWith, SaysWith, Parts, Agrees, Negated, Verdict, Opposite, Truth
<1> QED
  BY <1>1, <1>2, <1>3, <1>4

\* EvaluateProvision: what the evaluation decides of a user is what the rule says of
\* him, however deeply it is nested; an error decides nothing, and allow() admits nobody.
THEOREM RulesDecideAsMeant == DecidesAsMeant
<1>1. ASSUME NEW u \in User, NEW c \in Condition
      PROVE  Agrees(EvalCondition(u)[c], Says(u, FALSE)[c])
  <2>1. PICK eval : eval = EvalCondition(u)
    OBVIOUS
  <2>2. PICK says : says = Says(u, FALSE)
    OBVIOUS
  <2>3. PICK Good : Good = {d \in Condition : Agrees(eval[d], says[d])}
    OBVIOUS
  <2>4. PICK parts : parts = [d \in Condition |-> Parts(d)]
    OBVIOUS
  <2>5. \A d \in Condition : Depth[d] \in Nat
    BY RulesAssumption
  <2>6. \A d \in Condition : \A e \in parts[d] : e \in Condition /\ Depth[e] < Depth[d]
    BY <2>4, RulesAssumption
  <2>7. ASSUME NEW d \in Condition, parts[d] \subseteq Good PROVE d \in Good
    <3>1. \A e \in Parts(d) : Agrees(eval[e], says[e])
      BY <2>3, <2>4, <2>7
    <3>2. Agrees(EvalWith(eval, d, u), SaysWith(says, d, u, FALSE))
      BY <3>1, PartsAgree
    <3> QED
      BY <2>1, <2>2, <2>3, <3>2, EvaluationIs, SayingIs
  <2>8. Condition \subseteq Good
    BY <2>5, <2>6, <2>7, PartsInduction
  <2> QED
    BY <2>1, <2>2, <2>3, <2>8
<1>2. SUFFICES ASSUME NEW rule \in Rule \cup {NoRule}, NEW u \in User
               PROVE  /\ EvaluateProvision(rule, u) = "yes" => Admits(rule, u)
                      /\ EvaluateProvision(rule, u) = "no" => ~Admits(rule, u)
  BY DEF DecidesAsMeant
<1>3. CASE rule = NoRule
  BY <1>3 DEF EvaluateProvision, Admits
<1>4. CASE rule # NoRule /\ IsZero(rule)
  <2>1. rule \in Condition
    BY <1>4, RulesAssumption
  <2>2. PICK says : says = Says(u, FALSE)
    OBVIOUS
  <2>3. says[rule] = "false"
    BY <1>4, <2>1, <2>2, SayingIs DEF SaysWith, IsZero, Truth
  <2> QED
    BY <1>4, <2>2, <2>3 DEF EvaluateProvision, Admits
<1>5. CASE rule # NoRule /\ ~IsZero(rule)
  <2>1. rule \in Condition
    BY <1>5, RulesAssumption
  <2>2. Agrees(EvalCondition(u)[rule], Says(u, FALSE)[rule])
    BY <1>1, <2>1
  <2> QED
    BY <1>5, <2>2 DEF EvaluateProvision, Admits, Agrees
<1> QED
  BY <1>3, <1>4, <1>5

\* createUserDatabase: whoever gets past the provision rule of a version, or is
\* denied by it, does so by what that rule says, whatever is pushed meanwhile.
THEOREM UsersJudged == Spec => []JudgedByPublishedRule
<1>1. RulesInv => JudgedByPublishedRule
  <2> SUFFICES ASSUME RulesInv, NEW u \in User, req[u] # Idle
               PROVE  (req[u].pc # "denied") =
                          Admits(pushed[req[u].version].provision, u)
    BY DEF JudgedByPublishedRule
  <2> DEFINE rule == pushed[req[u].version].provision
  <2>1. /\ EvaluateProvision(rule, u) = IF req[u].pc = "denied" THEN "no" ELSE "yes"
        /\ rule \in Rule \cup {NoRule}
    BY DEF RulesInv, JudgeInv, StoreInv, Request
  <2>2. req[u].pc # "denied" <=> Admits(rule, u)
    BY <2>1, RulesDecideAsMeant DEF DecidesAsMeant
  <2>3. Admits(rule, u) \in BOOLEAN
    BY DEF Admits
  <2> QED
    BY <2>2, <2>3
<1> QED
  BY Rules, <1>1, PTL

=============================================================================
