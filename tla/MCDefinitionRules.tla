--------------------------- MODULE MCDefinitionRules ---------------------------
(* Instances of DefinitionRules for TLC: the rules and the permissions that the
   authors of definitions write with the helpers of @atombase/definitions. *)
EXTENDS DefinitionRules, TLC

CONSTANTS ann, bob, mail, other, owner, member, stranger, s1, s2, t1, t2

MCAddress == (ann :> mail) @@ (bob :> other)

Eq(field, value) == [field |-> field, op |-> "eq", from |-> "literal", value |-> value]
Ne(field, ref) == [field |-> field, op |-> "ne", from |-> "auth", value |-> ref]
InList(field, values) == [field |-> field, op |-> "in", list |-> values]
In(field, value) == [field |-> field, op |-> "in", from |-> "literal", value |-> value]
Or(c, d) == [any |-> <<c, d>>]
Not(c) == [but |-> c]
Allow == [zero |-> TRUE]

Broken == In("email", mail)
Verified == Eq("verified", "true")

\* no session, or an id that is not the address; and verified, but not bob
Somebody == Or(Eq("status", "anonymous"), Ne("id", "email"))
Guests == [all |-> <<Somebody, Verified, Not(Eq("id", bob))>>]
\* one of a list, or what the server cannot evaluate
Listed == Or(InList("email", {mail}), Broken)
\* not what the server cannot evaluate
Unlisted == Not(Broken)
MCRule == {Guests, Listed, Unlisted, Allow}
MCCondition ==
    MCRule \cup Range(Guests.all) \cup UNION {Range(c.any) : c \in {Listed, Somebody}}
    \cup {Eq("id", bob)}
\* three levels at most
MCDepth == [c \in MCCondition |-> IF c = Guests THEN 2 ELSE IF Parts(c) = {} THEN 0 ELSE 1]

No == [form |-> "no", roles |-> {}]
Yes == [form |-> "yes", roles |-> {}]
Everyone == [form |-> "any", roles |-> {}]
List(roles) == [form |-> "list", roles |-> roles]

Omitted == [r \in Role |-> No]
OwnerOnly == [r \in Role |-> IF r = owner THEN Everyone ELSE No]
Delegated == [r \in Role |-> IF r = owner THEN Yes ELSE List({member})]

\* a target that is no role of the definition
Misspelt == [r \in Role |-> IF r = owner THEN Yes ELSE List({stranger})]

MCGrants == {Omitted, OwnerOnly, Delegated, Misspelt}
\* a role that may manage none
NoneListed == [r \in Role |-> IF r = owner THEN Everyone ELSE List({})]
MCGrantsEmptyList == MCGrants \cup {NoneListed}

MCTables == (s1 :> {t1}) @@ (s2 :> {t1, t2})

Allowed(table, operation, uses) ==
    [table |-> table, operation |-> operation, uses |-> uses]
Written == {Allowed(t1, "select", {}), Allowed(t1, "update", {"old", "new"})}
ByRole == {Allowed(t1, "select", {"auth.role"}), Allowed(t2, "insert", {"new"})}
\* what a row was before it was inserted
Misplaced == {Allowed(t1, "insert", {"old"})}

MCAccess == {Written, ByRole, Misplaced}

Symmetry == Permutations(Pusher)
=============================================================================
