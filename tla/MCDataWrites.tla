---------------------------- MODULE MCDataWrites ----------------------------
(* Instances of DataWrites for TLC. *)
EXTENDS DataWrites, TLC

CONSTANTS ann, bob, admin, k1, k2

Is(field, op, value) == [field |-> field, op |-> op, value |-> value]
And(a, b) == [all |-> <<a, b>>]
Or(a, b) == [any |-> <<a, b>>]
Neg(a) == [not |-> a]

OwnNew == Is("new.owner", "eq", "auth.id")
OwnOld == Is("old.owner", "eq", "auth.id")
FreeNew == Is("new.owner", "is", Null)
FreeOld == Is("old.owner", "is", Null)
OthersOld == Is("old.owner", "is_not", "auth.id")
Admin == Is("auth.role", "eq", admin)
IsAdmin == Is("auth.role", "is", admin)
Member == Is("auth.status", "eq", "member")
Session == Is("auth.status", "eq", "authenticated")
Ann == Is("auth.id", "eq", ann)

Set3(i, u, d) == [insert |-> i, update |-> u, delete |-> d]
MCPolicies == {
    Set3(OwnNew, OwnOld, NoPolicy),
    Set3(Or(Admin, OwnNew), And(Member, Neg(OwnOld)), IsAdmin),
    Set3(Neg(OwnNew), Or(Neg(OwnNew), Admin), And(Session, FreeOld)),
    Set3(Or(Session, OwnNew), Or(OwnNew, FreeOld), OthersOld),
    Set3(And(Member, Neg(FreeNew)), Unconditional, Or(Neg(Session), And(Ann, FreeOld)))}

WithParts(set) == set \cup UNION {Parts(c) : c \in set}
MCCondition ==
    WithParts(WithParts(UNION {Range(p) : p \in MCPolicies} \ {NoPolicy, Unconditional}))
MCDepth[c \in MCCondition] ==
    IF \A d \in Parts(c) : Parts(d) = {} THEN IF Parts(c) = {} THEN 0 ELSE 1 ELSE 2

One(kind, k, v) == [kind |-> kind, rows |-> k :> v]
Two(kind, v, w) == [kind |-> kind, rows |-> k1 :> v @@ k2 :> w]

MCOperation == {
    One("upsert", k1, ann), One("update", k1, bob), One("update", k1, Unset),
    Two("insert", ann, Null), Two("ignore", ann, bob), Two("delete", Unset, Unset)}
MCBatch == {
    <<Two("upsert", ann, bob), One("update", k1, bob)>>,
    <<Two("delete", Unset, Unset), Two("insert", bob, Null)>>}

\* a few that meet each other, for the temporal properties
FewOperations == {Two("insert", ann, ann), One("update", k1, bob)}
FewBatches == {
    <<Two("upsert", ann, ann), One("update", k1, bob)>>,
    <<Two("delete", Unset, Unset), One("insert", k1, ann)>>}
FewPolicies == {Set3(Or(Admin, OwnNew), OwnOld, Session)}

Symmetry == Permutations(Request)
=============================================================================
