----------------------------- MODULE SerialWrites -----------------------------
(***************************************************************************)
(* What clients may rely on when they write: every operation, and every    *)
(* batch of operations, takes effect at one instant, under what its        *)
(* policies say of the rows and memberships that are committed then.       *)
(*                                                                         *)
(* An abstract specification: DataWrites implements it with statements,    *)
(* deferred transactions and a lock.                                       *)
(***************************************************************************)
EXTENDS AccessPolicy

CONSTANTS Key, Client, Absent, Operation, Batch, Policies

VARIABLES policies, rows, roles

RoleIn(p) == IF p \in User THEN roles[p] ELSE Nobody

SaysInsert(p, v) ==
    Permits(policies.insert, [id |-> p, alias |-> TRUE, new |-> Unset],
            [old |-> Null, new |-> v, role |-> RoleIn(p)])
SaysUpdate(p, old, v) ==
    Permits(policies.update, [id |-> p, alias |-> FALSE, new |-> v],
            [old |-> old, new |-> Null, role |-> RoleIn(p)])
SaysDelete(p, old) ==
    Permits(policies.delete, [id |-> p, alias |-> FALSE, new |-> Unset],
            [old |-> old, new |-> Null, role |-> RoleIn(p)])

\* the keys of the operation whose rows it touches, of the rows before
Touched(p, op, before) ==
    {k \in DOMAIN op.rows :
        CASE op.kind \in {"insert", "upsert"} -> SaysInsert(p, op.rows[k]) = "true"
          [] op.kind = "ignore" -> before[k] = Absent /\ SaysInsert(p, op.rows[k]) = "true"
          [] op.kind = "update" ->
                before[k] # Absent /\ SaysUpdate(p, before[k], op.rows[k]) = "true"
          [] op.kind = "delete" -> before[k] # Absent /\ SaysDelete(p, before[k]) = "true"}

Effect(p, op, before) ==
    [k \in Key |->
        IF k \notin Touched(p, op, before) THEN before[k]
        ELSE IF op.kind = "delete" THEN Absent
        ELSE IF op.rows[k] = Unset THEN before[k] ELSE op.rows[k]]

KeysFree(p, op, before) ==
    op.kind = "insert" => \A k \in Touched(p, op, before) : before[k] = Absent

\* no row that is to be written is forbidden, nor one that is to be replaced
Authorized(p, op, before) ==
    /\ op.kind \in {"insert", "upsert"} =>
          \A k \in DOMAIN op.rows : SaysInsert(p, op.rows[k]) # "false"
    /\ op.kind = "upsert" =>
          \A k \in DOMAIN op.rows :
              before[k] # Absent => SaysUpdate(p, before[k], op.rows[k]) = "true"

-----------------------------------------------------------------------------
Init ==
    /\ policies \in Policies
    /\ rows = [k \in Key |-> Absent]
    /\ roles = [u \in User |-> Nobody]

\* memberships may change between the check of an insert and the insert, so that
\* rows forbidden by now are left out; an upsert outside a batch replaces a row
\* under the insert policy alone
Single(p, op) ==
    /\ KeysFree(p, op, rows)
    /\ rows' = Effect(p, op, rows)

\* the whole batch, each operation on what the ones before it left
AfterEach(p, ops) ==
    LET after[i \in 0..Len(ops)] ==
            IF i = 0 THEN rows ELSE Effect(p, ops[i], after[i - 1])
    IN  after
Whole(p, ops) ==
    LET after == AfterEach(p, ops)
    IN  /\ \A i \in 1..Len(ops) :
              KeysFree(p, ops[i], after[i - 1]) /\ Authorized(p, ops[i], after[i - 1])
        /\ rows' = after[Len(ops)]

Change ==
    /\ rows' # rows
    /\ \E p \in Client :
          \/ \E op \in Operation : Single(p, op)
          \/ \E ops \in Batch : Whole(p, ops)
    /\ UNCHANGED <<policies, roles>>

ChangeMember ==
    /\ \E u \in User, role \in Role \cup {Nobody} : roles' = [roles EXCEPT ![u] = role]
    /\ UNCHANGED <<policies, rows>>

Next == Change \/ ChangeMember

Spec == Init /\ [][Next]_<<policies, rows, roles>>
=============================================================================
