----------------------------- MODULE DataWrites -----------------------------
(***************************************************************************)
(* The writing operations of the data API on one organization's database   *)
(* (data/queries.go), alone or in a batch (data/batch.go), each under its  *)
(* access policy, while memberships of the same database change.           *)
(*                                                                         *)
(* An operation alone runs its statements one by one, and a batch runs all *)
(* of its operations in one transaction.  SQLite's transactions begin      *)
(* deferred: the first statement takes a snapshot, the first write takes   *)
(* the write lock, and fails for good when the snapshot is not the latest. *)
(***************************************************************************)
EXTENDS AccessPolicy, FiniteSets

CONSTANTS
    Key,         \* primary keys
    Request,     \* slots of requests at work together
    Client,      \* principals that send requests
    Absent,      \* no row under a key
    NoRequest,
    Operation,   \* operations that requests ask for: kind and rows
    Batch,       \* sequences of operations of batch requests
    Policies     \* policies of a definition: by insert, update and delete

Kinds == {"insert", "ignore", "upsert", "update", "delete"}
Inserting == {"insert", "ignore", "upsert"}

(* The rows of an operation: for each key the owner that is written. *)
IsOperation(op) ==
    /\ DOMAIN op = {"kind", "rows"} /\ op.kind \in Kinds
    /\ DOMAIN op.rows # {} /\ DOMAIN op.rows \subseteq Key
    /\ op.kind \in Inserting => Range(op.rows) \subseteq Owner
    /\ op.kind = "update" => \E v \in Owner \cup {Unset} : Range(op.rows) = {v}
    /\ op.kind = "delete" => Range(op.rows) = {Unset}

ASSUME WritesAssumption ==
    /\ Client \subseteq Principal
    /\ Absent \notin Owner \cup {Unset} /\ NoRequest \notin Request
    /\ \A op \in Operation : IsOperation(op)
    /\ \A b \in Batch :
        /\ b # <<>> /\ b \in Seq(Range(b))
        /\ \A i \in DOMAIN b : IsOperation(b[i]) /\ b[i].kind # "ignore"
    /\ \A p \in Policies :
        /\ DOMAIN p = {"insert", "update", "delete"}
        /\ Range(p) \subseteq Condition \cup {NoPolicy, Unconditional}

VARIABLES
    policies,  \* of the definition version the database has
    rows,      \* committed rows
    roles,     \* committed memberships
    req,       \* what each handler holds
    tx,        \* its transaction
    lock       \* the request that holds the write lock

vars == <<policies, rows, roles, req, tx, lock>>

(* pc: next operation, conflicts and conflict (upsert), write, commit.
   left: rows of an upsert that were not looked up. *)
Handler(pc, by, ops) == [pc |-> pc, by |-> by, ops |-> ops, left |-> {}, key |-> Absent]
Idle == Handler("idle", Service, <<>>)
Refused == Handler("refused", Service, <<>>)
Pc == {"idle", "refused", "next", "conflicts", "conflict", "write", "commit"}

(* A transaction is new before its first statement; stale once somebody else
   committed after its snapshot. *)
NoRows == [k \in Key |-> Absent]
NoRoles == [u \in User |-> Nobody]
NoTx == [state |-> "none", rows |-> NoRows, roles |-> NoRoles]
NewTx == [state |-> "new", rows |-> NoRows, roles |-> NoRoles]
Reading == {"reading", "stale", "writing"}
-----------------------------------------------------------------------------
(* What a statement of a request sees, and the policy it runs under. *)

Rows(r) == IF tx[r].state \in Reading THEN tx[r].rows ELSE rows
Roles(r) == IF tx[r].state \in Reading THEN tx[r].roles ELSE roles
RoleOf(r) == IF req[r].by \in User THEN Roles(r)[req[r].by] ELSE Nobody

Op(r) == Head(req[r].ops)

InsertInput(r) == [id |-> req[r].by, alias |-> TRUE, new |-> Unset]
UpdateInput(r, v) == [id |-> req[r].by, alias |-> FALSE, new |-> v]
InsertPolicy(r) == Compile(policies.insert, InsertInput(r))
UpdatePolicy(r, v) == Compile(policies.update, UpdateInput(r, v))
DeletePolicy(r) == Compile(policies.delete, UpdateInput(r, Unset))

InsertEnv(r, v) == [old |-> Null, new |-> v, role |-> RoleOf(r)]
StoredEnv(r, k) == [old |-> Rows(r)[k], new |-> Null, role |-> RoleOf(r)]

(* Rows of the statement for which its WHERE is true. *)
Insertable(r) ==
    {k \in DOMAIN Op(r).rows : InsertPolicy(r).where[InsertEnv(r, Op(r).rows[k])] = "true"}
Updatable(r) ==
    {k \in DOMAIN Op(r).rows : /\ Rows(r)[k] # Absent
                               /\ UpdatePolicy(r, Op(r).rows[k]).where[StoredEnv(r, k)] = "true"}
Deletable(r) ==
    {k \in DOMAIN Op(r).rows : /\ Rows(r)[k] # Absent
                               /\ DeletePolicy(r).where[StoredEnv(r, k)] = "true"}
-----------------------------------------------------------------------------
Init ==
    /\ policies \in Policies
    /\ rows = NoRows
    /\ roles = NoRoles
    /\ req = [r \in Request |-> Idle]
    /\ tx = [r \in Request |-> NoTx]
    /\ lock = NoRequest

Goto(r, pc) == req' = [req EXCEPT ![r].pc = pc]

(* Mutant: the transaction is left open. *)
EndWithoutRollback(r, how) ==
    /\ req' = [req EXCEPT ![r] = how]
    /\ UNCHANGED <<policies, rows, roles, tx, lock>>

(* The end of a request, whose transaction is rolled back if there is one. *)
End(r, how) ==
    /\ req' = [req EXCEPT ![r] = how]
    /\ tx' = [tx EXCEPT ![r] = NoTx]
    /\ lock' = IF lock = r THEN NoRequest ELSE lock
    /\ UNCHANGED <<policies, rows, roles>>
Refuse(r) == End(r, Refused)

(* A committed change makes the snapshots of the others stale. *)
Stale(r) ==
    [s \in Request |->
        IF s # r /\ tx[s].state = "reading" THEN [tx[s] EXCEPT !.state = "stale"] ELSE tx[s]]

(* A statement that reads: the first one of a transaction takes the snapshot. *)
Read(r) ==
    /\ tx' = IF tx[r].state # "new" THEN tx
             ELSE [tx EXCEPT ![r] = [state |-> "reading", rows |-> rows, roles |-> roles]]
    /\ UNCHANGED <<policies, rows, roles, lock>>

StartOperation(r, p, op) ==
    /\ req[r].pc \in {"idle", "refused"}
    /\ req' = [req EXCEPT ![r] = Handler("next", p, <<op>>)]
    /\ UNCHANGED <<policies, rows, roles, tx, lock>>

(* BeginTx; a batch of more than MaxBatchOperations is not begun. *)
StartBatch(r, p, ops) ==
    /\ req[r].pc \in {"idle", "refused"}
    /\ req' = [req EXCEPT ![r] = Handler("next", p, ops)]
    /\ tx' = [tx EXCEPT ![r] = NewTx]
    /\ UNCHANGED <<policies, rows, roles, lock>>

(* The policy cannot be satisfied, whatever is stored. *)
RefusedAtOnce(r) ==
    CASE Op(r).kind \in Inserting -> ~InsertPolicy(r).allowed
      [] Op(r).kind = "update" ->
            \E k \in DOMAIN Op(r).rows : ~UpdatePolicy(r, Op(r).rows[k]).allowed
      [] Op(r).kind = "delete" -> ~DeletePolicy(r).allowed
RefuseOperation(r) ==
    /\ req[r].pc = "next" /\ RefusedAtOnce(r)
    /\ Refuse(r)

(* validateInsertRows counts the rows for which the policy is false, if it is
   SQL; upserts look for conflicts next. *)
AfterCheck(r) == IF Op(r).kind = "upsert" THEN "conflicts" ELSE "write"
Checked(r) ==
    req' = [req EXCEPT ![r].pc = AfterCheck(r),
                       ![r].left = IF Op(r).kind = "upsert" THEN DOMAIN Op(r).rows ELSE {}]
Inserts(r) ==
    /\ req[r].pc = "next" /\ Op(r).kind \in Inserting /\ InsertPolicy(r).allowed

SkipCheck(r) ==
    /\ Inserts(r) /\ ~InsertPolicy(r).filters
    /\ Checked(r)
    /\ UNCHANGED <<policies, rows, roles, tx, lock>>

(* Mutant: only an insert of which nothing remains is rejected. *)
RejectedAll(r) ==
    IF Insertable(r) = {} THEN DOMAIN Op(r).rows ELSE {}
Rejected(r) ==
    {k \in DOMAIN Op(r).rows : InsertPolicy(r).where[InsertEnv(r, Op(r).rows[k])] = "false"}
CheckInsert(r) ==
    /\ Inserts(r) /\ InsertPolicy(r).filters
    /\ IF Rejected(r) # {} THEN Refuse(r) ELSE Checked(r) /\ Read(r)

(* validateUpsertRows: does the row exist, and if so, does its update policy
   hold of it?  The values are those of the payload. *)
Proceed(r, k) ==
    LET left == req[r].left \ {k}
    IN  req' = [req EXCEPT ![r].left = left, ![r].key = Absent,
                           ![r].pc = IF left = {} THEN "write" ELSE "conflicts"]
(* Mutant: a row that exists is not asked about its update policy. *)
LookUpRowOnly(r, k) ==
    /\ req[r].pc = "conflicts" /\ k \in req[r].left
    /\ Proceed(r, k) /\ Read(r)
LookUpRow(r, k) ==
    /\ req[r].pc = "conflicts" /\ k \in req[r].left
    /\ IF Rows(r)[k] = Absent THEN Proceed(r, k) /\ Read(r)
       ELSE IF ~UpdatePolicy(r, Op(r).rows[k]).allowed THEN Refuse(r)
       ELSE req' = [req EXCEPT ![r].pc = "conflict", ![r].key = k] /\ Read(r)
CheckUpdate(r) ==
    /\ req[r].pc = "conflict"
    /\ IF req[r].key \in Updatable(r) THEN Proceed(r, req[r].key) /\ Read(r)
       ELSE Refuse(r)
-----------------------------------------------------------------------------
(* Statements that write. *)

(* execWithRetry waits for the lock of another; a stale snapshot cannot write. *)
MayWrite(r) == lock \in {NoRequest, r} /\ tx[r].state # "stale"

(* Mutant: the operations of a batch run beside its transaction. *)
WriteBeside(r, written) ==
    LET ops == Tail(req[r].ops) IN
    /\ MayWrite(r)
    /\ rows' = written
    /\ tx' = IF written # rows THEN Stale(r) ELSE tx
    /\ req' = [req EXCEPT ![r] =
                  IF tx[r].state = "none" THEN Idle
                  ELSE [@ EXCEPT !.ops = ops, !.pc = IF ops = <<>> THEN "commit" ELSE "next"]]
    /\ UNCHANGED <<policies, roles, lock>>

(* Alone, a statement commits; in a batch the next operation follows. *)
Write(r, written) ==
    /\ MayWrite(r)
    /\ IF tx[r].state = "none"
       THEN /\ req' = [req EXCEPT ![r] = Idle]
            /\ rows' = written
            /\ tx' = IF written # rows THEN Stale(r) ELSE tx
            /\ lock' = lock
       ELSE LET ops == Tail(req[r].ops) IN
            /\ req' = [req EXCEPT ![r].ops = ops,
                                  ![r].pc = IF ops = <<>> THEN "commit" ELSE "next"]
            /\ tx' = [tx EXCEPT ![r] =
                        [state |-> "writing", rows |-> written, roles |-> Roles(r)]]
            /\ lock' = r
            /\ rows' = rows
    /\ UNCHANGED <<policies, roles>>

Stored(r, keys) ==
    [k \in Key |-> IF k \in keys THEN Op(r).rows[k] ELSE Rows(r)[k]]

(* A key that is taken fails the whole statement. *)
WriteInsert(r) ==
    /\ req[r].pc = "write" /\ Op(r).kind = "insert"
    /\ \A k \in Insertable(r) : Rows(r)[k] = Absent
    /\ Write(r, Stored(r, Insertable(r)))

WriteIgnore(r) ==
    /\ req[r].pc = "write" /\ Op(r).kind = "ignore"
    /\ Write(r, Stored(r, {k \in Insertable(r) : Rows(r)[k] = Absent}))

(* INSERT ... ON CONFLICT DO UPDATE, under the insert policy alone. *)
WriteUpsert(r) ==
    /\ req[r].pc = "write" /\ Op(r).kind = "upsert"
    /\ Write(r, Stored(r, Insertable(r)))

(* An update of another column leaves the owner as it is. *)
WriteUpdate(r) ==
    /\ req[r].pc = "next" /\ Op(r).kind = "update" /\ ~RefusedAtOnce(r)
    /\ Write(r, Stored(r, {k \in Updatable(r) : Op(r).rows[k] # Unset}))

WriteDelete(r) ==
    /\ req[r].pc = "next" /\ Op(r).kind = "delete" /\ ~RefusedAtOnce(r)
    /\ Write(r, [k \in Key |-> IF k \in Deletable(r) THEN Absent ELSE Rows(r)[k]])

Commit(r) ==
    /\ req[r].pc = "commit"
    /\ req' = [req EXCEPT ![r] = Idle]
    /\ rows' = tx[r].rows
    /\ tx' = [(IF tx[r].rows # rows THEN Stale(r) ELSE tx) EXCEPT ![r] = NoTx]
    /\ lock' = NoRequest
    /\ UNCHANGED <<policies, roles>>

(* An error of a statement, too long a wait for the lock, the end of the
   request's context or of the process. *)
Fail(r) ==
    /\ req[r].pc \notin {"idle", "refused"}
    /\ End(r, Idle)

(* The member handlers write to the same database; the rows of users who send
   no request play no part. *)
ChangeMember(u, role) ==
    /\ lock = NoRequest /\ role # roles[u]
    /\ roles' = [roles EXCEPT ![u] = role]
    /\ tx' = Stale(NoRequest)
    /\ UNCHANGED <<policies, rows, req, lock>>

(* What a handler does until it ends: the statements that can run ... *)
Work(r) ==
    \/ RefuseOperation(r) \/ SkipCheck(r) \/ CheckInsert(r)
    \/ \E k \in Key : LookUpRow(r, k)
    \/ CheckUpdate(r)
    \/ WriteInsert(r) \/ WriteIgnore(r) \/ WriteUpsert(r)
    \/ WriteUpdate(r) \/ WriteDelete(r)
    \/ Commit(r)

(* ... and those that return an error at once: the snapshot is stale, or a key
   is taken. *)
Hopeless(r) ==
    \/ tx[r].state = "stale" /\ req[r].pc \in {"next", "write"}
    \/ /\ req[r].pc = "write" /\ Op(r).kind = "insert"
       /\ \E k \in Insertable(r) : Rows(r)[k] # Absent

Step(r) ==
    \/ \E p \in Client, op \in Operation : StartOperation(r, p, op)
    \/ \E p \in Client, ops \in Batch : StartBatch(r, p, ops)
    \/ Work(r) \/ Fail(r)

Next ==
    \/ \E r \in Request : Step(r)
    \/ \E u \in User \cap Client, role \in Role \cup {Nobody} : ChangeMember(u, role)

Spec == Init /\ [][Next]_vars

(* A handler goes on with the statements it can run, and ends with one that is
   an error; nothing is said here of time running out. *)
FairSpec == Spec /\ \A r \in Request : WF_vars(Work(r) \/ (Hopeless(r) /\ Fail(r)))
-----------------------------------------------------------------------------
(* Properties. *)

(* Type correctness; a transaction that writes holds the lock and nobody else
   does, and no request leaves one behind. *)
TypeOK ==
    /\ policies \in Policies
    /\ rows \in [Key -> Owner \cup {Absent}]
    /\ roles \in [User -> Role \cup {Nobody}]
    /\ \A r \in Request :
        /\ req[r].pc \in Pc /\ req[r].by \in Principal
        /\ req[r].left \subseteq Key /\ req[r].key \in Key \cup {Absent}
        /\ tx[r].rows \in [Key -> Owner \cup {Absent}]
        /\ tx[r].roles \in [User -> Role \cup {Nobody}]
        /\ tx[r].state = "writing" <=> lock = r
        /\ req[r].pc \in {"idle", "refused"} => tx[r] = NoTx
    /\ lock \in Request \cup {NoRequest}

(* The step in which an operation of r writes, and the rows it leaves. *)
Wrote(r) ==
    /\ req[r].ops # <<>> /\ req'[r].ops = Tail(req[r].ops)
    /\ IF tx[r].state = "none" THEN rows' # rows ELSE tx'[r].state = "writing"
After(r) == IF tx[r].state = "none" THEN rows' ELSE tx'[r].rows

(* What the policies of the definition say of one row, in the reference. *)
MayInsert(r, v) == Permits(policies.insert, InsertInput(r), InsertEnv(r, v))
MayUpdate(r, k, v) == Permits(policies.update, UpdateInput(r, v), StoredEnv(r, k))
MayDelete(r, k) == Permits(policies.delete, UpdateInput(r, Unset), StoredEnv(r, k))

(* Every row that changes was meant by the operation, and at that moment, with
   the rows and memberships the statement sees, its policy holds of it.  An
   upsert over a row also needs the update policy, in a batch: alone, its row
   may change between validateUpsertRows and the write. *)
WritesAuthorized ==
    [][\A r \in Request : Wrote(r) =>
          \A k \in Key : After(r)[k] # Rows(r)[k] =>
              LET op == Op(r)
                  before == Rows(r)[k]
              IN
              /\ k \in DOMAIN op.rows
              /\ op.kind \in Inserting => MayInsert(r, op.rows[k]) = "true"
              /\ op.kind \in {"insert", "ignore"} => before = Absent
              /\ op.kind = "upsert" /\ before # Absent /\ tx[r].state # "none" =>
                    MayUpdate(r, k, op.rows[k]) = "true"
              /\ op.kind = "update" => MayUpdate(r, k, op.rows[k]) = "true"
              /\ op.kind = "delete" => MayDelete(r, k) = "true"]_vars

(* "Request does not satisfy definition policy" is said only when a row of the
   operation, as the request sees it then, is not permitted, or a row that was
   to be replaced is gone; of an update or a delete only when no row whatever
   could be permitted. *)
RefusalsJustified ==
    [][\A r \in Request : req'[r] = Refused /\ req[r].pc \notin {"idle", "refused"} =>
          LET op == Op(r) IN
          CASE op.kind \in {"insert", "ignore"} ->
                  \E k \in DOMAIN op.rows : MayInsert(r, op.rows[k]) # "true"
            [] op.kind = "upsert" ->
                  \E k \in DOMAIN op.rows :
                      \/ MayInsert(r, op.rows[k]) # "true"
                      \/ k = req[r].key /\ Rows(r)[k] = Absent
                      \/ /\ Rows(r)[k] # Absent
                         /\ MayUpdate(r, k, op.rows[k]) # "true"
            [] op.kind = "update" ->
                  \E k \in DOMAIN op.rows : \A e \in Env :
                      Permits(policies.update, UpdateInput(r, op.rows[k]), e) # "true"
            [] op.kind = "delete" ->
                  \A e \in Env : Permits(policies.delete, UpdateInput(r, Unset), e) # "true"]_vars

(* "Batch executes multiple operations atomically" (data/batch.go): others see
   nothing of a batch before all of its operations have run, and nothing at
   all of one that is refused or fails. *)
BatchVisibleWhole ==
    [][\A r \in Request :
          tx[r].state # "none" /\ req'[r] # req[r] /\ rows' # rows =>
              req[r].pc = "commit" /\ rows' = tx[r].rows]_vars

(* An insert that succeeds in a batch leaves out only rows for which the policy
   is neither true nor false: NOT (policy) does not count those. *)
DroppedRowsAreNull ==
    [][\A r \in Request :
          Wrote(r) /\ tx[r].state # "none" /\ Op(r).kind \in {"insert", "upsert"} =>
              \A k \in DOMAIN Op(r).rows :
                  After(r)[k] # Op(r).rows[k] => MayInsert(r, Op(r).rows[k]) = "null"]_vars

Resting(r) == req[r].pc \in {"idle", "refused"}

(* Requests do not wait for each other in a circle, each with a snapshot or the
   lock another one wants: as long as there are any, one after another ends,
   although none of them runs out of time. *)
SomebodyEnds ==
    []<>(\A r \in Request : Resting(r))
        \/ []<><<\E r \in Request : ~Resting(r) /\ Resting(r)'>>_vars

(* The statements of requests that run together have the effect of whole
   operations and whole batches, one after another, each under its policies at
   that instant: deferred transactions and their lock serialise them. *)
Serial == INSTANCE SerialWrites
ImplementsSerial == Serial!Spec
=============================================================================
