------------------------ MODULE DatabaseLifecycle_proofs ------------------------
(***************************************************************************)
(* Proofs about DatabaseLifecycle, for any users, ids, limit and number of *)
(* handlers in flight.                                                     *)
(***************************************************************************)
EXTENDS DatabaseLifecycle, FiniteSetTheorems, TLAPS

Step(r) == Ask(r) \/ Create(r) \/ Delete(r) \/ Fail(r)

-----------------------------------------------------------------------------
(* Type correctness *)

\* The program counter tells a creation from a deletion, and an organization
\* or a user's database has an account.
LEMMA StateByPc ==
    ASSUME TypeOK, NEW r \in Request
    PROVE  /\ req[r].pc \in CreatePc => req[r] \in Creating
           /\ req[r].pc \in {"found", "destroyed"} => req[r] \in Deleting
           /\ req[r].pc \in CreatePc /\ req[r].kind # "global" => req[r].account \in User
<1>1. req[r] \in {Idle} \cup Creating \cup Deleting
  BY DEF TypeOK
<1>2. CASE req[r] = Idle
  BY <1>2 DEF Idle, CreatePc
<1>3. CASE req[r] \in Creating
  <2>1. req[r].pc \in CreatePc
    BY <1>3 DEF Creating
  <2>2. req[r].kind # "global" => req[r].account \in User
    BY <1>3 DEF Creating
  <2> QED
    BY <1>3, <2>1, <2>2 DEF CreatePc
<1>4. CASE req[r] \in Deleting
  BY <1>4 DEF Deleting, CreatePc
<1> QED
  BY <1>1, <1>2, <1>3, <1>4

\* Moving one handler to a well-formed state leaves all of them well formed.
LEMMA GotoType ==
    ASSUME TypeOK, NEW r \in Request, NEW s \in {Idle} \cup Creating \cup Deleting,
           Goto(r, s)
    PROVE  req' \in [Request -> {Idle} \cup Creating \cup Deleting]
BY DEF TypeOK, Goto

\* A creation that moves on keeps what it was asked for.
LEMMA AdvanceCreating ==
    ASSUME TypeOK, NEW r \in Request, req[r].pc \in CreatePc,
           NEW pc \in CreatePc, Advance(r, pc)
    PROVE  req' \in [Request -> {Idle} \cup Creating \cup Deleting]
<1>1. req[r] \in Creating
  BY StateByPc
<1>2. [req[r] EXCEPT !.pc = pc] \in Creating
  BY <1>1 DEF Creating
<1> QED
  BY <1>2 DEF TypeOK, Advance

\* A new organization or database has no handlers and no rows.
LEMMA InitTypeOK == Init => TypeOK
BY LifecycleAssumption DEF Init, TypeOK

\* Every step of every handler keeps the types.
LEMMA NextTypeOK == TypeOK /\ [Next]_vars => TypeOK'
<1> SUFFICES ASSUME TypeOK, [Next]_vars PROVE TypeOK'
  OBVIOUS
<1>1. CASE UNCHANGED vars
  BY <1>1 DEF TypeOK, vars
<1>2. ASSUME NEW r \in Request, Ask(r) PROVE TypeOK'
  <2>1. ASSUME NEW id \in Id, NEW u \in User, NEW capped \in BOOLEAN,
               AskOrganization(r, id, u, capped)
        PROVE  TypeOK'
    <3>1. Asked(id, "organization", u, capped) \in Creating
      BY DEF Asked, Creating, CreatePc
    <3> QED
      BY <2>1, <3>1, GotoType DEF AskOrganization, TypeOK, primary
  <2>2. ASSUME NEW id \in Id, NEW u \in User, AskUserDatabase(r, id, u)
        PROVE  TypeOK'
    <3>1. Asked(id, "user", u, FALSE) \in Creating
      BY DEF Asked, Creating, CreatePc
    <3> QED
      BY <2>2, <3>1, GotoType DEF AskUserDatabase, TypeOK, primary
  <2>3. ASSUME NEW id \in Id, NEW kind \in Kind \ {"organization"},
               NEW account \in User \cup {None}, AskDatabase(r, id, kind, account)
        PROVE  TypeOK'
    <3>1. \/ kind = "user" /\ account \in User
          \/ kind = "global" /\ account = None
      <4>1. kind = "user" <=> account # None
        BY <2>3 DEF AskDatabase
      <4>2. kind \in {"user", "global"}
        BY DEF Kind
      <4> QED
        BY <4>1, <4>2
    <3>2. Asked(id, kind, account, FALSE) \in Creating
      BY <3>1 DEF Asked, Creating, CreatePc
    <3> QED
      BY <2>3, <3>2, GotoType DEF AskDatabase, TypeOK, primary
  <2>4. ASSUME NEW id \in Id, FindRow(r, id) PROVE TypeOK'
    <3>1. [pc |-> "found", id |-> id] \in Deleting
      BY DEF Deleting
    <3> QED
      BY <2>4, <3>1, GotoType DEF FindRow, TypeOK, primary
  <2> QED
    BY <1>2, <2>1, <2>2, <2>3, <2>4 DEF Ask
<1>3. ASSUME NEW r \in Request, Create(r) PROVE TypeOK'
  <2> USE StateByPc
  <2>1. req[r].pc \in CreatePc /\ req[r] \in Creating /\ req[r].id \in Id
        /\ req[r].kind \in Kind
    <3>1. req[r].pc \in CreatePc
      BY <1>3 DEF Create, CheckFree, CreateRemote, BuildRemote, Compensate,
           InsertRows, BeginOrganization, SeedOwner, CommitOrganization, CreatePc
    <3> QED
      BY <3>1 DEF Creating, Kind
  <2>2. CASE CheckFree(r)
    BY <2>1, <2>2, AdvanceCreating DEF CheckFree, TypeOK, primary, CreatePc
  <2>3. CASE CreateRemote(r)
    BY <2>1, <2>3, AdvanceCreating, GotoType DEF CreateRemote, TypeOK, primary, CreatePc
  <2>4. CASE BuildRemote(r)
    BY <2>1, <2>4, AdvanceCreating DEF BuildRemote, TypeOK, primary, CreatePc
  <2>5. CASE Compensate(r)
    BY <2>1, <2>5, GotoType DEF Compensate, TypeOK, primary
  <2>6. CASE InsertRows(r)
    BY <2>1, <2>6, GotoType DEF InsertRows, TypeOK
  <2>7. CASE BeginOrganization(r)
    BY <2>1, <2>7, AdvanceCreating DEF BeginOrganization, TypeOK, primary, CreatePc
  <2>8. CASE SeedOwner(r)
    BY <2>1, <2>8, AdvanceCreating DEF SeedOwner, TypeOK, primary, CreatePc
  <2>9. CASE CommitOrganization(r)
    <3>1. req[r].account \in User \cup {None}
      BY <2>1 DEF Creating
    <3> QED
      BY <2>1, <2>9, <3>1, GotoType DEF CommitOrganization, TypeOK, Kind
  <2> QED
    BY <1>3, <2>2, <2>3, <2>4, <2>5, <2>6, <2>7, <2>8, <2>9 DEF Create
<1>4. ASSUME NEW r \in Request, Delete(r) PROVE TypeOK'
  <2>1. req[r] \in Deleting /\ req[r].id \in Id
    BY <1>4, StateByPc DEF Delete, DestroyRemote, RemoveRow, Deleting
  <2>2. CASE DestroyRemote(r)
    <3>1. [req[r] EXCEPT !.pc = "destroyed"] \in Deleting
      BY <2>1 DEF Deleting
    <3> QED
      BY <2>1, <2>2, <3>1 DEF DestroyRemote, TypeOK, primary, Advance, Goto
  <2>3. CASE RemoveRow(r)
    BY <2>1, <2>3, GotoType DEF RemoveRow, TypeOK
  <2> QED
    BY <1>4, <2>2, <2>3 DEF Delete
<1>5. ASSUME NEW r \in Request, Fail(r) PROVE TypeOK'
  BY <1>5, GotoType DEF Fail, TypeOK, primary
<1> QED
  BY <1>1, <1>2, <1>3, <1>4, <1>5 DEF Next

\* Every variable keeps its type: in particular a user database and an
\* organization are never created without the account they are for.
THEOREM TypeCorrect == Spec => []TypeOK
BY InitTypeOK, NextTypeOK, PTL DEF Spec

-----------------------------------------------------------------------------
(* The protocol between the handlers *)

\* A step belongs to one handler and leaves the others where they are.
LEMMA OthersStay ==
    ASSUME TypeOK, NEW r \in Request, NEW s \in Request \ {r}, Step(r)
    PROVE  req'[s] = req[s]
<1>1. CASE Ask(r)
  BY <1>1 DEF Ask, AskOrganization, AskUserDatabase, AskDatabase, FindRow, Goto, TypeOK
<1>2. CASE Create(r)
  BY <1>2 DEF Create, CheckFree, CreateRemote, BuildRemote, Compensate, InsertRows,
       BeginOrganization, SeedOwner, CommitOrganization, Goto, Advance, TypeOK
<1>3. CASE Delete(r)
  BY <1>3 DEF Delete, DestroyRemote, RemoveRow, Goto, Advance, TypeOK
<1>4. CASE Fail(r)
  BY <1>4 DEF Fail, Goto, TypeOK
<1> QED
  BY <1>1, <1>2, <1>3, <1>4 DEF Step

\* A handler that moves on keeps what it was asked for.
LEMMA Advanced ==
    ASSUME TypeOK, NEW r \in Request, req[r] \in Creating \cup Deleting, NEW pc,
           Advance(r, pc)
    PROVE  /\ req'[r].pc = pc
           /\ req'[r].id = req[r].id
           /\ req[r] \in Creating => /\ req'[r].kind = req[r].kind
                                     /\ req'[r].account = req[r].account
<1>1. req'[r] = [req[r] EXCEPT !.pc = pc]
  BY DEF Advance, TypeOK
<1>2. CASE req[r] \in Creating
  BY <1>1, <1>2 DEF Creating
<1>3. CASE req[r] \in Deleting
  <2>1. req[r] \notin Creating
    BY <1>3 DEF Deleting, Creating, CreatePc
  <2> QED
    BY <1>1, <1>3, <2>1 DEF Deleting
<1> QED
  BY <1>2, <1>3

\* A handler that goes somewhere is there.
LEMMA Gone ==
    ASSUME TypeOK, NEW r \in Request, NEW state, Goto(r, state)
    PROVE  req'[r] = state
BY DEF Goto, TypeOK

\* The deleters are on record and the write lock has one holder.
LEMMA NextProtocol == TypeOK /\ ProtocolInv /\ [Next]_vars => ProtocolInv'
<1> SUFFICES ASSUME TypeOK, ProtocolInv, [Next]_vars, NEW s \in Request
             PROVE  /\ req'[s].pc \in {"found", "destroyed"} => req'[s].id \in doomed'
                    /\ req'[s].pc \in {"inserted", "seeded"} =>
                           lock' = s /\ req'[s].kind = "organization"
  BY DEF ProtocolInv
<1>1. CASE UNCHANGED vars
  BY <1>1 DEF ProtocolInv, vars
<1>2. ASSUME NEW r \in Request, Step(r), r # s
      PROVE  /\ req'[s].pc \in {"found", "destroyed"} => req'[s].id \in doomed'
             /\ req'[s].pc \in {"inserted", "seeded"} =>
                    lock' = s /\ req'[s].kind = "organization"
  <2>1. req'[s] = req[s]
    BY <1>2, OthersStay
  <2>2. doomed \subseteq doomed'
    BY <1>2 DEF Step, Ask, Create, Delete, Fail, AskOrganization, AskUserDatabase,
         AskDatabase, FindRow, CheckFree, CreateRemote, BuildRemote, Compensate,
         InsertRows, BeginOrganization, SeedOwner, CommitOrganization,
         DestroyRemote, RemoveRow
  <2>3. lock = s => lock' = s
    <3>1. CASE BeginOrganization(r)
      BY <3>1, LifecycleAssumption DEF BeginOrganization
    <3>2. CASE CommitOrganization(r)
      BY <1>2, <3>2 DEF CommitOrganization, ProtocolInv
    <3>3. CASE Fail(r)
      BY <1>2, <3>3 DEF Fail
    <3>4. CASE ~BeginOrganization(r) /\ ~CommitOrganization(r) /\ ~Fail(r)
      BY <1>2, <3>4 DEF Step, Ask, Create, Delete, AskOrganization, AskUserDatabase,
           AskDatabase, FindRow, CheckFree, CreateRemote, BuildRemote, Compensate,
           InsertRows, SeedOwner, DestroyRemote, RemoveRow
    <3> QED
      BY <3>1, <3>2, <3>3, <3>4
  <2> QED
    BY <2>1, <2>2, <2>3 DEF ProtocolInv
<1>3. CASE Step(s)
  <2>1. CASE Ask(s)
    BY <2>1 DEF Ask, AskOrganization, AskUserDatabase, AskDatabase, FindRow, Asked,
         Goto, TypeOK
  <2>2. CASE Create(s)
    <3>1. req[s] \in Creating
      BY <2>2, StateByPc DEF Create, CheckFree, CreateRemote, BuildRemote, Compensate,
         InsertRows, BeginOrganization, SeedOwner, CommitOrganization, CreatePc
    <3>2. CASE BeginOrganization(s)
      BY <3>1, <3>2, Advanced DEF BeginOrganization
    <3>3. CASE SeedOwner(s)
      BY <3>1, <3>3, Advanced DEF SeedOwner, ProtocolInv
    <3>4. CASE CheckFree(s) \/ CreateRemote(s) \/ BuildRemote(s)
      <4>1. req'[s].pc \in {"idle", "checked", "created", "built"}
        BY <3>1, <3>4, Advanced, Gone DEF CheckFree, CreateRemote, BuildRemote, Idle
      <4> QED
        BY <4>1
    <3>5. CASE Compensate(s) \/ InsertRows(s) \/ CommitOrganization(s)
      BY <3>5, Gone DEF Compensate, InsertRows, CommitOrganization, Idle
    <3> QED
      BY <2>2, <3>2, <3>3, <3>4, <3>5 DEF Create
  <2>3. CASE Delete(s)
    <3>1. req[s] \in Deleting
      BY <2>3, StateByPc DEF Delete, DestroyRemote, RemoveRow
    <3>2. CASE DestroyRemote(s)
      BY <3>1, <3>2, Advanced, Gone DEF DestroyRemote, ProtocolInv, Idle
    <3>3. CASE RemoveRow(s)
      BY <3>3, Gone DEF RemoveRow, Idle
    <3> QED
      BY <2>3, <3>2, <3>3 DEF Delete
  <2>4. CASE Fail(s)
    BY <2>4 DEF Fail, Goto, TypeOK, Idle
  <2> QED
    BY <1>3, <2>1, <2>2, <2>3, <2>4 DEF Step
<1> QED
  BY <1>1, <1>2, <1>3 DEF Next, Step

-----------------------------------------------------------------------------
(* Who touches what *)

\* A creation that is under way has the types of one.
LEMMA CreateTypes ==
    ASSUME TypeOK, NEW t \in Request, Create(t)
    PROVE  req[t] \in Creating /\ req[t].id \in Id /\ req[t].kind \in Kind
<1>1. req[t].pc \in CreatePc
  BY DEF Create, CheckFree, CreateRemote, BuildRemote, Compensate, InsertRows,
       BeginOrganization, SeedOwner, CommitOrganization, CreatePc
<1>2. req[t] \in Creating
  BY <1>1, StateByPc
<1> QED
  BY <1>2 DEF Creating, Kind

\* Nobody but the holder of an id touches the remote database of an id that is
\* not to be deleted, or its row, except to create the database.
LEMMA Touches ==
    ASSUME TypeOK, ProtocolInv, NEW t \in Request, Step(t), NEW d \in Id \ doomed'
    PROVE  /\ d \notin doomed
           /\ \/ Holds(t, d)
              \/ UNCHANGED <<row[d], remote[d]>>
              \/ /\ CreateRemote(t) /\ req[t].id = d
                 /\ remote'[d] = "empty"
                 /\ UNCHANGED row[d]
<1>1. CASE Ask(t)
  BY <1>1 DEF Ask, AskOrganization, AskUserDatabase, AskDatabase, FindRow, primary
<1>2. CASE Create(t)
  <2>1. req[t] \in Creating /\ req[t].id \in Id
    BY <1>2, CreateTypes
  <2>2. CASE CheckFree(t)
    BY <2>2 DEF CheckFree, primary
  <2>3. CASE CreateRemote(t)
    BY <2>1, <2>3 DEF CreateRemote, primary, TypeOK
  <2>4. CASE BuildRemote(t) \/ Compensate(t) \/ SeedOwner(t)
    BY <2>1, <2>4 DEF BuildRemote, Compensate, SeedOwner, primary, TypeOK, Holds
  <2>5. CASE InsertRows(t) \/ BeginOrganization(t) \/ CommitOrganization(t)
    BY <2>1, <2>5 DEF InsertRows, BeginOrganization, CommitOrganization, primary,
         TypeOK, Holds
  <2> QED
    BY <1>2, <2>2, <2>3, <2>4, <2>5 DEF Create
<1>3. CASE Delete(t)
  <2>1. req[t].id \in doomed
    BY <1>3 DEF Delete, DestroyRemote, RemoveRow, ProtocolInv
  <2> QED
    BY <1>3, <2>1 DEF Delete, DestroyRemote, RemoveRow, primary, TypeOK
<1>4. CASE Fail(t)
  BY <1>4 DEF Fail, primary
<1> QED
  BY <1>1, <1>2, <1>3, <1>4 DEF Step

\* An id is taken by creating its remote database, in no other way.
LEMMA Takes ==
    ASSUME TypeOK, NEW t \in Request, Step(t), NEW d \in Id, Holds(t, d)'
    PROVE  \/ Holds(t, d)
           \/ CreateRemote(t) /\ req[t].id = d /\ remote[d] = "absent"
<1>1. CASE Ask(t)
  <2>1. req'[t].pc \in {"asked", "found"}
    BY <1>1 DEF Ask, AskOrganization, AskUserDatabase, AskDatabase, FindRow, Asked,
         Goto, TypeOK
  <2> QED
    BY <2>1 DEF Holds
<1>2. CASE Create(t)
  <2>1. req[t] \in Creating \cup Deleting
    BY <1>2, CreateTypes
  <2>2. CASE CheckFree(t)
    BY <2>1, <2>2, Advanced DEF CheckFree, Holds
  <2>3. CASE CreateRemote(t)
    BY <2>1, <2>3, Advanced, Gone DEF CreateRemote, Holds, Idle
  <2>4. CASE BuildRemote(t)
    BY <2>1, <2>4, Advanced DEF BuildRemote, Holds
  <2>5. CASE BeginOrganization(t) \/ SeedOwner(t)
    BY <2>1, <2>5, Advanced DEF BeginOrganization, SeedOwner, Holds
  <2>6. CASE Compensate(t) \/ InsertRows(t) \/ CommitOrganization(t)
    BY <2>6, Gone DEF Compensate, InsertRows, CommitOrganization, Holds, Idle
  <2> QED
    BY <1>2, <2>2, <2>3, <2>4, <2>5, <2>6 DEF Create
<1>3. CASE Delete(t)
  <2>1. req[t] \in Creating \cup Deleting
    BY <1>3, StateByPc DEF Delete, DestroyRemote, RemoveRow
  <2> QED
    BY <1>3, <2>1, Advanced, Gone DEF Delete, DestroyRemote, RemoveRow, Holds, Idle
<1>4. CASE Fail(t)
  BY <1>4, Gone DEF Fail, Holds, Idle
<1> QED
  BY <1>1, <1>2, <1>3, <1>4 DEF Step

-----------------------------------------------------------------------------
(* The invariants *)

\* One maker per id, whose work is neither lost nor visible before it is done.
LEMMA NextMaker ==
    TypeOK /\ ProtocolInv /\ MakerInv /\ RowsAreBacked /\ [Next]_vars => MakerInv'
<1> SUFFICES ASSUME TypeOK, ProtocolInv, MakerInv, RowsAreBacked, [Next]_vars,
                    NEW r \in Request, NEW d \in Id \ doomed', Holds(r, d)'
             PROVE  /\ row'[d] = None
                    /\ \A s \in Request : Holds(s, d)' => s = r
                    /\ remote'[d] # "absent"
                    /\ req'[r].pc \in {"built", "inserted"} =>
                           remote'[d] \in {"built", "seeded"}
                    /\ req'[r].pc = "seeded" => remote'[d] = "seeded"
  BY DEF MakerInv
<1>1. CASE UNCHANGED vars
  BY <1>1 DEF MakerInv, Holds, vars
<1>2. ASSUME NEW t \in Request, Step(t), t # r
      PROVE  /\ row'[d] = None
             /\ \A s \in Request : Holds(s, d)' => s = r
             /\ remote'[d] # "absent"
             /\ req'[r].pc \in {"built", "inserted"} => remote'[d] \in {"built", "seeded"}
             /\ req'[r].pc = "seeded" => remote'[d] = "seeded"
  <2>1. req'[r] = req[r] /\ Holds(r, d)
    BY <1>2, OthersStay DEF Holds
  <2>2. d \notin doomed
    BY <1>2, Touches
  <2>3. ~Holds(t, d)
    BY <1>2, <2>1, <2>2 DEF MakerInv
  <2>4. remote[d] # "absent"
    BY <2>1, <2>2 DEF MakerInv
  <2>5. ~Holds(t, d)'
    BY <1>2, <2>3, <2>4, Takes
  <2>6. UNCHANGED <<row[d], remote[d]>>
    <3>1. ~(CreateRemote(t) /\ req[t].id = d)
      BY <2>4 DEF CreateRemote
    <3> QED
      BY <1>2, <2>3, <3>1, Touches
  <2>7. ASSUME NEW s \in Request, Holds(s, d)' PROVE s = r
    <3>1. s # t
      BY <2>5, <2>7
    <3>2. Holds(s, d)
      BY <1>2, <2>7, <3>1, OthersStay DEF Holds
    <3> QED
      BY <2>1, <2>2, <3>2 DEF MakerInv
  <2> QED
    BY <2>1, <2>2, <2>6, <2>7 DEF MakerInv
<1>3. CASE Step(r)
  <2>1. d \notin doomed
    BY <1>3, Touches
  <2>2. \A s \in Request \ {r} : Holds(s, d)' => Holds(s, d)
    BY <1>3, OthersStay DEF Holds
  <2>3. CASE Holds(r, d)
    <3>1. /\ row[d] = None
          /\ \A s \in Request : Holds(s, d) => s = r
          /\ remote[d] # "absent"
          /\ req[r].pc \in {"built", "inserted"} => remote[d] \in {"built", "seeded"}
      BY <2>1, <2>3 DEF MakerInv
    <3>2. req'[r].pc \notin {"idle", "asked", "checked"} /\ req'[r].id = d
      BY DEF Holds
    <3>3. req[r].id = d /\ req[r].pc \in {"created", "built", "inserted", "seeded"}
      BY <2>3 DEF Holds
    <3>4. req[r] \in Creating \cup Deleting
      BY <3>3, StateByPc DEF CreatePc
    <3>5. CASE BuildRemote(r)
      BY <3>1, <3>3, <3>4, <3>5, <2>2, Advanced DEF BuildRemote, primary, TypeOK
    <3>6. CASE BeginOrganization(r)
      BY <3>1, <3>3, <3>4, <3>6, <2>2, Advanced DEF BeginOrganization, primary
    <3>7. CASE SeedOwner(r)
      BY <3>1, <3>3, <3>4, <3>7, <2>2, Advanced DEF SeedOwner, primary, TypeOK
    <3>8. CASE Compensate(r) \/ InsertRows(r) \/ CommitOrganization(r) \/ Fail(r)
      BY <3>2, <3>8, Gone DEF Compensate, InsertRows, CommitOrganization, Fail, Idle
    <3>9. CASE Ask(r) \/ Delete(r) \/ CheckFree(r) \/ CreateRemote(r)
      <4>1. req[r] # Idle
        BY <3>3 DEF Idle
      <4>2. ~Ask(r)
        BY <4>1 DEF Ask, AskOrganization, AskUserDatabase, AskDatabase, FindRow
      <4>3. req[r].pc \in {"found", "destroyed", "asked", "checked"}
        BY <3>9, <4>2 DEF Delete, DestroyRemote, RemoveRow, CheckFree, CreateRemote
      <4> QED
        BY <3>3, <4>3
    <3> QED
      BY <1>3, <3>5, <3>6, <3>7, <3>8, <3>9 DEF Step, Create
  <2>4. CASE ~Holds(r, d)
    <3>1. CreateRemote(r) /\ req[r].id = d /\ remote[d] = "absent"
      BY <1>3, <2>4, Takes
    <3>2. row[d] = None
      BY <2>1, <3>1 DEF RowsAreBacked
    <3>3. remote'[d] = "empty" /\ row'[d] = None
      BY <3>1, <3>2 DEF CreateRemote, primary, TypeOK
    <3>4. \A s \in Request : ~Holds(s, d)
      BY <2>1, <3>1 DEF MakerInv
    <3>5. req'[r].pc = "created"
      <4>1. req[r] \in Creating \cup Deleting
        BY <3>1, CreateTypes DEF Create
      <4>2. ~Goto(r, Idle)
        BY Gone DEF Holds, Idle
      <4> QED
        BY <3>1, <4>1, <4>2, Advanced DEF CreateRemote
    <3> QED
      BY <2>2, <3>3, <3>4, <3>5
  <2> QED
    BY <2>3, <2>4
<1> QED
  BY <1>1, <1>2, <1>3 DEF Next, Step

\* A row appears over a finished remote database and loses it to a deletion only.
LEMMA NextRows ==
    TypeOK /\ ProtocolInv /\ MakerInv /\ RowsAreBacked /\ [Next]_vars => RowsAreBacked'
<1> SUFFICES ASSUME TypeOK, ProtocolInv, MakerInv, RowsAreBacked, [Next]_vars,
                    NEW d \in Id \ doomed', row'[d] # None
             PROVE  remote'[d] \in {"built", "seeded"}
  BY DEF RowsAreBacked
<1>1. CASE UNCHANGED vars
  BY <1>1 DEF RowsAreBacked, vars
<1>2. ASSUME NEW t \in Request, Step(t)
      PROVE  remote'[d] \in {"built", "seeded"}
  <2>1. d \notin doomed
    BY <1>2, Touches
  <2>2. CASE UNCHANGED <<row[d], remote[d]>>
    BY <2>1, <2>2 DEF RowsAreBacked
  <2>3. CASE CreateRemote(t) /\ req[t].id = d /\ UNCHANGED row[d]
    BY <2>1, <2>3 DEF CreateRemote, RowsAreBacked
  <2>4. CASE Holds(t, d)
    <3>1. /\ row[d] = None
          /\ req[t].pc = "built" => remote[d] \in {"built", "seeded"}
          /\ req[t].pc = "seeded" => remote[d] = "seeded"
          /\ req[t].id = d
          /\ req[t].pc \in {"created", "built", "inserted", "seeded"}
      BY <2>1, <2>4 DEF MakerInv, Holds
    <3>2. CASE InsertRows(t) \/ CommitOrganization(t)
      BY <3>1, <3>2 DEF InsertRows, CommitOrganization
    <3>3. CASE ~(InsertRows(t) \/ CommitOrganization(t))
      BY <1>2, <3>1, <3>3 DEF Step, Ask, Create, Delete, Fail, AskOrganization,
           AskUserDatabase, AskDatabase, FindRow, CheckFree, CreateRemote, BuildRemote,
           Compensate, BeginOrganization, SeedOwner, DestroyRemote, RemoveRow,
           primary, Idle
    <3> QED
      BY <3>2, <3>3
  <2> QED
    BY <1>2, <2>2, <2>3, <2>4, Touches
<1> QED
  BY <1>1, <1>2 DEF Next, Step

\* An organization has its owner on both sides, until its database is deleted.
LEMMA NextOwned ==
    /\ TypeOK /\ ProtocolInv /\ MakerInv
    /\ OrganizationsHaveOwner
    /\ [Next]_vars
    => OrganizationsHaveOwner'
<1> SUFFICES ASSUME TypeOK, ProtocolInv, MakerInv, OrganizationsHaveOwner, [Next]_vars,
                    NEW d \in Id, row'[d] = "organization"
             PROVE  /\ owner'[d] # None
                    /\ d \notin doomed' => remote'[d] = "seeded"
  BY DEF OrganizationsHaveOwner
<1> "organization" # None
  BY LifecycleAssumption
<1>1. CASE UNCHANGED vars
  BY <1>1 DEF OrganizationsHaveOwner, vars
<1>2. ASSUME NEW t \in Request, Step(t) PROVE owner'[d] # None
  <2>1. CASE CommitOrganization(t)
    <3>1. req[t].id \in Id /\ req[t].account \in User
      BY <2>1, StateByPc, CreateTypes DEF Create, CommitOrganization, CreatePc, ProtocolInv
    <3>2. CASE req[t].id = d
      BY <2>1, <3>1, <3>2, LifecycleAssumption DEF CommitOrganization, TypeOK
    <3>3. CASE req[t].id # d
      BY <2>1, <3>1, <3>3 DEF CommitOrganization, TypeOK, OrganizationsHaveOwner
    <3> QED
      BY <3>2, <3>3
  <2>2. CASE RemoveRow(t)
    <3>1. req[t].id # d
      BY <2>2 DEF RemoveRow, TypeOK
    <3> QED
      BY <2>2, <3>1 DEF RemoveRow, TypeOK, OrganizationsHaveOwner
  <2>3. CASE InsertRows(t)
    <3>1. req[t].id # d \/ req[t].kind = "organization"
      BY <2>3 DEF InsertRows, TypeOK
    <3> QED
      BY <2>3, <3>1, CreateTypes DEF Create, InsertRows, TypeOK, OrganizationsHaveOwner
  <2>4. CASE ~CommitOrganization(t) /\ ~RemoveRow(t) /\ ~InsertRows(t)
    <3>1. UNCHANGED <<row, owner>>
      BY <1>2, <2>4 DEF Step, Ask, Create, Delete, Fail, AskOrganization,
         AskUserDatabase, AskDatabase, FindRow, CheckFree, CreateRemote, BuildRemote,
         Compensate, BeginOrganization, SeedOwner, DestroyRemote, primary
    <3> QED
      BY <3>1 DEF OrganizationsHaveOwner
  <2> QED
    BY <2>1, <2>2, <2>3, <2>4
<1>3. ASSUME NEW t \in Request, Step(t), d \notin doomed' PROVE remote'[d] = "seeded"
  <2>1. d \notin doomed
    BY <1>3, Touches
  <2>2. CASE UNCHANGED <<row[d], remote[d]>>
    BY <2>1, <2>2 DEF OrganizationsHaveOwner
  <2>3. CASE CreateRemote(t) /\ req[t].id = d /\ UNCHANGED row[d]
    BY <2>1, <2>3 DEF CreateRemote, OrganizationsHaveOwner
  <2>4. CASE Holds(t, d)
    <3>1. /\ row[d] = None
          /\ req[t].pc = "seeded" => remote[d] = "seeded"
          /\ req[t].id = d
      BY <2>1, <2>4 DEF MakerInv, Holds
    <3>2. CASE CommitOrganization(t)
      BY <3>1, <3>2 DEF CommitOrganization
    <3>3. CASE InsertRows(t)
      BY <3>1, <3>3 DEF InsertRows, TypeOK
    <3>4. CASE RemoveRow(t)
      BY <3>1, <3>4 DEF RemoveRow, TypeOK
    <3>5. CASE ~CommitOrganization(t) /\ ~RemoveRow(t) /\ ~InsertRows(t)
      BY <1>3, <3>1, <3>5 DEF Step, Ask, Create, Delete, Fail, AskOrganization,
         AskUserDatabase, AskDatabase, FindRow, CheckFree, CreateRemote, BuildRemote,
         Compensate, BeginOrganization, SeedOwner, DestroyRemote, primary
    <3> QED
      BY <3>2, <3>3, <3>4, <3>5
  <2> QED
    BY <1>3, <2>2, <2>3, <2>4, Touches
<1> QED
  BY <1>1, <1>2, <1>3 DEF Next, Step

\* Links are made together with the row they point to, and never moved.
LEMMA NextLinked ==
    /\ TypeOK
    /\ UserDatabasesLinked /\ OneLinkPerDatabase
    /\ [Next]_vars
    => UserDatabasesLinked' /\ OneLinkPerDatabase'
<1> SUFFICES ASSUME TypeOK, UserDatabasesLinked, OneLinkPerDatabase, [Next]_vars
             PROVE  UserDatabasesLinked' /\ OneLinkPerDatabase'
  OBVIOUS
<1> None \notin Id /\ "user" # None
  BY LifecycleAssumption
<1>1. CASE UNCHANGED vars
  BY <1>1 DEF UserDatabasesLinked, OneLinkPerDatabase, vars
<1>2. ASSUME NEW t \in Request, Step(t) PROVE UserDatabasesLinked' /\ OneLinkPerDatabase'
  <2>1. CASE InsertRows(t)
    <3> DEFINE q == req[t]
    <3>1. q.id \in Id /\ q.kind \in Kind /\ (q.kind = "user" => q.account \in User)
      BY <2>1, CreateTypes, StateByPc DEF Create, InsertRows, CreatePc
    <3>2. row' = [row EXCEPT ![q.id] = q.kind]
      BY <2>1 DEF InsertRows
    <3>3. CASE q.kind = "global" /\ UNCHANGED link
      BY <3>1, <3>2, <3>3 DEF UserDatabasesLinked, OneLinkPerDatabase, TypeOK
    <3>4. CASE /\ q.kind = "user" /\ link[q.account] = None
               /\ \A u \in User : link[u] # q.id
               /\ link' = [link EXCEPT ![q.account] = q.id]
      <4>1. \A u \in User : link'[u] = IF u = q.account THEN q.id ELSE link[u]
        BY <3>4 DEF TypeOK
      <4>2. OneLinkPerDatabase'
        BY <3>1, <3>4, <4>1 DEF OneLinkPerDatabase
      <4>3. ASSUME NEW d \in Id, row'[d] = "user" PROVE \E u \in User : link'[u] = d
        <5>1. CASE d = q.id
          BY <3>1, <3>4, <4>1, <5>1
        <5>2. CASE d # q.id
          <6>1. row[d] = "user"
            BY <3>1, <3>2, <4>3, <5>2 DEF TypeOK
          <6>2. PICK u \in User : link[u] = d
            BY <6>1 DEF UserDatabasesLinked
          <6>3. u # q.account
            BY <3>4, <6>2
          <6> QED
            BY <4>1, <6>2, <6>3
        <5> QED
          BY <5>1, <5>2
      <4> QED
        BY <4>2, <4>3 DEF UserDatabasesLinked
    <3> QED
      BY <2>1, <3>3, <3>4 DEF InsertRows
  <2>2. CASE CommitOrganization(t) \/ RemoveRow(t)
    <3>1. link' = link
      BY <2>2 DEF CommitOrganization, RemoveRow
    <3>2. \A d \in Id : row'[d] = "user" => row[d] = "user"
      BY <2>2 DEF CommitOrganization, RemoveRow, TypeOK
    <3> QED
      BY <3>1, <3>2 DEF UserDatabasesLinked, OneLinkPerDatabase
  <2>3. CASE ~InsertRows(t) /\ ~CommitOrganization(t) /\ ~RemoveRow(t)
    <3>1. UNCHANGED <<row, link>>
      BY <1>2, <2>3 DEF Step, Ask, Create, Delete, Fail, AskOrganization,
         AskUserDatabase, AskDatabase, FindRow, CheckFree, CreateRemote, BuildRemote,
         Compensate, BeginOrganization, SeedOwner, DestroyRemote, primary
    <3> QED
      BY <3>1 DEF UserDatabasesLinked, OneLinkPerDatabase
  <2> QED
    BY <2>1, <2>2, <2>3
<1> QED
  BY <1>1, <1>2 DEF Next, Step

-----------------------------------------------------------------------------
(* The theorems *)

\* The inductive invariant all of them rest on.
SafetyInv ==
    /\ TypeOK /\ ProtocolInv /\ MakerInv
    /\ RowsAreBacked /\ OrganizationsHaveOwner
    /\ UserDatabasesLinked /\ OneLinkPerDatabase

\* Nothing is there at first.
LEMMA InitSafety == Init => SafetyInv
<1> SUFFICES ASSUME Init PROVE SafetyInv
  OBVIOUS
<1>1. TypeOK
  BY InitTypeOK
<1>2. ProtocolInv /\ MakerInv
  BY DEF Init, ProtocolInv, MakerInv, Holds, Idle
<1>3. RowsAreBacked /\ OrganizationsHaveOwner /\ UserDatabasesLinked /\ OneLinkPerDatabase
  BY LifecycleAssumption DEF Init, RowsAreBacked, OrganizationsHaveOwner,
     UserDatabasesLinked, OneLinkPerDatabase
<1> QED
  BY <1>1, <1>2, <1>3 DEF SafetyInv

\* Every step of every handler keeps it.
LEMMA Safety == Spec => []SafetyInv
<1>1. SafetyInv /\ [Next]_vars => SafetyInv'
  BY NextTypeOK, NextProtocol, NextMaker, NextRows, NextOwned, NextLinked DEF SafetyInv
<1> QED
  BY InitSafety, <1>1, PTL DEF Spec

\* createDatabase and deleteDatabase: unless an id's deletion was asked for, its
\* row is backed by a remote database that has the schema.
THEOREM RowsBacked == Spec => []RowsAreBacked
<1>1. SafetyInv => RowsAreBacked
  BY DEF SafetyInv
<1> QED
  BY Safety, <1>1, PTL

\* createDatabase: an organization has an owner, who is a member in the
\* organization's own database.
THEOREM OrganizationsOwned == Spec => []OrganizationsHaveOwner
<1>1. SafetyInv => OrganizationsHaveOwner
  BY DEF SafetyInv
<1> QED
  BY Safety, <1>1, PTL

\* createDatabase: the row of a user database has a user who is linked to it.
THEOREM UsersLinked == Spec => []UserDatabasesLinked
<1>1. SafetyInv => UserDatabasesLinked
  BY DEF SafetyInv
<1> QED
  BY Safety, <1>1, PTL

\* createDatabase: no database is linked to two users.
THEOREM LinksUnique == Spec => []OneLinkPerDatabase
<1>1. SafetyInv => OneLinkPerDatabase
  BY DEF SafetyInv
<1> QED
  BY Safety, <1>1, PTL

-----------------------------------------------------------------------------
(* The cap on organizations *)

\* What a user owns or is about to own is finite, and less of it is not more.
LEMMA CapMonotone ==
    ASSUME TypeOK, NEW u \in User, UnderCap(u),
           Owned(u)' \subseteq Owned(u), Makers(u)' \subseteq Makers(u)
    PROVE  UnderCap(u)'
<1>1. IsFiniteSet(Owned(u)) /\ IsFiniteSet(Makers(u))
  BY LifecycleAssumption, FS_Subset DEF Owned, Makers
<1>2. /\ Cardinality(Owned(u)) \in Nat /\ Cardinality(Makers(u)) \in Nat
      /\ Cardinality(Owned(u)') \in Nat /\ Cardinality(Makers(u)') \in Nat
      /\ Cardinality(Owned(u)') <= Cardinality(Owned(u))
      /\ Cardinality(Makers(u)') <= Cardinality(Makers(u))
  BY <1>1, FS_Subset, FS_CardinalityType
<1> QED
  BY <1>2, LifecycleAssumption DEF UnderCap

\* Only a request for an organization makes a user a maker.
LEMMA MakersGrow ==
    ASSUME TypeOK, NEW t \in Request, Step(t), NEW u \in User
    PROVE  \/ Makers(u)' \subseteq Makers(u)
           \/ \E id \in Id, capped \in BOOLEAN : AskOrganization(t, id, u, capped)
<1> SUFFICES ASSUME t \in Makers(u)', t \notin Makers(u)
             PROVE  \E id \in Id, capped \in BOOLEAN : AskOrganization(t, id, u, capped)
  BY OthersStay DEF Makers
<1>1. req'[t].pc \in CreatePc /\ req'[t].kind = "organization" /\ req'[t].account = u
  BY DEF Makers
<1>2. ~(req[t].pc \in CreatePc /\ req[t].kind = "organization" /\ req[t].account = u)
  BY DEF Makers
<1>3. CASE Ask(t)
  <2>1. ASSUME NEW id \in Id, AskUserDatabase(t, id, u) PROVE FALSE
    BY <1>1, <2>1, Gone DEF AskUserDatabase, Asked
  <2>2. \A id \in Id, kind \in Kind \ {"organization"}, account \in User \cup {None} :
            ~AskDatabase(t, id, kind, account)
    BY <1>1, Gone DEF AskDatabase, Asked
  <2>3. \A id \in Id : ~FindRow(t, id)
    BY <1>1, Gone DEF FindRow, CreatePc
  <2>4. \A id \in Id, v \in User : ~AskUserDatabase(t, id, v)
    BY <1>1, Gone DEF AskUserDatabase, Asked
  <2>5. PICK id \in Id, v \in User, capped \in BOOLEAN : AskOrganization(t, id, v, capped)
    BY <1>3, <2>2, <2>3, <2>4 DEF Ask
  <2>6. v = u
    BY <1>1, <2>5, Gone DEF AskOrganization, Asked
  <2> QED
    BY <2>5, <2>6
<1>4. CASE Create(t)
  <2>1. req[t] \in Creating /\ req[t].pc \in CreatePc
    BY <1>4, CreateTypes DEF Creating
  <2>2. req'[t].pc # "idle"
    BY <1>1 DEF CreatePc
  <2>3. \E pc \in CreatePc : Advance(t, pc)
    BY <1>4, <2>2, Gone, <1>1, <1>2 DEF Create, CheckFree, CreateRemote, BuildRemote,
       Compensate, InsertRows, BeginOrganization, SeedOwner, CommitOrganization,
       CreatePc, Idle
  <2> QED
    BY <1>1, <1>2, <2>1, <2>3, Advanced
<1>5. CASE Delete(t)
  <2>1. req[t] \in Deleting
    BY <1>5, StateByPc DEF Delete, DestroyRemote, RemoveRow
  <2>2. req'[t].pc \in {"idle", "destroyed"}
    BY <1>5, <2>1, Advanced, Gone DEF Delete, DestroyRemote, RemoveRow, Idle
  <2> QED
    BY <1>1, <2>2 DEF CreatePc
<1>6. CASE Fail(t)
  BY <1>1, <1>6, Gone DEF Fail, Idle, CreatePc
<1> QED
  BY <1>3, <1>4, <1>5, <1>6 DEF Step

\* A user comes to own an organization by the end of a creation of his own.
LEMMA OwnedGrows ==
    ASSUME TypeOK, ProtocolInv, NEW t \in Request, Step(t), NEW u \in User
    PROVE  \/ Owned(u)' \subseteq Owned(u)
           \/ /\ t \in Makers(u) /\ Makers(u)' = Makers(u) \ {t}
              /\ \E id \in Id : Owned(u)' \subseteq Owned(u) \cup {id}
<1>1. CASE CommitOrganization(t)
  <2>1. /\ req[t] \in Creating /\ req[t].id \in Id
        /\ req[t].pc \in CreatePc /\ req[t].kind = "organization"
    BY <1>1, CreateTypes DEF Create, CommitOrganization, CreatePc, ProtocolInv
  <2>2. owner' = [owner EXCEPT ![req[t].id] = req[t].account]
    BY <1>1 DEF CommitOrganization
  <2>3. CASE req[t].account = u
    <3>1. t \in Makers(u)
      BY <2>1, <2>3 DEF Makers
    <3>2. Makers(u)' = Makers(u) \ {t}
      <4>1. req'[t].pc \notin CreatePc
        BY <1>1, Gone DEF CommitOrganization, Idle, CreatePc
      <4> QED
        BY <4>1, OthersStay DEF Makers
    <3>3. Owned(u)' \subseteq Owned(u) \cup {req[t].id}
      BY <2>2 DEF Owned, TypeOK
    <3> QED
      BY <2>1, <3>1, <3>2, <3>3
  <2>4. CASE req[t].account # u
    BY <2>2, <2>4 DEF Owned, TypeOK
  <2> QED
    BY <2>3, <2>4
<1>2. CASE RemoveRow(t)
  BY <1>2, LifecycleAssumption DEF RemoveRow, Owned, TypeOK
<1>3. CASE ~CommitOrganization(t) /\ ~RemoveRow(t)
  <2>1. UNCHANGED owner
    BY <1>3 DEF Step, Ask, Create, Delete, Fail, AskOrganization, AskUserDatabase,
       AskDatabase, FindRow, CheckFree, CreateRemote, BuildRemote, Compensate,
       InsertRows, BeginOrganization, SeedOwner, DestroyRemote, primary
  <2> QED
    BY <2>1 DEF Owned
<1> QED
  BY <1>1, <1>2, <1>3

\* One more that is owned is one less under way.
LEMMA CapOfMaker ==
    ASSUME TypeOK, NEW t \in Request, NEW u \in User, NEW id, UnderCap(u),
           t \in Makers(u), Makers(u)' = Makers(u) \ {t},
           Owned(u)' \subseteq Owned(u) \cup {id}
    PROVE  UnderCap(u)'
<1>1. IsFiniteSet(Owned(u)) /\ IsFiniteSet(Makers(u))
  BY LifecycleAssumption, FS_Subset DEF Owned, Makers
<1>2. Cardinality(Makers(u)') = Cardinality(Makers(u)) - 1
  BY <1>1, FS_RemoveElement
<1>3. /\ IsFiniteSet(Owned(u) \cup {id})
      /\ Cardinality(Owned(u) \cup {id}) <= Cardinality(Owned(u)) + 1
  <2>1. Cardinality(Owned(u)) \in Nat
    BY <1>1, FS_CardinalityType
  <2>2. /\ IsFiniteSet(Owned(u) \cup {id})
        /\ \/ Cardinality(Owned(u) \cup {id}) = Cardinality(Owned(u)) + 1
           \/ Cardinality(Owned(u) \cup {id}) = Cardinality(Owned(u))
    BY <1>1, FS_AddElement
  <2> QED
    BY <2>1, <2>2
<1>4. IsFiniteSet(Owned(u)')
      /\ Cardinality(Owned(u)') <= Cardinality(Owned(u) \cup {id})
  BY <1>3, FS_Subset
<1>5. /\ Cardinality(Owned(u)) \in Nat /\ Cardinality(Makers(u)) \in Nat
      /\ Cardinality(Owned(u)') \in Nat /\ Cardinality(Owned(u) \cup {id}) \in Nat
  BY <1>1, <1>3, <1>4, FS_CardinalityType
<1> QED
  BY <1>2, <1>3, <1>4, <1>5, LifecycleAssumption DEF UnderCap

\* The first creation that is asked for under the cap does not lead above it.
LEMMA CapOfFirst ==
    ASSUME TypeOK, NEW t \in Request, NEW u \in User, NEW id \in Id,
           Limit > 0, AskOrganization(t, id, u, TRUE), Makers(u) = {}
    PROVE  UnderCap(u)'
<1>1. Owned(u)' = Owned(u) /\ Cardinality(Owned(u)) < Limit
  BY DEF AskOrganization, primary, Owned
<1>2. Makers(u)' = {t}
  <2>1. req'[t] = Asked(id, "organization", u, TRUE)
    BY Gone DEF AskOrganization
  <2>2. t \in Makers(u)'
    BY <2>1 DEF Asked, CreatePc, Makers
  <2>3. \A s \in Request \ {t} : req'[s] = req[s]
    BY DEF AskOrganization, Goto, TypeOK
  <2> QED
    BY <2>2, <2>3 DEF Makers
<1>3. Cardinality(Makers(u)') = 1
  BY <1>2, FS_Singleton
<1>4. Cardinality(Owned(u)) \in Nat
  BY LifecycleAssumption, FS_Subset, FS_CardinalityType DEF Owned
<1> QED
  BY <1>1, <1>3, <1>4, LifecycleAssumption DEF UnderCap

\* createOrganization: a user gets above the maximum only by asking while another
\* creation of his is under way, or through the service.
THEOREM CapNotPassed == Spec => CapKept
<1>1. ASSUME TypeOK, ProtocolInv, NEW t \in Request, Step(t), NEW u \in User,
             Limit > 0, ~UnderCap(u)', UnderCap(u)
      PROVE  \E r \in Makers(u)' \ Makers(u) : Makers(u) # {} \/ ~req'[r].capped
  <2>1. CASE \E id \in Id, capped \in BOOLEAN : AskOrganization(t, id, u, capped)
    <3>1. PICK id \in Id, capped \in BOOLEAN : AskOrganization(t, id, u, capped)
      BY <2>1
    <3>2. req'[t] = Asked(id, "organization", u, capped)
      BY <1>1, <3>1, Gone DEF AskOrganization
    <3>3. t \in Makers(u)' /\ t \notin Makers(u)
      BY <3>1, <3>2 DEF AskOrganization, Asked, Makers, CreatePc, Idle
    <3>4. Makers(u) # {} \/ ~capped
      BY <1>1, <3>1, CapOfFirst
    <3>5. req'[t].capped = capped
      BY <3>2 DEF Asked
    <3> QED
      BY <3>3, <3>4, <3>5
  <2>2. CASE Makers(u)' \subseteq Makers(u)
    BY <1>1, <2>2, OwnedGrows, CapMonotone, CapOfMaker
  <2> QED
    BY <1>1, <2>1, <2>2, MakersGrow
<1>2. TypeOK /\ ProtocolInv /\ [Next]_vars =>
        [\A u \in User : Limit > 0 /\ ~UnderCap(u)' /\ UnderCap(u) =>
            \E r \in Makers(u)' \ Makers(u) :
                Makers(u) # {} \/ ~req'[r].capped]_vars
  BY <1>1 DEF Next, Step
<1>3. SafetyInv => TypeOK /\ ProtocolInv
  BY DEF SafetyInv
<1> QED
  BY Safety, <1>2, <1>3, PTL DEF Spec, CapKept

-----------------------------------------------------------------------------
(* The directory *)

\* What clients see of an id that nobody has asked to delete depends on its rows
\* alone.
SeenInRows(d) ==
    /\ Seen(d) = IF d \in doomed THEN "doomed"
                 ELSE IF row[d] = None THEN "absent" ELSE row[d]
    /\ d \in doomed \/ row[d] \in {None, "global"} => AccountOf(d) = None
    /\ d \notin doomed /\ row[d] = "user" =>
           AccountOf(d) \in User /\ link[AccountOf(d)] = d
    /\ d \notin doomed /\ row[d] = "organization" => AccountOf(d) = owner[d]

\* For whatever has a row is whole.
LEMMA RowsAreSeen == SafetyInv => \A d \in Id : SeenInRows(d)
<1> SUFFICES ASSUME SafetyInv, NEW d \in Id PROVE SeenInRows(d)
  OBVIOUS
<1>1. row[d] \in Kind \cup {None}
  BY DEF SafetyInv, TypeOK
<1>2. ASSUME d \notin doomed, row[d] # None PROVE Whole(d)
  BY <1>1, <1>2 DEF SafetyInv, RowsAreBacked, OrganizationsHaveOwner,
     UserDatabasesLinked, Whole, Kind
<1>3. d \notin doomed /\ row[d] = "user" =>
          AccountOf(d) \in User /\ link[AccountOf(d)] = d
  <2> SUFFICES ASSUME d \notin doomed, row[d] = "user"
               PROVE  AccountOf(d) \in User /\ link[AccountOf(d)] = d
    OBVIOUS
  <2>1. row[d] \notin {None, "global"}
    BY LifecycleAssumption
  <2>2. AccountOf(d) = CHOOSE u \in User : link[u] = d
    BY <1>2, <2>1 DEF AccountOf
  <2>3. \E u \in User : link[u] = d
    BY DEF SafetyInv, UserDatabasesLinked
  <2> QED
    BY <2>2, <2>3
<1>4. d \notin doomed /\ row[d] = "organization" => AccountOf(d) = owner[d]
  BY <1>2, LifecycleAssumption DEF AccountOf
<1>5. Seen(d) = IF d \in doomed THEN "doomed"
                ELSE IF row[d] = None THEN "absent" ELSE row[d]
  BY <1>2 DEF Seen
<1> QED
  BY <1>3, <1>4, <1>5 DEF AccountOf, SeenInRows

\* It is so in the state after a step, too.
LEMMA RowsAreSeenNext == SafetyInv' => \A d \in Id : SeenInRows(d)'
<1>1. SafetyInv' => (\A d \in Id : SeenInRows(d))'
  BY RowsAreSeen, PTL
<1> QED
  BY <1>1

\* An id whose rows stay as they are looks as before.
LEMMA SameView ==
    ASSUME SafetyInv, SafetyInv', NEW d \in Id, row'[d] = row[d],
           d \in doomed' <=> d \in doomed,
           d \in doomed \/ owner'[d] = owner[d],
           \A u \in User : link[u] = d => link'[u] = d
    PROVE  Seen(d)' = Seen(d) /\ AccountOf(d)' = AccountOf(d)
<1>1. Seen(d)' = Seen(d)
  BY RowsAreSeen, RowsAreSeenNext DEF SeenInRows
<1>2. CASE d \in doomed \/ row[d] \in {None, "global"}
  BY <1>2, RowsAreSeen, RowsAreSeenNext DEF SeenInRows
<1>3. CASE d \notin doomed /\ row[d] = "user"
  <2>1. /\ AccountOf(d) \in User /\ link[AccountOf(d)] = d
        /\ AccountOf(d)' \in User /\ link'[AccountOf(d)'] = d
    BY <1>3, RowsAreSeen, RowsAreSeenNext DEF SeenInRows
  <2>2. link'[AccountOf(d)] = d
    BY <2>1
  <2>3. d # None
    BY LifecycleAssumption
  <2> QED
    BY <1>1, <2>1, <2>2, <2>3 DEF SafetyInv, OneLinkPerDatabase
<1>4. CASE d \notin doomed /\ row[d] = "organization"
  BY <1>4, RowsAreSeen, RowsAreSeenNext DEF SeenInRows
<1>5. row[d] \in Kind \cup {None}
  BY DEF SafetyInv, TypeOK
<1> QED
  BY <1>1, <1>2, <1>3, <1>4, <1>5 DEF Kind

\* A database that is seen at one id, and nothing else, is one that appears.
LEMMA SeenAppear ==
    ASSUME NEW x \in Id, NEW k \in Kind, NEW u \in User \cup {None},
           Seen(x) = "absent", Seen(x)' = k, AccountOf(x)' = u,
           \A d \in Id \ {x} : Seen(d)' = Seen(d) /\ AccountOf(d)' = AccountOf(d),
           k = "global" <=> u = None,
           k = "user" => \A d \in Id : ~(Seen(d) = "user" /\ AccountOf(d) = u)
    PROVE  D!Next
<1>1. k # "absent"
  BY DEF Kind
<1>2. D!Appear(x, k, u)
  BY <1>1 DEF D!Appear, D!Held
<1> QED
  BY <1>1, <1>2 DEF D!Next, D!Kind, Kind

\* A database that is doomed, and nothing else, is one whose deletion begins.
LEMMA SeenDoom ==
    ASSUME NEW x \in Id, Seen(x) \in Kind, Seen(x)' = "doomed", AccountOf(x)' = None,
           \A d \in Id \ {x} : Seen(d)' = Seen(d) /\ AccountOf(d)' = AccountOf(d)
    PROVE  D!Next
<1>1. Seen(x) # "doomed"
  BY DEF Kind
<1>2. D!Doom(x)
  BY DEF D!Doom, D!Kind, Kind
<1> QED
  BY <1>1, <1>2 DEF D!Next

\* The rows of a global or a user database make it appear, for a user who has none.
LEMMA InsertAppears ==
    ASSUME SafetyInv, SafetyInv', NEW t \in Request, InsertRows(t)
    PROVE  [D!Next]_<<[d \in Id |-> Seen(d)], [d \in Id |-> AccountOf(d)]>>
<1>1. PICK x \in Id, k \in {"global", "user"} :
          /\ row' = [row EXCEPT ![x] = k] /\ row[x] = None
          /\ UNCHANGED <<owner, doomed>>
          /\ \/ k = "global" /\ UNCHANGED link
             \/ k = "user" /\ \E u \in User :
                   link[u] = None /\ link' = [link EXCEPT ![u] = x]
  BY CreateTypes, StateByPc DEF SafetyInv, Create, InsertRows, CreatePc, Kind
<1>2. \A d \in Id \ {x} : Seen(d)' = Seen(d) /\ AccountOf(d)' = AccountOf(d)
  <2> SUFFICES ASSUME NEW d \in Id \ {x}
               PROVE  Seen(d)' = Seen(d) /\ AccountOf(d)' = AccountOf(d)
    OBVIOUS
  <2>1. row'[d] = row[d]
    BY <1>1 DEF SafetyInv, TypeOK
  <2>2. \A u \in User : link[u] = d => link'[u] = d
    BY <1>1, LifecycleAssumption DEF SafetyInv, TypeOK
  <2> QED
    BY <1>1, <2>1, <2>2, SameView
<1>3. CASE x \in doomed
  <2>1. Seen(x)' = Seen(x) /\ AccountOf(x)' = AccountOf(x)
    BY <1>1, <1>3, RowsAreSeen, RowsAreSeenNext DEF SeenInRows
  <2> QED
    BY <1>2, <2>1
<1>4. CASE x \notin doomed
  <2>1. row'[x] = k /\ k # None
    BY <1>1, LifecycleAssumption DEF SafetyInv, TypeOK
  <2>2. Seen(x) = "absent" /\ Seen(x)' = k
    BY <1>1, <1>4, <2>1, RowsAreSeen, RowsAreSeenNext DEF SeenInRows
  <2>3. CASE k = "global"
    <3>1. AccountOf(x)' = None
      BY <1>1, <2>1, <2>3, RowsAreSeenNext DEF SeenInRows
    <3> QED
      BY <1>1, <1>2, <2>2, <2>3, <3>1, SeenAppear DEF Kind
  <2>4. CASE k = "user"
    <3>1. PICK u \in User : link'[u] = x /\ link[u] = None
      BY <1>1, <2>4 DEF SafetyInv, TypeOK
    <3>2. AccountOf(x)' \in User /\ link'[AccountOf(x)'] = x
      BY <1>1, <1>4, <2>1, <2>4, RowsAreSeenNext DEF SeenInRows
    <3>3. AccountOf(x)' = u
      BY <1>1, <3>1, <3>2, LifecycleAssumption DEF SafetyInv, OneLinkPerDatabase
    <3>4. ASSUME NEW d \in Id, Seen(d) = "user", AccountOf(d) = u PROVE FALSE
      <4>1. d \notin doomed /\ row[d] = "user"
        BY <3>4, RowsAreSeen DEF SeenInRows
      <4>2. link[u] = d
        BY <3>4, <4>1, RowsAreSeen DEF SeenInRows
      <4> QED
        BY <3>1, <4>2, LifecycleAssumption
    <3>5. u # None
      BY <3>1, LifecycleAssumption
    <3> QED
      BY <1>1, <1>2, <2>2, <2>4, <3>1, <3>3, <3>4, <3>5, SeenAppear DEF Kind
  <2> QED
    BY <1>1, <2>3, <2>4
<1> QED
  BY <1>3, <1>4

\* The commit of the organization's rows makes it appear, with its owner.
LEMMA CommitAppears ==
    ASSUME SafetyInv, SafetyInv', NEW t \in Request, CommitOrganization(t)
    PROVE  [D!Next]_<<[d \in Id |-> Seen(d)], [d \in Id |-> AccountOf(d)]>>
<1>1. PICK x \in Id, u \in User :
          /\ row' = [row EXCEPT ![x] = "organization"]
          /\ owner' = [owner EXCEPT ![x] = u]
          /\ UNCHANGED <<link, doomed>>
          /\ req[t].pc = "seeded" /\ req[t].id = x
  BY CreateTypes, StateByPc DEF SafetyInv, Create, CommitOrganization, CreatePc, ProtocolInv
<1>2. \A d \in Id \ {x} : Seen(d)' = Seen(d) /\ AccountOf(d)' = AccountOf(d)
  <2> SUFFICES ASSUME NEW d \in Id \ {x}
               PROVE  Seen(d)' = Seen(d) /\ AccountOf(d)' = AccountOf(d)
    OBVIOUS
  <2>1. row'[d] = row[d] /\ owner'[d] = owner[d]
    BY <1>1 DEF SafetyInv, TypeOK
  <2> QED
    BY <1>1, <2>1, SameView
<1>3. CASE x \in doomed
  <2>1. Seen(x)' = Seen(x) /\ AccountOf(x)' = AccountOf(x)
    BY <1>1, <1>3, RowsAreSeen, RowsAreSeenNext DEF SeenInRows
  <2> QED
    BY <1>2, <2>1
<1>4. CASE x \notin doomed
  <2>1. row[x] = None
    BY <1>1, <1>4 DEF SafetyInv, MakerInv, Holds
  <2>2. row'[x] = "organization" /\ owner'[x] = u
    BY <1>1 DEF SafetyInv, TypeOK
  <2>3. Seen(x) = "absent" /\ Seen(x)' = "organization" /\ AccountOf(x)' = u
    BY <1>1, <1>4, <2>1, <2>2, RowsAreSeen, RowsAreSeenNext, LifecycleAssumption
       DEF SeenInRows
  <2>4. u # None
    BY <1>1, LifecycleAssumption
  <2> QED
    BY <1>1, <1>2, <2>3, <2>4, SeenAppear DEF Kind
<1> QED
  BY <1>3, <1>4

\* The beginning of a deletion dooms a database that was whole.
LEMMA FindDooms ==
    ASSUME SafetyInv, SafetyInv', NEW t \in Request, NEW x \in Id, FindRow(t, x)
    PROVE  [D!Next]_<<[d \in Id |-> Seen(d)], [d \in Id |-> AccountOf(d)]>>
<1>1. row[x] # None /\ doomed' = doomed \cup {x} /\ UNCHANGED <<row, link, owner>>
  BY DEF FindRow, primary
<1>2. \A d \in Id \ {x} : Seen(d)' = Seen(d) /\ AccountOf(d)' = AccountOf(d)
  BY <1>1, SameView
<1>3. Seen(x)' = "doomed" /\ AccountOf(x)' = None
  BY <1>1, RowsAreSeenNext DEF SeenInRows
<1>4. CASE x \in doomed
  <2>1. Seen(x)' = Seen(x) /\ AccountOf(x)' = AccountOf(x)
    BY <1>3, <1>4, RowsAreSeen DEF SeenInRows
  <2> QED
    BY <1>2, <2>1
<1>5. CASE x \notin doomed
  <2>1. Seen(x) \in Kind
    BY <1>1, <1>5, RowsAreSeen DEF SeenInRows, SafetyInv, TypeOK
  <2> QED
    BY <1>2, <1>3, <2>1, SeenDoom
<1> QED
  BY <1>4, <1>5

\* Every other step is one that clients do not see.
LEMMA OthersUnseen ==
    ASSUME SafetyInv, SafetyInv', NEW t \in Request, Step(t),
           ~InsertRows(t), ~CommitOrganization(t), \A x \in Id : ~FindRow(t, x)
    PROVE  UNCHANGED <<[d \in Id |-> Seen(d)], [d \in Id |-> AccountOf(d)]>>
<1>1. doomed' = doomed /\ link' = link
  BY DEF Step, Ask, Create, Delete, Fail, AskOrganization, AskUserDatabase, AskDatabase,
     CheckFree, CreateRemote, BuildRemote, Compensate, BeginOrganization, SeedOwner,
     DestroyRemote, RemoveRow, primary
<1>2. \A d \in Id : Seen(d)' = Seen(d) /\ AccountOf(d)' = AccountOf(d)
  <2> SUFFICES ASSUME NEW d \in Id
               PROVE  Seen(d)' = Seen(d) /\ AccountOf(d)' = AccountOf(d)
    OBVIOUS
  <2>1. CASE RemoveRow(t) /\ d = req[t].id
    <3>1. d \in doomed
      BY <2>1 DEF RemoveRow, SafetyInv, ProtocolInv
    <3> QED
      BY <1>1, <3>1, RowsAreSeen, RowsAreSeenNext DEF SeenInRows
  <2>2. CASE ~(RemoveRow(t) /\ d = req[t].id)
    <3>1. row'[d] = row[d] /\ owner'[d] = owner[d]
      BY <2>2 DEF Step, Ask, Create, Delete, Fail, AskOrganization, AskUserDatabase,
         AskDatabase, CheckFree, CreateRemote, BuildRemote, Compensate,
         BeginOrganization, SeedOwner, DestroyRemote, RemoveRow, primary, SafetyInv, TypeOK
    <3> QED
      BY <1>1, <3>1, SameView
  <2> QED
    BY <2>1, <2>2
<1> QED
  BY <1>2

\* createDatabase and deleteDatabase implement a directory: databases appear whole
\* and at once, one for a user, and leave by a request for their deletion only.
THEOREM DirectoryImplemented == Spec => ImplementsDirectory
<1>1. Init => D!Init
  <2> SUFFICES ASSUME Init PROVE D!Init
    OBVIOUS
  <2>1. \A d \in Id : Seen(d) = "absent" /\ AccountOf(d) = None
    BY DEF Init, Seen, AccountOf
  <2> QED
    BY <2>1 DEF D!Init
<1>2. SafetyInv /\ SafetyInv' /\ [Next]_vars =>
        [D!Next]_<<[d \in Id |-> Seen(d)], [d \in Id |-> AccountOf(d)]>>
  <2> SUFFICES ASSUME SafetyInv, SafetyInv', [Next]_vars
               PROVE [D!Next]_<<[d \in Id |-> Seen(d)], [d \in Id |-> AccountOf(d)]>>
    OBVIOUS
  <2>1. CASE UNCHANGED vars
    BY <2>1, SameView DEF vars
  <2>2. ASSUME NEW t \in Request, Step(t)
        PROVE [D!Next]_<<[d \in Id |-> Seen(d)], [d \in Id |-> AccountOf(d)]>>
    BY <2>2, InsertAppears, CommitAppears, FindDooms, OthersUnseen
  <2> QED
    BY <2>1, <2>2 DEF Next, Step
<1> QED
  BY Safety, <1>1, <1>2, PTL DEF Spec, ImplementsDirectory, D!Spec

=============================================================================
