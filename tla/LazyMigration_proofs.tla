------------------------ MODULE LazyMigration_proofs ------------------------
(***************************************************************************)
(* Theorems about LazyMigration, for any tables, databases and versions,   *)
(* and any number of pushes and data requests in flight.                   *)
(***************************************************************************)
EXTENDS LazyMigration, WellFoundedInduction, TLAPS

(* Induction. *)

\* A set of numbers has a least one.
LEMMA LeastNumber ==
    ASSUME NEW S \in SUBSET Nat, S # {}
    PROVE  \E n \in S : \A m \in S : n <= m
<1>1. \A m, n \in Nat : m < n => <<m, n>> \in OpToRel(<, Nat)
  BY Zenon DEF OpToRel
<1>2. PICK n \in S : \A m \in S : ~(<<m, n>> \in OpToRel(<, Nat))
  BY NatLessThanWellFounded, WFMin, Zenon
<1>3. \A m \in S : ~(m < n)
  BY <1>1, <1>2, Zenon
<1>4. \A m \in Nat : m < n \/ n <= m
  OBVIOUS
<1> QED
  BY <1>3, <1>4

\* What holds of the first number of a range, and of each number after one it
\* holds of, holds of the whole range.
LEMMA RangeInduction ==
    ASSUME NEW from \in Nat, NEW to \in Nat, NEW Good,
           from \in Good,
           \A v \in (from + 1)..to : v - 1 \in Good => v \in Good
    PROVE  from..to \subseteq Good
<1> DEFINE Bad == {v \in from..to : v \notin Good}
<1>1. SUFFICES ASSUME Bad # {} PROVE FALSE
  OBVIOUS
<1>2. Bad \subseteq Nat
  OBVIOUS
<1>3. PICK n \in Bad : \A m \in Bad : n <= m
  BY <1>1, <1>2, LeastNumber
<1>4. n \in from..to /\ n \notin Good /\ n # from
  BY <1>3
<1>5. n - 1 \in from..to /\ n \in (from + 1)..to /\ ~(n <= n - 1)
  BY <1>4
<1>6. n - 1 \in Good
  BY <1>3, <1>5
<1> QED
  BY <1>4, <1>5, <1>6
-----------------------------------------------------------------------------
\* the stored versions and the tables of a database, where these are tracked
AtLeast(d, v) == reached[d] # 0 => v <= reached[d]

\* the database has had a row
Built(d) == stage[d] \notin {"absent", "building"}

\* No cache and no row is ahead of the definition, nor a row of the tables, and a
\* row names a version.
RowInv ==
    /\ cache <= current
    /\ \A d \in Db : /\ recorded[d] <= current /\ AtLeast(d, recorded[d])
                     /\ stage[d] # "absent" => recorded[d] # 0

\* What a request has read or written was published, and its database is there yet.
Sound(q) ==
    /\ Built(q.db)
    /\ q.pc # "serving" => q.from <= current
    /\ q.pc \in {"missed", "loaded", "recording"} => q.to <= current
    /\ q.pc \in {"resolved", "missed", "loaded"} => AtLeast(q.db, q.from)
    /\ q.pc = "recording" => AtLeast(q.db, q.to)
    /\ q.pc = "serving" => AtLeast(q.db, q.version)

RequestInv == \A r \in Request : req[r] # Idle => Sound(req[r])

\* A push starts from a published version below the bound, and tries its SQL on a
\* database that has a row.
PushInv ==
    \A p \in Push : push[p] # Idle =>
        /\ push[p].seen <= current /\ push[p].seen < MaxVersion
        /\ \A d \in Db : Tried(p, d) => Built(d)

\* A push that can still be published has brought the tracked database it tried
\* its SQL on to what it wants, unless another push is trying there, too.
TryInv ==
    \A p \in Push, d \in Db :
        Tried(p, d) /\ push[p].seen = current /\ reached[d] # 0 =>
            /\ reached[d] = current + 1
            /\ \/ physical[d] = push[p].want
               \/ \E q \in Push \ {p} : Tried(q, d)

\* Where no push is trying, a tracked database has the tables of its version.
TrackInv ==
    \A d \in Db :
        stage[d] \in {"building", "live"} /\ reached[d] # 0 /\ ~UnderProbe(d) =>
            reached[d] <= current /\ physical[d] = schema[reached[d]]

MigrationInv ==
    /\ TypeOK /\ RowInv /\ RequestInv
    /\ PushInv /\ TryInv /\ TrackInv

-----------------------------------------------------------------------------
\* The oldest database is one of those that have a row.
LEMMA FirstHasRow == First # None => First \in Db /\ HasRow(First)
<1> SUFFICES ASSUME First # None PROVE First \in Db /\ HasRow(First)
  OBVIOUS
<1> DEFINE Rows == {d \in Db : HasRow(d)}
<1>1. Rows # {} /\ Rows \subseteq Nat
  BY MigrationAssumption DEF First
<1>2. PICK d \in Rows : \A e \in Rows : d <= e
  BY <1>1, LeastNumber
<1> QED
  BY <1>2 DEF First

-----------------------------------------------------------------------------
(* The batch of migrations between two versions *)

\* the tables after each migration, up to version n
After(f, tables, from, n) ==
    f = [v \in from..n |->
            IF v = from THEN tables ELSE Result(f[v - 1], schema[v - 1], schema[v])]

\* The recursion of Batch has a solution.
LEMMA BatchExists ==
    ASSUME NEW tables, NEW from \in Nat, NEW to \in Nat, from <= to
    PROVE  \E f : After(f, tables, from, to)
<1> DEFINE Good == {n \in from..to : \E f : After(f, tables, from, n)}
<1>1. from \in Good
  <2>1. PICK f : f = [v \in from..from |-> tables]
    OBVIOUS
  <2>2. \A v \in from..from : v = from
    OBVIOUS
  <2>3. After(f, tables, from, from)
    BY <2>1, <2>2 DEF After
  <2> QED
    BY <2>3
<1>2. ASSUME NEW n \in (from + 1)..to, n - 1 \in Good PROVE n \in Good
  <2>1. PICK f : After(f, tables, from, n - 1)
    BY <1>2
  <2>2. PICK g : g = [v \in from..n |-> IF v = n
                                        THEN Result(f[n - 1], schema[n - 1], schema[n])
                                        ELSE f[v]]
    OBVIOUS
  <2>3. ASSUME NEW v \in from..n
        PROVE  g[v] = IF v = from THEN tables
                                  ELSE Result(g[v - 1], schema[v - 1], schema[v])
    <3>1. CASE v = n
      <4>1. n # from /\ n - 1 \in from..n /\ n - 1 # n
        OBVIOUS
      <4>2. g[n - 1] = f[n - 1]
        BY <2>2, <4>1
      <4> QED
        BY <2>2, <3>1, <4>1, <4>2
    <3>2. CASE v # n
      <4>1. v \in from..(n - 1)
        BY <3>2
      <4>2. f[v] = IF v = from THEN tables ELSE Result(f[v - 1], schema[v - 1], schema[v])
        BY <2>1, <4>1 DEF After
      <4>3. g[v] = f[v] /\ (v # from => g[v - 1] = f[v - 1])
        BY <2>2, <3>2
      <4> QED
        BY <4>2, <4>3
    <3> QED
      BY <3>1, <3>2
  <2>4. After(g, tables, from, n)
    BY <2>2, <2>3 DEF After
  <2> QED
    BY <2>4
<1> HIDE DEF Good
<1>3. from..to \subseteq Good
  BY <1>1, <1>2, RangeInduction
<1>4. to \in Good
  BY <1>3
<1> QED
  BY <1>4 DEF Good

\* So Batch is what its definition says.
LEMMA BatchIs ==
    ASSUME NEW tables, NEW from \in Nat, NEW to \in Nat, from <= to
    PROVE  /\ Batch(tables, from, to)[from] = tables
           /\ \A v \in (from + 1)..to :
                 Batch(tables, from, to)[v]
                     = Result(Batch(tables, from, to)[v - 1], schema[v - 1], schema[v])
<1>1. After(Batch(tables, from, to), tables, from, to)
  <2>1. Batch(tables, from, to) = CHOOSE f : After(f, tables, from, to)
    BY DEF After, Batch
  <2>2. \E f : After(f, tables, from, to)
    BY BatchExists
  <2> QED
    BY <2>1, <2>2, Zenon
<1>2. from \in from..to /\ \A v \in (from + 1)..to : v \in from..to /\ v # from
  OBVIOUS
<1>3. PICK b : b = Batch(tables, from, to)
  OBVIOUS
<1>4. \A v \in from..to :
        b[v] = IF v = from THEN tables ELSE Result(b[v - 1], schema[v - 1], schema[v])
  BY <1>1, <1>3 DEF After
<1>5. b[from] = tables
  BY <1>2, <1>4
<1>6. ASSUME NEW v \in (from + 1)..to
      PROVE  b[v] = Result(b[v - 1], schema[v - 1], schema[v])
  BY <1>2, <1>4
<1> QED
  BY <1>3, <1>5, <1>6

\* A table is as the last migration that touched it left it; one that none touched
\* is as it was before the batch, and the same in all the versions.
LEMMA BatchTraces ==
    ASSUME NEW tables, NEW from \in Nat, NEW to \in Nat, from <= to, NEW t,
           NEW v \in from..to
    PROVE  \/ t \in Batch(tables, from, to)[v] <=> t \in schema[v]
           \/ /\ t \in Batch(tables, from, to)[v] <=> t \in tables
              /\ \A w \in from..v : t \in schema[w] <=> t \in schema[from]
<1>1. PICK b : b = Batch(tables, from, to)
  OBVIOUS
<1> DEFINE Settled(n) == t \in b[n] <=> t \in schema[n]
           Untouched(n) == /\ t \in b[n] <=> t \in tables
                           /\ \A w \in from..n : t \in schema[w] <=> t \in schema[from]
           Good == {n \in from..to : Settled(n) \/ Untouched(n)}
<1>2. from \in Good
  <2>1. b[from] = tables /\ \A w \in from..from : w = from
    BY <1>1, BatchIs
  <2> QED
    BY <2>1
<1>3. ASSUME NEW n \in (from + 1)..to, n - 1 \in Good PROVE n \in Good
  <2>1. b[n] = Result(b[n - 1], schema[n - 1], schema[n])
    BY <1>1, BatchIs
  <2>2. t \in b[n] <=> \/ t \in b[n - 1] /\ ~(t \in schema[n - 1] /\ t \notin schema[n])
                       \/ t \in schema[n] /\ t \notin schema[n - 1]
    BY <2>1 DEF Result, Drops, Creates
  <2>3. CASE Settled(n - 1)
    BY <2>2, <2>3
  <2>4. CASE Untouched(n - 1)
    <3>1. CASE t \in schema[n - 1] <=> t \in schema[n]
      <4>1. n - 1 \in from..(n - 1) /\ \A w \in from..n : w = n \/ w \in from..(n - 1)
        OBVIOUS
      <4>2. Untouched(n)
        BY <2>2, <2>4, <3>1, <4>1
      <4> QED
        BY <4>2
    <3>2. CASE ~(t \in schema[n - 1] <=> t \in schema[n])
      BY <2>2, <3>2
    <3> QED
      BY <3>1, <3>2
  <2> QED
    BY <1>3, <2>3, <2>4
<1> HIDE DEF Good
<1>4. from..to \subseteq Good
  BY <1>2, <1>3, RangeInduction
<1>5. v \in Good
  BY <1>4
<1> QED
  BY <1>1, <1>5 DEF Good

\* A batch brings the tables of any version on its way to those of its last one,
\* and other tables to some set of tables.
LEMMA BatchEnds ==
    ASSUME TypeOK, NEW from \in Version, NEW to \in Version, from <= to,
           NEW tables \in SUBSET Table
    PROVE  /\ Batch(tables, from, to)[to] \in SUBSET Table
           /\ \A m \in from..to : tables = schema[m] =>
                  Batch(tables, from, to)[to] = schema[to]
<1>1. from \in Nat /\ to \in Nat /\ to \in from..to
  BY MigrationAssumption DEF Version
<1>2. schema[to] \subseteq Table
  BY DEF TypeOK
<1>3. ASSUME NEW t
      PROVE  \/ t \in Batch(tables, from, to)[to] <=> t \in schema[to]
             \/ /\ t \in Batch(tables, from, to)[to] <=> t \in tables
                /\ \A w \in from..to : t \in schema[w] <=> t \in schema[from]
  BY <1>1, BatchTraces
<1>4. Batch(tables, from, to)[to] \in SUBSET Table
  BY <1>2, <1>3
<1>5. ASSUME NEW m \in from..to, tables = schema[m]
      PROVE  Batch(tables, from, to)[to] = schema[to]
  BY <1>1, <1>3, <1>5
<1> QED
  BY <1>4, <1>5

-----------------------------------------------------------------------------
(* Requests and pushes *)

RequestState == {Idle} \cup Resolved \cup Loading \cup Serving
PushState == {Idle} \cup PushRead \cup PushProbed

\* Versions are natural numbers.
LEMMA VersionsAreNumbers ==
    /\ Version \subseteq Nat \ {0} /\ MaxVersion \in Nat \ {0}
    /\ \A v \in Nat : v \in Version <=> 1 <= v /\ v <= MaxVersion
BY MigrationAssumption DEF Version

\* So are the versions that are current and those of the tables.
LEMMA VersionsTyped ==
    ASSUME TypeOK
    PROVE  /\ current \in Nat /\ current \in Version /\ cache \in Nat
           /\ \A d \in Db : reached[d] \in Nat /\ recorded[d] \in Nat
<1>1. Version \subseteq Nat /\ Version \cup {0} \subseteq Nat
  BY VersionsAreNumbers
<1> QED
  BY <1>1 DEF TypeOK

\* ... before and after a step.
LEMMA VersionsTypedNext ==
    TypeOK' => /\ current' \in Nat /\ current' \in Version /\ cache' \in Nat
               /\ \A d \in Db : reached'[d] \in Nat /\ recorded'[d] \in Nat
<1>1. Version \subseteq Nat /\ Version \cup {0} \subseteq Nat
  BY VersionsAreNumbers
<1> QED
  BY <1>1 DEF TypeOK

\* The program counter tells what a request or a push remembers.
LEMMA StatesByPc ==
    ASSUME TypeOK
    PROVE  /\ \A r \in Request :
                 /\ req[r].pc = "resolved" => req[r] \in Resolved
                 /\ req[r].pc \in {"missed", "loaded", "recording"} => req[r] \in Loading
                 /\ req[r].pc = "serving" => req[r] \in Serving
                 /\ req[r] # Idle => req[r] \in Resolved \cup Loading \cup Serving
           /\ \A p \in Push :
                 /\ push[p].pc = "read" => push[p] \in PushRead
                 /\ push[p].pc = "probed" => push[p] \in PushProbed
                 /\ push[p] # Idle => push[p] \in PushRead \cup PushProbed
<1>1. \A r \in Request : req[r] \in RequestState
  BY DEF TypeOK, RequestState
<1>2. \A p \in Push : push[p] \in PushState
  BY DEF TypeOK, PushState
<1>3. \A q \in RequestState :
          /\ q.pc = "resolved" => q \in Resolved
          /\ q.pc \in {"missed", "loaded", "recording"} => q \in Loading
          /\ q.pc = "serving" => q \in Serving
          /\ q # Idle => q \in Resolved \cup Loading \cup Serving
  BY DEF RequestState, Idle, Resolved, Loading, Serving
<1>4. \A q \in PushState :
          /\ q.pc = "read" => q \in PushRead
          /\ q.pc = "probed" => q \in PushProbed
          /\ q # Idle => q \in PushRead \cup PushProbed
  BY DEF PushState, Idle, PushRead, PushProbed
<1> QED
  BY <1>1, <1>2, <1>3, <1>4

\* The definition and the tables only go forward, or the tables are not tracked
\* any more; a database that was built stays one.
Onward ==
    /\ current <= current'
    /\ \A d \in Db : Built(d) =>
          Built(d)' /\ (reached'[d] # 0 => reached[d] # 0 /\ reached[d] <= reached'[d])

\* What a request knows stays true.
LEMMA SoundLasts ==
    ASSUME TypeOK, TypeOK', Onward,
           NEW q \in Resolved \cup Loading \cup Serving, Sound(q)
    PROVE  Sound(q)'
<1>1. /\ current \in Nat /\ current' \in Nat /\ current <= current'
      /\ \A d \in Db : reached[d] \in Nat /\ reached'[d] \in Nat
  BY VersionsTyped, VersionsTypedNext DEF Onward
<1>2. q.db \in Db /\ Built(q.db) /\ Built(q.db)'
  BY DEF Sound, Onward, Resolved, Loading, Serving
<1>3. \A v \in Nat : AtLeast(q.db, v) => (reached'[q.db] # 0 => v <= reached'[q.db])
  BY <1>1, <1>2 DEF AtLeast, Onward
<1>4. CASE q \in Resolved
  <2>1. q.pc = "resolved" /\ q.from \in Nat
    BY <1>4, VersionsAreNumbers DEF Resolved
  <2> QED
    BY <1>1, <1>2, <1>3, <2>1 DEF Sound, AtLeast
<1>5. CASE q \in Loading
  <2>1. /\ q.pc \in {"missed", "loaded", "recording"}
        /\ q.from \in Nat /\ q.to \in Nat
    BY <1>5, VersionsAreNumbers DEF Loading
  <2> QED
    BY <1>1, <1>2, <1>3, <2>1 DEF Sound, AtLeast
<1>6. CASE q \in Serving
  <2>1. q.pc = "serving" /\ q.version \in Nat
    BY <1>6, VersionsAreNumbers DEF Serving
  <2> QED
    BY <1>1, <1>2, <1>3, <2>1 DEF Sound, AtLeast
<1> QED
  BY <1>4, <1>5, <1>6

\* One request moves at most, to a state that is sound by then.
LEMMA RequestsStaySound ==
    ASSUME MigrationInv, TypeOK', Onward, NEW r, NEW to,
           to # Idle => Sound(to)',
           \A s \in Request : req'[s] = req[s] \/ (s = r /\ req'[s] = to)
    PROVE  RequestInv'
<1> SUFFICES ASSUME NEW s \in Request, req'[s] # Idle PROVE Sound(req[s])'
  BY DEF RequestInv
<1>1. PICK q : q = req'[s]
  OBVIOUS
<1>2. CASE q = to
  <2>1. Sound(to)'
    BY <1>1, <1>2
  <2> QED
    BY <1>1, <1>2, <2>1 DEF Sound, Built, AtLeast
<1>3. CASE q = req[s]
  <2>1. q \in Resolved \cup Loading \cup Serving /\ Sound(q)
    BY <1>1, <1>3, StatesByPc DEF MigrationInv, RequestInv
  <2>2. Sound(q)'
    BY <2>1, SoundLasts DEF MigrationInv
  <2> QED
    BY <1>1, <2>2 DEF Sound, Built, AtLeast
<1> QED
  BY <1>1, <1>2, <1>3

\* One push moves at most, from a version that is published.
LEMMA PushesStaySound ==
    ASSUME MigrationInv, TypeOK', Onward, NEW p, NEW to,
           to # Idle => /\ to.seen <= current' /\ to.seen < MaxVersion
                        /\ \A d \in Db : to.pc = "probed" /\ to.probe = d => Built(d),
           \A q \in Push : push'[q] = push[q] \/ (q = p /\ push'[q] = to)
    PROVE  PushInv'
<1> SUFFICES ASSUME NEW q \in Push, push'[q] # Idle
             PROVE  /\ push'[q].seen <= current' /\ push'[q].seen < MaxVersion
                    /\ \A d \in Db : Tried(q, d)' => Built(d)'
  BY DEF PushInv
<1>1. \A d \in Db : Built(d) => Built(d)'
  BY DEF Onward
<1>2. CASE push'[q] = to
  BY <1>1, <1>2 DEF Tried
<1>3. CASE push'[q] = push[q]
  <2>1. push[q].seen \in Nat /\ current \in Nat /\ current' \in Nat /\ current <= current'
    BY <1>3, StatesByPc, VersionsAreNumbers
    DEF MigrationInv, TypeOK, PushRead, PushProbed, Onward
  <2> QED
    BY <1>1, <1>3, <2>1 DEF MigrationInv, PushInv, Tried
<1> QED
  BY <1>2, <1>3

\* Where neither tables nor pushes that are trying change, nor the history, what is
\* known of the tables stays true.
LEMMA TablesStay ==
    ASSUME MigrationInv, UNCHANGED <<current, schema, physical, reached>>,
           \A d \in Db : stage'[d] \in {"building", "live"} => stage[d] \in {"building", "live"},
           \A p \in Push, d \in Db : Tried(p, d)' <=> Tried(p, d),
           \A p \in Push, d \in Db : Tried(p, d) => push'[p] = push[p]
    PROVE  TryInv' /\ TrackInv'
<1>1. TryInv'
  BY DEF MigrationInv, TryInv
<1>2. TrackInv'
  BY DEF MigrationInv, TrackInv, UnderProbe
<1> QED
  BY <1>1, <1>2

\* When none of them moves they stay sound.
LEMMA NobodyMoves ==
    ASSUME MigrationInv, TypeOK', Onward
    PROVE  /\ req' = req => RequestInv'
           /\ push' = push => PushInv'
<1> PICK to : to = Idle
  OBVIOUS
<1>1. ASSUME req' = req PROVE RequestInv'
  <2>1. \A s \in Request : req'[s] = req[s] \/ (s = to /\ req'[s] = to)
    BY <1>1
  <2> QED
    BY <2>1, RequestsStaySound
<1>2. ASSUME push' = push PROVE PushInv'
  <2>1. \A q \in Push : push'[q] = push[q] \/ (q = to /\ push'[q] = to)
    BY <1>2
  <2> QED
    BY <2>1, PushesStaySound
<1> QED
  BY <1>1, <1>2

-----------------------------------------------------------------------------
(* The steps of a push *)

\* Reading the definition, and having nothing to try, change only the push.
LEMMA PlanKeeps ==
    ASSUME MigrationInv, NEW p \in Push,
           (\E want \in SUBSET Table : ReadDefinition(p, want)) \/ SkipProbe(p)
    PROVE  MigrationInv'
<1> USE DEF MigrationInv
<1>1. /\ UNCHANGED <<current, schema, stage, recorded, physical, req, cache, reached>>
      /\ push[p].pc # "probed"
  <2>1. ASSUME NEW want, ReadDefinition(p, want)
        PROVE  /\ UNCHANGED <<current, schema, stage, recorded, physical, req, cache, reached>>
               /\ push[p].pc # "probed"
    BY <2>1 DEF ReadDefinition, primary, Idle
  <2>2. ASSUME SkipProbe(p)
        PROVE  /\ UNCHANGED <<current, schema, stage, recorded, physical, req, cache, reached>>
               /\ push[p].pc # "probed"
    BY <2>2 DEF SkipProbe, primary
  <2> QED
    BY <2>1, <2>2
<1>2. PICK to :
          /\ push' = [push EXCEPT ![p] = to] /\ to \in PushState /\ to # Idle
          /\ to.seen <= current /\ to.seen < MaxVersion
          /\ \A d \in Db : ~(to.pc = "probed" /\ to.probe = d)
  <2>1. ASSUME NEW want \in SUBSET Table, ReadDefinition(p, want)
        PROVE  \E to : /\ push' = [push EXCEPT ![p] = to] /\ to \in PushState /\ to # Idle
                       /\ to.seen <= current /\ to.seen < MaxVersion
                       /\ \A d \in Db : ~(to.pc = "probed" /\ to.probe = d)
    <3>1. PICK to : to = [pc |-> "read", seen |-> current, want |-> want]
      OBVIOUS
    <3>2. to \in PushState /\ to # Idle /\ to.seen = current /\ to.pc = "read"
      BY <3>1, VersionsTyped DEF PushState, PushRead, Idle
    <3>3. push' = [push EXCEPT ![p] = to] /\ current < MaxVersion /\ current <= current
      BY <2>1, <3>1, VersionsTyped DEF ReadDefinition, PGoto
    <3> QED
      BY <3>2, <3>3
  <2>2. ASSUME SkipProbe(p)
        PROVE  \E to : /\ push' = [push EXCEPT ![p] = to] /\ to \in PushState /\ to # Idle
                       /\ to.seen <= current /\ to.seen < MaxVersion
                       /\ \A d \in Db : ~(to.pc = "probed" /\ to.probe = d)
    <3>1. push[p] \in PushRead /\ push[p] # Idle
      BY <2>2, StatesByPc DEF SkipProbe, Idle
    <3>2. PICK to : to = [pc |-> "probed", seen |-> push[p].seen, want |-> push[p].want,
                          probe |-> None]
      OBVIOUS
    <3>3. /\ to \in PushState /\ to # Idle /\ to.seen = push[p].seen /\ to.probe = None
      BY <3>1, <3>2 DEF PushState, PushRead, PushProbed, Idle
    <3>4. push[p].seen <= current /\ push[p].seen < MaxVersion
      BY <3>1 DEF PushInv
    <3>5. push' = [push EXCEPT ![p] = to]
      BY <2>2, <3>2 DEF SkipProbe, PGoto
    <3> QED
      BY <3>3, <3>4, <3>5, MigrationAssumption
  <2> QED
    BY <2>1, <2>2
<1>3. /\ push \in [Push -> PushState] /\ push'[p] = to
      /\ \A q \in Push \ {p} : push'[q] = push[q]
  BY <1>2 DEF TypeOK, PushState
<1>4. TypeOK' /\ Onward
  BY <1>1, <1>2, <1>3, VersionsTyped DEF TypeOK, PushState, Onward, Built
<1>5. RowInv' /\ RequestInv'
  BY <1>1, <1>4, NobodyMoves DEF RowInv, AtLeast
<1>6. PushInv'
  <2>1. \A q \in Push : push'[q] = push[q] \/ (q = p /\ push'[q] = to)
    BY <1>3
  <2>2. /\ to.seen <= current' /\ to.seen < MaxVersion
        /\ \A d \in Db : to.pc = "probed" /\ to.probe = d => Built(d)
    BY <1>1, <1>2
  <2> QED
    BY <1>4, <2>1, <2>2, PushesStaySound
<1>7. TryInv' /\ TrackInv'
  <2>1. \A q \in Push, d \in Db : Tried(q, d)' <=> Tried(q, d)
    BY <1>1, <1>2, <1>3 DEF Tried
  <2>2. \A q \in Push, d \in Db : Tried(q, d) => push'[q] = push[q]
    BY <1>1, <1>3 DEF Tried
  <2> QED
    BY <1>1, <2>1, <2>2, TablesStay
<1> QED
  BY <1>4, <1>5, <1>6, <1>7

\* The SQL of a push leads from the tables of the version it read to the tables it
\* wants, when these are what it finds.
LEMMA ResultIsWanted == \A old, new : Result(old, old, new) = new
BY DEF Result, Drops, Creates

\* Trying the SQL brings a database on the push's version to the next one, and
\* the tables of any other database are not tracked from then on.
LEMMA ProbeKeeps ==
    ASSUME MigrationInv, NEW p \in Push, Probe(p)
    PROVE  MigrationInv'
<1> USE DEF MigrationInv
<1>1. PICK f : f = First
  OBVIOUS
<1>2. PICK q : q = push[p]
  OBVIOUS
<1>3. /\ f \in Db /\ stage[f] = "live" /\ Built(f)
      /\ q \in PushRead /\ q.pc = "read" /\ q # Idle
  BY <1>1, <1>2, FirstHasRow, StatesByPc DEF Probe, Built, Idle
<1>4. /\ q.seen \in Version /\ q.seen \in Nat /\ q.seen # 0 /\ q.want \in SUBSET Table
      /\ q.seen <= current /\ q.seen < MaxVersion /\ q.seen + 1 \in Version
  <2>1. q.seen \in Version /\ q.want \in SUBSET Table
    BY <1>3 DEF PushRead
  <2>2. q.seen <= current /\ q.seen < MaxVersion
    BY <1>2, <1>3 DEF PushInv
  <2>3. q.seen \in Nat /\ q.seen # 0
    BY <2>1, VersionsAreNumbers
  <2>4. q.seen + 1 \in Nat /\ 1 <= q.seen + 1 /\ q.seen + 1 <= MaxVersion
    BY <2>2, <2>3, VersionsAreNumbers
  <2> QED
    BY <2>1, <2>2, <2>3, <2>4, VersionsAreNumbers
<1>5. PICK to :
          /\ to = Idle \/ to = [pc |-> "probed", seen |-> q.seen, want |-> q.want, probe |-> f]
          /\ push' = [push EXCEPT ![p] = to]
          /\ reached' = [reached EXCEPT ![f] =
                            IF to # Idle /\ reached[f] = q.seen THEN q.seen + 1 ELSE 0]
  <2>1. PICK tried : tried = [pc |-> "probed", seen |-> q.seen, want |-> q.want, probe |-> f]
    OBVIOUS
  <2>2. tried # Idle
    BY <2>1 DEF Idle
  <2>3. \/ /\ push' = [push EXCEPT ![p] = tried]
           /\ reached' = [reached EXCEPT ![f] = IF reached[f] = q.seen THEN q.seen + 1 ELSE 0]
        \/ /\ push' = [push EXCEPT ![p] = Idle]
           /\ reached' = [reached EXCEPT ![f] = 0]
    BY <1>1, <1>2, <2>1 DEF Probe, PGoto
  <2> QED
    BY <2>1, <2>2, <2>3
<1>6. /\ physical' = [physical EXCEPT ![f] = Result(physical[f], schema[q.seen], q.want)]
      /\ UNCHANGED <<current, schema, stage, recorded, req, cache>>
  BY <1>1, <1>2 DEF Probe, primary
<1>7. /\ push \in [Push -> PushState] /\ push'[p] = to /\ to \in PushState
      /\ \A s \in Push \ {p} : push'[s] = push[s]
  BY <1>3, <1>4, <1>5 DEF TypeOK, PushState, PushProbed
<1>8. /\ to # Idle => to.seen = q.seen /\ to.pc = "probed" /\ to.probe = f /\ to.want = q.want
      /\ \A d \in Db : (to.pc = "probed" /\ to.probe = d) <=> (to # Idle /\ d = f)
  BY <1>5 DEF Idle
<1>9. TypeOK'
  <2>1. Result(physical[f], schema[q.seen], q.want) \in SUBSET Table
    BY <1>3, <1>4 DEF TypeOK, Result, Drops, Creates
  <2>2. push' \in [Push -> {Idle} \cup PushRead \cup PushProbed]
    BY <1>5, <1>7 DEF PushState
  <2>3. reached' \in [Db -> Version \cup {0}]
    BY <1>3, <1>4, <1>5 DEF TypeOK
  <2>4. physical' \in [Db -> SUBSET Table]
    BY <1>6, <2>1 DEF TypeOK
  <2> QED
    BY <1>6, <2>2, <2>3, <2>4 DEF TypeOK
<1>10. /\ reached'[f] # 0 => to # Idle /\ reached[f] = q.seen /\ reached'[f] = q.seen + 1
       /\ \A d \in Db \ {f} : reached'[d] = reached[d] /\ physical'[d] = physical[d]
       /\ physical'[f] = Result(physical[f], schema[q.seen], q.want)
  BY <1>3, <1>5, <1>6 DEF TypeOK
<1>11. Onward
  BY <1>4, <1>6, <1>10, VersionsTyped DEF Onward, Built
<1>12. RequestInv' /\ RowInv'
  <2>1. \A d \in Db : AtLeast(d, recorded[d])'
    BY <1>4, <1>6, <1>10, VersionsTyped DEF RowInv, AtLeast
  <2> QED
    BY <1>6, <1>9, <1>11, <2>1, NobodyMoves DEF RowInv
<1>13. PushInv'
  <2>1. \A s \in Push : push'[s] = push[s] \/ (s = p /\ push'[s] = to)
    BY <1>7
  <2>2. to # Idle => /\ to.seen <= current' /\ to.seen < MaxVersion
                     /\ \A d \in Db : to.pc = "probed" /\ to.probe = d => Built(d)
    BY <1>3, <1>4, <1>6, <1>8
  <2> QED
    BY <1>9, <1>11, <2>1, <2>2, PushesStaySound
<1>14. \A s \in Push, d \in Db : Tried(s, d)' <=> \/ s # p /\ Tried(s, d)
                                                  \/ s = p /\ to # Idle /\ d = f
  BY <1>7, <1>8 DEF Tried
<1>15. TryInv'
  <2> SUFFICES ASSUME NEW s \in Push, NEW d \in Db, Tried(s, d)', push'[s].seen = current,
                      reached'[d] # 0
               PROVE  /\ reached'[d] = current + 1
                      /\ \/ physical'[d] = push'[s].want
                         \/ \E t \in Push \ {s} : Tried(t, d)'
    BY <1>6 DEF TryInv
  <2>1. CASE d = f /\ s = p
    <3>1. reached[f] = current /\ reached'[f] = current + 1 /\ push'[s].want = q.want
          /\ q.seen = current
      BY <1>7, <1>8, <1>10, <1>14, <2>1
    <3>2. CASE UnderProbe(f)
      <4>1. PICK t \in Push : Tried(t, f)
        BY <3>2 DEF UnderProbe
      <4>2. t # p
        BY <1>2, <1>3, <4>1 DEF Tried
      <4> QED
        BY <1>14, <2>1, <3>1, <4>1, <4>2
    <3>3. CASE ~UnderProbe(f)
      <4>1. current # 0
        BY VersionsTyped, VersionsAreNumbers
      <4>2. physical[f] = schema[current]
        BY <1>3, <3>1, <3>3, <4>1 DEF TrackInv
      <4>3. physical'[f] = q.want
        BY <1>10, <3>1, <4>2, ResultIsWanted
      <4> QED
        BY <2>1, <3>1, <4>3
    <3> QED
      BY <3>2, <3>3
  <2>2. CASE d = f /\ s # p
    <3>1. Tried(s, f) /\ push[s].seen = current /\ reached[f] = q.seen /\ reached[f] # 0
      BY <1>4, <1>7, <1>10, <1>14, <2>2
    <3>2. reached[f] = current + 1
      BY <1>3, <3>1 DEF TryInv
    <3> QED
      BY <1>4, <3>1, <3>2, VersionsTyped
  <2>3. CASE d # f
    <3>1. Tried(s, d) /\ push'[s] = push[s] /\ s # p
      BY <1>7, <1>14, <2>3
    <3>2. \A t \in Push : Tried(t, d) => Tried(t, d)'
      BY <1>2, <1>3, <1>14 DEF Tried
    <3> QED
      BY <1>10, <2>3, <3>1, <3>2 DEF TryInv
  <2> QED
    BY <2>1, <2>2, <2>3
<1>16. TrackInv'
  <2> SUFFICES ASSUME NEW d \in Db, stage[d] \in {"building", "live"}, reached'[d] # 0,
                      ~UnderProbe(d)'
               PROVE  reached'[d] <= current /\ physical'[d] = schema[reached'[d]]
    BY <1>6 DEF TrackInv
  <2>1. d # f
    BY <1>10, <1>14 DEF UnderProbe
  <2>2. ~UnderProbe(d)
    BY <1>2, <1>3, <1>14 DEF UnderProbe, Tried
  <2> QED
    BY <1>10, <2>1, <2>2 DEF TrackInv
<1> QED
  BY <1>9, <1>12, <1>13, <1>15, <1>16

\* Publishing makes current the version to which the push has brought the database
\* it tried; every other version stays what it was.
LEMMA PublishKeeps ==
    ASSUME MigrationInv, NEW p \in Push, Publish(p)
    PROVE  MigrationInv'
<1> USE DEF MigrationInv
<1>1. PICK q : q = push[p]
  OBVIOUS
<1>2. PICK to : to = Idle
  OBVIOUS
<1>3. /\ q \in PushProbed /\ q.pc = "probed" /\ q # Idle /\ q.seen = current
      /\ q.want \in SUBSET Table
  BY <1>1, StatesByPc DEF Publish, PushProbed, Idle
<1>4. /\ current \in Nat /\ current \in Version /\ current + 1 \in Version
      /\ ~(current + 1 <= current)
  <2>1. current < MaxVersion /\ current \in Nat
    BY <1>1, <1>3, VersionsTyped DEF PushInv
  <2>2. 1 <= current + 1 /\ current + 1 <= MaxVersion /\ current + 1 \in Nat
    BY <2>1, VersionsAreNumbers
  <2> QED
    BY <2>1, <2>2, VersionsAreNumbers, VersionsTyped
<1>5. /\ current' = current + 1 /\ push' = [push EXCEPT ![p] = to]
      /\ schema' = [schema EXCEPT ![current + 1] = q.want]
      /\ recorded' = [d \in Db |-> IF d = q.probe /\ HasRow(d) THEN current + 1
                                                              ELSE recorded[d]]
      /\ UNCHANGED <<stage, physical, cache, req, reached>>
  BY <1>1, <1>2, <1>3 DEF Publish, PGoto
<1>6. /\ push \in [Push -> PushState] /\ push'[p] = to /\ to \in PushState
      /\ \A s \in Push \ {p} : push'[s] = push[s]
  BY <1>2, <1>5 DEF TypeOK, PushState
<1>7. TypeOK'
  <2>1. push' \in [Push -> {Idle} \cup PushRead \cup PushProbed]
    BY <1>5, <1>6 DEF PushState
  <2>2. /\ schema' \in [Version -> SUBSET Table]
        /\ recorded' \in [Db -> Version \cup {0}]
    BY <1>3, <1>4, <1>5 DEF TypeOK
  <2> QED
    BY <1>4, <1>5, <2>1, <2>2 DEF TypeOK
<1>8. /\ schema'[current + 1] = q.want
      /\ \A v \in Version : v <= current => schema'[v] = schema[v]
  BY <1>4, <1>5 DEF TypeOK
<1>9. Onward
  BY <1>4, <1>5, VersionsTyped DEF Onward, Built
<1>10. \A d \in Db : Tried(p, d) /\ reached[d] # 0 =>
          /\ reached[d] = current + 1
          /\ \/ physical[d] = q.want
             \/ \E s \in Push \ {p} : Tried(s, d)
  BY <1>1, <1>3 DEF TryInv
<1>11. \A s \in Push, d \in Db : Tried(s, d)' <=> s # p /\ Tried(s, d)
  BY <1>2, <1>6 DEF Tried, Idle
<1>12. RowInv' /\ RequestInv'
  <2>1. ASSUME NEW d \in Db
        PROVE  /\ recorded'[d] <= current' /\ AtLeast(d, recorded[d])'
               /\ stage'[d] # "absent" => recorded'[d] # 0
    <3>1. CASE d = q.probe /\ HasRow(d)
      <4>1. Tried(p, d)
        BY <1>1, <1>3, <3>1 DEF Tried
      <4>2. recorded'[d] = current + 1 /\ current' = current + 1
        BY <1>5, <3>1
      <4> QED
        BY <1>4, <1>5, <1>10, <4>1, <4>2 DEF AtLeast
    <3>2. CASE ~(d = q.probe /\ HasRow(d))
      <4>1. recorded'[d] = recorded[d] /\ reached'[d] = reached[d]
        BY <1>5, <3>2
      <4>2. /\ recorded[d] <= current /\ AtLeast(d, recorded[d])
            /\ stage[d] # "absent" => recorded[d] # 0
        BY DEF RowInv
      <4> QED
        BY <1>4, <1>5, <4>1, <4>2, VersionsTyped DEF AtLeast
    <3> QED
      BY <3>1, <3>2
  <2>2. cache' <= current'
    BY <1>4, <1>5, VersionsTyped DEF RowInv
  <2> QED
    BY <1>5, <1>7, <1>9, <2>1, <2>2, NobodyMoves DEF RowInv
<1>13. PushInv'
  <2>1. \A s \in Push : push'[s] = push[s] \/ (s = p /\ push'[s] = to)
    BY <1>6
  <2> QED
    BY <1>2, <1>7, <1>9, <2>1, PushesStaySound
<1>14. TryInv'
  <2> SUFFICES ASSUME NEW s \in Push, NEW d \in Db, Tried(s, d)', push'[s].seen = current'
               PROVE  FALSE
    BY DEF TryInv
  <2>1. s # p /\ push'[s] = push[s] /\ push[s] # Idle
    BY <1>6, <1>11 DEF Tried, Idle
  <2>2. push[s].seen <= current
    BY <2>1 DEF PushInv
  <2> QED
    BY <1>4, <1>5, <2>1, <2>2
<1>15. TrackInv'
  <2> SUFFICES ASSUME NEW d \in Db, stage[d] \in {"building", "live"}, reached[d] # 0,
                      ~UnderProbe(d)'
               PROVE  reached[d] <= current' /\ physical[d] = schema'[reached[d]]
    BY <1>5 DEF TrackInv
  <2>1. \A s \in Push \ {p} : ~Tried(s, d)
    BY <1>11 DEF UnderProbe
  <2>2. CASE Tried(p, d)
    BY <1>4, <1>5, <1>8, <1>10, <2>1, <2>2
  <2>3. CASE ~Tried(p, d)
    <3>1. reached[d] <= current /\ physical[d] = schema[reached[d]]
      BY <2>1, <2>3 DEF TrackInv, UnderProbe
    <3>2. reached[d] \in Version /\ reached[d] \in Nat
      BY VersionsTyped DEF TypeOK
    <3> QED
      BY <1>4, <1>5, <1>8, <3>1, <3>2
  <2> QED
    BY <2>2, <2>3
<1> QED
  BY <1>7, <1>12, <1>13, <1>14, <1>15

\* A failed push leaves the database it tried untracked.
LEMMA FailPushKeeps ==
    ASSUME MigrationInv, NEW p \in Push, FailPush(p)
    PROVE  MigrationInv'
<1> USE DEF MigrationInv
<1>1. PICK to : to = Idle
  OBVIOUS
<1>2. /\ push' = [push EXCEPT ![p] = to]
      /\ reached' = [d \in Db |-> IF Tried(p, d) THEN 0 ELSE reached[d]]
      /\ UNCHANGED <<current, schema, stage, recorded, physical, cache, req>>
  BY <1>1 DEF FailPush, PGoto, Untrack, primary
<1>3. /\ push \in [Push -> PushState] /\ push'[p] = to /\ to \in PushState
      /\ \A s \in Push \ {p} : push'[s] = push[s]
  BY <1>1, <1>2 DEF TypeOK, PushState
<1>4. TypeOK'
  <2>1. push' \in [Push -> {Idle} \cup PushRead \cup PushProbed]
    BY <1>2, <1>3 DEF PushState
  <2> QED
    BY <1>2, <2>1 DEF TypeOK
<1>5. /\ Onward
      /\ \A d \in Db : reached'[d] # 0 => reached'[d] = reached[d] /\ ~Tried(p, d)
  BY <1>2, VersionsTyped DEF Onward, Built
<1>6. RowInv' /\ RequestInv'
  <2>1. \A d \in Db : AtLeast(d, recorded[d])'
    BY <1>2, <1>5 DEF RowInv, AtLeast
  <2> QED
    BY <1>2, <1>4, <1>5, <2>1, NobodyMoves DEF RowInv
<1>7. PushInv'
  <2>1. \A s \in Push : push'[s] = push[s] \/ (s = p /\ push'[s] = to)
    BY <1>3
  <2> QED
    BY <1>1, <1>4, <1>5, <2>1, PushesStaySound
<1>8. \A s \in Push, d \in Db : Tried(s, d)' <=> s # p /\ Tried(s, d)
  BY <1>1, <1>3 DEF Tried, Idle
<1>9. TryInv'
  <2> SUFFICES ASSUME NEW s \in Push, NEW d \in Db, Tried(s, d)', push'[s].seen = current,
                      reached'[d] # 0
               PROVE  /\ reached'[d] = current + 1
                      /\ \/ physical[d] = push'[s].want
                         \/ \E t \in Push \ {s} : Tried(t, d)'
    BY <1>2 DEF TryInv
  <2>1. s # p /\ Tried(s, d) /\ push'[s] = push[s] /\ reached'[d] = reached[d] /\ ~Tried(p, d)
    BY <1>3, <1>5, <1>8
  <2> QED
    BY <1>8, <2>1 DEF TryInv
<1>10. TrackInv'
  <2> SUFFICES ASSUME NEW d \in Db, stage[d] \in {"building", "live"}, reached'[d] # 0,
                      ~UnderProbe(d)'
               PROVE  reached'[d] <= current /\ physical[d] = schema[reached'[d]]
    BY <1>2 DEF TrackInv
  <2>1. reached'[d] = reached[d] /\ ~UnderProbe(d)
    BY <1>5, <1>8 DEF UnderProbe
  <2> QED
    BY <2>1 DEF TrackInv
<1> QED
  BY <1>4, <1>6, <1>7, <1>9, <1>10

-----------------------------------------------------------------------------
(* Creating and deleting databases *)

\* A database is built with the tables of the version its row will record.
LEMMA BuildKeeps ==
    ASSUME MigrationInv, NEW d \in Db, BuildRemote(d)
    PROVE  MigrationInv'
<1> USE DEF MigrationInv
<1>1. /\ stage[d] = "absent" /\ ~Built(d)
      /\ stage' = [stage EXCEPT ![d] = "building"]
      /\ recorded' = [recorded EXCEPT ![d] = current]
      /\ physical' = [physical EXCEPT ![d] = schema[current]]
      /\ reached' = [reached EXCEPT ![d] = current]
      /\ UNCHANGED <<current, schema, cache, push, req>>
  BY DEF BuildRemote, Built
<1>2. current \in Version /\ current \in Nat /\ schema[current] \in SUBSET Table
  BY VersionsTyped DEF TypeOK
<1>3. TypeOK'
  BY <1>1, <1>2 DEF TypeOK
<1>4. /\ reached'[d] = current /\ physical'[d] = schema[current] /\ recorded'[d] = current
      /\ \A e \in Db \ {d} : /\ stage'[e] = stage[e] /\ recorded'[e] = recorded[e]
                            /\ physical'[e] = physical[e] /\ reached'[e] = reached[e]
  BY <1>1 DEF TypeOK
<1>5. Onward
  BY <1>1, <1>4, VersionsTyped DEF Onward, Built
<1>6. RowInv'
  <2>1. ASSUME NEW e \in Db
        PROVE  /\ recorded'[e] <= current' /\ AtLeast(e, recorded[e])'
               /\ stage'[e] # "absent" => recorded'[e] # 0
    BY <1>1, <1>2, <1>4, VersionsAreNumbers DEF RowInv, AtLeast
  <2> QED
    BY <1>1, <2>1 DEF RowInv
<1>7. RequestInv' /\ PushInv'
  BY <1>1, <1>3, <1>5, NobodyMoves
<1>8. \A s \in Push, e \in Db : (Tried(s, e)' <=> Tried(s, e)) /\ (Tried(s, e) => e # d)
  <2>1. \A s \in Push, e \in Db : Tried(s, e) => Built(e)
    BY DEF PushInv, Tried, Idle
  <2> QED
    BY <1>1, <2>1 DEF Tried
<1>9. TryInv'
  BY <1>1, <1>4, <1>8 DEF TryInv
<1>10. TrackInv'
  <2> SUFFICES ASSUME NEW e \in Db, stage'[e] \in {"building", "live"}, reached'[e] # 0,
                      ~UnderProbe(e)'
               PROVE  reached'[e] <= current /\ physical'[e] = schema[reached'[e]]
    BY <1>1 DEF TrackInv
  <2>1. CASE e = d
    BY <1>2, <1>4, <2>1
  <2>2. CASE e # d
    BY <1>4, <1>8, <2>2 DEF TrackInv, UnderProbe
  <2> QED
    BY <2>1, <2>2
<1> QED
  BY <1>3, <1>6, <1>7, <1>9, <1>10

\* The other steps of a database's life only move it on.
LEMMA StageKeeps ==
    ASSUME MigrationInv, NEW d \in Db,
           InsertRow(d) \/ AbandonCreate(d) \/ DestroyRemote(d) \/ RemoveRow(d)
    PROVE  MigrationInv'
<1> USE DEF MigrationInv
<1>1. UNCHANGED <<current, schema, recorded, physical, cache, push, req, reached>>
  BY DEF InsertRow, AbandonCreate, DestroyRemote, RemoveRow
<1>2. \E to \in {"live", "destroyed", "removed"} :
          /\ stage' = [stage EXCEPT ![d] = to]
          /\ to = "live" => stage[d] = "building"
          /\ stage[d] # "absent"
  BY DEF InsertRow, AbandonCreate, DestroyRemote, RemoveRow
<1>3. TypeOK'
  BY <1>1, <1>2 DEF TypeOK
<1>4. /\ \A e \in Db : Built(e) => Built(e)'
      /\ \A e \in Db : stage'[e] \in {"building", "live"} => stage[e] \in {"building", "live"}
      /\ \A e \in Db : stage'[e] # "absent" => stage[e] # "absent"
  BY <1>2 DEF TypeOK, Built
<1>5. Onward
  BY <1>1, <1>4, VersionsTyped DEF Onward
<1>6. RowInv' /\ RequestInv' /\ PushInv'
  BY <1>1, <1>3, <1>4, <1>5, NobodyMoves DEF RowInv, AtLeast
<1>7. TryInv' /\ TrackInv'
  <2>1. \A s \in Push, e \in Db : Tried(s, e)' <=> Tried(s, e)
    BY <1>1 DEF Tried
  <2> QED
    BY <1>1, <1>4, <2>1, TablesStay
<1> QED
  BY <1>3, <1>6, <1>7

-----------------------------------------------------------------------------
(* The steps of a data request *)

\* What a request does short of the batch: it moves to a sound state, the cache
\* gets a published version, a row one that its tables have reached.
LEMMA RequestMoves ==
    ASSUME MigrationInv,
           UNCHANGED <<current, schema, stage, physical, push, reached>>,
           cache' \in Version \cup {0}, cache' <= current,
           recorded' \in [Db -> Version \cup {0}],
           \A d \in Db : /\ recorded'[d] <= current /\ AtLeast(d, recorded'[d])
                         /\ stage[d] # "absent" => recorded'[d] # 0,
           NEW r \in Request, NEW to \in RequestState, to # Idle => Sound(to),
           req' = [req EXCEPT ![r] = to]
    PROVE  MigrationInv'
<1> USE DEF MigrationInv
<1>1. /\ req' \in [Request -> {Idle} \cup Resolved \cup Loading \cup Serving]
      /\ \A s \in Request : req'[s] = req[s] \/ (s = r /\ req'[s] = to)
  BY DEF TypeOK, RequestState
<1>2. TypeOK'
  BY <1>1 DEF TypeOK
<1>3. Onward
  BY VersionsTyped DEF Onward, Built
<1>4. RowInv' /\ PushInv'
  <2>1. \A d \in Db : /\ recorded'[d] <= current' /\ AtLeast(d, recorded[d])'
                      /\ stage'[d] # "absent" => recorded'[d] # 0
    BY DEF AtLeast
  <2> QED
    BY <1>2, <1>3, <2>1, NobodyMoves DEF RowInv
<1>5. RequestInv'
  <2>1. to # Idle => Sound(to)'
    BY DEF Sound, Built, AtLeast
  <2> QED
    BY <1>1, <1>2, <1>3, <2>1, RequestsStaySound
<1>6. TryInv' /\ TrackInv'
  <2>1. \A s \in Push, e \in Db : Tried(s, e)' <=> Tried(s, e)
    BY DEF Tried
  <2> QED
    BY <2>1, TablesStay
<1> QED
  BY <1>2, <1>4, <1>5, <1>6

\* A request learns versions from the row, the definition and the cache, all of
\* them published, and serves the one its tables have.
LEMMA RequestKeeps ==
    ASSUME MigrationInv, NEW r \in Request,
           \/ \E d \in Db : ResolveTarget(r, d)
           \/ HitDefinition(r) \/ LoadDefinition(r) \/ SetDefinition(r)
           \/ NoMigration(r) \/ Finish(r)
    PROVE  MigrationInv'
<1> USE DEF MigrationInv
<1>1. PICK q : q = req[r]
  OBVIOUS
<1>2. /\ q # Idle => Sound(q)
      /\ q.pc = "resolved" => q \in Resolved /\ q # Idle
      /\ q.pc \in {"missed", "loaded", "recording"} => q \in Loading /\ q # Idle
  BY <1>1, StatesByPc DEF RequestInv, Idle
<1>3. /\ UNCHANGED <<current, schema, stage, physical, push, reached, recorded>>
      /\ cache' # cache => SetDefinition(r)
  BY DEF ResolveTarget, HitDefinition, LoadDefinition, SetDefinition, NoMigration, Finish,
         primary
<1>4. /\ recorded' \in [Db -> Version \cup {0}]
      /\ \A d \in Db : /\ recorded'[d] <= current /\ AtLeast(d, recorded'[d])
                       /\ stage[d] # "absent" => recorded'[d] # 0
  BY <1>3 DEF TypeOK, RowInv
<1>5. cache' \in Version \cup {0} /\ cache' <= current
  <2>1. CASE SetDefinition(r)
    BY <1>1, <1>2, <2>1 DEF SetDefinition, Sound, Loading
  <2>2. CASE ~SetDefinition(r)
    BY <1>3, <2>2 DEF TypeOK, RowInv
  <2> QED
    BY <2>1, <2>2
<1>6. ASSUME NEW to \in RequestState, to # Idle => Sound(to), req' = [req EXCEPT ![r] = to]
      PROVE  MigrationInv'
  BY <1>3, <1>4, <1>5, <1>6, RequestMoves
<1>7. CASE \E d \in Db : ResolveTarget(r, d)
  <2>1. PICK d \in Db : ResolveTarget(r, d)
    BY <1>7
  <2>2. PICK to : to = [pc |-> "resolved", db |-> d, from |-> recorded[d]]
    OBVIOUS
  <2>3. recorded[d] \in Version
    BY <2>1 DEF ResolveTarget, HasRow, TypeOK, RowInv
  <2>4. to \in RequestState /\ Sound(to)
    BY <2>1, <2>2, <2>3 DEF ResolveTarget, HasRow, RequestState, Resolved, Sound, Built, RowInv
  <2> QED
    BY <1>6, <2>1, <2>2, <2>4 DEF ResolveTarget, Goto
<1>8. CASE HitDefinition(r)
  <2>1. PICK to : to = [pc |-> "loaded", db |-> q.db, from |-> q.from, to |-> cache]
    OBVIOUS
  <2>2. q \in Resolved /\ Sound(q) /\ cache \in Version /\ cache <= current
    BY <1>1, <1>2, <1>8 DEF HitDefinition, TypeOK, RowInv
  <2>3. to \in RequestState /\ Sound(to)
    BY <2>1, <2>2 DEF RequestState, Resolved, Loading, Sound, Built, AtLeast
  <2> QED
    BY <1>1, <1>6, <1>8, <2>1, <2>3 DEF HitDefinition, Goto, With
<1>9. CASE LoadDefinition(r)
  <2>1. PICK to : to = [pc |-> "missed", db |-> q.db, from |-> q.from, to |-> current]
    OBVIOUS
  <2>2. q \in Resolved /\ Sound(q) /\ current \in Version /\ current <= current
    BY <1>1, <1>2, <1>9, VersionsTyped DEF LoadDefinition
  <2>3. to \in RequestState /\ Sound(to)
    BY <2>1, <2>2 DEF RequestState, Resolved, Loading, Sound, Built, AtLeast
  <2> QED
    BY <1>1, <1>6, <1>9, <2>1, <2>3 DEF LoadDefinition, Goto, With
<1>10. CASE SetDefinition(r)
  <2>1. PICK to : to = [pc |-> "loaded", db |-> q.db, from |-> q.from, to |-> q.to]
    OBVIOUS
  <2>2. q \in Loading /\ q.pc = "missed" /\ Sound(q)
    BY <1>1, <1>2, <1>10 DEF SetDefinition
  <2>3. to \in RequestState /\ Sound(to)
    BY <2>1, <2>2 DEF RequestState, Loading, Sound, Built, AtLeast
  <2> QED
    BY <1>1, <1>6, <1>10, <2>1, <2>3 DEF SetDefinition, Goto, With
<1>11. CASE NoMigration(r)
  <2>1. PICK to : to = [pc |-> "serving", db |-> q.db, version |-> q.from]
    OBVIOUS
  <2>2. q \in Loading /\ q.pc = "loaded" /\ Sound(q)
    BY <1>1, <1>2, <1>11 DEF NoMigration
  <2>3. to \in RequestState /\ Sound(to)
    BY <2>1, <2>2 DEF RequestState, Loading, Serving, Sound, Built, AtLeast
  <2> QED
    BY <1>1, <1>6, <1>11, <2>1, <2>3 DEF NoMigration, Goto
<1>12. CASE Finish(r)
  <2>1. PICK to : to = Idle
    OBVIOUS
  <2> QED
    BY <1>6, <1>12, <2>1 DEF Finish, Goto, RequestState
<1> QED
  BY <1>7, <1>8, <1>9, <1>10, <1>11, <1>12

\* The batch of a request brings a database whose tables are of a version on its
\* way to its last version.  No push that can still be published has tried its SQL
\* there: that database would be ahead of the definition.
LEMMA BatchKeeps ==
    ASSUME MigrationInv, NEW r \in Request, MigrateBatch(r)
    PROVE  MigrationInv'
<1> USE DEF MigrationInv
<1>1. PICK q : q = req[r]
  OBVIOUS
<1>2. PICK d : d = q.db
  OBVIOUS
<1>3. PICK to : to = [pc |-> "recording", db |-> q.db, from |-> q.from, to |-> q.to]
  OBVIOUS
<1>4. PICK tables : tables = Batch(physical[d], q.from, q.to)[q.to]
  OBVIOUS
<1>5. /\ q \in Loading /\ q.pc = "loaded" /\ Sound(q) /\ d \in Db /\ q.from < q.to
      /\ stage[d] = "live"
  <2>1. q.pc = "loaded" /\ q.from < q.to /\ stage[d] = "live"
    BY <1>1, <1>2 DEF MigrateBatch
  <2>2. q \in Loading /\ q # Idle
    BY <1>1, <2>1, StatesByPc DEF Idle
  <2> QED
    BY <1>1, <1>2, <2>1, <2>2 DEF RequestInv, Loading
<1>6. /\ q.from \in Version /\ q.from \in Nat /\ q.from # 0
      /\ q.to \in Version /\ q.to \in Nat /\ q.to # 0
      /\ q.from <= q.to /\ q.to <= current /\ AtLeast(d, q.from)
  BY <1>2, <1>5, VersionsAreNumbers DEF Loading, Sound
<1>7. /\ physical' = [physical EXCEPT ![d] = tables]
      /\ reached' = [reached EXCEPT ![d] = IF reached[d] \in q.from..q.to THEN q.to ELSE 0]
      /\ req' = [req EXCEPT ![r] = to] \/ req' = req
      /\ UNCHANGED <<current, schema, stage, recorded, cache, push>>
  BY <1>1, <1>2, <1>3, <1>4 DEF MigrateBatch, Goto, With, primary
<1>8. /\ tables \in SUBSET Table
      /\ \A m \in q.from..q.to : physical[d] = schema[m] => tables = schema[q.to]
  <2>1. physical[d] \in SUBSET Table
    BY <1>5 DEF TypeOK
  <2> QED
    BY <1>4, <1>6, <2>1, BatchEnds
<1>9. to \in RequestState /\ to # Idle
  BY <1>3, <1>5 DEF RequestState, Loading, Idle
<1>10. /\ req' \in [Request -> {Idle} \cup Resolved \cup Loading \cup Serving]
       /\ \A s \in Request : req'[s] = req[s] \/ (s = r /\ req'[s] = to)
  BY <1>7, <1>9 DEF TypeOK, RequestState
<1>11. TypeOK'
  BY <1>5, <1>6, <1>7, <1>8, <1>10 DEF TypeOK
<1>12. /\ reached'[d] # 0 => reached[d] \in q.from..q.to /\ reached'[d] = q.to
       /\ physical'[d] = tables
       /\ \A e \in Db \ {d} : reached'[e] = reached[e] /\ physical'[e] = physical[e]
  BY <1>5, <1>7 DEF TypeOK
<1>13. Onward
  BY <1>6, <1>7, <1>12, VersionsTyped DEF Onward, Built
<1>14. RowInv' /\ PushInv'
  <2>1. ASSUME NEW e \in Db PROVE AtLeast(e, recorded[e])'
    BY <1>6, <1>7, <1>12, VersionsTyped DEF RowInv, AtLeast
  <2> QED
    BY <1>7, <1>11, <1>13, <2>1, NobodyMoves DEF RowInv
<1>15. RequestInv'
  <2>1. Sound(to)'
    <3>1. Sound(q)'
      BY <1>5, <1>11, <1>13, SoundLasts
    <3>2. AtLeast(d, q.to)'
      BY <1>6, <1>12 DEF AtLeast
    <3> QED
      BY <1>2, <1>3, <1>5, <3>1, <3>2 DEF Sound, Built, AtLeast
  <2> QED
    BY <1>10, <1>11, <1>13, <2>1, RequestsStaySound
<1>16. \A s \in Push, e \in Db : Tried(s, e)' <=> Tried(s, e)
  BY <1>7 DEF Tried
<1>17. TryInv'
  <2> SUFFICES ASSUME NEW s \in Push, NEW e \in Db, Tried(s, e), push[s].seen = current,
                      reached'[e] # 0
               PROVE  /\ reached'[e] = current + 1
                      /\ \/ physical'[e] = push[s].want
                         \/ \E t \in Push \ {s} : Tried(t, e)
    BY <1>7, <1>16 DEF TryInv
  <2>1. CASE e = d
    <3>1. reached[d] \in q.from..q.to /\ reached[d] # 0
      BY <1>6, <1>12, <2>1
    <3>2. reached[d] = current + 1
      BY <2>1, <3>1 DEF TryInv
    <3> QED
      BY <1>6, <3>1, <3>2, VersionsTyped
  <2>2. CASE e # d
    BY <1>12, <2>2 DEF TryInv
  <2> QED
    BY <2>1, <2>2
<1>18. TrackInv'
  <2> SUFFICES ASSUME NEW e \in Db, stage[e] \in {"building", "live"}, reached'[e] # 0,
                      ~UnderProbe(e)
               PROVE  reached'[e] <= current /\ physical'[e] = schema[reached'[e]]
    BY <1>7, <1>16 DEF TrackInv, UnderProbe
  <2>1. CASE e = d
    <3>1. reached[d] \in q.from..q.to /\ reached[d] # 0
      BY <1>6, <1>12, <2>1
    <3>2. physical[d] = schema[reached[d]]
      BY <1>5, <2>1, <3>1 DEF TrackInv
    <3> QED
      BY <1>6, <1>8, <1>12, <2>1, <3>1, <3>2
  <2>2. CASE e # d
    BY <1>12, <2>2 DEF TrackInv
  <2> QED
    BY <2>1, <2>2
<1> QED
  BY <1>11, <1>14, <1>15, <1>17, <1>18

\* A request records the version it has brought the tables to.
LEMMA RecordKeeps ==
    ASSUME MigrationInv, NEW r \in Request, RecordVersion(r)
    PROVE  MigrationInv'
<1> USE DEF MigrationInv
<1>1. PICK q : q = req[r]
  OBVIOUS
<1>2. /\ q \in Loading /\ q.pc = "recording" /\ Sound(q)
      /\ q.db \in Db /\ q.to \in Version /\ q.to # 0
      /\ q.to <= current /\ AtLeast(q.db, q.to)
  <2>1. q.pc = "recording"
    BY <1>1 DEF RecordVersion
  <2>2. q \in Loading /\ q # Idle
    BY <1>1, <2>1, StatesByPc DEF Idle
  <2>3. Sound(q)
    BY <1>1, <2>2 DEF RequestInv
  <2> QED
    BY <2>1, <2>2, <2>3, VersionsAreNumbers DEF Loading, Sound
<1>3. PICK to : to = [pc |-> "serving", db |-> q.db, version |-> q.to]
  OBVIOUS
<1>4. to \in RequestState /\ Sound(to)
  BY <1>2, <1>3 DEF RequestState, Serving, Sound, Built, AtLeast
<1>5. /\ UNCHANGED <<current, schema, stage, physical, push, reached, cache>>
      /\ recorded' = [recorded EXCEPT ![q.db] = q.to] \/ recorded' = recorded
      /\ req' = [req EXCEPT ![r] = to]
  BY <1>1, <1>3 DEF RecordVersion, Goto
<1>6. /\ recorded' \in [Db -> Version \cup {0}]
      /\ \A d \in Db : /\ recorded'[d] <= current /\ AtLeast(d, recorded'[d])
                       /\ stage[d] # "absent" => recorded'[d] # 0
  BY <1>2, <1>5 DEF TypeOK, RowInv
<1>7. cache' \in Version \cup {0} /\ cache' <= current
  BY <1>5 DEF TypeOK, RowInv
<1> QED
  BY <1>4, <1>5, <1>6, <1>7, RequestMoves

\* A restart forgets every request and push, and what the pushes tried.
LEMMA RestartKeeps ==
    ASSUME MigrationInv, Restart
    PROVE  MigrationInv'
<1> USE DEF MigrationInv
<1>1. /\ cache' \in {0, cache}
      /\ reached' = [d \in Db |-> IF UnderProbe(d) THEN 0 ELSE reached[d]]
      /\ push' = [p \in Push |-> Idle] /\ req' = [r \in Request |-> Idle]
      /\ stage' = [d \in Db |-> IF stage[d] = "building" THEN "removed" ELSE stage[d]]
      /\ UNCHANGED <<current, schema, recorded, physical>>
  BY DEF Restart, Untrack
<1>2. TypeOK'
  BY <1>1 DEF TypeOK
<1>3. RowInv'
  BY <1>1, VersionsTyped DEF RowInv, AtLeast, TypeOK
<1>4. RequestInv' /\ PushInv'
  BY <1>1 DEF RequestInv, PushInv
<1>5. \A p \in Push, d \in Db : ~Tried(p, d)'
  BY <1>1 DEF Tried, Idle
<1>6. TryInv' /\ TrackInv'
  BY <1>1, <1>5 DEF TryInv, TrackInv
<1> QED
  BY <1>2, <1>3, <1>4, <1>6

-----------------------------------------------------------------------------
(* The theorems *)

\* The initial states satisfy the invariant.
LEMMA InitMigration == Init => MigrationInv
<1> SUFFICES ASSUME Init PROVE MigrationInv
  OBVIOUS
<1>1. 1 \in Version
  BY VersionsAreNumbers
<1>2. TypeOK
  BY <1>1 DEF Init, TypeOK
<1>3. RowInv /\ RequestInv /\ PushInv
  BY DEF Init, RowInv, AtLeast, RequestInv, PushInv
<1>4. TryInv /\ TrackInv
  BY DEF Init, TryInv, TrackInv
<1> QED
  BY <1>2, <1>3, <1>4 DEF MigrationInv

\* Every step preserves it.
LEMMA NextMigration == MigrationInv /\ [Next]_vars => MigrationInv'
<1> SUFFICES ASSUME MigrationInv, [Next]_vars PROVE MigrationInv'
  OBVIOUS
<1>1. CASE UNCHANGED vars
  BY <1>1 DEF vars, MigrationInv, TypeOK, RowInv, RequestInv, PushInv, TryInv, TrackInv,
              Sound, Built, AtLeast, UnderProbe, Tried
<1>2. ASSUME NEW p \in Push, PushStep(p) PROVE MigrationInv'
  BY <1>2, PlanKeeps, ProbeKeeps, PublishKeeps, FailPushKeeps DEF PushStep
<1>3. ASSUME NEW d \in Db, DbStep(d) PROVE MigrationInv'
  BY <1>3, BuildKeeps, StageKeeps DEF DbStep
<1>4. ASSUME NEW r \in Request, RequestStep(r) PROVE MigrationInv'
  BY <1>4, RequestKeeps, BatchKeeps, RecordKeeps DEF RequestStep
<1> QED
  BY <1>1, <1>2, <1>3, <1>4, RestartKeeps DEF Next

\* It holds always.
LEMMA MigrationHolds == Spec => []MigrationInv
<1> QED
  BY InitMigration, NextMigration, PTL DEF Spec

\* Nothing anywhere names a version that is not published: no row, no cached
\* definition and no request (GetCachedDefinition, UpdateDatabaseVersion).
THEOREM OnlyPublishedVersions == Spec => []VersionsPublished
<1>1. MigrationInv => VersionsPublished
  <2> SUFFICES ASSUME MigrationInv PROVE VersionsPublished
    OBVIOUS
  <2>1. \A r \in Request : req[r].pc \in {"missed", "loaded", "recording"} => req[r] # Idle
    BY DEF Idle
  <2> QED
    BY <2>1 DEF MigrationInv, RowInv, RequestInv, Sound, VersionsPublished
<1> QED
  BY <1>1, MigrationHolds, PTL

\* Whatever the number of pushes that race, versions are published one by one and
\* none of them is ever rewritten (pushDefinition).
THEOREM PublishedForGood == Spec => HistoryIsFixed
<1> DEFINE Fixed == /\ current' \in {current, current + 1}
                    /\ \A v \in 1..current : schema'[v] = schema[v]
<1>1. ASSUME MigrationInv, [Next]_vars PROVE [Fixed]_vars
  <2>1. CASE \E p \in Push : Publish(p)
    <3>1. PICK p \in Push : Publish(p)
      BY <2>1
    <3>2. current \in Nat /\ schema \in [Version -> SUBSET Table]
      BY <1>1, VersionsTyped DEF MigrationInv, TypeOK
    <3>3. /\ current' = current + 1
          /\ schema' = [schema EXCEPT ![current + 1] = push[p].want]
      BY <3>1 DEF Publish
    <3>4. \A v \in 1..current : schema'[v] = schema[v]
      <4>1. 1..current \subseteq Version /\ \A v \in 1..current : v # current + 1
        BY <1>1, <3>2, VersionsTyped, VersionsAreNumbers DEF MigrationInv
      <4> QED
        BY <3>2, <3>3, <4>1
    <3> QED
      BY <3>3, <3>4
  <2>2. CASE ~ \E p \in Push : Publish(p)
    <3>1. UNCHANGED <<current, schema>>
      BY <1>1, <2>2
      DEF Next, PushStep, DbStep, RequestStep, ReadDefinition, SkipProbe, Probe, FailPush,
          BuildRemote, InsertRow, AbandonCreate, DestroyRemote, RemoveRow, ResolveTarget,
          HitDefinition, LoadDefinition, SetDefinition, NoMigration, MigrateBatch,
          RecordVersion, Finish, Restart, primary, vars
    <3> QED
      BY <3>1
  <2> QED
    BY <2>1, <2>2
<1> QED
  BY <1>1, MigrationHolds, PTL DEF Spec, HistoryIsFixed

\* A database that only ran migrations from its recorded version has exactly the
\* tables of one published version, never older than the recorded one, for any
\* number of pushes and requests (MigrateIfNeeded).
THEOREM TablesOfOneVersion == Spec => []MigratedWhole
<1>1. MigrationInv => MigratedWhole
  <2> SUFFICES ASSUME MigrationInv, NEW d \in Db, Tracked(d)
               PROVE  \E v \in recorded[d]..current : physical[d] = schema[v]
    BY DEF MigratedWhole
  <2>1. /\ reached[d] <= current /\ physical[d] = schema[reached[d]]
        /\ recorded[d] <= reached[d]
    BY DEF MigrationInv, TrackInv, RowInv, AtLeast, Tracked
  <2>2. reached[d] \in recorded[d]..current
    BY <2>1, VersionsTyped DEF MigrationInv
  <2> QED
    BY <2>1, <2>2
<1> QED
  BY <1>1, MigrationHolds, PTL

\* A data request runs its query against tables at least as new as the version it
\* believes to serve, however often the definition moved meanwhile (withDB).
THEOREM ServesWhatItMigrated == Spec => []ServedIsMigrated
<1>1. MigrationInv => ServedIsMigrated
  <2> SUFFICES ASSUME MigrationInv, NEW r \in Request, req[r].pc = "serving",
                      Tracked(req[r].db)
               PROVE  \E v \in req[r].version..current :
                          physical[req[r].db] = schema[v]
    BY DEF ServedIsMigrated
  <2>1. PICK q : q = req[r]
    OBVIOUS
  <2>2. q \in Serving /\ q # Idle /\ Sound(q)
    BY <2>1, StatesByPc DEF MigrationInv, RequestInv, Idle
  <2>3. q.db \in Db /\ q.version \in Nat
    BY <2>2, VersionsAreNumbers DEF Serving
  <2>4. /\ reached[q.db] <= current /\ physical[q.db] = schema[reached[q.db]]
        /\ q.version <= reached[q.db]
    BY <2>1, <2>2, <2>3 DEF MigrationInv, TrackInv, Sound, AtLeast, Tracked
  <2>5. reached[q.db] \in q.version..current
    BY <2>3, <2>4, VersionsTyped DEF MigrationInv
  <2> QED
    BY <2>1, <2>4, <2>5
<1> QED
  BY <1>1, MigrationHolds, PTL
=============================================================================
