------------------------------ MODULE NavProofs ------------------------------
(***************************************************************************)
(* Theorems about NavStore.tla, for any jobs, days, bounds and measures.   *)
(* The steps that matter are of three kinds: an import alone, an import    *)
(* followed by a new version, and a row of the older release.  One lemma   *)
(* says what the import yields, one what a store yields.  What is proved   *)
(* of CryptoFlows.tla, which runs beside it, stands at the end.            *)
(***************************************************************************)
EXTENDS NavStore, CryptoFlows, SequenceTheorems, FiniteSetTheorems, WellFoundedInduction, TLAPS

IInv == TypeOK /\ CreatedOnce

\* A step that leaves the tables alone.
Apart == UNCHANGED tables

\* A step that imports and stores nothing.
Imports ==
    /\ versions' = Migrated
    /\ representative' = MigratedRepresentative
    /\ projection' = projection
    /\ \A d \in Days : attempts'[d]["complete"] = attempts[d]["complete"]

\* A step that imports, then stores new for day d: aside, or in front.
Aside(d, new) ==
    /\ versions' = [Migrated EXCEPT ![d] = Append(@, new)]
    /\ MigratedRepresentative[d] # 0
    /\ representative' = MigratedRepresentative
    /\ projection' = projection
InFront(d, new) ==
    /\ versions' = [Migrated EXCEPT ![d] = Append(@, new)]
    /\ new.source = "tool" =>
        \/ MigratedRepresentative[d] = 0
        \/ Migrated[d][MigratedRepresentative[d]].evidence \subseteq new.evidence
    /\ representative' = [MigratedRepresentative EXCEPT ![d] = Len(Migrated[d]) + 1]
    /\ projection' = [projection EXCEPT ![d] =
        [value |-> new.value, created |-> new.created, updated |-> new.updated]]

-----------------------------------------------------------------------------
(* What the import and the store yield *)

LEMMA ImportedType ==
    ASSUME NEW row \in Row
    PROVE  Imported(row) \in Version /\ SameColumns(Imported(row), row)
BY DEF Row, Version, Imported, Sanitized, SameColumns, Kinds

LEMMA RowIsSome ==
    ASSUME NEW v \in Values \union {Infinite}, NEW c \in Times, NEW u \in Times
    PROVE  [value |-> v, created |-> c, updated |-> u] # None
<1>1. [value |-> v, created |-> c, updated |-> u] \in Row
  BY DEF Row
<1> QED
  BY <1>1, RowAssumption

\* After the import, every day with a row has a representative that says the same, which
\* is what a reader would have been shown before it.
LEMMA Import ==
    ASSUME TypeOK, NEW d \in Days
    PROVE  /\ Migrated[d] \in Seq(Version)
           /\ MigratedRepresentative[d] \in 0..Len(Migrated[d])
           /\ Len(versions[d]) <= Len(Migrated[d])
           /\ \A i \in 1..Len(versions[d]) : Migrated[d][i] = versions[d][i]
           /\ Shown(d) = IF MigratedRepresentative[d] = 0 THEN None
                         ELSE Migrated[d][MigratedRepresentative[d]]
           /\ projection[d] # None =>
                /\ MigratedRepresentative[d] # 0
                /\ SameColumns(Migrated[d][MigratedRepresentative[d]], projection[d])
<1>1. /\ versions[d] \in Seq(Version)
      /\ representative[d] \in Nat /\ representative[d] <= Len(versions[d])
      /\ Len(versions[d]) \in Nat
  BY DEF TypeOK
<1>2. CASE Stale(d)
  <2>1. Migrated[d] = Append(versions[d], Imported(projection[d]))
    BY <1>2 DEF Migrated
  <2>2. MigratedRepresentative[d] = Len(versions[d]) + 1
    BY <1>2 DEF MigratedRepresentative
  <2>3. projection[d] \in Row
    BY <1>2 DEF Stale, TypeOK
  <2>4. Imported(projection[d]) \in Version /\ SameColumns(Imported(projection[d]), projection[d])
    BY <2>3, ImportedType
  <2>5. /\ Migrated[d] \in Seq(Version)
        /\ Len(Migrated[d]) = Len(versions[d]) + 1
        /\ \A i \in 1..Len(versions[d]) : Migrated[d][i] = versions[d][i]
        /\ Migrated[d][Len(versions[d]) + 1] = Imported(projection[d])
    BY <1>1, <2>1, <2>4, AppendProperties
  <2>6. Shown(d) = Imported(projection[d])
    BY <1>2 DEF Shown
  <2> QED
    BY <1>1, <2>2, <2>4, <2>5, <2>6
<1>3. CASE ~ Stale(d)
  <2>1. Migrated[d] = versions[d] /\ MigratedRepresentative[d] = representative[d]
    BY <1>3 DEF Migrated, MigratedRepresentative
  <2>2. Shown(d) = IF representative[d] = 0 THEN None ELSE versions[d][representative[d]]
    BY <1>3 DEF Shown
  <2>3. projection[d] # None =>
          representative[d] # 0 /\ SameColumns(versions[d][representative[d]], projection[d])
    BY <1>3 DEF Stale
  <2> QED
    BY <1>1, <2>1, <2>2, <2>3
<1> QED
  BY <1>2, <1>3

\* Versions imported carry the first time of the row they stem from.
LEMMA ImportCreated ==
    ASSUME TypeOK, CreatedOnce, NEW d \in Days, NEW i \in 1..Len(Migrated[d])
    PROVE  projection[d] # None /\ Migrated[d][i].created = projection[d].created
<1>1. versions[d] \in Seq(Version) /\ Len(versions[d]) \in Nat
  BY DEF TypeOK
<1>2. CASE Stale(d)
  <2>1. Migrated[d] = Append(versions[d], Imported(projection[d])) /\ projection[d] # None
    BY <1>2 DEF Migrated, Stale
  <2>2. projection[d] \in Row
    BY <2>1 DEF TypeOK
  <2>3. Imported(projection[d]) \in Version /\ Imported(projection[d]).created = projection[d].created
    BY <2>2, ImportedType DEF Imported
  <2>4. /\ Len(Migrated[d]) = Len(versions[d]) + 1
        /\ \A k \in 1..Len(versions[d]) : Migrated[d][k] = versions[d][k]
        /\ Migrated[d][Len(versions[d]) + 1] = Imported(projection[d])
    BY <1>1, <2>1, <2>3, AppendProperties
  <2>5. CASE i = Len(versions[d]) + 1
    BY <2>1, <2>3, <2>4, <2>5
  <2>6. CASE i # Len(versions[d]) + 1
    <3>1. i \in 1..Len(versions[d]) /\ i \in DOMAIN versions[d]
      BY <1>1, <2>4, <2>6
    <3> QED
      BY <2>1, <2>4, <3>1 DEF CreatedOnce
  <2> QED
    BY <2>5, <2>6
<1>3. CASE ~ Stale(d)
  <2>1. Migrated[d] = versions[d]
    BY <1>3 DEF Migrated
  <2>2. i \in DOMAIN versions[d]
    BY <1>1, <2>1
  <2> QED
    BY <2>1, <2>2 DEF CreatedOnce
<1> QED
  BY <1>2, <1>3

\* A store is an import and a new version of the job's day.
LEMMA StoreStep ==
    ASSUME TypeOK, NEW j \in Jobs, Store(j)
    PROVE  \E d \in Days, new \in Version :
            /\ new.value \in Values
            /\ new.created = CreatedAt(d, new.updated)
            /\ Aside(d, new) \/ InFront(d, new)
            /\ attempts' = [attempts EXCEPT ![d][AttemptStatus(new.complete, new.valued, d)] = @ + 1]
<1> DEFINE d == job[j].when
           source == IF j \in Scheduled THEN "scheduled" ELSE "tool"
           e == [value |-> job[j].value, created |-> CreatedAt(d, job[j].at),
                 updated |-> job[j].at, evidence |-> job[j].evidence, source |-> source,
                 valued |-> job[j].valued, complete |-> job[j].complete]
<1>1. /\ d \in Days /\ job[j].value \in Values /\ job[j].valued \in Times
      /\ job[j].complete \in BOOLEAN /\ job[j].evidence \in SUBSET Kinds /\ job[j].at \in Times
  <2>1. job[j] \in Job /\ job[j].pc = "store"
    BY DEF TypeOK, Store
  <2> QED
    BY <2>1 DEF Job, NoJob
<1>2. CreatedAt(d, job[j].at) \in Times
  BY <1>1 DEF CreatedAt, TypeOK, Row
<1>3. e \in Version
  BY <1>1, <1>2 DEF Version
<1>4. e.value \in Values /\ e.created = CreatedAt(d, e.updated) /\ e.source = source
  BY <1>1
<1>7. attempts' = [attempts EXCEPT ![d][AttemptStatus(e.complete, e.valued, d)] = @ + 1]
  BY DEF Store
<1>5. CASE KeepsRepresentative(j, d)
  <2>1. MigratedRepresentative[d] # 0
    BY <1>5 DEF KeepsRepresentative
  <2>2. Aside(d, e)
    BY <1>5, <2>1 DEF Store, Aside
  <2> QED
    BY <1>1, <1>3, <1>4, <1>7, <2>2
<1>6. CASE ~ KeepsRepresentative(j, d)
  <2>1. source = "tool" =>
          \/ MigratedRepresentative[d] = 0
          \/ Migrated[d][MigratedRepresentative[d]].evidence \subseteq job[j].evidence
    BY <1>6 DEF KeepsRepresentative
  <2>2. InFront(d, e)
    BY <1>6, <2>1 DEF Store, InFront
  <2> QED
    BY <1>1, <1>3, <1>4, <1>7, <2>2
<1> QED
  BY <1>5, <1>6

-----------------------------------------------------------------------------
(* The kinds of steps *)

Stores(d, new) ==
    /\ new.value \in Values
    /\ new.created = CreatedAt(d, new.updated)
    /\ Aside(d, new) \/ InFront(d, new)
    /\ attempts' = [attempts EXCEPT ![d][AttemptStatus(new.complete, new.valued, d)] = @ + 1]

LEMMA StepKinds ==
    ASSUME TypeOK, [Next]_vars
    PROVE  \/ Apart
           \/ Imports
           \/ \E d \in Days, new \in Version : Stores(d, new)
           \/ \E d \in Days : LegacyStore(d)
<1>1. CASE UNCHANGED vars
  BY <1>1 DEF vars, Apart
<1>2. CASE Read
  BY <1>2 DEF Read, Imports
<1>3. CASE Tick
  BY <1>3 DEF Tick, Apart
<1>4. CASE \E d \in Days : LegacyStore(d)
  BY <1>4
<1>5. ASSUME NEW j \in Jobs, JobStep(j)
      PROVE  Apart \/ Imports \/ \E d \in Days, new \in Version : Stores(d, new)
  <2>1. CASE StartJob(j) \/ Collect(j) \/ CollectNothing(j) \/ Capture(j) \/ StoreFails(j) \/ Crash(j)
    BY <2>1 DEF StartJob, Collect, CollectNothing, Capture, StoreFails, Crash, Apart
  <2>2. CASE Store(j)
    BY <2>2, StoreStep DEF Stores
  <2>3. CASE RecordAttempt(j)
    BY <2>3 DEF RecordAttempt, Imports
  <2> QED
    BY <1>5, <2>1, <2>2, <2>3 DEF JobStep
<1> QED
  BY <1>1, <1>2, <1>3, <1>4, <1>5 DEF Next

\* What a store leaves for each day.
LEMMA StoredTables ==
    ASSUME TypeOK, NEW d \in Days, NEW new \in Version, Stores(d, new), NEW k \in Days
    PROVE  /\ versions'[k] \in Seq(Version)
           /\ k # d => versions'[k] = Migrated[k]
           /\ k = d =>
                /\ Len(versions'[k]) = Len(Migrated[k]) + 1
                /\ \A i \in 1..Len(Migrated[k]) : versions'[k][i] = Migrated[k][i]
                /\ versions'[k][Len(Migrated[k]) + 1] = new
           /\ representative'[k] = IF k = d /\ InFront(d, new) THEN Len(Migrated[d]) + 1
                                   ELSE MigratedRepresentative[k]
           /\ projection'[k] = IF k = d /\ InFront(d, new)
                THEN [value |-> new.value, created |-> new.created, updated |-> new.updated]
                ELSE projection[k]
<1>1. Migrated[k] \in Seq(Version)
  BY Import
<1>2. /\ Append(Migrated[k], new) \in Seq(Version)
      /\ Len(Append(Migrated[k], new)) = Len(Migrated[k]) + 1
      /\ \A i \in 1..Len(Migrated[k]) : Append(Migrated[k], new)[i] = Migrated[k][i]
      /\ Append(Migrated[k], new)[Len(Migrated[k]) + 1] = new
  BY <1>1, AppendProperties
<1>3. versions'[k] = IF k = d THEN Append(Migrated[k], new) ELSE Migrated[k]
  BY DEF Stores, Aside, InFront, Migrated
<1>4. /\ representative'[k] = IF k = d /\ InFront(d, new) THEN Len(Migrated[d]) + 1
                              ELSE MigratedRepresentative[k]
      /\ projection'[k] = IF k = d /\ InFront(d, new)
                THEN [value |-> new.value, created |-> new.created, updated |-> new.updated]
                ELSE projection[k]
  BY DEF Stores, Aside, InFront, MigratedRepresentative, TypeOK
<1> QED
  BY <1>1, <1>2, <1>3, <1>4

-----------------------------------------------------------------------------
(* Types, and the first time of a day *)

TablesOK ==
    /\ projection \in [Days -> Row \union {None}]
    /\ versions \in [Days -> Seq(Version)]
    /\ representative \in [Days -> Nat]
    /\ \A d \in Days : representative[d] <= Len(versions[d])

LEMMA TablesStep ==
    ASSUME TypeOK, [Next]_vars
    PROVE  TablesOK'
<1>1. CASE Apart
  BY <1>1 DEF Apart, tables, TypeOK, TablesOK
<1>2. CASE Imports
  <2>1. \A d \in Days : Migrated[d] \in Seq(Version) /\ MigratedRepresentative[d] \in 0..Len(Migrated[d])
    BY Import
  <2>2. versions' \in [Days -> Seq(Version)]
    BY <1>2, <2>1 DEF Imports, Migrated
  <2>3. \A d \in Days : representative'[d] \in Nat /\ representative'[d] <= Len(versions'[d])
    <3> TAKE d \in Days
    <3>1. Len(Migrated[d]) \in Nat
      BY <2>1
    <3> QED
      BY <1>2, <2>1, <3>1 DEF Imports
  <2>4. representative' \in [Days -> Nat]
    BY <1>2, <2>3 DEF Imports, MigratedRepresentative
  <2>5. projection' \in [Days -> Row \union {None}]
    BY <1>2 DEF Imports, TypeOK
  <2> QED
    BY <2>2, <2>3, <2>4, <2>5 DEF TablesOK
<1>3. ASSUME NEW d \in Days, NEW new \in Version, Stores(d, new)
      PROVE  TablesOK'
  <2>1. new.value \in Values /\ new.created \in Times /\ new.updated \in Times
    BY <1>3 DEF Stores, Version
  <2>2. /\ DOMAIN versions' = Days
        /\ versions' = [k \in Days |-> versions'[k]]
    BY <1>3 DEF Stores, Aside, InFront, Migrated
  <2>3. representative' = [k \in Days |-> representative'[k]]
    BY <1>3 DEF Stores, Aside, InFront, MigratedRepresentative
  <2>4. projection' = [k \in Days |-> projection'[k]]
    BY <1>3 DEF Stores, Aside, InFront, TypeOK
  <2>5. ASSUME NEW k \in Days
        PROVE  /\ versions'[k] \in Seq(Version)
               /\ representative'[k] \in Nat
               /\ representative'[k] <= Len(versions'[k])
               /\ projection'[k] \in Row \union {None}
    <3>1. MigratedRepresentative[k] \in 0..Len(Migrated[k]) /\ Len(Migrated[k]) \in Nat
      BY Import
    <3>2. projection[k] \in Row \union {None}
      BY DEF TypeOK
    <3>3. versions'[k] \in Seq(Version)
      BY <1>3, StoredTables
    <3>4. Len(versions'[k]) = IF k = d THEN Len(Migrated[k]) + 1 ELSE Len(Migrated[k])
      BY <1>3, StoredTables
    <3>5. representative'[k] = IF k = d /\ InFront(d, new) THEN Len(Migrated[d]) + 1
                               ELSE MigratedRepresentative[k]
      BY <1>3, StoredTables
    <3>6. projection'[k] = IF k = d /\ InFront(d, new)
                THEN [value |-> new.value, created |-> new.created, updated |-> new.updated]
                ELSE projection[k]
      BY <1>3, StoredTables
    <3>7. projection'[k] \in Row \union {None}
      BY <2>1, <3>2, <3>6 DEF Row
    <3> QED
      BY <3>1, <3>3, <3>4, <3>5, <3>7
  <2> QED
    BY <2>2, <2>3, <2>4, <2>5 DEF TablesOK
<1>4. ASSUME NEW d \in Days, LegacyStore(d)
      PROVE  TablesOK'
  <2>1. PICK v \in Values \union {Infinite} :
          /\ projection' = [projection EXCEPT ![d] =
               [value |-> v, created |-> CreatedAt(d, now), updated |-> now]]
          /\ UNCHANGED <<versions, representative>>
    BY <1>4 DEF LegacyStore
  <2>2. CreatedAt(d, now) \in Times /\ now \in Times
    BY DEF CreatedAt, TypeOK, Row
  <2>3. [value |-> v, created |-> CreatedAt(d, now), updated |-> now] \in Row
    BY <2>2 DEF Row
  <2> QED
    BY <2>1, <2>3 DEF TypeOK, TablesOK
<1> QED
  BY <1>1, <1>2, <1>3, <1>4, StepKinds

LEMMA CreatedOnceStep ==
    ASSUME IInv, [Next]_vars
    PROVE  CreatedOnce'
<1> USE DEF IInv
<1> SUFFICES ASSUME NEW k \in Days, NEW i \in DOMAIN versions'[k]
             PROVE  projection'[k] # None /\ versions'[k][i].created = projection'[k].created
  BY DEF CreatedOnce
<1>a. versions'[k] \in Seq(Version) /\ i \in 1..Len(versions'[k])
  BY TablesStep DEF TablesOK
<1>b. Migrated[k] \in Seq(Version) /\ Len(Migrated[k]) \in Nat
  BY Import
<1>1. CASE Apart
  BY <1>1 DEF Apart, tables, CreatedOnce
<1>2. CASE Imports
  BY <1>2, <1>a, ImportCreated DEF Imports
<1>3. ASSUME NEW d \in Days, NEW new \in Version, Stores(d, new)
      PROVE  projection'[k] # None /\ versions'[k][i].created = projection'[k].created
  <2>1. CASE k # d
    <3>1. versions'[k] = Migrated[k] /\ projection'[k] = projection[k]
      BY <1>3, <2>1, StoredTables
    <3> QED
      BY <1>a, <3>1, ImportCreated
  <2>2. CASE k = d
    <3>1. /\ Len(versions'[k]) = Len(Migrated[k]) + 1
          /\ \A n \in 1..Len(Migrated[k]) : versions'[k][n] = Migrated[k][n]
          /\ versions'[k][Len(Migrated[k]) + 1] = new
          /\ projection'[k] = IF InFront(d, new)
                THEN [value |-> new.value, created |-> new.created, updated |-> new.updated]
                ELSE projection[k]
      BY <1>3, <2>2, StoredTables
    <3>2. new.created = CreatedAt(d, new.updated)
      BY <1>3 DEF Stores
    <3>3. ~ InFront(d, new) => projection[k] # None
      <4> SUFFICES ASSUME ~ InFront(d, new)
                   PROVE  projection[k] # None
        OBVIOUS
      <4>1. MigratedRepresentative[k] # 0
        BY <1>3, <2>2 DEF Stores, Aside
      <4>2. MigratedRepresentative[k] \in 1..Len(Migrated[k])
        BY <4>1, <1>b, Import
      <4> QED
        BY <4>2, ImportCreated
    <3>4. projection'[k] # None
      <4>1. new.value \in Values /\ new.created \in Times /\ new.updated \in Times
        BY <1>3 DEF Stores, Version
      <4>2. [value |-> new.value, created |-> new.created, updated |-> new.updated] # None
        BY <4>1, RowIsSome
      <4> QED
        BY <3>1, <3>3, <4>2
    <3>5. new.created = projection'[k].created
      BY <2>2, <3>1, <3>2, <3>3 DEF CreatedAt
    <3>6. CASE i = Len(Migrated[k]) + 1
      BY <3>1, <3>4, <3>5, <3>6
    <3>7. CASE i # Len(Migrated[k]) + 1
      <4>1. i \in 1..Len(Migrated[k])
        BY <1>a, <1>b, <3>1, <3>7
      <4>2. projection[k] # None /\ Migrated[k][i].created = projection[k].created
        BY <4>1, ImportCreated
      <4>3. new.created = projection[k].created
        BY <2>2, <3>2, <4>2 DEF CreatedAt
      <4> QED
        BY <3>1, <3>4, <3>5, <4>1, <4>2, <4>3
    <3> QED
      BY <3>6, <3>7
  <2> QED
    BY <2>1, <2>2
<1>4. ASSUME NEW d \in Days, LegacyStore(d)
      PROVE  projection'[k] # None /\ versions'[k][i].created = projection'[k].created
  <2>1. PICK v \in Values \union {Infinite} :
          /\ projection' = [projection EXCEPT ![d] =
               [value |-> v, created |-> CreatedAt(d, now), updated |-> now]]
          /\ versions' = versions
    BY <1>4 DEF LegacyStore
  <2>2. projection[k] # None /\ versions[k][i].created = projection[k].created
    BY <2>1 DEF CreatedOnce
  <2>3. CASE k = d
    <3>1. projection'[k] = [value |-> v, created |-> projection[k].created, updated |-> now]
      BY <2>1, <2>2, <2>3 DEF CreatedAt, TypeOK
    <3> QED
      <4>1. projection[k].created \in Times /\ now \in Times
        BY <2>2 DEF TypeOK, Row
      <4> QED
        BY <2>1, <2>2, <3>1, <4>1, RowIsSome
  <2>4. CASE k # d
    BY <2>1, <2>2, <2>4 DEF TypeOK
  <2> QED
    BY <2>3, <2>4
<1> QED
  BY <1>1, <1>2, <1>3, <1>4, StepKinds

LEMMA InitIInv ==
    ASSUME Init
    PROVE  IInv
<1>1. \A d \in Days : versions[d] = <<>> /\ Len(versions[d]) = 0
  BY DEF Init
<1>2. now \in Times
  BY BoundAssumption DEF Init, Times
<1>3. TypeOK
  BY <1>1, <1>2 DEF Init, TypeOK, Job
<1>4. CreatedOnce
  BY <1>1 DEF CreatedOnce
<1> QED
  BY <1>3, <1>4 DEF IInv

\* The clock, the runs and the counts of attempts.
LEMMA RestStep ==
    ASSUME TypeOK, [Next]_vars
    PROVE  /\ now' \in Times
           /\ attempts' \in [Days -> [Statuses -> Nat]]
           /\ job' \in [Jobs -> Job]
           /\ runs' \in [Jobs -> Nat]
           /\ overwrites' \in Nat
<1> USE DEF TypeOK
<1>1. CASE UNCHANGED vars
  BY <1>1 DEF vars, tables
<1>2. CASE Read
  BY <1>2 DEF Read
<1>3. CASE Tick
  BY <1>3, BoundAssumption DEF Tick, tables, Times
<1>4. ASSUME NEW d \in Days, LegacyStore(d)
      PROVE  /\ now' = now /\ attempts' = attempts /\ job' = job /\ runs' = runs
             /\ overwrites' = overwrites + 1
  BY <1>4 DEF LegacyStore
<1>5. ASSUME NEW j \in Jobs, JobStep(j)
      PROVE  /\ now' = now /\ overwrites' = overwrites
             /\ attempts' \in [Days -> [Statuses -> Nat]]
             /\ job' \in [Jobs -> Job]
             /\ runs' \in [Jobs -> Nat]
  <2>0. job[j] \in Job
    OBVIOUS
  <2>1. CASE StartJob(j)
    <3>1. DayOf[now] \in Days
      BY DayAssumption DEF Times
    <3>2. [pc |-> "collect", when |-> DayOf[now]] \in Job
      BY <3>1 DEF Job
    <3> QED
      BY <2>1, <3>2 DEF StartJob, tables
  <2>2. CASE Collect(j)
    <3>1. PICK v \in Values, whole \in BOOLEAN :
            /\ job[j].pc = "collect"
            /\ job' = [job EXCEPT ![j] = [pc |-> "capture", when |-> job[j].when, value |-> v,
                                          valued |-> now, complete |-> whole]]
      BY <2>2 DEF Collect
    <3>2. job[j].when \in Days
      BY <2>0, <3>1 DEF Job, NoJob
    <3>3. [pc |-> "capture", when |-> job[j].when, value |-> v, valued |-> now,
           complete |-> whole] \in Job
      BY <3>2 DEF Job
    <3> QED
      BY <2>2, <3>1, <3>3 DEF Collect, tables
  <2>3. CASE CollectNothing(j) \/ StoreFails(j)
    <3>1. job[j].when \in Days
      BY <2>0, <2>3 DEF Job, NoJob, CollectNothing, StoreFails
    <3>2. [pc |-> "failed", when |-> job[j].when] \in Job
      BY <3>1 DEF Job
    <3> QED
      BY <2>3, <3>2 DEF CollectNothing, StoreFails, tables
  <2>4. CASE Capture(j)
    <3>1. PICK e \in SUBSET Kinds :
            /\ job[j].pc = "capture"
            /\ job' = [job EXCEPT ![j] =
                 [pc |-> "store", when |-> job[j].when, value |-> job[j].value,
                  valued |-> job[j].valued, complete |-> job[j].complete,
                  evidence |-> e, at |-> now]]
      BY <2>4 DEF Capture
    <3>2. /\ job[j].when \in Days /\ job[j].value \in Values /\ job[j].valued \in Times
          /\ job[j].complete \in BOOLEAN
      BY <2>0, <3>1 DEF Job, NoJob
    <3>3. [pc |-> "store", when |-> job[j].when, value |-> job[j].value,
           valued |-> job[j].valued, complete |-> job[j].complete,
           evidence |-> e, at |-> now] \in Job
      BY <3>2 DEF Job
    <3> QED
      BY <2>4, <3>1, <3>3 DEF Capture, tables
  <2>5. CASE Store(j)
    <3>1. PICK d \in Days, s \in Statuses : attempts' = [attempts EXCEPT ![d][s] = @ + 1]
      BY <2>5, StoreStep DEF AttemptStatus, Statuses
    <3>2. attempts' \in [Days -> [Statuses -> Nat]]
      BY <3>1
    <3> QED
      BY <2>5, <3>2 DEF Store, Job
  <2>6. CASE RecordAttempt(j)
    <3>1. job[j].when \in Days
      BY <2>0, <2>6 DEF Job, NoJob, RecordAttempt
    <3>2. attempts' \in [Days -> [Statuses -> Nat]]
      BY <2>6, <3>1 DEF RecordAttempt, Statuses
    <3> QED
      BY <2>6, <3>2 DEF RecordAttempt, Job
  <2>7. CASE Crash(j)
    BY <2>7 DEF Crash, Job, tables
  <2> QED
    BY <1>5, <2>1, <2>2, <2>3, <2>4, <2>5, <2>6, <2>7 DEF JobStep
<1> QED
  BY <1>1, <1>2, <1>3, <1>4, <1>5 DEF Next

\* The inductive invariant, preserved by every step.
LEMMA Invariance ==
    ASSUME IInv, [Next]_vars
    PROVE  IInv'
<1>1. TypeOK'
  BY TablesStep, RestStep DEF IInv, TypeOK, TablesOK
<1> QED
  BY <1>1, CreatedOnceStep DEF IInv

\* The store's tables have their shape: every representative is a stored version, every
\* version is strict JSON (no infinite value), whatever the older release wrote.
THEOREM NavTypes == Spec => []TypeOK
<1>1. Init => IInv
  BY InitIInv
<1>2. IInv /\ [Next]_vars => IInv'
  BY Invariance
<1>3. IInv => TypeOK
  BY DEF IInv
<1> QED
  BY <1>1, <1>2, <1>3, PTL DEF Spec

\* Every version of a day carries the time the day was first recorded (created_at), along
\* every interleaving of jobs, reads and the older release.
THEOREM NavCreatedOnce == Spec => []CreatedOnce
<1>1. Init => IInv
  BY InitIInv
<1>2. IInv /\ [Next]_vars => IInv'
  BY Invariance
<1>3. IInv => CreatedOnce
  BY DEF IInv
<1> QED
  BY <1>1, <1>2, <1>3, PTL DEF Spec

-----------------------------------------------------------------------------
(* What the store says of a day *)

\* A stored version counts as a success, or not.
LEMMA CountAppended ==
    ASSUME NEW stored \in Seq(Version), NEW new \in Version, NEW d \in Days
    PROVE  /\ IsFiniteSet(WholeOnTheDay(stored, d))
           /\ Cardinality(WholeOnTheDay(stored, d)) \in Nat
           /\ Cardinality(WholeOnTheDay(Append(stored, new), d)) =
                IF new.complete /\ DayOf[new.valued] = d THEN Cardinality(WholeOnTheDay(stored, d)) + 1
                ELSE Cardinality(WholeOnTheDay(stored, d))
<1> DEFINE old == WholeOnTheDay(stored, d)
<1>1. /\ Len(stored) \in Nat /\ DOMAIN stored = 1..Len(stored)
      /\ DOMAIN Append(stored, new) = 1..(Len(stored) + 1)
      /\ \A i \in 1..Len(stored) : Append(stored, new)[i] = stored[i]
      /\ Append(stored, new)[Len(stored) + 1] = new
  <2>1. /\ Append(stored, new) \in Seq(Version)
        /\ Len(Append(stored, new)) = Len(stored) + 1
        /\ \A i \in 1..Len(stored) : Append(stored, new)[i] = stored[i]
        /\ Append(stored, new)[Len(stored) + 1] = new
    BY AppendProperties
  <2> QED
    BY <2>1, LenProperties
<1>2. IsFiniteSet(old)
  <2>1. IsFiniteSet(1..Len(stored))
    BY <1>1, FS_Interval
  <2>2. old \subseteq 1..Len(stored)
    BY <1>1 DEF WholeOnTheDay
  <2> QED
    BY <2>1, <2>2, FS_Subset
<1>3. Cardinality(old) \in Nat
  BY <1>2, FS_CardinalityType
<1>4. \A i \in 1..(Len(stored) + 1) : i \in 1..Len(stored) \/ i = Len(stored) + 1
  BY <1>1
<1>5. 1..Len(stored) \subseteq 1..(Len(stored) + 1) /\ Len(stored) + 1 \in 1..(Len(stored) + 1)
  BY <1>1
<1>6. CASE new.complete /\ DayOf[new.valued] = d
  <2>1. WholeOnTheDay(Append(stored, new), d) = old \union {Len(stored) + 1}
    BY <1>1, <1>4, <1>5, <1>6, Zenon DEF WholeOnTheDay
  <2>2. Len(stored) + 1 \notin old
    BY <1>1 DEF WholeOnTheDay
  <2> QED
    BY <1>2, <1>3, <1>6, <2>1, <2>2, FS_AddElement
<1>7. CASE ~ (new.complete /\ DayOf[new.valued] = d)
  <2>1. ASSUME NEW i \in WholeOnTheDay(Append(stored, new), d)
        PROVE  i \in old
    <3>1. i \in 1..(Len(stored) + 1) /\ Append(stored, new)[i].complete
          /\ DayOf[Append(stored, new)[i].valued] = d
      BY <1>1 DEF WholeOnTheDay
    <3>2. i # Len(stored) + 1
      BY <1>1, <1>7, <3>1, Zenon
    <3>3. i \in 1..Len(stored) /\ stored[i].complete /\ DayOf[stored[i].valued] = d
      BY <1>1, <1>4, <3>1, <3>2, Zenon
    <3> QED
      BY <1>1, <3>3, Zenon DEF WholeOnTheDay
  <2>2. ASSUME NEW i \in old
        PROVE  i \in WholeOnTheDay(Append(stored, new), d)
    BY <1>1, <1>5, <2>2, Zenon DEF WholeOnTheDay
  <2>3. WholeOnTheDay(Append(stored, new), d) = old
    BY <2>1, <2>2, Zenon
  <2> QED
    BY <1>2, <1>3, <1>7, <2>3
<1> QED
  BY <1>6, <1>7

\* An imported row is no success.
LEMMA CountImported ==
    ASSUME TypeOK, NEW d \in Days
    PROVE  Cardinality(WholeOnTheDay(Migrated[d], d)) = Cardinality(WholeOnTheDay(versions[d], d))
<1>1. CASE Stale(d)
  <2>1. Migrated[d] = Append(versions[d], Imported(projection[d]))
    BY <1>1 DEF Migrated
  <2>2. projection[d] \in Row
    BY <1>1 DEF Stale, TypeOK
  <2>3. Imported(projection[d]) \in Version /\ ~ Imported(projection[d]).complete
    BY <2>2, ImportedType DEF Imported
  <2>4. versions[d] \in Seq(Version)
    BY DEF TypeOK
  <2> QED
    BY <2>1, <2>3, <2>4, CountAppended
<1>2. CASE ~ Stale(d)
  BY <1>2 DEF Migrated
<1> QED
  BY <1>1, <1>2

LEMMA HealthStep ==
    ASSUME TypeOK, HealthCountsSnapshots, [Next]_vars
    PROVE  HealthCountsSnapshots'
<1> SUFFICES ASSUME NEW k \in Days
             PROVE  attempts'[k]["complete"] = Cardinality(WholeOnTheDay(versions'[k], k))
  BY DEF HealthCountsSnapshots, WholeOnTheDay
<1>0. /\ attempts[k]["complete"] = Cardinality(WholeOnTheDay(Migrated[k], k))
      /\ Migrated[k] \in Seq(Version)
  BY CountImported, Import DEF HealthCountsSnapshots
<1>1. CASE Apart
  BY <1>1 DEF Apart, tables, HealthCountsSnapshots, WholeOnTheDay
<1>2. CASE Imports
  BY <1>0, <1>2 DEF Imports
<1>3. ASSUME NEW d \in Days, NEW new \in Version, Stores(d, new)
      PROVE  attempts'[k]["complete"] = Cardinality(WholeOnTheDay(versions'[k], k))
  <2>1. versions'[k] = IF k = d THEN Append(Migrated[k], new) ELSE Migrated[k]
    BY <1>3 DEF Stores, Aside, InFront, Migrated
  <2>2. attempts'[k]["complete"] =
          IF k = d /\ AttemptStatus(new.complete, new.valued, d) = "complete"
          THEN attempts[k]["complete"] + 1 ELSE attempts[k]["complete"]
    <3>1. attempts \in [Days -> [Statuses -> Nat]] /\ "complete" \in Statuses
      BY DEF TypeOK, Statuses
    <3> QED
      BY <1>3, <3>1 DEF Stores
  <2>3. AttemptStatus(new.complete, new.valued, d) = "complete" <=> new.complete /\ DayOf[new.valued] = d
    BY DEF AttemptStatus
  <2>4. CASE k = d
    <3>1. Cardinality(WholeOnTheDay(versions'[k], k)) =
            IF new.complete /\ DayOf[new.valued] = k THEN Cardinality(WholeOnTheDay(Migrated[k], k)) + 1
            ELSE Cardinality(WholeOnTheDay(Migrated[k], k))
      BY <1>0, <2>1, <2>4, CountAppended
    <3> QED
      BY <1>0, <2>2, <2>3, <2>4, <3>1
  <2>5. CASE k # d
    BY <1>0, <2>1, <2>2, <2>5
  <2> QED
    BY <2>4, <2>5
<1>4. ASSUME NEW d \in Days, LegacyStore(d)
      PROVE  attempts' = attempts /\ versions' = versions
  BY <1>4 DEF LegacyStore
<1> QED
  BY <1>1, <1>2, <1>3, <1>4, StepKinds DEF HealthCountsSnapshots, WholeOnTheDay

\* What the store says of a day is true: when it was first recorded, and that its count of
\* successes (nav_collection_attempts) is the number of whole collections stored for it and
\* valued on that very day, along every interleaving of jobs that cross midnight, fail, are
\* rolled back or die, of reads that import and of the older release.
THEOREM NavDayRecord == Spec => []DayRecordTrue
<1>1. Init => IInv /\ HealthCountsSnapshots
  <2>1. ASSUME Init PROVE HealthCountsSnapshots
    <3> SUFFICES ASSUME NEW d \in Days
                 PROVE  attempts[d]["complete"] = Cardinality(WholeOnTheDay(versions[d], d))
      BY DEF HealthCountsSnapshots
    <3>1. attempts[d]["complete"] = 0 /\ versions[d] = <<>>
      BY <2>1 DEF Init, Statuses
    <3>2. WholeOnTheDay(versions[d], d) = {}
      BY <3>1 DEF WholeOnTheDay
    <3> QED
      BY <3>1, <3>2, FS_EmptySet
  <2> QED
    BY <2>1, InitIInv
<1>2. IInv /\ HealthCountsSnapshots /\ [Next]_vars => (IInv /\ HealthCountsSnapshots)'
  BY Invariance, HealthStep DEF IInv
<1>3. IInv /\ HealthCountsSnapshots => DayRecordTrue
  BY DEF IInv, DayRecordTrue
<1> QED
  BY <1>1, <1>2, <1>3, PTL DEF Spec

-----------------------------------------------------------------------------
(* Nothing is imported twice *)

\* What is in the projection agrees with the representative, or will be imported.
Settled(d) ==
    projection[d] # None =>
        /\ representative[d] # 0
        /\ SameColumns(versions[d][representative[d]], projection[d])

LEMMA SettledImport ==
    ASSUME TypeOK, Imports
    PROVE  \A d \in Days : Settled(d)'
<1> TAKE d \in Days
<1>1. /\ versions'[d] = Migrated[d]
      /\ representative'[d] = MigratedRepresentative[d]
      /\ projection'[d] = projection[d]
  BY DEF Imports
<1>2. projection[d] # None =>
        /\ MigratedRepresentative[d] # 0
        /\ SameColumns(Migrated[d][MigratedRepresentative[d]], projection[d])
  BY Import
<1> QED
  BY <1>1, <1>2 DEF Settled, SameColumns

LEMMA SettledStores ==
    ASSUME TypeOK, NEW d \in Days, NEW new \in Version, Stores(d, new), NEW k \in Days
    PROVE  Settled(k)'
<1>1. /\ MigratedRepresentative[k] \in 0..Len(Migrated[k]) /\ Len(Migrated[k]) \in Nat
      /\ projection[k] # None =>
           /\ MigratedRepresentative[k] # 0
           /\ SameColumns(Migrated[k][MigratedRepresentative[k]], projection[k])
  BY Import
<1>2. CASE k = d /\ InFront(d, new)
  <2>1. /\ representative'[k] = Len(Migrated[k]) + 1
        /\ versions'[k][Len(Migrated[k]) + 1] = new
        /\ projection'[k] = [value |-> new.value, created |-> new.created, updated |-> new.updated]
    BY <1>2, StoredTables
  <2>2. new.value # Infinite
    BY NoneAssumption DEF Stores
  <2> QED
    BY <1>1, <2>1, <2>2 DEF Settled, SameColumns, Sanitized
<1>3. CASE ~ (k = d /\ InFront(d, new))
  <2>1. /\ representative'[k] = MigratedRepresentative[k]
        /\ projection'[k] = projection[k]
    BY <1>3, StoredTables
  <2>2. \A i \in 1..Len(Migrated[k]) : versions'[k][i] = Migrated[k][i]
    BY StoredTables
  <2>3. MigratedRepresentative[k] # 0 =>
          versions'[k][representative'[k]] = Migrated[k][MigratedRepresentative[k]]
    BY <1>1, <2>1, <2>2
  <2> QED
    BY <1>1, <2>1, <2>3 DEF Settled, SameColumns
<1> QED
  BY <1>2, <1>3

LEMMA SettledIsNotStale ==
    ASSUME NEW d \in Days, Settled(d)'
    PROVE  ~ Stale(d)'
BY DEF Settled, Stale

\* A store transaction leaves nothing to import, so imports come to an end: what a job
\* stored and what was imported, infinite values included, is recognised by the next one.
THEOREM NavSettledAfterStore == Spec => SettledAfterStore
<1>1. Init => IInv
  BY InitIInv
<1>2. IInv /\ [Next]_vars => IInv'
  BY Invariance
<1>3. ASSUME IInv, [Next]_vars
      PROVE  [<<versions, attempts>>' # <<versions, attempts>> => \A d \in Days : ~ Stale(d)']_vars
  <2> SUFFICES ASSUME Next, <<versions, attempts>>' # <<versions, attempts>>, NEW d \in Days
               PROVE  ~ Stale(d)'
    BY <1>3
  <2>0. TypeOK
    BY <1>3 DEF IInv
  <2>1. Imports \/ \E e \in Days, new \in Version : Stores(e, new)
    <3>1. CASE Read
      BY <3>1 DEF Read, Imports
    <3>2. CASE Tick
      BY <3>2 DEF Tick, tables
    <3>3. CASE \E e \in Days : LegacyStore(e)
      BY <3>3 DEF LegacyStore
    <3>4. ASSUME NEW j \in Jobs, JobStep(j)
          PROVE  Imports \/ \E e \in Days, new \in Version : Stores(e, new)
      <4>1. CASE StartJob(j) \/ Collect(j) \/ CollectNothing(j) \/ Capture(j) \/ StoreFails(j)
                   \/ Crash(j)
        BY <4>1 DEF StartJob, Collect, CollectNothing, Capture, StoreFails, Crash, tables
      <4>2. CASE Store(j)
        BY <2>0, <4>2, StoreStep DEF Stores
      <4>3. CASE RecordAttempt(j)
        BY <4>3 DEF RecordAttempt, Imports
      <4> QED
        BY <3>4, <4>1, <4>2, <4>3 DEF JobStep
    <3> QED
      BY <3>1, <3>2, <3>3, <3>4 DEF Next
  <2>2. Settled(d)'
    BY <2>0, <2>1, SettledImport, SettledStores
  <2> QED
    BY <2>2, SettledIsNotStale
<1> QED
  BY <1>1, <1>2, <1>3, PTL DEF Spec, SettledAfterStore

-----------------------------------------------------------------------------
(* The refinement of NavHistory *)

HistoryStep(d) ==
    \/ Shown(d)' = Shown(d)
    \/ /\ versions'[d] # <<>>
       /\ Shown(d)' = versions'[d][Len(versions'[d])]
       /\ Shown(d)'.source = "tool" /\ Shown(d) # None =>
            Shown(d).evidence \subseteq Shown(d)'.evidence
    \/ versions'[d] = versions[d] /\ Shown(d)'.source = "legacy"
    \/ /\ versions'[d] = versions[d]
       /\ Shown(d).source = "legacy"
       /\ \E i \in DOMAIN versions[d] : Shown(d)' = versions[d][i]

Grows(s, t) ==
    /\ s \in Seq(Version) /\ t \in Seq(Version)
    /\ Len(s) <= Len(t)
    /\ \A i \in 1..Len(s) : t[i] = s[i]

LEMMA GrowsIsPrefix ==
    ASSUME NEW s, NEW t, Grows(s, t)
    PROVE  History!IsPrefix(s, t)
<1>1. Len(s) \in Nat /\ Len(t) \in Nat /\ Len(s) <= Len(t)
  BY DEF Grows
<1>2. SubSeq(s, 1, Len(s)) = SubSeq(t, 1, Len(s))
  BY <1>1 DEF Grows
<1> QED
  BY <1>1, <1>2 DEF History!IsPrefix

LEMMA ArchiveGrows ==
    ASSUME IInv, [Next]_vars, NEW k \in Days
    PROVE  Grows(versions[k], versions'[k])
<1>0. TypeOK /\ versions[k] \in Seq(Version) /\ Len(versions[k]) \in Nat
  BY DEF IInv, TypeOK
<1>1. Grows(versions[k], Migrated[k]) /\ Len(Migrated[k]) \in Nat
  BY <1>0, Import DEF Grows
<1>2. CASE Apart
  BY <1>0, <1>2 DEF Apart, tables, Grows
<1>3. CASE Imports
  BY <1>1, <1>3 DEF Imports
<1>4. ASSUME NEW d \in Days, NEW new \in Version, Stores(d, new)
      PROVE  Grows(versions[k], versions'[k])
  <2>1. /\ versions'[k] \in Seq(Version)
        /\ Len(Migrated[k]) <= Len(versions'[k])
        /\ \A i \in 1..Len(Migrated[k]) : versions'[k][i] = Migrated[k][i]
    <3>1. versions'[k] \in Seq(Version)
      BY <1>0, <1>4, StoredTables
    <3>2. CASE k = d
      <4>1. /\ Len(versions'[k]) = Len(Migrated[k]) + 1
            /\ \A i \in 1..Len(Migrated[k]) : versions'[k][i] = Migrated[k][i]
        BY <1>0, <1>4, <3>2, StoredTables
      <4> QED
        BY <1>1, <3>1, <4>1
    <3>3. CASE k # d
      <4>1. versions'[k] = Migrated[k]
        BY <1>0, <1>4, <3>3, StoredTables
      <4> QED
        BY <1>1, <3>1, <4>1
    <3> QED
      BY <3>2, <3>3
  <2>2. Len(versions'[k]) \in Nat
    BY <2>1
  <2> QED
    BY <1>0, <1>1, <2>1, <2>2 DEF Grows
<1>5. ASSUME NEW d \in Days, LegacyStore(d)
      PROVE  Grows(versions[k], versions'[k])
  BY <1>0, <1>5 DEF LegacyStore, Grows
<1> QED
  BY <1>0, <1>2, <1>3, <1>4, <1>5, StepKinds

\* An import changes nothing a reader sees.
LEMMA ShownImport ==
    ASSUME TypeOK, Imports, NEW d \in Days
    PROVE  Shown(d)' = Shown(d)
<1>1. ~ Stale(d)'
  BY SettledImport, SettledIsNotStale
<1>2. Shown(d)' = IF representative'[d] = 0 THEN None ELSE versions'[d][representative'[d]]
  BY <1>1 DEF Shown
<1>3. Shown(d) = IF MigratedRepresentative[d] = 0 THEN None ELSE Migrated[d][MigratedRepresentative[d]]
  BY Import
<1> QED
  BY <1>2, <1>3 DEF Imports

LEMMA ShownStores ==
    ASSUME TypeOK, NEW d \in Days, NEW new \in Version, Stores(d, new), NEW k \in Days
    PROVE  HistoryStep(k)
<1>1. ~ Stale(k)'
  BY SettledStores, SettledIsNotStale
<1>2. Shown(k)' = IF representative'[k] = 0 THEN None ELSE versions'[k][representative'[k]]
  BY <1>1 DEF Shown
<1>3. /\ Shown(k) = IF MigratedRepresentative[k] = 0 THEN None
                    ELSE Migrated[k][MigratedRepresentative[k]]
      /\ MigratedRepresentative[k] \in 0..Len(Migrated[k]) /\ Len(Migrated[k]) \in Nat
  BY Import
<1>4. CASE k = d /\ InFront(d, new)
  <2>1. /\ representative'[k] = Len(Migrated[k]) + 1
        /\ Len(versions'[k]) = Len(Migrated[k]) + 1
        /\ versions'[k][Len(Migrated[k]) + 1] = new
        /\ versions'[k] \in Seq(Version)
    BY <1>4, StoredTables
  <2>2. Shown(k)' = new
    BY <1>2, <1>3, <2>1
  <2>3. versions'[k] # <<>> /\ new = versions'[k][Len(versions'[k])]
    BY <1>3, <2>1
  <2>4. new.source = "tool" /\ Shown(k) # None => Shown(k).evidence \subseteq new.evidence
    BY <1>3, <1>4 DEF InFront
  <2> QED
    BY <2>2, <2>3, <2>4 DEF HistoryStep
<1>5. CASE ~ (k = d /\ InFront(d, new))
  <2>1. /\ representative'[k] = MigratedRepresentative[k]
        /\ \A i \in 1..Len(Migrated[k]) : versions'[k][i] = Migrated[k][i]
    BY <1>5, StoredTables
  <2>2. Shown(k)' = Shown(k)
    BY <1>2, <1>3, <2>1
  <2> QED
    BY <2>2 DEF HistoryStep
<1> QED
  BY <1>4, <1>5

LEMMA ShownLegacy ==
    ASSUME TypeOK, NEW d \in Days, LegacyStore(d), NEW k \in Days
    PROVE  HistoryStep(k)
<1>1. /\ versions' = versions /\ representative' = representative
      /\ k # d => projection'[k] = projection[k]
  BY DEF LegacyStore, TypeOK
<1>2. CASE Stale(k)'
  <2>1. Shown(k)' = Imported(projection'[k])
    BY <1>2 DEF Shown
  <2>2. Shown(k)'.source = "legacy"
    BY <2>1 DEF Imported
  <2> QED
    BY <1>1, <2>2 DEF HistoryStep
<1>3. CASE ~ Stale(k)'
  <2>1. Shown(k)' = IF representative[k] = 0 THEN None ELSE versions[k][representative[k]]
    BY <1>1, <1>3 DEF Shown
  <2>2. CASE ~ Stale(k)
    <3>1. Shown(k) = IF representative[k] = 0 THEN None ELSE versions[k][representative[k]]
      BY <2>2 DEF Shown
    <3> QED
      BY <2>1, <3>1 DEF HistoryStep
  <2>3. CASE Stale(k)
    <3>1. Shown(k).source = "legacy"
      BY <2>3 DEF Shown, Imported
    <3>2. k = d
      BY <1>1, <1>3, <2>3 DEF Stale
    <3>3. projection'[k] # None
      <4>1. PICK v \in Values \union {Infinite} :
              projection'[k] = [value |-> v, created |-> CreatedAt(d, now), updated |-> now]
        BY <3>2 DEF LegacyStore, TypeOK
      <4>2. CreatedAt(d, now) \in Times /\ now \in Times
        BY DEF CreatedAt, TypeOK, Row
      <4> QED
        BY <4>1, <4>2, RowIsSome
    <3>4. representative[k] # 0
      BY <1>1, <1>3, <3>3 DEF Stale
    <3>5. representative[k] \in DOMAIN versions[k]
      <4>1. versions[k] \in Seq(Version) /\ representative[k] \in Nat
            /\ representative[k] <= Len(versions[k])
        BY DEF TypeOK
      <4> QED
        BY <3>4, <4>1
    <3> QED
      BY <1>1, <2>1, <3>1, <3>4, <3>5 DEF HistoryStep
  <2> QED
    BY <2>2, <2>3
<1> QED
  BY <1>2, <1>3

LEMMA ShownStep ==
    ASSUME IInv, [Next]_vars, NEW k \in Days
    PROVE  HistoryStep(k)
<1>0. TypeOK
  BY DEF IInv
<1>1. CASE Apart
  BY <1>1 DEF Apart, tables, HistoryStep, Shown, Stale
<1>2. CASE Imports
  BY <1>0, <1>2, ShownImport DEF HistoryStep
<1> QED
  BY <1>0, <1>1, <1>2, ShownStores, ShownLegacy, StepKinds

\* The store implements NavHistory: stored observations are immutable, the one shown for
\* a day is replaced only by a new one, and a snapshot of the tool never hides evidence
\* that only the scheduled capture collects.
THEOREM NavImplementsHistory == Spec => ImplementsHistory
<1>1. Init => IInv
  BY InitIInv
<1>2. IInv /\ [Next]_vars => IInv'
  BY Invariance
<1>3. Init => History!Init
  <2>1. Init => \A d \in Days : Shown(d) = None
    BY DEF Init, Shown, Stale
  <2> QED
    BY <2>1 DEF Init, History!Init
<1>4. ASSUME IInv, [Next]_vars
      PROVE  History!Next
  <2>1. TypeOK /\ TypeOK'
    BY <1>2, <1>3, <1>4 DEF IInv
  <2>2. DOMAIN versions' = Days
    BY <2>1 DEF TypeOK
  <2>3. ASSUME NEW d \in Days
        PROVE  /\ History!IsPrefix(versions[d], versions'[d])
               /\ \/ History!Kept(d) \/ History!Replaced(d)
                  \/ History!Overwritten(d) \/ History!PutBack(d)
    <3>1. History!IsPrefix(versions[d], versions'[d])
      BY <1>4, ArchiveGrows, GrowsIsPrefix
    <3>2. HistoryStep(d)
      BY <1>4, ShownStep
    <3>3. [e \in Days |-> Shown(e)]'[d] = Shown(d)' /\ [e \in Days |-> Shown(e)][d] = Shown(d)
      OBVIOUS
    <3> QED
      BY <3>1, <3>2, <3>3 DEF HistoryStep, History!Kept, History!Replaced, History!Overwritten,
        History!PutBack, History!Hides, History!Last, History!Range
  <2> QED
    BY <2>2, <2>3 DEF History!Next
<1> QED
  BY <1>1, <1>2, <1>3, <1>4, PTL DEF Spec, ImplementsHistory, History!Spec

(***************************************************************************)
(* CryptoFlows.tla, for any venues, movements and bounds.  CoinInv says    *)
(* what every stored fact is worth: a status told of a settled movement is *)
(* so, a worth that was read counts what moved before it up to a tick, and *)
(* a window lists no movement of another time.  A movement between two     *)
(* reads that any pass told of then is in one of the selected windows and  *)
(* is not doubtful, so what is counted is what moved.                      *)
(***************************************************************************)
CoinStatus == {"pending", "done", "failed"}
CoinMove == [stream : DOMAIN Brings, brings : UNION Range(Brings), stamp : Int, status : CoinStatus]
Tells == [id : Nat, status : CoinStatus]
Passes == [pc : {"idle", "read"}, n : Nat, runs : Nat, observed : Int, plan : Nat, got : SUBSET Tells, total : Int]
CutType == [read : Int, cut : Int, counted : SUBSET Nat, whole : BOOLEAN]

FlowsTyped ==
    /\ scene \in SceneType /\ scene.pad > scene.tick /\ beat \in Nat
    /\ coinMoves \in Seq(CoinMove) /\ Len(coinMoves) <= scene.moves
    /\ ledgerTells \in [1..scene.moves -> [n : Nat, status : CoinStatus, alike : BOOLEAN]]
    /\ cuts \in Seq(CutType) /\ pass \in Passes

(* What was told of a movement is so, if it was settled.                     *)
TellTrue(m, status) == m \in Moved /\ (status # "pending" => coinMoves[m].status = status)

StampsPast == \A m \in Moved : coinMoves[m].stamp <= beat

(* The worth that was read counts what moved before, up to a precision.      *)
CountedTrue(c) ==
    c.read # Unset =>
        /\ c.read \in 0..beat
        /\ \A m \in Moved : IF m \in c.counted THEN coinMoves[m].stamp <= c.read
                            ELSE coinMoves[m].stamp + scene.tick >= c.read
        /\ c.counted \subseteq Moved

TellsTrue(got, lo, hi) == \A g \in got : TellTrue(g.id, g.status) /\ lo <= coinMoves[g.id].stamp /\ coinMoves[g.id].stamp <= hi

WindowTrue(w) ==
    /\ w.lo \in Int /\ w.hi \in Int /\ w.n \in 0..pass.n
    /\ TellsTrue(w.got, w.lo, w.hi)

PassTrue == pass.pc = "read" => TellsTrue(pass.got, WindowOf(pass).lo, WindowOf(pass).hi)

CoinInv ==
    /\ FlowsTyped /\ StampsPast /\ PassTrue
    /\ \A k \in DOMAIN cuts : CountedTrue(cuts[k])
    /\ \A m \in DOMAIN ledgerTells : ledgerTells[m].n > 0 => TellTrue(m, ledgerTells[m].status)
    /\ \A w \in windows : WindowTrue(w)

-----------------------------------------------------------------------------
LEMMA MinIs ==
    ASSUME NEW S \in SUBSET Int, NEW x \in S, \A y \in S : x <= y PROVE Min(S) = x
<1>1. \E z \in S : \A y \in S : z <= y
  OBVIOUS
<1>2. Min(S) \in S /\ \A y \in S : Min(S) <= y
  BY <1>1, Zenon DEF Min
<1> QED
  BY <1>2, Min(S) \in Int /\ x \in Int

LEMMA MaxIs ==
    ASSUME NEW S \in SUBSET Int, NEW x \in S, \A y \in S : y <= x PROVE Max(S) = x
<1>1. \E z \in S : \A y \in S : z >= y
  BY \A y \in S : y \in Int
<1>2. Max(S) \in S /\ \A y \in S : Max(S) >= y
  BY <1>1, Zenon DEF Max
<1> QED
  BY <1>2, Max(S) \in Int /\ x \in Int

LEMMA FirstOf ==
    ASSUME NEW S \in SUBSET Nat, S # {}
    PROVE  \E x \in S : \A y \in S : x <= y
<1>1. PICK x \in S : \A y \in S : ~(<<y, x>> \in OpToRel(<, Nat))
  BY NatLessThanWellFounded, WFMin, Zenon
<1>2. \A y \in S : ~(y < x)
  BY <1>1 DEF OpToRel
<1> QED
  BY <1>2

LEMMA PairEnds ==
    ASSUME NEW a \in Int, NEW b \in Int
    PROVE  /\ Min({a, b}) \in Int /\ Min({a, b}) <= a /\ Min({a, b}) <= b /\ Min({a, b}) \in {a, b}
           /\ Max({a, b}) \in Int /\ a <= Max({a, b}) /\ b <= Max({a, b}) /\ Max({a, b}) \in {a, b}
<1>1. CASE a <= b
  <2>1. Min({a, b}) = a
    BY <1>1, MinIs
  <2>2. Max({a, b}) = b
    BY <1>1, MaxIs
  <2> QED
    BY <1>1, <2>1, <2>2
<1>2. CASE b <= a
  <2>1. Min({a, b}) = b
    BY <1>2, MinIs
  <2>2. Max({a, b}) = a
    BY <1>2, MaxIs
  <2> QED
    BY <1>2, <2>1, <2>2
<1> QED
  BY <1>1, <1>2

LEMMA SomeEnds ==
    ASSUME NEW S \in SUBSET Int, NEW lo \in S, NEW hi \in S, \A y \in S : lo <= y /\ y <= hi
    PROVE  Min(S) = lo /\ Max(S) = hi
  BY MinIs, MaxIs

(* The earliest and the latest moment of two captures. *)
LEMMA PaddedIs ==
    ASSUME NEW i \in DOMAIN cuts, NEW j \in DOMAIN cuts, cuts \in Seq(CutType), scene \in SceneType
    PROVE  LET span == Padded(i, j) IN
           /\ span[1] \in Int /\ span[2] \in Int
           /\ \A t \in {cuts[i].read, cuts[i].cut, cuts[j].read, cuts[j].cut} :
                 span[1] <= t - scene.pad /\ t + scene.pad <= span[2]
<1> DEFINE S == {cuts[i].read, cuts[i].cut, cuts[j].read, cuts[j].cut}
<1>1. cuts[i] \in CutType /\ cuts[j] \in CutType
  OBVIOUS
<1>2. S \in SUBSET Int
  BY <1>1 DEF CutType
<1>3. UNION Guards(i, j) = S
  BY DEF Guards
<1>4. \E lo \in S : \A y \in S : lo <= y
  BY <1>2
<1>5. \E hi \in S : \A y \in S : y <= hi
  BY <1>2
<1>6. scene.pad \in Nat
  BY DEF SceneType
<1>7. Padded(i, j) = <<Min(S) - scene.pad, Max(S) + scene.pad>>
  BY <1>3 DEF Padded
<1> HIDE DEF S
<1>8. Min(S) \in S /\ \A y \in S : Min(S) <= y
  BY <1>2, <1>4, MinIs
<1>9. Max(S) \in S /\ \A y \in S : y <= Max(S)
  BY <1>2, <1>5, MaxIs
<1>10. Min(S) \in Int /\ Max(S) \in Int
  BY <1>2, <1>8, <1>9
<1>11. ASSUME NEW t \in S
       PROVE  Min(S) - scene.pad <= t - scene.pad /\ t + scene.pad <= Max(S) + scene.pad
  <2>1. Min(S) <= t /\ t <= Max(S) /\ t \in Int
    BY <1>2, <1>8, <1>9, <1>11
  <2> QED
    BY <1>6, <1>10, <2>1
<1>12. Min(S) - scene.pad \in Int /\ Max(S) + scene.pad \in Int
  BY <1>6, <1>10
<1> QED
  BY <1>7, <1>11, <1>12 DEF S
(* Of the windows that tell of a movement, one was read last. *)
LEMMA LatestIs ==
    ASSUME CoinInv, NEW strict \in SUBSET windows, strict # {}
    PROVE  LET latest == CHOOSE w \in strict : \A v \in strict : v.n <= w.n
           IN  latest \in strict
<1> DEFINE R == {pass.n - w.n : w \in strict}
<1>1. pass.n \in Nat /\ \A w \in strict : w.n \in 0..pass.n
  BY DEF CoinInv, FlowsTyped, Passes, WindowTrue
<1>2. R \in SUBSET Nat /\ R # {}
  <2>1. \A w \in strict : pass.n - w.n \in Nat
    BY <1>1
  <2> QED
    BY <2>1
<1>3. PICK r \in R : \A s \in R : r <= s
  BY <1>2, FirstOf
<1>4. PICK w \in strict : r = pass.n - w.n
  OBVIOUS
<1>5. \A v \in strict : v.n <= w.n
  <2> SUFFICES ASSUME NEW v \in strict PROVE v.n <= w.n
    OBVIOUS
  <2>1. r <= pass.n - v.n
    BY <1>3
  <2>2. v.n \in Int /\ w.n \in Int /\ pass.n \in Int
    BY <1>1
  <2> QED
    BY <1>4, <2>1, <2>2
<1> QED
  BY <1>5, Zenon

(* What is told of a movement is true, if it is settled. *)
LEMMA StatusIs ==
    ASSUME CoinInv, NEW view \in SUBSET windows, NEW w \in view, NEW m \in Ids(w), m \in DOMAIN ledgerTells
    PROVE  StatusOf(m, view) # "pending" => coinMoves[m].status = StatusOf(m, view)
<1> DEFINE strict == {v \in view : m \in Ids(v)}
           latest == CHOOSE v \in strict : \A u \in strict : u.n <= v.n
           fact == CHOOSE g \in latest.got : g.id = m
<1>1. strict \in SUBSET windows /\ strict # {}
  OBVIOUS
<1>2. latest \in strict
  BY <1>1, LatestIs
<1>3. latest \in windows /\ m \in Ids(latest)
  BY <1>2
<1>4. fact \in latest.got /\ fact.id = m
  BY <1>3 DEF Ids
<1>5. TellTrue(m, fact.status)
  BY <1>3, <1>4 DEF CoinInv, WindowTrue, TellsTrue
<1>6. latest.n \in Nat /\ ledgerTells[m].n \in Nat
  BY <1>3 DEF CoinInv, WindowTrue, FlowsTyped
<1>7. ledgerTells[m].n > latest.n => TellTrue(m, ledgerTells[m].status)
  BY <1>6 DEF CoinInv
<1>8. StatusOf(m, view) = IF ledgerTells[m].n > latest.n THEN ledgerTells[m].status ELSE fact.status
  BY DEF StatusOf
<1> QED
  BY <1>5, <1>7, <1>8 DEF TellTrue

(* A time that is not doubtful lies on one side of a capture. *)
LEMMA OneSide ==
    ASSUME NEW s \in Int, NEW t \in Nat, NEW a \in Int, NEW b \in Int,
           (s - t..s + t) \cap (Min({a, b})..Max({a, b})) = {}
    PROVE  (s + t < a /\ s + t < b) \/ (a < s - t /\ b < s - t)
<1> DEFINE lo == Min({a, b})
           hi == Max({a, b})
<1>1. lo \in Int /\ hi \in Int /\ lo <= a /\ lo <= b /\ a <= hi /\ b <= hi /\ lo \in {a, b} /\ hi \in {a, b}
  BY PairEnds
<1>2. \A x \in Int : ~(s - t <= x /\ x <= s + t /\ lo <= x /\ x <= hi)
  BY <1>1
<1> HIDE DEF lo, hi
<1>3. CASE s - t >= lo
  BY <1>1, <1>2, <1>3
<1>4. CASE s - t < lo
  <2>1. ~(lo <= s + t)
    BY <1>1, <1>2, <1>4
  <2> QED
    BY <1>1, <2>1
<1> QED
  BY <1>1, <1>3, <1>4

(* What is counted is what moved between the reads. *)
LEMMA CountedIsMoved ==
    ASSUME CoinInv, NEW i \in DOMAIN cuts, NEW j \in DOMAIN cuts, Taken(cuts[i]), Taken(cuts[j]), Told(i, j),
           \A m \in cuts[j].counted \ cuts[i].counted : coinMoves[m].status # "failed" => TellsOf(m)
    PROVE  LET view == Selected(Padded(i, j)) IN
           {m \in UNION {Ids(w) : w \in view} : Between(i, j, m) /\ StatusOf(m, view) = "done"}
              = {m \in cuts[j].counted \ cuts[i].counted : coinMoves[m].status # "failed"}
<1> DEFINE span == Padded(i, j)
           view == Selected(span)
           strict == UNION {Ids(w) : w \in view}
           known == strict \cup LedgerKnows(span)
<1>1. /\ cuts[i] \in CutType /\ cuts[j] \in CutType /\ scene \in SceneType
      /\ scene.tick \in Nat /\ scene.pad \in Nat /\ scene.pad > scene.tick /\ scene.moves \in Nat
      /\ coinMoves \in Seq(CoinMove) /\ Len(coinMoves) \in Nat /\ Len(coinMoves) <= scene.moves
      /\ DOMAIN ledgerTells = 1..scene.moves
  BY DEF CoinInv, FlowsTyped, SceneType
<1>2. /\ cuts[i].read \in Int /\ cuts[i].cut \in Int /\ cuts[i].read # Unset
      /\ cuts[j].read \in Int /\ cuts[j].cut \in Int /\ cuts[j].read # Unset
  BY <1>1 DEF CutType, Taken
<1>3. CountedTrue(cuts[i]) /\ CountedTrue(cuts[j])
  BY DEF CoinInv
<1>4. ASSUME NEW m \in Moved PROVE coinMoves[m].stamp \in Int /\ m \in DOMAIN ledgerTells
  <2>1. coinMoves[m] \in CoinMove /\ m \in 1..scene.moves
    BY <1>1 DEF Moved
  <2> QED
    BY <1>1, <2>1 DEF CoinMove
<1>5. view \in SUBSET windows
  BY DEF Selected
<1>6. known \subseteq Moved
  <2>1. \A w \in windows : Ids(w) \subseteq Moved
    BY DEF CoinInv, WindowTrue, TellsTrue, TellTrue, Ids
  <2> QED
    BY <1>5, <2>1 DEF LedgerKnows
<1>7. ASSUME NEW m \in known, NEW c \in {cuts[i], cuts[j]}
      PROVE  \/ coinMoves[m].stamp + scene.tick < c.read /\ coinMoves[m].stamp + scene.tick < c.cut
             \/ c.read < coinMoves[m].stamp - scene.tick /\ c.cut < coinMoves[m].stamp - scene.tick
  <2>1. {c.read, c.cut} \in Guards(i, j)
    BY DEF Guards
  <2>2. Readings(coinMoves[m].stamp) \cap Min({c.read, c.cut})..Max({c.read, c.cut}) = {}
    BY <2>1 DEF Told
  <2>3. c.read \in Int /\ c.cut \in Int /\ coinMoves[m].stamp \in Int
    BY <1>2, <1>4, <1>6
  <2> QED
    BY <1>1, <2>2, <2>3, OneSide DEF Readings
<1>8. ASSUME NEW m \in strict
      PROVE  StatusOf(m, view) # "pending" => coinMoves[m].status = StatusOf(m, view)
  <2>1. PICK w \in view : m \in Ids(w)
    BY <1>8
  <2>2. m \in DOMAIN ledgerTells
    BY <1>4, <1>6
  <2> HIDE DEF view
  <2> QED
    BY <1>5, <2>1, <2>2, StatusIs
<1>9. ASSUME NEW m \in strict, Between(i, j, m), StatusOf(m, view) = "done"
      PROVE  m \in cuts[j].counted \ cuts[i].counted /\ coinMoves[m].status # "failed"
  <2>1. m \in known /\ m \in Moved /\ coinMoves[m].stamp \in Int
    BY <1>4, <1>6
  <2>2. cuts[i].cut < coinMoves[m].stamp /\ coinMoves[m].stamp <= cuts[j].cut
    BY <1>9 DEF Between
  <2>3. cuts[i].read < coinMoves[m].stamp
    BY <1>1, <1>2, <1>7, <2>1, <2>2
  <2>4. coinMoves[m].stamp + scene.tick < cuts[j].read
    BY <1>1, <1>2, <1>7, <2>1, <2>2
  <2>5. m \notin cuts[i].counted
    BY <1>2, <1>3, <2>1, <2>3 DEF CountedTrue
  <2>6. m \in cuts[j].counted
    BY <1>1, <1>2, <1>3, <2>1, <2>4 DEF CountedTrue
  <2>7. coinMoves[m].status = "done"
    BY <1>8, <1>9
  <2> QED
    BY <2>5, <2>6, <2>7
<1>10. ASSUME NEW m \in cuts[j].counted \ cuts[i].counted, coinMoves[m].status # "failed"
       PROVE  m \in strict /\ Between(i, j, m) /\ StatusOf(m, view) = "done"
  <2>1. m \in Moved /\ coinMoves[m].stamp \in Int
    BY <1>2, <1>3, <1>4 DEF CountedTrue
  <2>2. coinMoves[m].stamp <= cuts[j].read /\ coinMoves[m].stamp + scene.tick >= cuts[i].read
    BY <1>2, <1>3, <2>1 DEF CountedTrue
  <2>3. /\ span[1] \in Int /\ span[2] \in Int
        /\ span[1] <= cuts[i].read - scene.pad /\ cuts[j].read + scene.pad <= span[2]
    BY <1>1, PaddedIs DEF CoinInv, FlowsTyped
  <2>4. span[1] < coinMoves[m].stamp /\ coinMoves[m].stamp <= span[2]
    BY <1>1, <1>2, <2>1, <2>2, <2>3
  <2>5. m \in known
    <3>1. TellsOf(m)
      BY <1>10
    <3>2. CASE ledgerTells[m].n > 0
      BY <2>1, <2>4, <3>2 DEF LedgerKnows
    <3>3. ASSUME NEW w \in windows, m \in Ids(w) PROVE m \in strict
      <4>1. w.lo \in Int /\ w.hi \in Int /\ w.lo <= coinMoves[m].stamp /\ coinMoves[m].stamp <= w.hi
        BY <3>3 DEF CoinInv, WindowTrue, TellsTrue, Ids
      <4>2. Overlaps(w, span)
        BY <2>1, <2>3, <2>4, <4>1 DEF Overlaps
      <4>3. w \in view
        BY <4>2 DEF Selected
      <4> QED
        BY <3>3, <4>3
    <3> QED
      BY <3>1, <3>2, <3>3 DEF TellsOf
  <2> HIDE DEF known, strict, view, span
  <2>6. cuts[i].read < coinMoves[m].stamp - scene.tick /\ cuts[i].cut < coinMoves[m].stamp - scene.tick
    BY <1>1, <1>2, <1>7, <2>1, <2>2, <2>5
  <2>7. coinMoves[m].stamp + scene.tick < cuts[j].cut
    BY <1>1, <1>2, <1>7, <2>1, <2>2, <2>5
  <2>8. Between(i, j, m)
    BY <1>1, <1>2, <2>1, <2>6, <2>7 DEF Between
  <2>9. m \in strict /\ StatusOf(m, view) # "pending"
    BY <2>5, <2>8 DEF Told, known, strict, view, span
  <2>10. coinMoves[m].status = StatusOf(m, view)
    BY <1>8, <2>9
  <2>11. coinMoves[m].status \in CoinStatus
    <3>1. coinMoves[m] \in CoinMove
      BY <1>1, <2>1 DEF Moved
    <3> QED
      BY <3>1 DEF CoinMove
  <2> QED
    BY <1>10, <2>8, <2>9, <2>10, <2>11 DEF CoinStatus
<1> HIDE DEF view, strict
<1>11. {m \in strict : Between(i, j, m) /\ StatusOf(m, view) = "done"}
          = {m \in cuts[j].counted \ cuts[i].counted : coinMoves[m].status # "failed"}
  BY <1>9, <1>10
<1> QED
  BY <1>11 DEF strict, view, span

LEMMA CoinInvMeans == CoinInv => FlowBetweenReads
<1> SUFFICES ASSUME CoinInv, NEW ij \in Intervals,
                    Told(ij[1], ij[2]),
                    \A m \in {m \in cuts[ij[2]].counted \ cuts[ij[1]].counted : coinMoves[m].status # "failed"} : TellsOf(m)
             PROVE  ToldFlow(ij[1], ij[2])
                      = SumOf({m \in cuts[ij[2]].counted \ cuts[ij[1]].counted : coinMoves[m].status # "failed"})
  BY DEF FlowBetweenReads
<1>1. ij[1] \in DOMAIN cuts /\ ij[2] \in DOMAIN cuts /\ Taken(cuts[ij[1]]) /\ Taken(cuts[ij[2]])
  BY DEF Intervals, Usable
<1>2. LET view == Selected(Padded(ij[1], ij[2])) IN
           {m \in UNION {Ids(w) : w \in view} : Between(ij[1], ij[2], m) /\ StatusOf(m, view) = "done"}
              = {m \in cuts[ij[2]].counted \ cuts[ij[1]].counted : coinMoves[m].status # "failed"}
  BY <1>1, CountedIsMoved
<1> QED
  BY <1>2, Zenon DEF ToldFlow

-----------------------------------------------------------------------------
LEMMA CoinsBegin == CryptoFlowsInit => CoinInv
<1> SUFFICES ASSUME CryptoFlowsInit PROVE CoinInv
  OBVIOUS
<1>1. /\ scene \in Scenes /\ beat = 0 /\ coinMoves = <<>> /\ windows = {} /\ pass = Idle(0, 0)
      /\ cuts = <<IF scene.readFirst THEN [NewCut EXCEPT !.read = 0] ELSE [NewCut EXCEPT !.cut = 0]>>
      /\ ledgerTells = [m \in 1..scene.moves |-> [n |-> 0, status |-> "pending", alike |-> TRUE]]
  BY DEF CryptoFlowsInit
<1>2. scene \in SceneType /\ scene.pad > scene.tick /\ scene.moves \in Nat
  BY <1>1, CryptoFlowsAssumption DEF SceneType
<1>3. coinMoves \in Seq(CoinMove) /\ Len(coinMoves) = 0 /\ Moved = {}
  BY <1>1 DEF Moved
<1>4. cuts \in Seq(CutType) /\ DOMAIN cuts = {1} /\ cuts[1].counted = {} /\ (cuts[1].read = Unset \/ cuts[1].read = 0)
  <2>1. ASSUME NEW c \in CutType PROVE <<c>> \in Seq(CutType) /\ DOMAIN <<c>> = {1} /\ <<c>>[1] = c
    OBVIOUS
  <2>2. NewCut = [read |-> Unset, cut |-> Unset, counted |-> {}, whole |-> FALSE]
    BY DEF NewCut
  <2>3. NewCut \in CutType /\ NewCut.counted = {} /\ NewCut.read = Unset
    BY <2>2 DEF CutType, Unset
  <2>4. /\ [NewCut EXCEPT !.read = 0] \in CutType /\ [NewCut EXCEPT !.read = 0].counted = {}
        /\ [NewCut EXCEPT !.read = 0].read = 0
        /\ [NewCut EXCEPT !.cut = 0] \in CutType /\ [NewCut EXCEPT !.cut = 0].counted = {}
        /\ [NewCut EXCEPT !.cut = 0].read = Unset
    BY <2>3 DEF CutType
  <2>5. PICK c : c = cuts[1] /\ cuts = <<c>> /\ c \in {[NewCut EXCEPT !.read = 0], [NewCut EXCEPT !.cut = 0]}
    BY <1>1
  <2>6. c \in CutType /\ c.counted = {} /\ (c.read = Unset \/ c.read = 0)
    BY <2>4, <2>5
  <2> QED
    BY <2>1, <2>5, <2>6
<1>5. ledgerTells \in [1..scene.moves -> [n : Nat, status : CoinStatus, alike : BOOLEAN]]
      /\ \A m \in 1..scene.moves : ledgerTells[m].n = 0
  BY <1>1 DEF CoinStatus
<1>6. pass \in Passes /\ pass.pc = "idle"
  BY <1>1 DEF Idle, Passes, Unset
<1>7. FlowsTyped
  BY <1>1, <1>2, <1>3, <1>4, <1>5, <1>6 DEF FlowsTyped
<1>8. CountedTrue(cuts[1])
  BY <1>1, <1>3, <1>4 DEF CountedTrue
<1> QED
  BY <1>1, <1>3, <1>4, <1>5, <1>6, <1>7, <1>8 DEF CoinInv, StampsPast, PassTrue

(* What was told stays true while movements happen and settle. *)
LEMMA TellsStay ==
    ASSUME CoinInv, FlowsTyped', beat' \in Nat, beat' >= beat, UNCHANGED <<scene, ledgerTells, pass, windows, cuts>>,
           Moved \subseteq Moved',
           \A m \in Moved : /\ coinMoves'[m].stamp = coinMoves[m].stamp
                            /\ coinMoves[m].status # "pending" => coinMoves'[m].status = coinMoves[m].status,
           \A m \in Moved' \ Moved : coinMoves'[m].stamp <= beat' /\ coinMoves'[m].stamp + scene.tick >= beat'
    PROVE  CoinInv'
<1>1. /\ scene.tick \in Nat /\ beat \in Nat
      /\ \A m \in Moved' : coinMoves'[m].stamp \in Int
  <2>1. coinMoves' \in Seq(CoinMove) /\ Moved' = 1..Len(coinMoves')
    BY DEF FlowsTyped, Moved
  <2>2. \A m \in Moved' : coinMoves'[m] \in CoinMove
    BY <2>1
  <2> QED
    BY <2>2 DEF CoinInv, FlowsTyped, SceneType, CoinMove
<1>2. \A m, status : TellTrue(m, status) => TellTrue(m, status)'
  BY DEF TellTrue
<1>3. \A got, lo, hi : TellsTrue(got, lo, hi) => TellsTrue(got, lo, hi)'
  <2> SUFFICES ASSUME NEW got, NEW lo, NEW hi, TellsTrue(got, lo, hi) PROVE TellsTrue(got, lo, hi)'
    OBVIOUS
  <2> QED
    BY <1>2 DEF TellsTrue, TellTrue
<1>4. PassTrue'
  BY <1>3 DEF CoinInv, PassTrue, WindowOf, Cutoff
<1>5. \A w \in windows' : WindowTrue(w)'
  BY <1>3 DEF CoinInv, WindowTrue
<1>6. \A m \in (DOMAIN ledgerTells)' : ledgerTells'[m].n > 0 => TellTrue(m, ledgerTells[m].status)'
  BY <1>2 DEF CoinInv
<1>7. StampsPast'
  <2> SUFFICES ASSUME NEW m \in Moved' PROVE coinMoves'[m].stamp <= beat'
    BY DEF StampsPast
  <2>1. CASE m \in Moved
    <3>1. coinMoves'[m].stamp <= beat
      BY <2>1 DEF CoinInv, StampsPast
    <3> QED
      BY <1>1, <3>1
  <2> QED
    BY <2>1
<1>8. ASSUME NEW k \in DOMAIN cuts
      PROVE  CountedTrue(cuts[k])'
  <2> DEFINE c == cuts[k]
  <2>1. CountedTrue(c)
    BY DEF CoinInv
  <2> SUFFICES ASSUME c.read # Unset
               PROVE  /\ c.read \in 0..beat'
                      /\ \A m \in Moved' : IF m \in c.counted THEN coinMoves'[m].stamp <= c.read
                                           ELSE coinMoves'[m].stamp + scene.tick >= c.read
                      /\ c.counted \subseteq Moved'
    BY DEF CountedTrue
  <2>2. c.read \in 0..beat /\ c.read \in 0..beat'
    BY <1>1, <2>1 DEF CountedTrue
  <2>3. ASSUME NEW m \in Moved'
        PROVE  IF m \in c.counted THEN coinMoves'[m].stamp <= c.read ELSE coinMoves'[m].stamp + scene.tick >= c.read
    <3>1. CASE m \in Moved
      BY <2>1, <3>1 DEF CountedTrue
    <3>2. CASE m \notin Moved
      <4>1. m \notin c.counted
        BY <2>1, <3>2 DEF CountedTrue
      <4>2. coinMoves'[m].stamp + scene.tick >= beat'
        BY <3>2
      <4> QED
        BY <1>1, <2>2, <4>1, <4>2
    <3> QED
      BY <3>1, <3>2
  <2>4. c.counted \subseteq Moved'
    BY <2>1 DEF CountedTrue
  <2> QED
    BY <2>2, <2>3, <2>4
<1> QED
  BY <1>4, <1>5, <1>6, <1>7, <1>8 DEF CoinInv

LEMMA BeatKeeps == CoinInv /\ BeatPasses => CoinInv'
<1> SUFFICES ASSUME CoinInv, BeatPasses PROVE CoinInv'
  OBVIOUS
<1>1. beat' = beat + 1 /\ beat \in Nat /\ UNCHANGED <<scene, coinMoves, ledgerTells, pass, windows, cuts>>
  BY DEF BeatPasses, CoinInv, FlowsTyped
<1>2. FlowsTyped' /\ Moved' = Moved
  BY <1>1 DEF CoinInv, FlowsTyped, Moved
<1> QED
  BY <1>1, <1>2, TellsStay

LEMMA CoinsMoveKeeps == CoinInv /\ CoinsMove => CoinInv'
<1> SUFFICES ASSUME CoinInv, CoinsMove PROVE CoinInv'
  OBVIOUS
<1>0. PICK stream \in Streams, stamp \in {beat, beat - scene.tick}, status \in {"pending", "done"} :
         \E brings \in Brings[stream] :
            coinMoves' = Append(coinMoves, [stream |-> stream, brings |-> brings, stamp |-> stamp, status |-> status])
  BY DEF CoinsMove
<1>1. PICK brings \in Brings[stream] :
         coinMoves' = Append(coinMoves, [stream |-> stream, brings |-> brings, stamp |-> stamp, status |-> status])
  BY <1>0
<1>2. Len(coinMoves) < scene.moves /\ UNCHANGED <<scene, beat, ledgerTells, pass, windows, cuts>>
  BY DEF CoinsMove
<1> DEFINE move == [stream |-> stream, brings |-> brings, stamp |-> stamp, status |-> status]
<1>3. /\ scene \in SceneType /\ scene.tick \in Nat /\ scene.moves \in Nat /\ beat \in Nat
      /\ coinMoves \in Seq(CoinMove) /\ Len(coinMoves) \in Nat
  BY DEF CoinInv, FlowsTyped, SceneType
<1>4. stream \in DOMAIN Brings
  <2>1. scene.streams \in Seq(DOMAIN Brings)
    BY <1>3 DEF SceneType
  <2> QED
    BY <2>1 DEF Streams, Range
<1>5. stamp \in Int /\ stamp <= beat /\ stamp + scene.tick >= beat
  BY <1>3
<1>6. move \in CoinMove
  <2>1. brings \in UNION Range(Brings)
    BY <1>4 DEF Range
  <2> QED
    BY <1>4, <1>5, <2>1 DEF CoinMove, CoinStatus
<1> HIDE DEF move
<1>7. /\ coinMoves' \in Seq(CoinMove) /\ Len(coinMoves') = Len(coinMoves) + 1
      /\ \A m \in 1..Len(coinMoves) : coinMoves'[m] = coinMoves[m]
      /\ coinMoves'[Len(coinMoves) + 1] = move
  BY <1>1, <1>3, <1>6, AppendProperties DEF move
<1>8. FlowsTyped'
  BY <1>2, <1>3, <1>7 DEF CoinInv, FlowsTyped
<1>9. Moved \subseteq Moved' /\ Moved' \ Moved \subseteq {Len(coinMoves) + 1}
  BY <1>3, <1>7 DEF Moved
<1>10. \A m \in Moved : coinMoves'[m] = coinMoves[m]
  BY <1>7 DEF Moved
<1>11. \A m \in Moved' \ Moved : coinMoves'[m].stamp = stamp
  BY <1>7, <1>9 DEF move
<1> QED
  BY <1>2, <1>3, <1>5, <1>8, <1>9, <1>10, <1>11, TellsStay

LEMMA SettleKeeps == CoinInv /\ MoveSettles => CoinInv'
<1> SUFFICES ASSUME CoinInv, MoveSettles PROVE CoinInv'
  OBVIOUS
<1>1. PICK m \in Moved, status \in {"done", "failed"} :
         coinMoves[m].status = "pending" /\ coinMoves' = [coinMoves EXCEPT ![m].status = status]
  BY DEF MoveSettles
<1>2. UNCHANGED <<scene, beat, ledgerTells, pass, windows, cuts>> /\ beat \in Nat
  BY DEF MoveSettles, CoinInv, FlowsTyped
<1>3. coinMoves \in Seq(CoinMove) /\ m \in 1..Len(coinMoves) /\ Len(coinMoves) \in Nat
  BY DEF CoinInv, FlowsTyped, Moved
<1> DEFINE settled == [coinMoves[m] EXCEPT !.status = status]
<1>4. coinMoves' = [coinMoves EXCEPT ![m] = settled]
  BY <1>1
<1>5. settled \in CoinMove /\ settled.stamp = coinMoves[m].stamp
  <2>1. coinMoves[m] \in CoinMove
    BY <1>3
  <2> QED
    BY <2>1 DEF CoinMove, CoinStatus
<1> HIDE DEF settled
<1>6. coinMoves' \in Seq(CoinMove) /\ Len(coinMoves') = Len(coinMoves) /\ Moved' = Moved
  BY <1>3, <1>4, <1>5, ExceptSeq DEF Moved
<1>7. FlowsTyped'
  BY <1>2, <1>6 DEF CoinInv, FlowsTyped
<1>8. \A k \in Moved : coinMoves'[k] = IF k = m THEN settled ELSE coinMoves[k]
  BY <1>3, <1>4 DEF Moved
<1> QED
  BY <1>1, <1>2, <1>5, <1>6, <1>7, <1>8, TellsStay

LEMMA CutDated ==
    ASSUME NEW c \in CutType, NEW x \in Int
    PROVE  LET d == [c EXCEPT !.cut = x] IN d \in CutType /\ d.read = c.read /\ d.counted = c.counted
  BY DEF CutType
LEMMA CutWhole ==
    ASSUME NEW c \in CutType, NEW x \in BOOLEAN
    PROVE  LET d == [c EXCEPT !.whole = x] IN d \in CutType /\ d.read = c.read /\ d.counted = c.counted
  BY DEF CutType

(* A worth that is read now counts what has moved. *)
LEMMA ReadNowTrue ==
    ASSUME CoinInv, NEW c \in CutType
    PROVE  ReadNow(c) \in CutType /\ CountedTrue(ReadNow(c))
<1>1. Moved \in SUBSET Nat /\ beat \in Nat
  BY DEF Moved, CoinInv, FlowsTyped
<1>2. ReadNow(c) \in CutType /\ ReadNow(c).read = beat /\ ReadNow(c).counted = Moved
  <2>1. beat \in Int
    BY <1>1
  <2>2. ReadNow(c) = [c EXCEPT !.read = beat, !.counted = Moved]
    BY DEF ReadNow
  <2> QED
    BY <1>1, <2>1, <2>2 DEF CutType
<1> QED
  BY <1>1, <1>2 DEF CountedTrue, CoinInv, StampsPast

LEMMA NewCutTrue == NewCut \in CutType /\ CountedTrue(NewCut)
  BY DEF NewCut, CutType, CountedTrue, Unset

LEMMA CutsKeep ==
    ASSUME CoinInv, UNCHANGED <<scene, beat, coinMoves, ledgerTells, pass, windows>>, cuts' \in Seq(CutType),
           \A k \in DOMAIN cuts' : CountedTrue(cuts'[k])
    PROVE  CoinInv'
<1>1. Moved' = Moved
  BY DEF Moved
<1>2. \A c : CountedTrue(c) <=> CountedTrue(c)'
  BY <1>1 DEF CountedTrue
<1>3. (\A m, status : TellTrue(m, status) <=> TellTrue(m, status)')
  BY <1>1 DEF TellTrue
<1>4. \A got, lo, hi : TellsTrue(got, lo, hi) <=> TellsTrue(got, lo, hi)'
  BY <1>3 DEF TellsTrue
<1>5. FlowsTyped' /\ StampsPast' /\ PassTrue'
  BY <1>1, <1>4 DEF CoinInv, FlowsTyped, StampsPast, PassTrue, WindowOf, Cutoff
<1>6. \A w \in windows' : WindowTrue(w)'
  BY <1>4 DEF CoinInv, WindowTrue
<1>7. \A m \in (DOMAIN ledgerTells)' : ledgerTells'[m].n > 0 => TellTrue(m, ledgerTells[m].status)'
  BY <1>3 DEF CoinInv
<1>8. \A k \in DOMAIN cuts' : CountedTrue(cuts[k])'
  BY <1>2
<1> QED
  BY <1>5, <1>6, <1>7, <1>8 DEF CoinInv

LEMMA CutBeginsKeeps == CoinInv /\ CutBegins => CoinInv'
<1> SUFFICES ASSUME CoinInv, CutBegins PROVE CoinInv'
  OBVIOUS
<1>1. PICK c : /\ c \in {ReadNow(NewCut), [NewCut EXCEPT !.cut = beat]}
               /\ cuts' = Append(cuts, c)
  BY DEF CutBegins
<1>2. UNCHANGED <<scene, beat, coinMoves, ledgerTells, pass, windows>>
  BY DEF CutBegins
<1>3. beat \in Nat /\ cuts \in Seq(CutType) /\ Len(cuts) \in Nat
  BY DEF CoinInv, FlowsTyped
<1>4. c \in CutType /\ CountedTrue(c)
  <2>1. [NewCut EXCEPT !.cut = beat] \in CutType /\ CountedTrue([NewCut EXCEPT !.cut = beat])
    <3>1. beat \in Int /\ NewCut.read = Unset
      BY <1>3 DEF NewCut
    <3> QED
      BY <3>1, NewCutTrue, CutDated DEF CountedTrue
  <2> QED
    BY <1>1, <2>1, ReadNowTrue, NewCutTrue
<1>5. cuts' \in Seq(CutType) /\ \A k \in DOMAIN cuts' : cuts'[k] = c \/ (k \in DOMAIN cuts /\ cuts'[k] = cuts[k])
  <2>1. /\ cuts' \in Seq(CutType) /\ Len(cuts') = Len(cuts) + 1
        /\ \A k \in 1..Len(cuts) : cuts'[k] = cuts[k]
        /\ cuts'[Len(cuts) + 1] = c
    BY <1>1, <1>3, <1>4, AppendProperties
  <2>2. DOMAIN cuts' = 1..Len(cuts) + 1 /\ DOMAIN cuts = 1..Len(cuts)
    BY <1>3, <2>1
  <2>3. ASSUME NEW k \in DOMAIN cuts' PROVE cuts'[k] = c \/ (k \in DOMAIN cuts /\ cuts'[k] = cuts[k])
    <3>1. k = Len(cuts) + 1 \/ k \in 1..Len(cuts)
      BY <1>3, <2>2
    <3> QED
      BY <2>1, <2>2, <3>1
  <2> QED
    BY <2>1, <2>3
<1> QED
  BY <1>2, <1>4, <1>5, CutsKeep DEF CoinInv

LEMMA CutEndsKeeps == CoinInv /\ CutEnds => CoinInv'
<1> SUFFICES ASSUME CoinInv, CutEnds PROVE CoinInv'
  OBVIOUS
<1> DEFINE last == cuts[Len(cuts)]
           taken == IF last.read = Unset THEN ReadNow(last) ELSE [last EXCEPT !.cut = beat]
<1>1. PICK whole \in BOOLEAN : cuts' = [cuts EXCEPT ![Len(cuts)] = [taken EXCEPT !.whole = whole]]
  BY DEF CutEnds
<1>2. UNCHANGED <<scene, beat, coinMoves, ledgerTells, pass, windows>>
  BY DEF CutEnds
<1>3. beat \in Nat /\ cuts \in Seq(CutType) /\ Len(cuts) \in Nat
  BY DEF CoinInv, FlowsTyped
<1>4. CASE Len(cuts) = 0
  <2>1. cuts' = cuts
    BY <1>1, <1>3, <1>4
  <2> QED
    BY <1>2, <1>3, <2>1, CutsKeep DEF CoinInv
<1>5. CASE Len(cuts) # 0
  <2>1. Len(cuts) \in 1..Len(cuts) /\ last \in CutType /\ CountedTrue(last)
    BY <1>3, <1>5 DEF CoinInv
  <2> HIDE DEF last
  <2>2. taken \in CutType /\ CountedTrue(taken)
    <3>1. CASE last.read = Unset
      BY <2>1, <3>1, ReadNowTrue
    <3>2. CASE last.read # Unset
      <4>1. /\ [last EXCEPT !.cut = beat] \in CutType /\ [last EXCEPT !.cut = beat].read = last.read
            /\ [last EXCEPT !.cut = beat].counted = last.counted
        BY <1>3, <2>1, CutDated
      <4>2. taken = [last EXCEPT !.cut = beat]
        BY <3>2
      <4> QED
        BY <2>1, <4>1, <4>2 DEF CountedTrue
    <3> QED
      BY <3>1, <3>2
  <2> HIDE DEF taken
  <2> DEFINE c == [taken EXCEPT !.whole = whole]
  <2>3. c \in CutType /\ CountedTrue(c)
    BY <2>2, CutWhole DEF CountedTrue
  <2>4. cuts' = [cuts EXCEPT ![Len(cuts)] = c]
    BY <1>1 DEF taken, last
  <2> HIDE DEF c
  <2>5. cuts' \in Seq(CutType) /\ \A k \in DOMAIN cuts' : cuts'[k] = c \/ (k \in DOMAIN cuts /\ cuts'[k] = cuts[k])
    <3>1. /\ cuts' \in Seq(CutType) /\ Len(cuts') = Len(cuts)
          /\ \A k \in 1..Len(cuts) : cuts'[k] = IF k = Len(cuts) THEN c ELSE cuts[k]
      BY <1>3, <2>1, <2>3, <2>4, ExceptSeq
    <3>2. DOMAIN cuts' = 1..Len(cuts) /\ DOMAIN cuts = 1..Len(cuts)
      BY <1>3, <3>1
    <3>3. ASSUME NEW k \in DOMAIN cuts' PROVE cuts'[k] = c \/ (k \in DOMAIN cuts /\ cuts'[k] = cuts[k])
      BY <3>1, <3>2
    <3> QED
      BY <3>1, <3>3
  <2> QED
    BY <1>2, <2>3, <2>5, CutsKeep DEF CoinInv
<1> QED
  BY <1>4, <1>5

LEMMA IdleIs ==
    ASSUME NEW n \in Nat, NEW started \in Nat
    PROVE  Idle(n, started) \in Passes /\ Idle(n, started).n = n /\ Idle(n, started).pc = "idle" /\ Idle(n, started).got = {}
  BY DEF Idle, Passes, Unset

(* The passes change what is told, and neither money nor captures. *)
LEMMA PassesKeep ==
    ASSUME CoinInv, UNCHANGED <<scene, beat, coinMoves, cuts>>, pass' \in Passes,
           ledgerTells' \in [1..scene.moves -> [n : Nat, status : CoinStatus, alike : BOOLEAN]],
           \A m \in 1..scene.moves : ledgerTells'[m].n > 0 => TellTrue(m, ledgerTells'[m].status),
           pass'.pc = "read" => TellsTrue(pass'.got, WindowOf(pass').lo, WindowOf(pass').hi),
           pass'.n \in Nat /\ pass'.n >= pass.n,
           \A w \in windows' \ windows : /\ w.lo \in Int /\ w.hi \in Int /\ w.n \in 0..pass'.n
                                        /\ TellsTrue(w.got, w.lo, w.hi)
    PROVE  CoinInv'
<1>1. Moved' = Moved
  BY DEF Moved
<1>2. \A c : CountedTrue(c) <=> CountedTrue(c)'
  BY <1>1 DEF CountedTrue
<1>3. \A m, status : TellTrue(m, status) <=> TellTrue(m, status)'
  BY <1>1 DEF TellTrue
<1>4. \A got, lo, hi : TellsTrue(got, lo, hi) <=> TellsTrue(got, lo, hi)'
  BY <1>3 DEF TellsTrue
<1>5. FlowsTyped' /\ StampsPast'
  BY <1>1 DEF CoinInv, FlowsTyped, StampsPast
<1>6. PassTrue'
  BY <1>4 DEF PassTrue, WindowOf, Cutoff
<1>7. ASSUME NEW w \in windows' PROVE WindowTrue(w)'
  <2>1. pass.n \in Nat
    BY DEF CoinInv, FlowsTyped, Passes
  <2>2. CASE w \in windows
    <3>1. WindowTrue(w)
      BY <2>2 DEF CoinInv
    <3>2. w.n \in 0..pass'.n
      BY <2>1, <3>1 DEF WindowTrue
    <3> QED
      BY <1>4, <3>1, <3>2 DEF WindowTrue
  <2>3. CASE w \notin windows
    BY <1>4, <2>3 DEF WindowTrue
  <2> QED
    BY <2>2, <2>3
<1>8. \A m \in (DOMAIN ledgerTells)' : ledgerTells'[m].n > 0 => TellTrue(m, ledgerTells[m].status)'
  BY <1>3
<1>9. \A k \in DOMAIN cuts' : CountedTrue(cuts[k])'
  BY <1>2 DEF CoinInv
<1> QED
  BY <1>5, <1>6, <1>7, <1>8, <1>9 DEF CoinInv

LEMMA PassFacts ==
    ASSUME CoinInv
    PROVE  /\ pass \in Passes /\ pass.n \in Nat /\ pass.runs \in Nat /\ pass.observed \in Int /\ pass.plan \in Nat
           /\ scene \in SceneType /\ scene.moves \in Nat /\ beat \in Nat /\ Moved \subseteq 1..scene.moves
           /\ \A m \in Moved : coinMoves[m].status \in CoinStatus /\ coinMoves[m].stamp \in Int
           /\ ledgerTells \in [1..scene.moves -> [n : Nat, status : CoinStatus, alike : BOOLEAN]]
           /\ \A m \in 1..scene.moves : ledgerTells[m].n > 0 => TellTrue(m, ledgerTells[m].status)
<1>1. FlowsTyped
  BY DEF CoinInv
<1>2. /\ pass.n \in Nat /\ pass.runs \in Nat /\ pass.observed \in Int /\ pass.plan \in Nat
  BY <1>1 DEF FlowsTyped, Passes
<1>3. scene.moves \in Nat /\ coinMoves \in Seq(CoinMove) /\ Len(coinMoves) \in Nat /\ Len(coinMoves) <= scene.moves
  BY <1>1 DEF FlowsTyped, SceneType
<1>4. Moved \subseteq 1..scene.moves
  BY <1>3 DEF Moved
<1>5. ASSUME NEW m \in Moved PROVE coinMoves[m].status \in CoinStatus /\ coinMoves[m].stamp \in Int
  <2>1. coinMoves[m] \in CoinMove
    BY <1>3 DEF Moved
  <2> QED
    BY <2>1 DEF CoinMove
<1> QED
  BY <1>1, <1>2, <1>3, <1>4, <1>5 DEF CoinInv, FlowsTyped

LEMMA PassBeginsKeeps == CoinInv /\ PassBegins => CoinInv'
<1> SUFFICES ASSUME CoinInv, PassBegins PROVE CoinInv'
  OBVIOUS
<1>1. UNCHANGED <<scene, beat, coinMoves, windows, cuts>>
  BY DEF PassBegins
<1>2. pass' = [Idle(pass.n + 1, pass.runs + 1) EXCEPT !.pc = "read", !.plan = 1, !.observed = beat]
  BY DEF PassBegins
<1>3. PICK noted \in SUBSET Moved, unlike \in SUBSET Moved :
         ledgerTells' = [m \in DOMAIN ledgerTells |->
                            IF m \in noted THEN [n |-> pass.n + 1, status |-> coinMoves[m].status,
                                                 alike |-> ledgerTells[m].alike /\ m \notin unlike]
                            ELSE ledgerTells[m]]
  BY DEF PassBegins
<1>4. pass' \in Passes /\ pass'.n = pass.n + 1 /\ pass'.got = {}
  <2> DEFINE n == pass.n + 1
             started == pass.runs + 1
             next == pass'
  <2>1. n \in Nat /\ started \in Nat /\ beat \in Int
    BY PassFacts
  <2> DEFINE idle == Idle(n, started)
  <2>2. next = [idle EXCEPT !.pc = "read", !.observed = beat, !.plan = 1]
    BY <1>2
  <2> HIDE DEF n, started, next
  <2>4. idle \in Passes /\ idle.n = n /\ idle.got = {}
    BY <2>1, IdleIs
  <2> HIDE DEF idle
  <2>3. next \in Passes /\ next.n = n /\ next.got = {}
    BY <2>1, <2>2, <2>4 DEF Passes
  <2> QED
    BY <2>3 DEF next, n
<1>5. ASSUME NEW m \in 1..scene.moves
      PROVE  /\ ledgerTells'[m] \in [n : Nat, status : CoinStatus, alike : BOOLEAN]
             /\ ledgerTells'[m].n > 0 => TellTrue(m, ledgerTells'[m].status)
  <2>1. CASE m \in noted
    <3>1. ledgerTells'[m] = [n |-> pass.n + 1, status |-> coinMoves[m].status, alike |-> ledgerTells[m].alike /\ m \notin unlike]
      BY <1>3, <2>1, PassFacts
    <3>2. pass.n + 1 \in Nat /\ coinMoves[m].status \in CoinStatus /\ m \in Moved
      BY <2>1, PassFacts
    <3>3. (ledgerTells[m].alike /\ m \notin unlike) \in BOOLEAN
      OBVIOUS
    <3> QED
      BY <3>1, <3>2, <3>3 DEF TellTrue
  <2>2. CASE m \notin noted
    BY <1>3, <2>2, PassFacts
  <2> QED
    BY <2>1, <2>2
<1>6. ledgerTells' \in [1..scene.moves -> [n : Nat, status : CoinStatus, alike : BOOLEAN]]
  <2>1. DOMAIN ledgerTells = 1..scene.moves
    BY PassFacts
  <2>2. ledgerTells' = [m \in 1..scene.moves |-> ledgerTells'[m]]
    BY <1>3, <2>1
  <2> QED
    BY <1>5, <2>2
<1>7. TellsTrue(pass'.got, WindowOf(pass').lo, WindowOf(pass').hi)
  BY <1>4 DEF TellsTrue
<1>8. pass'.n \in Nat /\ pass'.n >= pass.n
  BY <1>4, PassFacts
<1> QED
  BY <1>1, <1>4, <1>5, <1>6, <1>7, <1>8, PassesKeep

LEMMA PassDiesKeeps == CoinInv /\ PassDies => CoinInv'
<1> SUFFICES ASSUME CoinInv, PassDies PROVE CoinInv'
  OBVIOUS
<1>1. UNCHANGED <<scene, beat, coinMoves, ledgerTells, windows, cuts>> /\ pass' = Idle(pass.n, pass.runs)
  BY DEF PassDies
<1>2. pass' \in Passes /\ pass'.n = pass.n /\ pass'.pc = "idle"
  <2>1. pass.n \in Nat /\ pass.runs \in Nat 
    BY PassFacts
  <2> QED
    BY <1>1, <2>1, IdleIs
<1> QED
  BY <1>1, <1>2, PassFacts, PassesKeep

LEMMA WindowIs ==
    ASSUME CoinInv
    PROVE  WindowOf(pass).lo \in Int /\ WindowOf(pass).hi \in Int
<1>1. pass.observed \in Int /\ Trail \in Int /\ scene.keeps \in Int
  BY PassFacts, CryptoFlowsAssumption DEF SceneType
<1>2. Cutoff(pass.observed) \in Int /\ pass.observed - Trail \in Int
  BY <1>1 DEF Cutoff
<1>3. Max({Cutoff(pass.observed), pass.observed - Trail}) \in Int
  BY <1>2, PairEnds
<1> QED
  BY <1>1, <1>3 DEF WindowOf

LEMMA SaveKeeps ==
    ASSUME CoinInv, UNCHANGED <<scene, beat, coinMoves, ledgerTells, cuts>>,
           NEW verdict, NEW got, NEW wrong, SaveWindow(verdict, got, wrong),
           TellsTrue(got, WindowOf(pass).lo, WindowOf(pass).hi)
    PROVE  CoinInv'
<1>1. pass' \in Passes /\ pass'.n = pass.n + 1 /\ pass'.got = {}
  <2> DEFINE n == pass.n + 1
             next == pass'
             idle == Idle(n, pass.runs)
  <2>1. n \in Nat /\ pass.runs \in Nat /\ pass.observed \in Int /\ pass.plan + 1 \in Nat
    BY PassFacts
  <2>2. next = idle \/ next = [idle EXCEPT !.pc = "read", !.observed = pass.observed, !.plan = pass.plan + 1]
    BY DEF SaveWindow
  <2> HIDE DEF n, next
  <2>3. idle \in Passes /\ idle.n = n /\ idle.got = {}
    BY <2>1, IdleIs
  <2> HIDE DEF idle
  <2>4. next \in Passes /\ next.n = n /\ next.got = {}
    BY <2>1, <2>2, <2>3 DEF Passes
  <2> QED
    BY <2>4 DEF next, n
<1>2. TellsTrue({}, WindowOf(pass).lo, WindowOf(pass).hi)
  BY DEF TellsTrue
<1>3. ASSUME NEW w \in windows' \ windows
      PROVE  /\ w.lo \in Int /\ w.hi \in Int /\ w.n \in 0..pass'.n
             /\ TellsTrue(w.got, w.lo, w.hi)
  <2>1. PICK g \in {got, {}} : \E v : w = WindowRow(v, g)
    BY <1>3 DEF SaveWindow
  <2>2. w.lo = WindowOf(pass).lo /\ w.hi = WindowOf(pass).hi /\ w.n = pass.n + 1 /\ w.got = g
    BY <2>1 DEF WindowRow
  <2>3. pass.n \in Nat
    BY PassFacts
  <2> QED
    BY <1>1, <1>2, <2>2, <2>3, WindowIs
<1>4. pass'.n \in Nat /\ pass'.n >= pass.n
  BY <1>1, PassFacts
<1>5. TellsTrue(pass'.got, WindowOf(pass').lo, WindowOf(pass').hi)
  BY <1>1 DEF TellsTrue
<1> QED
  BY <1>1, <1>3, <1>4, <1>5, PassFacts, PassesKeep

LEMMA ReadPageKeeps == CoinInv /\ ReadPage => CoinInv'
<1> SUFFICES ASSUME CoinInv, ReadPage PROVE CoinInv'
  OBVIOUS
<1> DEFINE plan == WindowOf(pass)
           all == TellsNow(plan)
           offset == Cardinality(pass.got)
           seen == {g.id : g \in pass.got}
<1>1. UNCHANGED <<scene, beat, coinMoves, ledgerTells, cuts>> /\ pass.pc = "read"
  BY DEF ReadPage
<1>2. TellsTrue(pass.got, plan.lo, plan.hi) /\ TellsTrue({}, plan.lo, plan.hi)
  BY <1>1 DEF CoinInv, PassTrue, TellsTrue
<1>3. ASSUME NEW m \in all
      PROVE  TellsTrue(pass.got \cup {[id |-> m, status |-> coinMoves[m].status]}, plan.lo, plan.hi)
  <2>1. m \in Moved /\ plan.lo <= coinMoves[m].stamp /\ coinMoves[m].stamp <= plan.hi
    <3>1. m \in Moved /\ coinMoves[m].stamp \in plan.lo..plan.hi
      BY DEF TellsNow
    <3> QED
      BY <3>1, WindowIs
  <2> QED
    BY <1>2, <2>1 DEF TellsTrue, TellTrue
<1>4. ASSUME NEW verdict, NEW wrong, SaveWindow(verdict, pass.got, wrong) PROVE CoinInv'
  BY <1>1, <1>2, <1>4, SaveKeeps
<1>5. ASSUME NEW verdict, NEW wrong, SaveWindow(verdict, {}, wrong) PROVE CoinInv'
  BY <1>1, <1>2, <1>5, SaveKeeps
<1>6. ASSUME NEW listed \in {all} \cup {all \ {m} : m \in all}, NEW m \in listed \ seen,
             LET got == pass.got \cup {[id |-> m, status |-> coinMoves[m].status]}
             IN  IF offset + 1 = Cardinality(listed) THEN SaveWindow("complete", got, listed # all)
                 ELSE /\ pass' = [pass EXCEPT !.got = got, !.total = Cardinality(listed)]
                      /\ UNCHANGED windows
      PROVE  CoinInv'
  <2> DEFINE got == pass.got \cup {[id |-> m, status |-> coinMoves[m].status]}
             total == Cardinality(listed)
  <2>1. m \in all /\ listed \subseteq Moved
    BY DEF TellsNow
  <2>2. TellsTrue(got, plan.lo, plan.hi)
    BY <1>3, <2>1
  <2>3. total \in Nat
    <3>1. IsFiniteSet(Moved)
      <4>1. scene.moves \in Nat /\ Moved \subseteq 1..scene.moves
        BY PassFacts
      <4>2. \A n \in Nat : IsFiniteSet(1..n)
        BY FS_Interval
      <4> QED
        BY <4>1, <4>2, FS_Subset
    <3> QED
      BY <2>1, <3>1, FS_Subset, FS_CardinalityType
  <2>4. got \in SUBSET Tells
    <3>1. m \in Nat /\ coinMoves[m].status \in CoinStatus /\ pass.got \in SUBSET Tells
      BY <2>1, PassFacts DEF Passes
    <3> QED
      BY <3>1 DEF Tells
  <2> HIDE DEF got, total, plan, all
  <2>5. CASE offset + 1 = total
    BY <1>1, <1>6, <2>2, <2>5, SaveKeeps DEF got, total, plan
  <2>6. CASE offset + 1 # total
    <3> DEFINE next == pass'
    <3>1. next = [pass EXCEPT !.got = got, !.total = total] /\ windows' = windows
      BY <1>6, <2>6 DEF got, total
    <3> HIDE DEF next
    <3>2. /\ next \in Passes /\ next.n = pass.n /\ next.got = got /\ next.observed = pass.observed
          /\ next.plan = pass.plan
      <4>1. pass \in Passes
        BY PassFacts
      <4>2. total \in Int
        BY <2>3
      <4> QED
        BY <2>4, <3>1, <4>1, <4>2 DEF Passes
    <3>3. WindowOf(next).lo = plan.lo /\ WindowOf(next).hi = plan.hi
      BY <3>2 DEF WindowOf, plan
    <3>4. TellsTrue(pass'.got, WindowOf(pass').lo, WindowOf(pass').hi)
      BY <2>2, <3>2, <3>3 DEF next
    <3>5. pass' \in Passes /\ pass'.n \in Nat /\ pass'.n >= pass.n
      BY <3>2, PassFacts DEF next
    <3> QED
      BY <1>1, <3>1, <3>4, <3>5, PassFacts, PassesKeep
  <2> QED
    BY <2>5, <2>6
<1> HIDE DEF plan, all, offset, seen
<1> QED
  BY <1>4, <1>5, <1>6 DEF ReadPage, plan, all, offset, seen

LEMMA CoinStep == CoinInv /\ [CryptoFlowsNext]_flowVars => CoinInv'
<1> SUFFICES ASSUME CoinInv, [CryptoFlowsNext]_flowVars PROVE CoinInv'
  OBVIOUS
<1>1. CASE UNCHANGED flowVars
  <2>1. UNCHANGED <<scene, beat, coinMoves, ledgerTells, pass, windows, cuts>>
    BY <1>1 DEF flowVars
  <2>2. cuts' \in Seq(CutType) /\ \A k \in DOMAIN cuts' : CountedTrue(cuts'[k])
    BY <2>1 DEF CoinInv, FlowsTyped
  <2> QED
    BY <2>1, <2>2, CutsKeep
<1> QED
  BY <1>1, BeatKeeps, CoinsMoveKeeps, SettleKeeps, CutBeginsKeeps, CutEndsKeeps, PassBeginsKeeps, ReadPageKeeps,
     PassDiesKeeps DEF CryptoFlowsNext

(* What the interval tells as flow is what moved between the two worths that *)
(* were read, unless it says that it cannot tell: crypto_flow_intervals.py.  *)
THEOREM CryptoFlowsTold == CryptoFlowsSpec => []FlowBetweenReads
<1> QED
  BY CoinsBegin, CoinStep, CoinInvMeans, PTL DEF CryptoFlowsSpec
=============================================================================
