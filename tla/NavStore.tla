------------------------------ MODULE NavStore ------------------------------
(***************************************************************************)
(* The daily NAV snapshots of portfolio_store.py, written by the scheduled *)
(* job (scripts/snapshot_nav.py), by the chat tool of server.py and by an  *)
(* older release that knows only the nav_snapshots table.  Every store     *)
(* transaction, a read's included, first imports what the older release    *)
(* wrote.  A job validates the day, collects for minutes and stores in one *)
(* transaction, so midnight and other writers fall in between.             *)
(*                                                                         *)
(* A version is what a reader can tell apart: value stands for all its     *)
(* measurements, evidence for the keys only the scheduled capture adds.    *)
(***************************************************************************)
EXTENDS Naturals, Sequences, FiniteSets

CONSTANTS
    Jobs,           \* runs of the tool and of the scheduled job
    Scheduled,      \* those that are the scheduled job
    Days,
    DayOf,          \* DayOf[t]: the local date at time t
    Values,         \* finite measurements
    Infinite,       \* a float strict JSON refuses
    None,
    MaxTime,        \* bounds of the model
    MaxRuns,
    MaxOverwrites

ASSUME JobAssumption == Scheduled \subseteq Jobs
ASSUME BoundAssumption == MaxTime \in Nat /\ MaxRuns \in Nat /\ MaxOverwrites \in Nat
ASSUME DayAssumption == DayOf \in [0..MaxTime -> Days]
ASSUME NoneAssumption ==
    /\ None \notin Nat /\ None \notin Values /\ Infinite \notin Values /\ Infinite # None

VARIABLES
    now,            \* the clock, in ticks
    projection,     \* projection[d]: the row of nav_snapshots, or None
    versions,       \* versions[d]: nav_snapshot_versions in version order
    representative, \* representative[d]: the version shown for d, 0 when none
    attempts,       \* attempts[d]: nav_collection_attempts by status
    job,            \* job[j]: how far run j is
    runs,           \* runs[j]: runs started
    overwrites      \* rows the older release wrote

tables == <<projection, versions, representative, attempts>>
vars == <<now, tables, job, runs, overwrites>>

Times == 0..MaxTime
Kinds == {"fx", "kis"}
Statuses == {"complete", "partial", "unavailable"}
Row == [value : Values \union {Infinite}, created : Times, updated : Times]
ASSUME RowAssumption == None \notin Row
Version ==
    [value : Values \union {None}, created : Times, updated : Times,
     source : {"legacy", "tool", "scheduled"}, evidence : SUBSET Kinds,
     valued : Times \union {None}, complete : BOOLEAN]

NoJob == [pc |-> "idle"]
Job ==
    {NoJob}
    \union [pc : {"collect", "failed"}, when : Days]
    \union [pc : {"capture"}, when : Days, value : Values, valued : Times,
            complete : BOOLEAN]
    \union [pc : {"store"}, when : Days, value : Values, valued : Times,
            complete : BOOLEAN, evidence : SUBSET Kinds, at : Times]

TypeOK ==
    /\ now \in Times
    /\ projection \in [Days -> Row \union {None}]
    /\ versions \in [Days -> Seq(Version)]
    /\ representative \in [Days -> Nat]
    /\ \A d \in Days : representative[d] <= Len(versions[d])
    /\ attempts \in [Days -> [Statuses -> Nat]]
    /\ job \in [Jobs -> Job]
    /\ runs \in [Jobs -> Nat]
    /\ overwrites \in Nat

Init ==
    /\ now = 0
    /\ projection = [d \in Days |-> None]
    /\ versions = [d \in Days |-> <<>>]
    /\ representative = [d \in Days |-> 0]
    /\ attempts = [d \in Days |-> [s \in Statuses |-> 0]]
    /\ job = [j \in Jobs |-> NoJob]
    /\ runs = [j \in Jobs |-> 0]
    /\ overwrites = 0

-----------------------------------------------------------------------------
(* The import that opens every store transaction *)

Sanitized(v) == IF v = Infinite THEN None ELSE v

Imported(row) ==
    [value |-> Sanitized(row.value), created |-> row.created, updated |-> row.updated,
     source |-> "legacy", evidence |-> {}, valued |-> None, complete |-> FALSE]

\* Variant: the stored value is compared as it is.
SameRawColumns(version, row) ==
    /\ version.value = row.value
    /\ version.created = row.created
    /\ version.updated = row.updated

\* The comparison reads the columns of the projection, not the added evidence.
SameColumns(version, row) ==
    /\ version.value = Sanitized(row.value)
    /\ version.created = row.created
    /\ version.updated = row.updated

Stale(d) ==
    /\ projection[d] # None
    /\ \/ representative[d] = 0
       \/ ~ SameColumns(versions[d][representative[d]], projection[d])

Migrated ==
    [d \in Days |-> IF Stale(d) THEN Append(versions[d], Imported(projection[d])) ELSE versions[d]]
MigratedRepresentative ==
    [d \in Days |-> IF Stale(d) THEN Len(versions[d]) + 1 ELSE representative[d]]

-----------------------------------------------------------------------------
(* A run of the tool or of the scheduled job *)

\* validate_live_snapshot_date: today, and no other day.
StartJob(j) ==
    /\ job[j] = NoJob
    /\ runs[j] < MaxRuns
    /\ job' = [job EXCEPT ![j] = [pc |-> "collect", when |-> DayOf[now]]]
    /\ runs' = [runs EXCEPT ![j] = @ + 1]
    /\ UNCHANGED <<now, tables, overwrites>>

\* An incomplete collection is refused, unless the operator forces the script.
Collect(j) == \E v \in Values, whole \in BOOLEAN, force \in BOOLEAN :
    /\ job[j].pc = "collect"
    /\ whole \/ (force /\ j \in Scheduled)
    /\ job' = [job EXCEPT ![j] =
        [pc |-> "capture", when |-> job[j].when, value |-> v, valued |-> now, complete |-> whole]]
    /\ UNCHANGED <<now, tables, runs, overwrites>>

\* Refused, or the collection raised.
CollectNothing(j) ==
    /\ job[j].pc = "collect"
    /\ job' = [job EXCEPT ![j] = [pc |-> "failed", when |-> job[j].when]]
    /\ UNCHANGED <<now, tables, runs, overwrites>>

\* The scheduled job always adds kis_capture, and the crypto marks when that capture
\* works; the tool adds neither.  upsert_snapshot then takes its timestamp and waits
\* for the write lock.
Capture(j) == \E e \in SUBSET Kinds :
    /\ job[j].pc = "capture"
    /\ IF j \in Scheduled THEN "kis" \in e ELSE e = {}
    /\ job' = [job EXCEPT ![j] =
        [pc |-> "store", when |-> job[j].when, value |-> job[j].value, valued |-> job[j].valued,
         complete |-> job[j].complete, evidence |-> e, at |-> now]]
    /\ UNCHANGED <<now, tables, runs, overwrites>>

\* Variant: the first time is not carried over.
NewCreatedAt(d, at) == at

\* The conflict clause and the SELECT before it keep the time of the day's first row.
CreatedAt(d, at) == IF projection[d] = None THEN at ELSE projection[d].created

\* Variant: the tool always takes the representative.
KeepsNothing(j, d) == FALSE

\* keep_crypto_representative, which only the tool asks for.
KeepsRepresentative(j, d) ==
    /\ j \notin Scheduled
    /\ MigratedRepresentative[d] # 0
    /\ ~ Migrated[d][MigratedRepresentative[d]].evidence \subseteq job[j].evidence

\* Variant: SNAPSHOT_DATE_MISMATCH is not looked at.
AnyDayStatus(whole, valued, d) == IF whole THEN "complete" ELSE "partial"

\* A complete collection valued on another day is no success of this one.
AttemptStatus(whole, valued, d) == IF whole /\ DayOf[valued] = d THEN "complete" ELSE "partial"

\* upsert_snapshot: import, version, projection, representative and attempt together.
Store(j) ==
    /\ job[j].pc = "store"
    /\ LET d == job[j].when
           new == [value |-> job[j].value, created |-> CreatedAt(d, job[j].at),
                   updated |-> job[j].at, evidence |-> job[j].evidence,
                   source |-> IF j \in Scheduled THEN "scheduled" ELSE "tool",
                   valued |-> job[j].valued, complete |-> job[j].complete]
           status == AttemptStatus(job[j].complete, job[j].valued, d)
       IN  /\ versions' = [Migrated EXCEPT ![d] = Append(@, new)]
           /\ attempts' = [attempts EXCEPT ![d][status] = @ + 1]
           /\ IF KeepsRepresentative(j, d)
              THEN /\ representative' = MigratedRepresentative
                   /\ UNCHANGED projection
              ELSE /\ representative' = [MigratedRepresentative EXCEPT ![d] = Len(Migrated[d]) + 1]
                   /\ projection' = [projection EXCEPT ![d] =
                        [value |-> new.value, created |-> new.created, updated |-> new.updated]]
    /\ job' = [job EXCEPT ![j] = NoJob]
    /\ UNCHANGED <<now, runs, overwrites>>

\* An infinite value is refused by the strict JSON of the version, after the projection
\* was written, or the database fails: everything is rolled back, the import too.
StoreFails(j) ==
    /\ job[j].pc = "store"
    /\ job' = [job EXCEPT ![j] = [pc |-> "failed", when |-> job[j].when]]
    /\ UNCHANGED <<now, tables, runs, overwrites>>

\* record_attempt, a transaction of its own.
RecordAttempt(j) ==
    /\ job[j].pc = "failed"
    /\ versions' = Migrated
    /\ representative' = MigratedRepresentative
    /\ attempts' = [attempts EXCEPT ![job[j].when]["unavailable"] = @ + 1]
    /\ job' = [job EXCEPT ![j] = NoJob]
    /\ UNCHANGED <<now, projection, runs, overwrites>>

\* The process dies, or record_attempt fails too.
Crash(j) ==
    /\ job[j] # NoJob
    /\ job' = [job EXCEPT ![j] = NoJob]
    /\ UNCHANGED <<now, tables, runs, overwrites>>

-----------------------------------------------------------------------------
(* The others *)

\* get_snapshot, range, count, ...: a read imports as well.
Read ==
    /\ versions' = Migrated
    /\ representative' = MigratedRepresentative
    /\ UNCHANGED <<now, projection, attempts, job, runs, overwrites>>

\* The older release: one row per day, refreshed in place, any float.
LegacyStore(d) == \E v \in Values \union {Infinite} :
    /\ overwrites < MaxOverwrites
    /\ overwrites' = overwrites + 1
    /\ projection' = [projection EXCEPT ![d] =
        [value |-> v, created |-> CreatedAt(d, now), updated |-> now]]
    /\ UNCHANGED <<now, versions, representative, attempts, job, runs>>

Tick ==
    /\ now < MaxTime
    /\ now' = now + 1
    /\ UNCHANGED <<tables, job, runs, overwrites>>

JobStep(j) ==
    \/ StartJob(j)
    \/ Collect(j)
    \/ CollectNothing(j)
    \/ Capture(j)
    \/ Store(j)
    \/ StoreFails(j)
    \/ RecordAttempt(j)
    \/ Crash(j)

Next ==
    \/ \E j \in Jobs : JobStep(j)
    \/ Read
    \/ \E d \in Days : LegacyStore(d)
    \/ Tick

Spec == Init /\ [][Next]_vars

-----------------------------------------------------------------------------
(* Properties *)

\* After any transaction of the store nothing is left to import: what a job stored,
\* and what was imported, unfinite values included, is recognised the next time, so
\* that reads do not append a version each.
SettledAfterStore ==
    [][<<versions, attempts>>' # <<versions, attempts>> => \A d \in Days : ~ Stale(d)']_vars

\* The time a day was first recorded survives every path a version can take: stored by
\* a job, kept aside, imported from the older release.
CreatedOnce ==
    \A d \in Days : \A i \in DOMAIN versions[d] :
        /\ projection[d] # None
        /\ versions[d][i].created = projection[d].created

\* A day's success count is the number of whole collections stored for it and valued on
\* that very day: a rolled-back store, a refusal and a run that crossed midnight add none.
WholeOnTheDay(stored, d) ==
    {i \in DOMAIN stored : stored[i].complete /\ DayOf[stored[i].valued] = d}
HealthCountsSnapshots ==
    \A d \in Days : attempts[d]["complete"] = Cardinality(WholeOnTheDay(versions[d], d))

\* What the store says of a day is true: when it was first recorded, and how often it was
\* collected whole.
DayRecordTrue == CreatedOnce /\ HealthCountsSnapshots

\* What a reader of day d gets: its transaction imports first.
Shown(d) ==
    IF Stale(d) THEN Imported(projection[d])
    ELSE IF representative[d] = 0 THEN None ELSE versions[d][representative[d]]

\* Stored observations are immutable and the one shown is replaced only by a new one; a
\* tool snapshot, whatever it interleaves with, never hides the scheduled evidence.
History == INSTANCE NavHistory WITH
    archive <- versions,
    shown <- [d \in Days |-> Shown(d)]
ImplementsHistory == History!Spec
=============================================================================
