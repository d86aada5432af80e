------------------------------- MODULE Ledger -------------------------------
(***************************************************************************)
(* The permanent ledger of portfolio_ledger.py: LedgerStore.prepare,       *)
(* append and append_many, and their two callers, preserve_observation     *)
(* (the server's observers) and CollectionRun.save (scripts/               *)
(* collect_ledger.py).  Any number of writers, in any number of processes, *)
(* share one SQLite file.  Each prepares a batch of rows outside the write *)
(* lock, then appends it in a BEGIN IMMEDIATE transaction that verifies    *)
(* that the prepared events have not changed meanwhile.  A writer may fail *)
(* between any two steps (crash, exhausted budget, locked database); an    *)
(* open transaction is then rolled back.                                   *)
(***************************************************************************)
EXTENDS Naturals, Sequences

CONSTANTS
    Writers,        \* concurrent callers
    Ids,            \* event_id values
    LegacyOf,       \* LegacyOf[id]: an older identity of the same event, or None
    FlowIds,        \* events whose kind is in FLOW_KINDS: they carry a status
    Fields,         \* FIELDS of an event other than a flow's source_status
    Annotations,    \* ANNOTATIONS: differences in them are not conflicts
    Values,         \* values a field can take
    Statuses,       \* reported flow statuses
    Terminal,       \* effective_status: the terminal set
    Pending,        \* effective_status: the pending set
    Observations,   \* one collected window of one stream each
    Daily,          \* those saved by the daily job under a fresh run id
    Rows,           \* Rows[o]: the rows the source returned, None if unsupported
    Incomplete,     \* observations whose collection was not complete
    Qualified,      \* observations that carry reason codes
    BatchSize,      \* append_many's batch_size
    Before,         \* the events stored by earlier releases
    None

Facts == [Fields -> Values \union {None}]
Event == [facts : Facts, status : Statuses \union {None}]
Row == [id : Ids, facts : Facts, status : Statuses \union {None}]
Plan == [target : Ids, prev : Event \union {None}, change : (Statuses \X Statuses) \union {None}]

ASSUME IdAssumption ==
    /\ FlowIds \subseteq Ids
    /\ LegacyOf \in [Ids -> Ids \union {None}]
    /\ None \notin Ids \union Values \union Statuses \union Row \union Event \union Plan
    \* An older identity belongs to one event.
    /\ \A i, j \in Ids : LegacyOf[i] # None /\ LegacyOf[i] = LegacyOf[j] => i = j

ASSUME DataAssumption ==
    /\ Annotations \subseteq Fields
    /\ Terminal \subseteq Statuses
    /\ Pending \subseteq Statuses
    /\ Terminal \intersect Pending = {}
    /\ BatchSize \in Nat \ {0}

ASSUME ObservationAssumption ==
    /\ Daily \subseteq Observations
    /\ None \notin Observations
    /\ Rows \in [Observations -> Seq(Row \union {None})]
    \* Today's collectors no longer produce the older identities.
    /\ \A o \in Observations : \A i \in 1..Len(Rows[o]) :
          Rows[o][i] # None => \A j \in Ids : LegacyOf[j] # Rows[o][i].id

ASSUME BeforeAssumption ==
    /\ Before \in [Ids -> Event \union {None}]
    /\ \A i \in Ids : LegacyOf[i] # None => Before[i] = None \/ Before[LegacyOf[i]] = None

VARIABLES
    event,      \* event[id]: effective_event, None if not stored
    reported,   \* reported_status of the last status revision, None if there is none
    conflicts,  \* ledger_conflicts: <<id, row>> that disagreed with the event
    evidence,   \* ledger_evidence: <<id, observation (run), row index>>
    coverage,   \* ledger_coverage: <<observation, status>>
    observed,   \* ledger_observations
    file,       \* evidence file of a body: "absent", "partial" or "whole"
    begun,      \* daily runs already started (their run id is never reused)
    writer      \* the call each writer is in

tables == <<event, reported, conflicts, evidence>>
books == <<coverage, observed>>
vars == <<event, reported, conflicts, evidence, coverage, observed, file, begun, writer>>

Bodies == {Rows[o] : o \in Observations}
Writer == [pc : {"idle", "file", "write", "batch"}, obs : Observations \union {None},
           off : Nat, plans : Seq(Plan \union {None}),
           retried : BOOLEAN, skipped : BOOLEAN, conflict : BOOLEAN]

At(pc, o) == [pc |-> pc, obs |-> o, off |-> 0, plans |-> <<>>,
              retried |-> FALSE, skipped |-> FALSE, conflict |-> FALSE]
Idle == At("idle", None)

TypeOK ==
    /\ event \in [Ids -> Event \union {None}]
    /\ reported \in [Ids -> Statuses \union {None}]
    /\ conflicts \subseteq Ids \X Row
    /\ evidence \subseteq Ids \X Observations \X Nat
    /\ coverage \subseteq Observations \X {"complete", "limited", "partial"}
    /\ observed \subseteq Observations
    /\ file \in [Bodies -> {"absent", "partial", "whole"}]
    /\ begun \subseteq Daily
    /\ writer \in [Writers -> Writer]

Init ==
    /\ event = Before
    /\ reported = [i \in Ids |-> None]
    /\ conflicts = {}
    /\ evidence = {}
    /\ coverage = {}
    /\ observed = {}
    /\ file = [b \in Bodies |-> "absent"]
    /\ begun = {}
    /\ writer = [w \in Writers |-> Idle]

-----------------------------------------------------------------------------
(* Preparing a row: prepare, status_change, effective_status *)

\* Variant: the alias and legacy lookups are forgotten.
OwnId(id) == id

\* prepare looks an event up under its own identity, then under the older one
\* (_legacy_event_ids, account aliases).
Resolve(id) ==
    IF event[id] = None /\ LegacyOf[id] # None /\ event[LegacyOf[id]] # None
    THEN LegacyOf[id] ELSE id

\* Variant: the latest report wins.
LatestStatus(previous, new) == new

\* A terminal status is never replaced by a pending one.
EffectiveStatus(previous, new) ==
    IF previous \in Terminal /\ new \in Pending THEN previous ELSE new

\* The revision a row asks for, None if it says nothing new.
StatusChange(id, row) ==
    LET now == event[id].status
        last == <<IF reported[id] = None THEN now ELSE reported[id], now>>
        asked == <<row.status, EffectiveStatus(now, row.status)>>
    IN IF event[id] = None \/ row.id \notin FlowIds \/ row.status = None \/ asked = last
       THEN None ELSE asked

PlanFor(row) ==
    LET id == Resolve(row.id)
    IN [target |-> id, prev |-> event[id], change |-> StatusChange(id, row)]

\* Fields in which a row contradicts a stored event, and the facts it adds.
Differences(old, row) ==
    {f \in Fields \ Annotations :
        old.facts[f] # None /\ row.facts[f] # None /\ old.facts[f] # row.facts[f]}
Additions(old, row) ==
    {f \in Fields : old.facts[f] = None /\ row.facts[f] # None}

\* A prepared row that would write nothing but its evidence.
SaysNothingNew(plan, row) ==
    /\ plan.prev # None
    /\ Differences(plan.prev, row) = {}
    /\ Additions(plan.prev, row) = {}
    /\ plan.change = None

-----------------------------------------------------------------------------
(* append: what one prepared row does to its event *)

\* Variant: append_many commits without preparing again under the lock.
AnyPlanStands(plan) == TRUE

\* The event still is what the plan was computed from (LEDGER_BATCH_CHANGED).
PlanStands(plan) == event[plan.target] = plan.prev

Contradicts(plan, row) == plan.prev # None /\ Differences(plan.prev, row) # {}

\* effective_event after the append: enrichments are applied over the payload.
Appended(plan, row) ==
    IF plan.prev = None THEN [facts |-> row.facts, status |-> row.status]
    ELSE IF Contradicts(plan, row) THEN plan.prev
    ELSE [facts  |-> [f \in Fields |-> IF f \in Additions(plan.prev, row) THEN row.facts[f]
                                       ELSE event[plan.target].facts[f]],
          status |-> IF plan.change = None THEN event[plan.target].status ELSE plan.change[2]]

Revises(plan, row) == plan.prev # None /\ ~Contradicts(plan, row) /\ plan.change # None

-----------------------------------------------------------------------------
(* append_many: selecting, preparing and committing batches *)

RowsOf(w) == Rows[writer[w].obs]
RowAt(w, i) == RowsOf(w)[writer[w].off + i]

InBatch(w) == writer[w].pc = "batch" /\ writer[w].off < Len(RowsOf(w))
Size(w) == Len(writer[w].plans)

\* The batch takes the next row: there is one, batch_size is not reached, and the
\* row's event id is not in the batch already.
TakesNext(w) ==
    /\ Size(w) < BatchSize
    /\ writer[w].off + Size(w) < Len(RowsOf(w))
    /\ LET next == RowAt(w, Size(w) + 1)
       IN \A i \in 1..Size(w) :
             next # None /\ RowAt(w, i) # None => RowAt(w, i).id # next.id
Prepared(w) == InBatch(w) /\ Size(w) > 0 /\ ~TakesNext(w)
PlanAt(w, i) == writer[w].plans[i]
EvidenceOf(w, i) == <<PlanAt(w, i).target, writer[w].obs, writer[w].off + i>>

\* The supported rows among the first k of the batch.
Kept(w, k) == {i \in 1..k : PlanAt(w, i) # None}

\* Variant: the read-only shortcut forgets the evidence rows.
SameFacts(w) == \A i \in Kept(w, Size(w)) : SaysNothingNew(PlanAt(w, i), RowAt(w, i))

\* The read-only shortcut: every row is already stored, with this run's evidence.
Unchanged(w) ==
    \A i \in Kept(w, Size(w)) :
        /\ SaysNothingNew(PlanAt(w, i), RowAt(w, i))
        /\ EvidenceOf(w, i) \in evidence

\* Prepare the next row of the batch; other writers may commit between rows.
PrepareRow(w) ==
    /\ InBatch(w)
    /\ TakesNext(w)
    /\ LET row == RowAt(w, Size(w) + 1)
       IN writer' = [writer EXCEPT ![w].plans =
                        Append(@, IF row = None THEN None ELSE PlanFor(row))]
    /\ UNCHANGED <<tables, books, file, begun>>

\* The writer's call after k more rows were handled.
Advanced(w, k) ==
    [pc |-> "batch", obs |-> writer[w].obs, off |-> writer[w].off + k,
     plans |-> <<>>, retried |-> FALSE,
     skipped |-> writer[w].skipped \/ \E i \in 1..k : PlanAt(w, i) = None,
     conflict |-> \/ writer[w].conflict
                  \/ \E i \in Kept(w, k) : Contradicts(PlanAt(w, i), RowAt(w, i))]

SkipBatch(w) ==
    /\ Prepared(w)
    /\ Unchanged(w)
    /\ writer' = [writer EXCEPT ![w] = Advanced(w, Size(w))]
    /\ UNCHANGED <<tables, books, file, begun>>

\* One write transaction.  It commits the whole batch, or the first k rows when
\* they took half a second; the rest is prepared again.
CommitBatch(w, k) ==
    /\ Prepared(w)
    /\ ~Unchanged(w)
    /\ k \in 1..Size(w)
    /\ \A i \in Kept(w, k) : PlanStands(PlanAt(w, i))
    /\ event' = [id \in Ids |->
            IF \E i \in Kept(w, k) : PlanAt(w, i).target = id
            THEN LET i == CHOOSE i \in Kept(w, k) : PlanAt(w, i).target = id
                 IN Appended(PlanAt(w, i), RowAt(w, i))
            ELSE event[id]]
    /\ reported' = [id \in Ids |->
            IF \E i \in Kept(w, k) : PlanAt(w, i).target = id /\ Revises(PlanAt(w, i), RowAt(w, i))
            THEN LET i == CHOOSE i \in Kept(w, k) : PlanAt(w, i).target = id
                 IN PlanAt(w, i).change[1]
            ELSE reported[id]]
    /\ conflicts' = conflicts \union
            {<<PlanAt(w, i).target, RowAt(w, i)>> :
                i \in {j \in Kept(w, k) : Contradicts(PlanAt(w, j), RowAt(w, j))}}
    /\ evidence' = evidence \union {EvidenceOf(w, i) : i \in Kept(w, k)}
    /\ writer' = [writer EXCEPT ![w] = Advanced(w, k)]
    /\ UNCHANGED <<books, file, begun>>

\* A prepared event changed: roll the batch back and prepare it once more; the
\* second time the call fails.
ChangedBatch(w) ==
    /\ Prepared(w)
    /\ ~Unchanged(w)
    /\ \E i \in Kept(w, Size(w)) : ~PlanStands(PlanAt(w, i))
    /\ writer' = [writer EXCEPT ![w] =
            IF writer[w].retried THEN Idle ELSE [@ EXCEPT !.plans = <<>>, !.retried = TRUE]]
    /\ UNCHANGED <<tables, books, file, begun>>

-----------------------------------------------------------------------------
(* preserve_observation and CollectionRun.save *)

\* A known observation is answered from ledger_observations without a write.
Begin(w, o) ==
    /\ writer[w].pc = "idle"
    /\ IF o \in Daily THEN o \notin begun ELSE o \notin observed
    /\ begun' = IF o \in Daily THEN begun \union {o} ELSE begun
    /\ writer' = [writer EXCEPT ![w] = At(IF o \in Daily THEN "batch" ELSE "file", o)]
    /\ UNCHANGED <<tables, books, file>>

\* Variant: an existing evidence file is refused even when it holds the body.
OpenNewEvidence(w) ==
    LET body == RowsOf(w)
    IN /\ writer[w].pc = "file"
       /\ file' = IF file[body] = "absent" THEN [file EXCEPT ![body] = "partial"] ELSE file
       /\ writer' = [writer EXCEPT ![w] =
              IF file[body] = "absent" THEN [@ EXCEPT !.pc = "write"] ELSE Idle]
       /\ UNCHANGED <<tables, books, begun>>

\* O_EXCL creation of the content-addressed evidence file; an existing file must
\* hold the whole body (LEDGER_EVIDENCE_CONTENT_MISMATCH otherwise).
OpenEvidence(w) ==
    LET body == RowsOf(w)
    IN /\ writer[w].pc = "file"
       /\ file' = IF file[body] = "absent" THEN [file EXCEPT ![body] = "partial"] ELSE file
       /\ writer' = [writer EXCEPT ![w] =
              CASE file[body] = "absent"  -> [@ EXCEPT !.pc = "write"]
                [] file[body] = "whole"   -> [@ EXCEPT !.pc = "batch"]
                [] file[body] = "partial" -> Idle]
       /\ UNCHANGED <<tables, books, begun>>

WriteEvidence(w) ==
    /\ writer[w].pc = "write"
    /\ file' = [file EXCEPT ![RowsOf(w)] = "whole"]
    /\ writer' = [writer EXCEPT ![w].pc = "batch"]
    /\ UNCHANGED <<tables, books, begun>>

\* Variant: conflicts do not count.
StatusWithoutConflict(w) ==
    IF writer[w].obs \in Incomplete \/ writer[w].skipped THEN "partial"
    ELSE IF writer[w].obs \in Qualified THEN "limited"
    ELSE "complete"

CoverageStatus(w) ==
    IF writer[w].obs \in Incomplete \/ writer[w].skipped \/ writer[w].conflict THEN "partial"
    ELSE IF writer[w].obs \in Qualified THEN "limited"
    ELSE "complete"

\* The last transaction of a call: coverage, and the observation unless daily.
Record(w) ==
    /\ writer[w].pc = "batch"
    /\ writer[w].off = Len(RowsOf(w))
    /\ coverage' = coverage \union {<<writer[w].obs, CoverageStatus(w)>>}
    /\ observed' = IF writer[w].obs \in Daily THEN observed
                   ELSE observed \union {writer[w].obs}
    /\ writer' = [writer EXCEPT ![w] = Idle]
    /\ UNCHANGED <<tables, file, begun>>

\* Process death, an exhausted write budget or a locked database.
Fail(w) ==
    /\ writer[w].pc # "idle"
    /\ writer' = [writer EXCEPT ![w] = Idle]
    /\ UNCHANGED <<tables, books, file, begun>>

Step(w) ==
    \/ OpenEvidence(w)
    \/ WriteEvidence(w)
    \/ PrepareRow(w)
    \/ SkipBatch(w)
    \/ \E k \in 1..BatchSize : CommitBatch(w, k)
    \/ ChangedBatch(w)
    \/ Record(w)

Next == \E w \in Writers :
    \/ \E o \in Observations : Begin(w, o)
    \/ Step(w)
    \/ Fail(w)

Spec == Init /\ [][Next]_vars

(* Observers that repeat every window (each timer run and tool call does, and a
   writer is idle between calls: SF) and whose running calls proceed (WF).  Calls
   may fail any finite number of times.  *)
Fairness ==
    /\ \A w \in Writers : WF_vars(Step(w))
    /\ \A w \in Writers, o \in Observations : SF_vars(Begin(w, o))
\* A refused call (OpenEvidence, ChangedBatch) ends like a failed one, and may go on.
FailuresEnd == <>[][\A w \in Writers : Fail(w) => Step(w)]_vars
LiveSpec == Spec /\ Fairness /\ FailuresEnd

-----------------------------------------------------------------------------
(* Properties *)

\* What is known of each event, and which observations are claimed as covered.
FactOf == [id \in Ids |-> IF event[id] = None THEN [f \in Fields |-> None] ELSE event[id].facts]
Claimed == {o \in Observations : \E s \in {"complete", "limited"} : <<o, s>> \in coverage}
LF == INSTANCE LedgerFacts WITH fact <- FactOf, claimed <- Claimed

\* The ledger implements its abstract promise (LedgerFacts): whatever the
\* interleaving of concurrent batches, retries and failures, a known fact is never
\* overwritten by a stale plan, and coverage is claimed only for readable rows.
ImplementsFacts == LF!Spec

\* No row is lost: once a run's coverage is recorded, each supported row either
\* agrees with its stored event or is kept as a conflict, and its provenance
\* (ledger_evidence) names that run and row.
RowsAccountedFor ==
    \A c \in coverage : \A i \in 1..Len(Rows[c[1]]) :
        LET row == Rows[c[1]][i]
        IN row # None =>
            \E id \in {row.id, LegacyOf[row.id]} \ {None} :
                /\ event[id] # None
                /\ <<id, c[1], i>> \in evidence
                /\ LF!Answers(id, row) \/ <<id, row>> \in conflicts

\* Claimed coverage can be read back from the stored facts (preserve_observation's
\* status rule, read by history_anchors and the return engines).
ClaimsAreReadable == \A o \in Claimed : LF!Matches(o)

\* A row seen under its new identity joins the event stored under the older one:
\* no event is ever stored twice (prepare's alias and legacy lookup).
NoEventTwice == \A id \in Ids : LegacyOf[id] # None => event[id] = None \/ event[LegacyOf[id]] = None

\* No step takes a settled flow back to pending, however late or stale the pending
\* report arrives (effective_status together with the commit-time recheck).
SettledStaysSettled ==
    [][\A id \in Ids : event[id] # None /\ event[id].status \in Terminal
          => event'[id].status \notin Pending]_vars

\* When calls stop failing, every repeated observation is preserved, in spite of
\* concurrent writers invalidating each other's batches.  The exception: a call
\* that died inside _write_evidence leaves a partial file, which every later call
\* refuses.
EventuallyPreserved ==
    <>[](\A o \in Observations \ Daily : o \in observed \/ file[Rows[o]] = "partial")
=============================================================================
