---------------------------- MODULE LedgerProofs ----------------------------
(***************************************************************************)
(* Theorems about Ledger.tla, for any number of writers, rows and fields.  *)
(* The inductive invariant says what the code never writes down: what a    *)
(* writer's prepared plans and its progress through its rows have to do    *)
(* with the tables every other writer is changing.                         *)
(***************************************************************************)
EXTENDS Ledger, TLAPS

\* The identities under which a row can be stored.
Homes(row) == {row.id, LegacyOf[row.id]} \ {None}

\* Row i of o is stored with provenance, as a fact or as a conflict.
Handled(o, i) ==
    LET row == Rows[o][i]
    IN row # None => \E id \in Homes(row) :
                        /\ event[id] # None
                        /\ <<id, o, i>> \in evidence
                        /\ LF!Answers(id, row) \/ <<id, row>> \in conflicts

\* Row i of o can be read back from the facts.
Clean(o, i) == Rows[o][i] # None /\ \E id \in Homes(Rows[o][i]) : LF!Answers(id, Rows[o][i])

\* Everything up to a writer's offset is handled, and its flags tell what is not clean.
Progress(w) ==
    \A i \in 1..writer[w].off :
        /\ Handled(writer[w].obs, i)
        /\ \/ Clean(writer[w].obs, i)
           \/ RowsOf(w)[i] = None /\ writer[w].skipped
           \/ RowsOf(w)[i] # None /\ writer[w].conflict

\* A plan is about its row, and its event has only grown since it was prepared.
PlanOK(w, i) ==
    LET plan == PlanAt(w, i)
        row  == RowAt(w, i)
    IN /\ plan = None <=> row = None
       /\ row # None =>
             /\ plan \in Plan
             /\ plan.target \in Homes(row)
             /\ plan.prev = None => /\ plan.target = row.id
                                    /\ LegacyOf[row.id] # None => event[LegacyOf[row.id]] = None
             /\ plan.prev # None =>
                   /\ event[plan.target] # None
                   /\ \A f \in Fields : plan.prev.facts[f] # None =>
                         event[plan.target].facts[f] = plan.prev.facts[f]
             /\ plan.change # None /\ plan.prev # None /\ plan.prev.status \in Terminal =>
                   plan.change[2] \notin Pending

\* Two rows of a batch are about different events.
BatchOK(w) ==
    \A i, j \in 1..Size(w) :
        i # j /\ RowAt(w, i) # None /\ RowAt(w, j) # None => RowAt(w, i).id # RowAt(w, j).id

WriterOK(w) ==
    /\ writer[w].pc # "idle" => writer[w].obs \in Observations
    /\ writer[w].pc # "batch" => writer[w].off = 0 /\ writer[w].plans = <<>>
    /\ writer[w].pc = "batch" =>
          /\ writer[w].off + Size(w) <= Len(RowsOf(w))
          /\ Size(w) <= BatchSize
          /\ Progress(w)
          /\ BatchOK(w)
          /\ \A i \in 1..Size(w) : PlanOK(w, i)

CoverageOK ==
    \A c \in coverage : \A i \in 1..Len(Rows[c[1]]) :
        Handled(c[1], i) /\ (c[2] # "partial" => Clean(c[1], i))

IInv ==
    /\ TypeOK
    /\ \A w \in Writers : WriterOK(w)
    /\ CoverageOK
    /\ NoEventTwice

-----------------------------------------------------------------------------
(* What a step may do to the tables, and what that leaves standing *)

EventsGrow ==
    \A id \in Ids : event[id] # None =>
        /\ event'[id] # None
        /\ \A f \in Fields : event[id].facts[f] # None =>
              event'[id].facts[f] = event[id].facts[f]

OldIdsStay ==
    \A id \in Ids : LegacyOf[id] # None /\ event[LegacyOf[id]] = None =>
        event'[LegacyOf[id]] = None

TablesGrow ==
    /\ EventsGrow
    /\ OldIdsStay
    /\ conflicts \subseteq conflicts'
    /\ evidence \subseteq evidence'

\* Some identity of a row: it is an event id.
LEMMA HomesAreIds ==
    ASSUME NEW row \in Row, NEW id \in Homes(row)
    PROVE  id \in Ids
BY IdAssumption DEF Homes, Row

\* A row of an observation is a Row or None, never both.
LEMMA RowsTyped ==
    ASSUME NEW o \in Observations, NEW i \in 1..Len(Rows[o]), Rows[o][i] # None
    PROVE  Rows[o][i] \in Row
BY ObservationAssumption

\* The abstract Answers, read on the stored event.
LEMMA AnswersStored ==
    ASSUME NEW id \in Ids, NEW row
    PROVE  LF!Answers(id, row) <=>
              \A f \in Fields : row.facts[f] # None =>
                 /\ event[id] # None
                 /\ event[id].facts[f] # None
                 /\ f \notin Annotations => event[id].facts[f] = row.facts[f]
BY DEF LF!Answers, FactOf

LEMMA AnswersStoredNext ==
    ASSUME NEW id \in Ids, NEW row
    PROVE  LF!Answers(id, row)' <=>
              \A f \in Fields : row.facts[f] # None =>
                 /\ event'[id] # None
                 /\ event'[id].facts[f] # None
                 /\ f \notin Annotations => event'[id].facts[f] = row.facts[f]
BY DEF LF!Answers, FactOf

\* What an event answers, it answers for ever.
LEMMA AnswersStable ==
    ASSUME EventsGrow, NEW id \in Ids, NEW row, LF!Answers(id, row)
    PROVE  LF!Answers(id, row)'
BY AnswersStored, AnswersStoredNext DEF EventsGrow

\* A handled row stays handled and a clean one clean.
LEMMA HandledStable ==
    ASSUME TablesGrow, NEW o \in Observations, NEW i \in 1..Len(Rows[o]), Handled(o, i)
    PROVE  Handled(o, i)'
<1> DEFINE row == Rows[o][i]
<1> SUFFICES ASSUME row # None
             PROVE  \E id \in Homes(row) : /\ event'[id] # None
                                           /\ <<id, o, i>> \in evidence'
                                           /\ LF!Answers(id, row)' \/ <<id, row>> \in conflicts'
    BY DEF Handled
<1>1. row \in Row
    BY RowsTyped
<1>2. PICK id \in Homes(row) : /\ event[id] # None
                               /\ <<id, o, i>> \in evidence
                               /\ LF!Answers(id, row) \/ <<id, row>> \in conflicts
    BY DEF Handled
<1>3. id \in Ids
    BY <1>1, HomesAreIds
<1>4. event'[id] # None /\ <<id, o, i>> \in evidence'
    BY <1>2, <1>3 DEF TablesGrow, EventsGrow
<1>5. LF!Answers(id, row)' \/ <<id, row>> \in conflicts'
    <2>1. CASE LF!Answers(id, row)
        BY <2>1, <1>3, AnswersStable DEF TablesGrow
    <2>2. CASE <<id, row>> \in conflicts
        BY <2>2 DEF TablesGrow
    <2> QED BY <1>2, <2>1, <2>2
<1> QED BY <1>4, <1>5

LEMMA CleanStable ==
    ASSUME TablesGrow, NEW o \in Observations, NEW i \in 1..Len(Rows[o]), Clean(o, i)
    PROVE  Clean(o, i)'
<1>1. Rows[o][i] \in Row
    BY RowsTyped DEF Clean
<1>2. PICK id \in Homes(Rows[o][i]) : LF!Answers(id, Rows[o][i])
    BY DEF Clean
<1>3. LF!Answers(id, Rows[o][i])'
    BY <1>1, <1>2, HomesAreIds, AnswersStable DEF TablesGrow
<1> QED BY <1>3 DEF Clean

\* Recorded coverage stays true of the tables.
LEMMA CoverageStable ==
    ASSUME IInv, TablesGrow, coverage' = coverage
    PROVE  CoverageOK'
<1> SUFFICES ASSUME NEW c \in coverage, NEW i \in 1..Len(Rows[c[1]])
             PROVE  Handled(c[1], i)' /\ (c[2] # "partial" => Clean(c[1], i)')
    BY DEF CoverageOK
<1>1. c[1] \in Observations
    BY DEF IInv, TypeOK
<1>2. Handled(c[1], i) /\ (c[2] # "partial" => Clean(c[1], i))
    BY DEF IInv, CoverageOK
<1> QED BY <1>1, <1>2, HandledStable, CleanStable

\* The rows a writer in a batch still has to do with are rows of its observation.
LEMMA WriterFacts ==
    ASSUME IInv, NEW w \in Writers, writer[w].pc = "batch"
    PROVE  /\ writer[w].obs \in Observations
           /\ RowsOf(w) \in Seq(Row \union {None})
           /\ writer[w].off \in Nat
           /\ writer[w].plans \in Seq(Plan \union {None})
           /\ Size(w) \in Nat
           /\ writer[w].off + Size(w) <= Len(RowsOf(w))
           /\ \A i \in 1..Size(w) : RowAt(w, i) \in Row \union {None}
<1>1. writer[w] \in Writer /\ writer[w].obs \in Observations
    BY DEF IInv, TypeOK, WriterOK
<1>2. RowsOf(w) \in Seq(Row \union {None})
    BY <1>1, ObservationAssumption DEF RowsOf
<1>3. writer[w].off + Size(w) <= Len(RowsOf(w))
    BY DEF IInv, WriterOK
<1> QED BY <1>1, <1>2, <1>3 DEF Writer, Size, RowAt

\* A plan survives what the other writers do.
LEMMA PlanStable ==
    ASSUME IInv, TablesGrow, NEW w \in Writers, writer'[w] = writer[w],
           writer[w].pc = "batch", NEW i \in 1..Size(w)
    PROVE  PlanOK(w, i)'
<1> DEFINE plan == PlanAt(w, i)
           row  == RowAt(w, i)
<1>1. PlanAt(w, i)' = plan /\ RowAt(w, i)' = row
    BY DEF PlanAt, RowAt, RowsOf
<1>2. PlanOK(w, i)
    BY DEF IInv, WriterOK
<1>3. plan = None <=> row = None
    BY <1>2 DEF PlanOK
<1>4. ASSUME row # None
      PROVE  /\ plan \in Plan
             /\ plan.target \in Homes(row)
             /\ plan.prev = None => /\ plan.target = row.id
                                    /\ LegacyOf[row.id] # None => event'[LegacyOf[row.id]] = None
             /\ plan.prev # None =>
                   /\ event'[plan.target] # None
                   /\ \A f \in Fields : plan.prev.facts[f] # None =>
                         event'[plan.target].facts[f] = plan.prev.facts[f]
             /\ plan.change # None /\ plan.prev # None /\ plan.prev.status \in Terminal =>
                   plan.change[2] \notin Pending
    <2>1. row \in Row /\ row.id \in Ids
        BY <1>4, WriterFacts DEF Row
    <2>2. plan \in Plan /\ plan.target \in Ids /\ plan.target \in Homes(row)
        BY <1>2, <1>4 DEF PlanOK, Plan
    <2>3. ASSUME plan.prev = None
          PROVE  /\ plan.target = row.id
                 /\ LegacyOf[row.id] # None => event'[LegacyOf[row.id]] = None
        BY <1>2, <1>4, <2>1, <2>3 DEF PlanOK, TablesGrow, OldIdsStay
    <2>4. ASSUME plan.prev # None
          PROVE  /\ event'[plan.target] # None
                 /\ \A f \in Fields : plan.prev.facts[f] # None =>
                         event'[plan.target].facts[f] = plan.prev.facts[f]
        <3>1. event[plan.target] # None
            BY <1>2, <1>4, <2>4 DEF PlanOK
        <3>2. ASSUME NEW f \in Fields, plan.prev.facts[f] # None
              PROVE  event'[plan.target].facts[f] = plan.prev.facts[f]
            <4>1. event[plan.target].facts[f] = plan.prev.facts[f]
                BY <1>2, <1>4, <2>4, <3>2 DEF PlanOK
            <4> QED BY <4>1, <3>1, <3>2, <2>2 DEF TablesGrow, EventsGrow
        <3> QED BY <2>2, <3>1, <3>2 DEF TablesGrow, EventsGrow
    <2>5. plan.change # None /\ plan.prev # None /\ plan.prev.status \in Terminal =>
             plan.change[2] \notin Pending
        BY <1>2, <1>4 DEF PlanOK
    <2> QED BY <2>2, <2>3, <2>4, <2>5
<1> QED BY <1>1, <1>3, <1>4 DEF PlanOK, Homes

LEMMA ProgressStable ==
    ASSUME IInv, TablesGrow, NEW w \in Writers, writer[w].pc = "batch",
           writer'[w].obs = writer[w].obs, writer'[w].off = writer[w].off,
           writer'[w].skipped = writer[w].skipped, writer'[w].conflict = writer[w].conflict
    PROVE  Progress(w)'
<1> SUFFICES ASSUME NEW i \in 1..writer[w].off
             PROVE  /\ Handled(writer[w].obs, i)'
                    /\ \/ Clean(writer[w].obs, i)'
                       \/ RowsOf(w)[i] = None /\ writer[w].skipped
                       \/ RowsOf(w)[i] # None /\ writer[w].conflict
    BY DEF Progress, RowsOf, Handled, Clean
<1>1. writer[w].obs \in Observations /\ i \in 1..Len(Rows[writer[w].obs])
    BY WriterFacts DEF RowsOf
<1>2. Progress(w)
    BY DEF IInv, WriterOK
<1>3. Handled(writer[w].obs, i)'
    BY <1>1, <1>2, HandledStable DEF Progress
<1>4. Clean(writer[w].obs, i) => Clean(writer[w].obs, i)'
    BY <1>1, CleanStable
<1> QED BY <1>2, <1>3, <1>4 DEF Progress

\* The other writers may do as they like.
LEMMA OtherWriter ==
    ASSUME IInv, TablesGrow, NEW w \in Writers, writer'[w] = writer[w]
    PROVE  WriterOK(w)'
<1>1. WriterOK(w)
    BY DEF IInv
<1>2. CASE writer[w].pc # "batch"
    BY <1>1, <1>2 DEF WriterOK
<1>3. CASE writer[w].pc = "batch"
    <2>1. Progress(w)' /\ \A i \in 1..Size(w) : PlanOK(w, i)'
        BY <1>3, ProgressStable, PlanStable
    <2> QED BY <1>1, <1>3, <2>1 DEF WriterOK, Size, RowsOf, BatchOK, RowAt
<1> QED BY <1>2, <1>3

-----------------------------------------------------------------------------
(* CommitBatch, the only step that changes the tables *)

\* What a prepared plan and its row are, as far as the batch needs it.
LEMMA KeptPlans ==
    ASSUME IInv, NEW w \in Writers, InBatch(w), NEW i \in Kept(w, Size(w))
    PROVE  /\ RowAt(w, i) \in Row
           /\ RowAt(w, i) # None
           /\ RowAt(w, i).id \in Ids
           /\ PlanAt(w, i) \in Plan
           /\ PlanAt(w, i).target \in Ids
           /\ PlanAt(w, i).target \in Homes(RowAt(w, i))
<1>1. i \in 1..Size(w) /\ PlanAt(w, i) # None /\ PlanOK(w, i)
    BY DEF Kept, IInv, WriterOK, InBatch
<1>2. RowAt(w, i) # None
    BY <1>1 DEF PlanOK
<1>3. RowAt(w, i) \in Row
    BY <1>1, <1>2, WriterFacts DEF InBatch
<1> QED BY <1>1, <1>2, <1>3 DEF PlanOK, Plan, Row

\* Two prepared rows are about two events: the batch holds each event id once,
\* an older identity belongs to one event, and no row carries an older identity.
LEMMA TargetsDiffer ==
    ASSUME IInv, NEW w \in Writers, InBatch(w),
           NEW i \in Kept(w, Size(w)), NEW j \in Kept(w, Size(w)), i # j
    PROVE  PlanAt(w, i).target # PlanAt(w, j).target
<1> DEFINE a == RowAt(w, i)
           b == RowAt(w, j)
<1>1. i \in 1..Size(w) /\ j \in 1..Size(w)
    BY DEF Kept
<1>2. /\ a # None /\ a.id \in Ids /\ PlanAt(w, i).target \in {a.id, LegacyOf[a.id]} \ {None}
      /\ b # None /\ b.id \in Ids /\ PlanAt(w, j).target \in {b.id, LegacyOf[b.id]} \ {None}
    BY KeptPlans DEF Homes
<1>3. a.id # b.id
    BY <1>1, <1>2 DEF IInv, WriterOK, InBatch, BatchOK
<1>4. \A id \in Ids : LegacyOf[id] # a.id /\ LegacyOf[id] # b.id
    <2>1. writer[w].obs \in Observations
        BY WriterFacts DEF InBatch
    <2>2. writer[w].off + i \in 1..Len(Rows[writer[w].obs]) /\ writer[w].off + j \in 1..Len(Rows[writer[w].obs])
        BY <1>1, WriterFacts DEF InBatch, RowsOf
    <2> QED BY <1>2, <2>1, <2>2, ObservationAssumption DEF RowAt, RowsOf
<1> QED BY <1>2, <1>3, <1>4, IdAssumption

\* The events after a commit: each prepared row was appended to its own event.
LEMMA CommittedEvents ==
    ASSUME IInv, NEW w \in Writers, NEW k \in 1..BatchSize, CommitBatch(w, k)
    PROVE  /\ \A i \in Kept(w, k) :
                 event'[PlanAt(w, i).target] = Appended(PlanAt(w, i), RowAt(w, i))
           /\ \A id \in Ids :
                 (\A i \in Kept(w, k) : PlanAt(w, i).target # id) => event'[id] = event[id]
<1>1. InBatch(w) /\ Kept(w, k) \subseteq Kept(w, Size(w))
    BY WriterFacts, DataAssumption DEF CommitBatch, Prepared, Kept, InBatch
<1>2. ASSUME NEW i \in Kept(w, k)
      PROVE  event'[PlanAt(w, i).target] = Appended(PlanAt(w, i), RowAt(w, i))
    <2> DEFINE id == PlanAt(w, i).target
               c  == CHOOSE j \in Kept(w, k) : PlanAt(w, j).target = id
    <2>1. id \in Ids
        BY <1>1, KeptPlans
    <2>2. c \in Kept(w, k) /\ PlanAt(w, c).target = id
        OBVIOUS
    <2>3. c = i
        BY <1>1, <2>2, TargetsDiffer
    <2>4. event'[id] = Appended(PlanAt(w, c), RowAt(w, c))
        BY <2>1 DEF CommitBatch
    <2> QED BY <2>3, <2>4
<1>3. ASSUME NEW id \in Ids, \A i \in Kept(w, k) : PlanAt(w, i).target # id
      PROVE  event'[id] = event[id]
    BY <1>3 DEF CommitBatch
<1> QED BY <1>2, <1>3

\* What one append makes of an event: it keeps its facts, and gains the row's
\* unless the row contradicts it.
LEMMA AppendedFacts ==
    ASSUME IInv, NEW w \in Writers, NEW k \in 1..BatchSize, CommitBatch(w, k),
           NEW i \in Kept(w, k)
    PROVE  LET plan == PlanAt(w, i)
               row  == RowAt(w, i)
               new  == Appended(plan, row)
           IN /\ plan.prev = event[plan.target]
              /\ new \in Event
              /\ new # None
              /\ plan.prev # None => \A f \in Fields :
                    plan.prev.facts[f] # None => new.facts[f] = plan.prev.facts[f]
              /\ ~Contradicts(plan, row) => \A f \in Fields : row.facts[f] # None =>
                    /\ new.facts[f] # None
                    /\ f \notin Annotations => new.facts[f] = row.facts[f]
<1> DEFINE plan == PlanAt(w, i)
           row  == RowAt(w, i)
           new  == Appended(plan, row)
           now  == event[plan.target]
<1>1. i \in Kept(w, Size(w)) /\ InBatch(w)
    BY WriterFacts, DataAssumption DEF CommitBatch, Prepared, Kept, InBatch
<1>2. row \in Row /\ plan \in Plan /\ plan.target \in Ids
    BY <1>1, KeptPlans
<1>3. plan.prev = now
    BY DEF CommitBatch, PlanStands
<1>4. now \in Event \union {None}
    BY <1>2 DEF IInv, TypeOK
<1>5. CASE now = None
    BY <1>2, <1>3, <1>5, IdAssumption DEF Appended, Event, Row
<1>6. CASE now # None /\ Contradicts(plan, row)
    BY <1>2, <1>3, <1>4, <1>6 DEF Appended
<1>7. CASE now # None /\ ~Contradicts(plan, row)
    <2> DEFINE facts == [f \in Fields |-> IF f \in Additions(now, row) THEN row.facts[f]
                                          ELSE now.facts[f]]
               status == IF plan.change = None THEN now.status ELSE plan.change[2]
    <2>1. new = [facts |-> facts, status |-> status]
        BY <1>3, <1>7 DEF Appended
    <2>2. row.facts \in Facts /\ now.facts \in Facts /\ now.status \in Statuses \union {None}
        BY <1>2, <1>4, <1>7 DEF Row, Event
    <2>3. facts \in Facts
        BY <2>2 DEF Facts
    <2>4. status \in Statuses \union {None}
        BY <1>2, <2>2 DEF Plan
    <2>5. new \in Event
        BY <2>1, <2>3, <2>4 DEF Event
    <2>6. new # None
        BY <2>5, IdAssumption
    <2>7. \A f \in Fields : now.facts[f] # None => facts[f] = now.facts[f]
        BY DEF Additions
    <2>8. ASSUME NEW f \in Fields, row.facts[f] # None
          PROVE  facts[f] # None /\ (f \notin Annotations => facts[f] = row.facts[f])
        BY <1>3, <1>7, <2>8 DEF Additions, Contradicts, Differences
    <2> QED BY <1>3, <2>1, <2>5, <2>6, <2>7, <2>8
<1> QED BY <1>3, <1>5, <1>6, <1>7

\* A commit inserts an event only under the id its row carries, and only when
\* nothing is stored under its older identity.
LEMMA CommitInserts ==
    ASSUME IInv, NEW w \in Writers, NEW k \in 1..BatchSize, CommitBatch(w, k),
           NEW id \in Ids, event[id] = None, event'[id] # None
    PROVE  /\ LegacyOf[id] # None => event[LegacyOf[id]] = None
           /\ \A other \in Ids : LegacyOf[other] # id
<1>1. PICK i \in Kept(w, k) : PlanAt(w, i).target = id
    BY CommittedEvents
<1>2. InBatch(w) /\ i \in Kept(w, Size(w)) /\ i \in 1..Size(w)
    BY WriterFacts, DataAssumption DEF CommitBatch, Prepared, Kept, InBatch
<1>3. PlanAt(w, i).prev = None
    BY <1>1 DEF CommitBatch, PlanStands
<1>4. PlanOK(w, i) /\ RowAt(w, i) # None
    BY <1>2, KeptPlans DEF IInv, WriterOK, InBatch
<1>5. id = RowAt(w, i).id /\ (LegacyOf[id] # None => event[LegacyOf[id]] = None)
    BY <1>1, <1>3, <1>4 DEF PlanOK
<1>6. writer[w].obs \in Observations /\ writer[w].off + i \in 1..Len(Rows[writer[w].obs])
    BY <1>2, WriterFacts DEF InBatch, RowsOf
<1> QED BY <1>4, <1>5, <1>6, ObservationAssumption DEF RowAt, RowsOf

LEMMA CommitGrows ==
    ASSUME IInv, NEW w \in Writers, NEW k \in 1..BatchSize, CommitBatch(w, k)
    PROVE  TablesGrow
<1>1. EventsGrow
    <2> SUFFICES ASSUME NEW id \in Ids, event[id] # None
                 PROVE  /\ event'[id] # None
                        /\ \A f \in Fields : event[id].facts[f] # None =>
                              event'[id].facts[f] = event[id].facts[f]
        BY DEF EventsGrow
    <2>1. CASE \A i \in Kept(w, k) : PlanAt(w, i).target # id
        BY <2>1, CommittedEvents
    <2>2. ASSUME NEW i \in Kept(w, k), PlanAt(w, i).target = id
          PROVE  /\ event'[id] # None
                 /\ \A f \in Fields : event[id].facts[f] # None =>
                       event'[id].facts[f] = event[id].facts[f]
        <3>1. event'[id] = Appended(PlanAt(w, i), RowAt(w, i))
            BY <2>2, CommittedEvents
        <3> QED BY <2>2, <3>1, AppendedFacts
    <2> QED BY <2>1, <2>2
<1>2. OldIdsStay
    <2> SUFFICES ASSUME NEW id \in Ids, LegacyOf[id] # None, event[LegacyOf[id]] = None,
                        event'[LegacyOf[id]] # None
                 PROVE  FALSE
        BY DEF OldIdsStay
    <2>1. LegacyOf[id] \in Ids
        BY IdAssumption
    <2> QED BY <2>1, CommitInserts
<1>3. conflicts \subseteq conflicts' /\ evidence \subseteq evidence'
    BY DEF CommitBatch
<1> QED BY <1>1, <1>2, <1>3 DEF TablesGrow

\* A committed row is handled, and clean unless the writer's flags say otherwise.
LEMMA CommitHandles ==
    ASSUME IInv, NEW w \in Writers, NEW k \in 1..BatchSize, CommitBatch(w, k),
           NEW o \in Observations, NEW i \in Nat, NEW j \in 1..k,
           o = writer[w].obs, i = writer[w].off + j
    PROVE  /\ Handled(o, i)'
           /\ \/ Clean(o, i)'
              \/ Rows[o][i] = None /\ PlanAt(w, j) = None
              \/ Rows[o][i] # None /\ j \in Kept(w, k) /\ Contradicts(PlanAt(w, j), RowAt(w, j))
<1> DEFINE row  == Rows[o][i]
           plan == PlanAt(w, j)
<1>1. /\ InBatch(w)
      /\ j \in 1..Size(w)
      /\ Kept(w, k) \subseteq Kept(w, Size(w))
    BY WriterFacts, DataAssumption DEF CommitBatch, Prepared, Kept, InBatch
<1>2. row = RowAt(w, j)
    BY DEF RowAt, RowsOf
<1>3. plan = None <=> row = None
    BY <1>1, <1>2 DEF IInv, WriterOK, InBatch, PlanOK
<1>4. CASE row = None
    BY <1>2, <1>3, <1>4 DEF Handled
<1>5. CASE row # None
    <2>1. j \in Kept(w, k)
        BY <1>3, <1>5 DEF Kept
    <2>2. PICK id \in Ids : id = plan.target
        BY <1>1, <2>1, KeptPlans
    <2>3. row \in Row /\ id \in Homes(row)
        BY <1>1, <1>2, <2>1, <2>2, KeptPlans
    <2>4. event'[id] = Appended(plan, RowAt(w, j)) /\ event'[id] # None
        BY <2>1, <2>2, CommittedEvents, AppendedFacts
    <2>5. <<id, o, i>> \in evidence'
        BY <2>1, <2>2 DEF CommitBatch, EvidenceOf
    <2>6. CASE Contradicts(plan, RowAt(w, j))
        <3>1. <<id, row>> \in conflicts'
            BY <1>2, <2>1, <2>2, <2>6 DEF CommitBatch
        <3> QED BY <1>5, <2>1, <2>3, <2>4, <2>5, <2>6, <3>1 DEF Handled
    <2>7. CASE ~Contradicts(plan, RowAt(w, j))
        <3>1. LF!Answers(id, row)'
            BY <1>2, <2>1, <2>2, <2>4, <2>7, AppendedFacts, AnswersStoredNext
        <3> QED BY <1>5, <2>3, <2>4, <2>5, <3>1 DEF Handled, Clean
    <2> QED BY <2>6, <2>7
<1> QED BY <1>4, <1>5

\* The writer that handled k rows is further on, and its flags are as before or set.
LEMMA AdvancedWriter ==
    ASSUME IInv, NEW w \in Writers, NEW k \in Nat, InBatch(w), k <= Size(w),
           writer' = [writer EXCEPT ![w] = Advanced(w, k)]
    PROVE  /\ writer'[w].pc = "batch"
           /\ writer'[w].obs = writer[w].obs
           /\ writer'[w].off = writer[w].off + k
           /\ writer'[w].plans = <<>>
           /\ writer'[w].skipped <=> writer[w].skipped \/ \E i \in 1..k : PlanAt(w, i) = None
           /\ writer'[w].conflict <=> writer[w].conflict
                 \/ \E i \in Kept(w, k) : Contradicts(PlanAt(w, i), RowAt(w, i))
           /\ writer' \in [Writers -> Writer]
           /\ \A v \in Writers \ {w} : writer'[v] = writer[v]
<1>1. writer \in [Writers -> Writer] /\ writer[w].off \in Nat /\ writer[w].pc = "batch"
    BY DEF IInv, TypeOK, Writer, InBatch
<1>2. writer'[w] = Advanced(w, k)
    BY <1>1
<1>3. Advanced(w, k) \in Writer
    BY <1>1 DEF Advanced, Writer
<1> QED BY <1>1, <1>2, <1>3 DEF Advanced

\* A writer whose rows up to its new offset are all handled is in order.
LEMMA AdvancedOK ==
    ASSUME IInv, TablesGrow, NEW w \in Writers, NEW k \in Nat, InBatch(w), k <= Size(w),
           writer' = [writer EXCEPT ![w] = Advanced(w, k)],
           \A o \in Observations, i \in Nat, j \in 1..k :
              o = writer[w].obs /\ i = writer[w].off + j =>
                 /\ Handled(o, i)'
                 /\ \/ Clean(o, i)'
                    \/ Rows[o][i] = None /\ PlanAt(w, j) = None
                    \/ Rows[o][i] # None /\ j \in Kept(w, k)
                          /\ Contradicts(PlanAt(w, j), RowAt(w, j))
    PROVE  \A v \in Writers : WriterOK(v)'
<1>1. /\ writer'[w].pc = "batch"
      /\ writer'[w].obs = writer[w].obs
      /\ writer'[w].off = writer[w].off + k
      /\ writer'[w].plans = <<>>
      /\ writer'[w].skipped <=> writer[w].skipped \/ \E i \in 1..k : PlanAt(w, i) = None
      /\ writer'[w].conflict <=> writer[w].conflict
            \/ \E i \in Kept(w, k) : Contradicts(PlanAt(w, i), RowAt(w, i))
      /\ \A v \in Writers \ {w} : writer'[v] = writer[v]
    BY AdvancedWriter
<1>2. /\ writer[w].obs \in Observations
      /\ writer[w].off \in Nat
      /\ Size(w) \in Nat
      /\ writer[w].off + Size(w) <= Len(RowsOf(w))
      /\ RowsOf(w) \in Seq(Row \union {None})
    BY WriterFacts DEF InBatch
<1>3. Progress(w)'
    <2> SUFFICES ASSUME NEW o \in Observations, o = writer[w].obs,
                        NEW i \in 1..(writer[w].off + k)
                 PROVE  /\ Handled(o, i)'
                        /\ \/ Clean(o, i)'
                           \/ Rows[o][i] = None /\ writer'[w].skipped
                           \/ Rows[o][i] # None /\ writer'[w].conflict
        BY <1>1, <1>2 DEF Progress, RowsOf, Handled, Clean
    <2>1. CASE i <= writer[w].off
        <3>1. i \in 1..writer[w].off /\ i \in 1..Len(Rows[o])
            BY <1>2, <2>1 DEF RowsOf
        <3>2. Progress(w)
            BY DEF IInv, WriterOK, InBatch
        <3>3. Handled(o, i) /\ Handled(o, i)'
            BY <3>1, <3>2, HandledStable DEF Progress
        <3>4. \/ Clean(o, i)
              \/ Rows[o][i] = None /\ writer[w].skipped
              \/ Rows[o][i] # None /\ writer[w].conflict
            BY <3>1, <3>2 DEF Progress, RowsOf
        <3>5. Clean(o, i) => Clean(o, i)'
            BY <3>1, CleanStable
        <3> QED BY <1>1, <3>3, <3>4, <3>5
    <2>2. CASE i > writer[w].off
        <3>1. PICK j \in 1..k : i = writer[w].off + j
            <4>1. i - writer[w].off \in 1..k
                BY <1>2, <2>2
            <4> QED BY <1>2, <4>1
        <3>2. /\ Handled(o, i)'
              /\ \/ Clean(o, i)'
                 \/ Rows[o][i] = None /\ PlanAt(w, j) = None
                 \/ Rows[o][i] # None /\ j \in Kept(w, k)
                       /\ Contradicts(PlanAt(w, j), RowAt(w, j))
            BY <3>1, <1>2
        <3> QED BY <1>1, <3>2
    <2> QED BY <1>2, <2>1, <2>2
<1>4. WriterOK(w)'
    BY <1>1, <1>2, <1>3, DataAssumption DEF WriterOK, Size, RowsOf, BatchOK
<1> QED BY <1>1, <1>4, OtherWriter

LEMMA CommitTypeOK ==
    ASSUME IInv, NEW w \in Writers, NEW k \in 1..BatchSize, CommitBatch(w, k)
    PROVE  TypeOK'
<1>1. /\ InBatch(w)
      /\ k \in Nat
      /\ k <= Size(w)
      /\ Kept(w, k) \subseteq Kept(w, Size(w))
    BY WriterFacts, DataAssumption DEF CommitBatch, Prepared, Kept, InBatch
<1>2. event' \in [Ids -> Event \union {None}]
    <2> SUFFICES ASSUME NEW id \in Ids
                 PROVE  event'[id] \in Event \union {None}
        BY DEF CommitBatch
    <2>1. CASE \A i \in Kept(w, k) : PlanAt(w, i).target # id
        BY <2>1, CommittedEvents DEF IInv, TypeOK
    <2>2. CASE \E i \in Kept(w, k) : PlanAt(w, i).target = id
        BY <2>2, CommittedEvents, AppendedFacts
    <2> QED BY <2>1, <2>2
<1>3. reported' \in [Ids -> Statuses \union {None}]
    <2>1. \A i \in Kept(w, k) : Revises(PlanAt(w, i), RowAt(w, i)) =>
             PlanAt(w, i).change[1] \in Statuses
        BY <1>1, KeptPlans DEF Revises, Plan
    <2> SUFFICES ASSUME NEW id \in Ids
                 PROVE  reported'[id] \in Statuses \union {None}
        BY DEF CommitBatch
    <2> DEFINE revised(i) == /\ PlanAt(w, i).target = id
                             /\ Revises(PlanAt(w, i), RowAt(w, i))
    <2>2. CASE \E i \in Kept(w, k) : revised(i)
        <3>1. PICK i \in Kept(w, k) : PlanAt(w, i).target = id /\ Revises(PlanAt(w, i), RowAt(w, i))
            BY <2>2
        <3> DEFINE c == CHOOSE j \in Kept(w, k) : PlanAt(w, j).target = id
        <3>2. c \in Kept(w, k) /\ PlanAt(w, c).target = id
            BY <3>1
        <3>3. c = i
            BY <1>1, <3>1, <3>2, TargetsDiffer
        <3>4. reported'[id] = PlanAt(w, c).change[1]
            BY <2>2 DEF CommitBatch
        <3> QED BY <2>1, <3>1, <3>3, <3>4
    <2>3. CASE ~ \E i \in Kept(w, k) : revised(i)
        BY <2>3 DEF CommitBatch, IInv, TypeOK
    <2> QED BY <2>2, <2>3
<1>4. conflicts' \subseteq Ids \X Row
    BY <1>1, KeptPlans DEF CommitBatch, IInv, TypeOK
<1>5. evidence' \subseteq Ids \X Observations \X Nat
    <2>1. \A i \in Kept(w, k) : EvidenceOf(w, i) \in Ids \X Observations \X Nat
        BY <1>1, KeptPlans, WriterFacts DEF EvidenceOf, Kept, InBatch
    <2> QED BY <2>1 DEF CommitBatch, IInv, TypeOK
<1>6. writer' \in [Writers -> Writer]
    BY <1>1, AdvancedWriter DEF CommitBatch
<1> QED BY <1>2, <1>3, <1>4, <1>5, <1>6 DEF CommitBatch, IInv, TypeOK, books

LEMMA CommitKeepsIInv ==
    ASSUME IInv, NEW w \in Writers, NEW k \in 1..BatchSize, CommitBatch(w, k)
    PROVE  IInv'
<1>1. InBatch(w) /\ k \in Nat /\ k <= Size(w)
    BY WriterFacts, DataAssumption DEF CommitBatch, Prepared, InBatch
<1>2. TablesGrow
    BY CommitGrows
<1>3. TypeOK'
    BY CommitTypeOK
<1>4. \A v \in Writers : WriterOK(v)'
    <2>1. writer' = [writer EXCEPT ![w] = Advanced(w, k)]
        BY DEF CommitBatch
    <2>2. \A o \in Observations, i \in Nat, j \in 1..k :
              o = writer[w].obs /\ i = writer[w].off + j =>
                 /\ Handled(o, i)'
                 /\ \/ Clean(o, i)'
                    \/ Rows[o][i] = None /\ PlanAt(w, j) = None
                    \/ Rows[o][i] # None /\ j \in Kept(w, k)
                          /\ Contradicts(PlanAt(w, j), RowAt(w, j))
        BY CommitHandles
    <2> QED BY <1>1, <1>2, <2>1, <2>2, AdvancedOK
<1>5. CoverageOK'
    BY <1>2, CoverageStable DEF CommitBatch, books
<1>6. NoEventTwice'
    <2> SUFFICES ASSUME NEW id \in Ids, LegacyOf[id] # None
                 PROVE  event'[id] = None \/ event'[LegacyOf[id]] = None
        BY DEF NoEventTwice
    <2>1. LegacyOf[id] \in Ids
        BY IdAssumption
    <2>2. CASE event[LegacyOf[id]] = None
        BY <2>2, <1>2 DEF TablesGrow, OldIdsStay
    <2>3. CASE event[LegacyOf[id]] # None
        <3>1. event[id] = None
            BY <2>3 DEF IInv, NoEventTwice
        <3> QED BY <2>3, <3>1, CommitInserts
    <2> QED BY <2>2, <2>3
<1> QED BY <1>3, <1>4, <1>5, <1>6 DEF IInv

-----------------------------------------------------------------------------
(* The steps that leave the tables alone *)

LEMMA QuietTables ==
    ASSUME UNCHANGED tables
    PROVE  TablesGrow
BY DEF tables, TablesGrow, EventsGrow, OldIdsStay

\* Such a step preserves the invariant if it leaves its own writer in order.
LEMMA QuietKeepsIInv ==
    ASSUME IInv, UNCHANGED <<tables, coverage>>, TypeOK', NEW w \in Writers, WriterOK(w)',
           \A v \in Writers \ {w} : writer'[v] = writer[v]
    PROVE  IInv'
<1>1. TablesGrow
    BY QuietTables
<1>2. \A v \in Writers : WriterOK(v)'
    BY <1>1, OtherWriter
<1>3. CoverageOK'
    BY <1>1, CoverageStable
<1>4. NoEventTwice'
    BY DEF IInv, NoEventTwice, tables
<1> QED BY <1>2, <1>3, <1>4 DEF IInv

LEMMA IdleOK ==
    ASSUME NEW w \in Writers, writer'[w] = Idle
    PROVE  WriterOK(w)'
BY DEF WriterOK, Idle, At

LEMMA IdleTyped == Idle \in Writer
<1>1. <<>> \in Seq(Plan \union {None})
    OBVIOUS
<1> QED BY <1>1 DEF Idle, At, Writer

LEMMA BeginKeepsIInv ==
    ASSUME IInv, NEW w \in Writers, NEW o \in Observations, Begin(w, o)
    PROVE  IInv'
<1> DEFINE pc  == IF o \in Daily THEN "batch" ELSE "file"
           new == At(pc, o)
<1>1. new = [pc |-> pc, obs |-> o, off |-> 0, plans |-> <<>>,
             retried |-> FALSE, skipped |-> FALSE, conflict |-> FALSE]
    BY DEF At
<1>2. writer \in [Writers -> Writer] /\ writer' = [writer EXCEPT ![w] = new]
    BY DEF IInv, TypeOK, Begin
<1>3. new \in Writer
    <2>1. <<>> \in Seq(Plan \union {None})
        OBVIOUS
    <2>2. pc \in {"idle", "file", "write", "batch"}
        OBVIOUS
    <2> HIDE DEF pc, new
    <2> QED BY <1>1, <2>1, <2>2 DEF Writer
<1>4. TypeOK'
    BY <1>2, <1>3 DEF Begin, IInv, TypeOK, tables, books
<1>5. WriterOK(w)'
    <2>1. writer'[w] = new
        BY <1>2
    <2>2. Len(Rows[o]) \in Nat
        BY ObservationAssumption
    <2> QED BY <1>1, <2>1, <2>2, DataAssumption
            DEF WriterOK, Size, RowsOf, BatchOK, Progress
<1> QED BY <1>2, <1>4, <1>5, QuietKeepsIInv DEF Begin, books

LEMMA OpenEvidenceKeepsIInv ==
    ASSUME IInv, NEW w \in Writers, OpenEvidence(w)
    PROVE  IInv'
<1> DEFINE body == RowsOf(w)
<1>1. /\ writer \in [Writers -> Writer]
      /\ writer[w].obs \in Observations
      /\ writer[w].off = 0 /\ writer[w].plans = <<>>
      /\ file \in [Bodies -> {"absent", "partial", "whole"}]
    BY DEF IInv, TypeOK, WriterOK, OpenEvidence
<1>2. body \in Bodies /\ body \in Seq(Row \union {None})
    BY <1>1, ObservationAssumption DEF RowsOf, Bodies
<1>3. file' \in [Bodies -> {"absent", "partial", "whole"}]
    BY <1>1, <1>2 DEF OpenEvidence
<1>4. \/ writer' = [writer EXCEPT ![w] = [writer[w] EXCEPT !.pc = "write"]]
      \/ writer' = [writer EXCEPT ![w] = [writer[w] EXCEPT !.pc = "batch"]]
      \/ writer' = [writer EXCEPT ![w] = Idle]
    <2>1. file[body] \in {"absent", "partial", "whole"}
        BY <1>1, <1>2
    <2>2. CASE file[body] = "absent"
        BY <1>1, <2>2 DEF OpenEvidence
    <2>3. CASE file[body] = "whole"
        BY <1>1, <2>3 DEF OpenEvidence
    <2>4. CASE file[body] = "partial"
        BY <1>1, <2>4 DEF OpenEvidence
    <2> QED BY <2>1, <2>2, <2>3, <2>4
<1>5. writer' \in [Writers -> Writer] /\ \A v \in Writers \ {w} : writer'[v] = writer[v]
    <2>1. /\ [writer[w] EXCEPT !.pc = "write"] \in Writer
          /\ [writer[w] EXCEPT !.pc = "batch"] \in Writer
        BY <1>1 DEF Writer
    <2> QED BY <1>1, <1>4, <2>1, IdleTyped
<1>6. TypeOK'
    BY <1>3, <1>5 DEF OpenEvidence, IInv, TypeOK, tables, books
<1>7. WriterOK(w)'
    <2>1. CASE writer' = [writer EXCEPT ![w] = Idle]
        BY <1>1, <2>1, IdleOK
    <2>2. CASE writer' = [writer EXCEPT ![w] = [writer[w] EXCEPT !.pc = "write"]]
        BY <1>1, <2>2 DEF WriterOK, Writer
    <2>3. CASE writer' = [writer EXCEPT ![w] = [writer[w] EXCEPT !.pc = "batch"]]
        BY <1>1, <1>2, <2>3, DataAssumption
           DEF WriterOK, Writer, Size, RowsOf, BatchOK, Progress
    <2> QED BY <1>4, <2>1, <2>2, <2>3
<1> QED BY <1>5, <1>6, <1>7, QuietKeepsIInv DEF OpenEvidence, books

LEMMA WriteEvidenceKeepsIInv ==
    ASSUME IInv, NEW w \in Writers, WriteEvidence(w)
    PROVE  IInv'
<1>1. /\ writer \in [Writers -> Writer]
      /\ writer[w].obs \in Observations
      /\ writer[w].off = 0 /\ writer[w].plans = <<>>
      /\ file \in [Bodies -> {"absent", "partial", "whole"}]
    BY DEF IInv, TypeOK, WriterOK, WriteEvidence
<1>2. RowsOf(w) \in Bodies /\ RowsOf(w) \in Seq(Row \union {None})
    BY <1>1, ObservationAssumption DEF RowsOf, Bodies
<1>3. writer' \in [Writers -> Writer] /\ \A v \in Writers \ {w} : writer'[v] = writer[v]
    BY <1>1 DEF Writer, WriteEvidence
<1>4. TypeOK'
    BY <1>1, <1>2, <1>3 DEF WriteEvidence, IInv, TypeOK, tables, books
<1>5. WriterOK(w)'
    BY <1>1, <1>2, DataAssumption
       DEF WriteEvidence, WriterOK, Writer, Size, RowsOf, BatchOK, Progress
<1> QED BY <1>3, <1>4, <1>5, QuietKeepsIInv DEF WriteEvidence, books

\* Preparing only reads: the new plan is what the tables say now.
LEMMA PlanForOK ==
    ASSUME IInv, NEW row \in Row
    PROVE  LET plan == PlanFor(row)
           IN /\ plan \in Plan
              /\ plan.target \in Homes(row)
              /\ plan.prev = event[plan.target]
              /\ plan.prev = None => /\ plan.target = row.id
                                     /\ LegacyOf[row.id] # None => event[LegacyOf[row.id]] = None
              /\ plan.change # None /\ plan.prev # None /\ plan.prev.status \in Terminal =>
                    plan.change[2] \notin Pending
<1> DEFINE id   == Resolve(row.id)
           plan == PlanFor(row)
<1>1. row.id \in Ids /\ row.id # None
    BY IdAssumption DEF Row
<1>2. id \in Ids /\ id \in Homes(row)
    BY <1>1, IdAssumption DEF Resolve, Homes
<1>3. plan = [target |-> id, prev |-> event[id], change |-> StatusChange(id, row)]
    BY DEF PlanFor
<1>4. StatusChange(id, row) \in (Statuses \X Statuses) \union {None}
    <2>1. CASE event[id] = None \/ row.status = None
        BY <2>1 DEF StatusChange
    <2>2. CASE event[id] # None /\ row.status # None
        <3>1. row.status \in Statuses
            BY <2>2 DEF Row
        <3>2. EffectiveStatus(event[id].status, row.status) \in Statuses
            BY <3>1, DataAssumption DEF EffectiveStatus
        <3> QED BY <3>1, <3>2 DEF StatusChange
    <2> QED BY <2>1, <2>2
<1>5. event[id] \in Event \union {None}
    BY <1>2 DEF IInv, TypeOK
<1>6. event[id] = None => id = row.id /\ (LegacyOf[row.id] # None => event[LegacyOf[row.id]] = None)
    BY DEF Resolve
<1>7. StatusChange(id, row) # None /\ event[id].status \in Terminal =>
         StatusChange(id, row)[2] \notin Pending
    BY DataAssumption DEF StatusChange, EffectiveStatus
<1> QED BY <1>2, <1>3, <1>4, <1>5, <1>6, <1>7 DEF Plan

LEMMA PrepareRowKeepsIInv ==
    ASSUME IInv, NEW w \in Writers, PrepareRow(w)
    PROVE  IInv'
<1>0. PICK n : n = Size(w)
    OBVIOUS
<1> DEFINE row  == RowAt(w, n + 1)
           plan == IF row = None THEN None ELSE PlanFor(row)
<1>1. /\ writer \in [Writers -> Writer]
      /\ InBatch(w)
      /\ writer' = [writer EXCEPT ![w].plans = Append(@, plan)]
      /\ n < BatchSize /\ writer[w].off + n < Len(RowsOf(w))
    BY <1>0 DEF IInv, TypeOK, PrepareRow, TakesNext
<1>2. /\ writer[w].obs \in Observations
      /\ RowsOf(w) \in Seq(Row \union {None})
      /\ writer[w].off \in Nat
      /\ writer[w].plans \in Seq(Plan \union {None})
      /\ n \in Nat
    BY <1>0, <1>1, WriterFacts DEF InBatch
<1>3. row \in Row \union {None}
    BY <1>1, <1>2 DEF RowAt
<1>4. plan \in Plan \union {None}
    BY <1>3, PlanForOK
<1>5. /\ writer'[w] = [writer[w] EXCEPT !.plans = Append(writer[w].plans, plan)]
      /\ \A v \in Writers \ {w} : writer'[v] = writer[v]
    BY <1>1
<1>6. Append(writer[w].plans, plan) \in Seq(Plan \union {None})
    BY <1>2, <1>4
<1>7. writer' \in [Writers -> Writer]
    BY <1>1, <1>6 DEF Writer
<1>8. /\ writer'[w].plans = Append(writer[w].plans, plan)
      /\ writer'[w].pc = "batch"
      /\ writer'[w].obs = writer[w].obs
      /\ writer'[w].off = writer[w].off
      /\ writer'[w].skipped = writer[w].skipped
      /\ writer'[w].conflict = writer[w].conflict
    BY <1>1, <1>5 DEF Writer, InBatch
<1>9. TypeOK'
    BY <1>7 DEF PrepareRow, IInv, TypeOK, tables, books
<1>10. WriterOK(w)'
    <2>1. /\ Size(w)' = n + 1
          /\ \A i \in 1..n : PlanAt(w, i)' = PlanAt(w, i)
          /\ PlanAt(w, n + 1)' = plan
        BY <1>0, <1>2, <1>8 DEF Size, PlanAt
    <2>2. RowsOf(w)' = RowsOf(w) /\ \A i \in 1..(n + 1) : RowAt(w, i)' = RowAt(w, i)
        BY <1>8 DEF RowsOf, RowAt
    <2>3. WriterOK(w)
        BY DEF IInv
    <2>4. Progress(w)'
        BY <1>1, <1>8, QuietTables, ProgressStable DEF InBatch, PrepareRow
    <2>5. BatchOK(w)'
        <3> SUFFICES ASSUME NEW i \in 1..(n + 1), NEW j \in 1..(n + 1), i # j,
                            RowAt(w, i) # None, RowAt(w, j) # None
                     PROVE  RowAt(w, i).id # RowAt(w, j).id
            BY <2>1, <2>2 DEF BatchOK
        <3>1. CASE i \in 1..n /\ j \in 1..n
            BY <1>0, <1>1, <2>3, <3>1 DEF WriterOK, InBatch, BatchOK
        <3>2. CASE i = n + 1 \/ j = n + 1
            BY <1>0, <1>2, <3>2 DEF PrepareRow, TakesNext
        <3> QED BY <1>2, <3>1, <3>2
    <2>6. ASSUME NEW i \in 1..(n + 1)
          PROVE  PlanOK(w, i)'
        <3>1. CASE i \in 1..n
            <4>1. PlanOK(w, i)
                BY <1>0, <1>1, <2>3, <3>1 DEF WriterOK, InBatch
            <4> QED BY <2>1, <2>2, <3>1, <4>1 DEF PlanOK, Homes, PrepareRow, tables
        <3>2. CASE i = n + 1
            <4>1. PlanAt(w, i)' = plan /\ RowAt(w, i)' = row
                BY <2>1, <2>2, <3>2
            <4>2. row = None => plan = None
                OBVIOUS
            <4>3. row # None => plan = PlanFor(row) /\ row \in Row
                BY <1>3
            <4>4. row # None => plan # None
                BY <4>3, PlanForOK, IdAssumption
            <4> QED BY <4>1, <4>2, <4>3, <4>4, PlanForOK DEF PlanOK, Homes, PrepareRow, tables
        <3> QED BY <1>2, <3>1, <3>2
    <2> QED BY <1>1, <1>2, <1>8, <2>1, <2>2, <2>4, <2>5, <2>6, DataAssumption DEF WriterOK
<1> QED BY <1>5, <1>9, <1>10, QuietKeepsIInv DEF PrepareRow, books

LEMMA SkipBatchKeepsIInv ==
    ASSUME IInv, NEW w \in Writers, SkipBatch(w)
    PROVE  IInv'
<1>1. PICK k \in Nat : k = Size(w)
    BY WriterFacts DEF SkipBatch, Prepared, InBatch
<1>2. /\ InBatch(w) /\ Unchanged(w) /\ k <= Size(w)
      /\ writer' = [writer EXCEPT ![w] = Advanced(w, k)]
    BY <1>1 DEF SkipBatch, Prepared
<1>3. TablesGrow
    BY QuietTables DEF SkipBatch
<1>4. writer' \in [Writers -> Writer]
    BY <1>1, <1>2, AdvancedWriter
<1>5. TypeOK'
    BY <1>4 DEF SkipBatch, IInv, TypeOK, tables, books
<1>6. ASSUME NEW o \in Observations, NEW i \in Nat, NEW j \in 1..k,
             o = writer[w].obs, i = writer[w].off + j
      PROVE  /\ Handled(o, i)
             /\ \/ Clean(o, i)
                \/ Rows[o][i] = None /\ PlanAt(w, j) = None
    <2> DEFINE row  == Rows[o][i]
               plan == PlanAt(w, j)
    <2>1. row = RowAt(w, j) /\ PlanOK(w, j)
        BY <1>1, <1>2, <1>6 DEF RowAt, RowsOf, IInv, WriterOK, InBatch
    <2>2. CASE row = None
        BY <2>1, <2>2 DEF Handled, PlanOK
    <2>3. CASE row # None
        <3>1. j \in Kept(w, k) /\ plan # None
            BY <2>1, <2>3 DEF PlanOK, Kept
        <3>2. PICK id \in Ids : id = plan.target
            BY <1>1, <1>2, <3>1, KeptPlans
        <3>3. row \in Row /\ id \in Homes(row)
            BY <1>1, <1>2, <2>1, <3>1, <3>2, KeptPlans
        <3>4. SaysNothingNew(plan, row) /\ <<id, o, i>> \in evidence
            BY <1>1, <1>2, <1>6, <2>1, <3>1, <3>2 DEF Unchanged, EvidenceOf
        <3>5. event[id] # None /\ \A f \in Fields : plan.prev.facts[f] # None =>
                                      event[id].facts[f] = plan.prev.facts[f]
            BY <2>1, <2>3, <3>2, <3>4 DEF PlanOK, SaysNothingNew
        <3>6. LF!Answers(id, row)
            <4> SUFFICES ASSUME NEW f \in Fields, row.facts[f] # None
                         PROVE  /\ event[id].facts[f] # None
                                /\ f \notin Annotations => event[id].facts[f] = row.facts[f]
                BY <3>5, AnswersStored
            <4>1. plan.prev.facts[f] # None
                BY <3>4 DEF SaysNothingNew, Additions
            <4>2. f \notin Annotations => plan.prev.facts[f] = row.facts[f]
                BY <3>4, <4>1 DEF SaysNothingNew, Differences
            <4> QED BY <3>5, <4>1, <4>2
        <3> QED BY <2>3, <3>3, <3>4, <3>5, <3>6 DEF Handled, Clean
    <2> QED BY <2>2, <2>3
<1>7. \A v \in Writers : WriterOK(v)'
    <2>1. ASSUME NEW o \in Observations, NEW i \in Nat, NEW j \in 1..k,
                 o = writer[w].obs, i = writer[w].off + j
          PROVE  /\ Handled(o, i)'
                 /\ \/ Clean(o, i)'
                    \/ Rows[o][i] = None /\ PlanAt(w, j) = None
        <3>1. i \in 1..Len(Rows[o])
            BY <1>1, <1>2, <2>1, WriterFacts DEF InBatch, RowsOf
        <3> QED BY <1>3, <1>6, <2>1, <3>1, HandledStable, CleanStable
    <2>2. \A o \in Observations, i \in Nat, j \in 1..k :
              o = writer[w].obs /\ i = writer[w].off + j =>
                 /\ Handled(o, i)'
                 /\ \/ Clean(o, i)'
                    \/ Rows[o][i] = None /\ PlanAt(w, j) = None
                    \/ Rows[o][i] # None /\ j \in Kept(w, k)
                          /\ Contradicts(PlanAt(w, j), RowAt(w, j))
        BY <2>1
    <2> QED BY <1>2, <1>3, <2>2, AdvancedOK
<1>8. CoverageOK'
    BY <1>3, CoverageStable DEF SkipBatch, books
<1>9. NoEventTwice'
    BY DEF IInv, NoEventTwice, SkipBatch, tables
<1> QED BY <1>5, <1>7, <1>8, <1>9 DEF IInv

LEMMA ChangedBatchKeepsIInv ==
    ASSUME IInv, NEW w \in Writers, ChangedBatch(w)
    PROVE  IInv'
<1>1. /\ writer \in [Writers -> Writer]
      /\ writer[w].pc = "batch"
      /\ writer[w].obs \in Observations
      /\ RowsOf(w) \in Seq(Row \union {None})
      /\ writer[w].off \in Nat /\ writer[w].off <= Len(RowsOf(w))
    BY WriterFacts DEF IInv, TypeOK, ChangedBatch, Prepared, InBatch
<1> DEFINE again == [writer[w] EXCEPT !.plans = <<>>, !.retried = TRUE]
<1>2. writer' = [writer EXCEPT ![w] = again] \/ writer' = [writer EXCEPT ![w] = Idle]
    BY <1>1 DEF ChangedBatch
<1>3. again \in Writer
    <2>1. <<>> \in Seq(Plan \union {None})
        OBVIOUS
    <2> QED BY <1>1, <2>1 DEF Writer
<1>4. writer' \in [Writers -> Writer] /\ \A v \in Writers \ {w} : writer'[v] = writer[v]
    BY <1>1, <1>2, <1>3, IdleTyped
<1>5. TypeOK'
    BY <1>4 DEF ChangedBatch, IInv, TypeOK, tables, books
<1>6. WriterOK(w)'
    <2>1. CASE writer' = [writer EXCEPT ![w] = Idle]
        BY <1>1, <2>1, IdleOK
    <2>2. CASE writer' = [writer EXCEPT ![w] = again]
        <3>1. /\ writer'[w].pc = "batch"
              /\ writer'[w].obs = writer[w].obs
              /\ writer'[w].off = writer[w].off
              /\ writer'[w].plans = <<>>
              /\ writer'[w].skipped = writer[w].skipped
              /\ writer'[w].conflict = writer[w].conflict
            BY <1>1, <2>2 DEF Writer
        <3>2. Progress(w)'
            BY <1>1, <3>1, QuietTables, ProgressStable DEF ChangedBatch
        <3> QED BY <1>1, <3>1, <3>2, DataAssumption DEF WriterOK, Size, RowsOf, BatchOK
    <2> QED BY <1>2, <2>1, <2>2
<1> QED BY <1>4, <1>5, <1>6, QuietKeepsIInv DEF ChangedBatch, books

LEMMA RecordKeepsIInv ==
    ASSUME IInv, NEW w \in Writers, Record(w)
    PROVE  IInv'
<1>1. PICK o \in Observations : o = writer[w].obs
    BY DEF IInv, WriterOK, Record
<1>2. /\ writer \in [Writers -> Writer]
      /\ writer' = [writer EXCEPT ![w] = Idle]
      /\ coverage' = coverage \union {<<o, CoverageStatus(w)>>}
      /\ Len(Rows[o]) = writer[w].off
      /\ Progress(w)
    BY <1>1 DEF IInv, TypeOK, WriterOK, Record, RowsOf
<1>3. TablesGrow
    BY QuietTables DEF Record
<1>4. TypeOK'
    <2>1. writer' \in [Writers -> Writer]
        BY <1>2, IdleTyped
    <2>2. coverage' \subseteq Observations \X {"complete", "limited", "partial"}
        BY <1>2 DEF CoverageStatus, IInv, TypeOK
    <2>3. observed' \subseteq Observations
        BY <1>1 DEF Record, IInv, TypeOK
    <2> QED BY <2>1, <2>2, <2>3 DEF Record, IInv, TypeOK, tables
<1>5. \A v \in Writers : WriterOK(v)'
    <2>1. writer'[w] = Idle /\ \A v \in Writers \ {w} : writer'[v] = writer[v]
        BY <1>2
    <2> QED BY <1>3, <2>1, IdleOK, OtherWriter
<1>6. CoverageOK'
    <2> SUFFICES ASSUME NEW c \in coverage', NEW i \in 1..Len(Rows[c[1]])
                 PROVE  Handled(c[1], i)' /\ (c[2] # "partial" => Clean(c[1], i)')
        BY DEF CoverageOK
    <2>0. c[1] \in Observations
        BY <1>4 DEF TypeOK
    <2>1. CASE c \in coverage
        BY <1>3, <2>0, <2>1, HandledStable, CleanStable DEF IInv, CoverageOK
    <2>2. CASE c = <<o, CoverageStatus(w)>>
        <3>1. c[1] = o /\ c[2] = CoverageStatus(w)
            BY <2>2
        <3>2. /\ Handled(o, i)
              /\ \/ Clean(o, i)
                 \/ writer[w].skipped
                 \/ writer[w].conflict
            BY <1>1, <1>2, <3>1 DEF Progress
        <3>3. CoverageStatus(w) # "partial" => Clean(o, i)
            BY <3>2 DEF CoverageStatus
        <3> QED BY <1>3, <2>0, <3>1, <3>2, <3>3, HandledStable, CleanStable
    <2> QED BY <1>2, <2>1, <2>2
<1>7. NoEventTwice'
    BY DEF IInv, NoEventTwice, Record, tables
<1> QED BY <1>4, <1>5, <1>6, <1>7 DEF IInv

LEMMA FailKeepsIInv ==
    ASSUME IInv, NEW w \in Writers, Fail(w)
    PROVE  IInv'
<1>1. writer \in [Writers -> Writer] /\ writer' = [writer EXCEPT ![w] = Idle]
    BY DEF IInv, TypeOK, Fail
<1>2. writer'[w] = Idle /\ \A v \in Writers \ {w} : writer'[v] = writer[v]
    BY <1>1
<1>3. TypeOK'
    BY <1>1, IdleTyped DEF Fail, IInv, TypeOK, tables, books
<1> QED BY <1>2, <1>3, IdleOK, QuietKeepsIInv DEF Fail, books

-----------------------------------------------------------------------------
(* The theorems *)

LEMMA InitIInv == Init => IInv
<1> SUFFICES ASSUME Init
             PROVE  IInv
    OBVIOUS
<1>1. TypeOK
    BY BeforeAssumption, IdleTyped DEF Init, TypeOK
<1>2. \A w \in Writers : WriterOK(w)
    BY DEF Init, WriterOK, Idle, At
<1>3. CoverageOK
    BY DEF Init, CoverageOK
<1>4. NoEventTwice
    BY BeforeAssumption DEF Init, NoEventTwice
<1> QED BY <1>1, <1>2, <1>3, <1>4 DEF IInv

LEMMA StutterKeepsIInv ==
    ASSUME IInv, UNCHANGED vars
    PROVE  IInv'
<1>1. TablesGrow
    BY QuietTables DEF vars, tables
<1>2. TypeOK' /\ NoEventTwice'
    BY DEF IInv, TypeOK, NoEventTwice, vars
<1>3. \A w \in Writers : WriterOK(w)'
    BY <1>1, OtherWriter DEF vars
<1>4. CoverageOK'
    BY <1>1, CoverageStable DEF vars
<1> QED BY <1>2, <1>3, <1>4 DEF IInv

LEMMA NextKeepsIInv == IInv /\ [Next]_vars => IInv'
<1> SUFFICES ASSUME IInv, [Next]_vars
             PROVE  IInv'
    OBVIOUS
<1>1. CASE UNCHANGED vars
    BY <1>1, StutterKeepsIInv
<1>2. ASSUME NEW w \in Writers, NEW o \in Observations, Begin(w, o)
      PROVE  IInv'
    BY <1>2, BeginKeepsIInv
<1>3. ASSUME NEW w \in Writers, Step(w)
      PROVE  IInv'
    BY <1>3, OpenEvidenceKeepsIInv, WriteEvidenceKeepsIInv, PrepareRowKeepsIInv,
       SkipBatchKeepsIInv, CommitKeepsIInv, ChangedBatchKeepsIInv, RecordKeepsIInv DEF Step
<1>4. ASSUME NEW w \in Writers, Fail(w)
      PROVE  IInv'
    BY <1>4, FailKeepsIInv
<1> QED BY <1>1, <1>2, <1>3, <1>4 DEF Next

\* The inductive invariant holds throughout.
THEOREM LedgerInvariant == Spec => []IInv
BY InitIInv, NextKeepsIInv, PTL DEF Spec

\* Type correctness: in particular a writer's plans are always well formed and its
\* status is always one the ledger_coverage table accepts.
THEOREM LedgerTypes == Spec => []TypeOK
<1>1. IInv => TypeOK
    BY DEF IInv
<1> QED BY <1>1, LedgerInvariant, PTL

\* Every supported row of recorded coverage is stored with its provenance, as a
\* fact or as a conflict (append_many, preserve_observation).
THEOREM LedgerRowsAccountedFor == Spec => []RowsAccountedFor
<1>1. IInv => RowsAccountedFor
    BY DEF IInv, CoverageOK, RowsAccountedFor, Handled, Homes
<1> QED BY <1>1, LedgerInvariant, PTL

\* Claimed coverage can be read back from the facts (preserve_observation).
THEOREM LedgerClaimsAreReadable == Spec => []ClaimsAreReadable
<1>1. IInv => ClaimsAreReadable
    <2> SUFFICES ASSUME IInv, NEW o \in Claimed
                 PROVE  LF!Matches(o)
        BY DEF ClaimsAreReadable
    <2>1. \A i \in 1..Len(Rows[o]) : Clean(o, i)
        BY DEF Claimed, IInv, CoverageOK
    <2> QED BY <2>1 DEF LF!Matches, Clean, Homes
<1> QED BY <1>1, LedgerInvariant, PTL

\* No event is stored under two identities (prepare's alias and legacy lookup).
THEOREM LedgerNoEventTwice == Spec => []NoEventTwice
<1>1. IInv => NoEventTwice
    BY DEF IInv
<1> QED BY <1>1, LedgerInvariant, PTL

\* A settled flow is never taken back to pending (effective_status; append_many
\* commits a status only over the event it was computed from).
THEOREM LedgerSettledStaysSettled == Spec => SettledStaysSettled
<1> DEFINE Stays == \A id \in Ids : event[id] # None /\ event[id].status \in Terminal
                       => event'[id].status \notin Pending
<1>1. IInv /\ [Next]_vars => [Stays]_vars
    <2> SUFFICES ASSUME IInv, Next
                 PROVE  Stays
        OBVIOUS
    <2>1. ASSUME NEW w \in Writers, NEW k \in 1..BatchSize, CommitBatch(w, k)
          PROVE  Stays
        <3> SUFFICES ASSUME NEW id \in Ids, event[id] # None, event[id].status \in Terminal
                     PROVE  event'[id].status \notin Pending
            OBVIOUS
        <3>1. CASE \A i \in Kept(w, k) : PlanAt(w, i).target # id
            BY <2>1, <3>1, CommittedEvents, DataAssumption
        <3>2. ASSUME NEW i \in Kept(w, k), PlanAt(w, i).target = id
              PROVE  event'[id].status \notin Pending
            <4> DEFINE plan == PlanAt(w, i)
                       row  == RowAt(w, i)
            <4>1. InBatch(w) /\ i \in 1..Size(w) /\ i \in Kept(w, Size(w))
                BY <2>1, WriterFacts, DataAssumption DEF CommitBatch, Prepared, Kept, InBatch
            <4>2. plan.prev = event[id]
                BY <2>1, <3>2 DEF CommitBatch, PlanStands
            <4>3. plan.change # None => plan.change[2] \notin Pending
                BY <4>1, <4>2, KeptPlans DEF IInv, WriterOK, InBatch, PlanOK
            <4>4. event'[id] = Appended(plan, row)
                BY <2>1, <3>2, CommittedEvents
            <4>5. Appended(plan, row).status \notin Pending
                BY <3>2, <4>2, <4>3, DataAssumption DEF Appended
            <4> QED BY <4>4, <4>5
        <3> QED BY <3>1, <3>2
    <2>2. ASSUME UNCHANGED event
          PROVE  Stays
        BY <2>2, DataAssumption
    <2> QED BY <2>1, <2>2 DEF Next, Step, Begin, OpenEvidence, WriteEvidence, PrepareRow,
                SkipBatch, ChangedBatch, Record, Fail, tables
<1> QED BY <1>1, LedgerInvariant, PTL DEF Spec, SettledStaysSettled

\* Whatever grows the tables teaches the abstract ledger something, or nothing.
LEMMA GrowthIsLearning ==
    ASSUME IInv, TablesGrow, coverage' = coverage
    PROVE  LF!Learn
<1>1. Claimed' = Claimed
    BY DEF Claimed
<1>2. LF!Extends(FactOf', FactOf)
    <2> SUFFICES ASSUME NEW id \in Ids, NEW f \in Fields, FactOf[id][f] # None
                 PROVE  FactOf'[id][f] = FactOf[id][f]
        BY DEF LF!Extends
    <2>1. event[id] # None /\ event[id].facts[f] = FactOf[id][f]
        BY DEF FactOf
    <2>2. event'[id] # None /\ event'[id].facts[f] = event[id].facts[f]
        BY <2>1 DEF TablesGrow, EventsGrow
    <2>3. FactOf'[id] = event'[id].facts
        BY <2>2 DEF FactOf
    <2> QED BY <2>1, <2>2, <2>3
<1> QED BY <1>1, <1>2 DEF LF!Learn

\* The ledger implements its abstract promise: facts only grow, and coverage is
\* claimed only for observations whose rows the facts answer (all of Ledger.tla).
THEOREM LedgerImplementsFacts == Spec => ImplementsFacts
<1>1. Init => LF!Init
    BY DEF Init, LF!Init, Claimed
<1>2. IInv /\ IInv' /\ [Next]_vars => [LF!Next]_(LF!vars)
    <2> SUFFICES ASSUME IInv, IInv', [Next]_vars
                 PROVE  [LF!Next]_(LF!vars)
        OBVIOUS
    <2>1. CASE TablesGrow /\ coverage' = coverage
        BY <2>1, GrowthIsLearning DEF LF!Next
    <2>2. ASSUME NEW w \in Writers, Record(w)
          PROVE  [LF!Next]_(LF!vars)
        <3>1. PICK o \in Observations : o = writer[w].obs
            BY <2>2 DEF IInv, WriterOK, Record
        <3>2. coverage' = coverage \union {<<o, CoverageStatus(w)>>}
            BY <2>2, <3>1 DEF Record
        <3>3. FactOf' = FactOf
            BY <2>2 DEF Record, tables, FactOf
        <3>4. CASE CoverageStatus(w) = "partial"
            <4>1. Claimed' = Claimed
                BY <3>2, <3>4 DEF Claimed
            <4> QED BY <3>3, <4>1 DEF LF!vars
        <3>5. CASE CoverageStatus(w) # "partial"
            <4>1. CoverageStatus(w) \in {"complete", "limited"}
                BY <3>5 DEF CoverageStatus
            <4>2. Claimed' = Claimed \union {o}
                BY <3>2, <4>1 DEF Claimed
            <4>3. \A i \in 1..Len(Rows[o]) : Clean(o, i)
                BY <2>2, <3>1, <3>5 DEF IInv, WriterOK, Record, RowsOf, Progress, CoverageStatus
            <4>4. LF!Matches(o)
                BY <4>3 DEF LF!Matches, Clean, Homes
            <4> QED BY <3>3, <4>2, <4>4 DEF LF!Next, LF!Claim
        <3> QED BY <3>4, <3>5
    <2>3. ASSUME NEW w \in Writers, NEW k \in 1..BatchSize, CommitBatch(w, k)
          PROVE  TablesGrow /\ coverage' = coverage
        BY <2>3, CommitGrows DEF CommitBatch, books
    <2>4. UNCHANGED <<tables, coverage>> => TablesGrow /\ coverage' = coverage
        BY QuietTables
    <2> QED BY <2>1, <2>2, <2>3, <2>4 DEF Next, Step, Begin, OpenEvidence, WriteEvidence,
                PrepareRow, SkipBatch, ChangedBatch, Fail, books, vars, tables
<1> QED BY <1>1, <1>2, LedgerInvariant, PTL DEF Spec, ImplementsFacts, LF!Spec
=============================================================================
