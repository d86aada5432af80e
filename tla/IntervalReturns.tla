---------------------------- MODULE IntervalReturns ----------------------------
(***************************************************************************)
(* Which return of a period interval_returns.py publishes, from stored NAV *)
(* snapshots and the flow records a provider inferred between them.        *)
(*                                                                         *)
(* Snapshots are captured, and the current day recaptured, while a         *)
(* provider reads them on its own: its records may name versions that were *)
(* replaced since.  The report's operators are the functions of the module *)
(* (one scope's intervals, their consolidation, the period, its effective  *)
(* part, the coverage by day, the tracked run); amounts are left out, a    *)
(* scope has one account and currency, and an interval's Dietz capital is  *)
(* positive unless its first snapshot is worth nothing.                    *)
(***************************************************************************)
EXTENDS Integers, FiniteSets, FiniteSetsExt

CONSTANTS
    Scopes,         \* the scopes a consolidated report includes
    KisScopes,      \* those that start at the first KIS capture
    Composite,      \* the consolidated view of Scopes
    LastDay,        \* the period is the days 0..LastDay
    Navs,           \* what a snapshot may hold: each scope's NAV
    MaxRecaptures   \* bound on the snapshots replaced during their day

ASSUME IntervalAssumption ==
    /\ Scopes # {} /\ KisScopes \subseteq Scopes /\ Composite \notin Scopes
    /\ LastDay \in Nat \ {0} /\ MaxRecaptures \in Nat
    /\ Navs \subseteq [Scopes -> {"worth", "zero", "incomplete", "uncaptured"}]
    /\ \A nav \in Navs : \A s \in Scopes : nav[s] = "uncaptured" => s \in KisScopes

VARIABLES
    today,          \* the day being captured
    stored,         \* per day its snapshot: version (0: none) and each scope's NAV
    flows           \* per scope the records the provider last returned

returnVars == <<today, stored, flows>>

Days == 0..LastDay
Grades == {"resolved", "unresolved", "absent"}

(* The instant of a snapshot: recaptures move it within its day. *)
At(day, version) == day * (MaxRecaptures + 2) + version
Stamp(day) == At(day, stored[day].version)

Stored == {d \in Days : stored[d].version > 0}

Recaptures == MapThenSumSet(LAMBDA d : stored[d].version - 1, Stored)

(* Consecutive members of a set of days. *)
Steps(days) == {p \in days \X days : p[1] < p[2] /\ \A d \in days : ~(p[1] < d /\ d < p[2])}

Usable(s) == {d \in Stored : stored[d].nav[s] \in {"worth", "zero"}}

(***************************************************************************)
(* Snapshots and flow records.                                             *)
(***************************************************************************)
ReturnsInit ==
    /\ today = 0
    /\ stored = [d \in Days |-> [version |-> 0, nav |-> [s \in Scopes |-> "incomplete"]]]
    /\ flows = [s \in Scopes |-> {}]

Capture(nav) ==
    /\ stored[today].version > 0 => Recaptures < MaxRecaptures /\ stored[today].version <= MaxRecaptures
    /\ stored' = [stored EXCEPT ![today] = [version |-> @.version + 1, nav |-> nav]]
    /\ UNCHANGED <<today, flows>>

NextDay ==
    /\ today < LastDay
    /\ today' = today + 1
    /\ UNCHANGED <<stored, flows>>

Record(pair, grade) ==
    [start |-> pair[1], startVersion |-> stored[pair[1]].version,
     end |-> pair[2], endVersion |-> stored[pair[2]].version, grade |-> grade]

(* A provider's answer over all snapshots, or over the scope's usable ones: *)
(* a record for each step, at most one of which it could not resolve or     *)
(* could not say anything about.                                            *)
Infer(s, used, poor, grade) ==
    /\ flows' = [flows EXCEPT ![s] = {Record(p, "resolved") : p \in Steps(used) \ {poor}}
                    \cup IF grade = "absent" THEN {} ELSE {Record(poor, grade)}]
    /\ UNCHANGED <<today, stored>>

ReturnsNext ==
    \/ \E nav \in Navs : Capture(nav)
    \/ NextDay
    \/ \E s \in Scopes, grade \in Grades : \E used \in {Stored, Usable(s)} : \E poor \in Steps(used) :
          Infer(s, used, poor, grade)

ReturnsSpec == ReturnsInit /\ [][ReturnsNext]_returnVars

(***************************************************************************)
(* One scope's intervals (_bind, _scope_intervals).                        *)
(***************************************************************************)
From(r) == At(r.start, r.startVersion)
To(r) == At(r.end, r.endVersion)

(* The record's endpoints are snapshots of the report, at their versions. *)
Bound(r) == stored[r.start].version = r.startVersion /\ stored[r.end].version = r.endVersion

Overlapping(s, row) == {r \in flows[s] : To(r) > Stamp(row[1]) /\ From(r) < Stamp(row[2])}

(* The records follow one another from the first instant of the interval to *)
(* its last, without a gap or an overlap.  Variant: a gap is let pass.       *)
InTurn(records) == \A q, r \in records : q = r \/ To(q) <= From(r) \/ To(r) <= From(q)
TileInOrder(records, row) == records # {} /\ InTurn(records)
Tile(records, row) ==
    /\ records # {} /\ InTurn(records)
    /\ \A r \in records :
           /\ From(r) = Stamp(row[1]) \/ \E q \in records : To(q) = From(r)
           /\ To(r) = Stamp(row[2]) \/ \E q \in records : From(q) = To(r)

(* The interval's NAV levels and flows resolved. *)
Leveled(s, row) ==
    LET records == Overlapping(s, row)
    IN  /\ \A r \in records : Bound(r) /\ r.start >= row[1] /\ r.end <= row[2] /\ r.grade = "resolved"
        /\ Tile(records, row)

Funded(s, day) == stored[day].nav[s] = "worth"

(***************************************************************************)
(* Consolidation: rows between consecutive boundary dates of any scope.    *)
(***************************************************************************)
Grid == UNION {{p[1], p[2]} : p \in UNION {Steps(Usable(s)) : s \in Scopes}}

Views == Scopes \cup {Composite}

Points(v) == IF v = Composite THEN {d \in Stored : \A s \in Scopes : d \in Usable(s)} ELSE Usable(v)
Rows(v) == IF v = Composite THEN Steps(Grid) ELSE Steps(Usable(v))

Returned(v, row) ==
    IF v = Composite
    THEN /\ \A s \in Scopes : row \in Steps(Usable(s)) /\ Leveled(s, row)
         /\ \E s \in Scopes : Funded(s, row[1])
    ELSE Leveled(v, row) /\ Funded(v, row[1])

(***************************************************************************)
(* What is published.                                                      *)
(***************************************************************************)
(* The period's linked return is published (_period, over points and rows). *)
(* Variant: its ends need no value.                                         *)
LinkedBetween(v, points, rows, all, start, end) == Cardinality(points) >= 2 /\ \A row \in rows : Returned(v, row)
Linked(v, points, rows, all, start, end) ==
    /\ all # {} /\ Min(all) = start /\ Max(all) = end /\ {start, end} \subseteq points
    /\ Cardinality(points) >= 2
    /\ \A row \in rows : Returned(v, row)

Published(v) == Linked(v, Points(v), Rows(v), Stored, 0, LastDay)

EffectiveFrom(v) == Min(Points(v))
EffectiveTo(v) == Max(Points(v))

EffectivePublished(v) ==
    /\ Cardinality(Points(v)) >= 2
    /\ LET lo == EffectiveFrom(v)
           hi == EffectiveTo(v)
       IN  Linked(v, Points(v), {row \in Rows(v) : lo <= row[1] /\ row[2] <= hi},
                  {d \in Stored : lo <= d /\ d <= hi}, lo, hi)

(* The first day with a KIS capture, when an earlier snapshot lacks it. *)
CaptureFrom(v) ==
    IF v \in KisScopes /\ \E d \in Stored : stored[d].nav[v] = "uncaptured"
    THEN Min({d \in Stored : stored[d].nav[v] # "uncaptured"} \cup {LastDay})
    ELSE 0

(* From where the span before the first interval counts.  Variant: from the *)
(* period's first day, the days before the first capture included.          *)
SpanFromZero(v) == 0
SpanFrom(v) == CaptureFrom(v)

(* The unresolved spans of _day_coverage, each over the days (from, to]. *)
UnresolvedSpans(v) ==
    LET captured == CaptureFrom(v)
        starts == {row[1] : row \in Rows(v)}
        spans == {<<0, IF starts = {} THEN captured ELSE Min({captured, Min(starts)}), "no KIS capture">>}
            \cup (IF Rows(v) = {} THEN {<<captured, LastDay, "too few snapshots">>}
                  ELSE {<<SpanFrom(v), Min(starts), "no start">>, <<Max({row[2] : row \in Rows(v)}), LastDay, "no end">>}
                       \cup {<<row[1], row[2], "unresolved">> : row \in {r \in Rows(v) : ~Returned(v, r)}})
    IN  {span \in spans : span[1] < span[2]}

(* The unbroken run of resolved intervals that ends at the latest one. *)
TrackedRows(v) ==
    LET resolved == {row \in Rows(v) : Returned(v, row)}
        latest == Max({row[2] : row \in resolved})
    IN  {row \in resolved :
            \A later \in Rows(v) : row[1] <= later[1] /\ later[2] <= latest => later \in resolved}

HasTracked(v) == \E row \in Rows(v) : Returned(v, row)
TrackedFrom(v) == Min({row[1] : row \in TrackedRows(v)})
TrackedTo(v) == Max({row[2] : row \in TrackedRows(v)})

(***************************************************************************)
(* Properties.                                                             *)
(***************************************************************************)
CoveredBy(row, day) == row[1] < day /\ day <= row[2]

UnresolvedWithin(v, from, to) ==
    LET spans == UnresolvedSpans(v)
    IN  \E day \in from+1..to : \E span \in spans : CoveredBy(span, day)

(* The coverage accounts for every day of the period once: a day lies in    *)
(* one resolved interval or in one unresolved span, never in both or none,  *)
(* in every scope and in the consolidated view.                             *)
EachDayOnce ==
    \A v \in Views :
        LET spans == UnresolvedSpans(v)
            resolved == {row \in Rows(v) : Returned(v, row)}
        IN  \A day \in 1..LastDay :
                Cardinality({row \in resolved : CoveredBy(row, day)})
                    + Cardinality({span \in spans : CoveredBy(span, day)}) = 1

(* "A return over only the resolved days is never given": a published       *)
(* period return leaves no day unresolved, nor do the effective period's    *)
(* and the tracked window's within their own dates; and the tracked window  *)
(* is all of the effective period whenever that one has a return.           *)
NeverOverResolvedDaysOnly ==
    \A v \in Views :
        /\ Published(v) => UnresolvedSpans(v) = {}
        /\ EffectivePublished(v) =>
              /\ ~UnresolvedWithin(v, EffectiveFrom(v), EffectiveTo(v))
              /\ HasTracked(v) => TrackedFrom(v) = EffectiveFrom(v) /\ TrackedTo(v) = EffectiveTo(v)
        /\ HasTracked(v) => ~UnresolvedWithin(v, TrackedFrom(v), TrackedTo(v))

(* An effective return counts every flow of every scope it includes once:   *)
(* each instant of its dates lies in one record of one interval, and those  *)
(* records were inferred between the very snapshots the report values.      *)
FlowsCountedOnce ==
    \A v \in Views : \A s \in Scopes :
        EffectivePublished(v) /\ v \in {s, Composite} =>
            \A t \in Stamp(EffectiveFrom(v))+1..Stamp(EffectiveTo(v)) :
                Cardinality({x \in Rows(v) \X flows[s] :
                    x[2] \in Overlapping(s, x[1]) /\ Bound(x[2]) /\ From(x[2]) < t /\ t <= To(x[2])}) = 1

(* A return that is published stands on every day and flow of its period,   *)
(* each counted once.                                                       *)
ReturnsStand == EachDayOnce /\ NeverOverResolvedDaysOnly /\ FlowsCountedOnce

================================================================================
