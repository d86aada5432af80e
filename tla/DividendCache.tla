----------------------------- MODULE DividendCache -----------------------------
(***************************************************************************)
(* The cached dividend schedule of one instrument, refreshed at most once  *)
(* a market day by several processes (toss_dividend_cache.py).             *)
(*                                                                         *)
(* A refresher holds the flock from its reading of the clock to its        *)
(* commit; the clock may be set back, a read of the file may fail, and a   *)
(* process may die at any step.  A schedule is its observation time.       *)
(***************************************************************************)
EXTENDS Integers, FiniteSets

CONSTANTS
    Refreshers,     \* processes
    DayLength,      \* of a market day
    MaxClock,       \* bounds: the clock's last value,
    MaxSetBack,     \* the times it is set back,
    MaxFaults       \* the reads that fail

ASSUME DividendAssumption ==
    DayLength \in Nat \ {0} /\ {MaxClock, MaxSetBack, MaxFaults} \subseteq Nat

VARIABLES
    clock, setBack, faults,
    file,           \* the record: its last attempt and its good evidence
    locked,         \* the refreshers with the flock (one, or none)
    refresh         \* each refresher: its step, its observation time, the record it read and its own

dividendVars == <<clock, setBack, faults, file, locked, refresh>>

NoTime == -1
NoRecord == [attempt |-> NoTime, good |-> NoTime]
Asleep == [step |-> "idle", now |-> 0, previous |-> NoRecord, record |-> NoRecord]
MarketDay(time) == time \div DayLength

DividendInit ==
    /\ clock = 0 /\ setBack = 0 /\ faults = 0
    /\ file = NoRecord /\ locked = {}
    /\ refresh = [p \in Refreshers |-> Asleep]

ClockGoesOn ==
    /\ clock < MaxClock /\ clock' = clock + 1
    /\ UNCHANGED <<setBack, faults, file, locked, refresh>>

ClockIsSet ==
    /\ setBack < MaxSetBack /\ setBack' = setBack + 1
    /\ clock' \in 0..clock - 1
    /\ UNCHANGED <<faults, file, locked, refresh>>

(* load: a reader rejects a record of the future, which a writer retains; *)
(* an unreadable one is none.                                             *)
Loaded(now, preserveNewer, fails) ==
    IF fails \/ (file.attempt > now /\ ~preserveNewer) THEN NoRecord ELSE file
Fault(fails) == IF fails THEN faults < MaxFaults /\ faults' = faults + 1 ELSE UNCHANGED faults

AttemptedToday(record, now) == record.attempt # NoTime /\ MarketDay(record.attempt) >= MarketDay(now)

GoesOnTo(p, step, now, previous, record) ==
    refresh' = [refresh EXCEPT ![p] = [step |-> step, now |-> now, previous |-> previous, record |-> record]]

(* The flock, the clock under it, and what is on disk. *)
Lock(p, fails) ==
    /\ refresh[p].step = "idle" /\ locked = {}
    /\ Fault(fails)
    /\ LET previous == Loaded(clock, TRUE, fails)
       IN  IF AttemptedToday(previous, clock) THEN UNCHANGED <<locked, refresh>>
           ELSE /\ locked' = {p}
                /\ GoesOnTo(p, "fetching", clock, previous, NoRecord)
    /\ UNCHANGED <<clock, setBack, file>>

(* The lock file cannot be opened: a read-only cache, nothing is stored. *)
LookOnly(p, fails) ==
    /\ refresh[p].step = "idle"
    /\ Fault(fails)
    /\ GoesOnTo(p, "looking", clock, Loaded(clock, FALSE, fails), NoRecord)
    /\ UNCHANGED <<clock, setBack, file, locked>>

(* _attempt: what was fetched, or on failure the good evidence of before. *)
Attempted(p, valid) ==
    [attempt |-> refresh[p].now, good |-> IF valid THEN refresh[p].now ELSE refresh[p].previous.good]

Fetched(p, valid) ==
    /\ refresh[p].step = "fetching"
    /\ GoesOnTo(p, "merging", refresh[p].now, refresh[p].previous, Attempted(p, valid))
    /\ UNCHANGED <<clock, setBack, faults, file, locked>>

Looked(p) ==
    /\ refresh[p].step = "looking"
    /\ refresh' = [refresh EXCEPT ![p] = Asleep]
    /\ UNCHANGED <<clock, setBack, faults, file, locked>>

Returns(p) == refresh' = [refresh EXCEPT ![p] = Asleep] /\ locked' = {}

(* The record to be stored: newer good evidence on disk stays.  Variant: *)
(* the attempt's own.                                                    *)
OwnRecord(record, latest) == record
Merged(record, latest) ==
    IF latest.good > record.good THEN [record EXCEPT !.good = latest.good] ELSE record

Merge(p, fails) ==
    /\ refresh[p].step = "merging"
    /\ Fault(fails)
    /\ LET latest == Loaded(clock, TRUE, fails)
           mine == refresh[p].record
       IN  IF latest.attempt # NoTime /\ latest.attempt >= mine.attempt
           THEN Returns(p)
           ELSE /\ GoesOnTo(p, "saving", refresh[p].now, refresh[p].previous, Merged(mine, latest))
                /\ UNCHANGED locked
    /\ UNCHANGED <<clock, setBack, file>>

(* _save replaces the file, or fails and leaves it. *)
Save(p, fails) ==
    /\ refresh[p].step = "saving"
    /\ file' = IF fails THEN file ELSE refresh[p].record
    /\ Returns(p)
    /\ UNCHANGED <<clock, setBack, faults>>

(* The kernel drops the lock of a process that dies. *)
Die(p) ==
    /\ refresh[p].step # "idle"
    /\ refresh' = [refresh EXCEPT ![p] = Asleep]
    /\ locked' = locked \ {p}
    /\ UNCHANGED <<clock, setBack, faults, file>>

DividendNext ==
    \/ ClockGoesOn \/ ClockIsSet
    \/ \E p \in Refreshers :
          \/ Looked(p) \/ Die(p)
          \/ \E fails \in BOOLEAN : Lock(p, fails) \/ LookOnly(p, fails) \/ Merge(p, fails) \/ Save(p, fails)
          \/ \E valid \in BOOLEAN : Fetched(p, valid)

DividendSpec == DividendInit /\ [][DividendNext]_dividendVars

(***************************************************************************)
(* Properties.                                                             *)
(***************************************************************************)
(* "The final merge also prevents any older work or failure from replacing  *)
(* newer good evidence, including across wall-clock rollback": with one     *)
(* read of the file that fails, deaths and failed writes besides.           *)
NewestKept == [][file'.good >= file.good /\ file'.attempt >= file.attempt]_dividendVars

================================================================================
