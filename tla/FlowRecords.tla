------------------------------ MODULE FlowRecords ------------------------------
(***************************************************************************)
(* Transfers into and out of the futures wallet of a Binance account, as   *)
(* the ledger is told of them twice: by the daily collection, which reads  *)
(* each stream's history and notes what the read was worth, and by files   *)
(* that the owner exports (owner_flows.py).  A reader (ledger_returns.py)  *)
(* counts each once, or says why it cannot tell.                           *)
(*                                                                         *)
(* The venue may tell of a transfer before it is settled, and later at     *)
(* another instant than before, which the ledger keeps as a conflict.      *)
(* Collections fail and die between their commits; files are imported in   *)
(* any order.  That both legs of a transfer are paired once the matcher    *)
(* has run is TransferMatching's business.                                 *)
(***************************************************************************)
EXTENDS Integers, FiniteSets, FiniteSetsExt

CONSTANTS
    Moves,          \* what the account does
    KindOf,         \* "in" or "out" of the futures wallet, or a "deposit" beside it
    HappensAt,      \* instants
    WholeSecond,    \* those whose instant is a whole second, as a file writes it
    DaySpan,        \* instants of a day
    LastDay,
    MaxFetches, MaxConflicting

FlowDays == 0..LastDay

ASSUME FlowRecordsAssumption ==
    /\ KindOf \in [Moves -> {"in", "out", "deposit"}] /\ HappensAt \in [Moves -> Nat]
    /\ WholeSecond \subseteq Moves /\ DaySpan \in Nat \ {0} /\ {LastDay, MaxFetches, MaxConflicting} \subseteq Nat

VARIABLES
    clock,
    when,           \* when each move happens; settled when a conflict tells two instants
    told, settled,  \* moves the venue told of, and told as completed
    doubts,         \* other instants told of a move
    filed,          \* moves kept from files
    paired,         \* rows whose legs are paired: <<"told" or "filed", move>>
    windows,        \* coverage rows of the collection: a stream, from, to, whether whole
    files,          \* days of each imported file: from, to
    declared,       \* the owner's word that nothing happened before a day, or none
    fetch           \* a history being stored, or none, and how many were read

flowVars == <<clock, when, told, settled, doubts, filed, paired, windows, files, declared, fetch>>

DayOfInstant(t) == t \div DaySpan
NotDeclared == [floor |-> 0, before |-> 0]
NoFetch == [stream |-> "none", from |-> 0, to |-> 0, whole |-> FALSE]

FlowInit ==
    /\ clock = 0 /\ when = HappensAt
    /\ told = {} /\ settled = {} /\ filed = {} /\ paired = {}
    /\ doubts = [m \in Moves |-> {}]
    /\ windows = {} /\ files = {} /\ declared = NotDeclared
    /\ fetch = [now |-> NoFetch, count |-> 0]

FlowTick ==
    /\ clock < (LastDay + 1) * DaySpan
    /\ clock' = clock + 1
    /\ UNCHANGED <<when, told, settled, doubts, filed, paired, windows, files, declared, fetch>>

(* The rows of a history are kept, also of one that failed half way, and the *)
(* window is noted in a transaction of its own.  Variant: a window cut short *)
(* is noted as whole.                                                        *)
Known == {m \in Moves : when[m] < clock}
InStream(stream, from, to) == {m \in Known : KindOf[m] = stream /\ from <= when[m] /\ when[m] <= to}

WholeAnyway(missed) == TRUE
ReadWhole(missed) == missed = {}

Fetch(stream, from, to) ==
    LET all == InStream(stream, from, to) \ {m \in told : doubts[m] # {}}
    IN  /\ fetch.now = NoFetch /\ fetch.count < MaxFetches
        /\ from <= to /\ to < clock
        /\ \E got \in SUBSET all, done \in SUBSET all :
               /\ done \subseteq got
               /\ told' = told \cup got /\ settled' = settled \cup done
               /\ fetch' = [now |-> [stream |-> stream, from |-> from, to |-> to, whole |-> ReadWhole(all \ got)],
                            count |-> fetch.count + 1]
        /\ UNCHANGED <<clock, when, doubts, filed, paired, windows, files, declared>>

NoteWindow ==
    /\ fetch.now # NoFetch
    /\ windows' = windows \cup {fetch.now}
    /\ fetch' = [fetch EXCEPT !.now = NoFetch]
    /\ UNCHANGED <<clock, when, told, settled, doubts, filed, paired, files, declared>>

FetchDies ==
    /\ fetch.now # NoFetch
    /\ fetch' = [fetch EXCEPT !.now = NoFetch]
    /\ UNCHANGED <<clock, when, told, settled, doubts, filed, paired, windows, files, declared>>

(* The venue tells another instant of a move: either may be the true one.    *)
Contradicted(m, t) ==
    /\ m \in told \ filed /\ doubts[m] = {} /\ t # HappensAt[m] /\ t < clock
    /\ Cardinality({n \in Moves : doubts[n] # {}}) < MaxConflicting
    /\ doubts' = [doubts EXCEPT ![m] = {t}]
    /\ when' \in {when, [when EXCEPT ![m] = t]}
    /\ UNCHANGED <<clock, told, settled, filed, paired, windows, files, declared, fetch>>

Rows == ({"told"} \X told) \cup ({"filed"} \X filed)
Matchable == {row \in Rows : row[1] = "filed" \/ (row[2] \in settled /\ doubts[row[2]] = {})}

Pair ==
    /\ fetch.now = NoFetch /\ ~(Matchable \subseteq paired)
    /\ paired' = paired \cup Matchable
    /\ UNCHANGED <<clock, when, told, settled, doubts, filed, windows, files, declared, fetch>>

(* A window read without a failure has every move of its stream.            *)
Superseded(m) == \E w \in windows : w.whole /\ w.stream = KindOf[m] /\ w.from <= when[m] /\ when[m] <= w.to

(* A file holds the moves of its days; the owner exports days that are over.  *)
(* What the venue told of already is not kept again, and a file over days of  *)
(* another is refused.                                                        *)
ImportFile(from, to) ==
    /\ from <= to /\ (to + 1) * DaySpan <= clock
    /\ \A f \in files : f.to < from \/ to < f.from
    /\ files' = files \cup {[from |-> from, to |-> to]}
    /\ LET new == {m \in Known :
                      /\ DayOfInstant(when[m]) \in from..to /\ ~Superseded(m)
                      /\ ~(KindOf[m] = "deposit" /\ m \in told \cap WholeSecond)}
       IN  /\ filed' = filed \cup new
           /\ paired' = paired \cup Matchable \cup ({"filed"} \X new)
    /\ UNCHANGED <<clock, when, told, settled, doubts, windows, declared, fetch>>

(* With a file that begins there or later, the owner says that nothing        *)
(* happened from a day to before another: refused when a row says otherwise.  *)
RowsBefore(day) == {row \in Rows : DayOfInstant(IF row[1] = "told" THEN HappensAt[row[2]] ELSE when[row[2]]) < day}
Declare(floor, before) ==
    /\ declared = NotDeclared /\ floor < before /\ \E f \in files : f.from >= before
    /\ RowsBefore(before) = {}
    /\ declared' = [floor |-> floor, before |-> before]
    /\ UNCHANGED <<clock, when, told, settled, doubts, filed, paired, windows, files, fetch>>

FlowNext ==
    \/ FlowTick \/ NoteWindow \/ FetchDies \/ Pair
    \/ \E stream \in {"in", "out", "deposit"}, from, to \in {d * DaySpan : d \in FlowDays} \cup {clock - 1} :
           Fetch(stream, from, to)
    \/ \E m \in Moves, t \in {HappensAt[n] : n \in Moves} : Contradicted(m, t)
    \/ \E from, to \in FlowDays : ImportFile(from, to)
    \/ \E floor \in FlowDays, before \in 1..LastDay : Declare(floor, before)

(***************************************************************************)
(* The reader: what it tells of the days from start to end.                *)
(***************************************************************************)
Told(m) == {HappensAt[m]} \cup doubts[m]
Touches(m, start, end) == \E t \in Told(m) : DayOfInstant(t) \in start..end
Futures(m) == KindOf[m] # "deposit"

(* Rows that a later read, or a row of the venue's at the same instant,     *)
(* stands in for.  Variant: only the row at the same instant does.          *)
Redundant(m, start, end) == Superseded(m) \/ (m \in told \cap WholeSecond /\ Touches(m, start, end) /\ when[m] = HappensAt[m])
RedundantAtInstant(m, start, end) == m \in told \cap WholeSecond /\ Touches(m, start, end) /\ when[m] = HappensAt[m]

Counted(start, end) ==
    {row \in Rows :
        /\ Futures(row[2]) /\ row \in paired
        /\ row[1] = "told" => row[2] \in settled /\ doubts[row[2]] = {} /\ DayOfInstant(HappensAt[row[2]]) \in start..end
        /\ row[1] = "filed" => DayOfInstant(when[row[2]]) \in start..end /\ ~Redundant(row[2], start, end)}

Contradiction == declared # NotDeclared /\ RowsBefore(declared.before) # {}
CoveredDays ==
    (UNION {f.from..f.to : f \in files})
        \cup (IF Contradiction THEN {} ELSE declared.floor..(declared.before - 1))

(* Why the days cannot be told. *)
Unsure(start, end) ==
    \/ ~(start..end \subseteq CoveredDays)
    \/ Contradiction /\ declared.floor <= end /\ start < declared.before
    \/ \E m \in told : Futures(m) /\ doubts[m] # {} /\ Touches(m, start, end)
    \/ \E row \in Rows :
          /\ Futures(row[2])
          /\ IF row[1] = "told"
             THEN doubts[row[2]] = {} /\ DayOfInstant(HappensAt[row[2]]) \in start..end /\ (row[2] \notin settled \/ row \notin paired)
             ELSE DayOfInstant(when[row[2]]) \in start..end /\ ~Redundant(row[2], start, end) /\ row \notin paired

(***************************************************************************)
(* Properties.                                                             *)
(***************************************************************************)
(* Told twice beyond the reader's means: the file's row of a move whose       *)
(* instant the file rounds, which the venue told of in no whole window.       *)
Indistinct == {m \in told \cap filed : m \notin WholeSecond /\ ~Superseded(m)}

(* Flows that are told are the transfers of the wallet on those days, each    *)
(* counted once: those the owner's files hold and those the venue told of,    *)
(* through failed reads, conflicts, pending moves and imports in any order.   *)
(* Only what the owner denied and no row shows is not there.                  *)
FlowsWhole ==
    \A start, end \in FlowDays :
        start <= end /\ ~Unsure(start, end) =>
            LET true == {m \in Known : Futures(m) /\ DayOfInstant(when[m]) \in start..end}
                denied == {m \in true : DayOfInstant(when[m]) \in declared.floor..(declared.before - 1) /\ m \notin told \cup filed}
            IN  /\ {row[2] : row \in Counted(start, end)} = true \ denied
                /\ \A m \in true \ Indistinct : Cardinality({row \in Counted(start, end) : row[2] = m}) <= 1

================================================================================
