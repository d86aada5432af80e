--------------------------- MODULE PerformanceReport ---------------------------
(***************************************************************************)
(* What get_portfolio_performance publishes: the profit of a period and    *)
(* the profit and loss between its snapshots, from stored values of the    *)
(* portfolio and the money that came in between them.                      *)
(*                                                                         *)
(* A stored value is taken at some time of its day, and money is told by   *)
(* its day only.  A report made of stored values reads them and then the   *)
(* permanent ledger's flows, or takes the caller's word that there were    *)
(* none; a live one first reads the accounts and their transactions, and   *)
(* ends at the value it read when the caller vouches for the flows.        *)
(* Markets move, money comes in, days end and snapshots are stored         *)
(* meanwhile.                                                              *)
(***************************************************************************)
EXTENDS Integers, Sequences, FiniteSets, FiniteSetsExt, Functions

CONSTANTS
    Opening,        \* what the portfolio is worth at first
    NoFigure,       \* a figure that is withheld
    LastDay,        \* bound on the days
    MaxSnaps,       \* on the snapshots stored
    MaxMoves        \* on the moves of markets and money, and the reads and captures that go wrong

ASSUME PerformanceAssumption ==
    /\ Opening \in Nat \ {0} /\ {LastDay, MaxSnaps, MaxMoves} \subseteq Nat

VARIABLES
    today,      \* the day
    wealth,     \* what the markets gave so far, and the money that came in by day
    snaps,      \* the snapshots stored, each version of a day
    perf,       \* the report
    used      \* how many of these so far

perfVars == <<today, wealth, snaps, perf, used>>

Days == 0..LastDay
Flows(told, after, until) == SumFunctionOnSet(told, {d \in Days : after < d /\ d <= until})
Value == Opening + wealth.gain + Flows(wealth.flow, -1, today)

NoReport ==
    [pc |-> "none", live |-> FALSE, vouched |-> FALSE, from |-> 0, to |-> 0, rows |-> {},
     end |-> 0, observed |-> 0, told |-> [d \in Days |-> 0], reasons |-> {},
     endGain |-> 0, moved |-> FALSE]    \* what was true, for the properties

PerfInit ==
    /\ today = 0 /\ wealth = [gain |-> 0, flow |-> [d \in Days |-> 0]]
    /\ snaps = <<>> /\ perf = NoReport /\ used = 0

Moves == used < MaxMoves /\ used' = used + 1
Lapses(how) == IF how = "ok" THEN UNCHANGED used ELSE Moves

(***************************************************************************)
(* What happens meanwhile.                                                 *)
(***************************************************************************)
MarketGives ==
    /\ Moves /\ \E g \in {-1, 1} : wealth' = [wealth EXCEPT !.gain = @ + g]
    /\ UNCHANGED <<today, snaps, perf>>

(* Snapshots of the day money comes in on do not show it. *)
MoneyIn ==
    /\ Moves /\ wealth' = [wealth EXCEPT !.flow[today] = @ + 1]
    /\ snaps' = [i \in DOMAIN snaps |-> [snaps[i] EXCEPT !.late = @ \/ snaps[i].day = today]]
    /\ perf' = [perf EXCEPT !.moved = @ \/ perf.pc \notin {"none", "done"}]
    /\ UNCHANGED today

DayEnds == today < LastDay /\ today' = today + 1 /\ UNCHANGED <<wealth, snaps, perf, used>>

(* A snapshot may be incomplete and fall short, or have no value at all. *)
Capture ==
    /\ Len(snaps) < MaxSnaps
    /\ \E how \in {"ok", "short", "unvalued"} :
          /\ Lapses(how)
          /\ snaps' = Append(snaps, [day |-> today, how |-> how, late |-> FALSE, gain |-> wealth.gain,
                                     value |-> IF how = "short" THEN Value - 1 ELSE Value])
    /\ UNCHANGED <<today, wealth, perf>>

(***************************************************************************)
(* The report.  Of a day the newest version is taken, unless the caller    *)
(* names the snapshots.                                                    *)
(***************************************************************************)
Newest(from, to) ==
    {i \in DOMAIN snaps : /\ from <= snaps[i].day /\ snaps[i].day <= to
                          /\ \A j \in DOMAIN snaps : snaps[j].day = snaps[i].day => j <= i}

AskPeriod ==
    /\ perf.pc = "none"
    /\ \E live, vouched \in BOOLEAN, from \in 0..today :
          perf' = [NoReport EXCEPT !.pc = IF live THEN "holdings" ELSE "range", !.live = live,
                                   !.vouched = vouched, !.from = from, !.to = today]
    /\ UNCHANGED <<today, wealth, snaps, used>>

AskPinned ==
    /\ perf.pc = "none"
    /\ \E rows \in (SUBSET DOMAIN snaps) \ {{}}, vouched \in BOOLEAN :
          perf' = [NoReport EXCEPT !.pc = "flows", !.vouched = vouched, !.rows = rows,
                                   !.from = Min({snaps[i].day : i \in rows}), !.to = Max({snaps[i].day : i \in rows})]
    /\ UNCHANGED <<today, wealth, snaps, used>>

Step(pc, next, report) == perf.pc = pc /\ perf' = [report EXCEPT !.pc = next] /\ UNCHANGED <<today, wealth, snaps>>
Because(how, reason) == IF how = "ok" THEN {} ELSE {reason}

ReadAccounts ==
    \E how \in {"ok", "failed", "unpriced"} :
       /\ Lapses(how)
       /\ Step("holdings", "ledger",
               [perf EXCEPT !.end = IF how = "ok" THEN Value ELSE Value - 1, !.endGain = wealth.gain,
                            !.reasons = @ \cup Because(how, how)])

ReadTransactions ==
    \E how \in {"ok", "failed", "unstated"} :
       /\ Lapses(how)
       /\ Step("ledger", "range",
               [perf EXCEPT !.observed = IF how = "ok" THEN Flows(wealth.flow, perf.from - 1, perf.to) ELSE 0,
                            \* The permanent ledger's flows are used, unless the caller vouches.
                            !.reasons = @ \cup IF how = "unstated" /\ ~perf.vouched THEN {} ELSE Because(how, how)])

ReadRange == Step("range", "flows", [perf EXCEPT !.rows = Newest(perf.from, perf.to)]) /\ UNCHANGED used

(* The flows the ledger tells of the period, with a reason where it cannot  *)
(* vouch for them; or the caller's word, which an observed flow denies.     *)
ReadFlowInputs ==
    IF perf.vouched
    THEN Step("flows", "done", [perf EXCEPT !.reasons = @ \cup IF perf.observed > 0 THEN {"conflict"} ELSE {}]) /\ UNCHANGED used
    ELSE \E how \in {"ok", "incomplete"} :
            Lapses(how) /\ Step("flows", "done", [perf EXCEPT !.told = wealth.flow, !.reasons = @ \cup Because(how, how)])

PerfNext ==
    \/ MarketGives \/ MoneyIn \/ DayEnds \/ Capture
    \/ AskPeriod \/ AskPinned \/ ReadAccounts \/ ReadTransactions \/ ReadRange \/ ReadFlowInputs

PerfSpec == PerfInit /\ [][PerfNext]_perfVars

(***************************************************************************)
(* What it publishes (portfolio_engine.compute_performance).               *)
(***************************************************************************)
(* _nav_series: the rows with a value, by day and value. *)
Before(i, j) ==
    \/ snaps[i].day < snaps[j].day
    \/ snaps[i].day = snaps[j].day /\ snaps[i].value < snaps[j].value
    \/ snaps[i].day = snaps[j].day /\ snaps[i].value = snaps[j].value /\ i < j
Series ==
    LET valued == {i \in perf.rows : snaps[i].how # "unvalued"}
    IN  CHOOSE s \in [1..Cardinality(valued) -> valued] : \A k, l \in DOMAIN s : k < l => Before(s[k], s[l])

LiveEnd == perf.live /\ perf.vouched

(* What is missing at the ends of the period (boundary_reasons, and those   *)
(* of _return_flow_inputs): with the ledger's flows both days must have a   *)
(* snapshot.                                                                *)
EndsAnywhere(series) == series # <<>>
EndsStored(series) ==
    /\ series # <<>>
    /\ ~perf.vouched => snaps[series[1]].day = perf.from /\ snaps[series[Len(series)]].day = perf.to
InputsSound ==
    perf.reasons = {} /\ \A i \in perf.rows : snaps[i].how # "short"
RowsSound ==
    /\ \A i \in perf.rows : snaps[i].how # "unvalued"
    /\ \A i, j \in perf.rows : snaps[i].day = snaps[j].day => i = j

Profit(series) ==
    IF ~InputsSound \/ ~RowsSound \/ ~EndsStored(series) \/ snaps[series[1]].value <= 0 THEN NoFigure
    ELSE (IF LiveEnd THEN perf.end ELSE snaps[series[Len(series)]].value)
            - snaps[series[1]].value - Flows(perf.told, snaps[series[1]].day, perf.to)

(* daily_and_monthly_pnl, time_weighted_return and nav_statistics take the  *)
(* flow out of each interval at its end.                                    *)
IntervalPnl(i, j) ==
    IF ~InputsSound THEN NoFigure
    ELSE snaps[j].value - snaps[i].value - Flows(perf.told, snaps[i].day, snaps[j].day)

(* The returns of the intervals, as a gain over a value: those of the       *)
(* time-weighted return and the drawdown, and, when no day is skipped, of   *)
(* the figures of a day.                                                    *)
Returns(series) ==
    [k \in 1..(Len(series) - 1) |-> <<IntervalPnl(series[k], series[k + 1]), snaps[series[k]].value>>]
TimeWeighted(series) ==
    IF \/ ~InputsSound \/ ~RowsSound \/ Len(series) < 2 \/ (~perf.vouched /\ ~EndsStored(series))
       \/ \E i \in perf.rows : snaps[i].value <= 0 THEN NoFigure
    ELSE Returns(series)
DayFigures(series) ==
    IF \/ ~InputsSound \/ ~RowsSound \/ Len(series) < 2 \/ (\E i \in perf.rows : snaps[i].value <= 0)
       \/ \E k \in 1..(Len(series) - 1) : snaps[series[k + 1]].day # snaps[series[k]].day + 1 THEN NoFigure
    ELSE Returns(series)

(***************************************************************************)
(* Properties.                                                             *)
(***************************************************************************)
(* What a caller vouches for of stored values is true, and no money came    *)
(* in on the day of a value after it was taken, nor while a live value was  *)
(* compared.                                                                *)
Vouchable(i, j) ==
    IF LiveEnd THEN ~perf.moved
    ELSE IF perf.vouched THEN Flows(wealth.flow, perf.from - 1, perf.to) = 0
    ELSE ~snaps[i].late /\ ~snaps[j].late

(* A profit that is published is what the markets gave between its first    *)
(* value and its last, and so is that of each interval; those of the        *)
(* intervals add up to it.  No return is published beside an interval that  *)
(* was withheld, and those of days stand for days.                          *)
PerformanceTrue ==
    perf.pc = "done" =>
      \E s \in {Series} :
        LET first == s[1]  last == s[Len(s)] IN
        /\ Profit(s) # NoFigure /\ Vouchable(first, last) =>
              Profit(s) = (IF LiveEnd THEN perf.endGain ELSE snaps[last].gain) - snaps[first].gain
        /\ \A k \in 1..(Len(s) - 1) :
              IntervalPnl(s[k], s[k + 1]) # NoFigure /\ Vouchable(s[k], s[k + 1]) =>
                 IntervalPnl(s[k], s[k + 1]) = snaps[s[k + 1]].gain - snaps[s[k]].gain
        /\ Profit(s) # NoFigure /\ ~LiveEnd =>
              Profit(s) = SumFunction([k \in 1..(Len(s) - 1) |-> IntervalPnl(s[k], s[k + 1])])
        /\ \A figures \in {TimeWeighted(s), DayFigures(s)} : figures # NoFigure =>
              \A k \in DOMAIN figures : figures[k][2] > 0 /\ (Vouchable(s[k], s[k + 1]) =>
                 figures[k][1] = snaps[s[k + 1]].gain - snaps[s[k]].gain)

================================================================================
