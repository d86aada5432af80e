-------------------------------- MODULE KisFlows --------------------------------
(***************************************************************************)
(* The cash flows kis_flow_inference.py infers for one KIS account from    *)
(* the daily captures of kis_nav_capture.py.                               *)
(*                                                                         *)
(* A capture reads the balances, the domestic fills, their costs and the   *)
(* settlements abroad one after the other, while trades go on and KIS      *)
(* lists, revises and values them; each read may fail.  Fills are listed   *)
(* per order as running totals over a window of days, settlements as rows. *)
(* Trades are of one share of one domestic and one foreign symbol, at      *)
(* prices that do not change; a residual within rounding is nothing.       *)
(***************************************************************************)
EXTENDS Integers, Sequences, SequencesExt, FiniteSets, FiniteSetsExt, Functions

CONSTANTS
    Orders, OrderDate, OrderSide,   \* domestic orders, their day, and 1 to buy or -1 to sell
    Rows, RowDate, RowSide,         \* settlements abroad, likewise
    DomesticPrice, ForeignPrice,    \* prices in won and in dollars
    Fee,                            \* what a domestic fill costs
    Revaluation,                    \* by how much KIS moves the won estimate of a settlement
    RevalueDays,                    \* for so many days after it
    Lookback,                       \* days a capture's trade window reaches back
    KisLast, Rate,                  \* the days are 0..KisLast; won per dollar by day
    OpeningCash, OpeningHeld,
    Deposits, Exchanges,            \* external flows; pairs of a won and a dollar amount
    SmallWon, CoarseWon,            \* a residual up to SmallWon is income; beyond CoarseWon dollars are uncertain
    Unread,                         \* what a failed read leaves
    MaxKisMoves, MaxMissed

Money == {"KRW", "USD"}
KisDays == 0..KisLast

ASSUME KisFlowAssumption ==
    /\ OrderDate \in [Orders -> KisDays] /\ OrderSide \in [Orders -> {-1, 1}]
    /\ RowDate \in [Rows -> KisDays] /\ RowSide \in [Rows -> {-1, 1}]
    /\ {DomesticPrice, ForeignPrice, Fee, Revaluation} \subseteq Nat \ {0}
    /\ {RevalueDays, Lookback, KisLast, SmallWon, CoarseWon, MaxKisMoves, MaxMissed} \subseteq Nat
    /\ Rate \in [KisDays -> Nat \ {0}] /\ OpeningCash \in [Money -> Nat] /\ OpeningHeld \in Nat
    /\ Deposits \subseteq Money \X Int /\ Exchanges \subseteq Int \X Int
    (* The fees booked late, all of them together, count as small. *)
    /\ Fee * Cardinality(Orders) <= SmallWon /\ SmallWon + SmallWon < Revaluation

VARIABLES
    date,           \* the current day
    money,          \* cash as KIS projects it, by currency
    filled, charged,    \* shares of each order filled, and charged for
    executed, listed,   \* settlements that moved cash and shares, and those KIS lists
    valued,         \* those whose won estimate was moved
    closed,         \* the dollar cash row is gone
    kinds, kisMoves,    \* the kinds of movements so far, and how many
    reading,        \* the capture under way
    captures        \* the captures stored, one a day

kisVars == <<date, money, filled, charged, executed, listed, valued, closed, kinds, kisMoves, reading, captures>>
books == <<money, filled, charged, executed, listed, valued, closed, kinds, kisMoves>>

Sum(S, Of(_)) == MapThenSumSet(Of, S)

HeldHome == OpeningHeld + Sum(Orders, LAMBDA o : OrderSide[o] * filled[o])
HeldAbroad == OpeningHeld + Sum(executed, LAMBDA r : RowSide[r])
Unsettled == \E r \in executed : date <= RowDate[r] + 1
Window(d) == Max({0, d - Lookback})

Captured(d) == captures[d + 1]
Endpoints == {d \in 0..Len(captures)-1 : Captured(d).status = "complete"}

(* The last complete capture lists the settlement. *)
LastLists(r) ==
    \A d \in Endpoints : (\A e \in Endpoints : e <= d) => Captured(d).rows = Unread \/ r \in Captured(d).rows

(***************************************************************************)
(* What happens at KIS.                                                    *)
(***************************************************************************)
NoReading == [step |-> "idle"]

KisFlowInit ==
    /\ date = 0 /\ money = OpeningCash
    /\ filled = [o \in Orders |-> 0] /\ charged = [o \in Orders |-> 0]
    /\ executed = {} /\ listed = {} /\ valued = {} /\ closed = FALSE
    /\ kinds = {} /\ kisMoves = 0
    /\ reading = NoReading /\ captures = <<>>

Happens(kind) ==
    /\ Len(captures) = date /\ kisMoves < MaxKisMoves
    /\ kinds' = kinds \cup {kind} /\ kisMoves' = kisMoves + 1
    /\ UNCHANGED <<date, reading, captures>>

Earn(currency, amount) == money' = [money EXCEPT ![currency] = @ + amount]

FillOrder(o) ==
    /\ Happens("trade")
    /\ OrderDate[o] = date /\ filled[o] = 0 /\ HeldHome + OrderSide[o] >= 0
    /\ filled' = [filled EXCEPT ![o] = 1]
    /\ Earn("KRW", - OrderSide[o] * DomesticPrice)
    /\ UNCHANGED <<charged, executed, listed, valued, closed>>

(* A fill is cancelled afterwards. *)
BustOrder(o) ==
    /\ Happens("trade")
    /\ filled[o] = 1 /\ charged[o] = 0 /\ HeldHome - OrderSide[o] >= 0
    /\ filled' = [filled EXCEPT ![o] = 0]
    /\ Earn("KRW", OrderSide[o] * DomesticPrice)
    /\ UNCHANGED <<charged, executed, listed, valued, closed>>

ChargeOrder(o) ==
    /\ Len(captures) = date /\ filled[o] = 1 /\ charged[o] = 0
    /\ charged' = [charged EXCEPT ![o] = 1]
    /\ Earn("KRW", - Fee)
    /\ UNCHANGED <<date, filled, executed, listed, valued, closed, kinds, kisMoves, reading, captures>>

ExecuteAbroad(r) ==
    /\ Happens("trade")
    /\ RowDate[r] = date /\ r \notin executed /\ HeldAbroad + RowSide[r] >= 0 /\ ~closed
    /\ executed' = executed \cup {r}
    /\ Earn("USD", - RowSide[r] * ForeignPrice)
    /\ UNCHANGED <<filled, charged, listed, valued, closed>>

ListAbroad(r) ==
    /\ Len(captures) = date /\ r \in executed \ listed
    /\ listed' = listed \cup {r}
    /\ UNCHANGED <<date, money, filled, charged, executed, valued, closed, kinds, kisMoves, reading, captures>>

RevalueAbroad(r) ==
    /\ Happens(IF reading.step = "idle" /\ LastLists(r) THEN "revalued" ELSE "revalued unseen")
    /\ r \in listed \ valued /\ date <= RowDate[r] + RevalueDays
    /\ valued' = valued \cup {r}
    /\ Earn("KRW", Revaluation)
    /\ UNCHANGED <<filled, charged, executed, listed, closed>>

(* Settlement under integrated margin takes all the dollars. *)
TakeMargin ==
    /\ Happens("margin")
    /\ Unsettled /\ ~closed
    /\ closed' = TRUE
    /\ money' = [money EXCEPT !["USD"] = 0]
    /\ UNCHANGED <<filled, charged, executed, listed, valued>>

Deposit(currency, amount) ==
    /\ Happens("external")
    /\ currency = "USD" => ~closed
    /\ Earn(currency, amount)
    /\ UNCHANGED <<filled, charged, executed, listed, valued, closed>>

Exchange(won, dollars) ==
    /\ Happens("exchange") /\ ~closed
    /\ money' = [KRW |-> money["KRW"] + won, USD |-> money["USD"] + dollars]
    /\ UNCHANGED <<filled, charged, executed, listed, valued, closed>>

(***************************************************************************)
(* A capture: its reads, in order (_account, _domestic, _overseas, _trades). *)
(***************************************************************************)
Missed ==
    Cardinality({d \in 0..Len(captures)-1 :
        d \notin Endpoints \/ Unread \in {Captured(d).fills, Captured(d).costs, Captured(d).rows}})

BeginCapture ==
    /\ reading.step = "idle" /\ Len(captures) = date
    /\ reading' = [step |-> "abroad", day |-> date, won |-> money["KRW"], home |-> HeldHome]
    /\ UNCHANGED <<date, books, captures>>

ReadAbroad ==
    /\ reading.step = "abroad"
    /\ reading' = [step |-> "fills", day |-> date, home |-> reading.home, abroad |-> HeldAbroad,
                   cash |-> [KRW |-> reading.won, USD |-> money["USD"]], pending |-> Unsettled, closed |-> closed]
    /\ UNCHANGED <<date, books, captures>>

(* The fills of the window, or nothing. *)
ReadFills(ok) ==
    /\ reading.step = "fills" /\ (ok \/ Missed < MaxMissed)
    /\ reading' = [reading EXCEPT !.step = "costs"] @@
          [fills |-> IF ok THEN [o \in {o \in Orders : filled[o] = 1 /\ OrderDate[o] >= Window(date)} |-> filled[o]]
                     ELSE Unread]
    /\ UNCHANGED <<date, books, captures>>

ReadCosts(ok) ==
    /\ reading.step = "costs" /\ (ok \/ Missed < MaxMissed)
    /\ reading' = [reading EXCEPT !.step = "rows"] @@
          [costs |-> IF ok THEN [d \in Window(date)..date |->
                                   Fee * Sum({o \in Orders : OrderDate[o] = d}, LAMBDA o : charged[o])]
                     ELSE Unread]
    /\ UNCHANGED <<date, books, captures>>

(* The settlements of the window; then the capture is stored, complete or   *)
(* with reasons against it.                                                 *)
StoreCapture(ok, status) ==
    /\ reading.step = "rows" /\ ((ok /\ status = "complete") \/ Missed < MaxMissed)
    /\ LET seen == {r \in listed : RowDate[r] >= Window(date)}
       IN  captures' = Append(captures,
             [status |-> status, cash |-> reading.cash, home |-> reading.home, abroad |-> reading.abroad,
              pending |-> reading.pending, closed |-> reading.closed, fills |-> reading.fills, costs |-> reading.costs,
              rows |-> IF ok THEN seen ELSE Unread, valued |-> seen \cap valued])
    /\ reading' = NoReading
    /\ UNCHANGED <<date, books>>

NextDate ==
    /\ Len(captures) = date + 1 /\ date < KisLast
    /\ date' = date + 1
    /\ UNCHANGED <<books, reading, captures>>

KisFlowNext ==
    \/ \E o \in Orders : FillOrder(o) \/ BustOrder(o) \/ ChargeOrder(o)
    \/ \E r \in Rows : ExecuteAbroad(r) \/ ListAbroad(r) \/ RevalueAbroad(r)
    \/ TakeMargin
    \/ \E move \in Deposits : Deposit(move[1], move[2])
    \/ \E pair \in Exchanges : Exchange(pair[1], pair[2])
    \/ BeginCapture \/ ReadAbroad \/ NextDate
    \/ \E ok \in BOOLEAN : ReadFills(ok) \/ ReadCosts(ok)
    \/ \E ok \in BOOLEAN, status \in {"complete", "partial"} : StoreCapture(ok, status)

KisFlowSpec == KisFlowInit /\ [][KisFlowNext]_kisVars

(***************************************************************************)
(* What an interval (a, b] shows: the trades of capture b that capture a   *)
(* did not list, in the window of b (_domestic, _overseas, _reconcile).    *)
(***************************************************************************)
(* The window of b reaches back to the day of a. *)
Reaches(a, b) == Window(b) <= a

BothRead(a, b) == \A d \in {a, b} : Unread \notin {Captured(d).fills, Captured(d).costs, Captured(d).rows}

Before(a, b) == {o \in DOMAIN Captured(a).fills : OrderDate[o] >= Window(b)}
NewFill(a, b, o) == Captured(b).fills[o] - (IF o \in Before(a, b) THEN Captured(a).fills[o] ELSE 0)
DaysCharged(a, b) == {d \in DOMAIN Captured(b).costs : d >= Window(b)}
NewCost(a, b, d) == Captured(b).costs[d] - (IF d \in DOMAIN Captured(a).costs THEN Captured(a).costs[d] ELSE 0)

RowsBefore(a, b) == {r \in Captured(a).rows : RowDate[r] >= Window(b)}
NewRows(a, b) == Captured(b).rows \ RowsBefore(a, b)

(* A fill, a cost or a settlement that shrank or disappeared. *)
Revised(a, b) ==
    \/ \E o \in Before(a, b) : o \notin DOMAIN Captured(b).fills \/ NewFill(a, b, o) < 0
    \/ \E d \in DaysCharged(a, b) : NewCost(a, b, d) < 0
    \/ RowsBefore(a, b) \ Captured(b).rows # {}

NewHome(a, b) == Sum(DOMAIN Captured(b).fills, LAMBDA o : OrderSide[o] * NewFill(a, b, o))
NewAbroad(a, b) == Sum(NewRows(a, b), LAMBDA r : RowSide[r])

(* Positions changed by the new trades alone.  Variant: of what is held at  *)
(* the end only.                                                            *)
HeldMatches(a, b) ==
    /\ Captured(b).home > 0 => Captured(b).home - Captured(a).home = NewHome(a, b)
    /\ Captured(b).abroad > 0 => Captured(b).abroad - Captured(a).abroad = NewAbroad(a, b)
QuantitiesMatch(a, b) ==
    /\ Captured(b).home - Captured(a).home = NewHome(a, b)
    /\ Captured(b).abroad - Captured(a).abroad = NewAbroad(a, b)

TradeEffect(a, b) ==
    [KRW |-> - DomesticPrice * NewHome(a, b) - Sum(DaysCharged(a, b), LAMBDA d : NewCost(a, b, d)),
     USD |-> - ForeignPrice * NewAbroad(a, b)]

(* KIS moved the won estimate of settlements listed before. *)
Estimated(a, b) ==
    Revaluation * Cardinality((Captured(b).valued \ Captured(a).valued) \cap RowsBefore(a, b)) > SmallWon

(* The dollar row closed after trades were unsettled. *)
ClosedUnexplained(a, b, residual) ==
    Captured(a).pending /\ residual["USD"] # 0 /\ Captured(b).closed /\ ~Captured(a).closed

(***************************************************************************)
(* One interval (_interval).                                               *)
(***************************************************************************)
Abs(x) == IF x < 0 THEN -x ELSE x
Won(residual, currency, d) == Abs(residual[currency]) * (IF currency = "USD" THEN Rate[d] ELSE 1)
Near(x, y) == 40 * Abs(x - y) <= y

Large(b, residual) == {c \in Money : Won(residual, c, b) > SmallWon}
Opposite(b, residual) == Large(b, residual) = Money /\ residual["KRW"] * residual["USD"] < 0
Converted(a, b, residual) ==
    Opposite(b, residual) /\ \A d \in {a, b} : Near(Won(residual, "KRW", d), Won(residual, "USD", d))

(* Nothing that may hide in a residual stops it from being called a flow.   *)
Explained(a, b, residual) ==
    \/ Converted(a, b, residual)
    \/ /\ ~Opposite(b, residual)
       /\ ~("KRW" \in Large(b, residual) /\ Estimated(a, b))
       /\ Won(residual, "USD", b) <= CoarseWon

Trusted(a, b) ==
    {a, b} \subseteq Endpoints /\ Reaches(a, b) /\ BothRead(a, b) /\ ~Revised(a, b) /\ QuantitiesMatch(a, b)

KisInterval(a, b) ==
    LET effect == IF Trusted(a, b) THEN TradeEffect(a, b) ELSE [c \in Money |-> 0]
        residual == [c \in Money |-> Captured(b).cash[c] - Captured(a).cash[c] - effect[c]]
        resolved == Trusted(a, b) /\ ~ClosedUnexplained(a, b, residual) /\ Explained(a, b, residual)
    IN  [start |-> a, end |-> b, resolved |-> resolved,
         flow |-> [c \in Money |->
             IF resolved /\ ~Converted(a, b, residual) /\ c \in Large(b, residual) THEN residual[c] ELSE 0]]

(* The intervals between consecutive complete captures; the latest capture, *)
(* when it is not complete, only gives an unresolved row.                   *)
KisIntervals ==
    {KisInterval(p[1], p[2]) :
        p \in {p \in Endpoints \X Endpoints : p[1] < p[2] /\ \A d \in Endpoints : ~(p[1] < d /\ d < p[2])}}

(***************************************************************************)
(* Properties.                                                             *)
(***************************************************************************)
(* An account that only traded has no deposit or withdrawal inferred,       *)
(* whichever of its reads a trade, a charge, a cancelled fill or a late     *)
(* listing fell between, and whichever captures failed.  A won estimate     *)
(* KIS moved is no flow either, if it moved between two captures, the       *)
(* earlier one lists the settlement, and they are close enough together for *)
(* the later one to list it still.  Nor are dollars that a settlement took  *)
(* while the earlier capture had trades unsettled.                          *)
TradesAreNotFlows ==
    \A record \in KisIntervals :
        (/\ kinds \subseteq {"trade", "revalued", "margin"}
         /\ "margin" \in kinds => Captured(record.start).pending
         /\ "revalued" \in kinds => record.end - record.start <= Lookback - RevalueDays)
            => \A c \in Money : record.flow[c] = 0

================================================================================
