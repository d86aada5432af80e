------------------------------ MODULE NavEvidence ------------------------------
(***************************************************************************)
(* What a day's snapshot knows of the moment it values a stock account at. *)
(* The job reads the positions, the exchange rate, then open orders,       *)
(* quotes and the market calendar in a thread with a time limit.           *)
(* Meanwhile orders are placed and filled, markets close and midnight      *)
(* passes.  A reader (ledger_returns.py) tells the account's worth, or     *)
(* that it cannot.  What a value is worth, its currency and the shape of   *)
(* an answer are data that only makes a read fail here.                    *)
(***************************************************************************)
EXTENDS Integers, FiniteSets, FiniteSetsExt

CONSTANTS
    LastInstant, Midnight,      \* instants of the run; the first one of the next day
    TradingDays, CloseOn,       \* days on which the stock market opens, and when it closes
    ReadBudget,                 \* NAV_EVIDENCE_BUDGET_SECONDS
    MaxClosed                   \* orders that close in the run

ASSUME NavEvidenceAssumption ==
    /\ {LastInstant, Midnight, ReadBudget, MaxClosed} \subseteq Nat
    /\ TradingDays \subseteq Int /\ CloseOn \in [TradingDays -> Int]
    /\ \A d, e \in TradingDays : d < e => CloseOn[d] < CloseOn[e]
    /\ \A day \in {0, 1} :     \* there is a last session before a day, and a first one after it
           /\ \E d \in TradingDays : d < day /\ \A e \in TradingDays : e < day => e <= d
           /\ \E d \in TradingDays : d > day /\ \A e \in TradingDays : e > day => e >= d

VARIABLES
    instant,
    orders,         \* whether an order is open and holds cash, and how many have closed
    traded,         \* when the held stock was last traded
    worker,         \* the thread that reads the evidence
    nav             \* the snapshot

evidenceVars == <<instant, orders, traded, worker, nav>>

NoRead == -9
Date(t) == IF t < Midnight THEN 0 ELSE 1
NoEvidence == [orders |-> "unverified", closed |-> 0, quote |-> NoRead, calendar |-> NoRead]

EvidenceInit ==
    /\ instant = 0 /\ traded \in {-1, 0} /\ orders \in [open : BOOLEAN, closed : {0}]
    /\ worker = [pc |-> "idle", got |-> NoEvidence, until |-> 0]
    /\ nav = [pc |-> "begin", date |-> 0, valued |-> NoRead, held |-> FALSE, closed |-> 0,
              fx |-> "missing", evidence |-> NoEvidence, completed |-> NoRead]

InstantPasses ==
    /\ instant < LastInstant /\ instant' = instant + 1
    /\ UNCHANGED <<orders, traded, worker, nav>>

OrderPlaced ==
    /\ ~orders.open /\ orders.closed < MaxClosed
    /\ orders' = [orders EXCEPT !.open = TRUE]
    /\ UNCHANGED <<instant, traded, worker, nav>>

OrderCloses ==
    /\ orders.open
    /\ orders' = [open |-> FALSE, closed |-> orders.closed + 1]
    /\ UNCHANGED <<instant, traded, worker, nav>>

StockTrades ==
    /\ traded < instant /\ traded' = instant
    /\ UNCHANGED <<instant, orders, worker, nav>>

(* The evidence thread has a copy of the positions for itself.  It starts    *)
(* no read after the deadline, and what it has then is lost.                 *)
ReadStep(from, to, got) ==
    /\ worker.pc = from
    /\ worker' = IF instant < worker.until THEN [worker EXCEPT !.pc = to, !.got = got]
                 ELSE [worker EXCEPT !.pc = "late"]
    /\ UNCHANGED <<instant, orders, traded, nav>>

ReadOrders ==
    \E answer \in {"unverified", IF orders.open THEN "present" ELSE "none"} :
        ReadStep("orders", "quotes", [worker.got EXCEPT !.orders = answer, !.closed = orders.closed])
ReadQuotes == \E answer \in {NoRead, traded} : ReadStep("quotes", "calendar", [worker.got EXCEPT !.quote = answer])
ReadCalendar ==
    \E answer \in {NoRead, Date(instant)} : ReadStep("calendar", "finished", [worker.got EXCEPT !.calendar = answer])

(* The job takes the date it stores under before it reads anything, and ends *)
(* when a source failed.                                                     *)
BeginRead ==
    /\ nav.pc = "begin"
    /\ nav' = [nav EXCEPT !.pc = "collect", !.date = Date(instant)]
    /\ UNCHANGED <<instant, orders, traded, worker>>

CollectPositions ==
    /\ nav.pc = "collect"
    /\ nav' \in {[nav EXCEPT !.pc = "refused"],
                 [nav EXCEPT !.pc = "fx", !.valued = instant, !.held = orders.open, !.closed = orders.closed]}
    /\ UNCHANGED <<instant, orders, traded, worker>>

(* The first rate without a reason is used.  A reason leaves the broker      *)
(* without a rate; the fallback's is used under its reason.                  *)
RateUsed(toss, yfinance) ==
    CASE toss = "clean" -> "clean"
      [] toss # "clean" /\ yfinance = "none" -> "missing"
      [] OTHER -> yfinance

BuildFx ==
    /\ nav.pc = "fx"
    /\ \E toss, yfinance \in {"clean", "flagged", "none"} :
           nav' = [nav EXCEPT !.pc = "waits", !.fx = RateUsed(toss, yfinance)]
    /\ worker' = [worker EXCEPT !.pc = "orders", !.until = instant + ReadBudget]
    /\ UNCHANGED <<instant, orders, traded>>

(* Only a pass that finished is published, and not after the deadline.       *)
(* Variant: what a pass has, with no order where none was read.              *)
PublishedAnyway(pass) ==
    IF pass.got.orders = "unverified" THEN [pass.got EXCEPT !.orders = "none"] ELSE pass.got
Published(pass) == IF pass.pc = "finished" THEN pass.got ELSE NoEvidence

PublishEvidence ==
    /\ nav.pc = "waits" /\ (worker.pc \in {"finished", "late"} \/ instant >= worker.until)
    /\ nav' = [nav EXCEPT !.pc = "stored", !.evidence = Published(worker), !.completed = instant]
    /\ UNCHANGED <<instant, orders, traded, worker>>

EvidenceNext ==
    \/ InstantPasses \/ OrderPlaced \/ OrderCloses \/ StockTrades
    \/ ReadOrders \/ ReadQuotes \/ ReadCalendar
    \/ BeginRead \/ CollectPositions \/ BuildFx \/ PublishEvidence

(***************************************************************************)
(* The reader.                                                             *)
(***************************************************************************)
(* A calendar tells the sessions before, on and after a day.                *)
Sessions(day) ==
    LET before == {d \in TradingDays : d < day}
        after == {d \in TradingDays : d > day}
    IN  {CloseOn[d] : d \in {Max(before), Min(after)} \cup ({day} \cap TradingDays)}

(* A quote is current when no session closed between its trade and the       *)
(* valuation, as far as a calendar of that very day tells.                   *)
QuoteCurrent(e) ==
    /\ e.calendar = Date(nav.valued)
    /\ LET closes == Sessions(e.calendar)
       IN  /\ Min(closes) <= nav.valued /\ nav.valued < Max(closes)
           /\ \A c \in closes : ~(e.quote < c /\ c <= nav.valued)

(* Buying power is cash when an orders page shows none open. *)
NativeValue(e) == nav.fx = "clean" /\ e.orders = "none" /\ e.quote # NoRead

TossTold ==
    /\ nav.pc = "stored" /\ Date(nav.valued) = nav.date
    /\ NativeValue(nav.evidence) /\ QuoteCurrent(nav.evidence)
    /\ nav.evidence.quote <= nav.completed /\ Date(nav.evidence.quote) <= nav.date

(***************************************************************************)
(* Properties.                                                             *)
(***************************************************************************)
(* An account's worth, where it is told, is that of a moment of its day: an   *)
(* order that held cash when the positions were read was gone when the       *)
(* orders were, and no session closed between a holding's price and the      *)
(* valuation, whatever failed, was late or was read on another day.          *)
WorthOfItsDay ==
    TossTold =>
        /\ nav.held => nav.evidence.closed > nav.closed
        /\ \A d \in TradingDays : ~(nav.evidence.quote < CloseOn[d] /\ CloseOn[d] <= nav.valued)

================================================================================
