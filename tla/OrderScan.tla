------------------------------- MODULE OrderScan -------------------------------
(***************************************************************************)
(* Two scans of the orders of a Toss account (toss_api.py), page by page,  *)
(* while orders are placed, filled and closed: get_fill_history_evidence,  *)
(* which reads the open ones and then the closed ones and gives up at the  *)
(* first doubt, and iter_closed_orders, which reads the closed ones and    *)
(* says whether it was cut short.                                          *)
(*                                                                         *)
(* The venue lists closed orders newest placed first, and its cursor is a  *)
(* position in that list: an order that closes between two pages moves the *)
(* rest.  It may also hand out a cursor again.                             *)
(***************************************************************************)
EXTENDS Integers, Sequences, SequencesExt, FiniteSets, FiniteSetsExt

CONSTANTS
    Orders,         \* numbers, in the order they are placed
    Quantity,       \* units of an order
    WindowFrom, WindowTo,   \* fills asked for: from the one to before the other
    ScanPage,       \* rows a page holds
    ScanPages,      \* pages a scan reads
    ScanRows,       \* rows it keeps
    MaxScanTime

ASSUME ScanAssumption ==
    /\ IsFiniteSet(Orders) /\ Orders \subseteq Nat /\ {WindowFrom, WindowTo, MaxScanTime} \subseteq Nat
    /\ {Quantity, ScanPage, ScanPages, ScanRows} \subseteq Nat \ {0}

VARIABLES
    scanNow,
    orders,         \* each order: its state, when placed, units filled, when last
    scan,           \* the scan: its kind, step, start, cursor, rows, doubts
    atCutoff        \* history: the orders when the scan began

scanVars == <<scanNow, orders, scan, atCutoff>>

NoOrder == [state |-> "none", placed |-> 0, filled |-> 0, last |-> 0]
NoScan == [kind |-> "none", step |-> "idle", cutoff |-> 0, cursor |-> 0, cursors |-> {}, pages |-> 0, rows |-> <<>>, doubts |-> {}]

ScanInit ==
    /\ scanNow = 0
    /\ orders = [o \in Orders |-> NoOrder]
    /\ scan = NoScan /\ atCutoff = orders

InState(state) == {o \in Orders : orders[o].state = state}

(* The venue, until the scan has ended. *)
Unended == scan.step # "done"

Placed(o) ==
    /\ Unended /\ orders[o].state = "none" /\ \A p \in Orders : p < o => orders[p].state # "none"
    /\ orders' = [orders EXCEPT ![o] = [NoOrder EXCEPT !.state = "open", !.placed = scanNow]]
    /\ UNCHANGED <<scanNow, scan, atCutoff>>

Filled(o) ==
    /\ Unended /\ orders[o].state = "open"
    /\ orders' = [orders EXCEPT ![o].filled = @ + 1, ![o].last = scanNow,
                                ![o].state = IF orders[o].filled + 1 = Quantity THEN "closed" ELSE "open"]
    /\ UNCHANGED <<scanNow, scan, atCutoff>>

Canceled(o) ==
    /\ Unended /\ orders[o].state = "open"
    /\ orders' = [orders EXCEPT ![o].state = "closed"]
    /\ UNCHANGED <<scanNow, scan, atCutoff>>

ScanTick == Unended /\ scanNow < MaxScanTime /\ scanNow' = scanNow + 1 /\ UNCHANGED <<orders, scan, atCutoff>>

(* Its place in the listing is the number of orders listed before it.  A    *)
(* page is read as a whole: its rows come in some order.                    *)
ListedBefore(o) == {p \in InState(orders[o].state) : p > o}
Row(o) == [order |-> o, placed |-> orders[o].placed, filled |-> orders[o].filled, last |-> orders[o].last]
OnPage(state, from) ==
    {o \in InState(state) : /\ from <= Cardinality(ListedBefore(o))
                            /\ Cardinality(ListedBefore(o)) < from + ScanPage}
Page(state, from) == SetToSeq({Row(o) : o \in OnPage(state, from)})
More(state, from) == Cardinality(InState(state)) > from + ScanPage

(* Of the groups, open orders are read first.  Variant: last. *)
ClosedFirst == <<"closed", "open">>
Groups == <<"open", "closed">>

(* A scan begins; what happens from here on happens later. *)
BeginScan(kind) ==
    /\ scan.step = "idle" /\ scanNow < MaxScanTime
    /\ kind = "fills" => WindowFrom <= scanNow
    /\ scan' = [NoScan EXCEPT !.kind = kind, !.step = IF kind = "fills" THEN Head(Groups) ELSE "closed", !.cutoff = scanNow]
    /\ atCutoff' = orders
    /\ scanNow' = scanNow + 1
    /\ UNCHANGED orders

OrdersOf(rows) == {rows[i].order : i \in DOMAIN rows}
Scanned == OrdersOf(scan.rows)

(* Why a page is refused as evidence (_order_page_reasons). *)
PageDoubts(page, more) ==
    {d \in {"PAGING", "DUPLICATE", "LATE"} :
        \/ d = "PAGING" /\ more /\ (page = <<>> \/ scan.step = "open")
        \/ d = "DUPLICATE" /\ \E i \in DOMAIN page : page[i].order \in Scanned
        \/ d = "LATE" /\ \E i \in DOMAIN page : page[i].placed > scan.cutoff \/ page[i].last > scan.cutoff}

Ended(doubts) == [scan EXCEPT !.step = "done", !.doubts = doubts]

ReadEvidence(stale) ==
    LET page == Page(scan.step, scan.cursor)
        more == More(scan.step, scan.cursor)
        doubts == PageDoubts(page, more)
        kept == scan.rows \o page
        next == IF stale THEN scan.cursor ELSE scan.cursor + ScanPage
    IN  /\ scan.kind = "fills" /\ scan.step \in {"open", "closed"}
        /\ stale => more
        /\ scan' = IF doubts # {} THEN Ended(doubts)
                   ELSE IF Len(kept) > ScanRows THEN Ended({"ROW_LIMIT"})
                   ELSE IF ~more /\ scan.step = Last(Groups) THEN [scan EXCEPT !.step = "done", !.rows = kept]
                   ELSE IF ~more THEN [scan EXCEPT !.step = Last(Groups), !.rows = kept, !.cursor = 0, !.cursors = {}, !.pages = 0]
                   ELSE IF next \in scan.cursors THEN Ended({"PAGING"})
                   ELSE IF scan.pages + 1 = ScanPages THEN Ended({"PAGE_LIMIT"})
                   ELSE [scan EXCEPT !.rows = kept, !.cursor = next, !.cursors = @ \cup {next}, !.pages = @ + 1]
        /\ UNCHANGED <<scanNow, orders, atCutoff>>

(* Rows of a page replace those of the same order read before. *)
Replaced(rows, page) ==
    [i \in DOMAIN rows |-> IF rows[i].order \in OrdersOf(page)
                           THEN CHOOSE row \in Range(page) : row.order = rows[i].order ELSE rows[i]]
    \o SetToSeq({row \in Range(page) : row.order \notin OrdersOf(rows)})

ReadListing(stale) ==
    LET page == Page("closed", scan.cursor)
        more == More("closed", scan.cursor)
        kept == Replaced(scan.rows, page)
        next == IF stale THEN scan.cursor ELSE scan.cursor + ScanPage
        stop == ~more \/ next \in scan.cursors \/ scan.pages + 1 = ScanPages \/ Len(kept) >= ScanRows
        truncated == more \/ Len(kept) > ScanRows
    IN  /\ scan.kind = "listing" /\ scan.step = "closed"
        /\ stale => more
        /\ scan' = [scan EXCEPT !.rows = IF stop THEN SubSeq(kept, 1, Min({ScanRows, Len(kept)})) ELSE kept,
                                !.cursor = next, !.cursors = @ \cup {next}, !.pages = @ + 1,
                                !.step = IF stop THEN "done" ELSE "closed",
                                !.doubts = IF stop /\ truncated THEN {"TRUNCATED"} ELSE {}]
        /\ UNCHANGED <<scanNow, orders, atCutoff>>

(* A page cannot be read, or is malformed: what came before is kept, marked. *)
FailScan ==
    /\ scan.step \in {"open", "closed"}
    /\ scan' = Ended({"PAGE_FAILED"})
    /\ UNCHANGED <<scanNow, orders, atCutoff>>

ScanNext ==
    \/ ScanTick \/ FailScan
    \/ \E o \in Orders : Placed(o) \/ Filled(o) \/ Canceled(o)
    \/ \E kind \in {"fills", "listing"} : BeginScan(kind)
    \/ \E stale \in BOOLEAN : ReadEvidence(stale) \/ ReadListing(stale)

(***************************************************************************)
(* Properties.                                                             *)
(***************************************************************************)
InWindow(row) == row.filled > 0 /\ WindowFrom <= row.last /\ row.last < WindowTo

(* Fill evidence without a doubt is what the orders had filled when the scan *)
(* began, of those last filled in the window, each once.                     *)
EvidenceWhole ==
    (scan.kind = "fills" /\ scan.step = "done" /\ scan.doubts = {}) =>
        LET selected == {i \in DOMAIN scan.rows : InWindow(scan.rows[i])}
        IN  /\ {<<scan.rows[i].order, scan.rows[i].filled>> : i \in selected}
                 = {<<o, atCutoff[o].filled>> : o \in {o \in Orders : InWindow(atCutoff[o])}}
            /\ \A i, j \in selected : scan.rows[i].order = scan.rows[j].order => i = j

(* A listing not said to be cut short has every order closed when it began. *)
ListingWhole ==
    (scan.kind = "listing" /\ scan.step = "done" /\ scan.doubts = {}) =>
        {o \in Orders : atCutoff[o].state = "closed"} \subseteq Scanned

ScansWhole == EvidenceWhole /\ ListingWhole

================================================================================
