------------------------------ MODULE GainsReport ------------------------------
(***************************************************************************)
(* What the tools say was gained: get_realized_pnl, get_trade_review and   *)
(* the realized block of get_portfolio_summary.  A report reads the ledger *)
(* of every account and the holdings of every account, one read after the  *)
(* other, while the accounts trade on, and replays what it read with the   *)
(* cost books of AccountBook.                                              *)
(*                                                                         *)
(* An account holds one symbol, in won.  What happens in it is kept in its *)
(* diary; the ledger shows the trades, each with or without its fee, and   *)
(* never how shares were received otherwise.  Amounts are multiples of     *)
(* Unit, as AccountBook asks; every trade costs one Unit in fees, and the  *)
(* n-th event of a diary is made at n Units a share.                       *)
(***************************************************************************)
EXTENDS AccountBook, FiniteSets, FiniteSetsExt, Functions

CONSTANTS
    Roster,         \* the accounts, in the order they are read
    Unit,
    LastDate,       \* the dates are 0..LastDate
    MaxEvents,      \* bound on the events of each account
    MaxAll,         \* and of all of them
    MaxOdd          \* bound on what goes wrong, or happens during a report

Accounts == Range(Roster)

ASSUME GainsAssumption ==
    /\ IsInjective(Roster) /\ MaxEvents \in [Accounts -> Nat]
    /\ Unit \in Nat \ {0} /\ {LastDate, MaxAll, MaxOdd} \subseteq Nat

VARIABLES
    date,       \* today
    diary,      \* what happened in each account, in order
    query,      \* the report being made
    oddities    \* what went wrong so far

gainVars == <<date, diary, query, oddities>>

MayBeOdd(yes) == oddities' = oddities + (IF yes THEN 1 ELSE 0) /\ oddities' <= MaxOdd

Unread == [status |-> "unread", upto |-> 0, seen |-> {}, qty |-> 0]
NoQuery == [pc |-> "none", tool |-> "none", from |-> 0, to |-> 0, asOf |-> 0,
            ledger |-> [a \in Accounts |-> Unread], held |-> [a \in Accounts |-> Unread]]

(***************************************************************************)
(* What happens in the accounts.                                           *)
(***************************************************************************)
Moved(e) == IF e.kind = "sell" THEN - e.qty ELSE e.qty
SharesOf(a) == SumFunction([i \in DOMAIN diary[a] |-> Moved(diary[a][i])])

GainsInit ==
    /\ date = 0 /\ diary = [a \in Accounts |-> <<>>] /\ query = NoQuery /\ oddities = 0

(* Without its fee told a trade is recorded as if it had cost none. *)
Happens(a, kind, q, told) ==
    /\ query.pc # "done"
    /\ Len(diary[a]) < MaxEvents[a] /\ SumFunction([b \in Accounts |-> Len(diary[b])]) < MaxAll
    /\ kind = "sell" => q <= SharesOf(a)
    /\ MayBeOdd(kind = "receive" \/ ~told \/ query.pc # "none")
    /\ diary' = [diary EXCEPT ![a] =
           Append(@, [kind |-> kind, qty |-> q, paid |-> q * Unit * (Len(@) + 1), told |-> told, on |-> date])]
    /\ UNCHANGED <<date, query>>

NextDate ==
    /\ date < LastDate /\ query.pc # "done" /\ date' = date + 1
    /\ UNCHANGED <<diary, query, oddities>>

(***************************************************************************)
(* The reads of a report.  The summary reads the holdings first, and the   *)
(* ledger of its own period only.                                          *)
(***************************************************************************)
Ask(tool, from, to) ==
    /\ query.pc = "none" /\ from <= to /\ to <= date
    /\ tool = "summary" => to = date
    /\ query' = [NoQuery EXCEPT !.pc = IF tool = "summary" THEN "held" ELSE "ledger",
                                !.tool = tool, !.from = from, !.to = to, !.asOf = date]
    /\ UNCHANGED <<date, diary, oddities>>

LedgerFrom == IF query.tool = "summary" THEN query.from ELSE 0

NextUnread(reads) == Min({i \in DOMAIN Roster : reads[Roster[i]].status = "unread"})
LastUnread(reads) == NextUnread(reads) = Len(Roster)

(* A read may fail, or stop at the paging cap: it has the latest rows then. *)
ReadLedger ==
    LET a == Roster[NextUnread(query.ledger)]
        all == {i \in DOMAIN diary[a] : /\ diary[a][i].kind # "receive"
                                        /\ diary[a][i].on \in LedgerFrom..query.to}
        next == IF ~LastUnread(query.ledger) THEN "ledger" ELSE IF query.tool = "summary" THEN "done" ELSE "held"
    IN  /\ query.pc = "ledger"
        /\ \E status \in {"ok", "failed", "truncated"} :
              /\ MayBeOdd(status # "ok")
              /\ \E cut \in IF status = "truncated" THEN all ELSE {0} :
                    query' = [query EXCEPT
                        !.pc = next,
                        !.ledger[a] = [status |-> status, upto |-> Len(diary[a]), qty |-> 0,
                                       seen |-> IF status = "failed" THEN {} ELSE {i \in all : i > cut}],
                        !.asOf = IF next = "held" THEN date ELSE @]
        /\ UNCHANGED <<date, diary>>

ReadHeld ==
    LET a == Roster[NextUnread(query.held)]
        next == IF ~LastUnread(query.held) THEN "held" ELSE IF query.tool = "summary" THEN "ledger" ELSE "done"
    IN  /\ query.pc = "held"
        /\ \E status \in {"ok", "failed"} :
              /\ MayBeOdd(status # "ok")
              /\ query' = [query EXCEPT
                     !.pc = next,
                     !.held[a] = [status |-> status, upto |-> Len(diary[a]), seen |-> {},
                                  qty |-> IF status = "ok" THEN SharesOf(a) ELSE 0]]
        /\ UNCHANGED <<date, diary>>

GainsNext ==
    \/ \E a \in Accounts, kind \in {"buy", "sell", "receive"}, q \in Quantities, told \in BOOLEAN :
          (kind = "receive" => told) /\ Happens(a, kind, q, told)
    \/ NextDate
    \/ \E tool \in {"gains", "summary"}, from, to \in 0..LastDate : Ask(tool, from, to)
    \/ ReadLedger \/ ReadHeld

GainsSpec == GainsInit /\ [][GainsNext]_gainVars

(***************************************************************************)
(* The replay, with what really happened beside it.                        *)
(***************************************************************************)
EmptyReplay ==
    [truth |-> [qty |-> 0, cost |-> 0, known |-> TRUE, won |-> 0, rated |-> TRUE, unseen |-> 0, unrated |-> FALSE],
     book |-> [qty |-> 0, cost |-> 0, gross |-> TRUE, won |-> 0, rated |-> TRUE, inferred |-> 0, opening |-> 0],
     told |-> TRUE, sold |-> {}, trip |-> NoTrip, begun |-> 0, trips |-> {}]

\* Whether every fee in the cost of the shares held was told.  Variant: a sale forgets it.
ToldForgotten(s, left) == TRUE
ToldAfterSale(s, left) == s.told
ToldAfterBuy(s, e) == (IF s.book.qty = 0 THEN TRUE ELSE s.told) /\ e.told

Told(e) == IF e.told THEN Unit ELSE 0

Unseen(s, e) ==
    [s EXCEPT !.truth = IF e.kind = "receive" THEN Received(@, e.qty)
                        ELSE IF e.kind = "buy" THEN Bought(@, e.qty, e.paid + Unit, 1) ELSE Parted(@, e.qty, 1)]

SeenBuy(s, e) ==
    [s EXCEPT !.truth = Bought(@, e.qty, e.paid + Unit, 1),
              !.book = BookAfterBuy(@, e.qty, e.paid + Told(e), TRUE, 1),
              !.told = ToldAfterBuy(s, e),
              !.trip = TripAfterBuy(@, s.book.qty = 0, e.paid + Told(e)),
              !.begun = IF s.book.qty = 0 THEN e.on ELSE @]

SeenSale(s, e, i) ==
    LET row == SaleRow(s.book, s.truth, e.qty, e.paid - Told(e), TRUE, 1, i)
        trip_ == TripWithSale(s.trip, i, row, e.qty > s.book.qty)
        closes == s.trip.open /\ s.book.qty <= e.qty
    IN  [truth |-> Parted(s.truth, e.qty, 1),
         book |-> BookAfterSale(s.book, e.qty, 1, i),
         told |-> ToldAfterSale(s, e.qty),
         sold |-> s.sold \cup {[index |-> i, on |-> e.on, qty |-> e.qty, matched |-> row.matched, gross |-> row.gross,
                               proceeds |-> row.proceeds, cost |-> row.cost, trueKnown |-> row.trueKnown,
                               truth |-> e.paid - Unit - row.trueCost, told |-> e.told /\ (row.matched > 0 => s.told)]},
         trip |-> IF ~s.trip.open \/ closes THEN NoTrip ELSE trip_,
         begun |-> s.begun,
         trips |-> IF closes /\ trip_.valid THEN s.trips \cup {[sales |-> trip_.sales, from |-> s.begun, to |-> e.on]}
                   ELSE s.trips]

(* The events of an account up to the n-th, of which some are in the ledger. *)
Replayed(s, e, i, seen) ==
    IF i \notin seen THEN Unseen(s, e) ELSE IF e.kind = "buy" THEN SeenBuy(s, e) ELSE SeenSale(s, e, i)

ReplayOf(a, n, seen) ==
    LET replay[i \in 0..n] == IF i = 0 THEN EmptyReplay ELSE Replayed(replay[i - 1], diary[a][i], i, seen)
    IN  replay[n]

(***************************************************************************)
(* The comparison of the books with the holdings (reconcile_collections).  *)
(***************************************************************************)
(* Holdings are those of today, and only read ones tell of an absent book. *)
Compared(a) == query.held[a].status = "ok" /\ query.asOf = query.to

NetOf(a) == SumFunction([i \in query.ledger[a].seen |-> Moved(diary[a][i])])

Drifts(a, rep) == Compared(a) /\ query.held[a].qty # rep.book.qty
Breaks(a, rep) == Compared(a) /\ (Drifts(a, rep) \/ query.held[a].qty # NetOf(a))
NotCompared(a) == ~Compared(a) /\ (query.ledger[a].seen # {} \/ query.held[a].qty > 0)

(* engine_quantity_check: what is said of the comparison beside the figures. *)
CheckOf(reps) ==
    IF \E a \in Accounts : Drifts(a, reps[a]) THEN "drift"
    ELSE IF \A a \in Accounts : ~Compared(a) THEN "unavailable"
    ELSE IF \E a \in Accounts : NotCompared(a) THEN "partial" ELSE "matched"

(* realized_input_quality: without the report only drifts are passed on. *)
SourceReasons(reps, report) ==
    {r \in {"failed", "truncated"} : \E a \in Accounts : query.ledger[a].status = r}
      \cup {r \in {"break"} : \E a \in Accounts : IF report THEN Breaks(a, reps[a]) ELSE Drifts(a, reps[a])}

(***************************************************************************)
(* The figures.                                                            *)
(***************************************************************************)
InWindow(on) == query.from <= on /\ on <= query.to
WindowSales(rep) == {row \in rep.sold : InWindow(row.on)}

(* A sale's basis is whole when every share it sold was bought on record,   *)
(* no later sale shows that shares were there before, and no drift.         *)
WholeBasis(a, rep, row) ==
    row.matched >= row.qty /\ row.gross /\ row.index >= rep.book.opening /\ ~Drifts(a, rep)
Gain(row) == row.proceeds - row.cost
GainOf(rows) == SumFunction([row \in rows |-> Gain(row)])

SalesWhole(reps) == \A a \in Accounts : \A row \in WindowSales(reps[a]) : WholeBasis(a, reps[a], row)

Unpublished == Missing
TotalOf(reps, report) ==
    IF ~SalesWhole(reps) \/ SourceReasons(reps, report) # {} THEN Unpublished
    ELSE SumFunction([a \in Accounts |-> GainOf(WindowSales(reps[a]))])

(* Fees that were not told leave the total a status of its own. *)
SaleReasons(reps) ==
    {r \in {"fees"} : \E a \in Accounts : \E row \in WindowSales(reps[a]) : ~row.told}
      \cup {r \in {"basis"} : ~SalesWhole(reps)}
StatusOfTotal(reps, report) ==
    IF \A a \in Accounts : query.ledger[a].status = "failed" THEN "unavailable"
    ELSE IF SourceReasons(reps, report) \cup SaleReasons(reps) # {} THEN "partial"
    ELSE IF \A a \in Accounts : query.ledger[a].seen = {} THEN "empty" ELSE "complete"

(* The review gives up its total for more: also for holdings that were not  *)
(* read or are of another day, and for any trade of the window.             *)
ReviewReasons(reps) ==
    SourceReasons(reps, TRUE) \cup SaleReasons(reps)
      \cup {r \in {"positions"} : \E a \in Accounts : query.held[a].status # "ok"}
      \cup {r \in {"another_day"} : query.asOf # query.to}
      \cup {r \in {"fees"} : \E a \in Accounts : \E i \in query.ledger[a].seen :
                                  InWindow(diary[a][i].on) /\ ~diary[a][i].told}
ReviewTotal(reps) == IF ReviewReasons(reps) # {} THEN Unpublished ELSE TotalOf(reps, TRUE)

(* The round trips its win rate counts: opened and closed in the window,    *)
(* with nothing unknown, in books without a break.                          *)
SalesOfTrip(rep, c) == {row \in rep.sold : row.index \in c.sales}
Counted(a, rep) ==
    {c \in rep.trips : /\ query.from <= c.from /\ c.to <= query.to
                       /\ \A row \in SalesOfTrip(rep, c) : WholeBasis(a, rep, row) /\ row.told
                       /\ ~Breaks(a, rep)}
Wins(rep, counted) == {c \in counted : GainOf(SalesOfTrip(rep, c)) > 0}
WinRatePublished(reps) == SourceReasons(reps, TRUE) \subseteq {"break"}

(***************************************************************************)
(* Properties.                                                             *)
(***************************************************************************)
Replays == [a \in Accounts |-> ReplayOf(a, query.ledger[a].upto, query.ledger[a].seen)]

(* Nothing happened in the account between the read of its ledger and that  *)
(* of its holdings, or between a midnight after the request and the latter, *)
(* and these were compared.                                                 *)
Settled(a) ==
    /\ Compared(a) /\ query.ledger[a].upto = query.held[a].upto
    /\ \A i \in 1..query.held[a].upto : diary[a][i].on <= query.to

TrulySold(a) == {i \in 1..query.ledger[a].upto : diary[a][i].kind = "sell" /\ InWindow(diary[a][i].on)}
TrueRow(row) == row.trueKnown /\ Gain(row) = row.truth

(* What is published of a sale whose basis is whole and fees are told is    *)
(* what it really gained over the average of all shares held, its quantity  *)
(* being compared: though shares came into the account that no row shows,   *)
(* before the ledger or in the middle of it, fees went untold, reads failed *)
(* or were cut, and midnight fell between them.  A total that is published  *)
(* as complete, all quantities matched, or by the review, has every sale of *)
(* the period; a round trip that counts as won did gain.                    *)
GainsTrue ==
    query.pc = "done" => \E reps \in {Replays} :
        /\ \A a \in Accounts : Settled(a) /\ query.ledger[a].status = "ok" =>
              \A row \in WindowSales(reps[a]) : WholeBasis(a, reps[a], row) /\ row.told => TrueRow(row)
        /\ (\A a \in Accounts : Settled(a)) /\ CheckOf(reps) = "matched" =>
              LET Full == \A a \in Accounts : /\ {row.index : row \in WindowSales(reps[a])} = TrulySold(a)
                                              /\ \A row \in WindowSales(reps[a]) : TrueRow(row)
              IN  \/ /\ TotalOf(reps, TRUE) # Unpublished /\ StatusOfTotal(reps, TRUE) = "complete"
                     \/ ReviewTotal(reps) # Unpublished
                  => Full
        /\ WinRatePublished(reps) =>
              \A a \in Accounts : Settled(a) =>
                  \A c \in Wins(reps[a], Counted(a, reps[a])) : \A row \in SalesOfTrip(reps[a], c) : TrueRow(row)

================================================================================
