------------------------------ MODULE AccountBook ------------------------------
(***************************************************************************)
(* One moving-average cost book of portfolio_engine.py: the shares of one  *)
(* symbol and currency in one account, replayed fill by fill, with the     *)
(* round trips of the trade review and the comparison with the broker's    *)
(* holdings.  truth is what really happened in the account, the part the   *)
(* ledger never shows included: shares held before its first row or        *)
(* received by a transfer no provider reports.                             *)
(*                                                                         *)
(* Amounts are whole multiples of a unit that the quantities of MaxTrades  *)
(* trades divide, so a share of a cost is exact, as the floats are up to   *)
(* the code's tolerances.  paid and proceeds include fees and taxes.  No   *)
(* source produces SPLIT rows, and a report covers the whole ledger up to  *)
(* the holdings' date: the window of a past period has no holdings.        *)
(***************************************************************************)
EXTENDS Integers, Sequences

CONSTANTS
    Quantities,     \* shares of one trade
    Amounts,        \* money of one trade
    Rates,          \* KRW per unit of the trade currency, recorded at a trade
    Missing,        \* a rate, or an FX component, that is not known
    MaxTrades       \* bound on the trades of a history

ASSUME BookAssumption ==
    /\ Quantities \subseteq Nat \ {0} /\ Amounts \subseteq Nat /\ Rates \subseteq Nat \ {0}
    /\ Missing \notin Int /\ MaxTrades \in Nat

VARIABLES
    truth,      \* the shares really held, their cost and whether all of it is known, in won too
    book,       \* the engine's book
    sales,      \* the replayed sales, in order
    trip,       \* the open round trip of the trade review, or NoTrip
    trips,      \* the round trips it has closed
    made        \* trades so far: the index of a row in the replay order

bookVars == <<truth, book, sales, trip, trips, made>>

(* The part of an amount that a part of a quantity carries. *)
Portion(amount, part, whole) == (amount * part) \div whole

Least(a, b) == IF a <= b THEN a ELSE b

AtLeastZero(a) == IF a < 0 THEN 0 ELSE a

(***************************************************************************)
(* What happened, as the account's owner could reckon it: unrated tells    *)
(* that a sale had no rate, rated that every share held was bought at one. *)
(***************************************************************************)
Received(t, q) ==
    [qty |-> t.qty + q, cost |-> t.cost, known |-> FALSE, won |-> t.won, rated |-> t.rated,
     unseen |-> t.unseen + q, unrated |-> t.unrated]

Bought(t, q, paid, rate) ==
    [qty |-> t.qty + q, cost |-> t.cost + paid, known |-> IF t.qty = 0 THEN TRUE ELSE t.known,
     won |-> IF rate = Missing THEN t.won ELSE t.won + paid * rate,
     rated |-> (IF t.qty = 0 THEN TRUE ELSE t.rated) /\ rate # Missing,
     unseen |-> t.unseen, unrated |-> t.unrated]

Parted(t, q, rate) ==
    [qty |-> t.qty - q, cost |-> t.cost - Portion(t.cost, q, t.qty), known |-> t.known,
     won |-> t.won - Portion(t.won, q, t.qty), rated |-> t.rated,
     unseen |-> t.unseen, unrated |-> t.unrated \/ rate = Missing]

(***************************************************************************)
(* The engine's book.                                                      *)
(***************************************************************************)
BookAfterBuy(b, q, paid, reported, rate) ==
    [qty |-> b.qty + q,
     cost |-> IF reported THEN b.cost + paid ELSE b.cost,
     gross |-> (IF b.qty = 0 THEN TRUE ELSE b.gross) /\ reported,
     won |-> IF rate = Missing \/ ~reported THEN b.won ELSE b.won + paid * rate,
     rated |-> b.rated /\ rate # Missing,
     inferred |-> b.inferred, opening |-> b.opening]

Inferred(b, q) == AtLeastZero(q - b.qty)
Matched(b, q) == Least(q, b.qty)
CostRemoved(b, q) == IF b.qty > 0 THEN Portion(b.cost, Matched(b, q), b.qty) ELSE 0

\* Variant: the purchases' rates are not asked for.
WonSplitAnyway(b, rate) == b.qty > 0 /\ rate # Missing
WonSplit(b, rate) == b.rated /\ b.qty > 0 /\ rate # Missing
WonRemoved(b, q, rate) == IF WonSplit(b, rate) THEN Portion(b.won, Matched(b, q), b.qty) ELSE 0

\* The row of the book's last inferred opening.  Variant: it is not kept.
OpeningForgotten(b, q, index) == b.opening
OpeningAfter(b, q, index) == IF Inferred(b, q) > 0 THEN index ELSE b.opening

\* Variant: a partial sale leaves the cost of all the shares.
CostUnreduced(b, q, left) == IF left > 0 THEN b.cost ELSE 0
CostLeft(b, q, left) == IF left > 0 THEN AtLeastZero(b.cost - CostRemoved(b, q)) ELSE 0

BookAfterSale(b, q, rate, index) ==
    LET left == AtLeastZero(b.qty + Inferred(b, q) - q)
    IN  [qty |-> left,
         cost |-> CostLeft(b, q, left),
         gross |-> b.gross,
         won |-> IF left > 0 /\ WonSplit(b, rate) THEN AtLeastZero(b.won - WonRemoved(b, q, rate)) ELSE 0,
         rated |-> b.rated,
         inferred |-> b.inferred + Inferred(b, q),
         opening |-> OpeningAfter(b, q, index)]

(* A sale as the engine reports it, with what it really cost beside it. *)
SaleRow(b, t, q, proceeds, reported, rate, index) ==
    [index |-> index, qty |-> q, matched |-> Matched(b, q), gross |-> b.gross,
     proceeds |-> proceeds, reported |-> reported,
     cost |-> CostRemoved(b, q),
     fx |-> IF WonSplit(b, rate) THEN CostRemoved(b, q) * rate - WonRemoved(b, q, rate) ELSE Missing,
     trueCost |-> Portion(t.cost, q, t.qty), trueKnown |-> t.known,
     trueFx |-> IF rate = Missing \/ ~t.rated THEN Missing
                ELSE Portion(t.cost, q, t.qty) * rate - Portion(t.won, q, t.qty),
     allRated |-> ~t.unrated]

(***************************************************************************)
(* The round trip of the trade review: opened by a purchase into an empty  *)
(* book, closed by the sale of all of it, invalid when more was sold.      *)
(***************************************************************************)
NoTrip == [open |-> FALSE, valid |-> FALSE, sales |-> {}, gain |-> 0, spent |-> 0, received |-> 0]

TripAfterBuy(c, empty, paid) ==
    IF empty
    THEN [open |-> TRUE, valid |-> TRUE, sales |-> {}, gain |-> 0, spent |-> paid, received |-> 0]
    ELSE IF c.open THEN [c EXCEPT !.spent = @ + paid] ELSE c

TripWithSale(c, sale, row, oversold) ==
    [open |-> c.open, valid |-> c.valid /\ ~oversold, sales |-> c.sales \cup {sale},
     gain |-> c.gain + (IF row.reported THEN row.proceeds ELSE 0) - row.cost,
     spent |-> c.spent, received |-> c.received + row.proceeds]

(***************************************************************************)
(* The account and the ledger.                                             *)
(***************************************************************************)
BookInit ==
    /\ truth = [qty |-> 0, cost |-> 0, known |-> TRUE, won |-> 0, rated |-> TRUE, unseen |-> 0, unrated |-> FALSE]
    /\ book = [qty |-> 0, cost |-> 0, gross |-> TRUE, won |-> 0, rated |-> TRUE, inferred |-> 0, opening |-> 0]
    /\ sales = <<>>
    /\ trip = NoTrip /\ trips = {}
    /\ made = 0

(* Shares the ledger has no row for: held before it starts, or transferred in. *)
ReceiveUnseen(q) ==
    /\ made < MaxTrades
    /\ truth' = Received(truth, q)
    /\ made' = made + 1
    /\ UNCHANGED <<book, sales, trip, trips>>

Buy(q, paid, reported, rate) ==
    /\ made < MaxTrades
    /\ truth' = Bought(truth, q, paid, rate)
    /\ book' = BookAfterBuy(book, q, paid, reported, rate)
    /\ trip' = TripAfterBuy(trip, book.qty = 0, paid)
    /\ made' = made + 1
    /\ UNCHANGED <<sales, trips>>

Sell(q, proceeds, reported, rate) ==
    LET row == SaleRow(book, truth, q, proceeds, reported, rate, made + 1)
        current == TripWithSale(trip, Len(sales) + 1, row, q > book.qty)
    IN  /\ made < MaxTrades
        /\ q <= truth.qty
        /\ sales' = Append(sales, row)
        /\ truth' = Parted(truth, q, rate)
        /\ book' = BookAfterSale(book, q, rate, made + 1)
        /\ trip' = IF ~trip.open \/ book.qty <= q THEN NoTrip ELSE current
        /\ trips' = IF trip.open /\ book.qty <= q /\ current.valid THEN trips \cup {current} ELSE trips
        /\ made' = made + 1

BookNext ==
    \/ \E q \in Quantities : ReceiveUnseen(q)
    \/ \E q \in Quantities, amount \in Amounts, reported \in BOOLEAN, rate \in Rates \cup {Missing} :
          \/ Buy(q, amount, reported, rate)
          \/ Sell(q, amount, reported, rate)

BookSpec == BookInit /\ [][BookNext]_bookVars

(***************************************************************************)
(* What a report says of the replay.                                       *)
(***************************************************************************)
(* The engine's quantity differs from the broker's (reconcile_quantities). *)
Drift == truth.qty # book.qty

(* The row's cost basis is reported complete (cost_basis_complete). *)
Complete(s) ==
    /\ s.matched >= s.qty /\ s.gross
    /\ s.index >= book.opening
    /\ ~Drift

(***************************************************************************)
(* Properties.                                                             *)
(***************************************************************************)
BookTypeOK ==
    /\ truth \in [qty : Nat, cost : Nat, known : BOOLEAN, won : Nat, rated : BOOLEAN,
                  unseen : Nat, unrated : BOOLEAN]
    /\ book \in [qty : Nat, cost : Nat, gross : BOOLEAN, won : Nat, rated : BOOLEAN, inferred : Nat, opening : Nat]
    /\ sales \in Seq([index : Nat, qty : Nat, matched : Nat, gross : BOOLEAN, proceeds : Nat, reported : BOOLEAN,
                      cost : Nat, fx : Int \cup {Missing}, trueCost : Nat, trueKnown : BOOLEAN,
                      trueFx : Int \cup {Missing}, allRated : BOOLEAN])
    /\ made \in Nat
    /\ trips \cup {trip} \subseteq [open : BOOLEAN, valid : BOOLEAN, sales : SUBSET Nat,
                                   gain : Int, spent : Nat, received : Nat]

(* A sale reported with a complete basis has the cost a full moving average *)
(* gives it: no share of unknown cost was in the account when it was made,  *)
(* whatever the ledger failed to show before or after (inferred openings,   *)
(* the broker's quantity, unreported purchase amounts).                     *)
CompleteIsTrueAverage ==
    \A i \in 1..Len(sales) :
        Complete(sales[i]) => sales[i].trueKnown /\ sales[i].cost = sales[i].trueCost

(* The currency part of a complete sale is the exact split, cost at the     *)
(* sale's rate less the won the shares cost, as long as every sale before   *)
(* it had a recorded rate.                                                  *)
FxSplitOfRated ==
    \A i \in 1..Len(sales) :
        Complete(sales[i]) /\ sales[i].allRated /\ sales[i].fx # Missing
            => sales[i].fx = sales[i].trueFx

(* The same for every complete sale with a published currency part, as the  *)
(* docstring states it (realized_fx_krw = cost x sell_rate - cost_in_krw).  *)
FxSplitExact ==
    \A i \in 1..Len(sales) :
        Complete(sales[i]) /\ sales[i].fx # Missing => sales[i].fx = sales[i].trueFx

(* A closed round trip whose sales are all complete gained what it took in  *)
(* less what it paid: averaging loses or invents no money over the trip.    *)
TripsBalance ==
    \A c \in trips :
        (\A i \in c.sales : Complete(sales[i]) /\ sales[i].reported) => c.gain = c.received - c.spent

(* What the account's figures say of its sales and round trips is true.     *)
SalesTrue == CompleteIsTrueAverage /\ FxSplitOfRated /\ TripsBalance

================================================================================
