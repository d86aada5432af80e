----------------------------- MODULE FiguresProofs -----------------------------
(***************************************************************************)
(* Theorems about the cost book, transfer matching and interval returns.   *)
(*                                                                         *)
(* A sale that the engine reports with a complete cost basis is averaged   *)
(* over the shares the account really held, for every history of fills,    *)
(* unseen receipts included.  The two quantities differ by what was        *)
(* received unseen and not yet inferred, so they meet again only at an     *)
(* inferred opening, and that one empties both.  While they agree, the     *)
(* book's cost is the true one as far as every purchase amount was         *)
(* reported (and the won as far as every rate was), and a sale made under  *)
(* a difference lies before the last opening.                              *)
(*                                                                         *)
(* A flow is a leg of one transfer for good: a pair is stored only beside  *)
(* pairs that share no leg with it, and the pairs of one plan share none.  *)
(*                                                                         *)
(* A return stands on every day and flow of its period: the rows of a view *)
(* are the steps of one set of days, so a day lies in one row or before or *)
(* after them all; and instants rise with days, so a resolved row's        *)
(* records, in turn and without a gap, hold each of its instants once.     *)
(***************************************************************************)
EXTENDS AccountBook, IntervalReturns, TransferMatching, FiniteSetTheorems, WellFoundedInduction, TLAPS

(* The engine's quantity is the true one less the unseen shares it has not  *)
(* inferred.                                                                *)
Shortfall ==
    /\ truth.qty - book.qty = truth.unseen - book.inferred
    /\ book.qty <= truth.qty

(* While the quantities agree the book knows what the shares cost. *)
AgreedCost ==
    ~Drift =>
        /\ truth.qty = 0 => truth.cost = 0 /\ book.cost = 0
        /\ truth.qty > 0 => truth.known
        /\ book.gross => book.cost = truth.cost

(* And what they cost in won. *)
AgreedWon ==
    /\ book.rated => truth.rated
    /\ ~Drift =>
        /\ truth.qty = 0 => truth.won = 0 /\ book.won = 0
        /\ book.gross /\ book.rated /\ ~truth.unrated => book.won = truth.won

(* The recorded sales are those so far, and agree when no opening is due. *)
SalesAgree ==
    \A i \in 1..Len(sales) :
        /\ sales[i].index <= made
        /\ Complete(sales[i]) =>
            /\ sales[i].trueKnown /\ sales[i].cost = sales[i].trueCost
            /\ sales[i].allRated /\ sales[i].fx # Missing => sales[i].fx = sales[i].trueFx

BookInv == BookTypeOK /\ Shortfall /\ AgreedCost /\ AgreedWon /\ SalesAgree

(***************************************************************************)
(* Types.                                                                  *)
(***************************************************************************)
Truths == [qty : Nat, cost : Nat, known : BOOLEAN, won : Nat, rated : BOOLEAN,
           unseen : Nat, unrated : BOOLEAN]
Books == [qty : Nat, cost : Nat, gross : BOOLEAN, won : Nat, rated : BOOLEAN,
          inferred : Nat, opening : Nat]
SaleRows == [index : Nat, qty : Nat, matched : Nat, gross : BOOLEAN, proceeds : Nat, reported : BOOLEAN,
             cost : Nat, fx : Int \cup {Missing}, trueCost : Nat, trueKnown : BOOLEAN,
             trueFx : Int \cup {Missing}, allRated : BOOLEAN]
Trips == [open : BOOLEAN, valid : BOOLEAN, sales : SUBSET Nat, gain : Int, spent : Nat, received : Nat]

(* A part of an amount is at most the amount, and the whole is all of it. *)
LEMMA PortionBounds ==
    ASSUME NEW a \in Nat, NEW w \in Nat \ {0}, NEW q \in Nat, q <= w
    PROVE  Portion(a, q, w) \in Nat /\ Portion(a, q, w) <= a /\ Portion(a, w, w) = a
<1>1. a * q \in Nat /\ a * w \in Nat
  BY SMT
<1>2. (a * q) \div w \in Nat
  BY <1>1, SMT
<1>3. a * q <= a * w
  BY SMT
<1>4. (a * w) \div w = a
  BY SMT
<1>5. (a * q) \div w <= (a * w) \div w
  BY <1>1, <1>3, SMT
<1> QED
  BY <1>2, <1>4, <1>5 DEF Portion

LEMMA PortionWhole == \A a \in Nat, w \in Nat \ {0} : Portion(a, w, w) = a
  BY PortionBounds

(* What a sale takes from a book is a part of what is in it. *)
LEMMA RemovedTyped ==
    ASSUME NEW b \in Books, NEW q \in Nat \ {0}, NEW rate \in Rates \cup {Missing}
    PROVE  /\ Matched(b, q) \in Nat /\ Matched(b, q) <= b.qty /\ Matched(b, q) <= q
           /\ CostRemoved(b, q) \in Nat
           /\ WonRemoved(b, q, rate) \in Nat
<1>1. b.qty \in Nat /\ b.cost \in Nat /\ b.won \in Nat
  BY DEF Books
<1>2. Matched(b, q) \in Nat /\ Matched(b, q) <= b.qty /\ Matched(b, q) <= q
  BY <1>1 DEF Matched, Least
<1>3. CostRemoved(b, q) \in Nat
  BY <1>1, <1>2, PortionBounds DEF CostRemoved
<1>4. WonRemoved(b, q, rate) \in Nat
  BY <1>1, <1>2, PortionBounds DEF WonRemoved, WonSplit
<1> QED
  BY <1>2, <1>3, <1>4

LEMMA BoughtTyped ==
    ASSUME NEW t \in Truths, NEW q \in Nat, NEW paid \in Nat, NEW rate \in Rates \cup {Missing}
    PROVE  Bought(t, q, paid, rate) \in Truths
<1>1. rate # Missing => paid * rate \in Nat
  BY BookAssumption
<1>2. t.qty \in Nat /\ t.cost \in Nat /\ t.won \in Nat /\ t.unseen \in Nat /\ t.unrated \in BOOLEAN
  BY DEF Truths
<1>3. (IF rate = Missing THEN t.won ELSE t.won + paid * rate) \in Nat
  BY <1>1, <1>2
<1>4. (IF t.qty = 0 THEN TRUE ELSE t.known) \in BOOLEAN
  BY DEF Truths
<1>5. ((IF t.qty = 0 THEN TRUE ELSE t.rated) /\ rate # Missing) \in BOOLEAN
  OBVIOUS
<1>6. t.qty + q \in Nat /\ t.cost + paid \in Nat
  BY <1>2
<1> QED
  BY <1>2, <1>3, <1>4, <1>5, <1>6 DEF Bought, Truths

LEMMA BookBuyTyped ==
    ASSUME NEW b \in Books, NEW q \in Nat, NEW paid \in Nat, NEW reported \in BOOLEAN,
           NEW rate \in Rates \cup {Missing}
    PROVE  BookAfterBuy(b, q, paid, reported, rate) \in Books
<1>1. rate # Missing => paid * rate \in Nat
  BY BookAssumption
<1> QED
  BY <1>1 DEF BookAfterBuy, Books

LEMMA PartedTyped ==
    ASSUME NEW t \in Truths, NEW q \in Nat \ {0}, q <= t.qty, NEW rate
    PROVE  Parted(t, q, rate) \in Truths
<1>1. t.qty \in Nat \ {0} /\ t.cost \in Nat /\ t.won \in Nat
  BY DEF Truths
<1>2. t.cost - Portion(t.cost, q, t.qty) \in Nat /\ t.won - Portion(t.won, q, t.qty) \in Nat
  BY <1>1, PortionBounds
<1>3. t.qty - q \in Nat
  BY <1>1
<1> QED
  BY <1>2, <1>3 DEF Parted, Truths

LEMMA BookSaleTyped ==
    ASSUME NEW b \in Books, NEW q \in Nat \ {0}, NEW rate \in Rates \cup {Missing}, NEW index \in Nat
    PROVE  BookAfterSale(b, q, rate, index) \in Books
<1>1. b.qty \in Nat /\ b.cost \in Nat /\ b.won \in Nat /\ b.inferred \in Nat /\ b.opening \in Nat
  BY DEF Books
<1>2. CostRemoved(b, q) \in Nat /\ WonRemoved(b, q, rate) \in Nat
  BY RemovedTyped
<1>3. AtLeastZero(b.cost - CostRemoved(b, q)) \in Nat /\ AtLeastZero(b.won - WonRemoved(b, q, rate)) \in Nat
  BY <1>1, <1>2 DEF AtLeastZero
<1>4. Inferred(b, q) \in Nat
  BY <1>1 DEF Inferred, AtLeastZero
<1>5. AtLeastZero(b.qty + Inferred(b, q) - q) \in Nat
  BY <1>1, <1>4 DEF AtLeastZero
<1>6. \A left : CostLeft(b, q, left) \in Nat
  BY <1>3 DEF CostLeft
<1>7. OpeningAfter(b, q, index) \in Nat
  BY <1>1 DEF OpeningAfter
<1> QED
  BY <1>1, <1>3, <1>4, <1>5, <1>6, <1>7 DEF BookAfterSale, Books

LEMMA SaleRowTyped ==
    ASSUME NEW b \in Books, NEW t \in Truths, NEW q \in Nat \ {0}, q <= t.qty, NEW proceeds \in Nat,
           NEW reported \in BOOLEAN, NEW rate \in Rates \cup {Missing}, NEW index \in Nat
    PROVE  SaleRow(b, t, q, proceeds, reported, rate, index) \in SaleRows
<1>1. CostRemoved(b, q) \in Nat /\ WonRemoved(b, q, rate) \in Nat /\ Matched(b, q) \in Nat
  BY RemovedTyped
<1>2. rate # Missing => rate \in Nat
  BY BookAssumption
<1>3. WonSplit(b, rate) => CostRemoved(b, q) * rate - WonRemoved(b, q, rate) \in Int
  BY <1>1, <1>2 DEF WonSplit
<1>4. t.qty \in Nat \ {0} /\ t.cost \in Nat /\ t.won \in Nat
  BY DEF Truths
<1>5. Portion(t.cost, q, t.qty) \in Nat /\ Portion(t.won, q, t.qty) \in Nat
  BY <1>4, PortionBounds
<1>6. rate # Missing => Portion(t.cost, q, t.qty) * rate - Portion(t.won, q, t.qty) \in Int
  BY <1>2, <1>5
<1>7. b.gross \in BOOLEAN /\ t.known \in BOOLEAN /\ t.unrated \in BOOLEAN
  BY DEF Books, Truths
<1> QED
  BY <1>1, <1>3, <1>5, <1>6, <1>7 DEF SaleRow, SaleRows

LEMMA TripSaleTyped ==
    ASSUME NEW c \in Trips, NEW sale \in Nat, NEW row, row.cost \in Nat, row.proceeds \in Nat, NEW oversold
    PROVE  TripWithSale(c, sale, row, oversold) \in Trips
<1>1. c.gain + (IF row.reported THEN row.proceeds ELSE 0) - row.cost \in Int
  BY DEF Trips
<1>2. c.received + row.proceeds \in Nat /\ c.spent \in Nat /\ c.open \in BOOLEAN
  BY DEF Trips
<1>3. c.sales \cup {sale} \in SUBSET Nat
  BY DEF Trips
<1>4. (c.valid /\ ~oversold) \in BOOLEAN
  OBVIOUS
<1> QED
  BY <1>1, <1>2, <1>3, <1>4 DEF TripWithSale, Trips

LEMMA TypeMeans == BookTypeOK <=> /\ truth \in Truths /\ book \in Books /\ sales \in Seq(SaleRows)
                                  /\ made \in Nat /\ trips \cup {trip} \subseteq Trips
  BY DEF BookTypeOK, Truths, Books, SaleRows, Trips

LEMMA InitTyped == BookInit => BookTypeOK
  BY DEF BookInit, BookTypeOK, NoTrip

LEMMA ReceiveTyped ==
    ASSUME BookTypeOK, NEW q \in Quantities, ReceiveUnseen(q)
    PROVE  BookTypeOK'
<1>1. q \in Nat
  BY BookAssumption
<1>2. truth \in Truths /\ made \in Nat
  BY TypeMeans
<1>3. truth' \in Truths /\ made' \in Nat
  BY <1>1, <1>2 DEF ReceiveUnseen, Received, Truths
<1> QED
  BY <1>3 DEF ReceiveUnseen, BookTypeOK, Truths

LEMMA BuyTyped ==
    ASSUME BookTypeOK, NEW q \in Quantities, NEW paid \in Amounts, NEW reported \in BOOLEAN,
           NEW rate \in Rates \cup {Missing}, Buy(q, paid, reported, rate)
    PROVE  BookTypeOK'
<1>1. q \in Nat /\ paid \in Nat
  BY BookAssumption
<1>2. truth \in Truths /\ book \in Books /\ made \in Nat /\ trip \in Trips
  BY TypeMeans
<1>3. truth' \in Truths /\ book' \in Books /\ made' \in Nat
  BY <1>1, <1>2, BoughtTyped, BookBuyTyped DEF Buy
<1>4. TripAfterBuy(trip, book.qty = 0, paid) \in Trips
  BY <1>1, <1>2 DEF TripAfterBuy, Trips
<1> QED
  BY <1>3, <1>4 DEF Buy, BookTypeOK, Truths, Books, Trips

LEMMA SellTyped ==
    ASSUME BookTypeOK, NEW q \in Quantities, NEW proceeds \in Amounts, NEW reported \in BOOLEAN,
           NEW rate \in Rates \cup {Missing}, Sell(q, proceeds, reported, rate)
    PROVE  BookTypeOK'
<1>1. q \in Nat \ {0} /\ proceeds \in Nat /\ q <= truth.qty /\ made + 1 \in Nat
  BY BookAssumption, TypeMeans DEF Sell
<1>2. truth' \in Truths /\ book' \in Books
  BY <1>1, TypeMeans, PartedTyped, BookSaleTyped DEF Sell
<1>3. SaleRow(book, truth, q, proceeds, reported, rate, made + 1) \in SaleRows
  BY <1>1, TypeMeans, SaleRowTyped
<1>4. sales' \in Seq(SaleRows) /\ made' \in Nat
  BY <1>1, <1>3, TypeMeans DEF Sell
<1>5. Len(sales) + 1 \in Nat /\ trip \in Trips
  BY TypeMeans
<1>6. \A row \in SaleRows : TripWithSale(trip, Len(sales) + 1, row, q > book.qty) \in Trips
  <2> SUFFICES ASSUME NEW row \in SaleRows
               PROVE  TripWithSale(trip, Len(sales) + 1, row, q > book.qty) \in Trips
    OBVIOUS
  <2>1. row.cost \in Nat /\ row.proceeds \in Nat
    BY DEF SaleRows
  <2> QED
    BY <1>5, <2>1, TripSaleTyped
<1>7. trip' \in Trips /\ trips' \subseteq Trips
  BY <1>3, <1>6, TypeMeans DEF Sell, Trips, NoTrip
<1> QED
  BY <1>2, <1>4, <1>7 DEF BookTypeOK, Truths, Books, SaleRows, Trips

(* Every figure keeps its type: quantities, costs and won never go below    *)
(* zero, whatever is sold.                                                  *)
THEOREM BookTyped == BookSpec => []BookTypeOK
<1>1. BookTypeOK /\ [BookNext]_bookVars => BookTypeOK'
  <2>1. ASSUME BookTypeOK, BookNext PROVE BookTypeOK'
    BY <2>1, ReceiveTyped, BuyTyped, SellTyped DEF BookNext
  <2>2. ASSUME BookTypeOK, UNCHANGED bookVars PROVE BookTypeOK'
    BY <2>2 DEF BookTypeOK, bookVars
  <2> QED
    BY <2>1, <2>2
<1> QED
  BY InitTyped, <1>1, PTL DEF BookSpec

(***************************************************************************)
(* The invariant.                                                          *)
(***************************************************************************)
LEMMA InitInv == BookInit => BookInv
<1> SUFFICES ASSUME BookInit PROVE BookInv
  OBVIOUS
<1>1. Shortfall /\ AgreedCost /\ AgreedWon
  BY DEF BookInit, Shortfall, AgreedCost, AgreedWon, Drift
<1>2. SalesAgree
  BY DEF BookInit, SalesAgree
<1> QED
  BY <1>1, <1>2, InitTyped DEF BookInv

(* Shares received unseen are missing from the book: nothing is complete. *)
LEMMA ReceiveInv ==
    ASSUME BookInv, NEW q \in Quantities, ReceiveUnseen(q)
    PROVE  BookInv'
<1>1. BookTypeOK /\ BookTypeOK'
  BY ReceiveTyped DEF BookInv
<1>2. q \in Nat \ {0} /\ truth \in Truths /\ book \in Books /\ made \in Nat /\ sales \in Seq(SaleRows)
  BY <1>1, TypeMeans, BookAssumption
<1>3. truth.qty \in Nat /\ truth.unseen \in Nat /\ book.qty \in Nat /\ book.inferred \in Nat
  BY <1>2 DEF Truths, Books
<1>4. /\ truth'.qty = truth.qty + q /\ truth'.unseen = truth.unseen + q /\ truth'.rated = truth.rated
      /\ book' = book /\ sales' = sales /\ made' = made + 1
  BY DEF ReceiveUnseen, Received
<1>5. Shortfall' /\ Drift'
  <2>1. truth.qty - book.qty = truth.unseen - book.inferred /\ book.qty <= truth.qty
    BY DEF BookInv, Shortfall
  <2>2. book'.qty = book.qty /\ book'.inferred = book.inferred
    BY <1>4
  <2> QED
    BY <1>2, <1>3, <1>4, <2>1, <2>2 DEF Shortfall, Drift
<1>6. AgreedCost' /\ AgreedWon'
  BY <1>4, <1>5 DEF BookInv, AgreedCost, AgreedWon
<1>7. SalesAgree'
  <2> SUFFICES ASSUME NEW i \in 1..Len(sales)
               PROVE  sales[i].index <= made'
    BY <1>4, <1>5 DEF SalesAgree, Complete
  <2>1. sales[i].index <= made
    BY DEF BookInv, SalesAgree
  <2>2. sales[i] \in SaleRows
    BY <1>2
  <2>3. sales[i].index \in Nat
    BY <2>2 DEF SaleRows
  <2> QED
    BY <1>2, <1>4, <2>1, <2>3
<1> QED
  BY <1>1, <1>5, <1>6, <1>7 DEF BookInv

(* A purchase adds the same shares, cost and won to both. *)
LEMMA BuyInv ==
    ASSUME BookInv, NEW q \in Quantities, NEW paid \in Amounts, NEW reported \in BOOLEAN,
           NEW rate \in Rates \cup {Missing}, Buy(q, paid, reported, rate)
    PROVE  BookInv'
<1>1. BookTypeOK /\ BookTypeOK'
  BY BuyTyped DEF BookInv
<1>2. q \in Nat \ {0} /\ paid \in Nat /\ truth \in Truths /\ book \in Books /\ made \in Nat /\ sales \in Seq(SaleRows)
  BY <1>1, TypeMeans, BookAssumption
<1>3. /\ truth.qty \in Nat /\ truth.cost \in Nat /\ truth.won \in Nat /\ truth.unseen \in Nat
      /\ book.qty \in Nat /\ book.cost \in Nat /\ book.won \in Nat /\ book.inferred \in Nat
  BY <1>2 DEF Truths, Books
<1>4. /\ truth'.qty = truth.qty + q /\ truth'.cost = truth.cost + paid
      /\ truth'.unseen = truth.unseen /\ truth'.unrated = truth.unrated
      /\ truth'.known = (IF truth.qty = 0 THEN TRUE ELSE truth.known)
      /\ truth'.rated = ((IF truth.qty = 0 THEN TRUE ELSE truth.rated) /\ rate # Missing)
      /\ rate # Missing => truth'.won = truth.won + paid * rate
  BY DEF Buy, Bought
<1>5. /\ book'.qty = book.qty + q /\ book'.inferred = book.inferred /\ book'.opening = book.opening
      /\ reported => book'.cost = book.cost + paid
      /\ book'.gross = ((IF book.qty = 0 THEN TRUE ELSE book.gross) /\ reported)
      /\ book'.rated = (book.rated /\ rate # Missing)
      /\ rate # Missing /\ reported => book'.won = book.won + paid * rate
  BY DEF Buy, BookAfterBuy
<1>6. sales' = sales /\ made' = made + 1
  BY DEF Buy
<1>7. Shortfall' /\ (Drift' <=> Drift) /\ truth'.qty > 0
  BY <1>2, <1>3, <1>4, <1>5 DEF BookInv, Shortfall, Drift
<1>8. AgreedCost'
  <2> SUFFICES ASSUME ~Drift
               PROVE  truth'.known /\ (book'.gross => book'.cost = truth'.cost)
    BY <1>2, <1>3, <1>4, <1>7 DEF AgreedCost
  <2>1. truth'.known
    BY <1>3, <1>4 DEF BookInv, AgreedCost
  <2>2. ASSUME book'.gross PROVE book.cost = truth.cost /\ reported
    BY <1>3, <1>5, <2>2 DEF BookInv, AgreedCost, Drift
  <2> QED
    BY <1>4, <1>5, <2>1, <2>2
<1>9. AgreedWon'
  <2>1. book'.rated => truth'.rated
    BY <1>4, <1>5 DEF BookInv, AgreedWon
  <2>2. ASSUME ~Drift, book'.gross, book'.rated, ~truth.unrated
        PROVE  book'.won = truth'.won
    <3>1. book.won = truth.won /\ reported /\ rate # Missing
      BY <1>3, <1>5, <2>2 DEF BookInv, AgreedWon, Drift
    <3> QED
      BY <1>4, <1>5, <3>1
  <2> QED
    BY <1>2, <1>3, <1>4, <1>7, <2>1, <2>2 DEF AgreedWon
<1>10. SalesAgree'
  <2> SUFFICES ASSUME NEW i \in 1..Len(sales)
               PROVE  /\ sales[i].index <= made'
                      /\ Complete(sales[i])' => Complete(sales[i])
    BY <1>6 DEF BookInv, SalesAgree
  <2>1. sales[i].index <= made
    BY DEF BookInv, SalesAgree
  <2>2. sales[i] \in SaleRows
    BY <1>2
  <2>3. sales[i].index \in Nat
    BY <2>2 DEF SaleRows
  <2> QED
    BY <1>2, <1>5, <1>6, <1>7, <2>1, <2>3 DEF Complete
<1> QED
  BY <1>1, <1>7, <1>8, <1>9, <1>10 DEF BookInv

(* What a sale does to the quantities. *)
LEMMA SellQuantities ==
    ASSUME BookTypeOK, Shortfall, NEW q \in Quantities, NEW proceeds \in Amounts, NEW reported \in BOOLEAN,
           NEW rate \in Rates \cup {Missing}, Sell(q, proceeds, reported, rate)
    PROVE  /\ Shortfall'
           /\ truth'.qty = truth.qty - q
           /\ q <= book.qty => /\ Matched(book, q) = q /\ Inferred(book, q) = 0
                               /\ book'.qty = book.qty - q /\ book'.opening = book.opening
           /\ q > book.qty => /\ Matched(book, q) < q
                              /\ book'.qty = 0 /\ book'.cost = 0 /\ book'.won = 0
                              /\ book'.opening = made + 1
<1>1. q \in Nat \ {0} /\ q <= truth.qty /\ truth \in Truths /\ book \in Books /\ made \in Nat
  BY TypeMeans, BookAssumption DEF Sell
<1>2. /\ truth.qty \in Nat /\ truth.unseen \in Nat
      /\ book.qty \in Nat /\ book.inferred \in Nat
  BY <1>1 DEF Truths, Books
<1>3. truth'.qty = truth.qty - q /\ truth'.unseen = truth.unseen
  BY DEF Sell, Parted
<1>4. q <= book.qty => Matched(book, q) = q /\ Inferred(book, q) = 0
  BY <1>1, <1>2 DEF Matched, Least, Inferred, AtLeastZero
<1>5. q > book.qty => Matched(book, q) < q /\ Inferred(book, q) = q - book.qty
  BY <1>1, <1>2 DEF Matched, Least, Inferred, AtLeastZero
<1>6. /\ book'.qty = AtLeastZero(book.qty + Inferred(book, q) - q)
      /\ book'.inferred = book.inferred + Inferred(book, q)
      /\ book'.opening = OpeningAfter(book, q, made + 1)
      /\ book'.cost = CostLeft(book, q, AtLeastZero(book.qty + Inferred(book, q) - q))
      /\ AtLeastZero(book.qty + Inferred(book, q) - q) = 0 => book'.won = 0
  BY DEF Sell, BookAfterSale
<1>7. CASE q <= book.qty
  <2>1. book'.qty = book.qty - q /\ book'.inferred = book.inferred /\ book'.opening = book.opening
    BY <1>1, <1>2, <1>4, <1>6, <1>7 DEF AtLeastZero, OpeningAfter
  <2>2. Shortfall'
    BY <1>1, <1>2, <1>3, <1>7, <2>1 DEF Shortfall
  <2> QED
    BY <1>1, <1>2, <1>3, <1>4, <1>7, <2>1, <2>2
<1>8. CASE q > book.qty
  <2>1. AtLeastZero(book.qty + Inferred(book, q) - q) = 0
    BY <1>1, <1>2, <1>5, <1>8 DEF AtLeastZero
  <2>2. book'.qty = 0 /\ book'.cost = 0 /\ book'.won = 0 /\ book'.opening = made + 1
    BY <1>1, <1>2, <1>5, <1>6, <1>8, <2>1 DEF CostLeft, OpeningAfter
  <2>3. Shortfall'
    BY <1>1, <1>2, <1>3, <1>5, <1>6, <1>8, <2>2 DEF Shortfall
  <2> QED
    BY <1>1, <1>2, <1>3, <1>5, <1>8, <2>2, <2>3
<1> QED
  BY <1>1, <1>2, <1>7, <1>8

(* A sale while the quantities agree takes the same from both, and what it  *)
(* reports is what it took.                                                 *)
LEMMA SellAgreed ==
    ASSUME BookInv, ~Drift, NEW q \in Quantities, NEW proceeds \in Amounts, NEW reported \in BOOLEAN,
           NEW rate \in Rates \cup {Missing}, Sell(q, proceeds, reported, rate)
    PROVE  /\ ~Drift' /\ book'.opening = book.opening
           /\ AgreedCost' /\ AgreedWon'
           /\ LET s == SaleRow(book, truth, q, proceeds, reported, rate, made + 1)
              IN  s.gross => /\ s.trueKnown /\ s.cost = s.trueCost
                             /\ s.allRated /\ s.fx # Missing => s.fx = s.trueFx
<1>1. BookTypeOK /\ Shortfall
  BY DEF BookInv
<1>2. q \in Nat \ {0} /\ q <= truth.qty /\ truth \in Truths /\ book \in Books
  BY <1>1, TypeMeans, BookAssumption DEF Sell
<1>3. /\ truth.qty \in Nat \ {0} /\ truth.cost \in Nat /\ truth.won \in Nat
      /\ book.cost \in Nat /\ book.won \in Nat /\ book.qty = truth.qty
  BY <1>2 DEF Truths, Books, Drift
<1>4. /\ truth'.qty = truth.qty - q /\ book'.qty = truth.qty - q
      /\ Matched(book, q) = q /\ Inferred(book, q) = 0 /\ book'.opening = book.opening
  BY <1>1, <1>2, <1>3, SellQuantities
<1>5. ~Drift'
  BY <1>4 DEF Drift
<1>6. truth.known /\ (book.gross => book.cost = truth.cost)
      /\ (book.rated => truth.rated)
      /\ (book.gross /\ book.rated /\ ~truth.unrated => book.won = truth.won)
  BY <1>3 DEF BookInv, AgreedCost, AgreedWon
<1>7. /\ CostRemoved(book, q) = Portion(book.cost, q, truth.qty)
      /\ WonSplit(book, rate) <=> book.rated /\ rate # Missing
      /\ WonSplit(book, rate) => WonRemoved(book, q, rate) = Portion(book.won, q, truth.qty)
  BY <1>3, <1>4 DEF CostRemoved, WonRemoved, WonSplit
<1>8. /\ truth'.known = truth.known /\ truth'.rated = truth.rated
      /\ truth'.cost = truth.cost - Portion(truth.cost, q, truth.qty)
      /\ truth'.won = truth.won - Portion(truth.won, q, truth.qty)
      /\ truth'.unrated = (truth.unrated \/ rate = Missing)
      /\ book'.gross = book.gross /\ book'.rated = book.rated
  BY DEF Sell, Parted, BookAfterSale
<1>9. AtLeastZero(book.qty + Inferred(book, q) - q) = truth.qty - q
  BY <1>2, <1>3, <1>4 DEF AtLeastZero
<1>10. /\ book'.cost = (IF truth.qty - q > 0 THEN AtLeastZero(book.cost - CostRemoved(book, q)) ELSE 0)
       /\ book'.won = (IF truth.qty - q > 0 /\ WonSplit(book, rate)
                       THEN AtLeastZero(book.won - WonRemoved(book, q, rate)) ELSE 0)
  BY <1>9 DEF Sell, BookAfterSale, CostLeft
<1>11. \A a \in Nat : /\ Portion(a, q, truth.qty) \in Nat /\ Portion(a, q, truth.qty) <= a
                      /\ Portion(a, truth.qty, truth.qty) = a
  BY <1>2, <1>3, PortionBounds
<1>12. truth'.qty = 0 => truth'.cost = 0 /\ truth'.won = 0 /\ book'.cost = 0 /\ book'.won = 0
  <2> SUFFICES ASSUME truth'.qty = 0
               PROVE  truth'.cost = 0 /\ truth'.won = 0 /\ book'.cost = 0 /\ book'.won = 0
    OBVIOUS
  <2>1. q = truth.qty
    BY <1>2, <1>3, <1>4
  <2> QED
    BY <1>3, <1>8, <1>10, <1>11, <2>1
<1>13. ASSUME book.gross PROVE book'.cost = truth'.cost
  <2>1. CASE truth.qty - q > 0
    BY <1>3, <1>6, <1>7, <1>8, <1>10, <1>11, <1>13, <2>1 DEF AtLeastZero
  <2>2. CASE ~(truth.qty - q > 0)
    BY <1>2, <1>3, <1>4, <1>10, <1>12, <2>2
  <2> QED
    BY <2>1, <2>2
<1>14. ASSUME book.gross, book.rated, ~truth'.unrated PROVE book'.won = truth'.won
  <2>1. rate # Missing /\ ~truth.unrated /\ book.won = truth.won
    BY <1>6, <1>8, <1>14
  <2>2. CASE truth.qty - q > 0
    BY <1>3, <1>7, <1>8, <1>10, <1>11, <1>14, <2>1, <2>2 DEF AtLeastZero
  <2>3. CASE ~(truth.qty - q > 0)
    BY <1>2, <1>3, <1>4, <1>10, <1>12, <2>3
  <2> QED
    BY <2>2, <2>3
<1>15. AgreedCost'
  BY <1>6, <1>8, <1>12, <1>13 DEF AgreedCost
<1>16. AgreedWon'
  BY <1>6, <1>8, <1>12, <1>14 DEF AgreedWon
<1>17. LET s == SaleRow(book, truth, q, proceeds, reported, rate, made + 1)
       IN  s.gross => /\ s.trueKnown /\ s.cost = s.trueCost
                      /\ s.allRated /\ s.fx # Missing => s.fx = s.trueFx
  BY <1>6, <1>7 DEF SaleRow
<1> QED
  BY <1>4, <1>5, <1>15, <1>16, <1>17

(* A sale under a difference: either the difference stays, or the sale      *)
(* infers an opening that empties both and voids every earlier basis.       *)
LEMMA SellDrifted ==
    ASSUME BookInv, Drift, NEW q \in Quantities, NEW proceeds \in Amounts, NEW reported \in BOOLEAN,
           NEW rate \in Rates \cup {Missing}, Sell(q, proceeds, reported, rate)
    PROVE  /\ AgreedCost' /\ AgreedWon'
           /\ ~Drift' => Matched(book, q) < q /\ book'.opening = made + 1
<1>1. BookTypeOK /\ Shortfall
  BY DEF BookInv
<1>2. q \in Nat \ {0} /\ q <= truth.qty /\ truth \in Truths /\ book \in Books
  BY <1>1, TypeMeans, BookAssumption DEF Sell
<1>3. truth.qty \in Nat \ {0} /\ truth.cost \in Nat /\ truth.won \in Nat /\ book.qty \in Nat
  BY <1>2 DEF Truths, Books
<1>4. book'.rated => truth'.rated
  BY DEF BookInv, AgreedWon, Sell, Parted, BookAfterSale
<1>5. CASE q <= book.qty
  <2>1. Drift'
    BY <1>1, <1>2, <1>3, <1>5, SellQuantities DEF Drift
  <2> QED
    BY <1>4, <2>1 DEF AgreedCost, AgreedWon
<1>6. CASE q > book.qty
  <2>1. /\ truth'.qty = truth.qty - q /\ Matched(book, q) < q /\ book'.opening = made + 1
        /\ book'.qty = 0 /\ book'.cost = 0 /\ book'.won = 0
    BY <1>1, <1>6, SellQuantities
  <2>2. truth'.qty = 0 => truth'.cost = 0 /\ truth'.won = 0
    <3>1. /\ truth'.cost = truth.cost - Portion(truth.cost, q, truth.qty)
          /\ truth'.won = truth.won - Portion(truth.won, q, truth.qty)
      BY DEF Sell, Parted
    <3>2. \A a \in Nat : Portion(a, truth.qty, truth.qty) = a
      BY <1>3, PortionBounds
    <3> QED
      BY <1>2, <1>3, <2>1, <3>1, <3>2
  <2>3. ~Drift' => truth'.qty = 0
    BY <2>1 DEF Drift
  <2> QED
    BY <1>4, <2>1, <2>2, <2>3 DEF AgreedCost, AgreedWon
<1> QED
  BY <1>2, <1>3, <1>5, <1>6

LEMMA SellInv ==
    ASSUME BookInv, NEW q \in Quantities, NEW proceeds \in Amounts, NEW reported \in BOOLEAN,
           NEW rate \in Rates \cup {Missing}, Sell(q, proceeds, reported, rate)
    PROVE  BookInv'
<1>1. BookTypeOK /\ Shortfall /\ SalesAgree
  BY DEF BookInv
<1>2. BookTypeOK' /\ Shortfall'
  BY <1>1, SellTyped, SellQuantities
<1>3. AgreedCost' /\ AgreedWon'
  BY SellAgreed, SellDrifted
<1>4. made \in Nat /\ sales \in Seq(SaleRows) /\ book \in Books /\ q \in Nat \ {0}
  BY <1>1, TypeMeans, BookAssumption
<1>5. PICK row : row = SaleRow(book, truth, q, proceeds, reported, rate, made + 1)
  OBVIOUS
<1>6. sales' = Append(sales, row) /\ made' = made + 1
  BY <1>5 DEF Sell
<1>7. row.index = made + 1 /\ row.qty = q /\ row.matched = Matched(book, q) /\ row.gross = book.gross
  BY <1>5 DEF SaleRow
<1>8. ASSUME ~Drift', row.gross, row.matched >= row.qty
      PROVE  /\ row.trueKnown /\ row.cost = row.trueCost
             /\ row.allRated /\ row.fx # Missing => row.fx = row.trueFx
  <2>1. CASE Drift
    <3>1. Matched(book, q) < q
      BY <1>8, <2>1, SellDrifted
    <3>2. Matched(book, q) \in Nat
      BY <1>4, RemovedTyped
    <3> QED
      BY <1>4, <1>7, <1>8, <3>1, <3>2
  <2>2. CASE ~Drift
    BY <1>5, <1>8, <2>2, SellAgreed
  <2> QED
    BY <2>1, <2>2
<1>9. ASSUME NEW s \in SaleRows, s.index <= made, ~Drift', s.index >= book'.opening
      PROVE  ~Drift /\ s.index >= book.opening
  <2>1. s.index \in Nat
    BY DEF SaleRows
  <2>2. CASE Drift
    BY <1>4, <1>9, <2>1, <2>2, SellDrifted
  <2>3. CASE ~Drift
    BY <1>9, <2>3, SellAgreed
  <2> QED
    BY <2>2, <2>3
<1>10. SalesAgree'
  <2> SUFFICES ASSUME NEW i \in 1..Len(sales')
               PROVE  /\ sales'[i].index <= made'
                      /\ (/\ sales'[i].matched >= sales'[i].qty /\ sales'[i].gross
                          /\ sales'[i].index >= book'.opening /\ ~Drift')
                         => /\ sales'[i].trueKnown /\ sales'[i].cost = sales'[i].trueCost
                            /\ sales'[i].allRated /\ sales'[i].fx # Missing => sales'[i].fx = sales'[i].trueFx
    BY DEF SalesAgree, Complete
  <2>1. CASE i \in 1..Len(sales)
    <3>1. PICK s : s = sales[i]
      OBVIOUS
    <3>2. sales'[i] = s /\ s \in SaleRows
      BY <1>4, <1>6, <2>1, <3>1
    <3>3. s.index <= made
      BY <1>1, <2>1, <3>1 DEF SalesAgree
    <3>4. Complete(s) => /\ s.trueKnown /\ s.cost = s.trueCost
                         /\ s.allRated /\ s.fx # Missing => s.fx = s.trueFx
      BY <1>1, <2>1, <3>1 DEF SalesAgree
    <3>5. s.index \in Nat
      BY <3>2 DEF SaleRows
    <3>6. s.index <= made'
      BY <1>4, <1>6, <3>3, <3>5
    <3> QED
      BY <1>9, <3>2, <3>3, <3>4, <3>6 DEF Complete
  <2>2. CASE i = Len(sales) + 1
    <3>1. sales'[i] = row
      BY <1>4, <1>6, <2>2
    <3> QED
      BY <1>4, <1>6, <1>7, <1>8, <3>1
  <2> QED
    BY <1>4, <1>6, <2>1, <2>2
<1> QED
  BY <1>2, <1>3, <1>10 DEF BookInv

(***************************************************************************)
(* Round trips.  While one is open, what it has gained is what it took in  *)
(* less the part of its spending that is no longer in the book.            *)
(***************************************************************************)
Settled(c) == \A i \in c.sales : sales[i].gross /\ sales[i].reported

TripInv ==
    /\ book.qty = 0 => book.cost = 0 /\ ~trip.open
    /\ \A c \in trips \cup {trip} : c.sales \subseteq 1..Len(sales)
    /\ trip.open /\ book.gross /\ Settled(trip) => trip.gain = trip.received - trip.spent + book.cost
    /\ \A c \in trips : Settled(c) => c.gain = c.received - c.spent

LEMMA TripInit == BookInit => TripInv
  BY DEF BookInit, TripInv, NoTrip

LEMMA TripBuy ==
    ASSUME BookTypeOK, TripInv, NEW q \in Quantities, NEW paid \in Amounts, NEW reported \in BOOLEAN,
           NEW rate \in Rates \cup {Missing}, Buy(q, paid, reported, rate)
    PROVE  TripInv'
<1>1. q \in Nat \ {0} /\ paid \in Nat /\ book \in Books /\ trip \in Trips
  BY TypeMeans, BookAssumption
<1>2. book.qty \in Nat /\ book.cost \in Nat /\ trip.gain \in Int /\ trip.received \in Nat /\ trip.spent \in Nat
  BY <1>1 DEF Books, Trips
<1>3. /\ book'.qty = book.qty + q
      /\ reported => book'.cost = book.cost + paid
      /\ book'.gross = ((IF book.qty = 0 THEN TRUE ELSE book.gross) /\ reported)
      /\ sales' = sales /\ trips' = trips
      /\ trip' = TripAfterBuy(trip, book.qty = 0, paid)
  BY DEF Buy, BookAfterBuy
<1>4. book'.qty > 0
  BY <1>1, <1>2, <1>3
<1>5. CASE book.qty = 0
  <2>1. /\ trip'.sales = {} /\ trip'.gain = 0 /\ trip'.spent = paid /\ trip'.received = 0
    BY <1>3, <1>5 DEF TripAfterBuy
  <2>2. book.cost = 0
    BY <1>5 DEF TripInv
  <2> QED
    BY <1>1, <1>2, <1>3, <1>4, <2>1, <2>2 DEF TripInv, Settled
<1>6. CASE book.qty # 0 /\ trip.open
  <2>1. /\ trip'.sales = trip.sales /\ trip'.gain = trip.gain /\ trip'.spent = trip.spent + paid
        /\ trip'.received = trip.received
    BY <1>1, <1>3, <1>6 DEF TripAfterBuy, Trips
  <2>2. book'.gross => book.gross /\ reported
    BY <1>3, <1>6
  <2>3. book'.gross /\ Settled(trip)' => trip'.gain = trip'.received - trip'.spent + book'.cost
    BY <1>1, <1>2, <1>3, <1>6, <2>1, <2>2 DEF TripInv, Settled
  <2> QED
    BY <1>3, <1>4, <2>1, <2>3 DEF TripInv, Settled
<1>7. CASE book.qty # 0 /\ ~trip.open
  <2>1. trip' = trip
    BY <1>3, <1>7 DEF TripAfterBuy
  <2> QED
    BY <1>3, <1>4, <1>7, <2>1 DEF TripInv, Settled
<1> QED
  BY <1>5, <1>6, <1>7

LEMMA TripSell ==
    ASSUME BookTypeOK, Shortfall, TripInv, NEW q \in Quantities, NEW proceeds \in Amounts, NEW reported \in BOOLEAN,
           NEW rate \in Rates \cup {Missing}, Sell(q, proceeds, reported, rate)
    PROVE  TripInv'
<1>1. /\ q \in Nat \ {0} /\ proceeds \in Nat /\ book \in Books /\ trip \in Trips
      /\ sales \in Seq(SaleRows) /\ made \in Nat /\ truth \in Truths /\ q <= truth.qty
  BY TypeMeans, BookAssumption DEF Sell
<1>2. /\ book.qty \in Nat /\ book.cost \in Nat
      /\ trip.gain \in Int /\ trip.received \in Nat /\ trip.spent \in Nat
  BY <1>1 DEF Books, Trips
<1>3. PICK row : row = SaleRow(book, truth, q, proceeds, reported, rate, made + 1)
  OBVIOUS
<1>4. PICK n : n = Len(sales) + 1
  OBVIOUS
<1>5. PICK c : c = TripWithSale(trip, n, row, q > book.qty)
  OBVIOUS
<1>6. /\ sales' = Append(sales, row)
      /\ trip' = (IF ~trip.open \/ book.qty <= q THEN NoTrip ELSE c)
      /\ trips' = (IF trip.open /\ book.qty <= q /\ c.valid THEN trips \cup {c} ELSE trips)
      /\ book'.gross = book.gross
  BY <1>3, <1>4, <1>5 DEF Sell, BookAfterSale
<1>7. /\ row.gross = book.gross /\ row.reported = reported /\ row.proceeds = proceeds
      /\ row.cost = CostRemoved(book, q)
  BY <1>3 DEF SaleRow
<1>8. /\ c.open = trip.open /\ c.sales = trip.sales \cup {n} /\ c.spent = trip.spent
      /\ c.valid = (trip.valid /\ ~(q > book.qty))
      /\ c.gain = trip.gain + (IF reported THEN proceeds ELSE 0) - CostRemoved(book, q)
      /\ c.received = trip.received + proceeds
  BY <1>5, <1>7 DEF TripWithSale
<1>9. /\ n \in Nat /\ Len(sales') = n /\ sales'[n] = row
      /\ \A i \in 1..Len(sales) : sales'[i] = sales[i] /\ i \in 1..n
  BY <1>1, <1>4, <1>6
<1>10. \A d \in trips \cup {trip} : /\ d.sales \subseteq 1..n
                                    /\ (\A i \in d.sales : sales'[i].gross /\ sales'[i].reported) <=> Settled(d)
  BY <1>9 DEF TripInv, Settled
<1>11. c.sales \subseteq 1..n
  BY <1>1, <1>4, <1>8, <1>10
<1>12. (\A i \in c.sales : sales'[i].gross /\ sales'[i].reported) => Settled(trip) /\ book.gross /\ reported
  BY <1>7, <1>8, <1>9, <1>10
<1>13. ASSUME trip.open, \A i \in c.sales : sales'[i].gross /\ sales'[i].reported
       PROVE  c.gain = c.received - c.spent + book.cost - CostRemoved(book, q)
  <2>1. trip.gain = trip.received - trip.spent + book.cost /\ reported
    BY <1>12, <1>13 DEF TripInv
  <2>2. CostRemoved(book, q) \in Nat
    BY <1>1, RemovedTyped
  <2>3. c.gain = trip.gain + proceeds - CostRemoved(book, q)
    BY <1>8, <2>1
  <2>4. c.received = trip.received + proceeds /\ c.spent = trip.spent
    BY <1>8
  <2> QED
    BY <1>1, <1>2, <2>1, <2>2, <2>3, <2>4
<1>14. CASE book.qty <= q
  <2>1. book'.qty = 0
    BY <1>1, <1>2, <1>14, SellQuantities
  <2>2. book'.cost = 0
    <3>1. AtLeastZero(book.qty + Inferred(book, q) - q) = 0
      BY <2>1 DEF Sell, BookAfterSale
    <3> QED
      BY <3>1 DEF Sell, BookAfterSale, CostLeft
  <2>3. trip' = NoTrip
    BY <1>6, <1>14
  <2>4. ASSUME trip.open, c.valid, \A i \in c.sales : sales'[i].gross /\ sales'[i].reported
        PROVE  c.gain = c.received - c.spent
    <3>1. q = book.qty
      <4>1. ~(q > book.qty)
        BY <1>8, <2>4
      <4> QED
        BY <1>1, <1>2, <1>14, <4>1
    <3>2. CostRemoved(book, q) = book.cost
      <4>1. Portion(book.cost, book.qty, book.qty) = book.cost
        BY <1>1, <1>2, <3>1, PortionWhole
      <4> QED
        BY <1>1, <3>1, <4>1 DEF CostRemoved, Matched, Least
    <3>3. c.received \in Int /\ c.spent \in Int
      BY <1>1, <1>2, <1>8
    <3> QED
      BY <1>2, <1>13, <2>4, <3>2, <3>3
  <2>5. \A d \in trips' : d.sales \subseteq 1..n
    BY <1>6, <1>10, <1>11
  <2>6. \A d \in trips' : (\A i \in d.sales : sales'[i].gross /\ sales'[i].reported) => d.gain = d.received - d.spent
    BY <1>6, <1>10, <2>4 DEF TripInv
  <2> QED
    BY <1>9, <2>1, <2>2, <2>3, <2>5, <2>6 DEF TripInv, Settled, NoTrip
<1>15. CASE q < book.qty
  <2>1. book'.qty = book.qty - q /\ book'.qty > 0 /\ Inferred(book, q) = 0 /\ Matched(book, q) = q
    BY <1>1, <1>2, <1>15, SellQuantities
  <2>2. book'.cost = book.cost - CostRemoved(book, q)
    <3>1. AtLeastZero(book.qty + Inferred(book, q) - q) > 0
      <4>1. book.qty + Inferred(book, q) - q > 0
        BY <1>1, <1>2, <1>15, <2>1
      <4> QED
        BY <1>1, <1>2, <2>1, <4>1 DEF AtLeastZero
    <3>2. CostRemoved(book, q) \in Nat /\ CostRemoved(book, q) <= book.cost
      <4>1. book.qty \in Nat \ {0} /\ q \in Nat /\ q <= book.qty
        BY <1>1, <1>2, <1>15
      <4>2. Portion(book.cost, q, book.qty) \in Nat /\ Portion(book.cost, q, book.qty) <= book.cost
        BY <1>2, <4>1, PortionBounds
      <4>3. CostRemoved(book, q) = Portion(book.cost, q, book.qty)
        BY <2>1, <4>1 DEF CostRemoved
      <4> QED
        BY <4>2, <4>3
    <3> QED
      BY <1>2, <3>1, <3>2 DEF Sell, BookAfterSale, CostLeft, AtLeastZero
  <2>3. trips' = trips /\ trip' = (IF ~trip.open THEN NoTrip ELSE c)
    BY <1>1, <1>2, <1>6, <1>15
  <2>4. \A d \in trips' \cup {trip'} : d.sales \subseteq 1..n
    BY <1>10, <1>11, <2>3 DEF NoTrip
  <2>5. \A d \in trips' : (\A i \in d.sales : sales'[i].gross /\ sales'[i].reported) => d.gain = d.received - d.spent
    BY <1>10, <2>3 DEF TripInv
  <2>6. ASSUME trip'.open, \A i \in trip'.sales : sales'[i].gross /\ sales'[i].reported
        PROVE  trip'.gain = trip'.received - trip'.spent + book'.cost
    <3>1. trip' = c /\ trip.open
      BY <2>3, <2>6 DEF NoTrip
    <3>2. CostRemoved(book, q) \in Nat /\ c.received \in Int /\ c.spent \in Int
      BY <1>1, <1>2, <1>8, RemovedTyped
    <3> QED
      BY <1>2, <1>13, <2>2, <2>6, <3>1, <3>2
  <2> QED
    BY <1>9, <2>1, <2>4, <2>5, <2>6 DEF TripInv, Settled
<1> QED
  BY <1>1, <1>2, <1>14, <1>15

LEMMA TripStep == BookInv /\ TripInv /\ [BookNext]_bookVars => TripInv'
<1> SUFFICES ASSUME BookInv, TripInv, [BookNext]_bookVars PROVE TripInv'
  OBVIOUS
<1>1. BookTypeOK /\ Shortfall
  BY DEF BookInv
<1>2. ASSUME NEW q \in Quantities, ReceiveUnseen(q) PROVE TripInv'
  BY <1>2 DEF ReceiveUnseen, TripInv, Settled
<1>3. CASE UNCHANGED bookVars
  BY <1>3 DEF TripInv, Settled, bookVars
<1> QED
  BY <1>1, <1>2, <1>3, TripBuy, TripSell DEF BookNext

(***************************************************************************)
(* The theorems.                                                           *)
(***************************************************************************)
LEMMA BookStep == BookInv /\ [BookNext]_bookVars => BookInv'
<1>1. ASSUME BookInv, BookNext PROVE BookInv'
  BY <1>1, ReceiveInv, BuyInv, SellInv DEF BookNext
<1>2. ASSUME BookInv, UNCHANGED bookVars PROVE BookInv'
  BY <1>2 DEF BookInv, BookTypeOK, Shortfall, AgreedCost, AgreedWon, SalesAgree, Complete, Drift, bookVars
<1> QED
  BY <1>1, <1>2

LEMMA BookInvMeans == BookInv => CompleteIsTrueAverage /\ FxSplitOfRated
  BY DEF BookInv, SalesAgree, CompleteIsTrueAverage, FxSplitOfRated

(* No sale is reported with a complete basis unless its cost is the true    *)
(* moving average over shares of known cost.                                *)
THEOREM CompleteTrue == BookSpec => []CompleteIsTrueAverage
  BY InitInv, BookStep, BookInvMeans, PTL DEF BookSpec

(* And its currency part is the exact split while every sale had a rate. *)
THEOREM FxSplitTrue == BookSpec => []FxSplitOfRated
  BY InitInv, BookStep, BookInvMeans, PTL DEF BookSpec

LEMMA TripInvMeans == TripInv => TripsBalance
  BY DEF TripInv, TripsBalance, Settled, Complete

(* What the account's figures say of its sales and round trips is true:     *)
(* complete sales have the true average and split, and a closed round trip  *)
(* of complete sales gained what it took in less what it paid.              *)
THEOREM SalesAreTrue == BookSpec => []SalesTrue
<1>1. BookInv /\ TripInv => SalesTrue
  BY BookInvMeans, TripInvMeans DEF SalesTrue
<1> QED
  BY <1>1, InitInv, BookStep, TripInit, TripStep, PTL DEF BookSpec

(***************************************************************************)
(* Transfer matching.                                                      *)
(***************************************************************************)
Plans == [busy : BOOLEAN, fresh : BOOLEAN, sure : SUBSET (Outs \X Ins), ambiguous : SUBSET Flows]

(* Evidence speaks of the listed pairs only, and these join two flows. *)
LEMMA EvidentPairs ==
    /\ Close \cup Shared \subseteq Outs \X Ins
    /\ \A f, pair : Evidence(f, pair) => pair \in Close \cup Shared
  BY MatchingAssumption DEF Evidence

LEMMA PairLegs ==
    ASSUME NEW p \in Outs \X Ins, NEW q \in Outs \X Ins
    PROVE  /\ Legs(p) \cap Legs(q) # {} <=> p[1] = q[1] \/ p[2] = q[2]
           /\ Legs(p) \subseteq Flows
  BY MatchingAssumption DEF Legs, Flows

(* A plan pairs a flow once and doubts only owner statements. *)
LEMMA PlanTyped ==
    ASSUME NEW f, NEW rows, NEW rule
    PROVE  /\ PlanOf(f, rows, rule) \in Plans
           /\ PlanOf(f, rows, rule).sure \subseteq Outs \X Ins
           /\ \A p, q \in PlanOf(f, rows, rule).sure : Legs(p) \cap Legs(q) # {} => p = q
<1> DEFINE pairs == Preferred(f, Candidates(f, rows, rule))
<1>1. pairs \subseteq Outs \X Ins
  BY EvidentPairs DEF Preferred, Candidates
<1>2. PlanOf(f, rows, rule).sure = {pair \in pairs : Alone(pair, pairs)}
  BY DEF PlanOf
<1>3. PlanOf(f, rows, rule).sure \in SUBSET (Outs \X Ins)
  BY <1>1, <1>2
<1>4. \A p, q \in PlanOf(f, rows, rule).sure : Legs(p) \cap Legs(q) # {} => p = q
  BY <1>2 DEF Alone
<1>5. PlanOf(f, rows, rule).ambiguous \in SUBSET Flows
  <2>1. PlanOf(f, rows, rule).ambiguous \subseteq Owner
    BY DEF PlanOf
  <2> QED
    BY <2>1, MatchingAssumption
<1> QED
  BY <1>3, <1>4, <1>5 DEF PlanOf, Plans

LEMMA NoPlanTyped == NoPlan \in Plans
  BY DEF NoPlan, Plans

LEMMA MatchTypeMeans ==
    MatchTypeOK <=> /\ known \subseteq Flows /\ conflicted \subseteq known /\ enriched \subseteq known
                    /\ class \in [Flows -> {"unseen", "unknown", "external", "internal"}]
                    /\ \A r \in matches : r.out \in Outs /\ r.in \in Ins
                    /\ plan \in [Matchers -> Plans]
  BY DEF MatchTypeOK, Plans

LEMMA AppendedTyped == plan \in [Matchers -> Plans] /\ Appended => plan' \in [Matchers -> Plans]
  BY DEF Appended, Plans

LEMMA ClassifiedTyped ==
    ASSUME NEW cls, cls \in [Flows -> {"unseen", "unknown", "external", "internal"}], NEW events,
           NEW value \in {"unseen", "unknown", "external", "internal"}
    PROVE  Classified(cls, events, value) \in [Flows -> {"unseen", "unknown", "external", "internal"}]
  BY DEF Classified

LEMMA RowsTyped ==
    ASSUME NEW pairs, pairs \subseteq Outs \X Ins, NEW rule
    PROVE  \A r \in MatchRows(pairs, rule) : r.out \in Outs /\ r.in \in Ins /\ PairOf(r) \in pairs
  BY DEF MatchRows, PairOf

(***************************************************************************)
(* What a fresh plan still knows.                                          *)
(***************************************************************************)
Untouched(pair, rows) == \A m \in rows : Legs(PairOf(m)) \cap Legs(pair) = {}

(* A rival of the pair for one leg has a better counterpart, unless its     *)
(* other leg is taken.                                                      *)
Sound(f, rows, pair) ==
    /\ Legs(pair) \subseteq f[1] \ f[2]
    /\ Untouched(pair, rows) =>
          \A rival \in Outs \X Ins :
              ( /\ rival # pair /\ Legs(rival) \cap Legs(pair) # {}
                /\ Legs(rival) \ Legs(pair) \subseteq (f[1] \ f[2]) \ Paired(rows)
                /\ Evidence(f, rival) /\ Rank(f, rival) <= Rank(f, pair) )
              => \E better \in Outs \X Ins :
                    /\ Legs(rival) \ Legs(pair) \subseteq Legs(better)
                    /\ Evidence(f, better) /\ Rank(f, better) < Rank(f, rival)

Available(f, rows, pair) ==
    Legs(pair) \subseteq f[1] \ f[2] /\ Evidence(f, pair) /\ Untouched(pair, rows)

(* A doubted flow fits in two ways. *)
Torn(f, rows, a) ==
    /\ a \in Owner
    /\ \E p, q \in Outs \X Ins :
          /\ p # q /\ a \in Legs(p) /\ Legs(p) \cap Legs(q) # {}
          /\ Available(f, rows, p) /\ Available(f, rows, q)

LEMMA PlanSound ==
    ASSUME NEW f, NEW rows, NEW rule, NEW pair \in PlanOf(f, rows, rule).sure
    PROVE  Sound(f, rows, pair)
<1> DEFINE all == Candidates(f, rows, rule)
<1> DEFINE pairs == Preferred(f, all)
<1>1. pair \in pairs /\ pair \in all /\ Alone(pair, pairs) /\ pair \in Outs \X Ins
  BY EvidentPairs DEF PlanOf, Preferred, Candidates
<1>2. Legs(pair) \subseteq f[1] \ f[2]
  BY <1>1 DEF Candidates
<1>3. ASSUME Untouched(pair, rows),
             NEW rival \in Outs \X Ins, rival # pair, Legs(rival) \cap Legs(pair) # {},
             Legs(rival) \ Legs(pair) \subseteq (f[1] \ f[2]) \ Paired(rows),
             Evidence(f, rival), Rank(f, rival) <= Rank(f, pair)
      PROVE  \E better \in Outs \X Ins :
                /\ Legs(rival) \ Legs(pair) \subseteq Legs(better)
                /\ Evidence(f, better) /\ Rank(f, better) < Rank(f, rival)
  <2>1. Untouched(rival, rows)
    BY <1>3 DEF Untouched, Paired
  <2>2. rival \in all
    BY EvidentPairs, <1>2, <1>3, <2>1 DEF Candidates, Untouched, Paired
  <2>3. rival \notin pairs
    BY <1>1, <1>3 DEF Alone
  <2>4. PICK other \in all : Legs(other) \cap Legs(rival) # {} /\ ~(Rank(f, rival) <= Rank(f, other))
    BY <2>2, <2>3 DEF Preferred
  <2>5. Rank(f, other) < Rank(f, rival) /\ other \in Outs \X Ins /\ Evidence(f, other)
    BY EvidentPairs, <2>4 DEF Rank, Candidates
  <2>6. Legs(other) \cap Legs(pair) = {}
    <3> SUFFICES ASSUME Legs(other) \cap Legs(pair) # {} PROVE FALSE
      OBVIOUS
    <3>1. Rank(f, pair) <= Rank(f, other)
      BY <1>1, <2>4 DEF Preferred
    <3> QED
      BY <1>3, <2>5, <3>1 DEF Rank
  <2>7. Legs(rival) \ Legs(pair) \subseteq Legs(other)
    BY <1>1, <1>3, <2>4, <2>5, <2>6, MatchingAssumption DEF Legs
  <2> QED
    BY <2>5, <2>7
<1> QED
  BY <1>2, <1>3 DEF Sound

LEMMA PlanTorn ==
    ASSUME NEW f, NEW rows, NEW rule, NEW a \in PlanOf(f, rows, rule).ambiguous
    PROVE  Torn(f, rows, a)
<1> DEFINE all == Candidates(f, rows, rule)
<1> DEFINE pairs == Preferred(f, all)
<1>1. a \in Owner
  BY DEF PlanOf
<1>2. PICK p \in pairs : a \in Legs(p) /\ ~Alone(p, pairs)
  BY DEF PlanOf
<1>3. PICK q \in pairs : Legs(q) \cap Legs(p) # {} /\ q # p
  BY <1>2 DEF Alone
<1>4. p \in all /\ q \in all
  BY DEF Preferred
<1>5. /\ p \in Outs \X Ins /\ q \in Outs \X Ins
      /\ Legs(p) \subseteq f[1] \ f[2] /\ Legs(q) \subseteq f[1] \ f[2]
      /\ Evidence(f, p) /\ Evidence(f, q)
      /\ \A m \in rows : Legs(PairOf(m)) \cap Legs(p) # {} => PairOf(m) = p
      /\ \A m \in rows : Legs(PairOf(m)) \cap Legs(q) # {} => PairOf(m) = q
  BY EvidentPairs, <1>4 DEF Candidates
<1>6. Untouched(p, rows) /\ Untouched(q, rows)
  BY <1>3, <1>5 DEF Untouched
<1> QED
  BY <1>1, <1>2, <1>3, <1>5, <1>6 DEF Torn, Available

(* More pairs only take rivals away. *)
LEMMA SoundGrows ==
    ASSUME NEW f, NEW rows, NEW more, rows \subseteq more, NEW pair, Sound(f, rows, pair)
    PROVE  Sound(f, more, pair)
<1>1. Untouched(pair, more) => Untouched(pair, rows)
  BY DEF Untouched
<1>2. Paired(rows) \subseteq Paired(more)
  BY DEF Paired
<1> QED
  BY <1>1, <1>2 DEF Sound

(* No other pair of owner statements fits a leg of a pair to be stored. *)
LEMMA NoOwnerRival ==
    ASSUME NEW f, f[3] \cap Owner = {}, NEW rows,
           NEW pair \in Outs \X Ins, Sound(f, rows, pair), Untouched(pair, rows),
           NEW rival \in Outs \X Ins, rival # pair, Legs(rival) \subseteq Owner, Available(f, rows, rival)
    PROVE  Legs(rival) \cap Legs(pair) = {}
<1> SUFFICES ASSUME Legs(rival) \cap Legs(pair) # {} PROVE FALSE
  OBVIOUS
<1>1. Legs(rival) \ Legs(pair) \subseteq (f[1] \ f[2]) \ Paired(rows)
  BY DEF Available, Untouched, Paired
<1>2. Rank(f, rival) = 1 /\ Rank(f, pair) = 1
  BY MatchingAssumption DEF Rank, Legs
<1>3. PICK better \in Outs \X Ins :
            Legs(rival) \ Legs(pair) \subseteq Legs(better) /\ Rank(f, better) < Rank(f, rival)
  BY <1>1, <1>2 DEF Sound, Available
<1>4. Legs(better) \subseteq f[3]
  BY <1>2, <1>3 DEF Rank
<1>5. Legs(rival) \ Legs(pair) # {}
  BY MatchingAssumption DEF Legs
<1> QED
  BY <1>3, <1>4, <1>5

(* A doubted flow stays torn whatever pair is stored. *)
LEMMA TornGrows ==
    ASSUME NEW f, f[3] \cap Owner = {}, NEW rows, NEW a, Torn(f, rows, a),
           NEW pair \in Outs \X Ins, Sound(f, rows, pair), Untouched(pair, rows), NEW rule
    PROVE  Torn(f, rows \cup MatchRows({pair}, rule), a)
<1>1. PICK p, q \in Outs \X Ins :
          /\ p # q /\ a \in Legs(p) /\ Legs(p) \cap Legs(q) # {}
          /\ Available(f, rows, p) /\ Available(f, rows, q)
  BY DEF Torn
<1>2. Legs(p) \subseteq Owner /\ Legs(q) \subseteq Owner
  <2>1. a \in Owner
    BY DEF Torn
  <2>2. p \in Close
    BY <1>1, <2>1 DEF Available, Evidence
  <2>3. Legs(p) \subseteq Owner
    BY <1>1, <2>1, <2>2, MatchingAssumption DEF Legs
  <2>4. q \in Close
    BY <1>1, <2>3 DEF Available, Evidence
  <2> QED
    BY <1>1, <2>3, <2>4, MatchingAssumption DEF Legs
<1>3. pair # p /\ pair # q
  BY <1>1, <1>2, NoOwnerRival
<1>4. Legs(p) \cap Legs(pair) = {} /\ Legs(q) \cap Legs(pair) = {}
  BY <1>1, <1>2, <1>3, NoOwnerRival
<1>5. \A m \in MatchRows({pair}, rule) : PairOf(m) = pair
  BY DEF MatchRows, PairOf
<1>6. Available(f, rows \cup MatchRows({pair}, rule), p) /\ Available(f, rows \cup MatchRows({pair}, rule), q)
  BY <1>1, <1>4, <1>5 DEF Available, Untouched
<1> QED
  BY <1>1, <1>6 DEF Torn

(***************************************************************************)
(* The invariant.                                                          *)
(***************************************************************************)
MatchedKnown ==
    /\ enriched \cap Owner = {}
    /\ \A r \in matches : r.out \in known /\ r.in \in known

PlansSound ==
    \A m \in Matchers : plan[m].fresh =>
        /\ \A pair \in plan[m].sure : Sound(facts, matches, pair)
        /\ \A a \in plan[m].ambiguous : Torn(facts, matches, a)

MatchInv == MatchTypeOK /\ MatchedKnown /\ LegsPairOnce /\ MatchedStayInternal /\ PlansSound

LEMMA FactsAre == facts[1] = known /\ facts[2] = conflicted /\ facts[3] = enriched
  BY DEF facts

LEMMA InitMatchInv == MatchInit => MatchInv
<1> SUFFICES ASSUME MatchInit PROVE MatchInv
  OBVIOUS
<1>1. MatchTypeOK
  BY NoPlanTyped, MatchTypeMeans DEF MatchInit
<1>2. PlansSound
  BY DEF MatchInit, PlansSound, NoPlan
<1> QED
  BY <1>1, <1>2 DEF MatchInit, MatchInv, MatchedKnown, LegsPairOnce, MatchedStayInternal

(* No plan is fresh once a fact was appended. *)
LEMMA AppendedUnsound ==
    ASSUME MatchTypeOK, Appended
    PROVE  plan' \in [Matchers -> Plans] /\ PlansSound'
<1>1. plan \in [Matchers -> Plans]
  BY MatchTypeMeans
<1>2. \A m \in Matchers : plan'[m] \in Plans /\ plan'[m].fresh = FALSE
  BY <1>1 DEF Appended, Plans
<1>3. plan' \in [Matchers -> Plans]
  BY <1>1, AppendedTyped
<1> QED
  BY <1>2, <1>3 DEF PlansSound

LEMMA CollectInv ==
    ASSUME MatchInv, NEW e \in Flows, CollectFlow(e)
    PROVE  MatchInv'
<1>1. MatchTypeOK
  BY DEF MatchInv
<1>2. plan' \in [Matchers -> Plans] /\ PlansSound'
  BY <1>1, AppendedUnsound DEF CollectFlow
<1>3. MatchTypeOK'
  BY <1>1, <1>2 DEF CollectFlow, MatchTypeOK, Plans
<1>4. \A r \in matches : r.out # e /\ r.in # e /\ r.out \in Flows /\ r.in \in Flows
  BY <1>1 DEF MatchInv, MatchedKnown, CollectFlow, MatchTypeOK, Flows
<1>5. MatchedStayInternal'
  BY <1>1, <1>4 DEF MatchInv, MatchedStayInternal, CollectFlow, MatchTypeOK
<1> QED
  BY <1>2, <1>3, <1>5 DEF MatchInv, MatchedKnown, LegsPairOnce, CollectFlow

LEMMA ContradictInv ==
    ASSUME MatchInv, NEW e \in Flows, ContradictFlow(e)
    PROVE  MatchInv'
<1>1. MatchTypeOK
  BY DEF MatchInv
<1>2. plan' \in [Matchers -> Plans] /\ PlansSound'
  BY <1>1, AppendedUnsound DEF ContradictFlow
<1>3. MatchTypeOK'
  BY <1>1, <1>2 DEF ContradictFlow, MatchTypeOK, Plans
<1> QED
  BY <1>2, <1>3 DEF MatchInv, MatchedKnown, LegsPairOnce, MatchedStayInternal, ContradictFlow

LEMMA EnrichInv ==
    ASSUME MatchInv, NEW e \in Flows, EnrichFlow(e)
    PROVE  MatchInv'
<1>1. MatchTypeOK
  BY DEF MatchInv
<1>2. plan' \in [Matchers -> Plans] /\ PlansSound'
  BY <1>1, AppendedUnsound DEF EnrichFlow
<1>3. MatchTypeOK'
  BY <1>1, <1>2 DEF EnrichFlow, MatchTypeOK, Plans
<1> QED
  BY <1>2, <1>3 DEF MatchInv, MatchedKnown, LegsPairOnce, MatchedStayInternal, EnrichFlow

LEMMA ReadInv ==
    ASSUME MatchInv, NEW m \in Matchers, ReadPlan(m)
    PROVE  MatchInv'
<1>1. MatchTypeOK /\ plan \in [Matchers -> Plans]
  BY MatchTypeMeans DEF MatchInv
<1>2. PICK p : p = PlanOf(facts, matches, Rule[m])
  OBVIOUS
<1>3. p \in Plans /\ (\A pair \in p.sure : Sound(facts, matches, pair))
      /\ (\A a \in p.ambiguous : Torn(facts, matches, a))
  BY <1>2, PlanTyped, PlanSound, PlanTorn
<1>4. plan' = [plan EXCEPT ![m] = p] /\ facts' = facts /\ UNCHANGED <<class, matches>>
  BY <1>2 DEF ReadPlan
<1>5. plan' \in [Matchers -> Plans] /\ PlansSound'
  BY <1>1, <1>3, <1>4 DEF MatchInv, PlansSound
<1>6. UNCHANGED <<known, conflicted, enriched>>
  BY <1>4 DEF facts
<1> QED
  BY <1>1, <1>4, <1>5, <1>6
  DEF MatchInv, MatchTypeOK, Plans, MatchedKnown, LegsPairOnce, MatchedStayInternal

LEMMA GiveUpInv ==
    ASSUME MatchInv, NEW m \in Matchers, GiveUpPlan(m)
    PROVE  MatchInv'
<1>1. MatchTypeOK /\ plan \in [Matchers -> Plans]
  BY MatchTypeMeans DEF MatchInv
<1>2. plan' = [plan EXCEPT ![m] = NoPlan] /\ facts' = facts /\ UNCHANGED <<class, matches>>
  BY DEF GiveUpPlan
<1>3. plan' \in [Matchers -> Plans] /\ PlansSound'
  BY <1>1, <1>2, NoPlanTyped DEF MatchInv, PlansSound, NoPlan
<1>4. UNCHANGED <<known, conflicted, enriched>>
  BY <1>2 DEF facts
<1> QED
  BY <1>1, <1>2, <1>3, <1>4
  DEF MatchInv, MatchTypeOK, Plans, MatchedKnown, LegsPairOnce, MatchedStayInternal

(* A flow that is torn is no leg of a pair, so it may be doubted. *)
LEMMA DoubtInv ==
    ASSUME MatchInv, NEW m \in Matchers, StoreDoubts(m)
    PROVE  MatchInv'
<1>1. MatchTypeOK /\ plan \in [Matchers -> Plans] /\ plan[m].fresh
  BY MatchTypeMeans DEF MatchInv, StoreDoubts
<1>2. /\ plan' = [plan EXCEPT ![m].ambiguous = {}] /\ facts' = facts /\ matches' = matches
      /\ class' = Classified(class, plan[m].ambiguous, "unknown")
  BY DEF StoreDoubts
<1>3. plan' \in [Matchers -> Plans]
  BY <1>1, <1>2 DEF Plans
<1>4. \A k \in Matchers : plan'[k].sure = plan[k].sure /\ plan'[k].fresh = plan[k].fresh
                          /\ plan'[k].ambiguous \subseteq plan[k].ambiguous
  BY <1>1, <1>2 DEF Plans
<1>5. PlansSound'
  BY <1>2, <1>4 DEF MatchInv, PlansSound
<1>6. UNCHANGED <<known, conflicted, enriched>>
  BY <1>2 DEF facts
<1>7. MatchTypeOK'
  BY <1>1, <1>2, <1>3, <1>6, ClassifiedTyped DEF MatchTypeOK, Plans
<1>8. \A r \in matches : /\ r.out \in Flows /\ r.in \in Flows
                         /\ r.out \notin plan[m].ambiguous /\ r.in \notin plan[m].ambiguous
  <2> SUFFICES ASSUME NEW r \in matches, NEW a \in plan[m].ambiguous
               PROVE  r.out # a /\ r.in # a
    BY <1>1 DEF MatchTypeOK, Flows
  <2>1. Torn(facts, matches, a)
    BY <1>1 DEF MatchInv, PlansSound
  <2>2. PICK p \in Outs \X Ins : a \in Legs(p) /\ Untouched(p, matches)
    BY <2>1 DEF Torn, Available
  <2> QED
    BY <2>2 DEF Untouched, Legs, PairOf
<1>9. MatchedStayInternal'
  BY <1>2, <1>8 DEF MatchInv, MatchedStayInternal, Classified
<1> QED
  BY <1>2, <1>5, <1>6, <1>7, <1>9 DEF MatchInv, MatchedKnown, LegsPairOnce

(* Stored pairs, each flow in one of them, and pairs that may join them. *)
Once(rows) ==
    /\ \A r \in rows : r.out \in Outs /\ r.in \in Ins
    /\ \A a, b \in rows : a.out = b.out <=> a.in = b.in

MayJoin(pairs, rows) ==
    /\ pairs \subseteq Outs \X Ins
    /\ \A p, q \in pairs : Legs(p) \cap Legs(q) # {} => p = q
    /\ \A p \in pairs : \A m \in rows : Legs(PairOf(m)) \cap Legs(p) # {} => PairOf(m) = p

LEMMA StoreOnce ==
    ASSUME NEW rows, Once(rows), NEW pairs, MayJoin(pairs, rows), NEW rule
    PROVE  Once(rows \cup MatchRows(pairs, rule))
<1>0. /\ \A r \in rows : r.out \in Outs /\ r.in \in Ins
      /\ \A a, b \in rows : a.out = b.out <=> a.in = b.in
      /\ pairs \subseteq Outs \X Ins
      /\ \A p, q \in pairs : Legs(p) \cap Legs(q) # {} => p = q
      /\ \A p \in pairs : \A m \in rows : Legs(PairOf(m)) \cap Legs(p) # {} => PairOf(m) = p
  BY DEF Once, MayJoin
<1>1. \A r \in MatchRows(pairs, rule) : r.out \in Outs /\ r.in \in Ins /\ PairOf(r) \in pairs
  BY <1>0, RowsTyped
<1>2. \A r \in rows : PairOf(r) \in Outs \X Ins
  BY <1>0 DEF PairOf
<1>3. \A a, b \in rows \cup MatchRows(pairs, rule) :
          Legs(PairOf(a)) \cap Legs(PairOf(b)) # {} => PairOf(a) = PairOf(b)
  <2> SUFFICES ASSUME NEW a \in rows \cup MatchRows(pairs, rule), NEW b \in rows \cup MatchRows(pairs, rule),
                      Legs(PairOf(a)) \cap Legs(PairOf(b)) # {}
               PROVE  PairOf(a) = PairOf(b)
    OBVIOUS
  <2>1. CASE a \in rows /\ b \in rows
    <3>1. a.out = b.out \/ a.in = b.in
      BY <1>2, <2>1, PairLegs DEF PairOf
    <3> QED
      BY <1>0, <2>1, <3>1 DEF PairOf
  <2>2. CASE a \in rows /\ b \in MatchRows(pairs, rule)
    BY <1>0, <1>1, <2>2
  <2>3. CASE a \in MatchRows(pairs, rule) /\ b \in rows
    BY <1>0, <1>1, <2>3
  <2>4. CASE a \in MatchRows(pairs, rule) /\ b \in MatchRows(pairs, rule)
    BY <1>0, <1>1, <2>4
  <2> QED
    BY <2>1, <2>2, <2>3, <2>4
<1>4. \A a, b \in rows \cup MatchRows(pairs, rule) : a.out = b.out <=> a.in = b.in
  <2> SUFFICES ASSUME NEW a \in rows \cup MatchRows(pairs, rule), NEW b \in rows \cup MatchRows(pairs, rule)
               PROVE  a.out = b.out <=> a.in = b.in
    OBVIOUS
  <2>1. PairOf(a) \in Outs \X Ins /\ PairOf(b) \in Outs \X Ins
    BY <1>0, <1>1, <1>2
  <2>2. a.out = b.out \/ a.in = b.in => PairOf(a) = PairOf(b)
    BY <1>3, <2>1, PairLegs DEF PairOf
  <2> QED
    BY <2>2 DEF PairOf
<1> QED
  BY <1>0, <1>1, <1>4 DEF Once

(* A pair that may be stored for the first time touches no stored pair. *)
LEMMA NewUntouched ==
    ASSUME NEW rows, NEW pair, NEW rule, NEW cls, NEW f, Storable(pair, rule, rows, cls, f),
           \A o \in rows : PairOf(o) # pair
    PROVE  Untouched(pair, rows)
  BY DEF Storable, Untouched

(* A pair of a sound plan leaves every other plan sound. *)
LEMMA StoreSound ==
    ASSUME NEW f, f[3] \cap Owner = {}, NEW rows, NEW pair \in Outs \X Ins, NEW rule, NEW cls,
           Sound(f, rows, pair), Storable(pair, rule, rows, cls, f), NEW a, Torn(f, rows, a)
    PROVE  Torn(f, rows \cup MatchRows({pair}, rule), a)
<1>1. CASE \A o \in rows : PairOf(o) # pair
  BY <1>1, NewUntouched, TornGrows
<1>2. ASSUME NEW o \in rows, PairOf(o) = pair
      PROVE  Torn(f, rows \cup MatchRows({pair}, rule), a)
  <2>1. \A m \in MatchRows({pair}, rule) : PairOf(m) = PairOf(o)
    BY <1>2 DEF MatchRows, PairOf
  <2>2. ASSUME NEW p, Available(f, rows, p)
        PROVE  Available(f, rows \cup MatchRows({pair}, rule), p)
    BY <1>2, <2>1, <2>2 DEF Available, Untouched
  <2> QED
    BY <2>2 DEF Torn
<1> QED
  BY <1>1, <1>2

LEMMA StoreInv ==
    ASSUME MatchInv, NEW m \in Matchers, NEW pair \in Outs \X Ins, StorePair(m, pair)
    PROVE  MatchInv'
<1>1. /\ MatchTypeOK /\ plan \in [Matchers -> Plans] /\ plan[m].fresh /\ pair \in plan[m].sure
      /\ facts' = facts /\ plan' = [plan EXCEPT ![m].sure = @ \ {pair}]
  BY MatchTypeMeans DEF MatchInv, StorePair
<1>2. UNCHANGED <<known, conflicted, enriched>>
  BY <1>1 DEF facts
<1>3. Sound(facts, matches, pair) /\ Legs(pair) \subseteq known
  BY <1>1, FactsAre DEF MatchInv, PlansSound, Sound
<1>4. plan' \in [Matchers -> Plans]
  BY <1>1 DEF Plans
<1>5. \A k \in Matchers : plan'[k].sure \subseteq plan[k].sure /\ plan'[k].fresh = plan[k].fresh
                          /\ plan'[k].ambiguous = plan[k].ambiguous
  BY <1>1 DEF Plans
<1>6. CASE UNCHANGED <<matches, class>>
  <2>1. PlansSound'
    BY <1>1, <1>5, <1>6 DEF MatchInv, PlansSound
  <2>2. MatchTypeOK'
    BY <1>1, <1>2, <1>4, <1>6 DEF MatchTypeOK, Plans
  <2> QED
    BY <1>2, <1>6, <2>1, <2>2 DEF MatchInv, MatchedKnown, LegsPairOnce, MatchedStayInternal
<1>7. CASE /\ Storable(pair, Rule[m], matches, class, facts)
           /\ matches' = matches \cup MatchRows({pair}, Rule[m])
           /\ class' = Classified(class, Legs(pair), "internal")
  <2>1. /\ \A r \in matches' : r.out \in Outs /\ r.in \in Ins
        /\ LegsPairOnce'
    <3>1. Once(matches)
      BY <1>1 DEF MatchTypeOK, MatchInv, LegsPairOnce, Once
    <3>2. MayJoin({pair}, matches)
      BY <1>7 DEF Storable, MayJoin
    <3>3. Once(matches')
      BY <1>7, <3>1, <3>2, StoreOnce
    <3> QED
      BY <3>3 DEF Once, LegsPairOnce
  <2>2. \A r \in matches' \ matches : PairOf(r) = pair
    BY <1>7 DEF MatchRows, PairOf
  <2>3. \A e \in Legs(pair) : class'[e] = "internal"
    BY <1>7, PairLegs DEF Classified
  <2>4. \A e \in Flows : class[e] = "internal" => class'[e] = "internal"
    BY <1>7 DEF Classified
  <2>5. MatchedStayInternal' /\ MatchedKnown'
    <3> SUFFICES ASSUME NEW r \in matches'
                 PROVE  /\ class'[r.out] = "internal" /\ class'[r.in] = "internal"
                        /\ r.out \in known /\ r.in \in known
      BY <1>2 DEF MatchInv, MatchedStayInternal, MatchedKnown
    <3>1. CASE r \in matches
      BY <1>1, <2>4, <3>1 DEF MatchInv, MatchedStayInternal, MatchedKnown, MatchTypeOK, Flows
    <3>2. CASE r \notin matches
      <4>1. r.out \in Legs(pair) /\ r.in \in Legs(pair)
        BY <2>2, <3>2 DEF PairOf, Legs
      <4> QED
        BY <1>3, <2>3, <4>1
    <3> QED
      BY <3>1, <3>2
  <2>6. MatchTypeOK'
    BY <1>1, <1>2, <1>4, <1>7, <2>1, ClassifiedTyped DEF MatchTypeOK, Plans
  <2>7. PlansSound'
    <3> SUFFICES ASSUME NEW k \in Matchers, plan[k].fresh
                 PROVE  /\ \A p \in plan[k].sure : Sound(facts, matches', p)
                        /\ \A a \in plan[k].ambiguous : Torn(facts, matches', a)
      BY <1>1, <1>5 DEF PlansSound
    <3>1. \A p \in plan[k].sure : Sound(facts, matches', p)
      BY <1>7, SoundGrows DEF MatchInv, PlansSound
    <3>2. ASSUME NEW a \in plan[k].ambiguous
          PROVE  Torn(facts, matches', a)
      <4>1. Torn(facts, matches, a)
        BY DEF MatchInv, PlansSound
      <4>2. facts[3] \cap Owner = {}
        BY FactsAre DEF MatchInv, MatchedKnown
      <4> QED
        BY <1>3, <1>7, <4>1, <4>2, StoreSound
    <3> QED
      BY <3>1, <3>2
  <2> QED
    BY <2>1, <2>5, <2>6, <2>7 DEF MatchInv
<1> QED
  BY <1>6, <1>7 DEF StorePair

(* The pairs an import stores, and what it makes of the classifications. *)
LEMMA ImportFacts ==
    ASSUME MatchInv, NEW e \in Flows, ImportFlow(e)
    PROVE  \E p \in Plans, joined \in SUBSET (Outs \X Ins) : \E f :
              /\ p = PlanOf(f, matches, ImportRule)
              /\ f = <<known', conflicted', enriched'>>
              /\ joined \subseteq p.sure
              /\ \A pair \in joined : \E cls : Storable(pair, ImportRule, matches, cls, f)
              /\ matches' = matches \cup MatchRows(joined, ImportRule)
              /\ class' = Classified(Classified([class EXCEPT ![e] = "external"], p.ambiguous, "unknown"),
                                     UNION {Legs(pair) : pair \in joined}, "internal")
<1> DEFINE f == <<known', conflicted, enriched>>
<1> DEFINE p == PlanOf(f, matches, ImportRule)
<1> DEFINE doubted == Classified([class EXCEPT ![e] = "external"], p.ambiguous, "unknown")
<1> DEFINE joined == {pair \in p.sure : Storable(pair, ImportRule, matches, doubted, f)}
<1>1. p \in Plans /\ p.sure \subseteq Outs \X Ins
  BY PlanTyped
<1>2. f = <<known', conflicted', enriched'>>
  BY DEF ImportFlow
<1>3. /\ matches' = matches \cup MatchRows(joined, ImportRule)
      /\ class' = Classified(doubted, UNION {Legs(pair) : pair \in joined}, "internal")
  BY DEF ImportFlow
<1>4. joined \in SUBSET (Outs \X Ins) /\ joined \subseteq p.sure
      /\ \A pair \in joined : Storable(pair, ImportRule, matches, doubted, f)
  BY <1>1
<1> HIDE DEF f, p, doubted, joined
<1>5. doubted = Classified([class EXCEPT ![e] = "external"], p.ambiguous, "unknown")
  BY DEF doubted
<1>6. p = PlanOf(f, matches, ImportRule)
  BY DEF p
<1> QED
  BY <1>1, <1>2, <1>3, <1>4, <1>5, <1>6

LEMMA ImportInv ==
    ASSUME MatchInv, NEW e \in Flows, ImportFlow(e)
    PROVE  MatchInv'
<1>0. PICK p \in Plans, joined \in SUBSET (Outs \X Ins) : \E f :
          /\ p = PlanOf(f, matches, ImportRule)
          /\ f = <<known', conflicted', enriched'>>
          /\ joined \subseteq p.sure
          /\ \A pair \in joined : \E cls : Storable(pair, ImportRule, matches, cls, f)
          /\ matches' = matches \cup MatchRows(joined, ImportRule)
          /\ class' = Classified(Classified([class EXCEPT ![e] = "external"], p.ambiguous, "unknown"),
                                 UNION {Legs(pair) : pair \in joined}, "internal")
  BY ImportFacts
<1>1. PICK f :
          /\ p = PlanOf(f, matches, ImportRule)
          /\ f = <<known', conflicted', enriched'>>
          /\ joined \subseteq p.sure
          /\ \A pair \in joined : \E cls : Storable(pair, ImportRule, matches, cls, f)
          /\ matches' = matches \cup MatchRows(joined, ImportRule)
          /\ class' = Classified(Classified([class EXCEPT ![e] = "external"], p.ambiguous, "unknown"),
                                 UNION {Legs(pair) : pair \in joined}, "internal")
  BY <1>0
<1>2. /\ MatchTypeOK /\ e \in Owner \ known /\ known' = known \cup {e}
      /\ conflicted' = conflicted /\ enriched' = enriched /\ Appended
  BY DEF MatchInv, ImportFlow
<1>3. plan' \in [Matchers -> Plans] /\ PlansSound'
  BY <1>2, AppendedUnsound
<1>4. Once(matches')
  <2>1. Once(matches)
    BY <1>2 DEF MatchTypeOK, MatchInv, LegsPairOnce, Once
  <2>2. MayJoin(joined, matches)
    <3>1. \A pair, other \in joined : Legs(pair) \cap Legs(other) # {} => pair = other
      BY <1>1, PlanTyped
    <3>2. \A pair \in joined : \A m \in matches : Legs(PairOf(m)) \cap Legs(pair) # {} => PairOf(m) = pair
      BY <1>1 DEF Storable
    <3> QED
      BY <3>1, <3>2 DEF MayJoin
  <2> QED
    BY <1>1, <2>1, <2>2, StoreOnce
<1>5. class' \in [Flows -> {"unseen", "unknown", "external", "internal"}]
  <2>1. [class EXCEPT ![e] = "external"] \in [Flows -> {"unseen", "unknown", "external", "internal"}]
    BY <1>2 DEF MatchTypeOK
  <2>2. Classified([class EXCEPT ![e] = "external"], p.ambiguous, "unknown")
            \in [Flows -> {"unseen", "unknown", "external", "internal"}]
    BY <2>1, ClassifiedTyped
  <2> QED
    BY <1>1, <2>2, ClassifiedTyped
<1>6. MatchTypeOK'
  BY <1>2, <1>3, <1>4, <1>5 DEF MatchTypeOK, Plans, Once
<1>7. \A a \in p.ambiguous : \A r \in matches : r.out # a /\ r.in # a
  <2> SUFFICES ASSUME NEW a \in p.ambiguous, NEW r \in matches
               PROVE  r.out # a /\ r.in # a
    OBVIOUS
  <2>1. Torn(f, matches, a)
    BY <1>1, PlanTorn
  <2>2. PICK q \in Outs \X Ins : a \in Legs(q) /\ Untouched(q, matches)
    BY <2>1 DEF Torn, Available
  <2> QED
    BY <2>2 DEF Untouched, Legs, PairOf
<1>8. \A r \in matches : /\ r.out \in Flows /\ r.in \in Flows /\ r.out # e /\ r.in # e
                         /\ r.out \in known' /\ r.in \in known'
                         /\ class[r.out] = "internal" /\ class[r.in] = "internal"
  BY <1>2 DEF MatchInv, MatchedKnown, MatchTypeOK, Flows, MatchedStayInternal
<1>9. \A r \in matches : class'[r.out] = "internal" /\ class'[r.in] = "internal"
  <2> SUFFICES ASSUME NEW a \in Flows, a # e, a \notin p.ambiguous, class[a] = "internal"
               PROVE  class'[a] = "internal"
    BY <1>7, <1>8
  <2>1. [class EXCEPT ![e] = "external"][a] = "internal"
    BY <1>2 DEF MatchTypeOK
  <2>2. Classified([class EXCEPT ![e] = "external"], p.ambiguous, "unknown")[a] = "internal"
    BY <2>1 DEF Classified
  <2> QED
    BY <1>1, <2>2 DEF Classified
<1>10. \A r \in MatchRows(joined, ImportRule) :
           /\ class'[r.out] = "internal" /\ class'[r.in] = "internal"
           /\ r.out \in known' /\ r.in \in known'
  <2> SUFFICES ASSUME NEW r \in MatchRows(joined, ImportRule), NEW a \in Legs(PairOf(r))
               PROVE  class'[a] = "internal" /\ a \in known'
    BY DEF PairOf, Legs
  <2>1. PairOf(r) \in joined
    BY DEF MatchRows, PairOf
  <2>2. a \in Flows /\ a \in UNION {Legs(pair) : pair \in joined}
    BY <2>1, PairLegs
  <2>3. class'[a] = "internal"
    BY <1>1, <2>2 DEF Classified
  <2>4. Sound(f, matches, PairOf(r))
    BY <1>1, <2>1, PlanSound
  <2> QED
    BY <1>1, <2>3, <2>4 DEF Sound
<1>11. MatchedStayInternal' /\ MatchedKnown'
  BY <1>1, <1>2, <1>8, <1>9, <1>10 DEF MatchInv, MatchedStayInternal, MatchedKnown
<1> QED
  BY <1>3, <1>4, <1>6, <1>11 DEF MatchInv, LegsPairOnce, Once

(***************************************************************************)
(* The theorems.                                                           *)
(***************************************************************************)
LEMMA MatchStep == MatchInv /\ [MatchNext]_matchVars => MatchInv'
<1>1. ASSUME MatchInv, MatchNext PROVE MatchInv'
  BY <1>1, CollectInv, ContradictInv, EnrichInv, ImportInv, ReadInv, GiveUpInv, DoubtInv, StoreInv DEF MatchNext
<1>2. ASSUME MatchInv, UNCHANGED matchVars PROVE MatchInv'
  <2>1. UNCHANGED <<known, conflicted, enriched, class, matches, plan>> /\ facts' = facts
    BY <1>2 DEF matchVars, facts
  <2> QED
    BY <1>2, <2>1 DEF MatchInv, MatchTypeOK, MatchedKnown, LegsPairOnce, MatchedStayInternal, PlansSound
<1> QED
  BY <1>1, <1>2

(* The store keeps its shape. *)
THEOREM MatchTyped == MatchSpec => []MatchTypeOK
<1>1. MatchInv => MatchTypeOK
  BY DEF MatchInv
<1> QED
  BY InitMatchInv, MatchStep, <1>1, PTL DEF MatchSpec

(* However many matchers and imports run, a flow is a leg of one transfer,  *)
(* and both legs of a stored transfer stay internal.                        *)
THEOREM MatchesFinal == MatchSpec => []MatchesAreFinal
<1>1. MatchInv => MatchesAreFinal
  BY DEF MatchInv, MatchesAreFinal
<1> QED
  BY InitMatchInv, MatchStep, <1>1, PTL DEF MatchSpec

(***************************************************************************)
(* The new pairs of a step come from sound plans over its facts.           *)
(***************************************************************************)
LEMMA NewPairs ==
    ASSUME MatchInv, NEW pairs, pairs \subseteq Outs \X Ins, NEW rule,
           \A pair \in pairs : Sound(facts', matches, pair),
           \A pair \in pairs : \E cls, f : Storable(pair, rule, matches, cls, f),
           matches' = matches \cup MatchRows(pairs, rule)
    PROVE  NoChoiceLeft
<1> SUFFICES ASSUME NEW r \in NewRows, NEW rival \in Outs \X Ins,
                    rival # PairOf(r), Legs(rival) \cap Legs(PairOf(r)) # {},
                    Legs(rival) \ Legs(PairOf(r)) \subseteq (known' \ conflicted') \ Paired(matches'),
                    Evidence(facts', rival), Rank(facts', rival) <= Rank(facts', PairOf(r))
             PROVE  \E better \in Outs \X Ins :
                       /\ Legs(rival) \ Legs(PairOf(r)) \subseteq Legs(better)
                       /\ Evidence(facts', better) /\ Rank(facts', better) < Rank(facts', rival)
  BY DEF NoChoiceLeft
<1>0. r \in matches' /\ \A o \in matches : PairOf(o) # PairOf(r)
  BY DEF NewRows
<1>1. r \in MatchRows(pairs, rule) /\ \A o \in matches : PairOf(o) # PairOf(r)
  BY <1>0
<1>2. PairOf(r) \in pairs
  BY <1>1, RowsTyped
<1>3. Untouched(PairOf(r), matches)
  BY <1>1, <1>2, NewUntouched
<1>4. facts'[1] = known' /\ facts'[2] = conflicted'
  BY DEF facts
<1>5. Paired(matches) \subseteq Paired(matches')
  BY DEF Paired
<1>6. Legs(rival) \ Legs(PairOf(r)) \subseteq (facts'[1] \ facts'[2]) \ Paired(matches)
  BY <1>4, <1>5
<1> QED
  BY <1>2, <1>3, <1>6 DEF Sound

LEMMA StepLeavesNoChoice == MatchInv /\ [MatchNext]_matchVars => [NoChoiceLeft]_matchVars
<1> SUFFICES ASSUME MatchInv, MatchNext PROVE NoChoiceLeft
  OBVIOUS
<1>1. ASSUME matches' = matches PROVE NoChoiceLeft
  BY <1>1 DEF NoChoiceLeft, NewRows
<1>2. ASSUME NEW e \in Flows, ImportFlow(e) PROVE NoChoiceLeft
  <2>0. PICK p \in Plans, joined \in SUBSET (Outs \X Ins) : \E f :
            /\ p = PlanOf(f, matches, ImportRule)
            /\ f = <<known', conflicted', enriched'>>
            /\ joined \subseteq p.sure
            /\ \A pair \in joined : \E cls : Storable(pair, ImportRule, matches, cls, f)
            /\ matches' = matches \cup MatchRows(joined, ImportRule)
    BY <1>2, ImportFacts
  <2>1. PICK f :
            /\ p = PlanOf(f, matches, ImportRule)
            /\ f = <<known', conflicted', enriched'>>
            /\ joined \subseteq p.sure
            /\ \A pair \in joined : \E cls : Storable(pair, ImportRule, matches, cls, f)
            /\ matches' = matches \cup MatchRows(joined, ImportRule)
    BY <2>0
  <2>2. f = facts'
    BY <2>1 DEF facts
  <2>3. \A pair \in joined : Sound(facts', matches, pair)
    BY <2>1, <2>2, PlanSound
  <2> QED
    BY <2>1, <2>3, NewPairs
<1>3. ASSUME NEW m \in Matchers, NEW pair \in Outs \X Ins, StorePair(m, pair) PROVE NoChoiceLeft
  <2>1. CASE matches' = matches
    BY <1>1, <2>1
  <2>2. CASE matches' # matches
    <3>1. /\ Storable(pair, Rule[m], matches, class, facts) /\ facts' = facts
          /\ matches' = matches \cup MatchRows({pair}, Rule[m])
      BY <1>3, <2>2 DEF StorePair
    <3>2. Sound(facts', matches, pair)
      BY <1>3, <3>1 DEF StorePair, MatchInv, PlansSound
    <3> QED
      BY <3>1, <3>2, NewPairs
  <2> QED
    BY <2>1, <2>2
<1>4. ASSUME NEW e \in Flows, CollectFlow(e) \/ ContradictFlow(e) \/ EnrichFlow(e) PROVE NoChoiceLeft
  BY <1>1, <1>4 DEF CollectFlow, ContradictFlow, EnrichFlow
<1>5. ASSUME NEW m \in Matchers, ReadPlan(m) \/ GiveUpPlan(m) \/ StoreDoubts(m) PROVE NoChoiceLeft
  BY <1>1, <1>5 DEF ReadPlan, GiveUpPlan, StoreDoubts
<1> QED
  BY <1>2, <1>3, <1>4, <1>5 DEF MatchNext

(* No pair is stored while the facts leave a choice for one of its legs. *)
THEOREM PairsWithoutChoice == MatchSpec => PairedWithoutChoice
  BY InitMatchInv, MatchStep, StepLeavesNoChoice, PTL DEF MatchSpec, PairedWithoutChoice

(***************************************************************************)
(* Interval returns.                                                       *)
(***************************************************************************)
Graded ==
    {r \in [start : Days, startVersion : Nat, end : Days, endVersion : Nat, grade : Grades] : r.start < r.end}
Snapshots ==
    [version : 0..(MaxRecaptures + 1), nav : [Scopes -> {"worth", "zero", "incomplete", "uncaptured"}]]

ReturnsTyped ==
    /\ today \in Days
    /\ stored \in [Days -> Snapshots]
    /\ flows \in [Scopes -> SUBSET Graded]

(* The days whose consecutive members are the rows of a view. *)
Spine(v) == IF v = Composite THEN Grid ELSE Usable(v)

-----------------------------------------------------------------------------
(* Sets of days *)

LEMMA FirstOf ==
    ASSUME NEW S \in SUBSET Nat, S # {}
    PROVE  \E x \in S : \A y \in S : x <= y
<1>1. PICK x \in S : \A y \in S : ~(<<y, x>> \in OpToRel(<, Nat))
  BY NatLessThanWellFounded, WFMin, Zenon
<1>2. \A y \in S : ~(y < x)
  BY <1>1 DEF OpToRel
<1> QED
  BY <1>2

LEMMA LastOf ==
    ASSUME NEW n \in Nat, NEW S \in SUBSET (0..n), S # {}
    PROVE  \E x \in S : \A y \in S : y <= x
<1> DEFINE R == {n - y : y \in S}
<1>1. R \in SUBSET Nat /\ R # {}
  <2>1. \A y \in S : n - y \in Nat
    OBVIOUS
  <2> QED
    BY <2>1
<1>2. PICK z \in R : \A y \in R : z <= y
  BY <1>1, FirstOf
<1>3. PICK x \in S : z = n - x
  OBVIOUS
<1>4. \A y \in S : n - x <= n - y
  BY <1>2, <1>3
<1> QED
  BY <1>4

LEMMA MinIs ==
    ASSUME NEW S \in SUBSET Int, NEW x \in S, \A y \in S : x <= y PROVE Min(S) = x
<1>1. \E z \in S : \A y \in S : z <= y
  OBVIOUS
<1>2. Min(S) \in S /\ \A y \in S : Min(S) <= y
  BY <1>1, Zenon DEF Min
<1> QED
  BY <1>2, Min(S) \in Int /\ x \in Int

LEMMA MaxIs ==
    ASSUME NEW S \in SUBSET Int, NEW x \in S, \A y \in S : y <= x PROVE Max(S) = x
<1>1. \E z \in S : \A y \in S : z >= y
  BY \A y \in S : y \in Int
<1>2. Max(S) \in S /\ \A y \in S : Max(S) >= y
  BY <1>1, Zenon DEF Max
<1> QED
  BY <1>2, Max(S) \in Int /\ x \in Int

LEMMA Ends ==
    ASSUME NEW S \in SUBSET Days, S # {}
    PROVE  /\ Min(S) \in S /\ \A y \in S : Min(S) <= y
           /\ Max(S) \in S /\ \A y \in S : y <= Max(S)
<1>1. S \in SUBSET Int /\ LastDay \in Nat
  BY IntervalAssumption DEF Days
<1>2. PICK x \in S : \A y \in S : x <= y
  BY FirstOf DEF Days
<1>3. PICK z \in S : \A y \in S : y <= z
  BY <1>1, LastOf DEF Days
<1> QED
  BY <1>1, <1>2, <1>3, MinIs, MaxIs

-----------------------------------------------------------------------------
(* Consecutive members of a set of days *)

LEMMA StepsAre ==
    ASSUME NEW D, NEW p \in Steps(D)
    PROVE  /\ p[1] \in D /\ p[2] \in D /\ p[1] < p[2] /\ p = <<p[1], p[2]>>
           /\ \A d \in D : ~(p[1] < d /\ d < p[2])
  BY DEF Steps

(* Where a set of days is cut in two, one step leads over. *)
LEMMA StepOver ==
    ASSUME NEW D \in SUBSET Days, NEW L \in SUBSET D,
           NEW a \in L, NEW b \in D \ L, \A d \in L, e \in D \ L : d < e
    PROVE  \E p \in Steps(D) : p[1] \in L /\ p[2] \in D \ L /\ a <= p[1] /\ p[2] <= b
<1>1. PICK x \in L : \A y \in L : y <= x
  BY Ends
<1>2. PICK z \in D \ L : \A y \in D \ L : z <= y
  BY Ends
<1>3. <<x, z>> \in Steps(D)
  <2>1. \A d \in D : ~(x < d /\ d < z)
    <3> SUFFICES ASSUME NEW d \in D, x < d, d < z PROVE FALSE
      OBVIOUS
    <3>1. d \in Int /\ x \in Int /\ z \in Int
      BY DEF Days
    <3> QED
      BY <1>1, <1>2, <3>1
  <2> QED
    BY <1>1, <1>2, <2>1 DEF Steps
<1> QED
  BY <1>1, <1>2, <1>3

(* Two steps are one, or one ends before the other begins. *)
LEMMA StepsApart ==
    ASSUME NEW D \in SUBSET Days, NEW p \in Steps(D), NEW q \in Steps(D)
    PROVE  p = q \/ p[2] <= q[1] \/ q[2] <= p[1]
<1>1. /\ p[1] \in Int /\ p[2] \in Int /\ q[1] \in Int /\ q[2] \in Int
      /\ p[1] \in D /\ p[2] \in D /\ q[1] \in D /\ q[2] \in D /\ p[1] < p[2] /\ q[1] < q[2]
  BY StepsAre DEF Days
<1>2. SUFFICES ASSUME q[1] < p[2], p[1] < q[2] PROVE p = q
  BY <1>1
<1>3. ~(p[1] < q[1]) /\ ~(q[1] < p[1])
  <2>1. ~(p[1] < q[1] /\ q[1] < p[2]) /\ ~(q[1] < p[1] /\ p[1] < q[2])
    BY <1>1, StepsAre
  <2> QED
    BY <1>2, <2>1
<1>4. ~(p[2] < q[2]) /\ ~(q[2] < p[2])
  <2>1. ~(q[1] < p[2] /\ p[2] < q[2]) /\ ~(p[1] < q[2] /\ q[2] < p[2])
    BY <1>1, StepsAre
  <2> QED
    BY <1>2, <2>1
<1>5. p[1] = q[1] /\ p[2] = q[2]
  BY <1>1, <1>3, <1>4
<1> QED
  BY <1>5, StepsAre

(* The first step begins at the first day, the last one ends at the last. *)
LEMMA StepsSpan ==
    ASSUME NEW D \in SUBSET Days, Steps(D) # {}
    PROVE  /\ D # {} /\ Min(D) < Max(D)
           /\ Min({p[1] : p \in Steps(D)}) = Min(D)
           /\ Max({p[2] : p \in Steps(D)}) = Max(D)
<1>1. PICK o \in Steps(D) : TRUE
  OBVIOUS
<1>2. o[1] \in D /\ o[2] \in D /\ o[1] < o[2]
  BY StepsAre
<1>3. /\ Min(D) \in D /\ \A y \in D : Min(D) <= y
      /\ Max(D) \in D /\ \A y \in D : y <= Max(D)
  BY <1>2, Ends
<1>4. D \subseteq Int
  BY DEF Days
<1> DEFINE lo == Min(D)
           hi == Max(D)
<1> HIDE DEF lo, hi
<1>5. lo \in D /\ hi \in D /\ lo < hi /\ \A y \in D : lo <= y /\ y <= hi
  <2>1. o[1] \in Int /\ o[2] \in Int /\ Min(D) \in Int /\ Max(D) \in Int
    BY <1>2, <1>3, <1>4
  <2>2. Min(D) <= o[1] /\ o[2] <= Max(D)
    BY <1>2, <1>3
  <2> QED
    BY <1>2, <1>3, <2>1, <2>2 DEF lo, hi
<1>6. PICK p \in Steps(D) : p[1] = lo
  <2> DEFINE L == {lo}
  <2>1. \A d \in L, e \in D \ L : d < e
    BY <1>4, <1>5
  <2>2. L \in SUBSET D /\ lo \in L /\ hi \in D \ L
    BY <1>4, <1>5
  <2> HIDE DEF L
  <2>3. PICK p \in Steps(D) : p[1] \in L
    BY <2>1, <2>2, StepOver
  <2> QED
    BY <2>3 DEF L
<1>7. PICK q \in Steps(D) : q[2] = hi
  <2> DEFINE L == D \ {hi}
  <2>1. \A d \in L, e \in D \ L : d < e
    BY <1>4, <1>5
  <2>2. L \in SUBSET D /\ lo \in L /\ hi \in D \ L
    BY <1>4, <1>5
  <2> HIDE DEF L
  <2>3. PICK q \in Steps(D) : q[2] \in D \ L
    BY <2>1, <2>2, StepOver
  <2> QED
    BY <2>3 DEF L
<1>8. {r[1] : r \in Steps(D)} \subseteq D /\ {r[2] : r \in Steps(D)} \subseteq D
  BY StepsAre
<1>9. Min({r[1] : r \in Steps(D)}) = lo
  <2> DEFINE S == {r[1] : r \in Steps(D)}
  <2>1. S \in SUBSET Int /\ lo \in S /\ \A y \in S : lo <= y
    BY <1>4, <1>5, <1>6, <1>8
  <2> HIDE DEF S
  <2>2. Min(S) = lo
    BY <2>1, MinIs
  <2> QED
    BY <2>2 DEF S
<1>10. Max({r[2] : r \in Steps(D)}) = hi
  <2> DEFINE S == {r[2] : r \in Steps(D)}
  <2>1. S \in SUBSET Int /\ hi \in S /\ \A y \in S : y <= hi
    BY <1>4, <1>5, <1>7, <1>8
  <2> HIDE DEF S
  <2>2. Max(S) = hi
    BY <2>1, MaxIs
  <2> QED
    BY <2>2 DEF S
<1> QED
  BY <1>5, <1>9, <1>10 DEF lo, hi

-----------------------------------------------------------------------------
(* The days of a view *)

LEMMA DayFacts ==
    /\ 0 \in Days /\ LastDay \in Days /\ Days \subseteq Nat /\ Days \subseteq Int
    /\ \A d \in Days : 0 <= d /\ d <= LastDay
  BY IntervalAssumption DEF Days

LEMMA ViewFacts ==
    ASSUME ReturnsTyped, NEW v \in Views
    PROVE  /\ Spine(v) \in SUBSET Days /\ Rows(v) = Steps(Spine(v))
           /\ Points(v) \in SUBSET Days /\ CaptureFrom(v) \in Days
<1>1. \A s : Usable(s) \subseteq Days /\ Stored \subseteq Days
  BY DEF Usable, Stored
<1>2. Grid \subseteq Days
  BY <1>1, StepsAre DEF Grid
<1>3. CaptureFrom(v) \in Days
  <2> DEFINE S == {d \in Stored : stored[d].nav[v] # "uncaptured"} \cup {LastDay}
  <2>1. S \in SUBSET Days /\ S # {}
    BY <1>1, DayFacts
  <2> HIDE DEF S
  <2>2. Min(S) \in Days
    BY <2>1, Ends
  <2> QED
    BY <2>2, DayFacts DEF CaptureFrom, S
<1> QED
  BY <1>1, <1>2, <1>3 DEF Spine, Rows, Points

Covering(v, day) == {span \in UnresolvedSpans(v) : CoveredBy(span, day)}
Resolved(v) == {row \in Rows(v) : Returned(v, row)}
First(v) == IF CaptureFrom(v) <= Min(Spine(v)) THEN CaptureFrom(v) ELSE Min(Spine(v))

(* The spans of a view that has rows. *)
LEMMA SpansAre ==
    ASSUME ReturnsTyped, NEW v \in Views, Rows(v) # {}
    PROVE  UnresolvedSpans(v) =
             {span \in {<<0, First(v), "no KIS capture">>, <<CaptureFrom(v), Min(Spine(v)), "no start">>,
                        <<Max(Spine(v)), LastDay, "no end">>}
                       \cup {<<row[1], row[2], "unresolved">> : row \in {r \in Rows(v) : ~Returned(v, r)}} :
                 span[1] < span[2]}
<1> DEFINE starts == {row[1] : row \in Rows(v)}
           ends == {row[2] : row \in Rows(v)}
           unresolved == {<<row[1], row[2], "unresolved">> : row \in {r \in Rows(v) : ~Returned(v, r)}}
           c == CaptureFrom(v)
           lo == Min(Spine(v))
           hi == Max(Spine(v))
<1>1. starts # {} /\ Min(starts) = lo /\ Max(ends) = hi
  <2>1. Spine(v) \in SUBSET Days /\ Rows(v) = Steps(Spine(v))
    BY ViewFacts
  <2>2. /\ Min({p[1] : p \in Steps(Spine(v))}) = Min(Spine(v))
        /\ Max({p[2] : p \in Steps(Spine(v))}) = Max(Spine(v))
    BY <2>1, StepsSpan
  <2>3. starts = {p[1] : p \in Steps(Spine(v))} /\ ends = {p[2] : p \in Steps(Spine(v))}
    BY <2>1
  <2>4. starts # {}
    OBVIOUS
  <2> HIDE DEF starts, ends
  <2> QED
    BY <2>2, <2>3, <2>4
<1>2. c \in Int /\ lo \in Int
  BY ViewFacts, StepsSpan, Ends, DayFacts
<1>3. Min({c, lo}) = First(v)
  <2> DEFINE f == First(v)
  <2>1. f \in {c, lo} /\ \A y \in {c, lo} : f <= y
    BY <1>2 DEF First
  <2>2. {c, lo} \in SUBSET Int
    BY <1>2
  <2> HIDE DEF f, c, lo
  <2>3. Min({c, lo}) = f
    BY <2>1, <2>2, MinIs
  <2> QED
    BY <2>3 DEF f
<1>4. UnresolvedSpans(v) =
        {span \in {<<0, IF starts = {} THEN c ELSE Min({c, Min(starts)}), "no KIS capture">>}
                  \cup (IF Rows(v) = {} THEN {<<c, LastDay, "too few snapshots">>}
                        ELSE {<<SpanFrom(v), Min(starts), "no start">>, <<Max(ends), LastDay, "no end">>}
                             \cup unresolved) :
            span[1] < span[2]}
  BY DEF UnresolvedSpans
<1>5. SpanFrom(v) = c
  BY DEF SpanFrom
<1> HIDE DEF starts, ends, unresolved, c, lo, hi
<1>6. UnresolvedSpans(v) =
        {span \in {<<0, First(v), "no KIS capture">>}
                  \cup ({<<c, lo, "no start">>, <<hi, LastDay, "no end">>} \cup unresolved) :
            span[1] < span[2]}
  BY <1>1, <1>3, <1>4, <1>5
<1> QED
  BY <1>6 DEF c, lo, hi, unresolved

(* A day no row covers, or one row. *)
LEMMA RowOver ==
    ASSUME ReturnsTyped, NEW v \in Views, Rows(v) # {}, NEW day \in Int
    PROVE  /\ day <= Min(Spine(v)) \/ Max(Spine(v)) < day => \A p \in Rows(v) : ~CoveredBy(p, day)
           /\ Min(Spine(v)) < day /\ day <= Max(Spine(v)) => \E p \in Rows(v) : CoveredBy(p, day)
           /\ \A p, q \in Rows(v) : CoveredBy(p, day) /\ CoveredBy(q, day) => p = q
<1> DEFINE D == Spine(v)
<1>1. D \in SUBSET Days /\ Rows(v) = Steps(D) /\ D # {}
  BY ViewFacts, StepsSpan
<1>2. /\ Min(D) \in D /\ \A y \in D : Min(D) <= y
      /\ Max(D) \in D /\ \A y \in D : y <= Max(D)
  BY <1>1, Ends
<1> HIDE DEF D
<1>3. D \subseteq Int
  BY <1>1, DayFacts
<1>4. \A p \in Rows(v) : /\ p[1] \in D /\ p[2] \in D /\ p[1] \in Int /\ p[2] \in Int
                         /\ Min(D) <= p[1] /\ p[2] <= Max(D)
  BY <1>1, <1>2, <1>3, StepsAre
<1>5. Min(D) \in Int /\ Max(D) \in Int
  BY <1>2, <1>3
<1>6. day <= Min(D) \/ Max(D) < day => \A p \in Rows(v) : ~CoveredBy(p, day)
  BY <1>4, <1>5 DEF CoveredBy
<1>7. ASSUME Min(D) < day, day <= Max(D) PROVE \E p \in Rows(v) : CoveredBy(p, day)
  <2> DEFINE L == {d \in D : d < day}
  <2>1. /\ L \in SUBSET D /\ Min(D) \in L /\ Max(D) \in D \ L
        /\ \A d \in L, e \in D \ L : d < e
    BY <1>2, <1>3, <1>5, <1>7
  <2>2. \A e \in D \ L : day <= e
    BY <1>3
  <2> HIDE DEF L
  <2>3. PICK p \in Steps(D) : p[1] \in L /\ p[2] \in D \ L
    BY <1>1, <2>1, StepOver
  <2>4. p[1] < day
    BY <2>3 DEF L
  <2> QED
    BY <1>1, <2>2, <2>3, <2>4 DEF CoveredBy
<1>8. ASSUME NEW p \in Rows(v), NEW q \in Rows(v), CoveredBy(p, day), CoveredBy(q, day) PROVE p = q
  <2>1. p = q \/ p[2] <= q[1] \/ q[2] <= p[1]
    BY <1>1, StepsApart
  <2> QED
    BY <1>4, <1>8, <2>1 DEF CoveredBy
<1> QED
  BY <1>6, <1>7, <1>8 DEF D

Within(v, day) == {row \in Resolved(v) : CoveredBy(row, day)}

LEMMA DayInOnePlace ==
    ASSUME ReturnsTyped, NEW v \in Views, NEW day \in 1..LastDay
    PROVE  \/ Within(v, day) = {} /\ \E x : Covering(v, day) = {x}
           \/ Covering(v, day) = {} /\ \E x : Within(v, day) = {x}
<1> DEFINE c == CaptureFrom(v)
           lo == Min(Spine(v))
           hi == Max(Spine(v))
           last == LastDay
<1>1. c \in Int /\ day \in Int /\ last \in Int /\ 0 <= c /\ c <= last /\ 1 <= day /\ day <= last
  <2>1. LastDay \in Int /\ day \in Int /\ 1 <= day /\ day <= LastDay
    BY IntervalAssumption
  <2>2. CaptureFrom(v) \in Int /\ 0 <= CaptureFrom(v) /\ CaptureFrom(v) <= LastDay
    BY ViewFacts, DayFacts
  <2> QED
    BY <2>1, <2>2
<1>2. CASE Rows(v) = {}
  <2> DEFINE a == <<0, c, "no KIS capture">>
             b == <<c, last, "too few snapshots">>
  <2>1. UnresolvedSpans(v) = {span \in {a, b} : span[1] < span[2]}
    <3> DEFINE starts == {row[1] : row \in Rows(v)}
    <3>1. starts = {}
      BY <1>2
    <3>2. UnresolvedSpans(v) =
            {span \in {<<0, IF starts = {} THEN c ELSE Min({c, Min(starts)}), "no KIS capture">>}
                      \cup (IF Rows(v) = {} THEN {<<c, LastDay, "too few snapshots">>}
                            ELSE {<<SpanFrom(v), Min(starts), "no start">>,
                                  <<Max({row[2] : row \in Rows(v)}), LastDay, "no end">>}
                                 \cup {<<row[1], row[2], "unresolved">> : row \in {r \in Rows(v) : ~Returned(v, r)}}) :
                span[1] < span[2]}
      BY DEF UnresolvedSpans
    <3>3. UnresolvedSpans(v) = {span \in {a} \cup {b} : span[1] < span[2]}
      BY <1>2, <3>1, <3>2, Zenon
    <3> QED
      BY <3>3
  <2>2. Within(v, day) = {}
    BY <1>2 DEF Within, Resolved
  <2>5. /\ CoveredBy(a, day) <=> day <= c
        /\ CoveredBy(b, day) <=> c < day
        /\ a[1] < a[2] <=> 0 < c
        /\ b[1] < b[2] <=> c < last
    BY <1>1 DEF CoveredBy
  <2> HIDE DEF a, b, c, last
  <2>3. CASE day <= c
    <3>1. 0 < c /\ ~(c < day)
      BY <1>1, <2>3
    <3>2. Covering(v, day) = {a}
      BY <2>1, <2>3, <2>5, <3>1 DEF Covering
    <3> QED
      BY <2>2, <3>2
  <2>4. CASE c < day
    <3>1. c < last /\ ~(day <= c)
      BY <1>1, <2>4
    <3>2. Covering(v, day) = {b}
      BY <2>1, <2>4, <2>5, <3>1 DEF Covering
    <3> QED
      BY <2>2, <3>2
  <2>6. day <= c \/ c < day
    BY <1>1
  <2> QED
    BY <2>3, <2>4, <2>6, Zenon
<1>3. CASE Rows(v) # {}
  <2> DEFINE first == First(v)
             a == <<0, first, "no KIS capture">>
             b == <<c, lo, "no start">>
             e == <<hi, last, "no end">>
             u == {<<row[1], row[2], "unresolved">> : row \in {r \in Rows(v) : ~Returned(v, r)}}
  <2>1. UnresolvedSpans(v) = {span \in {a, b, e} \cup u : span[1] < span[2]}
    BY <1>3, SpansAre
  <2>2. /\ lo \in Int /\ hi \in Int /\ lo < hi /\ 0 <= lo /\ hi <= last
    <3>1. Spine(v) \in SUBSET Days /\ Spine(v) # {} /\ lo < hi
      BY <1>3, ViewFacts, StepsSpan
    <3> QED
      BY <3>1, Ends, DayFacts
  <2>3. first = IF c <= lo THEN c ELSE lo
    BY DEF First
  <2>4. \A p \in Rows(v) : CoveredBy(<<p[1], p[2], "unresolved">>, day) <=> CoveredBy(p, day)
    BY DEF CoveredBy
  <2>5. /\ CoveredBy(a, day) <=> day <= first
        /\ CoveredBy(b, day) <=> c < day /\ day <= lo
        /\ CoveredBy(e, day) <=> hi < day
    BY <1>1, <2>2 DEF CoveredBy
  <2>6. a[1] < a[2] <=> 0 < first
    OBVIOUS
  <2>7. b[1] < b[2] <=> c < lo
    OBVIOUS
  <2>8. e[1] < e[2] <=> hi < last
    OBVIOUS
  <2>9. \A x \in u : \E p \in Rows(v) : ~Returned(v, p) /\ x = <<p[1], p[2], "unresolved">> /\ p[1] < p[2]
    BY ViewFacts, StepsAre
  <2> HIDE DEF c, lo, hi, last, first, a, b, e, u
  <2>10. CASE day <= lo
    <3>1. \A p \in Rows(v) : ~CoveredBy(p, day)
      BY <1>1, <1>3, <2>10, RowOver DEF lo
    <3>2. Within(v, day) = {} /\ \A x \in u : ~CoveredBy(x, day)
      BY <2>4, <2>9, <3>1 DEF Within, Resolved
    <3>3. ~CoveredBy(e, day)
      BY <1>1, <2>2, <2>5, <2>10
    <3>4. CASE day <= c
      <4>1. day <= first /\ 0 < first /\ ~CoveredBy(b, day)
        BY <1>1, <2>2, <2>3, <2>5, <2>10, <3>4
      <4>2. Covering(v, day) = {a}
        BY <2>1, <2>5, <2>6, <3>2, <3>3, <4>1 DEF Covering
      <4> QED
        BY <3>2, <4>2
    <3>5. CASE c < day
      <4>1. ~CoveredBy(a, day) /\ CoveredBy(b, day) /\ c < lo
        BY <1>1, <2>2, <2>3, <2>5, <2>10, <3>5
      <4>2. Covering(v, day) = {b}
        BY <2>1, <2>7, <3>2, <3>3, <4>1 DEF Covering
      <4> QED
        BY <3>2, <4>2
    <3>6. day <= c \/ c < day
      BY <1>1
    <3> QED
      BY <3>4, <3>5, <3>6, Zenon
  <2>11. CASE hi < day
    <3>1. \A p \in Rows(v) : ~CoveredBy(p, day)
      BY <1>1, <1>3, <2>11, RowOver DEF hi
    <3>2. Within(v, day) = {} /\ \A x \in u : ~CoveredBy(x, day)
      BY <2>4, <2>9, <3>1 DEF Within, Resolved
    <3>3. ~CoveredBy(a, day) /\ ~CoveredBy(b, day) /\ CoveredBy(e, day) /\ hi < last
      BY <1>1, <2>2, <2>3, <2>5, <2>11
    <3>4. Covering(v, day) = {e}
      BY <2>1, <2>8, <3>2, <3>3 DEF Covering
    <3> QED
      BY <3>2, <3>4
  <2>12. CASE lo < day /\ day <= hi
    <3>1. PICK p \in Rows(v) : CoveredBy(p, day)
      BY <1>1, <1>3, <2>12, RowOver DEF lo, hi
    <3>2. \A q \in Rows(v) : CoveredBy(q, day) => q = p
      BY <1>1, <1>3, <3>1, RowOver
    <3>3. ~CoveredBy(a, day) /\ ~CoveredBy(b, day) /\ ~CoveredBy(e, day)
      BY <1>1, <2>2, <2>3, <2>5, <2>12
    <3> DEFINE x == <<p[1], p[2], "unresolved">>
    <3>4. \A y \in u : CoveredBy(y, day) => y = x /\ ~Returned(v, p)
      BY <2>4, <2>9, <3>2
    <3>5. CASE Returned(v, p)
      <4>1. Within(v, day) = {p}
        BY <3>1, <3>2, <3>5 DEF Within, Resolved
      <4>2. Covering(v, day) = {}
        BY <2>1, <3>3, <3>4, <3>5 DEF Covering
      <4> QED
        BY <4>1, <4>2
    <3>6. CASE ~Returned(v, p)
      <4>1. Within(v, day) = {}
        BY <3>2, <3>6 DEF Within, Resolved
      <4>2. x \in u /\ x[1] < x[2] /\ CoveredBy(x, day)
        BY <2>4, <3>1, <3>6, ViewFacts, StepsAre DEF u
      <4> HIDE DEF x
      <4>3. Covering(v, day) = {x}
        BY <2>1, <3>3, <3>4, <4>2 DEF Covering
      <4> QED
        BY <4>1, <4>3
    <3> QED
      BY <3>5, <3>6
  <2>13. day <= lo \/ hi < day \/ (lo < day /\ day <= hi)
    BY <1>1, <2>2
  <2> QED
    BY <2>10, <2>11, <2>12, <2>13, Zenon
<1> QED
  BY <1>2, <1>3

LEMMA EachDayMeans ==
    ASSUME ReturnsTyped PROVE EachDayOnce
<1> SUFFICES ASSUME NEW v \in Views, NEW day \in 1..LastDay
             PROVE  Cardinality(Within(v, day)) + Cardinality(Covering(v, day)) = 1
  BY DEF EachDayOnce, Within, Resolved, Covering
<1>1. /\ Cardinality({}) = 0
      /\ \A x : Cardinality({x}) = 1
  BY FS_EmptySet, FS_Singleton
<1>2. CASE Within(v, day) = {} /\ \E x : Covering(v, day) = {x}
  <2>1. Cardinality(Within(v, day)) = 0 /\ Cardinality(Covering(v, day)) = 1
    BY <1>1, <1>2, Zenon
  <2> QED
    BY <2>1
<1>3. CASE Covering(v, day) = {} /\ \E x : Within(v, day) = {x}
  <2>1. Cardinality(Covering(v, day)) = 0 /\ Cardinality(Within(v, day)) = 1
    BY <1>1, <1>3, Zenon
  <2> QED
    BY <2>1
<1> QED
  BY <1>2, <1>3, DayInOnePlace

-----------------------------------------------------------------------------
(* What is published *)

LEMMA StepCovers ==
    ASSUME ReturnsTyped, NEW v \in Views, NEW a \in Spine(v), NEW b \in Spine(v),
           NEW day \in Int, a < day, day <= b
    PROVE  \E p \in Rows(v) : CoveredBy(p, day) /\ a <= p[1] /\ p[2] <= b
<1> DEFINE D == Spine(v)
           L == {d \in D : d < day}
<1>1. D \in SUBSET Days /\ Rows(v) = Steps(D) /\ D \subseteq Int
  BY ViewFacts, DayFacts
<1>2. L \in SUBSET D /\ a \in L /\ b \in D \ L /\ \A d \in L, e \in D \ L : d < e
  BY <1>1
<1>3. \A e \in D \ L : day <= e
  BY <1>1
<1>4. \A d \in L : d < day
  OBVIOUS
<1> HIDE DEF D, L
<1>5. PICK p \in Steps(D) : p[1] \in L /\ p[2] \in D \ L /\ a <= p[1] /\ p[2] <= b
  BY <1>1, <1>2, StepOver
<1> QED
  BY <1>1, <1>3, <1>4, <1>5 DEF CoveredBy

LEMMA RowFacts ==
    ASSUME ReturnsTyped, NEW v \in Views, NEW p \in Rows(v)
    PROVE  /\ p[1] \in Spine(v) /\ p[2] \in Spine(v) /\ p[1] \in Int /\ p[2] \in Int /\ p[1] < p[2]
           /\ p[1] \in Days /\ p[2] \in Days
  BY ViewFacts, StepsAre, DayFacts

(* Two points of a view are among the days of its rows. *)
LEMMA PointsSpan ==
    ASSUME ReturnsTyped, NEW v \in Views, NEW a \in Points(v), NEW b \in Points(v), a < b
    PROVE  a \in Spine(v) /\ b \in Spine(v)
<1>1. CASE v # Composite
  BY <1>1 DEF Points, Spine
<1>2. CASE v = Composite
  <2>1. PICK s \in Scopes : TRUE
    BY IntervalAssumption
  <2> DEFINE D == Usable(s)
  <2>2. D \in SUBSET Days /\ D \subseteq Int
    BY DayFacts DEF Usable, Stored
  <2>3. a \in D /\ b \in D
    BY <1>2, <2>1 DEF Points
  <2>4. \A p \in Steps(D) : p[1] \in Grid /\ p[2] \in Grid
    BY <2>1 DEF Grid
  <2> HIDE DEF D
  <2>5. a \in Grid
    <3> DEFINE L == {d \in D : d <= a}
    <3>1. L \in SUBSET D /\ a \in L /\ b \in D \ L /\ \A d \in L, e \in D \ L : d < e
      BY <2>2, <2>3
    <3>2. \A d \in L : d <= a /\ d \in Int
      BY <2>2
    <3> HIDE DEF L
    <3>3. PICK p \in Steps(D) : p[1] \in L /\ a <= p[1]
      BY <2>2, <3>1, StepOver
    <3>4. p[1] = a
      BY <2>2, <2>3, <3>2, <3>3
    <3> QED
      BY <2>4, <3>4
  <2>6. b \in Grid
    <3> DEFINE L == {d \in D : d < b}
    <3>1. L \in SUBSET D /\ a \in L /\ b \in D \ L /\ \A d \in L, e \in D \ L : d < e
      BY <2>2, <2>3
    <3>2. \A e \in D \ L : b <= e /\ e \in Int
      BY <2>2, <2>3
    <3> HIDE DEF L
    <3>3. PICK p \in Steps(D) : p[2] \in D \ L /\ p[2] <= b
      BY <2>2, <3>1, StepOver
    <3>4. b <= p[2] /\ p[2] \in Int /\ b \in Int
      BY <2>2, <2>3, <3>2, <3>3
    <3>5. p[2] = b
      BY <3>3, <3>4
    <3> QED
      BY <2>4, <3>5
  <2> QED
    BY <1>2, <2>5, <2>6 DEF Spine
<1> QED
  BY <1>1, <1>2

(* The ends of a returned row are points. *)
LEMMA ReturnedEnds ==
    ASSUME ReturnsTyped, NEW v \in Views, NEW p \in Resolved(v)
    PROVE  p[1] \in Points(v) /\ p[2] \in Points(v)
<1>1. CASE v # Composite
  BY <1>1, RowFacts DEF Resolved, Points, Spine
<1>2. CASE v = Composite
  <2>1. \A s \in Scopes : p[1] \in Usable(s) /\ p[2] \in Usable(s)
    BY <1>2, StepsAre DEF Resolved, Returned
  <2>2. p[1] \in Stored /\ p[2] \in Stored
    BY <2>1, IntervalAssumption DEF Usable
  <2> QED
    BY <1>2, <2>1, <2>2 DEF Points
<1> QED
  BY <1>1, <1>2

(* Where every day has a resolved row, no day is unresolved. *)
LEMMA NoneWithin ==
    ASSUME ReturnsTyped, NEW v \in Views, NEW a \in Days, NEW b \in Days,
           \A day \in a+1..b : \E p \in Resolved(v) : CoveredBy(p, day)
    PROVE  ~UnresolvedWithin(v, a, b)
<1> SUFFICES ASSUME NEW day \in a+1..b, NEW span \in UnresolvedSpans(v), CoveredBy(span, day) PROVE FALSE
  BY DEF UnresolvedWithin
<1>1. day \in 1..LastDay
  <2>1. a \in Nat /\ b \in Nat /\ b <= LastDay /\ LastDay \in Nat
    BY DayFacts, IntervalAssumption
  <2> QED
    BY <2>1
<1>2. Within(v, day) # {} /\ Covering(v, day) # {}
  BY DEF Within, Covering
<1> QED
  BY <1>1, <1>2, DayInOnePlace

LEMMA PublishedMeans ==
    ASSUME ReturnsTyped, NEW v \in Views, Published(v)
    PROVE  UnresolvedSpans(v) = {}
<1>1. /\ 0 \in Points(v) /\ LastDay \in Points(v)
      /\ \A row \in Rows(v) : Returned(v, row)
  BY DEF Published, Linked
<1>2. 0 < LastDay
  BY IntervalAssumption
<1>3. 0 \in Spine(v) /\ LastDay \in Spine(v) /\ Spine(v) \in SUBSET Days
  BY <1>1, <1>2, PointsSpan, ViewFacts
<1>4. Rows(v) # {}
  <2>1. LastDay \in Int /\ LastDay <= LastDay
    BY IntervalAssumption
  <2>2. \E p \in Rows(v) : CoveredBy(p, LastDay)
    BY <1>2, <1>3, <2>1, StepCovers
  <2> QED
    BY <2>2
<1>5. Min(Spine(v)) = 0 /\ Max(Spine(v)) = LastDay
  <2> DEFINE D == Spine(v)
  <2>1. D \in SUBSET Int /\ 0 \in D /\ LastDay \in D /\ \A y \in D : 0 <= y /\ y <= LastDay
    BY <1>3, DayFacts
  <2> HIDE DEF D
  <2>2. Min(D) = 0 /\ Max(D) = LastDay
    BY <2>1, MinIs, MaxIs
  <2> QED
    BY <2>2 DEF D
<1>6. CaptureFrom(v) \in Int /\ 0 <= CaptureFrom(v)
  BY ViewFacts, DayFacts
<1>7. First(v) = 0
  BY <1>5, <1>6 DEF First
<1> DEFINE a == <<0, First(v), "no KIS capture">>
           b == <<CaptureFrom(v), Min(Spine(v)), "no start">>
           e == <<Max(Spine(v)), LastDay, "no end">>
<1>8. ~(a[1] < a[2]) /\ ~(b[1] < b[2]) /\ ~(e[1] < e[2])
  <2>1. a[1] = 0 /\ a[2] = 0
    BY <1>7
  <2>2. b[2] = 0 /\ b[1] = CaptureFrom(v)
    BY <1>5
  <2>3. e[1] = LastDay /\ e[2] = LastDay
    BY <1>5
  <2> HIDE DEF a, b, e
  <2>4. ~(LastDay < LastDay)
    BY DayFacts
  <2> QED
    BY <1>6, <2>1, <2>2, <2>3, <2>4
<1>9. {r \in Rows(v) : ~Returned(v, r)} = {}
  BY <1>1
<1>10. UnresolvedSpans(v) = {span \in {a, b, e} \cup {<<row[1], row[2], "unresolved">> : row \in {}} : span[1] < span[2]}
  BY <1>4, <1>9, SpansAre
<1> QED
  BY <1>8, <1>10

LEMMA EffectiveFacts ==
    ASSUME ReturnsTyped, NEW v \in Views, EffectivePublished(v)
    PROVE  /\ EffectiveFrom(v) \in Spine(v) /\ EffectiveTo(v) \in Spine(v) /\ EffectiveFrom(v) < EffectiveTo(v)
           /\ EffectiveFrom(v) \in Points(v) /\ EffectiveTo(v) \in Points(v)
           /\ \A row \in Rows(v) : EffectiveFrom(v) <= row[1] /\ row[2] <= EffectiveTo(v) => Returned(v, row)
           /\ \A d \in Points(v) : EffectiveFrom(v) <= d /\ d <= EffectiveTo(v)
<1> DEFINE S == Points(v)
           lo == Min(S)
           hi == Max(S)
<1>1. /\ Cardinality(S) >= 2
      /\ \A row \in {r \in Rows(v) : lo <= r[1] /\ r[2] <= hi} : Returned(v, row)
  BY DEF EffectivePublished, EffectiveFrom, EffectiveTo, Linked
<1>2. S \in SUBSET Days /\ S \subseteq Int
  BY ViewFacts, DayFacts
<1>3. S # {}
  BY <1>1, FS_EmptySet
<1>4. lo \in S /\ hi \in S /\ \A d \in S : lo <= d /\ d <= hi
  <2> HIDE DEF S
  <2> QED
    BY <1>2, <1>3, Ends
<1>5. lo < hi
  <2>1. SUFFICES ASSUME lo = hi PROVE FALSE
    BY <1>2, <1>4
  <2>2. \A d \in S : d = lo
    BY <1>2, <1>4, <2>1
  <2>3. S = {lo}
    BY <1>4, <2>2
  <2>4. Cardinality(S) = 1
    BY <2>3, FS_Singleton
  <2> QED
    BY <1>1, <2>4
<1>6. lo \in Spine(v) /\ hi \in Spine(v)
  BY <1>4, <1>5, PointsSpan
<1> QED
  BY <1>1, <1>4, <1>5, <1>6 DEF EffectiveFrom, EffectiveTo

LEMMA EffectiveMeans ==
    ASSUME ReturnsTyped, NEW v \in Views, EffectivePublished(v)
    PROVE  /\ ~UnresolvedWithin(v, EffectiveFrom(v), EffectiveTo(v))
           /\ HasTracked(v) => TrackedFrom(v) = EffectiveFrom(v) /\ TrackedTo(v) = EffectiveTo(v)
<1>1. PICK lo, hi : lo = EffectiveFrom(v) /\ hi = EffectiveTo(v)
  OBVIOUS
<1>2. /\ lo \in Spine(v) /\ hi \in Spine(v) /\ lo < hi
      /\ \A row \in Rows(v) : lo <= row[1] /\ row[2] <= hi => Returned(v, row)
      /\ \A d \in Points(v) : lo <= d /\ d <= hi
  BY <1>1, EffectiveFacts
<1>3. lo \in Days /\ hi \in Days /\ lo \in Int /\ hi \in Int
  BY <1>2, ViewFacts, DayFacts
<1>4. ASSUME NEW day \in lo+1..hi
      PROVE  \E p \in Resolved(v) : CoveredBy(p, day) /\ lo <= p[1] /\ p[2] <= hi
  <2>1. day \in Int /\ lo < day /\ day <= hi
    BY <1>3
  <2>2. PICK p \in Rows(v) : CoveredBy(p, day) /\ lo <= p[1] /\ p[2] <= hi
    BY <1>2, <2>1, StepCovers
  <2> QED
    BY <1>2, <2>2 DEF Resolved
<1>5. ~UnresolvedWithin(v, lo, hi)
  BY <1>3, <1>4, NoneWithin
(* What is tracked is all that is resolved. *)
<1>6. \A p \in Resolved(v) : /\ lo <= p[1] /\ p[2] <= hi /\ p[1] \in Int /\ p[2] \in Int /\ p[1] < p[2]
  BY <1>2, ReturnedEnds, RowFacts DEF Resolved
<1>7. PICK p \in Resolved(v) : p[1] = lo
  <2>1. lo + 1 \in lo+1..hi
    BY <1>2, <1>3
  <2>2. PICK p \in Resolved(v) : CoveredBy(p, lo + 1)
    BY <1>4, <2>1
  <2> QED
    BY <1>3, <1>6, <2>2 DEF CoveredBy
<1>8. PICK q \in Resolved(v) : q[2] = hi
  <2>1. hi \in lo+1..hi
    BY <1>2, <1>3
  <2>2. PICK q \in Resolved(v) : CoveredBy(q, hi)
    BY <1>4, <2>1
  <2> QED
    BY <1>3, <1>6, <2>2 DEF CoveredBy
<1>9. Max({row[2] : row \in Resolved(v)}) = hi
  <2> DEFINE S == {row[2] : row \in Resolved(v)}
  <2>1. S \in SUBSET Int /\ hi \in S /\ \A y \in S : y <= hi
    BY <1>6, <1>8
  <2> HIDE DEF S
  <2>2. Max(S) = hi
    BY <2>1, MaxIs
  <2> QED
    BY <2>2 DEF S
<1>10. TrackedRows(v) = Resolved(v)
  <2>1. TrackedRows(v) =
          {row \in Resolved(v) :
              \A later \in Rows(v) : row[1] <= later[1] /\ later[2] <= Max({r[2] : r \in Resolved(v)}) => later \in Resolved(v)}
    BY DEF TrackedRows, Resolved
  <2>2. ASSUME NEW row \in Resolved(v), NEW later \in Rows(v), row[1] <= later[1], later[2] <= hi
        PROVE  later \in Resolved(v)
    <3>1. lo <= later[1]
      BY <1>3, <1>6, <2>2, RowFacts
    <3> QED
      BY <1>2, <2>2, <3>1 DEF Resolved
  <2> QED
    BY <1>9, <2>1, <2>2
<1>11. Min({row[1] : row \in Resolved(v)}) = lo
  <2> DEFINE S == {row[1] : row \in Resolved(v)}
  <2>1. S \in SUBSET Int /\ lo \in S /\ \A y \in S : lo <= y
    BY <1>6, <1>7
  <2> HIDE DEF S
  <2>2. Min(S) = lo
    BY <2>1, MinIs
  <2> QED
    BY <2>2 DEF S
<1>12. TrackedFrom(v) = lo /\ TrackedTo(v) = hi
  BY <1>9, <1>10, <1>11 DEF TrackedFrom, TrackedTo
<1> QED
  BY <1>1, <1>5, <1>12

LEMMA TrackedMeans ==
    ASSUME ReturnsTyped, NEW v \in Views, HasTracked(v)
    PROVE  ~UnresolvedWithin(v, TrackedFrom(v), TrackedTo(v))
<1> DEFINE ends == {row[2] : row \in Resolved(v)}
           latest == Max(ends)
<1>1. ends \in SUBSET Days /\ ends # {}
  BY RowFacts DEF HasTracked, Resolved
<1>2. latest \in ends /\ \A y \in ends : y <= latest
  <2> HIDE DEF ends
  <2> QED
    BY <1>1, Ends
<1>3. PICK r \in Resolved(v) : r[2] = latest
  BY <1>2
<1>4. \A p \in Resolved(v) : p[2] <= latest
  BY <1>2
<1>5. TrackedRows(v) =
        {row \in Resolved(v) :
            \A later \in Rows(v) : row[1] <= later[1] /\ later[2] <= latest => later \in Resolved(v)}
  BY DEF TrackedRows, Resolved
<1> HIDE DEF ends, latest
<1>6. \A p \in Rows(v) : p[1] \in Int /\ p[2] \in Int /\ p[1] \in Days /\ p[2] \in Days /\ p[1] < p[2]
  BY RowFacts
<1>7. Resolved(v) \subseteq Rows(v)
  BY DEF Resolved
<1>8. r \in TrackedRows(v)
  <2>1. SUFFICES ASSUME NEW later \in Rows(v), r[1] <= later[1], later[2] <= latest PROVE later \in Resolved(v)
    BY <1>5
  <2>2. later = r \/ later[2] <= r[1] \/ r[2] <= later[1]
    BY <1>7, ViewFacts, StepsApart
  <2>3. ~(later[2] <= r[1]) /\ ~(r[2] <= later[1])
    BY <1>3, <1>6, <1>7, <2>1
  <2> QED
    BY <2>2, <2>3
<1>9. TrackedTo(v) = latest
  <2> DEFINE S == {row[2] : row \in TrackedRows(v)}
  <2>1. S \in SUBSET Int /\ latest \in S /\ \A y \in S : y <= latest
    BY <1>3, <1>4, <1>5, <1>6, <1>7, <1>8
  <2> HIDE DEF S
  <2>2. Max(S) = latest
    BY <2>1, MaxIs
  <2> QED
    BY <2>2 DEF S, TrackedTo
<1>10. PICK f \in TrackedRows(v) : TrackedFrom(v) = f[1]
  <2> DEFINE S == {row[1] : row \in TrackedRows(v)}
  <2>1. S \in SUBSET Days /\ S # {}
    BY <1>5, <1>6, <1>7, <1>8
  <2> HIDE DEF S
  <2>2. Min(S) \in S
    BY <2>1, Ends
  <2> QED
    BY <2>2 DEF S, TrackedFrom
<1>11. f \in Rows(v) /\ \A later \in Rows(v) : f[1] <= later[1] /\ later[2] <= latest => later \in Resolved(v)
  BY <1>5, <1>7
<1>12. f[1] \in Spine(v) /\ latest \in Spine(v) /\ f[1] \in Days /\ latest \in Days
  BY <1>3, <1>7, <1>11, RowFacts
<1>13. ASSUME NEW day \in f[1]+1..latest PROVE \E p \in Resolved(v) : CoveredBy(p, day)
  <2>0. f[1] \in Int /\ latest \in Int
    BY <1>12, DayFacts
  <2>1. day \in Int /\ f[1] < day /\ day <= latest
    BY <2>0
  <2>2. PICK p \in Rows(v) : CoveredBy(p, day) /\ f[1] <= p[1] /\ p[2] <= latest
    BY <1>12, <2>1, StepCovers
  <2> QED
    BY <1>11, <2>2
<1> QED
  BY <1>9, <1>10, <1>12, <1>13, NoneWithin

LEMMA NeverOverMeans ==
    ASSUME ReturnsTyped PROVE NeverOverResolvedDaysOnly
  BY PublishedMeans, EffectiveMeans, TrackedMeans DEF NeverOverResolvedDaysOnly

-----------------------------------------------------------------------------
(* Flows counted once *)

(* A later day's snapshot has the later instant. *)
LEMMA StampsRise ==
    ASSUME ReturnsTyped, NEW d \in Days, NEW e \in Days
    PROVE  /\ Stamp(d) \in Int
           /\ d < e => Stamp(d) < Stamp(e)
<1> DEFINE w == MaxRecaptures + 2
           vd == stored[d].version
           ve == stored[e].version
<1>1. vd \in 0..(w - 1) /\ ve \in 0..(w - 1) /\ w \in Nat
  BY IntervalAssumption DEF ReturnsTyped, Snapshots
<1>2. d \in Nat /\ e \in Nat
  BY DayFacts
<1>3. Stamp(d) = d * w + vd /\ Stamp(e) = e * w + ve
  BY DEF Stamp, At
<1> HIDE DEF w, vd, ve
<1>4. d * w \in Int /\ e * w \in Int
  BY <1>1, <1>2
<1>5. d < e => d * w + w <= e * w
  <2>1. SUFFICES ASSUME d < e PROVE d * w + w <= e * w
    OBVIOUS
  <2>2. PICK k \in Nat : e = d + 1 + k
    <3>1. e - d - 1 \in Nat /\ e = d + 1 + (e - d - 1)
      BY <1>2, <2>1
    <3> QED
      BY <3>1
  <2>3. e * w = d * w + w + k * w
    BY <1>1, <1>2, <2>2
  <2>4. k * w \in Nat
    BY <1>1
  <2> QED
    BY <1>4, <1>1, <2>3, <2>4
<1> QED
  BY <1>1, <1>3, <1>4, <1>5

(* A record of a resolved interval runs between two of its snapshots. *)
LEMMA RecordSpans ==
    ASSUME ReturnsTyped, NEW s \in Scopes, NEW p, p[1] \in Days, p[2] \in Days, Leveled(s, p),
           NEW r \in Overlapping(s, p)
    PROVE  /\ r \in flows[s] /\ Bound(r) /\ r.start \in Days /\ r.end \in Days /\ r.start < r.end
           /\ From(r) = Stamp(r.start) /\ To(r) = Stamp(r.end)
           /\ From(r) \in Int /\ To(r) \in Int /\ From(r) < To(r)
           /\ Stamp(p[1]) <= From(r) /\ To(r) <= Stamp(p[2])
<1>1. r \in flows[s] /\ Bound(r) /\ p[1] <= r.start /\ r.end <= p[2]
  BY DEF Leveled, Overlapping
<1>2. r.start \in Days /\ r.end \in Days /\ r.start < r.end
  BY <1>1 DEF ReturnsTyped, Graded
<1>3. From(r) = Stamp(r.start) /\ To(r) = Stamp(r.end)
  BY <1>1 DEF From, To, Stamp, Bound
<1>4. /\ Stamp(r.start) \in Int /\ Stamp(r.end) \in Int /\ Stamp(p[1]) \in Int /\ Stamp(p[2]) \in Int
      /\ Stamp(r.start) < Stamp(r.end)
  BY <1>2, StampsRise
<1>5. Stamp(p[1]) <= Stamp(r.start)
  <2>0. p[1] \in Int /\ r.start \in Int
    BY <1>2, DayFacts
  <2>1. p[1] = r.start \/ p[1] < r.start
    BY <1>1, <2>0
  <2> QED
    BY <1>2, <1>4, <2>1, StampsRise
<1>6. Stamp(r.end) <= Stamp(p[2])
  <2>0. p[2] \in Int /\ r.end \in Int
    BY <1>2, DayFacts
  <2>1. p[2] = r.end \/ r.end < p[2]
    BY <1>1, <2>0
  <2> QED
    BY <1>2, <1>4, <2>1, StampsRise
<1> QED
  BY <1>1, <1>2, <1>3, <1>4, <1>5, <1>6

(* Each instant of a resolved interval lies in a record. *)
LEMMA RecordOver ==
    ASSUME ReturnsTyped, NEW s \in Scopes, NEW p, p[1] \in Days, p[2] \in Days, Leveled(s, p),
           NEW t \in Int, Stamp(p[1]) < t, t <= Stamp(p[2])
    PROVE  \E r \in Overlapping(s, p) : From(r) < t /\ t <= To(r)
<1> DEFINE R == Overlapping(s, p)
           S == {r.start : r \in R}
           T == {d \in S : Stamp(d) < t}
<1>1. R # {} /\ \A r \in R :
           /\ From(r) = Stamp(p[1]) \/ \E q \in R : To(q) = From(r)
           /\ To(r) = Stamp(p[2]) \/ \E q \in R : From(q) = To(r)
  BY DEF Leveled, Tile
<1>2. \A r \in R :
           /\ r.start \in Days /\ r.end \in Days /\ r.start \in Int /\ r.end \in Int /\ r.start < r.end
           /\ From(r) = Stamp(r.start) /\ To(r) = Stamp(r.end) /\ From(r) \in Int /\ To(r) \in Int
  BY RecordSpans, DayFacts
<1>3. Stamp(p[1]) \in Int /\ Stamp(p[2]) \in Int
  BY StampsRise
<1> HIDE DEF R
<1>4. S \in SUBSET Days /\ S # {} /\ T \in SUBSET Days /\ \A r \in R : r.start \in S
  BY <1>1, <1>2
<1>5. PICK x \in S : \A y \in S : x <= y
  <2> HIDE DEF S
  <2> QED
    BY <1>4, Ends
<1>6. PICK r1 \in R : x = r1.start
  BY <1>5
<1>7. From(r1) = Stamp(p[1])
  <2>1. SUFFICES ASSUME NEW q \in R, To(q) = From(r1) PROVE FALSE
    BY <1>1, <1>6
  <2>2. q.start \in S /\ r1.start <= q.start
    BY <1>4, <1>5, <1>6
  <2>3. r1.start < q.end
    BY <1>2, <1>6, <2>2
  <2>4. Stamp(r1.start) < Stamp(q.end)
    BY <1>2, <1>6, <2>3, StampsRise
  <2> QED
    BY <1>2, <1>6, <2>1, <2>4
<1>8. x \in T
  BY <1>2, <1>5, <1>6, <1>7
<1>9. PICK z \in T : \A y \in T : y <= z
  <2> HIDE DEF T
  <2> QED
    BY <1>4, <1>8, Ends
<1>10. PICK r2 \in R : z = r2.start
  BY <1>9
<1>11. From(r2) < t
  BY <1>2, <1>9, <1>10
<1>12. t <= To(r2)
  <2>1. SUFFICES ASSUME To(r2) < t PROVE FALSE
    BY <1>2, <1>10
  <2>2. PICK q \in R : From(q) = To(r2)
    BY <1>1, <1>2, <1>3, <1>10, <2>1
  <2>3. q.start \in T
    BY <1>2, <1>4, <2>1, <2>2
  <2>4. q.start <= r2.start
    BY <1>9, <1>10, <2>3
  <2>5. q.start < r2.end
    BY <1>2, <1>10, <2>2, <2>4
  <2>6. Stamp(q.start) < Stamp(r2.end)
    BY <1>2, <1>10, <2>2, <2>5, StampsRise
  <2> QED
    BY <1>2, <1>10, <2>2, <2>6
<1> QED
  BY <1>10, <1>11, <1>12 DEF R

(* The interval a view returns over is resolved in each scope it includes. *)
LEMMA ReturnedLeveled ==
    ASSUME NEW v \in Views, NEW s \in Scopes, v \in {s, Composite}, NEW p, Returned(v, p)
    PROVE  Leveled(s, p)
  BY IntervalAssumption DEF Returned

LEMMA FlowsMean ==
    ASSUME ReturnsTyped, NEW v \in Views, NEW s \in Scopes,
           EffectivePublished(v), v \in {s, Composite},
           NEW t \in Stamp(EffectiveFrom(v))+1..Stamp(EffectiveTo(v))
    PROVE  Cardinality({x \in Rows(v) \X flows[s] :
               x[2] \in Overlapping(s, x[1]) /\ Bound(x[2]) /\ From(x[2]) < t /\ t <= To(x[2])}) = 1
<1>1. PICK lo, hi : lo = EffectiveFrom(v) /\ hi = EffectiveTo(v)
  OBVIOUS
<1>2. /\ lo \in Spine(v) /\ hi \in Spine(v) /\ lo < hi
      /\ \A row \in Rows(v) : lo <= row[1] /\ row[2] <= hi => Returned(v, row)
  BY <1>1, EffectiveFacts
<1> DEFINE D == Spine(v)
           L == {d \in D : Stamp(d) < t}
<1>3. D \in SUBSET Days /\ Rows(v) = Steps(D) /\ D \subseteq Int
  BY ViewFacts, DayFacts
<1>4. \A d \in D : Stamp(d) \in Int
  BY <1>3, StampsRise
<1>5. t \in Int /\ Stamp(lo) < t /\ t <= Stamp(hi)
  BY <1>1, <1>2, <1>4
<1>6. L \in SUBSET D /\ lo \in L /\ hi \in D \ L
  BY <1>2, <1>4, <1>5
<1>7. \A d \in L, e \in D \ L : d < e
  <2>1. SUFFICES ASSUME NEW d \in L, NEW e \in D \ L, ~(d < e) PROVE FALSE
    OBVIOUS
  <2>2. Stamp(d) < t /\ ~(Stamp(e) < t) /\ d \in Days /\ e \in Days /\ d \in Int /\ e \in Int
    BY <1>3, <2>1
  <2>3. d = e \/ e < d
    BY <2>1, <2>2
  <2>4. Stamp(e) <= Stamp(d)
    BY <1>3, <1>4, <2>2, <2>3, StampsRise
  <2> QED
    BY <1>4, <1>5, <2>1, <2>2, <2>4
<1>8. \A d \in L : Stamp(d) < t
  OBVIOUS
<1>9. \A e \in D \ L : t <= Stamp(e)
  BY <1>4, <1>5
<1> HIDE DEF D, L
<1>10. PICK p \in Steps(D) : p[1] \in L /\ p[2] \in D \ L /\ lo <= p[1] /\ p[2] <= hi
  BY <1>3, <1>6, <1>7, StepOver
<1>11. /\ p[1] \in Days /\ p[2] \in Days /\ Stamp(p[1]) < t /\ t <= Stamp(p[2])
       /\ p \in Rows(v) /\ Leveled(s, p)
  BY <1>2, <1>3, <1>6, <1>8, <1>9, <1>10, ReturnedLeveled
<1>12. PICK r \in Overlapping(s, p) : From(r) < t /\ t <= To(r)
  BY <1>5, <1>11, RecordOver
<1>13. /\ r \in flows[s] /\ Bound(r) /\ From(r) \in Int /\ To(r) \in Int
       /\ Stamp(p[1]) <= From(r) /\ To(r) <= Stamp(p[2])
  BY <1>11, RecordSpans
<1> DEFINE X == {x \in Rows(v) \X flows[s] :
                    x[2] \in Overlapping(s, x[1]) /\ Bound(x[2]) /\ From(x[2]) < t /\ t <= To(x[2])}
<1>14. <<p, r>> \in X
  BY <1>11, <1>12, <1>13
<1>15. ASSUME NEW o \in Rows(v), NEW q \in flows[s],
              q \in Overlapping(s, o), Bound(q), From(q) < t, t <= To(q)
       PROVE  o = p /\ q = r
  <2>1. /\ From(q) = Stamp(q.start) /\ To(q) = Stamp(q.end) /\ q.start \in Days /\ q.end \in Days
    BY <1>15 DEF From, To, Stamp, Bound, ReturnsTyped, Graded
  <2>2. From(q) \in Int /\ To(q) \in Int
    BY <2>1, StampsRise
  <2>3. /\ Stamp(p[1]) \in Int /\ Stamp(p[2]) \in Int
    BY <1>11, StampsRise
  <2>4. q \in Overlapping(s, p)
    <3>1. To(q) > Stamp(p[1]) /\ From(q) < Stamp(p[2])
      BY <1>5, <1>11, <1>15, <2>2, <2>3
    <3> QED
      BY <3>1 DEF Overlapping
  <2>5. q = r
    <3>1. q = r \/ To(q) <= From(r) \/ To(r) <= From(q)
      BY <1>11, <1>12, <2>4 DEF Leveled, Tile, InTurn
    <3> QED
      BY <1>5, <1>12, <1>13, <1>15, <2>2, <3>1
  <2>6. o \in Steps(D) /\ o[1] \in Days /\ o[2] \in Days
    BY <1>3, StepsAre
  <2>7. To(r) > Stamp(o[1]) /\ From(r) < Stamp(o[2])
    BY <1>15, <2>5 DEF Overlapping
  <2>8. /\ Stamp(o[1]) \in Int /\ Stamp(o[2]) \in Int
    BY <2>6, StampsRise
  <2>9. Stamp(o[1]) < Stamp(p[2]) /\ Stamp(p[1]) < Stamp(o[2])
    BY <1>13, <2>3, <2>7, <2>8
  <2>10. o[1] \in Int /\ o[2] \in Int /\ p[1] \in Int /\ p[2] \in Int
    BY <1>11, <2>6, DayFacts
  <2>11. ~(p[2] <= o[1])
    <3>1. SUFFICES ASSUME p[2] = o[1] \/ p[2] < o[1] PROVE FALSE
      BY <2>10
    <3> QED
      BY <1>11, <2>3, <2>6, <2>8, <2>9, <3>1, StampsRise
  <2>12. ~(o[2] <= p[1])
    <3>1. SUFFICES ASSUME o[2] = p[1] \/ o[2] < p[1] PROVE FALSE
      BY <2>10
    <3> QED
      BY <1>11, <2>3, <2>6, <2>8, <2>9, <3>1, StampsRise
  <2>13. o = p
    BY <1>3, <1>10, <2>6, <2>11, <2>12, StepsApart
  <2> QED
    BY <2>5, <2>13
<1>16. \A x \in X : x = <<p, r>>
  <2> SUFFICES ASSUME NEW x \in X PROVE x = <<p, r>>
    OBVIOUS
  <2>1. PICK o \in Rows(v), q \in flows[s] : x = <<o, q>>
    OBVIOUS
  <2>2. q \in Overlapping(s, o) /\ Bound(q) /\ From(q) < t /\ t <= To(q)
    BY <2>1
  <2> QED
    BY <1>15, <2>1, <2>2
<1> HIDE DEF X
<1>17. X = {<<p, r>>}
  BY <1>14, <1>16
<1>18. Cardinality(X) = 1
  BY <1>17, FS_Singleton
<1> QED
  BY <1>18 DEF X

LEMMA FlowsOnce ==
    ASSUME ReturnsTyped PROVE FlowsCountedOnce
  BY FlowsMean, Zenon DEF FlowsCountedOnce

-----------------------------------------------------------------------------
(* The returns stand *)

LEMMA ReturnsStart ==
    ReturnsInit => ReturnsTyped
<1> SUFFICES ASSUME ReturnsInit PROVE ReturnsTyped
  OBVIOUS
<1>1. [version |-> 0, nav |-> [s \in Scopes |-> "incomplete"]] \in Snapshots
  BY IntervalAssumption DEF Snapshots
<1> QED
  BY <1>1, DayFacts DEF ReturnsInit, ReturnsTyped

LEMMA ReturnsStep ==
    ReturnsTyped /\ [ReturnsNext]_returnVars => ReturnsTyped'
<1> SUFFICES ASSUME ReturnsTyped, [ReturnsNext]_returnVars PROVE ReturnsTyped'
  OBVIOUS
<1>1. ASSUME NEW nav \in Navs, Capture(nav) PROVE ReturnsTyped'
  <2>1. [version |-> stored[today].version + 1, nav |-> nav] \in Snapshots
    <3>1. stored[today].version \in 0..(MaxRecaptures + 1) /\ MaxRecaptures \in Nat
      BY IntervalAssumption DEF ReturnsTyped, Snapshots
    <3>2. stored[today].version + 1 \in 0..(MaxRecaptures + 1)
      BY <1>1, <3>1 DEF Capture
    <3> QED
      BY <3>2, IntervalAssumption DEF Snapshots
  <2>2. stored' \in [Days -> Snapshots]
    BY <1>1, <2>1 DEF Capture, ReturnsTyped
  <2> QED
    BY <1>1, <2>2 DEF Capture, ReturnsTyped
<1>2. CASE NextDay
  BY <1>2, IntervalAssumption DEF NextDay, ReturnsTyped, Days
<1>3. ASSUME NEW s \in Scopes, NEW grade \in Grades, NEW used \in {Stored, Usable(s)},
             NEW poor \in Steps(used), Infer(s, used, poor, grade)
      PROVE  ReturnsTyped'
  <2>1. used \subseteq Days
    BY DEF Stored, Usable
  <2>2. \A p \in Steps(used), g \in Grades : Record(p, g) \in Graded
    <3> SUFFICES ASSUME NEW p \in Steps(used), NEW g \in Grades PROVE Record(p, g) \in Graded
      OBVIOUS
    <3>1. p[1] \in Days /\ p[2] \in Days /\ p[1] < p[2]
      BY <2>1, StepsAre
    <3>2. stored[p[1]].version \in Nat /\ stored[p[2]].version \in Nat
      BY <3>1, IntervalAssumption DEF ReturnsTyped, Snapshots
    <3> QED
      BY <3>1, <3>2 DEF Record, Graded
  <2>3. {Record(p, "resolved") : p \in Steps(used) \ {poor}}
            \cup (IF grade = "absent" THEN {} ELSE {Record(poor, grade)}) \in SUBSET Graded
    BY <2>2 DEF Grades
  <2> QED
    BY <1>3, <2>3 DEF Infer, ReturnsTyped
<1>4. CASE UNCHANGED returnVars
  BY <1>4 DEF returnVars, ReturnsTyped
<1> QED
  BY <1>1, <1>2, <1>3, <1>4 DEF ReturnsNext

(* A return is published only over a period whose every day is resolved and *)
(* whose every flow is counted, each once (interval_returns.py: _period,    *)
(* _day_coverage and _tracked agree on the same rows).                      *)
THEOREM ReturnsAreWhole == ReturnsSpec => []ReturnsStand
<1>1. ReturnsTyped => ReturnsStand
  BY EachDayMeans, NeverOverMeans, FlowsOnce DEF ReturnsStand
<1> QED
  BY <1>1, ReturnsStart, ReturnsStep, PTL DEF ReturnsSpec

================================================================================
