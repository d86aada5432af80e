----------------------------- MODULE PortfolioView -----------------------------
(***************************************************************************)
(* What the tools say the portfolio is worth: get_portfolio_summary,       *)
(* get_consolidated_holdings and get_portfolio_risk.  A report reads the   *)
(* shares and the cash of each account, then the dollar, then one quote    *)
(* for each symbol, and the futures positions beside all of them, while    *)
(* prices move, shares are traded and settled and money comes in.          *)
(*                                                                         *)
(* There are two accounts.  Toss tells one amount of cash, of which it is  *)
(* not known what it includes.  KIS tells foreign cash and what is still   *)
(* to be settled apart from it, and may leave out the row of a currency:   *)
(* then a second read, on another basis, has to prove that it is empty,    *)
(* and is kept for a while.  An amount of money is in dollars or in won,   *)
(* shares are traded one at a time, fractions and cost bases are left out. *)
(***************************************************************************)
EXTENDS Integers, FiniteSets, FiniteSetsExt, Functions

CONSTANTS
    Assets,         \* the symbols
    Foreign,        \* those in dollars, which both accounts may hold
    Leverage,       \* of each symbol, in its product map
    Prices,         \* of any symbol
    Dollar,         \* won
    Unvalued,       \* an amount that is not known
    Reuse,          \* CASH_CHECK_REUSE_SECONDS, in ticks
    MaxTicks,       \* bound on time
    MaxReports,     \* on the reports made
    MaxChanges,     \* on what happens in the accounts and markets
    MaxMisses,      \* on the reads that go wrong
    MaxBudget       \* on all of these

Desks == {"toss", "kis"}

ASSUME ViewAssumption ==
    /\ IsFiniteSet(Assets) /\ Foreign \subseteq Assets /\ Leverage \in [Assets -> Nat \ {0}]
    /\ Prices \subseteq Nat \ {0} /\ Prices # {} /\ Dollar \in Nat \ {0} /\ Unvalued \notin Int
    /\ {Reuse, MaxTicks, MaxReports, MaxChanges, MaxMisses, MaxBudget} \subseteq Nat

VARIABLES
    market,     \* the price of each symbol, and the futures position in won
    owned,      \* the shares of each account
    purse,      \* its cash, and what it will receive and pay
    view,       \* the report being made
    proof,      \* the kept proof of empty cash
    counts      \* ticks, reports, changes, misses so far

viewVars == <<market, owned, purse, view, proof, counts>>

EmptyPurse == [cash |-> 0, receive |-> 0, pay |-> 0]
NoProof == [made |-> FALSE, at |-> 0, shares |-> [s \in Assets |-> 0], empty |-> FALSE, disturbed |-> FALSE]
NoBalance == [cash |-> Unvalued, receive |-> Unvalued, pay |-> Unvalued]
NoView ==
    [pc |-> "none", told |-> {}, balance |-> [d \in Desks |-> NoBalance], bad |-> {},
     dollar |-> Unvalued, quotes |-> [s \in Assets |-> Unvalued], futures |-> "unread",
     \* What was true when an account was read, the accounts that changed until they had
     \* been read whole, and whether a young proof hid a change of money only.
     real |-> [d \in Desks |-> [shares |-> [s \in Assets |-> 0], worth |-> 0]], stirred |-> {}, hidden |-> FALSE]

ViewInit ==
    /\ market = [price |-> [s \in Assets |-> Min(Prices)], short |-> 0]
    /\ owned \in [Desks -> [Assets -> {0, 1}]] /\ \A s \in Assets \ Foreign : owned["kis"][s] = 0
    /\ \E c \in {0, 2} : purse = [d \in Desks |-> [cash |-> c, receive |-> 0, pay |-> 0]]
    /\ view = NoView /\ proof = NoProof
    /\ counts = [ticks |-> 0, reports |-> 0, changes |-> 0, misses |-> 0]

(***************************************************************************)
(* What happens meanwhile.                                                 *)
(***************************************************************************)
Within(what, bound) ==
    /\ counts[what] < bound /\ counts.ticks + counts.reports + counts.changes + counts.misses < MaxBudget
    /\ counts' = [counts EXCEPT ![what] = @ + 1]
Reading == view.pc \notin {"none", "done"}

\* The account a read of which is under way.
HalfRead == CASE view.pc = "toss_cash" -> {"toss"}
              [] view.pc \in {"balance", "check"} -> {"kis"}
              [] OTHER -> {}

MarketMoves ==
    /\ Within("changes", MaxChanges)
    /\ \/ \E s \in Assets, p \in Prices :
             p # market.price[s] /\ market' = [market EXCEPT !.price[s] = p]
       \/ market.short = 0 /\ market' = [market EXCEPT !.short = 1]
    /\ UNCHANGED <<owned, purse, view, proof>>

(* Whatever changes an account: its shares, its cash or what is to settle.  *)
AccountChanges(d, shares, money) ==
    /\ Within("changes", MaxChanges)
    /\ owned' = [owned EXCEPT ![d] = shares]
    /\ purse' = [purse EXCEPT ![d] = money]
    /\ view' = [view EXCEPT !.stirred = @ \cup ({d} \cap HalfRead)]
    \* A change that the shares held do not show.
    /\ proof' = [proof EXCEPT !.disturbed = @ \/ (proof.made /\ d = "kis" /\ shares = proof.shares)]
    /\ UNCHANGED market

Trade(d, s, n) ==
    LET due == n * market.price[s] * (IF d = "toss" /\ s \in Foreign THEN Dollar ELSE 1)
        free == purse[d].cash + purse[d].receive - purse[d].pay
    IN  /\ owned[d][s] + n \in 0..2 /\ due <= free /\ (d = "kis" => s \in Foreign)
        /\ AccountChanges(d, [owned[d] EXCEPT ![s] = @ + n],
               IF d = "toss" THEN [purse[d] EXCEPT !.cash = @ - due]
               ELSE IF n > 0 THEN [purse[d] EXCEPT !.pay = @ + due] ELSE [purse[d] EXCEPT !.receive = @ - due])

Deposit(d) == AccountChanges(d, owned[d], [purse[d] EXCEPT !.cash = @ + 1])

Settle ==
    /\ purse["kis"].receive + purse["kis"].pay > 0
    /\ AccountChanges("kis", owned["kis"],
           [cash |-> purse["kis"].cash + purse["kis"].receive - purse["kis"].pay, receive |-> 0, pay |-> 0])

TimeGoesBy == Within("ticks", MaxTicks) /\ UNCHANGED <<market, owned, purse, view, proof>>

(***************************************************************************)
(* The reads of a report.                                                  *)
(***************************************************************************)
Answer(how) == IF how = "ok" THEN UNCHANGED counts ELSE Within("misses", MaxMisses)

AskWorth ==
    /\ view.pc \in {"none", "done"} /\ Within("reports", MaxReports)
    /\ view' = [NoView EXCEPT !.pc = "toss"]
    /\ UNCHANGED <<market, owned, purse, proof>>

Worth(d) == purse[d].cash + purse[d].receive - purse[d].pay

(* The rows of the shares held: with a price, with a value only or with     *)
(* neither.  A list that was cut at the paging cap lacks some.              *)
Priced(d, held) == {[of |-> d, asset |-> s, qty |-> owned[d][s], price |-> market.price[s], how |-> "priced"] : s \in held}

SharesTold(d, rows, bad) ==
    view' = [view EXCEPT !.pc = IF d = "toss" THEN "toss_cash" ELSE "balance",
                         !.told = @ \cup rows, !.bad = @ \cup bad, !.real[d].shares = owned[d]]

ReadShares(d) ==
    LET held == {s \in Assets : owned[d][s] > 0} IN
    /\ view.pc = d
    /\ \/ Answer("ok") /\ SharesTold(d, Priced(d, held), {})
       \/ Answer("failed") /\ SharesTold(d, {}, {d})
       \/ \E s \in held : Answer("cut") /\ SharesTold(d, Priced(d, held \ {s}), {d})
       \/ \E r \in Priced(d, held), how \in {"valued", "bare"} :
             Answer(how) /\ SharesTold(d, (Priced(d, held) \ {r}) \cup {[r EXCEPT !.how = how]}, {})
    /\ UNCHANGED <<market, owned, purse, proof>>

(* Toss's buying power, which an answer may lack. *)
ReadTossCash ==
    /\ view.pc = "toss_cash"
    /\ \E how \in {"ok", "failed", "unreadable"} :
          /\ Answer(how)
          /\ view' = [view EXCEPT
                 !.pc = "kis",
                 !.balance["toss"] = IF how = "ok" THEN [NoBalance EXCEPT !.cash = purse["toss"].cash] ELSE @,
                 !.bad = @ \cup IF how = "failed" THEN {"toss"} ELSE {},
                 !.real["toss"].worth = Worth("toss")]
    /\ UNCHANGED <<market, owned, purse, proof>>

(* KIS's balance of foreign cash; a total in it may be unreadable, or the   *)
(* row of the currency is left out, as that of an empty one mostly is.      *)
HeldRows(d) == {r \in view.told : r.of = d}
ReadBalance ==
    /\ view.pc = "balance"
    /\ \E how \in {"ok", "failed", "unreadable", "no_row"} :
          /\ Answer(IF how = "no_row" /\ purse["kis"] = EmptyPurse THEN "ok" ELSE how)
          /\ view' = [view EXCEPT
                 !.pc = IF how = "no_row" /\ HeldRows("kis") # {} THEN "check" ELSE "dollar",
                 !.balance["kis"] = CASE how = "ok" -> purse["kis"]
                                      [] how = "unreadable" -> [purse["kis"] EXCEPT !.receive = Unvalued]
                                      [] OTHER -> @,
                 !.bad = @ \cup IF how = "failed" THEN {"kis"} ELSE {},
                 !.real["kis"].worth = Worth("kis")]
    /\ UNCHANGED <<market, owned, purse, proof>>

(* _overseas_cash_check: a proof is used again while it is young and the    *)
(* same shares were read.                                                   *)
ReadQty ==
    LET rows(s) == {r \in HeldRows("kis") : r.asset = s}
    IN  [s \in Assets |-> SumFunction([r \in rows(s) |-> r.qty])]
ProvesAnything(p) == p.made
StillProves(p) == p.made /\ p.shares = ReadQty /\ counts.ticks - p.at < Reuse

WithProof(p) ==
    view' = [view EXCEPT !.pc = "dollar", !.balance["kis"] = IF p.empty THEN EmptyPurse ELSE @,
                         !.hidden = p.disturbed /\ counts.ticks - p.at < Reuse]

CheckEmpty ==
    /\ view.pc = "check"
    /\ IF StillProves(proof) THEN WithProof(proof) /\ UNCHANGED <<proof, counts>>
       ELSE \/ /\ Answer("ok")
               /\ proof' = [made |-> TRUE, at |-> counts.ticks, shares |-> ReadQty,
                            empty |-> purse["kis"] = EmptyPurse, disturbed |-> FALSE]
               /\ WithProof(proof')
            \/ Answer("failed") /\ WithProof(NoProof) /\ UNCHANGED proof
    /\ UNCHANGED <<market, owned, purse>>

ReadDollar ==
    /\ view.pc = "dollar"
    /\ \E how \in {"ok", "failed"} :
          Answer(how) /\ view' = [view EXCEPT !.pc = "quotes", !.dollar = IF how = "ok" THEN Dollar ELSE @]
    /\ UNCHANGED <<market, owned, purse, proof>>

(* The futures are read beside the accounts; a venue may fail, or no price  *)
(* of the coin their size is told in is had.                                *)
ReadFutures ==
    /\ Reading /\ view.futures = "unread"
    /\ \E how \in {"ok", "failed", "no_rate"} :
          /\ Answer(how)
          /\ view' = [view EXCEPT !.futures = IF how = "failed" \/ (how = "no_rate" /\ market.short > 0) THEN how
                                              ELSE IF market.short = 0 THEN "flat" ELSE "short"]
    /\ UNCHANGED <<market, owned, purse, proof>>

(* One quote a symbol, or a reason why there is none. *)
HeldAssets == {r.asset : r \in view.told}
ReadQuotes ==
    /\ view.pc = "quotes" /\ view.futures # "unread"
    /\ \E lost \in {{}, HeldAssets} \cup {{s} : s \in HeldAssets} :
          /\ Answer(IF lost = {} THEN "ok" ELSE "failed")
          /\ view' = [view EXCEPT !.pc = "done",
                 !.quotes = [s \in Assets |-> IF s \in HeldAssets \ lost THEN market.price[s] ELSE Unvalued]]
    /\ UNCHANGED <<market, owned, purse, proof>>

ViewNext ==
    \/ MarketMoves \/ Settle \/ TimeGoesBy
    \/ \E d \in Desks, s \in Assets, n \in {1, -1} : Trade(d, s, n)
    \/ \E d \in Desks : Deposit(d) \/ ReadShares(d)
    \/ AskWorth \/ ReadTossCash \/ ReadBalance \/ CheckEmpty \/ ReadDollar \/ ReadFutures \/ ReadQuotes

ViewSpec == ViewInit /\ [][ViewNext]_viewVars

(***************************************************************************)
(* What the report says (portfolio_engine).                                *)
(***************************************************************************)
Or0(amount) == IF amount = Unvalued THEN 0 ELSE amount
Won(amount, abroad) ==
    IF abroad /\ Unvalued \in {amount, view.dollar} THEN Unvalued
    ELSE IF abroad THEN amount * view.dollar ELSE amount

Group(s) == {r \in view.told : r.asset = s}
Rank(r) == 2 * r.qty + (IF r.of = "toss" THEN 1 ELSE 0)

(* The quote, else the price told with the largest holding. *)
CanonicalMark(s) ==
    LET priced == {r \in Group(s) : r.how = "priced"}
    IN  IF view.quotes[s] # Unvalued \/ priced = {} THEN view.quotes[s]
        ELSE (CHOOSE r \in priced : \A q \in priced : Rank(q) <= Rank(r)).price

BrokerValue(r) == IF r.how = "bare" THEN Unvalued ELSE r.price * r.qty
RowValue(r) == IF CanonicalMark(r.asset) = Unvalued THEN BrokerValue(r) ELSE CanonicalMark(r.asset) * r.qty

(* A group that is known in part has no value rather than a short one. *)
PositionValue(s) ==
    IF \E r \in Group(s) : RowValue(r) = Unvalued THEN Unvalued
    ELSE Won(SumFunction([r \in Group(s) |-> RowValue(r)]), s \in Foreign)

Known(d) == view.balance[d].cash # Unvalued
CashWon(d) == Or0(Won(view.balance[d].cash, d = "kis"))
TotalAssets == SumFunction([s \in HeldAssets |-> Or0(PositionValue(s))]) + CashWon("toss") + CashWon("kis")
AccountTotal(d) == SumFunction([r \in HeldRows(d) |-> Or0(Won(RowValue(r), r.asset \in Foreign))]) + CashWon(d)

(* settlement_nav_bridge: what KIS told apart is added to the total, unless  *)
(* a source, the dollar or a broker's value is missing; an amount still to  *)
(* be settled that is not known is a reason told beside the value.          *)
NoRate == view.dollar = Unvalued /\ (Known("kis") \/ \E r \in view.told : r.asset \in Foreign)
Bridged == Or0(Won(Or0(view.balance["kis"].receive) - Or0(view.balance["kis"].pay), TRUE))
AdjustedValue ==
    IF view.bad # {} \/ NoRate \/ \E r \in view.told : BrokerValue(r) = Unvalued THEN Unvalued
    ELSE TotalAssets + Bridged
MissingTold ==
    \/ \E r \in view.told : ~Known(r.of)
    \/ Known("kis") /\ Unvalued \in {view.balance["kis"].receive, view.balance["kis"].pay}

(* concentration_risk and underlying_exposure.  Every symbol and the future *)
(* refer to one underlying.                                                 *)
AllValued == \A s \in HeldAssets : PositionValue(s) # Unvalued
TopPosition ==
    IF ~AllValued \/ HeldAssets = {} THEN Unvalued
    ELSE CHOOSE s \in HeldAssets : \A t \in HeldAssets : PositionValue(t) <= PositionValue(s)
Exposure ==
    IF ~AllValued \/ view.futures = "no_rate" THEN Unvalued
    ELSE SumFunction([s \in HeldAssets |-> Leverage[s] * PositionValue(s)]) - (IF view.futures = "short" THEN 1 ELSE 0)

(***************************************************************************)
(* Properties.                                                             *)
(***************************************************************************)
RealShares(s) == view.real["toss"].shares[s] + view.real["kis"].shares[s]
RealValue(s) == RealShares(s) * CanonicalMark(s) * (IF s \in Foreign THEN Dollar ELSE 1)
Owned == {s \in Assets : RealShares(s) > 0}
Marked == \A s \in Owned : CanonicalMark(s) # Unvalued

(* The settlement-adjusted value a summary publishes, when it tells of      *)
(* nothing missing and each account told its cash, is what the shares and   *)
(* the money of both accounts were worth at its marks when they were read.  *)
AdjustedTrue ==
    AdjustedValue # Unvalued /\ ~MissingTold /\ (\A d \in Desks : Known(d)) /\ Marked
        /\ view.stirred = {} /\ ~view.hidden
    => AdjustedValue = SumFunction([s \in Owned |-> RealValue(s)])
                         + view.real["toss"].worth + view.real["kis"].worth * Dollar

(* The accounts' own totals add up to the total of the symbols, when every  *)
(* row has a value and a rate.                                              *)
AccountsAddUp == AllValued => AccountTotal("toss") + AccountTotal("kis") = TotalAssets

(* The largest position and the exposure of sources that answered are those *)
(* of the shares there were.                                                *)
RiskTrue ==
    view.bad = {} /\ AllValued /\ Marked =>
        /\ Owned # {} => TopPosition \in Owned /\ \A s \in Owned : RealValue(s) <= RealValue(TopPosition)
        /\ view.futures \in {"flat", "short"} =>
              Exposure = SumFunction([s \in Owned |-> Leverage[s] * RealValue(s)])
                           - (IF view.futures = "short" THEN 1 ELSE 0)

(* What a summary and a risk report say of the portfolio is true of it,     *)
(* whatever failed, was cut or was left out while it was read, and whether  *)
(* the cash a balance leaves out was proved empty now or by a kept proof.   *)
ViewTrue == view.pc = "done" => AdjustedTrue /\ AccountsAddUp /\ RiskTrue

================================================================================
