------------------------------- MODULE TossFlows -------------------------------
(***************************************************************************)
(* The cash flows toss_flow_inference.py infers for one Toss account, from *)
(* stored daily snapshots, scans of its fills and a dividend schedule.     *)
(*                                                                         *)
(* The actions are what really happens (trades, payments, conversions,     *)
(* grants of shares) and what is collected of it: a snapshot each day,     *)
(* sound or not, and fill scans that succeed, contradict the stored fills  *)
(* or fail.  Replay is infer_toss_flows over the evidence of a state, with *)
(* the schedule or, as the server's tools call it, without one.            *)
(* Amounts are in units in which rounding is nothing; a symbol trades at   *)
(* one price and without costs.  Day d begins at the instant 2d and its    *)
(* snapshot is taken at 2d+1, after the day's trades.                      *)
(***************************************************************************)
EXTENDS Integers, Sequences, SequencesExt, FiniteSets, FiniteSetsExt, Functions

CONSTANTS
    TossSymbols,    \* what the account may hold
    Currency,       \* each symbol's currency
    Price,          \* and its price
    Dividends,      \* the scheduled payments
    Schedule,       \* each one's symbol, ex, first and last pay day, net and gross per share
    Announced,      \* the symbols whose schedule is known
    TossLast,       \* the days are 0..TossLast
    Mark,           \* won per dollar, by day
    Opening,        \* the opening cash
    OpeningShares,  \* and shares
    External,       \* what may be deposited or withdrawn: currency and amount
    Conversions,    \* pairs of a won and a dollar amount that change together
    Small,          \* a residual of at most this, in won, is income
    Coarse,         \* dollars worth more than this have an uncertain value
    MaxMoves, MaxFaults, MaxScans

Currencies == {"KRW", "USD"}
TossDays == 0..TossLast

ASSUME TossFlowAssumption ==
    /\ Currency \in [TossSymbols -> Currencies] /\ Price \in [TossSymbols -> Nat \ {0}]
    /\ Schedule \in [Dividends -> [symbol : TossSymbols, ex : Nat \ {0}, first : Nat, last : Nat,
                                   net : Nat \ {0}, gross : Nat]]
    /\ \A d \in Dividends : Schedule[d].net < Schedule[d].gross /\ Schedule[d].ex <= Schedule[d].last
    /\ Announced \subseteq TossSymbols
    /\ TossLast \in Nat /\ Mark \in [TossDays -> Nat \ {0}] /\ Opening \in [Currencies -> Nat]
    /\ OpeningShares \in [TossSymbols -> {0, 1}]
    /\ External \subseteq Currencies \X Int /\ Conversions \subseteq Int \X Int
    /\ {Small, Coarse, MaxMoves, MaxFaults, MaxScans} \subseteq Nat

VARIABLES
    day,            \* the current day
    cash,           \* the account's cash, by currency
    bought,         \* the shares of each symbol bought, less sold, each day
    granted,        \* the shares each symbol had at first, or gained otherwise
    paid,           \* the dividends paid so far
    moved, moves,   \* the kinds of movements so far, and how many
    snaps,          \* each day's snapshot: its status, the cash and the holdings
    scans           \* the fill scans, in the order they were observed

tossVars == <<day, cash, bought, granted, paid, moved, moves, snaps, scans>>

SnapAt(d) == 2 * d + 1
DayStart(d) == 2 * d

Total(f, days) == MapThenSumSet(LAMBDA d : f[d], days)
Held(s) == granted[s] + Total([d \in TossDays |-> bought[d][s]], TossDays)

(* What an owner of a share is really entitled to: the shares held before ex. *)
Entitled(id) ==
    LET s == Schedule[id].symbol
    IN  OpeningShares[s] + Total([d \in TossDays |-> bought[d][s]], 0..Schedule[id].ex - 1)

(***************************************************************************)
(* What happens.                                                           *)
(***************************************************************************)
TossFlowInit ==
    /\ day = 0
    /\ cash = Opening
    /\ bought = [d \in TossDays |-> [s \in TossSymbols |-> 0]]
    /\ granted = OpeningShares
    /\ paid = {} /\ moved = {} /\ moves = 0
    /\ snaps = <<>>
    /\ scans = <<>>

(* Nothing of the day has been recorded yet; movements are bounded. *)
Moving(kind) ==
    /\ Len(snaps) = day /\ moves < MaxMoves
    /\ moved' = moved \cup {kind} /\ moves' = moves + 1
    /\ UNCHANGED <<day, snaps, scans>>

Trade(s, n) ==
    /\ Moving("trade")
    /\ bought[day][s] = 0 /\ Held(s) + n \in {0, 1}
    /\ bought' = [bought EXCEPT ![day][s] = n]
    /\ cash' = [cash EXCEPT ![Currency[s]] = @ - n * Price[s]]
    /\ UNCHANGED <<granted, paid>>

Grant(s) ==
    /\ Moving("grant")
    /\ Held(s) = 1
    /\ granted' = [granted EXCEPT ![s] = @ + 1]
    /\ UNCHANGED <<cash, bought, paid>>

Transfer(currency, amount) ==
    /\ Moving("external")
    /\ cash' = [cash EXCEPT ![currency] = @ + amount]
    /\ UNCHANGED <<bought, granted, paid>>

Convert(won, dollars) ==
    /\ Moving("conversion")
    /\ cash' = [KRW |-> cash["KRW"] + won, USD |-> cash["USD"] + dollars]
    /\ UNCHANGED <<bought, granted, paid>>

(* A dividend is paid net; or gross, a foreign one with its tax debited in won. *)
Pay(id, gross) ==
    LET row == Schedule[id]
        currency == Currency[row.symbol]
        tax == (row.gross - row.net) * Entitled(id) * Mark[day]
    IN  /\ Moving("dividend")
        /\ id \notin paid /\ row.ex <= day /\ day \in row.first..row.last /\ Entitled(id) > 0
        /\ paid' = paid \cup {id}
        /\ cash' = IF ~gross THEN [cash EXCEPT ![currency] = @ + row.net * Entitled(id)]
                   ELSE IF currency = "KRW" THEN [cash EXCEPT !["KRW"] = @ + row.gross * Entitled(id)]
                   ELSE [KRW |-> cash["KRW"] - tax, USD |-> cash["USD"] + row.gross * Entitled(id)]
        /\ UNCHANGED <<bought, granted>>

(***************************************************************************)
(* What is collected.                                                      *)
(***************************************************************************)
Faults == Cardinality({i \in DOMAIN snaps : snaps[i].status # "complete"})
              + Cardinality({i \in DOMAIN scans : scans[i].status # "complete"})

(* The day's snapshot: complete, stored with reasons against it, or none. *)
Snapshot(status) ==
    /\ Len(snaps) = day
    /\ status # "complete" => Faults < MaxFaults
    /\ snaps' = Append(snaps, [status |-> status, cash |-> cash, shares |-> [s \in TossSymbols |-> Held(s)]])
    /\ UNCHANGED <<day, cash, bought, granted, paid, moved, moves, scans>>

(* A scan of the fills since an earlier snapshot, or since ever. *)
Scan(from, status) ==
    /\ Len(snaps) = day + 1 /\ Len(scans) < MaxScans
    /\ status # "complete" => Faults < MaxFaults
    /\ scans' = Append(scans, [from |-> from, to |-> SnapAt(day), status |-> status])
    /\ UNCHANGED <<day, cash, bought, granted, paid, moved, moves, snaps>>

Tomorrow ==
    /\ Len(snaps) = day + 1 /\ day < TossLast
    /\ day' = day + 1
    /\ UNCHANGED <<cash, bought, granted, paid, moved, moves, snaps, scans>>

TossFlowNext ==
    \/ \E s \in TossSymbols, n \in {-1, 1} : Trade(s, n)
    \/ \E s \in TossSymbols : Grant(s)
    \/ \E move \in External : Transfer(move[1], move[2])
    \/ \E pair \in Conversions : Convert(pair[1], pair[2])
    \/ \E id \in Dividends, gross \in BOOLEAN : Pay(id, gross)
    \/ \E status \in {"complete", "flawed", "missing"} : Snapshot(status)
    \/ \E from \in {0} \cup {SnapAt(d) : d \in 0..day-1}, status \in {"complete", "contradicted"} : Scan(from, status)
    \/ Tomorrow

TossFlowSpec == TossFlowInit /\ [][TossFlowNext]_tossVars

(***************************************************************************)
(* The evidence of an interval (t0, t1].                                   *)
(***************************************************************************)
Snap(d) == snaps[d + 1]
Snapped == {d \in 0..Len(snaps)-1 : Snap(d).status # "missing"}
Sound == {d \in Snapped : Snap(d).status = "complete"}

Certain(i) == scans[i].status = "complete"
Touching(i, t0, t1) == scans[i].to >= t0 /\ scans[i].from <= t1

(* A scan that contradicts what is stored voids the proof of its window,    *)
(* until a later complete one covers what it shares with the interval.      *)
Repaired(i, t0, t1) ==
    \E j \in DOMAIN scans :
        i < j /\ Certain(j) /\ scans[j].from <= Max({scans[i].from, t0}) /\ scans[j].to >= Min({scans[i].to, t1})

Proven(t0, t1) ==
    /\ \A t \in t0+1..t1 : \E i \in DOMAIN scans : Certain(i) /\ scans[i].from < t /\ t <= scans[i].to
    /\ \A i \in DOMAIN scans : ~Certain(i) /\ Touching(i, t0, t1) => Repaired(i, t0, t1)

(* The fills of a day are stored once a complete scan has covered it. *)
Listed == {d \in TossDays : \E i \in DOMAIN scans : Certain(i) /\ scans[i].from < SnapAt(d) /\ SnapAt(d) <= scans[i].to}

Filled(s, days) == Total([d \in TossDays |-> bought[d][s]], days \cap Listed)
CashEffect(currency, days) ==
    MapThenSumSet(LAMBDA s : - Price[s] * Filled(s, days), {s \in TossSymbols : Currency[s] = currency})

Reconciled(a, b) == \A s \in TossSymbols : Snap(b).shares[s] - Snap(a).shares[s] = Filled(s, a+1..b)

(* The shares that earn a dividend: those of the last sound snapshot before *)
(* the ex-date and the fills since, when these are proven.                  *)
Anchor(id) == Max({d \in Sound : SnapAt(d) < DayStart(Schedule[id].ex)})
Known(id) ==
    /\ \E d \in Sound : SnapAt(d) < DayStart(Schedule[id].ex)
    /\ Proven(SnapAt(Anchor(id)), DayStart(Schedule[id].ex))
Shares(id) ==
    Snap(Anchor(id)).shares[Schedule[id].symbol] + Filled(Schedule[id].symbol, Anchor(id)+1..Schedule[id].ex-1)

(* The symbols ever seen, by the end of day b. *)
Universe(currency, b) ==
    {s \in TossSymbols : Currency[s] = currency /\ \/ \E d \in Snapped : d <= b /\ Snap(d).shares[s] > 0
                                                   \/ \E d \in Listed : d <= b /\ bought[d][s] # 0}

(***************************************************************************)
(* The income in a residual (_income).                                     *)
(***************************************************************************)
(* Dividends of these symbols that may be paid on the dates a..b, and were  *)
(* not found before.  Variant: not on the last date.                   *)
OpenBefore(symbols, a, b, used) ==
    {id \in Dividends \ used : Schedule[id].symbol \in symbols /\ Schedule[id].last >= a /\ Schedule[id].first < b}
Open(symbols, a, b, used) ==
    {id \in Dividends \ used : Schedule[id].symbol \in symbols /\ Schedule[id].last >= a /\ Schedule[id].first <= b}

Net(ids) == MapThenSumSet(LAMBDA id : Schedule[id].net * Shares(id), ids)
Gross(ids) == MapThenSumSet(LAMBDA id : Schedule[id].gross * Shares(id), ids)

Unexplained == [ok |-> FALSE, amount |-> 0, ids |-> {}, gross |-> FALSE]
Income(amount, ids, gross) == [ok |-> TRUE, amount |-> amount, ids |-> ids, gross |-> gross]

(* Among several subsets that match, none is chosen. *)
Matched(residual, candidates) ==
    LET subsets == SUBSET candidates \ {{}}
        nets == {ids \in subsets : residual = Net(ids)}
        grosses == {ids \in subsets : residual = Gross(ids)}
        like == \E ids \in subsets : Net(ids) <= 2 * residual /\ 4 * residual <= 5 * Gross(ids)
    IN  CASE Cardinality(nets) = 1 -> Income(residual, CHOOSE ids \in nets : TRUE, FALSE)
          [] nets = {} /\ Cardinality(grosses) = 1 -> Income(residual, CHOOSE ids \in grosses : TRUE, TRUE)
          [] nets = {} /\ grosses = {} /\ ~like -> Income(0, {}, FALSE)
          [] OTHER -> Unexplained

Identified(currency, a, b, residual, used, scheduled) ==
    LET symbols == Universe(currency, b)
        open == Open(symbols, a, b, used)
        candidates == {id \in open : Shares(id) > 0}
    IN  IF ~scheduled THEN Income(0, {}, FALSE)
        ELSE IF ~(symbols \subseteq Announced) THEN Unexplained
        ELSE IF residual = 0 THEN Income(0, {}, FALSE)
        ELSE IF \E id \in open : ~Known(id) THEN Unexplained
        ELSE Matched(residual, candidates)

(***************************************************************************)
(* One interval, between the snapshots of days a and b (_interval).        *)
(***************************************************************************)
Within(x, y) == 40 * (IF x < y THEN y - x ELSE x - y) <= y
Size(x) == IF x < 0 THEN -x ELSE x

(* A gross dollar payment must have its tax debited in won: the residual is *)
(* booked as that tax.                                                      *)
TaxOf(income) == Gross(income.ids) - Net(income.ids)
TaxProven(a, b, won, residual, income) ==
    won.ok /\ residual["KRW"] < won.amount
        /\ \E d \in {a, b} : Within(won.amount - residual["KRW"], TaxOf(income) * Mark[d])
SplitTax(a, b, residual, income) ==
    CASE ~income["USD"].gross -> income
      [] income["USD"].gross /\ TaxProven(a, b, income["KRW"], residual, income["USD"]) ->
            [income EXCEPT !["KRW"].amount = residual["KRW"]]
      [] OTHER -> [income EXCEPT !["USD"] = Unexplained]

Exchanged(a, b, rest) ==
    rest["KRW"] * rest["USD"] < 0 /\ \A d \in {a, b} : Within(Size(rest["KRW"]), Size(rest["USD"]) * Mark[d])

(* What is left may be neither a conversion at a strange rate nor so many   *)
(* dollars that their value is uncertain.                                   *)
Separable(a, b, rest) ==
    Exchanged(a, b, rest) \/ (rest["KRW"] * rest["USD"] >= 0 /\ Size(rest["USD"]) * Mark[b] <= Coarse)

Minor(currency, b, amount) == amount # 0 /\ Size(amount) * (IF currency = "USD" THEN Mark[b] ELSE 1) <= Small

Interval(a, b, used, scheduled) ==
    LET days == a+1..b
        residual == [c \in Currencies |-> Snap(b).cash[c] - Snap(a).cash[c] - CashEffect(c, days)]
        sound == {a, b} \subseteq Sound /\ Proven(SnapAt(a), SnapAt(b)) /\ Reconciled(a, b)
        found == [c \in Currencies |-> IF sound THEN Identified(c, a, b, residual[c], used, scheduled) ELSE Unexplained]
        income == SplitTax(a, b, residual, found)
        rest == [c \in Currencies |-> residual[c] - income[c].amount]
        resolved == (\A c \in Currencies : income[c].ok) /\ Separable(a, b, rest)
        plain == resolved /\ ~Exchanged(a, b, rest)
        minor(c) == plain /\ Minor(c, b, rest[c])
    IN  [start |-> a, end |-> b, resolved |-> resolved,
         ids |-> IF resolved THEN income["KRW"].ids \cup income["USD"].ids ELSE {},
         income |-> [c \in Currencies |-> IF minor(c) THEN income[c].amount + rest[c] ELSE income[c].amount],
         exchanged |-> [c \in Currencies |-> IF resolved /\ ~plain THEN rest[c] ELSE 0],
         flow |-> [c \in Currencies |-> IF plain /\ ~minor(c) THEN rest[c] ELSE 0]]

(* The intervals between consecutive sound snapshots, in order (the latest  *)
(* one, when it is not sound, only gives an unresolved row). *)
Pairs == SetToSortSeq({p \in Sound \X Sound : p[1] < p[2] /\ \A d \in Sound : ~(p[1] < d /\ d < p[2])},
                      LAMBDA p, q : p[1] < q[1])

Replay(scheduled) ==
    FoldLeft(LAMBDA records, pair :
                 Append(records, Interval(pair[1], pair[2], UNION {r.ids : r \in Range(records)}, scheduled)),
             <<>>, Pairs)

(***************************************************************************)
(* Properties.                                                             *)
(***************************************************************************)
(* Over the intervals of a replay a scheduled dividend is found at most     *)
(* once, whatever moved.  In an account whose cash moved by trades and      *)
(* dividends alone, no deposit or withdrawal is inferred and no dividend is *)
(* found that was not paid, however the payments fall in the intervals and  *)
(* whichever snapshots and scans were lost or contradicted: provided every  *)
(* symbol traded was seen, in a snapshot or a scan.  Without the schedule   *)
(* the same holds of an account that only traded, seen or not.              *)
DividendsAreIncome ==
    \A scheduled \in IF moved \subseteq {"trade"} THEN BOOLEAN ELSE {TRUE} : \E records \in {Replay(scheduled)} :
        LET NoFlow(record) == \A c \in Currencies : record.flow[c] = 0
            SeenInTime == \A d \in 0..Len(snaps)-1, s \in TossSymbols :
                              bought[d][s] # 0 => s \in Universe(Currency[s], d)
        IN  /\ \A i, j \in DOMAIN records : i # j => records[i].ids \cap records[j].ids = {}
            /\ moved \subseteq {"trade", "dividend"} /\ (scheduled => SeenInTime)
                   => \A i \in DOMAIN records : records[i].ids \subseteq paid /\ NoFlow(records[i])

================================================================================
