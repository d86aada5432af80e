----------------------------- MODULE ContinuedPages -----------------------------
(***************************************************************************)
(* The domestic trade history of a KIS account (get_domestic_trade_history *)
(* and _paginate in kis_api.py): one request of the older days and one of  *)
(* the newer, each read page by page under the venue's continuation marks, *)
(* asked for all exchanges, and for one only where the account has no      *)
(* other.  The venue's answers may repeat a page, a cursor or a row, hold  *)
(* nothing, or fail.                                                       *)
(***************************************************************************)
EXTENDS Integers, Sequences, SequencesExt, FiniteSets, FiniteSetsExt

CONSTANTS
    Trades, DayOfTrade,
    FromDay, ToDay, \* days asked for
    MaxHistoryPages,
    MaxOddities     \* odd answers of the venue

ASSUME PagesAssumption ==
    /\ IsFiniteSet(Trades) /\ DayOfTrade \in [Trades -> Int] /\ {FromDay, ToDay} \subseteq Int
    /\ {MaxHistoryPages, MaxOddities} \subseteq Nat

VARIABLES
    recentFrom,     \* the first day that the venue's request for recent days serves
    oneExchange,    \* whether the account is refused when all exchanges are asked for
    segments,       \* the requests to make: <<which, from, to>>
    query,          \* the one being read: its exchanges, position, cursors seen, bodies kept
    history,        \* trades collected, whether cut short, how it ended
    oddities

pagesVars == <<recentFrom, oneExchange, segments, query, history, oddities>>

(* Two requests where the days straddle the boundary.  Variant: a day short. *)
SplitShort(boundary) == <<<<"older", FromDay, boundary - 2>>, <<"recent", boundary, ToDay>>>>
SplitDays(boundary) == <<<<"older", FromDay, boundary - 1>>, <<"recent", boundary, ToDay>>>>
SplitByRecency(boundary) ==
    IF FromDay >= boundary THEN <<<<"recent", FromDay, ToDay>>>>
    ELSE IF ToDay < boundary THEN <<<<"older", FromDay, ToDay>>>>
    ELSE SplitDays(boundary)

NewQuery(exchanges) == [exchanges |-> exchanges, at |-> 0, cursor |-> 0, seen |-> {}, bodies |-> <<>>]

PagesInit ==
    /\ recentFrom \in FromDay..(ToDay + 1) /\ oneExchange \in BOOLEAN
    /\ segments = SplitByRecency(recentFrom)
    /\ query = NewQuery("all")
    /\ history = [trades |-> <<>>, truncated |-> FALSE, end |-> "no"]
    /\ oddities = 0

(* The venue: what a request serves, in some order, and its page after a    *)
(* position.                                                                *)
DaysOf(segment) ==
    {t \in Trades : /\ segment[2] <= DayOfTrade[t] /\ DayOfTrade[t] <= segment[3]
                    /\ (segment[1] = "recent") = (DayOfTrade[t] >= recentFrom)}
Serves(segment) == SetToSeq(DaysOf(segment))
Collecting == history.end = "no" /\ segments # <<>>
Served == Serves(Head(segments))

OddAnswer == oddities < MaxOddities /\ oddities' = oddities + 1

Gathered(bodies) == UNION {Range(bodies[i]) : i \in DOMAIN bodies}

(* The pages of a request are all read, or given up: its trades that are    *)
(* new are added, each once, and the next request is made.                  *)
CloseQuery(bodies, cut) ==
    LET new == Gathered(bodies) \ Range(history.trades)
    IN  /\ history' = [history EXCEPT !.trades = @ \o SetToSeq(new), !.truncated = @ \/ cut,
                                      !.end = IF Len(segments) = 1 THEN "done" ELSE "no"]
        /\ segments' = Tail(segments)
        /\ query' = NewQuery("all")

(* A page: the body, how far it takes the position, whether the mark says   *)
(* more, and the cursor to ask with.                                        *)
KeepPage(body, at, more, cursor) ==
    LET kept == Append(query.bodies, body)
        replayed == body # <<>> /\ body \in Range(query.bodies)
        stuck == cursor = 0 \/ cursor \in query.seen
    IN  /\ IF replayed THEN CloseQuery(query.bodies, TRUE)
           ELSE IF ~more THEN CloseQuery(kept, FALSE)
           ELSE IF stuck \/ Len(kept) = MaxHistoryPages THEN CloseQuery(kept, TRUE)
           ELSE /\ query' = [query EXCEPT !.bodies = kept, !.at = at, !.cursor = cursor, !.seen = @ \cup {cursor}]
                /\ UNCHANGED <<segments, history>>
        /\ UNCHANGED <<recentFrom, oneExchange>>

Answers == Collecting /\ ~(oneExchange /\ query.exchanges = "all")
NextPage == SubSeq(Served, query.at + 1, Min({query.at + 1, Len(Served)}))
HasMore == query.at + 1 < Len(Served)
NextCursor == query.cursor + 1

GoodPage == Answers /\ KeepPage(NextPage, query.at + 1, HasMore, NextCursor) /\ UNCHANGED oddities

(* A row of the page before comes again, the page before does, or nothing,  *)
(* or a cursor that is blank or was given before.                           *)
OverlappingPage ==
    Answers /\ query.at > 0 /\ OddAnswer /\ KeepPage(<<Served[query.at]>> \o NextPage, query.at + 1, HasMore, NextCursor)
ReplayedPage ==
    /\ Answers /\ OddAnswer
    /\ \E body \in Range(query.bodies) \ {<<>>}, more \in BOOLEAN : KeepPage(body, query.at, more, NextCursor)
HollowPage == Answers /\ query.at < Len(Served) /\ OddAnswer /\ KeepPage(<<>>, query.at, TRUE, NextCursor)
StuckPage ==
    Answers /\ HasMore /\ OddAnswer /\ \E cursor \in query.seen \cup {0} : KeepPage(NextPage, query.at + 1, TRUE, cursor)

(* An account without the other exchanges is asked again for the one; any   *)
(* other error ends the history.                                            *)
Refused ==
    /\ Collecting /\ oneExchange /\ query.exchanges = "all"
    /\ query' = NewQuery("one")
    /\ UNCHANGED <<recentFrom, oneExchange, segments, history, oddities>>

FailedPage ==
    /\ Collecting /\ OddAnswer
    /\ history' = [history EXCEPT !.end = "failed"]
    /\ UNCHANGED <<recentFrom, oneExchange, segments, query>>

PagesNext ==
    GoodPage \/ OverlappingPage \/ ReplayedPage \/ HollowPage \/ StuckPage \/ Refused \/ FailedPage

(***************************************************************************)
(* Properties.                                                             *)
(***************************************************************************)
(* A history that is not said to be cut short has every trade of its days,  *)
(* and no history has one twice, whatever the venue repeats.                *)
PagesWhole ==
    /\ \A i, j \in DOMAIN history.trades : history.trades[i] = history.trades[j] => i = j
    /\ history.end = "done" /\ ~history.truncated =>
          Range(history.trades) = {t \in Trades : FromDay <= DayOfTrade[t] /\ DayOfTrade[t] <= ToDay}

================================================================================
