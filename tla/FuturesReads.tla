------------------------------ MODULE FuturesReads ------------------------------
(***************************************************************************)
(* Calls of FuturesAccounts.query (crypto_futures_accounts.py) by threads  *)
(* of one process.  A read holds the venues; a positions call waits for a  *)
(* history read only for a while and then answers from the cache or says   *)
(* that the venues are busy, but waits for another positions call, whose   *)
(* result it finds in the cache.  What a venue shows is the time it was    *)
(* looked at.  What such a read consists of follows, by itself: the pages  *)
(* of a history, and the requests for the value of perpetuals accounts.    *)
(***************************************************************************)
EXTENDS Integers, Sequences, SequencesExt, FiniteSets, FiniteSetsExt

CONSTANTS
    Asked,          \* the calls
    Historic,       \* those for fills or funding; the others ask for positions
    Free,           \* no call
    Reuse,          \* how long a positions read is reused
    BusyWait,       \* how long a positions call waits for a history read
    MaxVenueTime

ASSUME FuturesAssumption ==
    /\ Historic \subseteq Asked /\ Free \notin Asked /\ {Reuse, BusyWait, MaxVenueTime} \subseteq Nat

VARIABLES
    venueTime,      \* the clock
    venueHolder,    \* the call that holds the venues
    holding,        \* the operation noted as holding them: what waiting calls look at
    cached,         \* the positions read last and whole: when begun, and what it saw
    asking          \* asking[c]: how far call c is

futuresVars == <<venueTime, venueHolder, holding, cached, asking>>

NoEntry == [begun |-> -1, seen |-> -1]

FuturesInit ==
    /\ venueTime = 0
    /\ venueHolder = Free /\ holding = "none"
    /\ cached = NoEntry
    /\ asking = [c \in Asked |-> [pc |-> "new"]]

Operation(c) == IF c \in Historic THEN "history" ELSE "positions"
Goes(c, record) == asking' = [asking EXCEPT ![c] = record]
At(c, pc) == asking[c].pc = pc

Usable(entry) == entry # NoEntry /\ venueTime - entry.begun < Reuse

AskFutures(c) ==
    /\ At(c, "new")
    /\ Goes(c, [pc |-> "waits", until |-> venueTime + BusyWait])
    /\ UNCHANGED <<venueTime, venueHolder, holding, cached>>

Take(c) ==
    /\ asking[c].pc \in {"waits", "tries"} /\ venueHolder = Free
    /\ venueHolder' = c
    /\ Goes(c, [pc |-> "holds"])
    /\ UNCHANGED <<venueTime, holding, cached>>

(* A positions call that waited long enough looks at who holds the venues.  *)
LookWho(c) ==
    /\ At(c, "waits") /\ c \notin Historic /\ venueTime >= asking[c].until
    /\ Goes(c, IF holding = "positions" THEN [pc |-> "waits", until |-> venueTime + BusyWait] ELSE [pc |-> "tries"])
    /\ UNCHANGED <<venueTime, venueHolder, holding, cached>>

(* It tries once more and then answers without the venues (_busy_positions). *)
AnswerBusy(c) ==
    /\ At(c, "tries") /\ venueHolder # Free
    /\ Goes(c, [pc |-> "answered", seen |-> IF Usable(cached) THEN cached.seen ELSE -1, at |-> venueTime])
    /\ cached' = IF Usable(cached) THEN cached ELSE NoEntry
    /\ UNCHANGED <<venueTime, venueHolder, holding>>

Note(c) ==
    /\ At(c, "holds")
    /\ holding' = Operation(c)
    /\ Goes(c, [pc |-> "begins"])
    /\ UNCHANGED <<venueTime, venueHolder, cached>>

BeginRead(c) ==
    /\ At(c, "begins")
    /\ IF c \notin Historic /\ Usable(cached)
       THEN /\ Goes(c, [pc |-> "ends", seen |-> cached.seen, at |-> venueTime])
            /\ UNCHANGED cached
       ELSE /\ Goes(c, [pc |-> "reads", begun |-> venueTime])
            /\ cached' = IF c \in Historic THEN cached ELSE NoEntry
    /\ UNCHANGED <<venueTime, venueHolder, holding>>

SeeVenue(c) ==
    /\ At(c, "reads")
    /\ Goes(c, [pc |-> "stores", begun |-> asking[c].begun, seen |-> venueTime])
    /\ UNCHANGED <<venueTime, venueHolder, holding, cached>>

(* The age of an entry counts from the start of its read.  Variant: from its *)
(* end.                                                                      *)
StoredAtEnd(c) == venueTime
StoredAt(c) == asking[c].begun

(* Only a whole positions read is kept. *)
FinishRead(c, whole) ==
    /\ At(c, "stores")
    /\ cached' = IF c \notin Historic /\ whole /\ Reuse > 0
                 THEN [begun |-> StoredAt(c), seen |-> asking[c].seen] ELSE cached
    /\ Goes(c, [pc |-> "ends", seen |-> asking[c].seen, at |-> asking[c].seen])
    /\ UNCHANGED <<venueTime, venueHolder, holding>>

(* The note is removed before the lock is released. *)
Unnote(c) ==
    /\ At(c, "ends")
    /\ holding' = "none"
    /\ Goes(c, [asking[c] EXCEPT !.pc = "frees"])
    /\ UNCHANGED <<venueTime, venueHolder, cached>>

Release(c) ==
    /\ At(c, "frees")
    /\ venueHolder' = Free
    /\ Goes(c, [asking[c] EXCEPT !.pc = "answered"])
    /\ UNCHANGED <<venueTime, holding, cached>>

VenueTick ==
    /\ venueTime < MaxVenueTime
    /\ venueTime' = venueTime + 1
    /\ UNCHANGED <<venueHolder, holding, cached, asking>>

FuturesStep(c) ==
    \/ Take(c) \/ LookWho(c) \/ AnswerBusy(c) \/ Note(c) \/ BeginRead(c) \/ SeeVenue(c)
    \/ (\E whole \in BOOLEAN : FinishRead(c, whole)) \/ Unnote(c) \/ Release(c)

FuturesNext == VenueTick \/ \E c \in Asked : AskFutures(c) \/ FuturesStep(c)

(***************************************************************************)
(* How _Query.history collects the rows of a window from a venue that      *)
(* returns at most a page of any it likes: in spans of seven days, a full  *)
(* page read again in two halves, and all of it within a number of pages.  *)
(***************************************************************************)
CONSTANTS
    VenueRows,      \* rows the venue has
    WindowEnd,      \* the window is 0..WindowEnd, in instants
    SpanLength,     \* instants read at first together
    PageSize,       \* rows a page holds
    MaxPages

ASSUME HistoryAssumption ==
    /\ IsFiniteSet(VenueRows) /\ {WindowEnd, SpanLength, PageSize, MaxPages} \subseteq Nat /\ SpanLength > 0 /\ PageSize > 0

VARIABLES
    rowTime,        \* when each row happened
    pending,        \* spans still to read
    pages,          \* pages read
    taken,          \* rows collected
    doubts,         \* reasons against the result
    historyDone

historyVars == <<rowTime, pending, pages, taken, doubts, historyDone>>

Span(k) == <<k * SpanLength, Min({WindowEnd, (k + 1) * SpanLength - 1})>>
Spans == WindowEnd \div SpanLength + 1

(* Of too many spans only as many as there are pages, and one, are kept. *)
HistoryInit ==
    /\ rowTime \in [VenueRows -> 0..WindowEnd]
    /\ pending = [k \in 1..Min({Spans, MaxPages + 1}) |-> Span(k - 1)]
    /\ pages = 0 /\ taken = {} /\ historyDone = FALSE
    /\ doubts = IF Spans > MaxPages THEN {"PAGE_BUDGET"} ELSE {}

InSpan(span) == {r \in VenueRows : span[1] <= rowTime[r] /\ rowTime[r] <= span[2]}

(* What is read again after a page.  Variant: a page is full only above its *)
(* size.                                                                    *)
OverfullPage(got) == Cardinality(got) > PageSize
FullPage(got) == Cardinality(got) >= PageSize
Halves(span) ==
    LET middle == (span[1] + span[2]) \div 2 IN <<<<span[1], middle>>, <<middle + 1, span[2]>>>>

ReadPage(got) ==
    /\ ~historyDone /\ pending # <<>> /\ pages < MaxPages
    /\ LET span == Head(pending)
           dense == FullPage(got) /\ span[1] = span[2]
       IN  /\ got \subseteq InSpan(span)
           /\ Cardinality(got) = Min({PageSize, Cardinality(InSpan(span))})
           /\ taken' = taken \cup got
           /\ doubts' = IF dense THEN doubts \cup {"DENSE_TIMESTAMP"} ELSE doubts
           /\ pending' = (IF FullPage(got) /\ ~dense THEN Halves(span) ELSE <<>>) \o Tail(pending)
    /\ pages' = pages + 1
    /\ UNCHANGED <<rowTime, historyDone>>

(* A read fails: the whole query does. *)
FailPage ==
    /\ ~historyDone /\ pending # <<>> /\ pages < MaxPages
    /\ historyDone' = TRUE
    /\ doubts' = doubts \cup {"FAILED"} /\ pages' = pages + 1
    /\ UNCHANGED <<rowTime, pending, taken>>

EndHistory ==
    /\ ~historyDone /\ (pending = <<>> \/ pages = MaxPages)
    /\ historyDone' = TRUE
    /\ doubts' = IF pending = <<>> THEN doubts ELSE doubts \cup {"PAGE_BUDGET"}
    /\ UNCHANGED <<rowTime, pending, pages, taken>>

HistoryNext ==
    (\E got \in SUBSET VenueRows : ReadPage(got)) \/ FailPage \/ EndHistory

(***************************************************************************)
(* The value of Hyperliquid accounts (_hyperliquid_positions): the reads   *)
(* of each account in turn, any of which may fail or find the page budget  *)
(* spent, and what is published.  An amount is known by where it was read, *)
(* a value by the amounts that are added up in it.                         *)
(***************************************************************************)
CONSTANTS
    Wallets,        \* the configured addresses, in order
    Named,          \* named exchanges the venue may have, in its order
    Modes,          \* abstraction modes an account may have
    Unreadable,     \* no answer
    MaxNamed,       \* named exchanges read
    MaxReads,
    MaxRefused

Supported == {"unifiedAccount", "disabled", "default"}

ASSUME PerpAssumption ==
    /\ Wallets \in Seq(Range(Wallets)) /\ Named \in Seq(Range(Named)) /\ Unreadable \notin Modes \cup Supported
    /\ {MaxNamed, MaxReads, MaxRefused} \subseteq Nat

VARIABLES
    listed,         \* the named exchanges the venue has
    perpMode,       \* each account's mode
    wallet,         \* the account being read
    perpStep,       \* and the next read
    reads, refused, \* reads made, and those that failed
    found,          \* what was read of the account
    values          \* the values published, in order

perpVars == <<listed, perpMode, wallet, perpStep, reads, refused, found, values>>

NothingRead == [mode |-> Unreadable, dexes |-> <<"main">>, whole |-> FALSE, spot |-> Unreadable, equity |-> <<>>]

PerpInit ==
    /\ \E n \in 0..Len(Named) : listed = SubSeq(Named, 1, n)
    /\ perpMode \in [Range(Wallets) -> Modes]
    /\ wallet = 1 /\ perpStep = "mode"
    /\ reads = 0 /\ refused = 0
    /\ found = NothingRead /\ values = <<>>

Address == Wallets[wallet]

(* A read; none is made once the budget is spent. *)
Reading(step, ok) ==
    /\ wallet <= Len(Wallets) /\ perpStep = step
    /\ IF reads < MaxReads
       THEN /\ ok \/ refused < MaxRefused
            /\ reads' = reads + 1
            /\ refused' = IF ok THEN refused ELSE refused + 1
       ELSE ~ok /\ UNCHANGED <<reads, refused>>
    /\ UNCHANGED <<listed, perpMode, wallet, values>>

ReadMode(ok) ==
    /\ Reading("mode", ok)
    /\ found' = [NothingRead EXCEPT !.mode = IF ok THEN perpMode[Address] ELSE Unreadable]
    /\ perpStep' = "discover"

(* Variant: more exchanges than are read are no reason. *)
AllDiscoveredAnyway(names) == TRUE
AllDiscovered(names) == Len(names) <= MaxNamed

Discover(ok) ==
    /\ Reading("discover", ok)
    /\ found' = IF ok THEN [found EXCEPT !.dexes = <<"main">> \o SubSeq(listed, 1, Min({MaxNamed, Len(listed)})),
                                         !.whole = AllDiscovered(listed)]
                ELSE found
    /\ perpStep' = "spot"

ReadSpot(ok) ==
    /\ Reading("spot", ok)
    /\ found' = [found EXCEPT !.spot = IF ok THEN "spot" ELSE Unreadable]
    /\ perpStep' = "exchanges"

(* Each exchange in turn; its answer may lack the account's value. *)
ReadExchange(ok, valued) ==
    /\ Reading("exchanges", ok) /\ Len(found.equity) < Len(found.dexes)
    /\ LET dex == found.dexes[Len(found.equity) + 1]
       IN  found' = [found EXCEPT !.equity = Append(@, IF ok /\ valued THEN dex ELSE Unreadable),
                                  !.whole = @ /\ ok]
    /\ UNCHANGED perpStep

Equity == IF Unreadable \in Range(found.equity) THEN Unreadable ELSE found.equity

AccountValue ==
    LET unified == found.mode = "unifiedAccount"
    IN  IF found.mode \in Supported /\ found.spot # Unreadable /\ found.whole /\ (unified \/ Equity # Unreadable)
        THEN <<found.spot>> \o (IF unified THEN <<>> ELSE Equity)
        ELSE Unreadable

Publish ==
    /\ wallet <= Len(Wallets) /\ perpStep = "exchanges" /\ Len(found.equity) = Len(found.dexes)
    /\ values' = Append(values, AccountValue)
    /\ wallet' = wallet + 1 /\ perpStep' = "mode" /\ found' = NothingRead
    /\ UNCHANGED <<listed, perpMode, reads, refused>>

PerpNext ==
    \/ \E ok \in BOOLEAN : ReadMode(ok) \/ Discover(ok) \/ ReadSpot(ok)
    \/ \E ok, valued \in BOOLEAN : ReadExchange(ok, valued)
    \/ Publish

(***************************************************************************)
(* Properties.                                                             *)
(***************************************************************************)
(* Positions are answered from a read of the call's own, or from one that   *)
(* looked at the venue less than the reuse time before: also the copy given *)
(* while a history read holds the venues, however long that lasts.          *)
FuturesFresh ==
    \A c \in Asked \ Historic :
        (At(c, "answered") /\ asking[c].seen >= 0) =>
            asking[c].seen = asking[c].at \/ asking[c].seen > asking[c].at - Reuse

(* Whoever asked has been answered. *)
NobodyAsking == \A c \in Asked : asking[c].pc \in {"new", "answered"}

(* A history without a reason against it has every row of its window,       *)
(* whichever rows of a crowded span the venue chose to return.              *)
HistoryWhole == (historyDone /\ doubts = {}) => taken = VenueRows

Holdings(w) == <<"spot">> \o (IF perpMode[w] = "unifiedAccount" THEN <<>> ELSE <<"main">> \o listed)

(* A published value counts every exchange the account has, whichever reads *)
(* failed and wherever the budget ended; an account that cannot be valued   *)
(* is never counted as less.                                                *)
ValueWhole ==
    \A i \in DOMAIN values :
        values[i] # Unreadable => perpMode[Wallets[i]] \in Supported /\ values[i] = Holdings(Wallets[i])

================================================================================
