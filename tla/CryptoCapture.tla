----------------------------- MODULE CryptoCapture -----------------------------
(***************************************************************************)
(* The futures venues in a day's snapshot.  Captures are stored on a timer; *)
(* the snapshot job reads the rate of the coins, then takes the latest      *)
(* capture, or one of its own when that is too old.  A capture has          *)
(* Hyperliquid's answers, then the time of its completion, then Binance's   *)
(* NAV.  Meanwhile money moves from one venue to the other, is in neither   *)
(* on its way, and midnight passes.                                        *)
(***************************************************************************)
EXTENDS Integers, FiniteSets, FiniteSetsExt

CONSTANTS
    CoinsEnd, CoinsMidnight,    \* the last instant; the first one of the next day
    MaxCaptureAge,              \* MAX_CAPTURE_AGE_SECONDS
    Tolerance,                  \* CRYPTO_BOUNDARY_TOLERANCE_SECONDS
    Flight                      \* what a transfer between the venues takes at least

ASSUME CryptoCaptureAssumption ==
    {CoinsEnd, CoinsMidnight, MaxCaptureAge, Tolerance, Flight} \subseteq Nat /\ Flight > Tolerance

VARIABLES
    moment,
    coins,          \* where the money is, where it goes, and since when it is on its way
    capture,        \* a capture being taken
    latest,         \* the latest one stored
    point           \* the snapshot's

captureVars == <<moment, coins, capture, latest, point>>

NotRead == -9
DateAt(t) == IF t < CoinsMidnight THEN 0 ELSE 1
NoCapture == [by |-> "none", at |-> NotRead, binance |-> NotRead, hyperliquid |-> NotRead, counted |-> {}]

CaptureInit ==
    /\ moment = 0 /\ capture = NoCapture /\ latest = NoCapture
    /\ coins \in {[at |-> from, to |-> to, since |-> 0] : from, to \in {"binance", "hyperliquid"}}
    /\ coins.at # coins.to
    /\ point = [pc |-> "collect", date |-> 0, valued |-> NotRead, mark |-> NotRead,
                capture |-> NoCapture, kis |-> NotRead, written |-> NotRead]

(* Once the snapshot has its capture, no other is read. *)
Reading == point.pc \notin {"kis", "write", "written"}

InstantGoes ==
    /\ point.pc # "written" /\ moment < CoinsEnd /\ moment' = moment + 1
    /\ UNCHANGED <<coins, capture, latest, point>>

CoinsLeave ==
    /\ Reading /\ coins.at \notin {coins.to, "flight"}
    /\ coins' = [coins EXCEPT !.at = "flight", !.since = moment]
    /\ UNCHANGED <<moment, capture, latest, point>>

CoinsArrive ==
    /\ Reading /\ coins.at = "flight" /\ moment >= coins.since + Flight
    /\ coins' = [coins EXCEPT !.at = coins.to, !.since = 0]
    /\ UNCHANGED <<moment, capture, latest, point>>

Answers == {moment, NotRead}
CountedWith(venue, read) == capture.counted \cup IF read # NotRead THEN {venue} \cap {coins.at} ELSE {}
Begun(by, read) ==
    [by |-> by, at |-> NotRead, binance |-> NotRead, hyperliquid |-> read, counted |-> CountedWith("hyperliquid", read)]

CaptureBegins ==
    /\ Reading /\ capture = NoCapture
    /\ \E read \in Answers : capture' = Begun("timer", read)
    /\ UNCHANGED <<moment, coins, latest, point>>

CaptureCompletes ==
    /\ Reading /\ capture.by # "none" /\ capture.at = NotRead
    /\ capture' = [capture EXCEPT !.at = moment]
    /\ UNCHANGED <<moment, coins, latest, point>>

(* One that lacks a read is stored as well. *)
CaptureStored ==
    /\ Reading /\ capture.at # NotRead
    /\ \E read \in Answers : latest' = [capture EXCEPT !.binance = read, !.counted = CountedWith("binance", read)]
    /\ capture' = NoCapture
    /\ point' = IF capture.by = "job" THEN [point EXCEPT !.pc = "kis", !.capture = latest'] ELSE point
    /\ UNCHANGED <<moment, coins>>

(* The job's date is taken before the positions, which are as of `valued'.   *)
PointBegins ==
    /\ point.pc = "collect"
    /\ \E date \in {0, DateAt(moment)} : point' = [point EXCEPT !.pc = "marks", !.date = date, !.valued = moment]
    /\ UNCHANGED <<moment, coins, capture, latest>>

ReadMarks ==
    /\ point.pc = "marks"
    /\ \E read \in Answers : point' = [point EXCEPT !.pc = "capture", !.mark = read]
    /\ UNCHANGED <<moment, coins, capture, latest>>

BindCapture ==
    /\ point.pc = "capture"
    /\ IF latest # NoCapture /\ moment - latest.at <= MaxCaptureAge
       THEN point' = [point EXCEPT !.pc = "kis", !.capture = latest] /\ UNCHANGED capture
       ELSE \/ point' = [point EXCEPT !.pc = "kis"] /\ UNCHANGED capture
            \/ /\ capture = NoCapture /\ point' = [point EXCEPT !.pc = "waits"]
               /\ \E read \in Answers : capture' = Begun("job", read)
    /\ UNCHANGED <<moment, coins, latest>>

CaptureKis ==
    /\ point.pc = "kis"
    /\ point' = [point EXCEPT !.pc = "write", !.kis = moment]
    /\ UNCHANGED <<moment, coins, capture, latest>>

WritePoint ==
    /\ point.pc = "write"
    /\ point' = [point EXCEPT !.pc = "written", !.written = moment]
    /\ UNCHANGED <<moment, coins, capture, latest>>

CaptureNext ==
    \/ InstantGoes \/ CoinsLeave \/ CoinsArrive
    \/ CaptureBegins \/ CaptureCompletes \/ CaptureStored
    \/ PointBegins \/ ReadMarks \/ BindCapture \/ CaptureKis \/ WritePoint

(***************************************************************************)
(* The worth that is told.                                                 *)
(***************************************************************************)
(* Reads of both venues, the completion and the coins' rate fit in one span. *)
(* Variant: Hyperliquid's is left out.                                       *)
Coherent(times) == Max(times) - Min(times) <= Tolerance
InstantsOfOne(c) == {c.at, c.binance}
Instants(c) == {c.at, c.binance, c.hyperliquid}

(* The writer: no coin needs a rate where there is none. *)
Valued(c) ==
    /\ NotRead \notin {c.at, c.binance, c.hyperliquid}
    /\ \A t \in {c.at, c.binance, c.hyperliquid} : t - point.valued \in -MaxCaptureAge..MaxCaptureAge
    /\ c.counted # {} => point.mark # NotRead /\ Coherent({point.mark} \cup Instants(c))

(* The readers of the venues alone, of all accounts, and of KIS. *)
CryptoTold ==
    /\ point.pc = "written" /\ DateAt(point.valued) = point.date /\ Valued(point.capture)
    /\ Coherent(Instants(point.capture)) /\ DateAt(point.capture.at) = point.date
    /\ \A t \in {point.capture.binance, point.capture.hyperliquid, point.mark} :
           DateAt(t) <= point.date /\ t <= point.written
ConsolidatedTold == point.pc = "written" /\ Valued(point.capture)
KisTold == point.pc = "written" /\ DateAt(point.kis) = point.date

(***************************************************************************)
(* Properties.                                                             *)
(***************************************************************************)
(* Money under way between the venues is never counted in both, also when   *)
(* the job's own capture and the timer's alternate; and the accounts that   *)
(* are told of under one date are valued on the same day, though the job    *)
(* goes on past midnight.                                                   *)
MoneyCountedOnce ==
    /\ CryptoTold \/ ConsolidatedTold => Cardinality(point.capture.counted) <= 1
    /\ CryptoTold /\ KisTold => DateAt(point.capture.at) = DateAt(point.kis) /\ DateAt(point.kis) = DateAt(point.valued)

================================================================================
