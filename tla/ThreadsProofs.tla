----------------------------- MODULE ThreadsProofs -----------------------------
(***************************************************************************)
(* Theorems about the threads of the server process, for any calls,        *)
(* requests, limits and times: positions are fresh, providers are asked    *)
(* and the gate and the registry tried no more often than they may, and    *)
(* what is read in many requests is whole or says that it is not.          *)
(*                                                                         *)
(* The groups of threads share no state, so that each has an invariant of  *)
(* its own, preserved by its own steps.                                    *)
(***************************************************************************)
EXTENDS MCThreads, SequenceTheorems, FiniteSetTheorems, TLAPS

(* A step of the threads is a step of one group, and none of the others. *)
LEMMA GroupsApart ==
    ASSUME [MCNext]_threadVars
    PROVE  /\ [PositionNext]_posVars /\ [PaceNext]_paceVars /\ [FuturesNext]_futuresVars /\ [GateNext]_gateVars
           /\ [HistoryNext]_historyVars /\ [PerpNext]_perpVars /\ [ScanNext]_scanVars /\ [PagesNext]_pagesVars
<1>1. CASE UNCHANGED threadVars
  BY <1>1 DEF threadVars
<1>2. CASE MCNext
  BY <1>2 DEF MCNext
<1> QED
  BY <1>1, <1>2

LEMMA GroupsBegin == MCInit => /\ PositionInit /\ PaceInit /\ FuturesInit /\ GateInit
                               /\ HistoryInit /\ PerpInit /\ ScanInit /\ PagesInit
  BY DEF MCInit

(***************************************************************************)
(* Reads of the futures venues.                                            *)
(***************************************************************************)
Standings ==
    [pc : {"new", "tries", "holds", "begins"}]
    \cup [pc : {"waits"}, until : Int]
    \cup [pc : {"reads"}, begun : Nat]
    \cup [pc : {"stores"}, begun : Nat, seen : Nat]
    \cup [pc : {"ends", "frees", "answered"}, seen : Int, at : Int]

(* What is kept was seen after its read began; who has an answer has a fresh one. *)
FuturesInv ==
    /\ venueTime \in Nat
    /\ asking \in [Asked -> Standings]
    /\ cached \in [begun : Int, seen : Int]
    /\ cached # NoEntry => cached.begun <= cached.seen
    /\ \A c \in Asked :
          /\ At(c, "reads") => asking[c].begun <= venueTime
          /\ At(c, "stores") => asking[c].begun <= asking[c].seen
          /\ asking[c].pc \in {"ends", "frees", "answered"} /\ asking[c].seen >= 0 =>
                asking[c].seen = asking[c].at \/ asking[c].seen > asking[c].at - Reuse

LEMMA FuturesBegin == FuturesInit => FuturesInv
  BY DEF FuturesInit, FuturesInv, Standings, NoEntry, At

(* A call that goes on leaves the others where they are. *)
LEMMA FuturesGoes ==
    ASSUME FuturesInv, NEW c \in Asked, NEW record \in Standings, Goes(c, record),
           venueTime' = venueTime,
           cached' \in [begun : Int, seen : Int], cached' # NoEntry => cached'.begun <= cached'.seen,
           record.pc = "reads" => record.begun <= venueTime,
           record.pc = "stores" => record.begun <= record.seen,
           record.pc \in {"ends", "frees", "answered"} /\ record.seen >= 0 =>
                record.seen = record.at \/ record.seen > record.at - Reuse
    PROVE  FuturesInv'
<1>1. asking' \in [Asked -> Standings]
  BY DEF FuturesInv, Goes
<1>2. asking'[c] = record /\ \A d \in Asked : d # c => asking'[d] = asking[d]
  BY DEF FuturesInv, Goes
<1>3. ASSUME NEW d \in Asked
      PROVE  /\ asking'[d].pc = "reads" => asking'[d].begun <= venueTime
             /\ asking'[d].pc = "stores" => asking'[d].begun <= asking'[d].seen
             /\ asking'[d].pc \in {"ends", "frees", "answered"} /\ asking'[d].seen >= 0 =>
                   asking'[d].seen = asking'[d].at \/ asking'[d].seen > asking'[d].at - Reuse
  BY <1>2 DEF FuturesInv, At
<1> QED
  BY <1>1, <1>3 DEF FuturesInv, At

LEMMA FuturesCallStep ==
    ASSUME FuturesInv, NEW c \in Asked, AskFutures(c) \/ FuturesStep(c)
    PROVE  FuturesInv'
<1> USE FuturesAssumption
<1>0. asking[c] \in Standings /\ venueTime \in Nat /\ Reuse \in Nat /\ BusyWait \in Nat
  BY DEF FuturesInv
<1>1. CASE AskFutures(c)
  <2>1. [pc |-> "waits", until |-> venueTime + BusyWait] \in Standings
    BY <1>0 DEF Standings
  <2> QED
    BY <1>1, <2>1, FuturesGoes DEF AskFutures, FuturesInv
<1>2. CASE Take(c)
  <2>1. [pc |-> "holds"] \in Standings
    BY DEF Standings
  <2> QED
    BY <1>2, <2>1, FuturesGoes DEF Take, FuturesInv
<1>3. CASE LookWho(c)
  <2>1. [pc |-> "tries"] \in Standings /\ [pc |-> "waits", until |-> venueTime + BusyWait] \in Standings
    BY <1>0 DEF Standings
  <2>2. CASE holding = "positions"
    BY <1>3, <2>1, <2>2, FuturesGoes DEF LookWho, FuturesInv
  <2>3. CASE holding # "positions"
    BY <1>3, <2>1, <2>3, FuturesGoes DEF LookWho, FuturesInv
  <2> QED
    BY <2>2, <2>3
<1>4. CASE AnswerBusy(c)
  <2> DEFINE record == [pc |-> "answered", seen |-> IF Usable(cached) THEN cached.seen ELSE -1, at |-> venueTime]
  <2>1. cached.seen \in Int /\ cached.begun \in Int /\ cached \in [begun : Int, seen : Int]
    BY DEF FuturesInv
  <2>2. record \in Standings
    BY <1>0, <2>1 DEF Standings
  <2>3. record.seen >= 0 => record.seen = record.at \/ record.seen > record.at - Reuse
    BY <1>0, <2>1 DEF FuturesInv, Usable
  <2>4. cached' \in [begun : Int, seen : Int] /\ (cached' # NoEntry => cached'.begun <= cached'.seen)
    BY <1>4, <2>1 DEF AnswerBusy, FuturesInv, NoEntry
  <2> QED
    BY <1>4, <2>2, <2>3, <2>4, FuturesGoes DEF AnswerBusy
<1>5. CASE Note(c)
  <2>1. [pc |-> "begins"] \in Standings
    BY DEF Standings
  <2> QED
    BY <1>5, <2>1, FuturesGoes DEF Note, FuturesInv
<1>6. CASE BeginRead(c)
  <2>1. cached.seen \in Int /\ cached.begun \in Int /\ cached \in [begun : Int, seen : Int]
    BY DEF FuturesInv
  <2>2. CASE c \notin Historic /\ Usable(cached)
    <3> DEFINE record == [pc |-> "ends", seen |-> cached.seen, at |-> venueTime]
    <3>1. record \in Standings
      BY <1>0, <2>1 DEF Standings
    <3>2. record.seen = record.at \/ record.seen > record.at - Reuse
      BY <1>0, <2>1, <2>2 DEF FuturesInv, Usable
    <3> QED
      BY <1>6, <2>2, <3>1, <3>2, FuturesGoes DEF BeginRead, FuturesInv
  <2>3. CASE ~ (c \notin Historic /\ Usable(cached))
    <3>1. [pc |-> "reads", begun |-> venueTime] \in Standings
      BY <1>0 DEF Standings
    <3>2. cached' \in [begun : Int, seen : Int] /\ (cached' # NoEntry => cached'.begun <= cached'.seen)
      BY <1>6, <2>1, <2>3 DEF BeginRead, FuturesInv, NoEntry
    <3> QED
      BY <1>0, <1>6, <2>3, <3>1, <3>2, FuturesGoes DEF BeginRead
  <2> QED
    BY <2>2, <2>3
<1>7. CASE SeeVenue(c)
  <2>1. asking[c].begun \in Nat /\ asking[c].begun <= venueTime
    BY <1>0, <1>7 DEF SeeVenue, At, Standings, FuturesInv
  <2>2. [pc |-> "stores", begun |-> asking[c].begun, seen |-> venueTime] \in Standings
    BY <1>0, <2>1 DEF Standings
  <2> QED
    BY <1>7, <2>1, <2>2, FuturesGoes DEF SeeVenue, FuturesInv
<1>8. ASSUME NEW whole \in BOOLEAN, FinishRead(c, whole)
      PROVE  FuturesInv'
  <2>1. asking[c].begun \in Nat /\ asking[c].seen \in Nat /\ asking[c].begun <= asking[c].seen
    BY <1>0, <1>8 DEF FinishRead, At, Standings, FuturesInv
  <2>2. [pc |-> "ends", seen |-> asking[c].seen, at |-> asking[c].seen] \in Standings
    BY <2>1 DEF Standings
  <2>3. cached' \in [begun : Int, seen : Int] /\ (cached' # NoEntry => cached'.begun <= cached'.seen)
    BY <1>8, <2>1 DEF FinishRead, FuturesInv, StoredAt
  <2> QED
    BY <1>8, <2>1, <2>2, <2>3, FuturesGoes DEF FinishRead
<1>9. CASE Unnote(c)
  <2>1. /\ asking[c].seen \in Int /\ asking[c].at \in Int
        /\ [asking[c] EXCEPT !.pc = "frees"] = [pc |-> "frees", seen |-> asking[c].seen, at |-> asking[c].at]
    BY <1>0, <1>9 DEF Unnote, At, Standings
  <2>2. [pc |-> "frees", seen |-> asking[c].seen, at |-> asking[c].at] \in Standings
    BY <2>1 DEF Standings
  <2>3. asking[c].seen >= 0 => asking[c].seen = asking[c].at \/ asking[c].seen > asking[c].at - Reuse
    BY <1>9 DEF Unnote, At, FuturesInv
  <2> QED
    BY <1>9, <2>1, <2>2, <2>3, FuturesGoes DEF Unnote, FuturesInv
<1>10. CASE Release(c)
  <2>1. /\ asking[c].seen \in Int /\ asking[c].at \in Int
        /\ [asking[c] EXCEPT !.pc = "answered"] = [pc |-> "answered", seen |-> asking[c].seen, at |-> asking[c].at]
    BY <1>0, <1>10 DEF Release, At, Standings
  <2>2. [pc |-> "answered", seen |-> asking[c].seen, at |-> asking[c].at] \in Standings
    BY <2>1 DEF Standings
  <2>3. asking[c].seen >= 0 => asking[c].seen = asking[c].at \/ asking[c].seen > asking[c].at - Reuse
    BY <1>10 DEF Release, At, FuturesInv
  <2> QED
    BY <1>10, <2>1, <2>2, <2>3, FuturesGoes DEF Release, FuturesInv
<1> QED
  BY <1>1, <1>2, <1>3, <1>4, <1>5, <1>6, <1>7, <1>8, <1>9, <1>10 DEF FuturesStep

LEMMA FuturesInvStep ==
    ASSUME FuturesInv, [FuturesNext]_futuresVars
    PROVE  FuturesInv'
<1>1. CASE UNCHANGED futuresVars
  BY <1>1 DEF futuresVars, FuturesInv, At
<1>2. CASE VenueTick
  <2>1. asking' = asking /\ cached' = cached /\ venueTime' = venueTime + 1 /\ venueTime \in Nat
    BY <1>2 DEF VenueTick, FuturesInv
  <2>2. ASSUME NEW c \in Asked, asking[c].pc = "reads"
        PROVE  asking[c].begun \in Nat /\ asking[c].begun <= venueTime
    BY <2>2 DEF FuturesInv, At, Standings
  <2> QED
    BY <2>1, <2>2 DEF FuturesInv, At
<1> QED
  BY <1>1, <1>2, FuturesCallStep DEF FuturesNext

LEMMA FuturesInvMeans == FuturesInv => FuturesFresh
  BY DEF FuturesInv, FuturesFresh, At

(***************************************************************************)
(* Admission of requests to a provider.                                    *)
(***************************************************************************)
RequestSteps == {"new", "waiting", "pausing", "sent", "answered", "turned away", "gave up"}
RequestRecords ==
    [step : RequestSteps,
     entered : 0..2, began : Int, sent : Int, ended : Int, refused : BOOLEAN]

PaceTyped ==
    /\ paceNow \in Nat
    /\ requests \in [Requests -> RequestRecords]
    /\ lockedBy \in [Budgets -> SUBSET Requests]
    /\ nextSend \in [Budgets -> Int]
    /\ cooledUntil \in [Budgets -> Int]

(* What a request's step says of its other fields. *)
StepsMean(r) ==
    /\ requests[r].step = "new" => requests[r].entered = 0
    /\ requests[r].step \in {"waiting", "pausing"} => requests[r].entered < Len(Path(r))
    /\ requests[r].step \in {"sent", "answered"} => requests[r].entered = Len(Path(r)) /\ requests[r].sent \in 0..paceNow
    /\ requests[r].step \notin {"sent", "answered"} => requests[r].sent = Never
    /\ requests[r].step = "answered" => requests[r].ended \in requests[r].sent..paceNow
    /\ requests[r].refused => requests[r].step = "answered"

(* Whether a request is in a budget: it was let into it and has not left. *)
Holds(r, budget) ==
    IF budget = "provider"
    THEN requests[r].step = "sent" \/ (requests[r].step = "pausing" /\ requests[r].entered + 1 = Len(Path(r)))
    ELSE /\ r \in Supplemental
         /\ requests[r].step \in {"sent", "pausing"} \/ (requests[r].step = "waiting" /\ requests[r].entered = 1)

(* The lock of a budget is its request's alone. *)
LocksHeld == \A r \in Requests, b \in Budgets : Holds(r, b) => lockedBy[b] = {r}

(* The next request to the provider waits for every interval asked for. *)
SpacingKept ==
    /\ \A q \in Requests : WasAnswered(q) => nextSend["provider"] >= requests[q].ended + IntervalOf[q]
    /\ \A r \in Requests : requests[r].step = "sent" => paceNow >= nextSend["provider"]

FollowEachOther ==
    \A q, r \in Requests : Sent(q) /\ Sent(r) /\ q # r =>
        \/ WasAnswered(q) /\ requests[r].sent >= requests[q].ended + IntervalOf[q]
        \/ WasAnswered(r) /\ requests[q].sent >= requests[r].ended + IntervalOf[r]

(* A cooldown is that of a refusal, and of every one. *)
CooldownKept ==
    /\ \A q \in Requests : requests[q].refused => cooledUntil[Path(q)[1]] >= requests[q].ended + Cooldown
    /\ \A b \in Budgets : cooledUntil[b] > 0 =>
          \E q \in Requests : requests[q].refused /\ Path(q)[1] = b /\ cooledUntil[b] = requests[q].ended + Cooldown

(* Who is in a budget entered it after the cooldowns of the refusals there. *)
SilenceKept ==
    \A q, r \in Requests : requests[q].refused /\ Holds(r, Path(q)[1]) => paceNow >= requests[q].ended + Cooldown

SilenceSeen ==
    \A q, r \in Requests : Applies(q, r) /\ Sent(r) /\ requests[r].sent > requests[q].ended =>
        requests[r].sent >= requests[q].ended + Cooldown

TurnedAwayRightly ==
    \A r \in Requests : requests[r].step = "turned away" =>
        \E q \in Requests : Applies(q, r) /\ requests[r].ended < requests[q].ended + Cooldown

PaceInv ==
    /\ PaceTyped
    /\ \A r \in Requests : StepsMean(r)
    /\ LocksHeld /\ SpacingKept /\ FollowEachOther
    /\ CooldownKept /\ SilenceKept /\ SilenceSeen /\ TurnedAwayRightly

LEMMA PathIs ==
    ASSUME NEW r \in Requests
    PROVE  /\ r \in Supplemental => Len(Path(r)) = 2 /\ Path(r)[1] = "supplemental" /\ Path(r)[2] = "provider"
           /\ r \notin Supplemental => Len(Path(r)) = 1 /\ Path(r)[1] = "provider"
<1>1. CASE r \in Supplemental
  <2>1. Path(r) = <<"supplemental", "provider">>
    BY <1>1 DEF Path
  <2> QED
    BY <1>1, <2>1
<1>2. CASE r \notin Supplemental
  <2>1. Path(r) = <<"provider">>
    BY <1>2 DEF Path
  <2> QED
    BY <1>2, <2>1
<1> QED
  BY <1>1, <1>2

LEMMA PaceConstants == Cooldown \in Nat /\ \A r \in Requests : IntervalOf[r] \in Nat
  BY PacingAssumption

LEMMA RequestTyped ==
    ASSUME PaceTyped, NEW r \in Requests
    PROVE  /\ requests[r] \in RequestRecords
           /\ requests[r].entered \in 0..2 /\ requests[r].began \in Int /\ requests[r].sent \in Int
           /\ requests[r].ended \in Int
           /\ requests[r].refused \in BOOLEAN
<1>1. requests[r] \in RequestRecords
  BY DEF PaceTyped
<1> QED
  BY <1>1 DEF RequestRecords

LEMMA PaceBegin == PaceInit => PaceInv
<1> SUFFICES ASSUME PaceInit PROVE PaceInv
  OBVIOUS
<1>1. PaceTyped
  BY DEF PaceInit, PaceTyped, RequestRecords, RequestSteps, Never, Budgets
<1>2. \A r \in Requests : /\ requests[r].step = "new" /\ requests[r].entered = 0 /\ requests[r].sent = Never
                          /\ ~requests[r].refused
  BY DEF PaceInit
<1>3. \A b \in Budgets : cooledUntil[b] = 0
  BY DEF PaceInit
<1> QED
  <2>1. \A r \in Requests : StepsMean(r)
    BY <1>2 DEF StepsMean, Never
  <2>2. LocksHeld /\ SpacingKept /\ FollowEachOther /\ TurnedAwayRightly
    BY <1>2 DEF LocksHeld, Holds, SpacingKept, WasAnswered, FollowEachOther, Sent, TurnedAwayRightly
  <2>3. CooldownKept /\ SilenceKept /\ SilenceSeen
    BY <1>2, <1>3 DEF CooldownKept, SilenceKept, SilenceSeen, Applies
  <2> QED
    BY <1>1, <2>1, <2>2, <2>3 DEF PaceInv

(* Every other request is left as it is. *)
LEMMA OthersStay ==
    ASSUME PaceTyped, NEW r \in Requests, NEW record \in RequestRecords,
           requests' = [requests EXCEPT ![r] = record]
    PROVE  /\ requests' \in [Requests -> RequestRecords]
           /\ requests'[r] = record
           /\ \A q \in Requests : q # r => requests'[q] = requests[q]
  BY DEF PaceTyped

LEMMA TickKeeps == PaceInv /\ PaceTick => PaceInv'
<1> SUFFICES ASSUME PaceInv, PaceTick PROVE PaceInv'
  OBVIOUS
<1>1. /\ paceNow \in Nat /\ paceNow' = paceNow + 1 /\ requests' = requests /\ lockedBy' = lockedBy
      /\ nextSend' = nextSend /\ cooledUntil' = cooledUntil
  BY DEF PaceTick, PaceInv, PaceTyped
<1>2. PaceTyped'
  BY <1>1 DEF PaceInv, PaceTyped
<1>3. ASSUME NEW r \in Requests PROVE StepsMean(r)'
  <2>1. requests[r].sent \in Int /\ requests[r].ended \in Int
    BY RequestTyped DEF PaceInv
  <2>2. Path(r)' = Path(r)
    BY DEF Path
  <2>3. requests[r].step \in {"sent", "answered"} => requests[r].sent \in 0..(paceNow + 1)
    BY <1>1, <2>1 DEF PaceInv, StepsMean
  <2>4. requests[r].step = "answered" => requests[r].ended \in requests[r].sent..(paceNow + 1)
    BY <1>1, <2>1 DEF PaceInv, StepsMean
  <2> QED
    BY <1>1, <2>2, <2>3, <2>4 DEF PaceInv, StepsMean
<1>4. LocksHeld' /\ FollowEachOther' /\ CooldownKept' /\ SilenceSeen' /\ TurnedAwayRightly'
  <2>1. LocksHeld'
    BY <1>1 DEF PaceInv, LocksHeld, Holds, Path
  <2>2. FollowEachOther'
    BY <1>1 DEF PaceInv, FollowEachOther, Sent, WasAnswered
  <2>3. CooldownKept'
    BY <1>1 DEF PaceInv, CooldownKept, Path
  <2>4. SilenceSeen' /\ TurnedAwayRightly'
    BY <1>1 DEF PaceInv, SilenceSeen, TurnedAwayRightly, Sent, Applies
  <2> QED
    BY <2>1, <2>2, <2>3, <2>4
<1>5. SpacingKept'
  <2>1. nextSend["provider"] \in Int
    BY DEF PaceInv, PaceTyped, Budgets
  <2> QED
    BY <1>1, <2>1 DEF PaceInv, SpacingKept, WasAnswered
<1>6. SilenceKept'
  <2>1. \A q \in Requests : requests[q].ended + Cooldown \in Int
    BY PaceConstants, RequestTyped DEF PaceInv
  <2>2. ASSUME NEW q \in Requests, NEW r \in Requests
        PROVE  (requests[q].refused /\ Holds(r, Path(q)[1]))' => requests[q].refused /\ Holds(r, Path(q)[1])
    BY <1>1 DEF Holds, Path
  <2>3. \A q, r \in Requests : (requests[q].refused /\ Holds(r, Path(q)[1]))' => paceNow >= requests[q].ended + Cooldown
    BY <2>2 DEF PaceInv, SilenceKept
  <2>4. \A q \in Requests : paceNow >= requests[q].ended + Cooldown => paceNow' >= (requests[q].ended + Cooldown)'
    BY <1>1, <2>1
  <2> QED
    BY <2>3, <2>4 DEF SilenceKept
<1> QED
  BY <1>2, <1>3, <1>4, <1>5, <1>6 DEF PaceInv

(* The requests after a step of r: its record is another one. *)
Becomes(r, step, entered, sent, ended, denied) ==
    /\ requests' \in [Requests -> RequestRecords]
    /\ \A q \in Requests : q # r => requests'[q] = requests[q]
    /\ requests'[r].step = step /\ requests'[r].entered = entered /\ requests'[r].sent = sent
    /\ requests'[r].ended = ended /\ requests'[r].refused = denied

LEMMA RecordTyped ==
    ASSUME NEW step \in RequestSteps, NEW entered \in 0..2, NEW began \in Int, NEW sent \in Int, NEW ended \in Int,
           NEW denied \in BOOLEAN
    PROVE  [step |-> step, entered |-> entered, began |-> began, sent |-> sent, ended |-> ended, refused |-> denied]
               \in RequestRecords
  BY DEF RequestRecords

LEMMA AskMoves ==
    ASSUME PaceTyped, NEW r \in Requests, Ask(r)
    PROVE  Becomes(r, "waiting", requests[r].entered, requests[r].sent, requests[r].ended, requests[r].refused)
<1>1. PICK p : p = [requests[r] EXCEPT !.step = "waiting", !.began = paceNow]
  OBVIOUS
<1>2. requests' = [requests EXCEPT ![r] = p]
  BY <1>1 DEF Ask, PaceTyped, RequestRecords
<1>3. p = [step |-> "waiting", entered |-> requests[r].entered, began |-> paceNow, sent |-> requests[r].sent,
           ended |-> requests[r].ended, refused |-> requests[r].refused]
  BY <1>1, RequestTyped DEF RequestRecords
<1>4. p \in RequestRecords
  <2>1. paceNow \in Int
    BY DEF PaceTyped
  <2> QED
    BY <1>3, <2>1, RequestTyped, RecordTyped DEF RequestSteps
<1> QED
  BY <1>2, <1>3, <1>4, OthersStay DEF Becomes

LEMMA EnterMoves ==
    ASSUME PaceTyped, NEW r \in Requests, EnterBudget(r)
    PROVE  Becomes(r, "pausing", requests[r].entered, requests[r].sent, requests[r].ended, requests[r].refused)
<1>1. PICK p : p = [requests[r] EXCEPT !.step = "pausing"]
  OBVIOUS
<1>2. requests' = [requests EXCEPT ![r] = p]
  BY <1>1 DEF EnterBudget, PaceTyped, RequestRecords
<1>3. p = [step |-> "pausing", entered |-> requests[r].entered, began |-> requests[r].began, sent |-> requests[r].sent,
           ended |-> requests[r].ended, refused |-> requests[r].refused]
  BY <1>1, RequestTyped DEF RequestRecords
<1>4. p \in RequestRecords
  <2>1. paceNow \in Int
    BY DEF PaceTyped
  <2> QED
    BY <1>3, <2>1, RequestTyped, RecordTyped DEF RequestSteps
<1> QED
  BY <1>2, <1>3, <1>4, OthersStay DEF Becomes

LEMMA TurnMoves ==
    ASSUME PaceTyped, NEW r \in Requests, TurnAway(r)
    PROVE  Becomes(r, "turned away", requests[r].entered, requests[r].sent, paceNow, requests[r].refused)
<1>1. PICK p : p = [requests[r] EXCEPT !.step = "turned away", !.ended = paceNow]
  OBVIOUS
<1>2. requests' = [requests EXCEPT ![r] = p]
  BY <1>1 DEF TurnAway, PaceTyped, RequestRecords
<1>3. p = [step |-> "turned away", entered |-> requests[r].entered, began |-> requests[r].began, sent |-> requests[r].sent,
           ended |-> paceNow, refused |-> requests[r].refused]
  BY <1>1, RequestTyped DEF RequestRecords
<1>4. p \in RequestRecords
  <2>1. paceNow \in Int
    BY DEF PaceTyped
  <2> QED
    BY <1>3, <2>1, RequestTyped, RecordTyped DEF RequestSteps
<1> QED
  BY <1>2, <1>3, <1>4, OthersStay DEF Becomes

LEMMA GiveMoves ==
    ASSUME PaceTyped, NEW r \in Requests, GiveUp(r)
    PROVE  Becomes(r, "gave up", requests[r].entered, requests[r].sent, paceNow, requests[r].refused)
<1>1. PICK p : p = [requests[r] EXCEPT !.step = "gave up", !.ended = paceNow]
  OBVIOUS
<1>2. requests' = [requests EXCEPT ![r] = p]
  BY <1>1 DEF GiveUp, PaceTyped, RequestRecords
<1>3. p = [step |-> "gave up", entered |-> requests[r].entered, began |-> requests[r].began, sent |-> requests[r].sent,
           ended |-> paceNow, refused |-> requests[r].refused]
  BY <1>1, RequestTyped DEF RequestRecords
<1>4. p \in RequestRecords
  <2>1. paceNow \in Int
    BY DEF PaceTyped
  <2> QED
    BY <1>3, <2>1, RequestTyped, RecordTyped DEF RequestSteps
<1> QED
  BY <1>2, <1>3, <1>4, OthersStay DEF Becomes

LEMMA AnswerMoves ==
    ASSUME PaceTyped, NEW r \in Requests, NEW denied \in BOOLEAN, Answer(r, denied)
    PROVE  Becomes(r, "answered", requests[r].entered, requests[r].sent, paceNow, denied)
<1>1. PICK p : p = [requests[r] EXCEPT !.step = "answered", !.ended = paceNow, !.refused = denied]
  OBVIOUS
<1>2. requests' = [requests EXCEPT ![r] = p]
  BY <1>1 DEF Answer, PaceTyped, RequestRecords
<1>3. p = [step |-> "answered", entered |-> requests[r].entered, began |-> requests[r].began, sent |-> requests[r].sent,
           ended |-> paceNow, refused |-> denied]
  BY <1>1, RequestTyped DEF RequestRecords
<1>4. p \in RequestRecords
  <2>1. paceNow \in Int
    BY DEF PaceTyped
  <2> QED
    BY <1>3, <2>1, RequestTyped, RecordTyped DEF RequestSteps
<1> QED
  BY <1>2, <1>3, <1>4, OthersStay DEF Becomes

LEMMA AdmitMoves ==
    ASSUME PaceTyped, NEW r \in Requests, Admit(r), StepsMean(r)
    PROVE  LET all == requests[r].entered + 1 = Len(Path(r))
           IN  Becomes(r, IF all THEN "sent" ELSE "waiting", requests[r].entered + 1,
                       IF all THEN paceNow ELSE Never, requests[r].ended, requests[r].refused)
<1>0. PICK step, sent : /\ step = IF requests[r].entered + 1 = Len(Path(r)) THEN "sent" ELSE "waiting"
                        /\ sent = IF requests[r].entered + 1 = Len(Path(r)) THEN paceNow ELSE Never
  OBVIOUS
<1>a. /\ step \in {"sent", "waiting"} /\ sent \in Int
      /\ requests[r].entered + 1 \in 0..2
  <2>1. requests[r].entered \in 0..2 /\ requests[r].entered < Len(Path(r)) /\ Len(Path(r)) \in 1..2
    BY RequestTyped, PathIs DEF Admit, StepsMean
  <2>2. step \in {"sent", "waiting"}
    BY <1>0
  <2>3. paceNow \in Int /\ Never \in Int
    BY DEF PaceTyped, Never
  <2>5. sent = paceNow \/ sent = Never
    BY ONLY <1>0
  <2>4. sent \in Int
    BY <2>3, <2>5
  <2>6. requests[r].entered + 1 \in 0..2
    <3>1. \A n \in 0..2, m \in 1..2 : n < m => n + 1 \in 0..2
      OBVIOUS
    <3> QED
      BY <2>1, <3>1
  <2> QED
    BY <2>2, <2>4, <2>6
<1>1. PICK p : p = [requests[r] EXCEPT !.entered = requests[r].entered + 1, !.step = step, !.sent = sent]
  OBVIOUS
<1>2. requests' = [requests EXCEPT ![r] = p]
  BY <1>0, <1>1 DEF Admit, PaceTyped, RequestRecords
<1>3. p = [step |-> step, entered |-> requests[r].entered + 1, began |-> requests[r].began, sent |-> sent,
           ended |-> requests[r].ended, refused |-> requests[r].refused]
  BY <1>1, RequestTyped DEF RequestRecords
<1>4. p \in RequestRecords
  BY <1>a, <1>3, RequestTyped, RecordTyped DEF RequestSteps
<1> QED
  BY <1>0, <1>2, <1>3, <1>4, OthersStay DEF Becomes

LEMMA SameRecord ==
    ASSUME NEW q \in Requests, requests'[q] = requests[q], paceNow' = paceNow
    PROVE  /\ \A b \in Budgets : Holds(q, b)' <=> Holds(q, b)
           /\ Sent(q)' <=> Sent(q)
           /\ WasAnswered(q)' <=> WasAnswered(q)
           /\ StepsMean(q)' <=> StepsMean(q)
           /\ Path(q)' = Path(q)
  BY DEF Holds, Sent, WasAnswered, StepsMean, Path

LEMMA FirstBudget ==
    ASSUME NEW q \in Requests
    PROVE  Path(q)[1] \in Budgets /\ (q \in Supplemental <=> Path(q)[1] = "supplemental")
  BY PathIs DEF Budgets

(* A step of a request that neither was sent nor is afterwards. *)
LEMMA QuietStep ==
    ASSUME PaceInv, NEW r \in Requests,
           NEW step, NEW entered, NEW ended,
           Becomes(r, step, entered, requests[r].sent, ended, requests[r].refused),
           requests[r].step \notin {"sent", "answered"}, step \notin {"sent", "answered"},
           PaceTyped', paceNow' = paceNow, cooledUntil' = cooledUntil,
           nextSend'["provider"] = nextSend["provider"],
           StepsMean(r)', LocksHeld',
           \A q \in Requests : q # r /\ requests[q].refused /\ Holds(r, Path(q)[1])' => paceNow >= requests[q].ended + Cooldown,
           step = "turned away" =>
               \E q \in Requests : q # r /\ Applies(q, r) /\ ended < requests[q].ended + Cooldown
    PROVE  PaceInv'
<1>1. /\ \A q \in Requests : q # r => requests'[q] = requests[q]
      /\ requests'[r].step = step /\ requests'[r].sent = requests[r].sent /\ requests'[r].ended = ended
      /\ requests'[r].refused = requests[r].refused
  BY DEF Becomes
<1>2. ~Sent(r) /\ ~Sent(r)' /\ ~WasAnswered(r) /\ ~WasAnswered(r)' /\ ~requests[r].refused /\ ~requests'[r].refused
  BY <1>1 DEF PaceInv, StepsMean, Sent, WasAnswered
<1>3. \A q \in Requests : StepsMean(q)'
  BY <1>1, SameRecord DEF PaceInv
<1>4. SpacingKept'
  BY <1>1, <1>2 DEF PaceInv, SpacingKept, WasAnswered
<1>5. FollowEachOther'
  BY <1>1, <1>2 DEF PaceInv, FollowEachOther, WasAnswered, Sent
<1>6. CooldownKept'
  <2>1. \A q \in Requests : requests'[q].refused =>
            q # r /\ requests[q].refused /\ requests'[q].ended = requests[q].ended /\ Path(q)' = Path(q)
    BY <1>1, <1>2 DEF Path
  <2>2. \A q \in Requests : requests[q].refused =>
            requests'[q].refused /\ requests'[q].ended = requests[q].ended /\ Path(q)' = Path(q)
    BY <1>1, <1>2 DEF Path
  <2>3. \A q \in Requests : requests'[q].refused => cooledUntil'[Path(q)'[1]] >= requests'[q].ended + Cooldown
    BY <2>1 DEF PaceInv, CooldownKept
  <2>4. ASSUME NEW b \in Budgets, cooledUntil'[b] > 0
        PROVE  \E q \in Requests :
                  requests'[q].refused /\ Path(q)'[1] = b /\ cooledUntil'[b] = requests'[q].ended + Cooldown
    <3>1. PICK q \in Requests : requests[q].refused /\ Path(q)[1] = b /\ cooledUntil[b] = requests[q].ended + Cooldown
      BY <2>4 DEF PaceInv, CooldownKept
    <3> QED
      BY <2>2, <3>1
  <2> QED
    BY <2>3, <2>4 DEF CooldownKept
<1>7. SilenceKept'
  <2> SUFFICES ASSUME NEW q \in Requests, NEW s \in Requests, requests'[q].refused, Holds(s, Path(q)[1])'
               PROVE  paceNow >= requests'[q].ended + Cooldown
    BY DEF SilenceKept, Path
  <2>1. q # r /\ requests[q].refused /\ requests'[q].ended = requests[q].ended
    BY <1>1, <1>2
  <2>2. CASE s = r
    BY <2>1, <2>2
  <2>3. CASE s # r
    <3>1. Holds(s, Path(q)[1])
      BY <1>1, <2>3, SameRecord, FirstBudget
    <3> QED
      BY <2>1, <3>1 DEF PaceInv, SilenceKept
  <2> QED
    BY <2>2, <2>3
<1>8. SilenceSeen'
  <2> SUFFICES ASSUME NEW q \in Requests, NEW s \in Requests, Applies(q, s)', Sent(s)', requests'[s].sent > requests'[q].ended
               PROVE  requests'[s].sent >= requests'[q].ended + Cooldown
    BY DEF SilenceSeen
  <2>1. requests'[q] = requests[q] /\ requests'[s] = requests[s]
    BY <1>1, <1>2 DEF Applies
  <2> QED
    BY <2>1 DEF PaceInv, SilenceSeen, Applies, Sent
<1>9. TurnedAwayRightly'
  <2> SUFFICES ASSUME NEW s \in Requests, requests'[s].step = "turned away"
               PROVE  \E q \in Requests : Applies(q, s)' /\ requests'[s].ended < requests'[q].ended + Cooldown
    BY DEF TurnedAwayRightly
  <2>1. PICK q \in Requests : q # r /\ Applies(q, s) /\ requests'[s].ended < requests[q].ended + Cooldown
    <3>1. CASE s = r
      BY <1>1, <3>1
    <3>2. CASE s # r
      BY <1>1, <1>2, <3>2 DEF PaceInv, TurnedAwayRightly, Applies
    <3> QED
      BY <3>1, <3>2
  <2> QED
    BY <1>1, <2>1 DEF Applies
<1> QED
  BY <1>3, <1>4, <1>5, <1>6, <1>7, <1>8, <1>9 DEF PaceInv

LEMMA AskKeeps ==
    ASSUME PaceInv, NEW r \in Requests, Ask(r)
    PROVE  PaceInv'
<1>0. PaceTyped /\ StepsMean(r)
  BY DEF PaceInv
<1>1. Becomes(r, "waiting", requests[r].entered, requests[r].sent, requests[r].ended, requests[r].refused)
  BY <1>0, AskMoves
<1>2. /\ requests[r].step = "new" /\ requests[r].entered = 0 /\ requests[r].sent = Never /\ ~requests[r].refused
      /\ paceNow' = paceNow /\ lockedBy' = lockedBy /\ nextSend' = nextSend /\ cooledUntil' = cooledUntil
  BY <1>0 DEF Ask, StepsMean
<1>3. /\ requests'[r].step = "waiting" /\ requests'[r].entered = 0 /\ requests'[r].sent = Never /\ ~requests'[r].refused
      /\ \A q \in Requests : q # r => requests'[q] = requests[q]
  BY <1>1, <1>2 DEF Becomes
<1>4. PaceTyped'
  BY <1>0, <1>1, <1>2 DEF PaceTyped, Becomes
<1>5. StepsMean(r)'
  BY <1>3, PathIs DEF StepsMean, Path
<1>6. \A b \in Budgets : ~Holds(r, b)'
  <2>1. Len(Path(r)) \in 1..2 /\ (r \in Supplemental => Len(Path(r)) = 2) /\ Path(r)' = Path(r)
    BY PathIs DEF Path
  <2> QED
    BY <1>3, <2>1 DEF Holds
<1>7. LocksHeld'
  BY <1>2, <1>3, <1>6, SameRecord DEF PaceInv, LocksHeld
<1>8. /\ requests[r].step \notin {"sent", "answered"} /\ nextSend'["provider"] = nextSend["provider"]
      /\ paceNow' = paceNow /\ cooledUntil' = cooledUntil
  BY <1>2
<1>9. ASSUME NEW q \in Requests, q # r, requests[q].refused, Holds(r, Path(q)[1])'
      PROVE  paceNow >= requests[q].ended + Cooldown
  BY <1>6, <1>9, FirstBudget
<1>10. PICK step : step = "waiting"
  OBVIOUS
<1>11. /\ step \notin {"sent", "answered", "turned away"}
       /\ Becomes(r, step, requests[r].entered, requests[r].sent, requests[r].ended, requests[r].refused)
  BY <1>1, <1>10
<1> QED
  BY <1>4, <1>5, <1>7, <1>8, <1>9, <1>11, QuietStep

LEMMA EnterKeeps ==
    ASSUME PaceInv, NEW r \in Requests, EnterBudget(r)
    PROVE  PaceInv'
<1>0. PaceTyped /\ StepsMean(r)
  BY DEF PaceInv
<1>1. Becomes(r, "pausing", requests[r].entered, requests[r].sent, requests[r].ended, requests[r].refused)
  BY <1>0, EnterMoves
<1>2. /\ requests[r].step = "waiting" /\ requests[r].entered < Len(Path(r)) /\ requests[r].sent = Never /\ ~requests[r].refused
      /\ paceNow' = paceNow /\ nextSend' = nextSend /\ cooledUntil' = cooledUntil
      /\ lockedBy[Wanted(r)] = {} /\ lockedBy' = [lockedBy EXCEPT ![Wanted(r)] = {r}]
      /\ paceNow >= cooledUntil[Wanted(r)]
  BY <1>0 DEF EnterBudget, StepsMean
<1>3. /\ requests'[r].step = "pausing" /\ requests'[r].entered = requests[r].entered
      /\ requests'[r].sent = Never /\ ~requests'[r].refused
      /\ \A q \in Requests : q # r => requests'[q] = requests[q]
  BY <1>1, <1>2 DEF Becomes
<1>4. /\ requests[r].entered \in 0..2 /\ Path(r)' = Path(r) /\ Len(Path(r)) \in 1..2
      /\ Wanted(r) \in Budgets
      /\ Wanted(r) = "provider" <=> requests[r].entered + 1 = Len(Path(r))
      /\ r \in Supplemental /\ Wanted(r) = "provider" => requests[r].entered = 1
  <2>1. requests[r].entered \in 0..2
    BY <1>0, RequestTyped
  <2>2. CASE r \in Supplemental
    <3>1. Len(Path(r)) = 2 /\ Path(r)[1] = "supplemental" /\ Path(r)[2] = "provider"
      BY <2>2, PathIs
    <3>2. requests[r].entered = 0 \/ requests[r].entered = 1
      BY <1>2, <2>1, <3>1
    <3> QED
      BY <2>1, <2>2, <3>1, <3>2 DEF Wanted, Budgets, Path
  <2>3. CASE r \notin Supplemental
    <3>1. Len(Path(r)) = 1 /\ Path(r)[1] = "provider"
      BY <2>3, PathIs
    <3>2. requests[r].entered = 0
      BY <1>2, <2>1, <3>1
    <3> QED
      BY <2>1, <2>3, <3>1, <3>2 DEF Wanted, Budgets, Path
  <2> QED
    BY <2>2, <2>3
<1>5. PaceTyped'
  BY <1>0, <1>1, <1>2, <1>4 DEF PaceTyped, Becomes
<1>6. StepsMean(r)'
  BY <1>2, <1>3, <1>4 DEF StepsMean
<1>7. \A b \in Budgets : Holds(r, b)' => b = Wanted(r) \/ Holds(r, b)
  <2> SUFFICES ASSUME NEW b \in Budgets, Holds(r, b)', b # Wanted(r) PROVE Holds(r, b)
    OBVIOUS
  <2>1. b # "provider"
    BY <1>3, <1>4 DEF Holds
  <2>2. r \in Supplemental /\ Wanted(r) = "provider"
    BY <1>4, <2>1 DEF Holds, Budgets
  <2> QED
    BY <1>2, <1>4, <2>1, <2>2 DEF Holds
<1>8. LocksHeld'
  <2> SUFFICES ASSUME NEW q \in Requests, NEW b \in Budgets, Holds(q, b)'
               PROVE  lockedBy'[b] = {q}
    BY DEF LocksHeld
  <2>1. CASE q # r
    <3>1. lockedBy[b] = {q}
      BY <1>2, <1>3, <2>1, SameRecord DEF PaceInv, LocksHeld
    <3> QED
      BY <1>0, <1>2, <3>1 DEF PaceTyped
  <2>2. CASE q = r /\ b = Wanted(r)
    BY <1>0, <1>2, <2>2 DEF PaceTyped
  <2>3. CASE q = r /\ b # Wanted(r)
    <3>1. lockedBy[b] = {q}
      BY <1>7, <2>3 DEF PaceInv, LocksHeld
    <3> QED
      BY <1>0, <1>2, <2>3, <3>1 DEF PaceTyped
  <2> QED
    BY <2>1, <2>2, <2>3
<1>9. ASSUME NEW q \in Requests, requests[q].refused, Holds(r, Path(q)[1])'
      PROVE  paceNow >= requests[q].ended + Cooldown
  <2>1. CASE Path(q)[1] = Wanted(r)
    <3>1. cooledUntil[Wanted(r)] >= requests[q].ended + Cooldown
      BY <1>9, <2>1 DEF PaceInv, CooldownKept
    <3>2. /\ cooledUntil[Wanted(r)] \in Int /\ requests[q].ended + Cooldown \in Int /\ paceNow \in Int
      BY <1>0, <1>4, RequestTyped, PaceConstants DEF PaceTyped
    <3> QED
      BY <1>2, <3>1, <3>2
  <2>2. CASE Path(q)[1] # Wanted(r)
    BY <1>7, <1>9, <2>2, FirstBudget DEF PaceInv, SilenceKept
  <2> QED
    BY <2>1, <2>2
<1> QED
  BY <1>1, <1>2, <1>5, <1>6, <1>8, <1>9, QuietStep

(* Who is not yet sent was not let into the provider's budget. *)
LEMMA NotYetAdmitted ==
    ASSUME PaceTyped, NEW r \in Requests, requests[r].entered < Len(Path(r))
    PROVE  "provider" \notin Entered(r)
<1>1. requests[r].entered \in 0..2
  BY RequestTyped
<1>2. CASE r \in Supplemental
  <2>1. \A i \in 1..requests[r].entered : i = 1
    <3>0. Len(Path(r)) = 2
      BY <1>2, PathIs
    <3>1. requests[r].entered = 0 \/ requests[r].entered = 1
      BY <1>1, <3>0
    <3> QED
      BY <3>1
  <2> QED
    BY <1>2, <2>1, PathIs DEF Entered
<1>3. CASE r \notin Supplemental
  <2>1. 1..requests[r].entered = {}
    BY <1>1, <1>3, PathIs
  <2> QED
    BY <2>1 DEF Entered
<1> QED
  BY <1>2, <1>3

LEMMA LeavesTyped ==
    ASSUME PaceTyped, NEW r \in Requests, NEW admitted, Leaves(r, admitted)
    PROVE  /\ nextSend' \in [Budgets -> Int] /\ lockedBy' \in [Budgets -> SUBSET Requests]
           /\ \A b \in Budgets : lockedBy'[b] = lockedBy[b] \ {r}
           /\ \A b \in Budgets : nextSend'[b] = IF b \in admitted THEN paceNow + IntervalOf[r] ELSE nextSend[b]
  BY PaceConstants DEF PaceTyped, Leaves

(* A request that leaves before it was sent. *)
LEMMA LeavingKeeps ==
    ASSUME PaceInv, NEW r \in Requests, NEW step \in {"turned away", "gave up"},
           Becomes(r, step, requests[r].entered, requests[r].sent, paceNow, requests[r].refused),
           requests[r].step \in {"waiting", "pausing"},
           Leaves(r, Entered(r)), paceNow' = paceNow, cooledUntil' = cooledUntil,
           step = "turned away" => \E q \in Requests : Applies(q, r) /\ paceNow < requests[q].ended + Cooldown
    PROVE  PaceInv'
<1>0. PaceTyped /\ StepsMean(r)
  BY DEF PaceInv
<1>1. requests[r].entered < Len(Path(r)) /\ requests[r].sent = Never /\ ~requests[r].refused
  BY <1>0 DEF StepsMean
<1>2. nextSend'["provider"] = nextSend["provider"]
  BY <1>0, <1>1, LeavesTyped, NotYetAdmitted DEF Budgets
<1>3. PaceTyped'
  BY <1>0, LeavesTyped DEF PaceTyped, Becomes
<1>4. /\ requests'[r].step = step /\ requests'[r].sent = Never /\ ~requests'[r].refused
      /\ \A q \in Requests : q # r => requests'[q] = requests[q]
  BY <1>1 DEF Becomes
<1>5. StepsMean(r)'
  BY <1>4 DEF StepsMean
<1>6. \A b \in Budgets : ~Holds(r, b)'
  BY <1>4 DEF Holds
<1>7. LocksHeld'
  <2> SUFFICES ASSUME NEW q \in Requests, NEW b \in Budgets, Holds(q, b)'
               PROVE  lockedBy'[b] = {q}
    BY DEF LocksHeld
  <2>1. q # r
    BY <1>6
  <2>2. lockedBy[b] = {q}
    BY <1>4, <2>1, SameRecord DEF PaceInv, LocksHeld
  <2>3. lockedBy'[b] = lockedBy[b] \ {r}
    BY <1>0, LeavesTyped
  <2> QED
    BY <2>1, <2>2, <2>3
<1>8. \A q \in Requests : Applies(q, r) => q # r
  BY <1>1 DEF Applies
<1> QED
  BY <1>2, <1>3, <1>5, <1>6, <1>7, <1>8, QuietStep, FirstBudget

LEMMA TurnKeeps ==
    ASSUME PaceInv, NEW r \in Requests, TurnAway(r)
    PROVE  PaceInv'
<1>0. PaceTyped /\ StepsMean(r)
  BY DEF PaceInv
<1>1. Becomes(r, "turned away", requests[r].entered, requests[r].sent, paceNow, requests[r].refused)
  BY <1>0, TurnMoves
<1>2. /\ requests[r].step = "waiting" /\ requests[r].entered < Len(Path(r)) /\ paceNow < cooledUntil[Wanted(r)]
      /\ Leaves(r, Entered(r)) /\ paceNow' = paceNow /\ cooledUntil' = cooledUntil
  BY <1>0 DEF TurnAway, StepsMean
<1>3. requests[r].entered \in 0..2
  BY <1>0, RequestTyped
<1>4. Wanted(r) \in Budgets /\ (Wanted(r) = "supplemental" => r \in Supplemental)
  <2>1. CASE r \in Supplemental
    <3>1. requests[r].entered + 1 \in {1, 2}
      BY <1>2, <1>3, <2>1, PathIs
    <3> QED
      BY <2>1, <3>1, PathIs DEF Wanted, Budgets
  <2>2. CASE r \notin Supplemental
    <3>0. Len(Path(r)) = 1
      BY <2>2, PathIs
    <3>1. requests[r].entered = 0
      BY <1>2, <1>3, <3>0
    <3> QED
      BY <2>2, <3>1, PathIs DEF Wanted, Budgets
  <2> QED
    BY <2>1, <2>2
<1>5. PICK q \in Requests : requests[q].refused /\ Path(q)[1] = Wanted(r) /\ cooledUntil[Wanted(r)] = requests[q].ended + Cooldown
  <2>1. cooledUntil[Wanted(r)] > 0
    BY <1>0, <1>2, <1>4 DEF PaceTyped
  <2> QED
    BY <1>4, <2>1 DEF PaceInv, CooldownKept
<1>6. Applies(q, r) /\ paceNow < requests[q].ended + Cooldown
  BY <1>2, <1>4, <1>5, FirstBudget DEF Applies
<1> QED
  BY <1>1, <1>2, <1>6, LeavingKeeps

LEMMA GiveKeeps ==
    ASSUME PaceInv, NEW r \in Requests, GiveUp(r)
    PROVE  PaceInv'
<1>1. Becomes(r, "gave up", requests[r].entered, requests[r].sent, paceNow, requests[r].refused)
  BY GiveMoves DEF PaceInv
<1>2. requests[r].step \in {"waiting", "pausing"} /\ Leaves(r, Entered(r)) /\ paceNow' = paceNow /\ cooledUntil' = cooledUntil
  BY DEF GiveUp
<1> QED
  BY <1>1, <1>2, LeavingKeeps

(* Two requests are not in one budget. *)
LEMMA OneInside ==
    ASSUME PaceInv, NEW q \in Requests, NEW r \in Requests, NEW b \in Budgets, Holds(q, b), Holds(r, b)
    PROVE  q = r
  BY DEF PaceInv, LocksHeld

LEMMA PausingIs ==
    ASSUME PaceInv, NEW r \in Requests, requests[r].step = "pausing"
    PROVE  /\ requests[r].entered \in 0..1 /\ requests[r].entered < Len(Path(r)) /\ Len(Path(r)) \in 1..2
           /\ Wanted(r) = "provider" <=> requests[r].entered + 1 = Len(Path(r))
           /\ requests[r].entered + 1 # Len(Path(r)) => r \in Supplemental /\ requests[r].entered = 0 /\ Len(Path(r)) = 2
<1>1. requests[r].entered \in 0..2 /\ requests[r].entered < Len(Path(r))
  BY RequestTyped DEF PaceInv, StepsMean
<1>2. CASE r \in Supplemental
  <2>1. Len(Path(r)) = 2 /\ Path(r)[1] = "supplemental" /\ Path(r)[2] = "provider"
    BY <1>2, PathIs
  <2>2. requests[r].entered = 0 \/ requests[r].entered = 1
    BY <1>1, <2>1
  <2> QED
    BY <1>2, <2>1, <2>2 DEF Wanted
<1>3. CASE r \notin Supplemental
  <2>1. Len(Path(r)) = 1 /\ Path(r)[1] = "provider"
    BY <1>3, PathIs
  <2>2. requests[r].entered = 0
    BY <1>1, <2>1
  <2> QED
    BY <1>3, <2>1, <2>2 DEF Wanted
<1> QED
  BY <1>2, <1>3

(* An inference client's request goes on from its own budget. *)
LEMMA AdmitHalfway ==
    ASSUME PaceInv, NEW r \in Requests, Admit(r), requests[r].entered + 1 # Len(Path(r))
    PROVE  PaceInv'
<1>0. PaceTyped /\ StepsMean(r) /\ requests[r].step = "pausing"
  BY DEF PaceInv, Admit
<1>1. r \in Supplemental /\ requests[r].entered = 0 /\ Len(Path(r)) = 2 /\ Path(r)' = Path(r)
  BY <1>0, PausingIs DEF Path
<1>2. requests[r].sent = Never /\ ~requests[r].refused
  BY <1>0 DEF StepsMean
<1>3. PICK step : step = "waiting"
  OBVIOUS
<1>4. step \notin {"sent", "answered", "turned away"}
  BY <1>3
<1>5. Becomes(r, step, requests[r].entered + 1, requests[r].sent, requests[r].ended, requests[r].refused)
  <2>1. Becomes(r, "waiting", requests[r].entered + 1, Never, requests[r].ended, requests[r].refused)
    BY <1>0, AdmitMoves
  <2> QED
    BY <1>2, <1>3, <2>1
<1>6. /\ requests'[r].step = step /\ requests'[r].entered = 1 /\ requests'[r].sent = Never /\ ~requests'[r].refused
      /\ \A q \in Requests : q # r => requests'[q] = requests[q]
      /\ requests' \in [Requests -> RequestRecords]
  BY <1>1, <1>2, <1>5 DEF Becomes
<1>7. paceNow' = paceNow /\ lockedBy' = lockedBy /\ nextSend' = nextSend /\ cooledUntil' = cooledUntil
  BY DEF Admit
<1>8. PaceTyped'
  BY <1>0, <1>6, <1>7 DEF PaceTyped
<1>9. StepsMean(r)'
  BY <1>1, <1>3, <1>6 DEF StepsMean
<1>10. \A b \in Budgets : Holds(r, b)' => Holds(r, b)
  BY <1>0, <1>3, <1>6 DEF Holds
<1>11. LocksHeld'
  BY <1>6, <1>7, <1>10, SameRecord DEF PaceInv, LocksHeld
<1>12. ASSUME NEW q \in Requests, q # r, requests[q].refused, Holds(r, Path(q)[1])'
       PROVE  paceNow >= requests[q].ended + Cooldown
  BY <1>10, <1>12, FirstBudget DEF PaceInv, SilenceKept
<1>13. requests[r].step \notin {"sent", "answered"} /\ nextSend'["provider"] = nextSend["provider"]
  BY <1>0, <1>7
<1> QED
  BY <1>4, <1>5, <1>7, <1>8, <1>9, <1>11, <1>12, <1>13, QuietStep

(* A request is sent: after every interval and every silence. *)
LEMMA AdmitSends ==
    ASSUME PaceInv, NEW r \in Requests, Admit(r), requests[r].entered + 1 = Len(Path(r))
    PROVE  PaceInv'
<1>0. PaceTyped /\ StepsMean(r) /\ requests[r].step = "pausing" /\ Path(r)' = Path(r)
  BY DEF PaceInv, Admit, Path
<1>1. /\ requests[r].sent = Never /\ ~requests[r].refused /\ ~Sent(r) /\ ~WasAnswered(r)
      /\ paceNow >= nextSend["provider"] /\ requests[r].entered \in 0..1 /\ Len(Path(r)) \in 1..2
  BY <1>0, PausingIs DEF StepsMean, Admit, Paused, Sent, WasAnswered
<1>2. Becomes(r, "sent", requests[r].entered + 1, paceNow, requests[r].ended, requests[r].refused)
  BY <1>0, AdmitMoves
<1>3. /\ requests'[r].step = "sent" /\ requests'[r].entered = Len(Path(r)) /\ requests'[r].sent = paceNow
      /\ ~requests'[r].refused /\ ~WasAnswered(r)'
      /\ \A q \in Requests : q # r => requests'[q] = requests[q]
      /\ requests' \in [Requests -> RequestRecords]
  BY <1>1, <1>2 DEF Becomes, WasAnswered
<1>4. /\ paceNow' = paceNow /\ lockedBy' = lockedBy /\ nextSend' = nextSend /\ cooledUntil' = cooledUntil
      /\ paceNow \in Nat
  BY <1>0 DEF Admit, PaceTyped
<1>5. PaceTyped'
  BY <1>0, <1>3, <1>4 DEF PaceTyped
<1>6. ASSUME NEW q \in Requests PROVE StepsMean(q)'
  <2>1. CASE q = r
    <3>1. paceNow \in 0..paceNow
      BY <1>4
    <3> QED
      BY <1>0, <1>3, <1>4, <2>1, <3>1 DEF StepsMean
  <2>2. CASE q # r
    BY <1>3, <1>4, <2>2, SameRecord DEF PaceInv
  <2> QED
    BY <2>1, <2>2
<1>7. \A s \in Requests, b \in Budgets : Holds(s, b)' => Holds(s, b)
  <2> SUFFICES ASSUME NEW s \in Requests, NEW b \in Budgets, Holds(s, b)' PROVE Holds(s, b)
    OBVIOUS
  <2>1. CASE s = r
    BY <1>0, <2>1 DEF Holds
  <2>2. CASE s # r
    BY <1>3, <1>4, <2>2, SameRecord
  <2> QED
    BY <2>1, <2>2
<1>8. Holds(r, "provider")
  BY <1>0 DEF Holds
<1>9. \A q \in Requests : q # r /\ Sent(q) => WasAnswered(q)
  <2> SUFFICES ASSUME NEW q \in Requests, q # r, Sent(q), ~WasAnswered(q) PROVE FALSE
    OBVIOUS
  <2>1. requests[q].step = "sent"
    BY DEF PaceInv, StepsMean, Sent, WasAnswered
  <2>2. Holds(q, "provider")
    BY <2>1 DEF Holds
  <2> QED
    BY <1>8, <2>2, OneInside DEF Budgets
<1>10. LocksHeld'
  BY <1>4, <1>7 DEF PaceInv, LocksHeld
<1>11. SpacingKept'
  BY <1>1, <1>3, <1>4 DEF PaceInv, SpacingKept, WasAnswered
<1>12. ASSUME NEW q \in Requests, q # r, Sent(q)
       PROVE  WasAnswered(q)' /\ requests'[r].sent >= requests'[q].ended + IntervalOf[q]
  <2>1. WasAnswered(q) /\ WasAnswered(q)' /\ requests'[q] = requests[q]
    BY <1>3, <1>9, <1>12 DEF WasAnswered
  <2>2. nextSend["provider"] >= requests[q].ended + IntervalOf[q]
    BY <2>1 DEF PaceInv, SpacingKept
  <2>3. nextSend["provider"] \in Int /\ requests[q].ended + IntervalOf[q] \in Int
    BY <1>0, RequestTyped, PaceConstants DEF PaceTyped, Budgets
  <2> QED
    BY <1>1, <1>3, <1>4, <2>1, <2>2, <2>3
<1>13. FollowEachOther'
  <2> SUFFICES ASSUME NEW q \in Requests, NEW s \in Requests, Sent(q)', Sent(s)', q # s
               PROVE  \/ WasAnswered(q)' /\ requests'[s].sent >= requests'[q].ended + IntervalOf[q]
                      \/ WasAnswered(s)' /\ requests'[q].sent >= requests'[s].ended + IntervalOf[s]
    BY DEF FollowEachOther
  <2>1. CASE q = r
    <3>1. Sent(s)
      BY <1>3, <2>1 DEF Sent
    <3> QED
      BY <1>12, <2>1, <3>1
  <2>2. CASE s = r
    <3>1. Sent(q)
      BY <1>3, <2>2 DEF Sent
    <3> QED
      BY <1>12, <2>2, <3>1
  <2>3. CASE q # r /\ s # r
    BY <1>3, <2>3 DEF PaceInv, FollowEachOther, Sent, WasAnswered
  <2> QED
    BY <2>1, <2>2, <2>3
<1>14. CooldownKept'
  <2>1. \A q \in Requests : requests'[q].refused =>
            requests[q].refused /\ requests'[q].ended = requests[q].ended /\ Path(q)' = Path(q)
    BY <1>1, <1>3 DEF Path
  <2>2. \A q \in Requests : requests[q].refused =>
            requests'[q].refused /\ requests'[q].ended = requests[q].ended /\ Path(q)' = Path(q)
    BY <1>1, <1>3 DEF Path
  <2>3. \A q \in Requests : requests'[q].refused => cooledUntil'[Path(q)'[1]] >= requests'[q].ended + Cooldown
    BY <1>4, <2>1 DEF PaceInv, CooldownKept
  <2>4. ASSUME NEW b \in Budgets, cooledUntil'[b] > 0
        PROVE  \E q \in Requests :
                  requests'[q].refused /\ Path(q)'[1] = b /\ cooledUntil'[b] = requests'[q].ended + Cooldown
    <3>1. PICK q \in Requests : requests[q].refused /\ Path(q)[1] = b /\ cooledUntil[b] = requests[q].ended + Cooldown
      BY <1>4, <2>4 DEF PaceInv, CooldownKept
    <3> QED
      BY <1>4, <2>2, <3>1
  <2> QED
    BY <2>3, <2>4 DEF CooldownKept
<1>15. SilenceKept'
  <2> SUFFICES ASSUME NEW q \in Requests, NEW s \in Requests, requests'[q].refused, Holds(s, Path(q)[1])'
               PROVE  paceNow >= requests'[q].ended + Cooldown
    BY <1>4 DEF SilenceKept, Path
  <2>1. requests[q].refused /\ requests'[q].ended = requests[q].ended
    BY <1>1, <1>3
  <2> QED
    BY <1>7, <2>1, FirstBudget DEF PaceInv, SilenceKept
<1>16. SilenceSeen'
  <2> SUFFICES ASSUME NEW q \in Requests, NEW s \in Requests, Applies(q, s)', Sent(s)', requests'[s].sent > requests'[q].ended
               PROVE  requests'[s].sent >= requests'[q].ended + Cooldown
    BY DEF SilenceSeen
  <2>1. requests'[q] = requests[q] /\ Applies(q, s) /\ requests[q].refused
    BY <1>3 DEF Applies
  <2>2. CASE s = r
    <3>1. Holds(r, Path(q)[1])
      <4>1. CASE q \in Supplemental
        BY <1>0, <2>1, <2>2, <4>1, FirstBudget DEF Applies, Holds
      <4>2. CASE q \notin Supplemental
        BY <1>8, <4>2, PathIs
      <4> QED
        BY <4>1, <4>2
    <3> QED
      BY <1>3, <2>1, <2>2, <3>1 DEF PaceInv, SilenceKept
  <2>3. CASE s # r
    BY <1>3, <2>1, <2>3 DEF PaceInv, SilenceSeen, Sent
  <2> QED
    BY <2>2, <2>3
<1>17. TurnedAwayRightly'
  <2> SUFFICES ASSUME NEW s \in Requests, requests'[s].step = "turned away"
               PROVE  \E q \in Requests : Applies(q, s)' /\ requests'[s].ended < requests'[q].ended + Cooldown
    BY DEF TurnedAwayRightly
  <2>1. requests'[s] = requests[s]
    BY <1>3
  <2>2. PICK q \in Requests : Applies(q, s) /\ requests[s].ended < requests[q].ended + Cooldown
    BY <2>1 DEF PaceInv, TurnedAwayRightly
  <2>3. requests'[q] = requests[q]
    BY <1>1, <1>3, <2>2 DEF Applies
  <2> QED
    BY <2>1, <2>2, <2>3 DEF Applies
<1> QED
  BY <1>5, <1>6, <1>10, <1>11, <1>13, <1>14, <1>15, <1>16, <1>17 DEF PaceInv

(* An answer spaces what follows, and a refusal silences it. *)
LEMMA AnswerKeeps ==
    ASSUME PaceInv, NEW r \in Requests, NEW denied \in BOOLEAN, Answer(r, denied)
    PROVE  PaceInv'
<1>0. /\ PaceTyped /\ StepsMean(r) /\ requests[r].step = "sent" /\ Path(r)' = Path(r)
      /\ Leaves(r, Entered(r)) /\ paceNow' = paceNow /\ paceNow \in Nat
  BY DEF PaceInv, PaceTyped, Answer, Path
<1>1. /\ requests[r].entered = Len(Path(r)) /\ requests[r].sent \in 0..paceNow /\ ~requests[r].refused
      /\ Sent(r) /\ ~WasAnswered(r)
  <2>1. /\ requests[r].entered = Len(Path(r)) /\ requests[r].sent \in 0..paceNow /\ ~requests[r].refused
        /\ ~WasAnswered(r)
    BY <1>0 DEF StepsMean, WasAnswered
  <2> QED
    BY <1>0, <2>1 DEF Sent, Never
<1>2. Becomes(r, "answered", requests[r].entered, requests[r].sent, paceNow, denied)
  BY <1>0, AnswerMoves
<1>3. /\ requests'[r].step = "answered" /\ requests'[r].entered = Len(Path(r)) /\ requests'[r].sent = requests[r].sent
      /\ requests'[r].ended = paceNow /\ requests'[r].refused = denied
      /\ \A q \in Requests : q # r => requests'[q] = requests[q]
      /\ requests' \in [Requests -> RequestRecords]
  BY <1>1, <1>2 DEF Becomes
<1>4. \A q \in Requests : requests'[q].sent = requests[q].sent /\ (Sent(q)' <=> Sent(q))
  BY <1>3 DEF Sent
<1>5. \A q \in Requests : requests[q].refused => q # r /\ requests'[q] = requests[q]
  BY <1>1, <1>3
<1>6. /\ nextSend' \in [Budgets -> Int] /\ lockedBy' \in [Budgets -> SUBSET Requests]
      /\ \A b \in Budgets : lockedBy'[b] = lockedBy[b] \ {r}
      /\ nextSend'["provider"] = paceNow + IntervalOf[r]
  <2>1. "provider" \in Entered(r) /\ "provider" \in Budgets
    <3>1. Path(r)[Len(Path(r))] = "provider" /\ Len(Path(r)) \in 1..Len(Path(r))
      BY PathIs
    <3> QED
      BY <1>1, <3>1 DEF Entered, Budgets
  <2> QED
    BY <1>0, <2>1, LeavesTyped
<1>7. Path(r)[1] \in Budgets /\ Cooldown \in Nat /\ paceNow + Cooldown \in Nat
  BY <1>0, FirstBudget, PaceConstants
<1>8. /\ cooledUntil' \in [Budgets -> Int]
      /\ \A b \in Budgets : cooledUntil'[b] >= cooledUntil[b]
      /\ denied => cooledUntil'[Path(r)[1]] >= paceNow + Cooldown
      /\ \A b \in Budgets : cooledUntil'[b] = cooledUntil[b]
                            \/ (denied /\ b = Path(r)[1] /\ cooledUntil'[b] = paceNow + Cooldown)
  <2>0. cooledUntil \in [Budgets -> Int] /\ \A b \in Budgets : cooledUntil[b] \in Int
    BY <1>0 DEF PaceTyped
  <2>1. CASE ~denied
    <3>1. cooledUntil' = cooledUntil
      BY <2>1 DEF Answer
    <3>2. ASSUME NEW b \in Budgets PROVE cooledUntil'[b] >= cooledUntil[b]
      <4>1. cooledUntil'[b] = cooledUntil[b] /\ cooledUntil[b] \in Int
        BY <2>0, <3>1
      <4> QED
        BY <4>1
    <3> QED
      BY <2>0, <2>1, <3>1, <3>2
  <2>2. CASE denied
    <3>1. cooledUntil' = [cooledUntil EXCEPT ![Path(r)[1]] =
              IF cooledUntil[Path(r)[1]] > paceNow + Cooldown THEN cooledUntil[Path(r)[1]] ELSE paceNow + Cooldown]
      BY <2>2 DEF Answer
    <3>2. PICK until : until = IF cooledUntil[Path(r)[1]] > paceNow + Cooldown THEN cooledUntil[Path(r)[1]]
                               ELSE paceNow + Cooldown
      OBVIOUS
    <3>3. /\ until \in Int /\ until >= cooledUntil[Path(r)[1]] /\ until >= paceNow + Cooldown
          /\ until = cooledUntil[Path(r)[1]] \/ until = paceNow + Cooldown
      BY <1>7, <2>0, <3>2
    <3>4. cooledUntil' = [cooledUntil EXCEPT ![Path(r)[1]] = until]
      BY <3>1, <3>2
    <3>5. /\ cooledUntil' \in [Budgets -> Int] /\ cooledUntil'[Path(r)[1]] = until
          /\ \A b \in Budgets : b # Path(r)[1] => cooledUntil'[b] = cooledUntil[b]
      BY <1>7, <2>0, <3>3, <3>4
    <3>6. ASSUME NEW b \in Budgets PROVE cooledUntil'[b] >= cooledUntil[b]
      <4>1. cooledUntil[b] \in Int
        BY <2>0
      <4>2. CASE b = Path(r)[1]
        BY <3>3, <3>5, <4>2
      <4>3. CASE b # Path(r)[1]
        <5>1. cooledUntil'[b] = cooledUntil[b]
          BY <3>5, <4>3
        <5> QED
          BY <4>1, <5>1
      <4> QED
        BY <4>2, <4>3
    <3>7. \A b \in Budgets : cooledUntil'[b] = cooledUntil[b] \/ (b = Path(r)[1] /\ cooledUntil'[b] = paceNow + Cooldown)
      BY <3>3, <3>5
    <3>8. cooledUntil'[Path(r)[1]] >= paceNow + Cooldown
      BY <3>3, <3>5
    <3> QED
      BY <2>2, <3>5, <3>6, <3>7, <3>8
  <2> QED
    BY <2>1, <2>2
<1>9. PaceTyped'
  BY <1>0, <1>3, <1>6, <1>8 DEF PaceTyped
<1>10. ASSUME NEW q \in Requests PROVE StepsMean(q)'
  <2>1. CASE q = r
    <3>1. paceNow \in requests[r].sent..paceNow
      BY <1>0, <1>1
    <3> QED
      BY <1>0, <1>1, <1>3, <2>1, <3>1 DEF StepsMean
  <2>2. CASE q # r
    BY <1>0, <1>3, <2>2, SameRecord DEF PaceInv
  <2> QED
    BY <2>1, <2>2
<1>11. \A s \in Requests, b \in Budgets : Holds(s, b)' => s # r /\ Holds(s, b)
  <2>1. \A b \in Budgets : ~Holds(r, b)'
    BY <1>3 DEF Holds
  <2>2. \A s \in Requests, b \in Budgets : s # r => (Holds(s, b)' <=> Holds(s, b))
    BY <1>0, <1>3, SameRecord
  <2> QED
    BY <2>1, <2>2
<1>12. \A b \in Budgets : b = "provider" \/ b = Path(r)[1] => Holds(r, b)
  BY <1>0, FirstBudget DEF Holds, Budgets
<1>13. LocksHeld'
  <2> SUFFICES ASSUME NEW q \in Requests, NEW b \in Budgets, Holds(q, b)'
               PROVE  lockedBy'[b] = {q}
    BY DEF LocksHeld
  <2>1. q # r /\ lockedBy[b] = {q}
    BY <1>11 DEF PaceInv, LocksHeld
  <2> QED
    BY <1>6, <2>1
<1>14. SpacingKept'
  <2>0. nextSend["provider"] \in Int /\ nextSend["provider"] <= paceNow /\ IntervalOf[r] \in Nat
    BY <1>0, PaceConstants DEF PaceInv, PaceTyped, Budgets, SpacingKept
  <2>1. ASSUME NEW q \in Requests, WasAnswered(q)'
        PROVE  nextSend'["provider"] >= requests'[q].ended + IntervalOf[q]
    <3>1. CASE q = r
      BY <1>0, <1>3, <1>6, <2>0, <3>1
    <3>2. CASE q # r
      <4>1. requests'[q] = requests[q] /\ WasAnswered(q)
        BY <1>3, <2>1, <3>2 DEF WasAnswered
      <4>2. nextSend["provider"] >= requests[q].ended + IntervalOf[q]
        BY <4>1 DEF PaceInv, SpacingKept
      <4>3. requests[q].ended + IntervalOf[q] \in Int
        BY <1>0, RequestTyped, PaceConstants
      <4> QED
        BY <1>0, <1>6, <2>0, <4>1, <4>2, <4>3
    <3> QED
      BY <3>1, <3>2
  <2>2. ASSUME NEW s \in Requests PROVE requests'[s].step # "sent"
    <3> SUFFICES ASSUME requests'[s].step = "sent" PROVE FALSE
      OBVIOUS
    <3>1. Holds(s, "provider")'
      BY DEF Holds
    <3>2. s # r /\ Holds(s, "provider") /\ Holds(r, "provider")
      BY <1>11, <1>12, <3>1 DEF Budgets
    <3> QED
      BY <3>2, OneInside DEF Budgets
  <2> QED
    BY <2>1, <2>2 DEF SpacingKept
<1>15. FollowEachOther'
  <2> SUFFICES ASSUME NEW q \in Requests, NEW s \in Requests, Sent(q)', Sent(s)', q # s
               PROVE  \/ WasAnswered(q)' /\ requests'[s].sent >= requests'[q].ended + IntervalOf[q]
                      \/ WasAnswered(s)' /\ requests'[q].sent >= requests'[s].ended + IntervalOf[s]
    BY DEF FollowEachOther
  <2>1. \/ WasAnswered(q) /\ requests[s].sent >= requests[q].ended + IntervalOf[q]
        \/ WasAnswered(s) /\ requests[q].sent >= requests[s].ended + IntervalOf[s]
    BY <1>4 DEF PaceInv, FollowEachOther
  <2>2. \A p \in Requests : WasAnswered(p) => WasAnswered(p)' /\ requests'[p].ended = requests[p].ended
    BY <1>1, <1>3 DEF WasAnswered
  <2> QED
    BY <1>4, <2>1, <2>2
<1>16. CooldownKept'
  <2>1. ASSUME NEW q \in Requests, requests'[q].refused
        PROVE  cooledUntil'[Path(q)[1]] >= requests'[q].ended + Cooldown
    <3>1. CASE q = r
      BY <1>3, <1>8, <2>1, <3>1
    <3>2. CASE q # r
      <4>1. requests'[q] = requests[q] /\ requests[q].refused
        BY <1>3, <2>1, <3>2
      <4>2. cooledUntil[Path(q)[1]] >= requests[q].ended + Cooldown
        BY <4>1 DEF PaceInv, CooldownKept
      <4>3. /\ requests[q].ended + Cooldown \in Int /\ cooledUntil[Path(q)[1]] \in Int /\ cooledUntil'[Path(q)[1]] \in Int
            /\ cooledUntil'[Path(q)[1]] >= cooledUntil[Path(q)[1]]
        BY <1>0, <1>8, RequestTyped, PaceConstants, FirstBudget DEF PaceTyped
      <4> QED
        BY <4>1, <4>2, <4>3
    <3> QED
      BY <3>1, <3>2
  <2>2. ASSUME NEW b \in Budgets, cooledUntil'[b] > 0
        PROVE  \E q \in Requests :
                  requests'[q].refused /\ Path(q)[1] = b /\ cooledUntil'[b] = requests'[q].ended + Cooldown
    <3>1. CASE denied /\ b = Path(r)[1] /\ cooledUntil'[b] = paceNow + Cooldown
      BY <1>3, <3>1
    <3>2. CASE cooledUntil'[b] = cooledUntil[b]
      <4>1. PICK q \in Requests : requests[q].refused /\ Path(q)[1] = b /\ cooledUntil[b] = requests[q].ended + Cooldown
        BY <2>2, <3>2 DEF PaceInv, CooldownKept
      <4> QED
        BY <1>5, <3>2, <4>1
    <3> QED
      BY <1>8, <3>1, <3>2
  <2> QED
    BY <2>1, <2>2 DEF CooldownKept, Path
<1>17. SilenceKept'
  <2> SUFFICES ASSUME NEW q \in Requests, NEW s \in Requests, requests'[q].refused, Holds(s, Path(q)[1])'
               PROVE  paceNow >= requests'[q].ended + Cooldown
    BY <1>0 DEF SilenceKept, Path
  <2>1. s # r /\ Holds(s, Path(q)[1])
    BY <1>11, FirstBudget
  <2>2. q # r
    BY <1>7, <1>12, <2>1, OneInside
  <2>3. requests'[q] = requests[q] /\ requests[q].refused
    BY <1>3, <2>2
  <2> QED
    BY <2>1, <2>3 DEF PaceInv, SilenceKept
<1>18. SilenceSeen'
  <2> SUFFICES ASSUME NEW q \in Requests, NEW s \in Requests, Applies(q, s)', Sent(s)', requests'[s].sent > requests'[q].ended
               PROVE  requests'[s].sent >= requests'[q].ended + Cooldown
    BY DEF SilenceSeen
  <2>1. requests[s].sent \in 0..paceNow
    <3>1. Sent(s) /\ StepsMean(s)
      BY <1>4 DEF PaceInv
    <3> QED
      BY <3>1 DEF Sent, StepsMean
  <2>2. q # r
    BY <1>0, <1>3, <1>4, <2>1
  <2>3. requests'[q] = requests[q] /\ Applies(q, s)
    BY <1>3, <2>2 DEF Applies
  <2> QED
    BY <1>4, <2>3 DEF PaceInv, SilenceSeen
<1>19. TurnedAwayRightly'
  <2> SUFFICES ASSUME NEW s \in Requests, requests'[s].step = "turned away"
               PROVE  \E q \in Requests : Applies(q, s)' /\ requests'[s].ended < requests'[q].ended + Cooldown
    BY DEF TurnedAwayRightly
  <2>1. requests'[s] = requests[s]
    BY <1>3
  <2>2. PICK q \in Requests : Applies(q, s) /\ requests[s].ended < requests[q].ended + Cooldown
    BY <2>1 DEF PaceInv, TurnedAwayRightly
  <2>3. requests'[q] = requests[q]
    BY <1>5, <2>2 DEF Applies
  <2> QED
    BY <2>1, <2>2, <2>3 DEF Applies
<1> QED
  BY <1>9, <1>10, <1>13, <1>14, <1>15, <1>16, <1>17, <1>18, <1>19 DEF PaceInv

LEMMA PaceInvStep ==
    ASSUME PaceInv, [PaceNext]_paceVars
    PROVE  PaceInv'
<1>1. CASE UNCHANGED paceVars
  <2>1. PaceTyped' /\ \A r \in Requests : StepsMean(r)'
    BY <1>1, SameRecord DEF paceVars, PaceInv, PaceTyped
  <2>2. \A r \in Requests, b \in Budgets : Holds(r, b)' <=> Holds(r, b)
    BY <1>1, SameRecord DEF paceVars
  <2>3. LocksHeld' /\ SpacingKept'
    BY <1>1, <2>2 DEF paceVars, PaceInv, LocksHeld, SpacingKept, WasAnswered
  <2>4. FollowEachOther'
    BY <1>1 DEF paceVars, PaceInv, FollowEachOther, Sent, WasAnswered
  <2>5. CooldownKept'
    BY <1>1 DEF paceVars, PaceInv, CooldownKept, Path
  <2>6. SilenceKept'
    BY <1>1, <2>2, FirstBudget DEF paceVars, PaceInv, SilenceKept, Path
  <2>7. SilenceSeen' /\ TurnedAwayRightly'
    BY <1>1 DEF paceVars, PaceInv, SilenceSeen, TurnedAwayRightly, Sent, Applies
  <2> QED
    BY <2>1, <2>3, <2>4, <2>5, <2>6, <2>7 DEF PaceInv
<1>2. CASE PaceTick
  BY <1>2, TickKeeps
<1>3. ASSUME NEW r \in Requests, Ask(r) \/ Proceed(r)
      PROVE  PaceInv'
  <2>1. CASE Admit(r)
    BY <2>1, AdmitHalfway, AdmitSends
  <2> QED
    BY <1>3, <2>1, AskKeeps, EnterKeeps, TurnKeeps, GiveKeeps, AnswerKeeps DEF Proceed
<1> QED
  BY <1>1, <1>2, <1>3 DEF PaceNext

LEMMA PaceInvMeans == PaceInv => PacedApart
  BY DEF PaceInv, PacedApart, FollowEachOther, SilenceSeen, TurnedAwayRightly

(***************************************************************************)
(* The owner's gate and the registration of clients.                       *)
(***************************************************************************)
GateTyped ==
    /\ gateNow \in Nat /\ failures \in Nat /\ lockedUntil \in Nat /\ guess \in Nat \cup {-1}
    /\ wrongAt \in Seq(Nat)
    /\ triedAt \in Seq(Nat) /\ tries \subseteq 1..Len(triedAt)
    /\ clients \in Nat /\ cap \in Caps
    /\ advice \in [{"gate", "registry"} -> [due : Nat, after : Int]]

(* Phrases are taken up one after the other. *)
GuessesInOrder ==
    /\ guess <= gateNow
    /\ \A i \in 1..Len(wrongAt) :
          /\ wrongAt[i] <= gateNow
          /\ guess >= 0 => wrongAt[i] <= guess
          /\ \A j \in i..Len(wrongAt) : wrongAt[i] <= wrongAt[j]

(* The wrong phrases that no longer count were followed by a lockout. *)
LockoutPassed ==
    LET last == Len(wrongAt) - failures
    IN  last > 0 =>
            /\ \A j \in 1..Len(wrongAt) : j > last => wrongAt[j] >= wrongAt[last] + Lockout
            /\ guess >= 0 => guess >= wrongAt[last] + Lockout
            /\ lockedUntil = 0 => gateNow >= wrongAt[last] + Lockout

GateCounts ==
    /\ failures <= Len(wrongAt)
    /\ lockedUntil = 0 => failures < MaxFailures
    /\ lockedUntil > 0 =>
          guess = -1 /\ failures = MaxFailures /\ lockedUntil = wrongAt[Len(wrongAt)] + Lockout
    /\ advice["gate"].after <= Len(wrongAt)
    /\ advice["gate"].after = Len(wrongAt) => lockedUntil <= advice["gate"].due

PassphraseInv ==
    GuessesInOrder /\ LockoutPassed /\ GateCounts /\ Spread(wrongAt, MaxFailures, Lockout)

(* The rows of the last window are there, no more than may be, and who was  *)
(* told to wait was told so of one of them.                                 *)
RegistryInv ==
    /\ \A i \in 1..Len(triedAt) :
          /\ triedAt[i] <= gateNow
          /\ \A j \in i..Len(triedAt) : triedAt[i] <= triedAt[j]
          /\ ~Past(triedAt[i]) => i \in tries
    /\ Cardinality(tries) <= MaxTries
    /\ Spread(triedAt, MaxTries, TryWindow)
    /\ \E most \in Caps : clients <= most
    /\ advice["registry"].after <= Len(triedAt)
    /\ advice["registry"].after = Len(triedAt) =>
          \E row \in tries : triedAt[row] + TryWindow <= advice["registry"].due

GateInv == GateTyped /\ PassphraseInv /\ RegistryInv

LEMMA GateBegin == GateInit => GateInv
<1> SUFFICES ASSUME GateInit PROVE GateInv
  OBVIOUS
<1> USE GateAssumption
<1>1. wrongAt = <<>> /\ triedAt = <<>> /\ tries = {} /\ Len(wrongAt) = 0 /\ Len(triedAt) = 0
  BY DEF GateInit
<1>2. GateTyped
  BY <1>1 DEF GateInit, GateTyped, NoAdvice
<1>3. MaxFailures \in Nat /\ MaxFailures > 0 /\ MaxTries \in Nat
  OBVIOUS
<1>4. PassphraseInv
  BY <1>1, <1>3 DEF GateInit, PassphraseInv, GuessesInOrder, LockoutPassed, GateCounts, Spread, NoAdvice
<1>5. Cardinality(tries) = 0
  BY <1>1, FS_EmptySet
<1>6. \E most \in Caps : clients <= most
  BY DEF GateInit
<1>7. RegistryInv
  BY <1>1, <1>3, <1>5, <1>6 DEF GateInit, RegistryInv, Spread, NoAdvice
<1> QED
  BY <1>2, <1>4, <1>7 DEF GateInv

LEMMA GateInvMeans == GateInv => TriesBounded
<1> SUFFICES ASSUME GateInv PROVE TriesBounded
  OBVIOUS
<1> USE GateAssumption
<1>1. GateTyped /\ PassphraseInv /\ RegistryInv
  BY DEF GateInv
<1>2. advice["gate"].after = Len(wrongAt) /\ gateNow >= advice["gate"].due => gateNow >= lockedUntil
  BY <1>1 DEF GateTyped, PassphraseInv, GateCounts
<1>3. ASSUME advice["registry"].after = Len(triedAt), gateNow >= advice["registry"].due
      PROVE  Cardinality(Recent) < MaxTries
  <2>1. PICK row \in tries : triedAt[row] + TryWindow <= advice["registry"].due
    BY <1>1, <1>3 DEF RegistryInv
  <2>2. triedAt[row] \in Nat /\ advice["registry"].due \in Nat /\ TryWindow \in Nat /\ gateNow \in Nat
    BY <1>1 DEF GateTyped
  <2>3. Past(triedAt[row])
    BY <1>3, <2>1, <2>2 DEF Past
  <2>4. IsFiniteSet(tries)
    <3>1. IsFiniteSet(1..Len(triedAt))
      BY <1>1, FS_Interval DEF GateTyped
    <3> QED
      BY <1>1, <3>1, FS_Subset DEF GateTyped
  <2>5. Recent \subseteq tries \ {row}
    BY <2>3 DEF Recent
  <2>6. IsFiniteSet(tries \ {row}) /\ Cardinality(tries \ {row}) = Cardinality(tries) - 1
    BY <2>4, <2>1, FS_RemoveElement
  <2>7. Cardinality(Recent) <= Cardinality(tries \ {row})
    BY <2>5, <2>6, FS_Subset
  <2>8. Cardinality(Recent) \in Nat
    BY <2>5, <2>6, FS_Subset, FS_CardinalityType
  <2>9. Cardinality(tries) <= MaxTries /\ Cardinality(tries) \in Nat /\ MaxTries \in Nat
    BY <1>1, <2>4, FS_CardinalityType DEF RegistryInv
  <2> QED
    BY <2>6, <2>7, <2>8, <2>9
<1> QED
  BY <1>1, <1>2, <1>3 DEF TriesBounded, WaitsAreHonest, PassphraseInv, RegistryInv

(* What a step leaves alone keeps its part of the invariant. *)
LEMMA PassphraseKept ==
    ASSUME PassphraseInv, GateTyped, gateNow' \in Nat, gateNow' >= gateNow,
           UNCHANGED <<failures, lockedUntil, guess, wrongAt>>, advice'["gate"] = advice["gate"]
    PROVE  PassphraseInv'
<1> USE GateAssumption
<1>1. GuessesInOrder'
  BY DEF PassphraseInv, GuessesInOrder, GateTyped
<1>2. LockoutPassed'
  <2>1. Len(wrongAt) \in Nat /\ failures \in Nat /\ gateNow \in Nat /\ Lockout \in Nat /\ wrongAt \in Seq(Nat)
    BY DEF GateTyped
  <2>2. PICK last : last = Len(wrongAt) - failures
    OBVIOUS
  <2>3. last \in Int /\ (last > 0 => last \in 1..Len(wrongAt))
    BY <2>1, <2>2
  <2>4. last > 0 => wrongAt[last] \in Nat
    BY <2>1, <2>3, ElementOfSeq
  <2>5. ASSUME last > 0, lockedUntil' = 0
        PROVE  gateNow' >= wrongAt[last] + Lockout
    <3>1. gateNow >= wrongAt[last] + Lockout
      BY <2>2, <2>5 DEF PassphraseInv, LockoutPassed
    <3> QED
      BY <2>1, <2>4, <2>5, <3>1
  <2> QED
    BY <2>2, <2>5 DEF PassphraseInv, LockoutPassed
<1>3. GateCounts'
  BY DEF PassphraseInv, GateCounts
<1>4. Spread(wrongAt, MaxFailures, Lockout)'
  BY DEF PassphraseInv, Spread
<1> QED
  BY <1>1, <1>2, <1>3, <1>4 DEF PassphraseInv

LEMMA RegistryKept ==
    ASSUME RegistryInv, GateTyped, gateNow' \in Nat, gateNow' >= gateNow,
           UNCHANGED <<tries, clients, triedAt>>, advice'["registry"] = advice["registry"]
    PROVE  RegistryInv'
<1> USE GateAssumption
<1>1. ASSUME NEW i \in 1..Len(triedAt)
      PROVE  /\ triedAt[i] <= gateNow'
             /\ \A j \in i..Len(triedAt) : triedAt[i] <= triedAt[j]
             /\ ~(triedAt[i] <= gateNow' - TryWindow) => i \in tries
  <2>1. triedAt[i] \in Nat /\ TryWindow \in Nat /\ gateNow \in Nat
    BY ElementOfSeq DEF GateTyped
  <2>2. triedAt[i] <= gateNow /\ (~(triedAt[i] <= gateNow - TryWindow) => i \in tries)
    BY DEF RegistryInv, Past
  <2>3. triedAt[i] <= gateNow' /\ (~(triedAt[i] <= gateNow' - TryWindow) => ~(triedAt[i] <= gateNow - TryWindow))
    BY <2>1, <2>2
  <2> QED
    BY <2>2, <2>3 DEF RegistryInv
<1> QED
  BY <1>1 DEF RegistryInv, Past, Spread

LEMMA TakeGuessStep ==
    ASSUME GateInv, TakeGuess
    PROVE  GateInv'
<1> USE GateAssumption
<1>0. GateTyped /\ PassphraseInv /\ RegistryInv
  BY DEF GateInv
<1>1. /\ gateNow \in Nat /\ failures \in Nat /\ lockedUntil \in Nat /\ wrongAt \in Seq(Nat)
      /\ Len(wrongAt) \in Nat /\ Lockout \in Nat /\ MaxFailures \in Nat /\ MaxFailures > 0
  BY <1>0 DEF GateTyped
<1>2. CASE gateNow < lockedUntil
  <2>1. /\ UNCHANGED <<failures, lockedUntil, guess, gateNow, tries, clients, cap, wrongAt, triedAt>>
        /\ Advised("gate", lockedUntil - gateNow, Len(wrongAt))
    BY <1>2 DEF TakeGuess
  <2>2. /\ advice' \in [{"gate", "registry"} -> [due : Nat, after : Int]]
        /\ advice'["gate"] = [due |-> lockedUntil, after |-> Len(wrongAt)]
        /\ advice'["registry"] = advice["registry"]
    <3>1. [due |-> gateNow + (lockedUntil - gateNow), after |-> Len(wrongAt)] = [due |-> lockedUntil, after |-> Len(wrongAt)]
      BY <1>1
    <3>2. [due |-> lockedUntil, after |-> Len(wrongAt)] \in [due : Nat, after : Int]
      BY <1>1
    <3> QED
      BY <1>0, <2>1, <3>1, <3>2 DEF Advised, GateTyped
  <2>3. GateTyped'
    BY <1>0, <2>1, <2>2 DEF GateTyped
  <2>4. PassphraseInv'
    BY <1>0, <1>1, <2>1, <2>2 DEF PassphraseInv, GuessesInOrder, LockoutPassed, GateCounts, Spread
  <2>5. RegistryInv'
    BY <1>0, <1>1, <2>1, <2>2, RegistryKept
  <2> QED
    BY <2>3, <2>4, <2>5 DEF GateInv
<1>3. CASE ~(gateNow < lockedUntil)
  <2>1. /\ guess = -1 /\ guess' = gateNow /\ lockedUntil' = 0
        /\ failures' = (IF lockedUntil > 0 THEN 0 ELSE failures)
        /\ UNCHANGED <<gateNow, tries, clients, cap, wrongAt, triedAt, advice>>
    BY <1>3 DEF TakeGuess
  <2>2. GateTyped'
    BY <1>0, <1>1, <2>1 DEF GateTyped
  <2>3. GuessesInOrder'
    BY <1>0, <1>1, <2>1 DEF PassphraseInv, GuessesInOrder
  <2>4. failures' \in Nat /\ failures' <= failures
    BY <1>1, <2>1
  <2>5. GateCounts'
    <3>1. failures' < MaxFailures
      BY <1>0, <1>1, <2>1 DEF PassphraseInv, GateCounts
    <3>2. advice["gate"].due \in Nat
      BY <1>0 DEF GateTyped
    <3> QED
      BY <1>0, <1>1, <2>1, <2>4, <3>1, <3>2 DEF PassphraseInv, GateCounts
  <2>6. LockoutPassed'
    <3>1. CASE lockedUntil > 0
      <4>1. failures' = 0 /\ lockedUntil = wrongAt[Len(wrongAt)] + Lockout
        BY <1>0, <2>1, <3>1 DEF PassphraseInv, GateCounts
      <4>2. gateNow >= wrongAt[Len(wrongAt)] + Lockout
        BY <1>1, <1>3, <4>1
      <4>3. Len(wrongAt)' - failures' = Len(wrongAt)
        BY <1>1, <2>1, <4>1
      <4> QED
        BY <1>1, <2>1, <4>2, <4>3 DEF LockoutPassed
    <3>2. CASE ~(lockedUntil > 0)
      <4>1. failures' = failures /\ lockedUntil = 0
        BY <1>1, <2>1, <3>2
      <4> QED
        BY <1>0, <1>1, <2>1, <4>1 DEF PassphraseInv, LockoutPassed
    <3> QED
      BY <3>1, <3>2
  <2>7. PassphraseInv'
    BY <1>0, <2>1, <2>3, <2>5, <2>6 DEF PassphraseInv, Spread
  <2>8. RegistryInv'
    BY <1>0, <1>1, <2>1, RegistryKept
  <2> QED
    BY <2>2, <2>7, <2>8 DEF GateInv
<1> QED
  BY <1>2, <1>3

LEMMA LaterStill ==
    ASSUME NEW first \in Nat, NEW second \in Nat, NEW third \in Nat, NEW apart \in Nat,
           first <= second, third >= second + apart
    PROVE  third - first >= apart
  OBVIOUS

LEMMA WrongGuessStep ==
    ASSUME GateInv, WrongGuess
    PROVE  GateInv'
<1> USE GateAssumption
<1>0. GateTyped /\ PassphraseInv /\ RegistryInv
  BY DEF GateInv
<1>1. /\ gateNow \in Nat /\ failures \in Nat /\ lockedUntil \in Nat /\ wrongAt \in Seq(Nat) /\ guess \in Nat
      /\ Len(wrongAt) \in Nat /\ Lockout \in Nat /\ MaxFailures \in Nat /\ MaxFailures > 0 /\ Lockout > 0
  BY <1>0 DEF GateTyped, WrongGuess
<1>2. /\ failures' = failures + 1 /\ wrongAt' = Append(wrongAt, guess) /\ guess' = -1
      /\ UNCHANGED <<gateNow, tries, clients, cap, triedAt>>
  BY DEF WrongGuess
<1>3. /\ Len(wrongAt') = Len(wrongAt) + 1 /\ wrongAt' \in Seq(Nat)
      /\ wrongAt'[Len(wrongAt) + 1] = guess
      /\ \A i \in 1..Len(wrongAt) : wrongAt'[i] = wrongAt[i]
  BY <1>1, <1>2, AppendProperties
<1>4. failures < MaxFailures /\ lockedUntil = 0 /\ failures <= Len(wrongAt)
  BY <1>0, <1>1 DEF PassphraseInv, GateCounts
<1>5. /\ advice' \in [{"gate", "registry"} -> [due : Nat, after : Int]]
      /\ advice'["registry"] = advice["registry"]
      /\ \/ failures + 1 = MaxFailures /\ lockedUntil' = guess + Lockout
            /\ advice'["gate"].due = gateNow + Lockout /\ advice'["gate"].after = Len(wrongAt) + 1
         \/ failures + 1 < MaxFailures /\ lockedUntil' = 0 /\ advice'["gate"] = advice["gate"]
  <2>1. CASE failures' >= MaxFailures
    <3>1. lockedUntil' = guess + Lockout /\ Advised("gate", Lockout, Len(wrongAt'))
      BY <2>1 DEF WrongGuess
    <3>2. [due |-> gateNow + Lockout, after |-> Len(wrongAt')] \in [due : Nat, after : Int]
      BY <1>1, <1>3
    <3> QED
      BY <1>0, <1>1, <1>2, <1>3, <1>4, <2>1, <3>1, <3>2 DEF Advised, GateTyped
  <2>2. CASE ~(failures' >= MaxFailures)
    BY <1>0, <1>1, <1>2, <1>4, <2>2 DEF WrongGuess, GateTyped
  <2> QED
    BY <2>1, <2>2
<1>6. GateTyped'
  BY <1>0, <1>1, <1>2, <1>3, <1>5 DEF GateTyped
<1>7. GuessesInOrder'
  <2>1. ASSUME NEW i \in 1..Len(wrongAt')
        PROVE  wrongAt'[i] <= gateNow /\ \A j \in i..Len(wrongAt') : wrongAt'[i] <= wrongAt'[j]
    <3>1. guess <= gateNow
      BY <1>0 DEF PassphraseInv, GuessesInOrder
    <3>2. CASE i = Len(wrongAt) + 1
      BY <1>1, <1>3, <3>1, <3>2
    <3>3. CASE i \in 1..Len(wrongAt)
      <4>1. wrongAt'[i] = wrongAt[i] /\ wrongAt[i] <= gateNow /\ wrongAt[i] <= guess
        BY <1>0, <1>1, <1>3, <3>3 DEF PassphraseInv, GuessesInOrder
      <4>2. ASSUME NEW j \in i..Len(wrongAt')
            PROVE  wrongAt'[i] <= wrongAt'[j]
        <5>1. CASE j = Len(wrongAt) + 1
          BY <1>3, <4>1, <5>1
        <5>2. CASE j \in i..Len(wrongAt)
          BY <1>0, <1>1, <1>3, <3>3, <4>1, <5>2 DEF PassphraseInv, GuessesInOrder
        <5>3. j \in Int /\ i <= j /\ j <= Len(wrongAt) + 1 /\ i \in Int
          BY <1>3
        <5> QED
          BY <1>1, <5>1, <5>2, <5>3
      <4> QED
        BY <4>1, <4>2
    <3> QED
      BY <1>1, <1>3, <3>2, <3>3
  <2>2. -1 <= gateNow
    BY <1>1
  <2> QED
    BY <1>2, <2>1, <2>2 DEF GuessesInOrder
<1>8. PICK last : last = Len(wrongAt) - failures
  OBVIOUS
<1>9. last \in Nat /\ Len(wrongAt') - failures' = last
  BY <1>1, <1>2, <1>3, <1>4, <1>8
<1>10. ASSUME last > 0
       PROVE  /\ last \in 1..Len(wrongAt)
              /\ guess >= wrongAt[last] + Lockout
              /\ gateNow >= wrongAt[last] + Lockout
              /\ \A j \in 1..Len(wrongAt) : j > last => wrongAt[j] >= wrongAt[last] + Lockout
  BY <1>0, <1>1, <1>4, <1>8, <1>9, <1>10 DEF PassphraseInv, LockoutPassed
<1>11. LockoutPassed'
  <2>1. ASSUME last > 0
        PROVE  /\ \A j \in 1..Len(wrongAt') : j > last => wrongAt'[j] >= wrongAt'[last] + Lockout
               /\ gateNow' >= wrongAt'[last] + Lockout
    <3>1. wrongAt'[last] = wrongAt[last]
      BY <1>3, <1>10, <2>1
    <3>2. ASSUME NEW j \in 1..Len(wrongAt'), j > last
          PROVE  wrongAt'[j] >= wrongAt[last] + Lockout
      <4>1. CASE j = Len(wrongAt) + 1
        BY <1>3, <1>10, <2>1, <4>1
      <4>2. CASE j \in 1..Len(wrongAt)
        BY <1>3, <1>10, <2>1, <3>2, <4>2
      <4> QED
        BY <1>1, <1>3, <3>2, <4>1, <4>2
    <3> QED
      BY <1>2, <1>10, <2>1, <3>1, <3>2
  <2>2. ~(guess' >= 0)
    BY <1>2
  <2> QED
    BY <1>9, <2>1, <2>2 DEF LockoutPassed
<1>12. GateCounts'
  <2>1. /\ advice["gate"].after <= Len(wrongAt) /\ advice["gate"].after \in Int
        /\ guess <= gateNow
    BY <1>0 DEF PassphraseInv, GateCounts, GuessesInOrder, GateTyped
  <2> QED
    BY <1>1, <1>2, <1>3, <1>4, <1>5, <2>1 DEF GateCounts
<1>13. Spread(wrongAt, MaxFailures, Lockout)'
  <2> SUFFICES ASSUME NEW i \in 1..Len(wrongAt'), i + MaxFailures \in 1..Len(wrongAt')
               PROVE  wrongAt'[i + MaxFailures] - wrongAt'[i] >= Lockout
    BY <1>3 DEF Spread
  <2>1. i \in 1..Len(wrongAt) /\ wrongAt'[i] = wrongAt[i] /\ wrongAt[i] \in Nat
    BY <1>1, <1>3
  <2>2. CASE i + MaxFailures \in 1..Len(wrongAt)
    <3>1. wrongAt'[i + MaxFailures] = wrongAt[i + MaxFailures]
      BY <1>3, <2>2
    <3>2. DOMAIN wrongAt = 1..Len(wrongAt)
      BY <1>1, LenProperties
    <3>3. wrongAt[i + MaxFailures] - wrongAt[i] >= Lockout
      BY <1>0, <2>1, <2>2, <3>2 DEF PassphraseInv, Spread
    <3> QED
      BY <2>1, <3>1, <3>3
  <2>3. CASE i + MaxFailures = Len(wrongAt) + 1
    <3>1. last > 0 /\ i <= last
      BY <1>1, <1>4, <1>8, <2>1, <2>3
    <3>2. last \in i..Len(wrongAt) /\ guess >= wrongAt[last] + Lockout /\ wrongAt[last] \in Nat
      BY <1>1, <1>9, <1>10, <2>1, <3>1
    <3>3. wrongAt[i] <= wrongAt[last]
      BY <1>0, <2>1, <3>2 DEF PassphraseInv, GuessesInOrder
    <3>4. wrongAt'[i + MaxFailures] = guess
      BY <1>3, <2>3
    <3>5. guess - wrongAt[i] >= Lockout
      BY <1>1, <2>1, <3>2, <3>3, LaterStill
    <3> QED
      BY <2>1, <3>4, <3>5
  <2>4. i + MaxFailures \in Nat /\ i + MaxFailures >= 1 /\ i + MaxFailures <= Len(wrongAt) + 1
    BY <1>1, <1>3
  <2> QED
    BY <1>1, <2>2, <2>3, <2>4
<1>14. PassphraseInv'
  BY <1>7, <1>11, <1>12, <1>13 DEF PassphraseInv
<1>15. RegistryInv'
  BY <1>0, <1>1, <1>2, <1>5, RegistryKept
<1> QED
  BY <1>6, <1>14, <1>15 DEF GateInv

LEMMA RegisterStep ==
    ASSUME GateInv, Register
    PROVE  GateInv'
<1> USE GateAssumption
<1>0. GateTyped /\ PassphraseInv /\ RegistryInv
  BY DEF GateInv
<1>1. /\ gateNow \in Nat /\ triedAt \in Seq(Nat) /\ Len(triedAt) \in Nat /\ clients \in Nat
      /\ TryWindow \in Nat /\ MaxTries \in Nat /\ TryWindow > 0 /\ MaxTries > 0
      /\ cap \in Caps /\ cap \in Nat
  BY <1>0 DEF GateTyped
<1>2. UNCHANGED <<gateNow, failures, lockedUntil, guess, cap, wrongAt>>
  BY DEF Register
<1>3. IsFiniteSet(tries) /\ IsFiniteSet(Recent) /\ Cardinality(Recent) \in Nat /\ Recent \subseteq 1..Len(triedAt)
  <2>1. IsFiniteSet(1..Len(triedAt))
    BY <1>1, FS_Interval
  <2>2. IsFiniteSet(tries)
    BY <1>0, <2>1, FS_Subset DEF GateTyped
  <2>3. Recent \subseteq tries /\ Recent \subseteq 1..Len(triedAt)
    BY <1>0 DEF Recent, GateTyped
  <2>4. IsFiniteSet(Recent)
    BY <2>2, <2>3, FS_Subset
  <2> QED
    BY <2>2, <2>3, <2>4, FS_CardinalityType
<1>4. CASE Cardinality(Recent) >= MaxTries
  <2>1. PICK oldest \in Recent, wait \in Nat :
            /\ triedAt[oldest] + TryWindow <= gateNow + wait
            /\ Advised("registry", wait, Len(triedAt))
    <3>1. PICK oldest \in Recent : Advised("registry",
              IF triedAt[oldest] + TryWindow - gateNow > 1 THEN triedAt[oldest] + TryWindow - gateNow ELSE 1, Len(triedAt))
      BY <1>4 DEF Register
    <3>2. triedAt[oldest] \in Nat
      BY <1>1, <1>3, ElementOfSeq
    <3>3. PICK wait : wait = IF triedAt[oldest] + TryWindow - gateNow > 1 THEN triedAt[oldest] + TryWindow - gateNow ELSE 1
      OBVIOUS
    <3>4. wait \in Nat /\ triedAt[oldest] + TryWindow <= gateNow + wait
      BY <1>1, <3>2, <3>3
    <3> QED
      BY <3>1, <3>3, <3>4
  <2>2. tries' = Recent /\ UNCHANGED <<clients, triedAt>>
    BY <1>4 DEF Register
  <2>3. /\ advice' \in [{"gate", "registry"} -> [due : Nat, after : Int]]
        /\ advice'["gate"] = advice["gate"]
        /\ advice'["registry"].due = gateNow + wait /\ advice'["registry"].after = Len(triedAt)
    <3>1. [due |-> gateNow + wait, after |-> Len(triedAt)] \in [due : Nat, after : Int]
      BY <1>1
    <3> QED
      BY <1>0, <2>1, <3>1 DEF Advised, GateTyped
  <2>4. GateTyped'
    BY <1>0, <1>2, <1>3, <2>2, <2>3 DEF GateTyped
  <2>5. PassphraseInv'
    BY <1>0, <1>1, <1>2, <2>3, PassphraseKept
  <2>6. ASSUME NEW i \in 1..Len(triedAt), ~Past(triedAt[i])
        PROVE  i \in Recent
    BY <1>0, <2>6 DEF RegistryInv, Recent
  <2>7. Cardinality(Recent) <= MaxTries
    <3>1. Cardinality(Recent) <= Cardinality(tries) /\ Cardinality(tries) \in Nat
      <4>1. Recent \subseteq tries
        BY DEF Recent
      <4> QED
        BY <1>3, <4>1, FS_Subset, FS_CardinalityType
    <3> QED
      BY <1>0, <1>1, <1>3, <3>1 DEF RegistryInv
  <2>8. RegistryInv'
    BY <1>0, <1>1, <1>2, <2>1, <2>2, <2>3, <2>6, <2>7 DEF RegistryInv, Past, Spread
  <2> QED
    BY <2>4, <2>5, <2>8 DEF GateInv
<1>5. CASE ~(Cardinality(Recent) >= MaxTries)
  <2>1. /\ triedAt' = Append(triedAt, gateNow) /\ tries' = Recent \cup {Len(triedAt')}
        /\ clients' = (IF clients >= cap THEN clients ELSE clients + 1)
        /\ advice' = advice
    BY <1>5 DEF Register
  <2>2. /\ triedAt' \in Seq(Nat) /\ Len(triedAt') = Len(triedAt) + 1
        /\ triedAt'[Len(triedAt) + 1] = gateNow
        /\ \A i \in 1..Len(triedAt) : triedAt'[i] = triedAt[i]
    BY <1>1, <2>1, AppendProperties
  <2>3. GateTyped'
    <3>1. tries' \subseteq 1..Len(triedAt')
      <4>1. Len(triedAt') \in 1..Len(triedAt') /\ \A i \in 1..Len(triedAt) : i \in 1..Len(triedAt')
        BY <1>1, <2>2
      <4> QED
        BY <1>3, <2>1, <4>1
    <3>2. clients' \in Nat
      BY <1>1, <2>1
    <3> QED
      BY <1>0, <1>2, <2>1, <2>2, <3>1, <3>2 DEF GateTyped
  <2>4. PassphraseInv'
    BY <1>0, <1>1, <1>2, <2>1, PassphraseKept
  <2>5. ASSUME NEW i \in 1..Len(triedAt')
        PROVE  /\ triedAt'[i] <= gateNow
               /\ \A j \in i..Len(triedAt') : triedAt'[i] <= triedAt'[j]
               /\ ~(triedAt'[i] <= gateNow - TryWindow) => i \in tries'
    <3>1. CASE i = Len(triedAt) + 1
      BY <1>1, <2>1, <2>2, <3>1
    <3>2. CASE i \in 1..Len(triedAt)
      <4>1. triedAt'[i] = triedAt[i] /\ triedAt[i] <= gateNow
        BY <1>0, <2>2, <3>2 DEF RegistryInv
      <4>2. ASSUME NEW j \in i..Len(triedAt')
            PROVE  triedAt'[i] <= triedAt'[j]
        <5>1. CASE j = Len(triedAt) + 1
          BY <2>2, <4>1, <5>1
        <5>2. CASE j \in i..Len(triedAt)
          BY <1>0, <1>1, <2>2, <3>2, <4>1, <5>2 DEF RegistryInv
        <5>3. j \in Int /\ i <= j /\ j <= Len(triedAt) + 1 /\ i \in Int
          BY <2>2
        <5> QED
          BY <1>1, <5>1, <5>2, <5>3
      <4>3. ~(triedAt'[i] <= gateNow - TryWindow) => i \in tries'
        BY <1>0, <2>1, <3>2, <4>1 DEF RegistryInv, Recent, Past
      <4> QED
        BY <4>1, <4>2, <4>3
    <3> QED
      BY <1>1, <2>2, <3>1, <3>2
  <2>6. Cardinality(tries') <= MaxTries
    <3>1. Len(triedAt') \notin Recent
      BY <1>1, <1>3, <2>2
    <3>2. Cardinality(tries') = Cardinality(Recent) + 1
      BY <1>3, <2>1, <3>1, FS_AddElement
    <3> QED
      BY <1>1, <1>3, <1>5, <3>2
  <2>7. Spread(triedAt, MaxTries, TryWindow)'
    <3> SUFFICES ASSUME NEW i \in 1..Len(triedAt'), i + MaxTries \in 1..Len(triedAt')
                 PROVE  triedAt'[i + MaxTries] - triedAt'[i] >= TryWindow
      BY <2>2 DEF Spread
    <3>1. i \in 1..Len(triedAt) /\ triedAt'[i] = triedAt[i] /\ triedAt[i] \in Nat
      BY <1>1, <2>2, ElementOfSeq
    <3>2. CASE i + MaxTries \in 1..Len(triedAt)
      <4>1. triedAt'[i + MaxTries] = triedAt[i + MaxTries]
        BY <2>2, <3>2
      <4>2. DOMAIN triedAt = 1..Len(triedAt)
        BY <1>1, LenProperties
      <4>3. triedAt[i + MaxTries] - triedAt[i] >= TryWindow
        BY <1>0, <3>1, <3>2, <4>2 DEF RegistryInv, Spread
      <4> QED
        BY <3>1, <4>1, <4>3
    <3>3. CASE i + MaxTries = Len(triedAt) + 1
      <4>1. ASSUME ~Past(triedAt[i])
            PROVE  FALSE
        <5>1. ASSUME NEW j \in i..Len(triedAt)
              PROVE  j \in Recent
          <6>1. j \in 1..Len(triedAt)
            BY <1>1, <3>1
          <6>2. triedAt[i] <= triedAt[j] /\ triedAt[j] \in Nat
            BY <1>0, <1>1, <3>1, <6>1, ElementOfSeq DEF RegistryInv
          <6>3. ~Past(triedAt[j])
            BY <1>1, <3>1, <4>1, <6>2 DEF Past
          <6> QED
            BY <1>0, <6>1, <6>3 DEF RegistryInv, Recent
        <5>2. i..Len(triedAt) \subseteq Recent
          BY <5>1
        <5>3. Cardinality(i..Len(triedAt)) <= Cardinality(Recent)
          BY <1>3, <5>2, FS_Subset
        <5>4. i \in Int /\ Len(triedAt) \in Int /\ ~(i > Len(triedAt)) /\ Len(triedAt) - i + 1 = MaxTries
          BY <1>1, <3>1, <3>3
        <5>5. Cardinality(i..Len(triedAt)) = Len(triedAt) - i + 1
          BY <5>4, FS_Interval
        <5> QED
          BY <1>1, <1>3, <1>5, <5>3, <5>4, <5>5
      <4>2. triedAt'[i + MaxTries] = gateNow
        BY <2>2, <3>3
      <4>3. gateNow - triedAt[i] >= TryWindow
        BY <1>1, <3>1, <4>1 DEF Past
      <4> QED
        BY <3>1, <4>2, <4>3
    <3>4. i + MaxTries \in Nat /\ i + MaxTries >= 1 /\ i + MaxTries <= Len(triedAt) + 1
      BY <1>1, <2>2
    <3> QED
      BY <1>1, <3>2, <3>3, <3>4
  <2>8. \E most \in Caps : clients' <= most
    <3>1. CASE clients >= cap
      BY <1>0, <2>1, <3>1 DEF RegistryInv
    <3>2. CASE ~(clients >= cap)
      <4>1. clients + 1 <= cap
        BY <1>1, <3>2
      <4> QED
        BY <1>1, <2>1, <3>2, <4>1
    <3> QED
      BY <3>1, <3>2
  <2>9. advice'["registry"].after <= Len(triedAt) /\ advice'["registry"].after \in Int
    BY <1>0, <2>1 DEF RegistryInv, GateTyped
  <2>10. advice'["registry"].after <= Len(triedAt') /\ advice'["registry"].after # Len(triedAt')
    BY <1>1, <2>2, <2>9
  <2>11. RegistryInv'
    BY <1>2, <2>5, <2>6, <2>7, <2>8, <2>10 DEF RegistryInv, Past
  <2> QED
    BY <2>3, <2>4, <2>11 DEF GateInv
<1> QED
  BY <1>4, <1>5

LEMMA GateInvStep ==
    ASSUME GateInv, [GateNext]_gateVars
    PROVE  GateInv'
<1> USE GateAssumption
<1>0. GateTyped /\ PassphraseInv /\ RegistryInv /\ gateNow \in Nat
  BY DEF GateInv, GateTyped
<1>1. CASE UNCHANGED gateVars
  <2>1. GateTyped'
    BY <1>0, <1>1 DEF GateTyped, gateVars
  <2>2. PassphraseInv' /\ RegistryInv'
    BY <1>0, <1>1, PassphraseKept, RegistryKept DEF gateVars
  <2> QED
    BY <2>1, <2>2 DEF GateInv
<1>2. CASE RightGuess
  <2>1. /\ failures' = 0 /\ wrongAt' = <<>> /\ guess' = -1 /\ UNCHANGED <<gateNow, lockedUntil, tries, clients, cap, triedAt>>
        /\ advice' = [advice EXCEPT !["gate"] = [due |-> 0, after |-> -1]] /\ guess >= 0
    BY <1>2 DEF RightGuess, NoAdvice
  <2>2. lockedUntil = 0
    BY <1>0, <2>1 DEF PassphraseInv, GateCounts, GateTyped
  <2>3. /\ advice'["gate"] = [due |-> 0, after |-> -1] /\ advice'["registry"] = advice["registry"]
        /\ advice' \in [{"gate", "registry"} -> [due : Nat, after : Int]]
    BY <1>0, <2>1 DEF GateTyped
  <2>4. GateTyped'
    BY <1>0, <2>1, <2>3 DEF GateTyped
  <2>5. Len(wrongAt') = 0 /\ MaxFailures > 0 /\ MaxFailures \in Nat
    BY <2>1
  <2>6. PassphraseInv'
    BY <1>0, <2>1, <2>2, <2>3, <2>5 DEF PassphraseInv, GuessesInOrder, LockoutPassed, GateCounts, Spread
  <2>7. RegistryInv'
    BY <1>0, <2>1, <2>3, RegistryKept
  <2> QED
    BY <2>4, <2>6, <2>7 DEF GateInv
<1>3. CASE RestartGate
  <2>1. /\ failures' = 0 /\ wrongAt' = <<>> /\ guess' = -1 /\ lockedUntil' = 0 /\ cap' \in Caps
        /\ UNCHANGED <<gateNow, tries, clients, triedAt>>
        /\ advice' = [advice EXCEPT !["gate"] = [due |-> 0, after |-> -1]]
    BY <1>3 DEF RestartGate, NoAdvice
  <2>2. /\ advice'["gate"] = [due |-> 0, after |-> -1] /\ advice'["registry"] = advice["registry"]
        /\ advice' \in [{"gate", "registry"} -> [due : Nat, after : Int]]
    BY <1>0, <2>1 DEF GateTyped
  <2>3. GateTyped'
    BY <1>0, <2>1, <2>2 DEF GateTyped
  <2>4. Len(wrongAt') = 0 /\ MaxFailures > 0 /\ MaxFailures \in Nat
    BY <2>1
  <2>5. PassphraseInv'
    BY <1>0, <2>1, <2>2, <2>4 DEF PassphraseInv, GuessesInOrder, LockoutPassed, GateCounts, Spread
  <2>6. RegistryInv'
    BY <1>0, <2>1, <2>2, RegistryKept
  <2> QED
    BY <2>3, <2>5, <2>6 DEF GateInv
<1>4. CASE GateTick
  <2>1. /\ gateNow' = gateNow + 1
        /\ UNCHANGED <<failures, lockedUntil, guess, tries, clients, cap, wrongAt, triedAt, advice>>
    BY <1>4 DEF GateTick
  <2>2. gateNow' \in Nat /\ gateNow' >= gateNow
    BY <1>0, <2>1
  <2>3. GateTyped'
    BY <1>0, <2>1, <2>2 DEF GateTyped
  <2>4. PassphraseInv' /\ RegistryInv'
    BY <1>0, <2>1, <2>2, PassphraseKept, RegistryKept
  <2> QED
    BY <2>3, <2>4 DEF GateInv
<1> QED
  BY <1>1, <1>2, <1>3, <1>4, TakeGuessStep, WrongGuessStep, RegisterStep DEF GateNext

(***************************************************************************)
(* Shared reads of positions.                                              *)
(***************************************************************************)
CallSteps == {"new", "read", "wait", "finished", "announced", "ended"}
SharedReads == [value : {None} \cup (Nat \X {Nobody}), finished : Int, done : BOOLEAN]
CallRecords(c) ==
    [step : CallSteps, began : Nat, entry : Nat, broker : Nat, locks : Nat, answer : {None} \cup (Nat \X {c})]

(* What a call may say of itself: what it holds is its own and came from    *)
(* the read that serves it, which ended late enough.                        *)
CallStands(c, call) ==
    /\ call \in CallRecords(c)
    /\ call.entry <= Len(shared) /\ call.began <= posNow
    /\ call.step = "new" => call.entry = 0
    /\ call.step \in {"wait", "finished", "announced"} => call.entry > 0
    /\ call.step \in {"new", "wait"} => call.answer = None
    /\ call.answer # None => call.answer = <<call.entry, c>>
    /\ call.entry > 0 /\ shared[call.entry].finished # -1 =>
          shared[call.entry].finished >= call.began - SharedSeconds

(* What is shared is nobody's own. *)
SharedInv ==
    /\ posNow \in Nat
    /\ shared \in Seq(SharedReads)
    /\ \A e \in 1..Len(shared) : shared[e].value \in {None, <<e, Nobody>>}
    /\ DOMAIN calls = Calls
    /\ \A c \in Calls : CallStands(c, calls[c])

LEMMA SharedBegin == PositionInit => SharedInv
<1> SUFFICES ASSUME PositionInit PROVE SharedInv
  OBVIOUS
<1>1. shared = <<>> /\ Len(shared) = 0 /\ posNow = 0
  BY DEF PositionInit
<1>2. ASSUME NEW c \in Calls
      PROVE  /\ calls[c] = [step |-> "new", began |-> 0, entry |-> 0, broker |-> 1, locks |-> 0, answer |-> None]
             /\ calls[c] \in CallRecords(c)
  BY DEF PositionInit, CallRecords, CallSteps
<1>3. DOMAIN calls = Calls
  BY DEF PositionInit
<1> QED
  BY <1>1, <1>2, <1>3 DEF SharedInv, CallStands

LEMMA SharedInvMeans == SharedInv => SharedFresh
<1> SUFFICES ASSUME SharedInv, NEW c \in Calls, calls[c].answer # None
             PROVE  /\ calls[c].answer[2] = c
                    /\ calls[c].answer[1] > 0 =>
                          /\ shared[calls[c].answer[1]].value # calls[c].answer
                          /\ shared[calls[c].answer[1]].finished # -1 =>
                                shared[calls[c].answer[1]].finished >= calls[c].began - SharedSeconds
  BY DEF SharedFresh
<1>0. CallStands(c, calls[c])
  BY DEF SharedInv
<1>1. calls[c].answer = <<calls[c].entry, c>> /\ calls[c].entry \in Nat /\ calls[c].entry <= Len(shared)
  BY <1>0 DEF CallStands, CallRecords
<1>2. ASSUME calls[c].entry > 0
      PROVE  shared[calls[c].entry].value # calls[c].answer
  <2>1. Len(shared) \in Nat
    BY DEF SharedInv
  <2>2. calls[c].entry \in 1..Len(shared)
    BY <1>1, <1>2, <2>1
  <2>3. shared[calls[c].entry].value \in {None, <<calls[c].entry, Nobody>>}
    BY <2>2 DEF SharedInv
  <2>4. None # <<calls[c].entry, c>> /\ <<calls[c].entry, Nobody>> # <<calls[c].entry, c>>
    BY PositionAssumption DEF None
  <2> QED
    BY <1>1, <2>3, <2>4
<1> QED
  BY <1>0, <1>1, <1>2 DEF CallStands

(* News of a read, new, kept or finished now, alters what no call may say. *)
LEMMA NewsKeepsCalls ==
    ASSUME SharedInv, NEW c \in Calls, posNow' \in Nat, posNow' >= posNow,
           Len(shared') \in Nat, Len(shared') >= Len(shared),
           \A e \in 1..Len(shared) :
              shared'[e].finished = shared[e].finished \/ shared'[e].finished = posNow,
           calls'[c] = calls[c]
    PROVE  CallStands(c, calls[c])'
<1>1. CallStands(c, calls[c])
  BY DEF SharedInv
<1>2. Len(shared) \in Nat /\ posNow \in Nat /\ SharedSeconds \in Nat
  BY PositionAssumption DEF SharedInv
<1>3. calls[c].entry \in Nat /\ calls[c].began \in Nat /\ calls[c].entry <= Len(shared) /\ calls[c].began <= posNow
  BY <1>1 DEF CallStands, CallRecords
<1>4. ASSUME calls[c].entry > 0, shared'[calls[c].entry].finished # -1
      PROVE  shared'[calls[c].entry].finished >= calls[c].began - SharedSeconds
  <2>1. PICK e \in 1..Len(shared) : e = calls[c].entry
    BY <1>2, <1>3, <1>4
  <2>2. CASE shared'[e].finished = shared[e].finished
    BY <1>1, <1>4, <2>1, <2>2 DEF CallStands
  <2>3. CASE shared'[e].finished = posNow
    BY <1>2, <1>3, <2>1, <2>3
  <2> QED
    BY <2>1, <2>2, <2>3
<1>5. calls[c].entry <= Len(shared') /\ calls[c].began <= posNow'
  BY <1>2, <1>3
<1> QED
  BY <1>1, <1>4, <1>5 DEF CallStands

LEMMA CallMoves ==
    ASSUME SharedInv, NEW c \in Calls, NEW call,
           calls' = [calls EXCEPT ![c] = call], posNow' = posNow,
           shared' \in Seq(SharedReads), Len(shared') >= Len(shared),
           \A e \in 1..Len(shared) :
              shared'[e].finished = shared[e].finished \/ shared'[e].finished = posNow,
           \A e \in 1..Len(shared') : shared'[e].value \in {None, <<e, Nobody>>},
           CallStands(c, call)'
    PROVE  SharedInv'
<1>1. /\ calls'[c] = call /\ DOMAIN calls' = Calls
      /\ \A d \in Calls : d # c => calls'[d] = calls[d]
  BY DEF SharedInv
<1>2. posNow' \in Nat /\ posNow' >= posNow /\ Len(shared') \in Nat
  BY DEF SharedInv
<1>3. ASSUME NEW d \in Calls
      PROVE  CallStands(d, calls[d])'
  <2>1. CASE d = c
    BY <1>1, <2>1 DEF CallStands
  <2>2. CASE d # c
    BY <1>1, <1>2, <2>2, NewsKeepsCalls
  <2> QED
    BY <2>1, <2>2
<1> QED
  BY <1>1, <1>2, <1>3 DEF SharedInv

(* The steps of a call that are no news of a read. *)
LEMMA QuietCallStep ==
    ASSUME SharedInv, NEW c \in Calls, NEW call, CallStands(c, call),
           calls' = [calls EXCEPT ![c] = call], UNCHANGED <<posNow, shared>>
    PROVE  SharedInv'
<1>1. /\ shared' \in Seq(SharedReads) /\ Len(shared') >= Len(shared)
      /\ \A e \in 1..Len(shared) : shared'[e].finished = shared[e].finished
      /\ \A e \in 1..Len(shared') : shared'[e].value \in {None, <<e, Nobody>>}
  BY DEF SharedInv
<1>2. CallStands(c, call)'
  BY DEF CallStands
<1> QED
  BY <1>1, <1>2, CallMoves

LEMMA CallRecordTyped ==
    ASSUME NEW c \in Calls, NEW step \in CallSteps, NEW began \in Nat, NEW entry \in Nat,
           NEW broker \in Nat, NEW locks \in Nat, NEW answer \in {None} \cup (Nat \X {c})
    PROVE  [step |-> step, began |-> began, entry |-> entry, broker |-> broker, locks |-> locks, answer |-> answer]
           \in CallRecords(c)
  BY DEF CallRecords

(* The record of a call, field by field. *)
LEMMA CallFields ==
    ASSUME SharedInv, NEW c \in Calls
    PROVE  /\ CallStands(c, calls[c])
           /\ calls[c] \in [step : CallSteps, began : Nat, entry : Nat, broker : Nat, locks : Nat,
                           answer : {None} \cup (Nat \X {c})]
           /\ calls[c].step \in CallSteps /\ calls[c].began \in Nat /\ calls[c].entry \in Nat
           /\ calls[c].broker \in Nat /\ calls[c].locks \in Nat
           /\ calls[c].answer \in {None} \cup (Nat \X {c})
  BY DEF SharedInv, CallStands, CallRecords

LEMMA SharedTyped ==
    ASSUME SharedInv
    PROVE  /\ posNow \in Nat /\ SharedSeconds \in Nat /\ shared \in Seq(SharedReads) /\ Len(shared) \in Nat
           /\ \A e \in 1..Len(shared) :
                 shared[e].value \in {None, <<e, Nobody>>} /\ shared[e] \in SharedReads
           /\ {"new", "read", "wait", "finished", "announced", "ended"} \subseteq CallSteps
  BY PositionAssumption, ElementOfSeq DEF SharedInv, CallSteps

LEMMA AloneStep ==
    ASSUME SharedInv, NEW c \in Calls, EnterAlone(c)
    PROVE  SharedInv'
<1>1. PICK call : call = [calls[c] EXCEPT !.step = "read", !.began = posNow]
  OBVIOUS
<1>2. calls' = [calls EXCEPT ![c] = call] /\ UNCHANGED <<posNow, shared>>
  BY <1>1 DEF EnterAlone
<1>3. call = [step |-> "read", began |-> posNow, entry |-> calls[c].entry, broker |-> calls[c].broker,
              locks |-> calls[c].locks, answer |-> calls[c].answer]
  BY <1>1, CallFields
<1>4. call \in CallRecords(c)
  BY <1>3, CallFields, SharedTyped, CallRecordTyped
<1>5. CallStands(c, call)
  BY <1>3, <1>4, CallFields, SharedTyped DEF EnterAlone, CallStands
<1> QED
  BY <1>2, <1>5, QuietCallStep

LEMMA EnterStep ==
    ASSUME SharedInv, NEW c \in Calls, Enter(c)
    PROVE  SharedInv'
<1>1. PICK step, entry, call :
        /\ step = (IF shared = <<>> \/ Unfit(Last(shared)) THEN "read" ELSE "wait")
        /\ entry = Len(shared')
        /\ call = [calls[c] EXCEPT !.step = step, !.began = posNow, !.entry = entry]
  OBVIOUS
<1>2. calls' = [calls EXCEPT ![c] = call] /\ posNow' = posNow /\ calls[c].step = "new"
  BY <1>1 DEF Enter
<1>3. call = [step |-> step, began |-> posNow, entry |-> entry, broker |-> calls[c].broker,
              locks |-> calls[c].locks, answer |-> calls[c].answer]
  BY <1>1, CallFields
<1>4. step \in CallSteps /\ step \in {"read", "wait"}
  BY <1>1, SharedTyped
<1>5. calls[c].answer = None
  BY <1>2, CallFields DEF CallStands
<1>6. CASE shared = <<>> \/ Unfit(Last(shared))
  <2>1. PICK read : read = [value |-> None, finished |-> -1, done |-> FALSE]
    OBVIOUS
  <2>2. shared' = Append(shared, read)
    BY <1>6, <2>1 DEF Enter
  <2>3. read \in SharedReads /\ read.value = None /\ read.finished = -1
    BY <2>1 DEF SharedReads
  <2>4. /\ shared' \in Seq(SharedReads) /\ Len(shared') = Len(shared) + 1 /\ shared'[Len(shared) + 1] = read
        /\ \A e \in 1..Len(shared) : shared'[e] = shared[e]
    BY <2>2, <2>3, SharedTyped, AppendProperties
  <2>5. \A e \in 1..Len(shared') : shared'[e].value \in {None, <<e, Nobody>>}
    BY <2>3, <2>4, SharedTyped
  <2>6. entry \in Nat /\ entry = Len(shared) + 1 /\ entry > 0
    BY <1>1, <2>4, SharedTyped
  <2>7. call \in CallRecords(c)
    BY <1>3, <1>4, <2>6, CallFields, SharedTyped, CallRecordTyped
  <2>8. CallStands(c, call)'
    BY <1>1, <1>2, <1>3, <1>4, <1>5, <2>3, <2>4, <2>6, <2>7, SharedTyped DEF CallStands, CallRecords
  <2>9. Len(shared') >= Len(shared)
    BY <2>4, SharedTyped
  <2> QED
    BY <1>2, <2>4, <2>5, <2>8, <2>9, CallMoves
<1>7. CASE ~(shared = <<>> \/ Unfit(Last(shared)))
  <2>1. shared' = shared
    BY <1>7 DEF Enter
  <2>2. Len(shared) > 0 /\ entry = Len(shared) /\ entry \in 1..Len(shared)
    BY <1>1, <1>7, <2>1, SharedTyped, EmptySeq
  <2>3. Last(shared) = shared[entry]
    BY <2>2 DEF Last
  <2>4. shared[entry].finished = -1 \/ posNow - shared[entry].finished <= SharedSeconds
    <3>1. shared[entry].finished \in Int
      BY <2>2, SharedTyped DEF SharedReads
    <3> QED
      BY <1>7, <2>3, <3>1, SharedTyped DEF Unfit
  <2>5. shared[entry].finished # -1 => shared[entry].finished >= posNow - SharedSeconds
    <3>1. shared[entry].finished \in Int
      BY <2>2, SharedTyped DEF SharedReads
    <3> QED
      BY <2>4, <3>1, SharedTyped
  <2>6. call \in CallRecords(c)
    BY <1>3, <1>4, <2>2, CallFields, SharedTyped, CallRecordTyped
  <2>7. CallStands(c, call)
    BY <1>3, <1>4, <1>5, <2>2, <2>5, <2>6, SharedTyped DEF CallStands
  <2> QED
    BY <1>2, <2>1, <2>7, QuietCallStep
<1> QED
  BY <1>6, <1>7

LEMMA WakeStep ==
    ASSUME SharedInv, NEW c \in Calls, Wake(c)
    PROVE  SharedInv'
<1>1. UNCHANGED <<posNow, shared>> /\ calls[c].step = "wait" /\ calls[c].entry > 0 /\ calls[c].answer = None
  BY CallFields DEF Wake, CallStands
<1>2. calls[c].entry \in 1..Len(shared)
  BY <1>1, CallFields, SharedTyped DEF CallStands
<1>3. CASE shared[calls[c].entry].value = None
  <2>1. PICK call : call = [calls[c] EXCEPT !.step = "read", !.entry = 0]
    OBVIOUS
  <2>2. calls' = [calls EXCEPT ![c] = call]
    BY <1>3, <2>1 DEF Wake
  <2>3. call = [step |-> "read", began |-> calls[c].began, entry |-> 0, broker |-> calls[c].broker,
                locks |-> calls[c].locks, answer |-> calls[c].answer]
    BY <2>1, CallFields
  <2>4. call \in CallRecords(c)
    BY <2>3, CallFields, SharedTyped, CallRecordTyped
  <2>5. CallStands(c, call)
    BY <1>1, <2>3, <2>4, CallFields, SharedTyped DEF CallStands
  <2> QED
    BY <1>1, <2>2, <2>5, QuietCallStep
<1>4. CASE shared[calls[c].entry].value # None
  <2>1. PICK answer : answer = Deepcopy(shared[calls[c].entry].value, c)
    OBVIOUS
  <2>2. answer = <<calls[c].entry, c>>
    <3>1. shared[calls[c].entry].value = <<calls[c].entry, Nobody>>
      BY <1>2, <1>4, SharedTyped
    <3> QED
      BY <2>1, <3>1 DEF Deepcopy
  <2>3. PICK call : call = [calls[c] EXCEPT !.step = "ended", !.answer = answer]
    OBVIOUS
  <2>4. calls' = [calls EXCEPT ![c] = call]
    BY <1>4, <2>1, <2>3 DEF Wake
  <2>5. call = [step |-> "ended", began |-> calls[c].began, entry |-> calls[c].entry, broker |-> calls[c].broker,
                locks |-> calls[c].locks, answer |-> answer]
    BY <2>3, CallFields
  <2>6. answer \in {None} \cup (Nat \X {c})
    BY <2>2, CallFields
  <2>7. call \in CallRecords(c)
    BY <2>5, <2>6, CallFields, SharedTyped, CallRecordTyped
  <2>8. CallStands(c, call)
    BY <2>2, <2>5, <2>7, CallFields, SharedTyped DEF CallStands
  <2> QED
    BY <1>1, <2>4, <2>8, QuietCallStep
<1> QED
  BY <1>3, <1>4

LEMMA BrokerStep ==
    ASSUME SharedInv, NEW c \in Calls, Acquire(c) \/ Answered(c) \/ ReadFails(c)
    PROVE  SharedInv'
<1>1. UNCHANGED <<posNow, shared>> /\ calls[c].step = "read"
  BY DEF Acquire, Answered, ReadFails
<1>2. CASE Acquire(c)
  <2>1. PICK locks, call : locks = calls[c].locks + 1 /\ call = [calls[c] EXCEPT !.locks = locks]
    OBVIOUS
  <2>2. calls' = [calls EXCEPT ![c] = call]
    BY <1>2, <2>1 DEF Acquire
  <2>3. call = [step |-> calls[c].step, began |-> calls[c].began, entry |-> calls[c].entry, broker |-> calls[c].broker,
                locks |-> locks, answer |-> calls[c].answer]
    BY <2>1, CallFields
  <2>4. call \in CallRecords(c)
    <3>1. locks \in Nat
      BY <2>1, CallFields
    <3> QED
      BY <2>3, <3>1, CallFields, CallRecordTyped
  <2>5. CallStands(c, call)
    BY <2>3, <2>4, CallFields, SharedTyped DEF CallStands
  <2> QED
    BY <1>1, <2>2, <2>5, QuietCallStep
<1>3. CASE Answered(c)
  <2>1. PICK broker, call :
          broker = calls[c].broker + 1 /\ call = [calls[c] EXCEPT !.broker = broker, !.locks = 0]
    OBVIOUS
  <2>2. calls' = [calls EXCEPT ![c] = call]
    BY <1>3, <2>1 DEF Answered
  <2>3. call = [step |-> calls[c].step, began |-> calls[c].began, entry |-> calls[c].entry, broker |-> broker,
                locks |-> 0, answer |-> calls[c].answer]
    BY <2>1, CallFields
  <2>4. call \in CallRecords(c)
    <3>1. broker \in Nat
      BY <2>1, CallFields
    <3> QED
      BY <2>3, <3>1, CallFields, CallRecordTyped
  <2>5. CallStands(c, call)
    BY <2>3, <2>4, CallFields, SharedTyped DEF CallStands
  <2> QED
    BY <1>1, <2>2, <2>5, QuietCallStep
<1>4. CASE ReadFails(c)
  <2>1. PICK step, call :
          /\ step = (IF Owns(c) THEN "finished" ELSE "ended")
          /\ call = [calls[c] EXCEPT !.step = step]
    OBVIOUS
  <2>2. calls' = [calls EXCEPT ![c] = call]
    BY <1>4, <2>1 DEF ReadFails
  <2>3. call = [step |-> step, began |-> calls[c].began, entry |-> calls[c].entry, broker |-> calls[c].broker,
                locks |-> calls[c].locks, answer |-> calls[c].answer]
    BY <2>1, CallFields
  <2>4. step \in CallSteps /\ step \in {"finished", "ended"} /\ (step = "finished" => calls[c].entry > 0)
    BY <2>1, SharedTyped DEF Owns
  <2>5. call \in CallRecords(c)
    BY <2>3, <2>4, CallFields, CallRecordTyped
  <2>6. CallStands(c, call)
    BY <2>3, <2>4, <2>5, CallFields, SharedTyped DEF CallStands
  <2> QED
    BY <1>1, <2>2, <2>6, QuietCallStep
<1> QED
  BY <1>2, <1>3, <1>4

(* A read that changes keeps its place among the shared ones. *)
LEMMA ReadChanges ==
    ASSUME SharedInv, NEW entry \in 1..Len(shared), NEW read \in SharedReads,
           shared' = [shared EXCEPT ![entry] = read],
           read.value \in {None, <<entry, Nobody>>},
           read.finished = shared[entry].finished \/ read.finished = posNow
    PROVE  /\ shared' \in Seq(SharedReads) /\ Len(shared') = Len(shared) /\ shared'[entry] = read
           /\ \A e \in 1..Len(shared) :
                shared'[e].finished = shared[e].finished \/ shared'[e].finished = posNow
           /\ \A e \in 1..Len(shared') : shared'[e].value \in {None, <<e, Nobody>>}
<1>1. shared' \in Seq(SharedReads) /\ Len(shared') = Len(shared)
  BY SharedTyped, ExceptSeq
<1>2. shared'[entry] = read /\ \A e \in 1..Len(shared) : e # entry => shared'[e] = shared[e]
  BY SharedTyped, ExceptSeq
<1> QED
  BY <1>1, <1>2, SharedTyped

LEMMA WholeStep ==
    ASSUME SharedInv, NEW c \in Calls, ReadWhole(c)
    PROVE  SharedInv'
<1>1. PICK step, answer, call :
        /\ step = (IF Owns(c) THEN "finished" ELSE "ended") /\ answer = <<calls[c].entry, c>>
        /\ call = [calls[c] EXCEPT !.step = step, !.answer = answer]
  OBVIOUS
<1>2. calls' = [calls EXCEPT ![c] = call] /\ posNow' = posNow /\ calls[c].step = "read"
  BY <1>1 DEF ReadWhole
<1>3. call = [step |-> step, began |-> calls[c].began, entry |-> calls[c].entry, broker |-> calls[c].broker,
              locks |-> calls[c].locks, answer |-> answer]
  BY <1>1, CallFields
<1>4. step \in CallSteps /\ step \in {"finished", "ended"} /\ (step = "finished" => calls[c].entry > 0)
  BY <1>1, SharedTyped DEF Owns
<1>5. call \in CallRecords(c)
  <2>1. answer \in {None} \cup (Nat \X {c})
    BY <1>1, CallFields
  <2> QED
    BY <1>3, <1>4, <2>1, CallFields, CallRecordTyped
<1>6. CallStands(c, call)
  BY <1>1, <1>3, <1>4, <1>5, CallFields, SharedTyped DEF CallStands
<1>7. CASE ~Owns(c)
  <2>1. shared' = shared
    BY <1>7 DEF ReadWhole
  <2> QED
    BY <1>2, <1>6, <2>1, QuietCallStep
<1>8. CASE Owns(c)
  <2>1. PICK entry \in 1..Len(shared) : entry = calls[c].entry
    <3>1. calls[c].entry \in 1..Len(shared)
      BY <1>8, CallFields, SharedTyped DEF Owns, CallStands
    <3> QED
      BY <3>1
  <2>2. PICK value, read : value = <<entry, Nobody>> /\ read = [shared[entry] EXCEPT !.value = value]
    OBVIOUS
  <2>3. read \in SharedReads /\ read.value = <<entry, Nobody>> /\ read.finished = shared[entry].finished
    <3>1. value \in {None} \cup (Nat \X {Nobody})
      BY <2>2
    <3>2. read \in SharedReads /\ read.value = value /\ read.finished = shared[entry].finished
      BY <2>2, <3>1, SharedTyped DEF SharedReads
    <3> QED
      BY <2>2, <3>2
  <2>4. shared' = [shared EXCEPT ![entry] = read]
    BY <1>8, <2>1, <2>2 DEF ReadWhole, Deepcopy
  <2>5. /\ shared' \in Seq(SharedReads) /\ Len(shared') = Len(shared) /\ shared'[entry] = read
        /\ \A e \in 1..Len(shared) : shared'[e].finished = shared[e].finished \/ shared'[e].finished = posNow
        /\ \A e \in 1..Len(shared') : shared'[e].value \in {None, <<e, Nobody>>}
    BY <2>3, <2>4, ReadChanges
  <2>6. call.entry = entry /\ shared'[call.entry].finished = shared[call.entry].finished
    BY <1>3, <2>1, <2>3, <2>5
  <2>7. CallStands(c, call)'
    BY <1>2, <1>6, <2>5, <2>6 DEF CallStands, CallRecords
  <2>8. Len(shared') >= Len(shared)
    BY <2>5, SharedTyped
  <2> QED
    BY <1>2, <2>5, <2>7, <2>8, CallMoves
<1> QED
  BY <1>7, <1>8

LEMMA FinishedStep ==
    ASSUME SharedInv, NEW c \in Calls, SetFinished(c)
    PROVE  SharedInv'
<1>1. PICK call : call = [calls[c] EXCEPT !.step = "announced"]
  OBVIOUS
<1>2. calls' = [calls EXCEPT ![c] = call] /\ posNow' = posNow /\ calls[c].step = "finished"
  BY <1>1 DEF SetFinished
<1>3. call = [step |-> "announced", began |-> calls[c].began, entry |-> calls[c].entry, broker |-> calls[c].broker,
              locks |-> calls[c].locks, answer |-> calls[c].answer]
  BY <1>1, CallFields
<1>4. call \in CallRecords(c)
  BY <1>3, CallFields, SharedTyped, CallRecordTyped
<1>5. PICK entry \in 1..Len(shared) : entry = calls[c].entry
  BY <1>2, CallFields, SharedTyped DEF CallStands
<1>6. PICK read : read = [shared[entry] EXCEPT !.finished = posNow]
  OBVIOUS
<1>7. read \in SharedReads /\ read.value = shared[entry].value /\ read.finished = posNow
  BY <1>5, <1>6, SharedTyped DEF SharedReads
<1>8. shared' = [shared EXCEPT ![entry] = read]
  BY <1>5, <1>6 DEF SetFinished
<1>9. /\ shared' \in Seq(SharedReads) /\ Len(shared') = Len(shared) /\ shared'[entry] = read
      /\ \A e \in 1..Len(shared) : shared'[e].finished = shared[e].finished \/ shared'[e].finished = posNow
      /\ \A e \in 1..Len(shared') : shared'[e].value \in {None, <<e, Nobody>>}
  BY <1>7, <1>8, SharedTyped, ReadChanges
<1>10. /\ call.entry = entry /\ shared'[call.entry].finished = posNow
       /\ call.began \in Nat /\ call.began <= posNow
  BY <1>3, <1>5, <1>7, <1>9, CallFields DEF CallStands
<1>11. posNow >= call.began - SharedSeconds
  BY <1>10, SharedTyped
<1>12. CallStands(c, call)'
  BY <1>2, <1>3, <1>4, <1>9, <1>10, <1>11, CallFields, SharedTyped DEF CallStands, CallRecords
<1>13. Len(shared') >= Len(shared)
  BY <1>9, SharedTyped
<1> QED
  BY <1>2, <1>9, <1>12, <1>13, CallMoves

LEMMA DoneStep ==
    ASSUME SharedInv, NEW c \in Calls, SetDone(c)
    PROVE  SharedInv'
<1>1. PICK call : call = [calls[c] EXCEPT !.step = "ended"]
  OBVIOUS
<1>2. calls' = [calls EXCEPT ![c] = call] /\ posNow' = posNow /\ calls[c].step = "announced"
  BY <1>1 DEF SetDone
<1>3. call = [step |-> "ended", began |-> calls[c].began, entry |-> calls[c].entry, broker |-> calls[c].broker,
              locks |-> calls[c].locks, answer |-> calls[c].answer]
  BY <1>1, CallFields
<1>4. call \in CallRecords(c)
  BY <1>3, CallFields, SharedTyped, CallRecordTyped
<1>5. PICK entry \in 1..Len(shared) : entry = calls[c].entry
  BY <1>2, CallFields, SharedTyped DEF CallStands
<1>6. PICK read : read = [shared[entry] EXCEPT !.done = TRUE]
  OBVIOUS
<1>7. read \in SharedReads /\ read.value = shared[entry].value /\ read.finished = shared[entry].finished
  BY <1>5, <1>6, SharedTyped DEF SharedReads
<1>8. shared' = [shared EXCEPT ![entry] = read]
  BY <1>5, <1>6 DEF SetDone
<1>9. /\ shared' \in Seq(SharedReads) /\ Len(shared') = Len(shared) /\ shared'[entry] = read
      /\ \A e \in 1..Len(shared) : shared'[e].finished = shared[e].finished \/ shared'[e].finished = posNow
      /\ \A e \in 1..Len(shared') : shared'[e].value \in {None, <<e, Nobody>>}
  BY <1>7, <1>8, SharedTyped, ReadChanges
<1>10. call.entry = entry /\ shared'[call.entry].finished = shared[call.entry].finished
  BY <1>3, <1>5, <1>7, <1>9
<1>11. CallStands(c, call)'
  BY <1>2, <1>3, <1>4, <1>9, <1>10, CallFields, SharedTyped DEF CallStands, CallRecords
<1>12. Len(shared') >= Len(shared)
  BY <1>9, SharedTyped
<1> QED
  BY <1>2, <1>9, <1>11, <1>12, CallMoves

LEMMA SharedInvStep ==
    ASSUME SharedInv, [PositionNext]_posVars
    PROVE  SharedInv'
<1>1. ASSUME posNow' \in Nat, posNow' >= posNow, UNCHANGED <<shared, calls>>
      PROVE  SharedInv'
  <2>1. ASSUME NEW c \in Calls
        PROVE  CallStands(c, calls[c])'
    BY <1>1, SharedTyped, NewsKeepsCalls
  <2> QED
    BY <1>1, <2>1 DEF SharedInv
<1>2. CASE UNCHANGED posVars
  BY <1>1, <1>2, SharedTyped DEF posVars
<1>3. CASE PositionTick
  BY <1>1, <1>3, SharedTyped DEF PositionTick
<1>4. ASSUME NEW c \in Calls, EnterAlone(c) \/ Enter(c) \/ Progress(c)
      PROVE  SharedInv'
  BY <1>4, AloneStep, EnterStep, WakeStep, BrokerStep, WholeStep, FinishedStep, DoneStep DEF Progress
<1> QED
  BY <1>2, <1>3, <1>4 DEF PositionNext

(***************************************************************************)
(* A history read in pages.                                                *)
(***************************************************************************)
LEMMA Quotient ==
    ASSUME NEW n \in Nat, NEW d \in Nat, d > 0
    PROVE  /\ n \div d \in Nat
           /\ (n \div d) * d <= n /\ n <= (n \div d + 1) * d - 1
<1>3. n \div d \in Int
  OBVIOUS
<1>4. n % d \in 0..(d - 1)
  OBVIOUS
<1>5. n = d * (n \div d) + (n % d)
  OBVIOUS
<1> DEFINE q == n \div d
           r == n % d
<1>2. q \in Int /\ r \in Int /\ 0 <= r /\ r < d /\ n = d * q + r
  BY <1>3, <1>4, <1>5
<1> HIDE DEF q, r
<1>6. q >= 0
  <2> SUFFICES ASSUME q <= -1 PROVE FALSE
    BY <1>2
  <2>1. d * q <= d * (-1)
    BY <1>2
  <2> QED
    BY <1>2, <2>1
<1>7. d * q = q * d /\ (q + 1) * d = q * d + d
  BY <1>2
<1> QED
  BY <1>2, <1>6, <1>7 DEF q

LEMMA Times ==
    ASSUME NEW a \in Nat, NEW b \in Nat, NEW d \in Nat, d > 0, a * d <= b * d + (d - 1)
    PROVE a <= b
<1> SUFFICES ASSUME a >= b + 1 PROVE FALSE
  OBVIOUS
<1>1. a * d >= (b + 1) * d
  OBVIOUS
<1>2. (b + 1) * d = b * d + d /\ a * d \in Int /\ b * d \in Int
  OBVIOUS
<1> QED
  BY <1>1, <1>2

(* Every row is taken, or in a span still to read, unless there is a doubt. *)
HistoryTyped ==
    /\ rowTime \in [VenueRows -> 0..WindowEnd]
    /\ pending \in Seq(Int \X Int)
    /\ taken \subseteq VenueRows
    /\ historyDone \in BOOLEAN

RowsCovered == \A r \in VenueRows : r \in taken \/ \E i \in 1..Len(pending) : r \in InSpan(pending[i])

HistoryInv ==
    /\ HistoryTyped
    /\ doubts = {} => RowsCovered
    /\ historyDone /\ doubts = {} => pending = <<>>

LEMMA HistoryInvMeans == HistoryInv => HistoryWhole
<1> SUFFICES ASSUME HistoryInv, historyDone, doubts = {} PROVE taken = VenueRows
  BY DEF HistoryWhole
<1>1. RowsCovered /\ pending = <<>> /\ taken \subseteq VenueRows
  BY DEF HistoryInv, HistoryTyped
<1>2. \A i \in 1..Len(pending) : FALSE
  BY <1>1
<1> QED
  BY <1>1, <1>2 DEF RowsCovered

LEMMA HistoryBegin == HistoryInit => HistoryInv
<1> SUFFICES ASSUME HistoryInit PROVE HistoryInv
  OBVIOUS
<1> DEFINE L == SpanLength
           n == Spans
           m == Min({Spans, MaxPages + 1})
<1>1. L \in Nat /\ L > 0 /\ WindowEnd \in Nat /\ MaxPages \in Nat
  BY HistoryAssumption
<1>2. n \in Nat /\ WindowEnd <= n * L - 1
  BY <1>1, Quotient DEF Spans
<1>3. m \in Nat /\ (n <= MaxPages => m = n)
  <2>1. MaxPages + 1 \in Nat
    BY <1>1
  <2>2. m = IF n <= MaxPages + 1 THEN n ELSE MaxPages + 1
    BY <1>2, <2>1 DEF Min
  <2> HIDE DEF m, n
  <2> QED
    BY <1>1, <1>2, <2>1, <2>2
<1>4. /\ rowTime \in [VenueRows -> 0..WindowEnd] /\ pending = [k \in 1..m |-> Span(k - 1)] /\ taken = {} /\ historyDone = FALSE
      /\ doubts = {} => n <= MaxPages
  <2>1. doubts = IF Spans > MaxPages THEN {"PAGE_BUDGET"} ELSE {}
    BY DEF HistoryInit
  <2>2. doubts = {} => ~(n > MaxPages)
    BY <2>1
  <2> QED
    BY <1>1, <1>2, <2>2 DEF HistoryInit
<1> HIDE DEF L, n, m
<1>5. \A k \in Nat : Span(k) \in Int \X Int
  <2> SUFFICES ASSUME NEW k \in Nat PROVE Span(k) \in Int \X Int
    OBVIOUS
  <2>1. k * SpanLength \in Int /\ (k + 1) * SpanLength - 1 \in Int
    BY <1>1 DEF L
  <2>2. Min({WindowEnd, (k + 1) * SpanLength - 1}) \in Int
    BY <1>1, <2>1 DEF Min
  <2> QED
    BY <2>1, <2>2 DEF Span
<1>6. pending \in Seq(Int \X Int) /\ Len(pending) = m
  <2>1. \A k \in 1..m : Span(k - 1) \in Int \X Int
    BY <1>3, <1>5
  <2> QED
    BY <1>3, <1>4, <2>1
<1>7. ASSUME doubts = {}, NEW r \in VenueRows
      PROVE  \E i \in 1..Len(pending) : r \in InSpan(pending[i])
  <2> DEFINE t == rowTime[r]
             k == t \div L
  <2>1. t \in Nat /\ t <= WindowEnd
    BY <1>1, <1>4
  <2>2. k \in Nat /\ k * L <= t /\ t <= (k + 1) * L - 1
    BY <1>1, <2>1, Quotient
  <2> HIDE DEF t, k
  <2>3. k + 1 <= n
    <3> DEFINE b == n - 1
    <3>1. n >= 1
      <4> SUFFICES ASSUME n = 0 PROVE FALSE
        BY <1>2
      <4> QED
        BY <1>1, <1>2
    <3>2. b \in Nat /\ n * L = b * L + L
      BY <1>1, <1>2, <3>1
    <3>3. k * L <= b * L + (L - 1)
      BY <1>1, <1>2, <2>1, <2>2, <3>2
    <3> HIDE DEF b
    <3>4. k <= b
      BY <1>1, <2>2, <3>2, <3>3, Times
    <3> QED
      BY <1>2, <2>2, <3>4 DEF b
  <2>4. k + 1 \in 1..m /\ pending[k + 1] = Span(k)
    BY <1>2, <1>3, <1>4, <1>7, <2>2, <2>3
  <2>5. t <= Min({WindowEnd, (k + 1) * SpanLength - 1}) /\ k * SpanLength <= t
    <3>1. (k + 1) * SpanLength - 1 \in Int
      BY <1>1, <2>2 DEF L
    <3> QED
      BY <1>1, <2>1, <2>2, <3>1 DEF Min, L
  <2>6. r \in InSpan(Span(k))
    BY <2>5 DEF InSpan, Span, t
  <2> QED
    BY <1>6, <2>4, <2>6
<1>8. HistoryTyped
  BY <1>4, <1>6 DEF HistoryTyped
<1> QED
  BY <1>4, <1>7, <1>8 DEF HistoryInv, RowsCovered

(* The halves of a span have the rows of the whole. *)
LEMMA HalvesCover ==
    ASSUME HistoryTyped, NEW span \in Int \X Int
    PROVE  /\ Halves(span) \in Seq(Int \X Int) /\ Len(Halves(span)) = 2
           /\ InSpan(span) \subseteq InSpan(Halves(span)[1]) \cup InSpan(Halves(span)[2])
<1> DEFINE a == span[1]
           b == span[2]
           middle == (a + b) \div 2
<1>1. a \in Int /\ b \in Int
  OBVIOUS
<1>2. middle \in Int
  BY <1>1
<1>3. Halves(span) = <<<<a, middle>>, <<middle + 1, b>>>>
  BY DEF Halves
<1> HIDE DEF a, b, middle
<1>4. <<a, middle>> \in Int \X Int /\ <<middle + 1, b>> \in Int \X Int
  BY <1>1, <1>2
<1>5. \A r \in VenueRows : rowTime[r] \in Int
  BY HistoryAssumption DEF HistoryTyped
<1>6. InSpan(span) \subseteq InSpan(<<a, middle>>) \cup InSpan(<<middle + 1, b>>)
  BY <1>1, <1>2, <1>5 DEF InSpan, a, b
<1> QED
  BY <1>3, <1>4, <1>6

LEMMA ReadPageKeeps ==
    ASSUME NEW got \in SUBSET VenueRows, HistoryInv, ReadPage(got)
    PROVE  HistoryInv'
<1> DEFINE span == Head(pending)
           rest == Tail(pending)
           dense == FullPage(got) /\ span[1] = span[2]
           more == IF FullPage(got) /\ ~dense THEN Halves(span) ELSE <<>>
<1>1. /\ ~historyDone /\ pending # <<>> /\ historyDone' = historyDone /\ rowTime' = rowTime
      /\ got \subseteq InSpan(span) /\ Cardinality(got) = Min({PageSize, Cardinality(InSpan(span))})
      /\ taken' = taken \cup got /\ pending' = more \o rest
      /\ doubts' = IF dense THEN doubts \cup {"DENSE_TIMESTAMP"} ELSE doubts
  BY DEF ReadPage
<1>2. /\ span \in Int \X Int /\ rest \in Seq(Int \X Int) /\ Len(pending) \in Nat /\ Len(pending) > 0
      /\ Len(rest) = Len(pending) - 1 /\ span = pending[1]
      /\ \A i \in 1..Len(rest) : rest[i] = pending[i + 1]
  BY <1>1 DEF HistoryInv, HistoryTyped
<1>3. Halves(span) \in Seq(Int \X Int) /\ Len(Halves(span)) = 2
      /\ InSpan(span) \subseteq InSpan(Halves(span)[1]) \cup InSpan(Halves(span)[2])
  BY <1>2, HalvesCover DEF HistoryInv
<1>4. more \in Seq(Int \X Int)
  BY <1>3, EmptySeq
<1> HIDE DEF rest, more, span
<1>5. /\ pending' \in Seq(Int \X Int) /\ Len(pending') = Len(more) + Len(rest) /\ Len(more) \in Nat /\ Len(rest) \in Nat
      /\ \A i \in 1..Len(more) : pending'[i] = more[i]
      /\ \A i \in 1..Len(rest) : pending'[Len(more) + i] = rest[i]
  <2>1. /\ more \o rest \in Seq(Int \X Int) /\ Len(more \o rest) = Len(more) + Len(rest)
        /\ \A i \in 1..Len(more) + Len(rest) : (more \o rest)[i] = IF i <= Len(more) THEN more[i] ELSE rest[i - Len(more)]
    BY <1>2, <1>4, ConcatProperties
  <2>2. Len(more) \in Nat /\ Len(rest) \in Nat
    BY <1>2, <1>4
  <2>3. ASSUME NEW i \in 1..Len(rest)
        PROVE  (more \o rest)[Len(more) + i] = rest[i]
    <3>1. Len(more) + i \in 1..Len(more) + Len(rest) /\ ~(Len(more) + i <= Len(more)) /\ (Len(more) + i) - Len(more) = i
      BY <2>2
    <3> QED
      BY <2>1, <3>1
  <2>4. \A i \in 1..Len(more) : (more \o rest)[i] = more[i]
    BY <2>1, <2>2
  <2> QED
    BY <1>1, <2>1, <2>2, <2>3, <2>4
<1>6. HistoryTyped'
  BY <1>1, <1>5 DEF HistoryInv, HistoryTyped
<1>7. ASSUME doubts' = {}, NEW r \in VenueRows, r \notin taken'
      PROVE  \E i \in 1..Len(pending') : r \in InSpan(pending[i])'
  <2>1. doubts = {} /\ ~dense
    BY <1>1, <1>7
  <2>2. PICK j \in 1..Len(pending) : r \in InSpan(pending[j])
    BY <1>1, <1>7, <2>1 DEF HistoryInv, RowsCovered
  <2>3. \A s : InSpan(s)' = InSpan(s)
    BY <1>1 DEF InSpan
  <2>4. CASE j > 1
    <3>1. j - 1 \in 1..Len(rest) /\ rest[j - 1] = pending[j]
      <4>1. j \in 1..Len(pending) /\ Len(pending) \in Nat /\ Len(rest) = Len(pending) - 1
        BY <1>2, <2>2
      <4>2. j - 1 \in 1..Len(rest) /\ (j - 1) + 1 = j
        BY <2>4, <4>1
      <4>3. rest[j - 1] = pending[(j - 1) + 1]
        BY <1>2, <4>2
      <4> QED
        BY <4>2, <4>3
    <3>2. pending'[Len(more) + (j - 1)] = pending[j]
      BY <1>5, <3>1
    <3>3. Len(more) + (j - 1) \in 1..Len(pending')
      <4>1. Len(pending') = Len(more) + Len(rest) /\ Len(more) \in Nat /\ Len(rest) \in Nat
        BY <1>5
      <4> QED
        BY <3>1, <4>1
    <3> QED
      BY <2>2, <2>3, <3>2, <3>3
  <2>5. CASE j = 1
    <3>1. r \in InSpan(span) /\ r \notin got
      BY <1>1, <1>2, <1>7, <2>2, <2>5
    <3>2. FullPage(got)
      <4> SUFFICES ASSUME ~FullPage(got) PROVE FALSE
        OBVIOUS
      <4>1. IsFiniteSet(InSpan(span))
        BY HistoryAssumption, FS_Subset DEF InSpan
      <4>2. Cardinality(InSpan(span)) \in Nat /\ Cardinality(got) \in Nat /\ PageSize \in Nat
        BY <1>1, <4>1, FS_Subset, FS_CardinalityType, HistoryAssumption
      <4>3. Cardinality(got) = Cardinality(InSpan(span))
        BY <1>1, <4>2 DEF FullPage, Min
      <4>4. got = InSpan(span)
        BY <1>1, <4>1, <4>3, FS_Subset
      <4> QED
        BY <3>1, <4>4
    <3>3. more = Halves(span)
      BY <2>1, <3>2 DEF more
    <3>4. PICK i \in 1..2 : r \in InSpan(Halves(span)[i])
      BY <1>3, <3>1
    <3>5. i \in 1..Len(pending')
      <4>1. Len(pending') = Len(more) + Len(rest) /\ Len(more) = 2 /\ Len(rest) \in Nat
        BY <1>3, <1>5, <3>3
      <4> QED
        BY <4>1
    <3>6. pending'[i] = Halves(span)[i]
      BY <1>3, <1>5, <3>3
    <3> QED
      BY <2>3, <3>4, <3>5, <3>6
  <2> QED
    BY <1>2, <2>2, <2>4, <2>5
<1>8. RowsCovered' \/ doubts' # {}
  BY <1>7 DEF RowsCovered
<1> QED
  BY <1>1, <1>6, <1>8 DEF HistoryInv

LEMMA HistoryInvStep == HistoryInv /\ [HistoryNext]_historyVars => HistoryInv'
<1> SUFFICES ASSUME HistoryInv, [HistoryNext]_historyVars PROVE HistoryInv'
  OBVIOUS
<1>1. CASE UNCHANGED historyVars
  BY <1>1 DEF historyVars, HistoryInv, HistoryTyped, RowsCovered, InSpan
<1>2. ASSUME NEW got \in SUBSET VenueRows, ReadPage(got) PROVE HistoryInv'
  BY <1>2, ReadPageKeeps
<1>3. CASE FailPage
  <2>1. doubts' # {} /\ UNCHANGED <<rowTime, pending, taken>> /\ historyDone' = TRUE
    BY <1>3 DEF FailPage
  <2> QED
    BY <2>1 DEF HistoryInv, HistoryTyped
<1>4. CASE EndHistory
  <2>1. UNCHANGED <<rowTime, pending, taken>> /\ historyDone' = TRUE /\ doubts' = IF pending = <<>> THEN doubts ELSE doubts \cup {"PAGE_BUDGET"}
    BY <1>4 DEF EndHistory
  <2>2. doubts' = {} => doubts = {} /\ pending' = <<>>
    BY <2>1
  <2>3. RowsCovered => RowsCovered'
    BY <2>1 DEF RowsCovered, InSpan
  <2> QED
    BY <2>1, <2>2, <2>3 DEF HistoryInv, HistoryTyped
<1> QED
  BY <1>1, <1>2, <1>3, <1>4 DEF HistoryNext

(***************************************************************************)
(* The value of perpetuals accounts.                                       *)
(***************************************************************************)
Names == {"main", "spot"} \cup Range(Named)

(* What was read of the account is its own mode, all its exchanges if the    *)
(* discovery is whole, and of each in turn its name or nothing.              *)
FoundTyped ==
    found \in [mode : Modes \cup {Unreadable}, dexes : Seq(Names), whole : BOOLEAN,
               spot : {"spot", Unreadable}, equity : Seq(Names \cup {Unreadable})]

FoundOwn ==
    /\ found.mode = Unreadable \/ found.mode = perpMode[Address]
    /\ found.whole => found.dexes = <<"main">> \o listed
    /\ perpStep # "exchanges" => found.equity = <<>>
    /\ Len(found.equity) <= Len(found.dexes)
    /\ \A i \in 1..Len(found.equity) : found.equity[i] \in {found.dexes[i], Unreadable}

ValueInv ==
    /\ listed \in Seq(Names)
    /\ perpMode \in [Range(Wallets) -> Modes]
    /\ perpStep \in {"mode", "discover", "spot", "exchanges"}
    /\ wallet \in Nat /\ wallet > 0
    /\ values \in Seq(UNION {Seq(Names \cup {Unreadable}), {Unreadable}}) /\ Len(values) = wallet - 1
    /\ FoundTyped /\ FoundOwn
    /\ ValueWhole

LEMMA NothingTyped == /\ <<"main">> \in Seq(Names) /\ <<"spot">> \in Seq(Names)
                      /\ <<>> \in Seq(Names) /\ <<>> \in Seq(Names \cup {Unreadable}) /\ Len(<<"main">>) = 1
<1>1. <<>> \in Seq(Names) /\ <<>> \in Seq(Names \cup {Unreadable})
  BY EmptySeq
<1>2. "main" \in Names /\ "spot" \in Names
  BY DEF Names
<1>3. <<"main">> \in Seq(Names) /\ <<"spot">> \in Seq(Names) /\ Len(<<"main">>) = 1
  BY <1>2
<1> QED
  BY <1>1, <1>3

LEMMA ValuesBegin == PerpInit => ValueInv
<1> SUFFICES ASSUME PerpInit PROVE ValueInv
  OBVIOUS
<1>1. listed \in Seq(Names)
  <2>1. PICK n \in 0..Len(Named) : listed = SubSeq(Named, 1, n)
    BY DEF PerpInit
  <2>2. Named \in Seq(Names)
    BY PerpAssumption, SeqMonotonic DEF Names
  <2> QED
    BY <2>1, <2>2
<1>2. found = NothingRead /\ values = <<>> /\ wallet = 1 /\ perpStep = "mode" /\ perpMode \in [Range(Wallets) -> Modes]
  BY DEF PerpInit
<1>3. FoundTyped /\ FoundOwn
  <2>1. found = [mode |-> Unreadable, dexes |-> <<"main">>, whole |-> FALSE, spot |-> Unreadable, equity |-> <<>>]
    BY <1>2 DEF NothingRead
  <2> QED
    BY <2>1, NothingTyped DEF FoundTyped, FoundOwn
<1>4. ValueWhole
  BY <1>2 DEF ValueWhole
<1> QED
  BY <1>1, <1>2, <1>3, <1>4 DEF ValueInv

(* What a value adds up, when it is one. *)
LEMMA ValueIsHoldings ==
    ASSUME ValueInv, wallet <= Len(Wallets), Len(found.equity) = Len(found.dexes), AccountValue # Unreadable
    PROVE  perpMode[Address] \in Supported /\ AccountValue = Holdings(Address)
<1>1. found.mode \in Supported /\ found.spot # Unreadable /\ found.whole
  BY DEF AccountValue
<1>2. found.mode # Unreadable
  BY <1>1, PerpAssumption
<1>3. found.mode = perpMode[Address] /\ found.spot = "spot" /\ found.dexes = <<"main">> \o listed
  BY <1>1, <1>2 DEF ValueInv, FoundOwn, FoundTyped
<1>4. CASE found.mode = "unifiedAccount"
  BY <1>1, <1>3, <1>4 DEF AccountValue, Holdings
<1>5. CASE found.mode # "unifiedAccount"
  <2>1. Equity # Unreadable
    BY <1>1, <1>5 DEF AccountValue
  <2>2. Unreadable \notin Range(found.equity) /\ Equity = found.equity
    BY <2>1 DEF Equity
  <2>3. found.equity \in Seq(Names \cup {Unreadable}) /\ found.dexes \in Seq(Names)
    BY DEF ValueInv, FoundTyped
  <2>4. ASSUME NEW i \in 1..Len(found.equity)
        PROVE  found.equity[i] = found.dexes[i]
    <3>1. found.equity[i] \in Range(found.equity)
      BY <2>3 DEF Range
    <3> QED
      BY <3>1, <2>2 DEF ValueInv, FoundOwn
  <2>5. found.equity = found.dexes
    <3> DEFINE a == found.equity
               b == found.dexes
    <3>1. a \in Seq(Names \cup {Unreadable}) /\ b \in Seq(Names \cup {Unreadable}) /\ Len(a) = Len(b)
      BY <2>3
    <3>2. \A i \in 1..Len(a) : a[i] = b[i]
      BY <2>4
    <3> HIDE DEF a, b
    <3>3. a = b
      BY <3>1, <3>2, SeqEqual
    <3> QED
      BY <3>3 DEF a, b
  <2> QED
    BY <1>1, <1>3, <1>5, <2>2, <2>5 DEF AccountValue, Holdings
<1> QED
  BY <1>1, <1>3, <1>4, <1>5

(* While an account is read, those published stay. *)
LEMMA ReadingKeeps ==
    ASSUME NEW step \in {"mode", "discover", "spot", "exchanges"}, NEW ok \in BOOLEAN, ValueInv, Reading(step, ok),
           FoundTyped', FoundOwn', perpStep' \in {"mode", "discover", "spot", "exchanges"}
    PROVE  ValueInv'
<1>1. UNCHANGED <<listed, perpMode, wallet, values>>
  BY DEF Reading
<1>2. ValueWhole'
  BY <1>1 DEF ValueInv, ValueWhole, Holdings
<1> QED
  BY <1>1, <1>2 DEF ValueInv

LEMMA ReadModeKeeps ==
    ASSUME NEW ok \in BOOLEAN, ValueInv, ReadMode(ok)
    PROVE  ValueInv'
<1>1. UNCHANGED <<listed, perpMode, wallet, values>> /\ wallet <= Len(Wallets) /\ Reading("mode", ok)
  BY DEF ReadMode, Reading
<1>2. /\ found' = [mode |-> IF ok THEN perpMode[Address] ELSE Unreadable, dexes |-> <<"main">>, whole |-> FALSE,
                   spot |-> Unreadable, equity |-> <<>>]
      /\ perpStep' = "discover"
  BY DEF ReadMode, NothingRead
<1>3. perpMode[Address] \in Modes
  BY <1>1, PerpAssumption DEF ValueInv, Address, Range
<1>4. FoundTyped' /\ FoundOwn'
  BY <1>1, <1>2, <1>3, NothingTyped DEF FoundTyped, FoundOwn, Address
<1> QED
  BY <1>1, <1>2, <1>4, ReadingKeeps

LEMMA DiscoverKeeps ==
    ASSUME NEW ok \in BOOLEAN, ValueInv, Discover(ok)
    PROVE  ValueInv'
<1>1. UNCHANGED <<listed, perpMode, wallet, values>> /\ Reading("discover", ok) /\ perpStep = "discover" /\ perpStep' = "spot"
  BY DEF Discover, Reading
<1>2. CASE ok
  <2> DEFINE names == SubSeq(listed, 1, Min({MaxNamed, Len(listed)}))
  <2>1. Min({MaxNamed, Len(listed)}) \in Nat /\ Min({MaxNamed, Len(listed)}) <= Len(listed)
        /\ (Len(listed) <= MaxNamed => Min({MaxNamed, Len(listed)}) = Len(listed))
    BY PerpAssumption DEF ValueInv, Min
  <2>2. names \in Seq(Names) /\ (Len(listed) <= MaxNamed => names = listed)
    <3>1. listed \in Seq(Names) /\ listed = SubSeq(listed, 1, Len(listed))
      BY DEF ValueInv
    <3> DEFINE m == Min({MaxNamed, Len(listed)})
    <3>2. m \in Nat /\ m <= Len(listed) /\ (Len(listed) <= MaxNamed => m = Len(listed))
      BY <2>1
    <3> HIDE DEF m
    <3>3. SubSeq(listed, 1, m) \in Seq(Names)
      <4>1. \A i \in 1..m : listed[i] \in Names
        <5>1. listed \in Seq(Names)
          BY DEF ValueInv
        <5>2. \A i \in 1..Len(listed) : listed[i] \in Names
          BY <5>1
        <5> QED
          BY <5>1, <5>2, <3>2
      <4> QED
        BY <3>2, <4>1, SubSeqProperties
    <3>4. Len(listed) <= MaxNamed => SubSeq(listed, 1, m) = listed
      BY <3>1, <3>2
    <3> QED
      BY <3>3, <3>4 DEF m
  <2>3. found' = [mode |-> found.mode, dexes |-> <<"main">> \o names, whole |-> Len(listed) <= MaxNamed, spot |-> found.spot, equity |-> found.equity]
    BY <1>2 DEF Discover, AllDiscovered, ValueInv, FoundTyped
  <2> HIDE DEF names
  <2>4. found.equity = <<>>
    BY <1>1 DEF ValueInv, FoundOwn
  <2>7. <<"main">> \o names \in Seq(Names) /\ (Len(listed) <= MaxNamed) \in BOOLEAN
    BY <2>2, NothingTyped, ConcatProperties
  <2>5. FoundTyped'
    BY <2>7, <2>2, <2>3, <2>4 DEF ValueInv, FoundTyped
  <2>6. FoundOwn'
    <3>1. found'.whole => found'.dexes = <<"main">> \o listed
      BY <2>2, <2>3
    <3>2. Len(found'.equity) = 0
      BY <2>3, <2>4
    <3>3. Len(found'.dexes) \in Nat
      BY <2>3, <2>7
    <3>4. found'.mode = Unreadable \/ found'.mode = perpMode[Address]
      BY <2>3 DEF ValueInv, FoundOwn
    <3> QED
      BY <1>1, <2>3, <2>4, <3>1, <3>2, <3>3, <3>4 DEF FoundOwn, Address
  <2> QED
    BY <1>1, <2>5, <2>6, ReadingKeeps
<1>3. CASE ~ok
  <2>1. found' = found
    BY <1>3 DEF Discover
  <2>2. FoundTyped' /\ FoundOwn'
    BY <1>1, <2>1 DEF ValueInv, FoundTyped, FoundOwn, Address
  <2> QED
    BY <1>1, <2>2, ReadingKeeps
<1> QED
  BY <1>2, <1>3

LEMMA ReadSpotKeeps ==
    ASSUME NEW ok \in BOOLEAN, ValueInv, ReadSpot(ok)
    PROVE  ValueInv'
<1>1. UNCHANGED <<listed, perpMode, wallet, values>> /\ Reading("spot", ok) /\ perpStep = "spot" /\ perpStep' = "exchanges"
  BY DEF ReadSpot, Reading
<1>2. found' = [mode |-> found.mode, dexes |-> found.dexes, whole |-> found.whole,
                spot |-> IF ok THEN "spot" ELSE Unreadable, equity |-> found.equity]
  BY DEF ReadSpot, ValueInv, FoundTyped
<1>3. FoundTyped' /\ FoundOwn'
  BY <1>1, <1>2 DEF ValueInv, FoundTyped, FoundOwn, Address
<1> QED
  BY <1>1, <1>3, ReadingKeeps

LEMMA ReadExchangeKeeps ==
    ASSUME NEW ok \in BOOLEAN, NEW valued \in BOOLEAN, ValueInv, ReadExchange(ok, valued)
    PROVE  ValueInv'
<1>1. /\ UNCHANGED <<listed, perpMode, wallet, values>> /\ Reading("exchanges", ok)
      /\ perpStep = "exchanges" /\ perpStep' = perpStep
  BY DEF ReadExchange, Reading
<1> DEFINE n == Len(found.equity)
           dex == found.dexes[n + 1]
           amount == IF ok /\ valued THEN dex ELSE Unreadable
<1>2. n \in Nat /\ n < Len(found.dexes) /\ dex \in Names /\ found.equity \in Seq(Names \cup {Unreadable})
  BY DEF ReadExchange, ValueInv, FoundTyped
<1>3. found' = [mode |-> found.mode, dexes |-> found.dexes, whole |-> (found.whole /\ ok),
                spot |-> found.spot, equity |-> Append(found.equity, amount)]
  BY DEF ReadExchange, ValueInv, FoundTyped
<1>4. amount \in {dex, Unreadable} /\ amount \in Names \cup {Unreadable}
  BY <1>2
<1> HIDE DEF amount
<1>5. /\ Append(found.equity, amount) \in Seq(Names \cup {Unreadable})
      /\ Len(Append(found.equity, amount)) = n + 1 /\ Append(found.equity, amount)[n + 1] = amount
      /\ \A i \in 1..n : Append(found.equity, amount)[i] = found.equity[i]
  BY <1>2, <1>4
<1>6. FoundTyped'
  BY <1>3, <1>5 DEF ValueInv, FoundTyped
<1>7. FoundOwn'
  <2>1. Len(found'.equity) <= Len(found'.dexes)
    BY <1>2, <1>3, <1>5 DEF ValueInv, FoundTyped
  <2>2. ASSUME NEW i \in 1..Len(found'.equity)
        PROVE  found'.equity[i] \in {found'.dexes[i], Unreadable}
    <3>1. CASE i = n + 1
      BY <1>3, <1>4, <1>5, <3>1
    <3>2. CASE i \in 1..n
      BY <1>3, <1>5, <3>2 DEF ValueInv, FoundOwn
    <3> QED
      BY <1>2, <1>3, <1>5, <3>1, <3>2
  <2> QED
    BY <1>1, <1>3, <2>1, <2>2 DEF ValueInv, FoundOwn, Address
<1> QED
  BY <1>1, <1>6, <1>7, ReadingKeeps

LEMMA PublishKeeps ==
    ASSUME ValueInv, Publish
    PROVE  ValueInv'
<1>1. /\ values' = Append(values, AccountValue) /\ wallet' = wallet + 1 /\ perpStep' = "mode" /\ found' = NothingRead
      /\ listed' = listed /\ perpMode' = perpMode /\ wallet <= Len(Wallets) /\ Len(found.equity) = Len(found.dexes)
  BY DEF Publish
<1>2. AccountValue \in UNION {Seq(Names \cup {Unreadable}), {Unreadable}}
  <2>1. CASE AccountValue = Unreadable
    BY <2>1
  <2>2. CASE AccountValue # Unreadable
    <3>1. AccountValue = Holdings(Address)
      BY <1>1, <2>2, ValueIsHoldings
    <3>2. Holdings(Address) \in Seq(Names)
      BY NothingTyped, ConcatProperties DEF Holdings, ValueInv
    <3>3. Holdings(Address) \in Seq(Names \cup {Unreadable})
      BY <3>2
    <3> QED
      BY <3>1, <3>3
  <2> QED
    BY <2>1, <2>2
<1> DEFINE v == AccountValue
           V == UNION {Seq(Names \cup {Unreadable}), {Unreadable}}
<1>3. values \in Seq(V) /\ v \in V /\ Len(values) = wallet - 1 /\ values' = Append(values, v) /\ wallet \in Nat /\ wallet > 0
  BY <1>1, <1>2 DEF ValueInv
<1>4. (v # Unreadable) => (perpMode[Wallets[wallet]] \in Supported /\ v = Holdings(Wallets[wallet]))
  BY <1>1, ValueIsHoldings DEF Address
<1> HIDE DEF v, V
<1>5. values' \in Seq(V) /\ Len(values') = wallet /\ \A i \in 1..wallet : values'[i] = IF i = wallet THEN v ELSE values[i]
  BY <1>3
<1>6. ValueWhole'
  <2> SUFFICES ASSUME NEW i \in DOMAIN values', values'[i] # Unreadable
               PROVE  perpMode[Wallets[i]] \in Supported /\ values'[i] = Holdings(Wallets[i])
    BY <1>1 DEF ValueWhole, Holdings
  <2>1. i \in 1..wallet
    BY <1>5
  <2>2. CASE i = wallet
    BY <1>4, <1>5, <2>1, <2>2
  <2>3. CASE i # wallet
    <3>1. i \in DOMAIN values /\ values'[i] = values[i]
      BY <1>3, <1>5, <2>1, <2>3
    <3> QED
      BY <3>1 DEF ValueInv, ValueWhole
  <2> QED
    BY <2>2, <2>3
<1>7. FoundTyped' /\ FoundOwn'
  <2>1. found' = [mode |-> Unreadable, dexes |-> <<"main">>, whole |-> FALSE, spot |-> Unreadable, equity |-> <<>>]
    BY <1>1 DEF NothingRead
  <2> QED
    BY <2>1, NothingTyped DEF FoundTyped, FoundOwn
<1> QED
  BY <1>1, <1>3, <1>5, <1>6, <1>7 DEF ValueInv, V

LEMMA ValueInvStep == ValueInv /\ [PerpNext]_perpVars => ValueInv'
<1> SUFFICES ASSUME ValueInv, [PerpNext]_perpVars PROVE ValueInv'
  OBVIOUS
<1>1. CASE UNCHANGED perpVars
  BY <1>1 DEF perpVars, ValueInv, FoundTyped, FoundOwn, Address, ValueWhole, Holdings
<1>2. CASE PerpNext
  BY <1>2, ReadModeKeeps, DiscoverKeeps, ReadSpotKeeps, ReadExchangeKeeps, PublishKeeps DEF PerpNext
<1> QED
  BY <1>1, <1>2

(* A finite set as a sequence: each element once. *)
LEMMA SetAsSeq ==
    ASSUME NEW S, IsFiniteSet(S)
    PROVE  /\ SetToSeq(S) \in Seq(S) /\ Len(SetToSeq(S)) \in Nat
           /\ \A i, j \in 1..Len(SetToSeq(S)) : SetToSeq(S)[i] = SetToSeq(S)[j] => i = j
           /\ \A e \in S : \E i \in 1..Len(SetToSeq(S)) : SetToSeq(S)[i] = e
<1> DEFINE n == Cardinality(S)
           f == SetToSeq(S)
<1>1. n \in Nat /\ ExistsBijection(1..n, S)
  BY FS_CardinalityType
<1>2. \E g \in [1..n -> S] : IsInjective(g)
  BY <1>1 DEF ExistsBijection, Bijection, Injection
<1>3. f \in [1..n -> S] /\ IsInjective(f)
  BY <1>2 DEF SetToSeq
<1>4. f \in Injection(1..n, S)
  BY <1>3 DEF Injection
<1>5. Cardinality(1..n) = n
  BY <1>1, FS_Interval
<1>6. f \in Surjection(1..n, S)
  BY <1>4, <1>5, FS_Injection
<1>7. f \in Seq(S) /\ Len(f) = n
  BY <1>1, <1>3
<1> QED
  BY <1>1, <1>3, <1>6, <1>7 DEF IsInjective, Surjection

(***************************************************************************)
(* A trade history read under continuation marks.                          *)
(***************************************************************************)
InDays == {t \in Trades : FromDay <= DayOfTrade[t] /\ DayOfTrade[t] <= ToDay}

Segment == {"older", "recent"} \X Int \X Int

Queries == [exchanges : {"all", "one"}, at : Nat, cursor : Int, seen : SUBSET Int, bodies : Seq(Seq(Trades))]

PagesTyped ==
    /\ recentFrom \in Int /\ oneExchange \in BOOLEAN
    /\ segments \in Seq(Segment)
    /\ query \in Queries
    /\ history \in [trades : Seq(Trades), truncated : BOOLEAN, end : {"no", "done", "failed"}]

(* Requests cover the days, and ask for no others. *)
DaysCovered ==
    /\ \A i \in 1..Len(segments) : DaysOf(segments[i]) \subseteq InDays
    /\ ~history.truncated => \A t \in InDays :
          t \in Range(history.trades) \/ \E i \in 1..Len(segments) : t \in DaysOf(segments[i])

(* What a request has shown so far is kept. *)
BodiesKept ==
    segments # <<>> =>
        /\ Gathered(query.bodies) \subseteq DaysOf(Head(segments))
        /\ \A i \in 1..Len(Served) : i <= query.at => Served[i] \in Gathered(query.bodies)
        /\ query.at = 0 \/ query.at < Len(Served)

PagesInv ==
    /\ PagesTyped /\ DaysCovered /\ BodiesKept
    /\ Range(history.trades) \subseteq InDays
    /\ \A i, j \in 1..Len(history.trades) : history.trades[i] = history.trades[j] => i = j
    /\ history.end = "done" => segments = <<>>

LEMMA PagesInvMeans == PagesInv => PagesWhole
<1> SUFFICES ASSUME PagesInv PROVE PagesWhole
  OBVIOUS
<1>1. history.trades \in Seq(Trades) /\ DOMAIN history.trades = 1..Len(history.trades)
  BY DEF PagesInv, PagesTyped
<1>2. ASSUME history.end = "done", ~history.truncated
      PROVE  InDays \subseteq Range(history.trades)
  <2>1. segments = <<>>
    BY <1>2 DEF PagesInv
  <2>2. \A i \in 1..Len(segments) : FALSE
    BY <2>1
  <2> QED
    BY <1>2, <2>2 DEF PagesInv, DaysCovered
<1> QED
  BY <1>1, <1>2 DEF PagesInv, PagesWhole, InDays

LEMMA NewQueryKept ==
    ASSUME NEW exchanges \in {"all", "one"}
    PROVE  /\ NewQuery(exchanges) \in Queries /\ NewQuery(exchanges).at = 0
           /\ Gathered(NewQuery(exchanges).bodies) = {}
<1>1. NewQuery(exchanges) = [exchanges |-> exchanges, at |-> 0, cursor |-> 0, seen |-> {}, bodies |-> <<>>]
  BY DEF NewQuery
<1>2. DOMAIN <<>> = {} /\ <<>> \in Seq(Seq(Trades))
  BY EmptySeq
<1>3. NewQuery(exchanges).bodies = <<>> /\ NewQuery(exchanges).at = 0
  BY <1>1
<1>4. NewQuery(exchanges) \in Queries
  BY <1>1, <1>2 DEF Queries
<1> QED
  BY <1>2, <1>3, <1>4 DEF Gathered

LEMMA SplitCovers ==
    ASSUME recentFrom \in Int
    PROVE  /\ SplitByRecency(recentFrom) \in Seq(Segment)
           /\ \A i \in 1..Len(SplitByRecency(recentFrom)) : DaysOf(SplitByRecency(recentFrom)[i]) \subseteq InDays
           /\ \A t \in InDays : \E i \in 1..Len(SplitByRecency(recentFrom)) : t \in DaysOf(SplitByRecency(recentFrom)[i])
<1> DEFINE b == recentFrom
           split == SplitByRecency(b)
<1>1. FromDay \in Int /\ ToDay \in Int /\ b \in Int /\ \A t \in Trades : DayOfTrade[t] \in Int
  BY PagesAssumption
<1>2. CASE FromDay >= b
  <2>1. split = <<<<"recent", FromDay, ToDay>>>>
    BY <1>1, <1>2 DEF SplitByRecency
  <2>2. <<"recent", FromDay, ToDay>> \in Segment
    BY <1>1 DEF Segment
  <2>3. DaysOf(<<"recent", FromDay, ToDay>>) = InDays
    BY <1>1, <1>2 DEF DaysOf, InDays
  <2> QED
    BY <2>1, <2>2, <2>3
<1>3. CASE ~(FromDay >= b) /\ ToDay < b
  <2>1. split = <<<<"older", FromDay, ToDay>>>>
    BY <1>3 DEF SplitByRecency
  <2>2. <<"older", FromDay, ToDay>> \in Segment
    BY <1>1 DEF Segment
  <2>3. DaysOf(<<"older", FromDay, ToDay>>) = InDays
    BY <1>1, <1>3 DEF DaysOf, InDays
  <2> QED
    BY <2>1, <2>2, <2>3
<1>4. CASE ~(FromDay >= b) /\ ~(ToDay < b)
  <2>1. split = <<<<"older", FromDay, b - 1>>, <<"recent", b, ToDay>>>>
    BY <1>4 DEF SplitByRecency, SplitDays
  <2>2. <<"older", FromDay, b - 1>> \in Segment /\ <<"recent", b, ToDay>> \in Segment
    BY <1>1 DEF Segment
  <2>3. /\ DaysOf(<<"older", FromDay, b - 1>>) \cup DaysOf(<<"recent", b, ToDay>>) = InDays
    BY <1>1, <1>4 DEF DaysOf, InDays
  <2> DEFINE s1 == <<"older", FromDay, b - 1>>
             s2 == <<"recent", b, ToDay>>
  <2>4. split = <<s1, s2>> /\ s1 \in Segment /\ s2 \in Segment /\ DaysOf(s1) \cup DaysOf(s2) = InDays
    BY <2>1, <2>2, <2>3
  <2> HIDE DEF s1, s2, split
  <2>5. Len(split) = 2 /\ split[1] = s1 /\ split[2] = s2 /\ split \in Seq(Segment)
    BY <2>4
  <2> QED
    BY <2>4, <2>5 DEF split
<1> QED
  BY <1>2, <1>3, <1>4

LEMMA PagesBegin == PagesInit => PagesInv
<1> SUFFICES ASSUME PagesInit PROVE PagesInv
  OBVIOUS
<1>1. /\ recentFrom \in Int /\ oneExchange \in BOOLEAN /\ segments = SplitByRecency(recentFrom)
      /\ query = NewQuery("all") /\ history = [trades |-> <<>>, truncated |-> FALSE, end |-> "no"]
  BY PagesAssumption DEF PagesInit
<1>2. Gathered(query.bodies) = {} /\ query.at = 0 /\ query \in Queries
  BY <1>1, NewQueryKept
<1>3. PagesTyped
  <2>1. segments \in Seq(Segment)
    BY <1>1, SplitCovers
  <2>2. history \in [trades : Seq(Trades), truncated : BOOLEAN, end : {"no", "done", "failed"}]
    BY <1>1, EmptySeq
  <2> QED
    BY <1>1, <1>2, <2>1, <2>2 DEF PagesTyped
<1>4. DaysCovered
  BY <1>1, SplitCovers DEF DaysCovered
<1>5. BodiesKept
  BY <1>2 DEF BodiesKept
<1>6. history.trades = <<>> /\ Range(history.trades) = {} /\ history.end = "no"
  BY <1>1 DEF Range
<1>7. \A i, j \in 1..Len(history.trades) : FALSE
  BY <1>6
<1> QED
  BY <1>3, <1>4, <1>5, <1>6, <1>7 DEF PagesInv

(* A request that ends has added its trades; unless it was cut short, all.   *)
LEMMA CloseKeeps ==
    ASSUME NEW bodies \in Seq(Seq(Trades)), NEW cut \in BOOLEAN, PagesInv, Collecting, CloseQuery(bodies, cut),
           UNCHANGED <<recentFrom, oneExchange>>,
           Gathered(bodies) \subseteq DaysOf(Head(segments)),
           ~cut => DaysOf(Head(segments)) \subseteq Gathered(bodies)
    PROVE  PagesInv'
<1> DEFINE new == Gathered(bodies) \ Range(history.trades)
           added == SetToSeq(new)
           trades == history.trades
           first == Head(segments)
<1>1. /\ history' = [history EXCEPT !.trades = @ \o added, !.truncated = @ \/ cut, !.end = IF Len(segments) = 1 THEN "done" ELSE "no"]
      /\ segments' = Tail(segments) /\ query' = NewQuery("all") /\ UNCHANGED <<recentFrom, oneExchange>>
  <2>1. /\ history' = [history EXCEPT !.trades = @ \o added, !.truncated = @ \/ cut, !.end = IF Len(segments) = 1 THEN "done" ELSE "no"]
        /\ segments' = Tail(segments) /\ query' = NewQuery("all")
    BY DEF CloseQuery
  <2> QED
    BY <2>1
<1>2. /\ segments \in Seq(Segment) /\ segments # <<>> /\ first \in Segment /\ first = segments[1]
      /\ Tail(segments) \in Seq(Segment) /\ Len(segments) \in Nat /\ Len(segments) > 0 /\ Len(Tail(segments)) = Len(segments) - 1
      /\ \A i \in 1..Len(Tail(segments)) : Tail(segments)[i] = segments[i + 1]
  BY DEF PagesInv, PagesTyped, Collecting
<1>3. DaysOf(first) \subseteq InDays /\ Gathered(bodies) \subseteq Trades
  <2>1. 1 \in 1..Len(segments)
    BY <1>2
  <2>2. DaysOf(first) \subseteq InDays
    BY <1>2, <2>1 DEF PagesInv, DaysCovered
  <2> QED
    BY <2>2 DEF InDays
<1>4. IsFiniteSet(new)
  BY <1>3, PagesAssumption, FS_Subset
<1>5. /\ added \in Seq(new) /\ Len(added) \in Nat
      /\ \A i, j \in 1..Len(added) : added[i] = added[j] => i = j
      /\ \A e \in new : \E i \in 1..Len(added) : added[i] = e
  BY <1>4, SetAsSeq
<1>10. new \subseteq InDays /\ new \cap Range(trades) = {}
  BY <1>3
<1> HIDE DEF new, added, first
<1>6. /\ trades \in Seq(Trades) /\ Len(trades) \in Nat /\ history.truncated \in BOOLEAN
      /\ \A i, j \in 1..Len(trades) : trades[i] = trades[j] => i = j
      /\ Range(trades) \subseteq InDays
  BY DEF PagesInv, PagesTyped
<1>7. added \in Seq(Trades)
  BY <1>5, <1>10, SeqMonotonic DEF InDays
<1>8. Range(added) = new
  <2>1. DOMAIN added = 1..Len(added) /\ \A i \in 1..Len(added) : added[i] \in new
    BY <1>5
  <2> QED
    BY <1>5, <2>1 DEF Range
<1>9. history' = [trades |-> trades \o added, truncated |-> (history.truncated \/ cut), end |-> IF Len(segments) = 1 THEN "done" ELSE "no"]
  BY <1>1 DEF PagesInv, PagesTyped
<1>11. trades \o added \in Seq(Trades) /\ Range(trades \o added) = Range(trades) \cup new
  BY <1>6, <1>7, <1>8, RangeConcatenation, ConcatProperties
<1>12. query'.at = 0 /\ query' \in Queries /\ Gathered(query'.bodies) = {}
  BY <1>1, NewQueryKept
<1>13. PagesTyped'
  <2>1. history' \in [trades : Seq(Trades), truncated : BOOLEAN, end : {"no", "done", "failed"}]
    BY <1>6, <1>9, <1>11
  <2> QED
    BY <1>1, <1>2, <1>12, <2>1 DEF PagesInv, PagesTyped, Queries, Segment
<1>14. \A s : DaysOf(s)' = DaysOf(s)
  BY <1>1 DEF DaysOf
<1>15. DaysCovered'
  <2>1. ASSUME NEW i \in 1..Len(segments') PROVE DaysOf(segments[i])' \subseteq InDays
    <3>1. i + 1 \in 1..Len(segments) /\ segments'[i] = segments[i + 1]
      BY <1>1, <1>2
    <3>2. DaysOf(segments[i + 1]) \subseteq InDays
      BY <3>1 DEF PagesInv, DaysCovered
    <3> QED
      BY <1>14, <3>1, <3>2
  <2>2. ASSUME ~history'.truncated, NEW t \in InDays
        PROVE  t \in Range(history'.trades) \/ \E i \in 1..Len(segments') : t \in DaysOf(segments[i])'
    <3>1. ~history.truncated /\ ~cut
      BY <1>9, <2>2
    <3>2. CASE t \in Range(trades)
      BY <1>9, <1>11, <3>2
    <3>3. ASSUME NEW j \in 1..Len(segments), t \in DaysOf(segments[j])
          PROVE  t \in Range(history'.trades) \/ \E i \in 1..Len(segments') : t \in DaysOf(segments[i])'
      <4>1. CASE j = 1
        <5>1. t \in Gathered(bodies)
          BY <1>2, <3>1, <3>3, <4>1 DEF first
        <5>2. t \in new \/ t \in Range(trades)
          BY <5>1 DEF new
        <5> QED
          BY <1>9, <1>11, <5>2
      <4>2. CASE j > 1
        <5>1. j - 1 \in 1..Len(segments') /\ segments'[j - 1] = segments[j]
          BY <1>1, <1>2, <3>3, <4>2
        <5>2. t \in DaysOf(segments[j - 1])'
          BY <1>14, <3>3, <5>1
        <5> QED
          BY <5>1, <5>2
      <4> QED
        BY <1>2, <4>1, <4>2
    <3> QED
      BY <3>1, <3>2, <3>3 DEF PagesInv, DaysCovered
  <2>3. InDays' = InDays
    BY DEF InDays
  <2> QED
    BY <2>1, <2>2, <2>3 DEF DaysCovered
<1>16. BodiesKept'
  BY <1>12 DEF BodiesKept
<1>17. \A i, j \in 1..Len(trades \o added) : (trades \o added)[i] = (trades \o added)[j] => i = j
  <2>1. /\ Len(trades \o added) = Len(trades) + Len(added)
        /\ \A i \in 1..Len(trades) + Len(added) : (trades \o added)[i] = IF i <= Len(trades) THEN trades[i] ELSE added[i - Len(trades)]
    BY <1>6, <1>7, ConcatProperties
  <2>2. \A i \in 1..Len(trades) : trades[i] \in Range(trades)
    BY <1>6 DEF Range
  <2>3. \A i \in 1..Len(added) : added[i] \in new
    BY <1>5
  <2> SUFFICES ASSUME NEW i \in 1..Len(trades) + Len(added), NEW j \in 1..Len(trades) + Len(added),
                      (trades \o added)[i] = (trades \o added)[j]
               PROVE  i = j
    BY <2>1
  <2>4. CASE i <= Len(trades) /\ j <= Len(trades)
    BY <1>6, <2>1, <2>4
  <2>5. CASE i <= Len(trades) /\ ~(j <= Len(trades))
    <3>2. Len(trades) \in Nat /\ Len(added) \in Nat
      BY <1>5, <1>6
    <3>1. i \in 1..Len(trades) /\ j - Len(trades) \in 1..Len(added)
      BY <2>5, <3>2
    <3> QED
      BY <1>10, <2>1, <2>2, <2>3, <2>5, <3>1
  <2>6. CASE ~(i <= Len(trades)) /\ j <= Len(trades)
    <3>1. j \in 1..Len(trades) /\ i - Len(trades) \in 1..Len(added)
      BY <1>5, <1>6, <2>6
    <3> QED
      BY <1>10, <2>1, <2>2, <2>3, <2>6, <3>1
  <2>7. CASE ~(i <= Len(trades)) /\ ~(j <= Len(trades))
    <3>1. i - Len(trades) \in 1..Len(added) /\ j - Len(trades) \in 1..Len(added)
      BY <1>5, <1>6, <2>7
    <3>2. i - Len(trades) = j - Len(trades)
      BY <1>5, <2>1, <2>7, <3>1
    <3> QED
      BY <1>6, <3>2
  <2> QED
    BY <2>4, <2>5, <2>6, <2>7
<1>18. history'.end = "done" => segments' = <<>>
  <2>1. history'.end = "done" => Len(segments) = 1
    BY <1>9
  <2>2. Len(segments) = 1 => Len(Tail(segments)) = 0
    BY <1>2
  <2>3. Len(Tail(segments)) = 0 => Tail(segments) = <<>>
    BY <1>2, EmptySeq
  <2> QED
    BY <1>1, <2>1, <2>2, <2>3
<1>19. Range(history'.trades) \subseteq InDays'
  BY <1>6, <1>9, <1>10, <1>11 DEF InDays
<1> QED
  BY <1>9, <1>13, <1>15, <1>16, <1>17, <1>18, <1>19 DEF PagesInv

LEMMA AppendGathers ==
    ASSUME NEW bodies \in Seq(Seq(Trades)), NEW body \in Seq(Trades)
    PROVE  /\ Append(bodies, body) \in Seq(Seq(Trades)) /\ DOMAIN Append(bodies, body) = 1..Len(bodies) + 1
           /\ Gathered(Append(bodies, body)) = Gathered(bodies) \cup Range(body)
<1>1. /\ Append(bodies, body) \in Seq(Seq(Trades)) /\ Len(bodies) \in Nat /\ DOMAIN bodies = 1..Len(bodies)
      /\ DOMAIN Append(bodies, body) = 1..Len(bodies) + 1
  OBVIOUS
<1>2. /\ \A i \in 1..Len(bodies) : Append(bodies, body)[i] = bodies[i]
      /\ Append(bodies, body)[Len(bodies) + 1] = body
  OBVIOUS
<1>3. \A i \in 1..Len(bodies) + 1 : i \in 1..Len(bodies) \/ i = Len(bodies) + 1
  BY <1>1
<1>4. Len(bodies) + 1 \in 1..Len(bodies) + 1 /\ \A i \in 1..Len(bodies) : i \in 1..Len(bodies) + 1
  BY <1>1
<1>5. Gathered(Append(bodies, body)) \subseteq Gathered(bodies) \cup Range(body)
  BY <1>1, <1>2, <1>3 DEF Gathered
<1>6. Gathered(bodies) \cup Range(body) \subseteq Gathered(Append(bodies, body))
  BY <1>1, <1>2, <1>4 DEF Gathered
<1> QED
  BY <1>1, <1>5, <1>6

(* What a request serves. *)
LEMMA ServedIs ==
    ASSUME PagesInv, Collecting
    PROVE  /\ Served \in Seq(Trades) /\ Len(Served) \in Nat
           /\ \A i \in 1..Len(Served) : Served[i] \in DaysOf(Head(segments))
           /\ \A t \in DaysOf(Head(segments)) : \E i \in 1..Len(Served) : Served[i] = t
<1> DEFINE days == DaysOf(Head(segments))
<1>1. days \subseteq Trades
  BY DEF DaysOf
<1>2. IsFiniteSet(days)
  BY <1>1, PagesAssumption, FS_Subset
<1>3. Served = SetToSeq(days)
  BY DEF Served, Serves
<1> HIDE DEF days
<1>4. Served \in Seq(days) /\ Len(Served) \in Nat /\ \A t \in days : \E i \in 1..Len(Served) : Served[i] = t
  BY <1>2, <1>3, SetAsSeq
<1>5. Served \in Seq(Trades) /\ \A i \in 1..Len(Served) : Served[i] \in days
  BY <1>1, <1>4, SeqMonotonic
<1> QED
  BY <1>4, <1>5 DEF days

(* A page is kept, or ends its request. *)
LEMMA KeepKeeps ==
    ASSUME NEW body \in Seq(Trades), NEW at \in Nat, NEW more \in BOOLEAN, NEW cursor \in Int,
           PagesInv, Collecting, KeepPage(body, at, more, cursor),
           Range(body) \subseteq DaysOf(Head(segments)),
           \A i \in 1..Len(Served) : i <= at => Served[i] \in Gathered(query.bodies) \cup Range(body),
           \/ body # <<>> /\ body \in Range(query.bodies)
           \/ more /\ (at = 0 \/ at < Len(Served))
           \/ ~more /\ at >= Len(Served)
    PROVE  PagesInv'
<1> DEFINE kept == Append(query.bodies, body)
           days == DaysOf(Head(segments))
           stuck == cursor = 0 \/ cursor \in query.seen
<1>1. UNCHANGED <<recentFrom, oneExchange>> /\ segments # <<>> /\ query \in Queries /\ query.bodies \in Seq(Seq(Trades))
  BY DEF KeepPage, PagesInv, PagesTyped, Queries, Collecting
<1>2. kept \in Seq(Seq(Trades)) /\ Gathered(kept) = Gathered(query.bodies) \cup Range(body)
  BY <1>1, AppendGathers
<1>3. Gathered(query.bodies) \subseteq days /\ Gathered(kept) \subseteq days
  BY <1>1, <1>2 DEF PagesInv, BodiesKept
<1>4. CASE body # <<>> /\ body \in Range(query.bodies)
  <2>1. CloseQuery(query.bodies, TRUE)
    BY <1>4 DEF KeepPage
  <2> QED
    BY <1>1, <1>3, <2>1, CloseKeeps
<1>5. CASE ~(body # <<>> /\ body \in Range(query.bodies)) /\ ~more
  <2>1. CloseQuery(kept, FALSE)
    BY <1>5 DEF KeepPage
  <2>2. days \subseteq Gathered(kept)
    <3>1. at >= Len(Served) /\ Len(Served) \in Nat
      BY <1>5, ServedIs
    <3>2. \A i \in 1..Len(Served) : i <= at
      BY <3>1
    <3>3. \A i \in 1..Len(Served) : Served[i] \in Gathered(kept)
      BY <1>2, <3>2
    <3> QED
      BY <3>3, ServedIs
  <2> QED
    BY <1>1, <1>2, <1>3, <2>1, <2>2, CloseKeeps
<1>6. CASE ~(body # <<>> /\ body \in Range(query.bodies)) /\ more /\ (stuck \/ Len(kept) = MaxHistoryPages)
  <2>1. CloseQuery(kept, TRUE)
    BY <1>6 DEF KeepPage
  <2> QED
    BY <1>1, <1>2, <1>3, <2>1, CloseKeeps
<1>7. CASE ~(body # <<>> /\ body \in Range(query.bodies)) /\ more /\ ~(stuck \/ Len(kept) = MaxHistoryPages)
  <2>1. /\ query' = [query EXCEPT !.bodies = kept, !.at = at, !.cursor = cursor, !.seen = @ \cup {cursor}]
        /\ UNCHANGED <<segments, history>>
    BY <1>7 DEF KeepPage
  <2>2. query' = [exchanges |-> query.exchanges, at |-> at, cursor |-> cursor, seen |-> query.seen \cup {cursor}, bodies |-> kept]
    BY <1>1, <2>1 DEF Queries
  <2> HIDE DEF kept, stuck
  <2>3. query' \in Queries /\ query'.at = at /\ query'.bodies = kept
    BY <1>1, <1>2, <2>2 DEF Queries
  <2>4. \A s : DaysOf(s)' = DaysOf(s)
    BY <1>1 DEF DaysOf
  <2>5. Served' = Served
    BY <2>1, <2>4 DEF Served, Serves
  <2>6. BodiesKept'
    <3>1. Gathered(kept) \subseteq DaysOf(Head(segments))'
      BY <1>3, <2>1, <2>4
    <3>2. \A i \in 1..Len(Served) : i <= at => Served[i] \in Gathered(kept)
      BY <1>2
    <3>3. at = 0 \/ at < Len(Served)
      BY <1>7
    <3> QED
      BY <2>1, <2>3, <2>5, <3>1, <3>2, <3>3 DEF BodiesKept
  <2>7. PagesTyped'
    BY <1>1, <2>1, <2>3 DEF PagesInv, PagesTyped, Queries, Segment
  <2>8. DaysCovered' /\ InDays' = InDays
    BY <2>1, <2>4 DEF PagesInv, DaysCovered, InDays
  <2> QED
    BY <2>1, <2>6, <2>7, <2>8 DEF PagesInv
<1> QED
  BY <1>4, <1>5, <1>6, <1>7

LEMMA NextPageIs ==
    ASSUME PagesInv, Collecting
    PROVE  /\ query.at \in Nat
           /\ NextPage \in Seq(Trades) /\ Range(NextPage) \subseteq DaysOf(Head(segments))
           /\ query.at < Len(Served) => Served[query.at + 1] \in Range(NextPage)
<1> DEFINE at == query.at
           last == Min({at + 1, Len(Served)})
           days == DaysOf(Head(segments))
<1>1. at \in Nat
  BY DEF PagesInv, PagesTyped, Queries
<1>2. Served \in Seq(days) /\ Len(Served) \in Nat /\ days \subseteq Trades
  <2>1. \A i \in 1..Len(Served) : Served[i] \in days
    BY ServedIs
  <2>2. Served \in Seq(Trades) /\ Len(Served) \in Nat
    BY ServedIs
  <2>3. days \subseteq Trades
    BY DEF DaysOf
  <2> HIDE DEF days
  <2> QED
    BY <2>1, <2>2, <2>3
<1>3. at + 1 \in Nat /\ last = IF at + 1 <= Len(Served) THEN at + 1 ELSE Len(Served)
  <2>1. at + 1 \in Nat
    BY <1>1
  <2> QED
    BY <1>2, <2>1 DEF Min
<1>4. NextPage = SubSeq(Served, at + 1, last)
  BY DEF NextPage
<1> HIDE DEF at, last, days
<1>5. \A i \in at + 1..last : Served[i] \in days
  BY <1>1, <1>2, <1>3
<1>6. at + 1 \in Int /\ last \in Int
  BY <1>1, <1>2, <1>3
<1>7. /\ NextPage \in Seq(days)
      /\ Len(NextPage) = IF at + 1 <= last THEN last - (at + 1) + 1 ELSE 0
      /\ \A i \in 1..last - (at + 1) + 1 : NextPage[i] = Served[(at + 1) + i - 1]
  BY <1>4, <1>5, <1>6, SubSeqProperties
<1>8. ASSUME at < Len(Served)
      PROVE  Served[at + 1] \in Range(NextPage)
  <2>1. last = at + 1
    BY <1>1, <1>2, <1>3, <1>8
  <2>2. last - (at + 1) + 1 = 1 /\ (at + 1) + 1 - 1 = at + 1
    BY <1>1, <2>1
  <2>3. Len(NextPage) = 1 /\ 1 \in 1..last - (at + 1) + 1
    <3>1. at + 1 <= last
      BY <1>6, <2>1
    <3>2. Len(NextPage) = last - (at + 1) + 1
      BY <1>7, <3>1
    <3> QED
      BY <2>2, <3>2
  <2>4. NextPage[1] = Served[at + 1]
    BY <1>7, <2>2, <2>3
  <2>5. 1 \in DOMAIN NextPage
    BY <1>7, <2>3
  <2> QED
    BY <2>4, <2>5 DEF Range
<1>9. NextPage \in Seq(Trades) /\ Range(NextPage) \subseteq days
  BY <1>2, <1>7, SeqMonotonic DEF Range
<1> QED
  BY <1>1, <1>8, <1>9 DEF at, days

LEMMA GoodPageKeeps == PagesInv /\ GoodPage => PagesInv'
<1> SUFFICES ASSUME PagesInv, GoodPage PROVE PagesInv'
  OBVIOUS
<1>1. Collecting /\ KeepPage(NextPage, query.at + 1, HasMore, NextCursor)
  BY DEF GoodPage, Answers
<1>2. query.at \in Nat /\ query.cursor \in Int /\ Len(Served) \in Nat
  BY <1>1, ServedIs DEF PagesInv, PagesTyped, Queries
<1>3. query.at + 1 \in Nat /\ HasMore \in BOOLEAN /\ NextCursor \in Int
  BY <1>2 DEF HasMore, NextCursor
<1>4. (HasMore => query.at + 1 < Len(Served)) /\ (~HasMore => query.at + 1 >= Len(Served))
  BY <1>2 DEF HasMore
<1>5. ASSUME NEW i \in 1..Len(Served), i <= query.at + 1
      PROVE  Served[i] \in Gathered(query.bodies) \cup Range(NextPage)
  <2>1. CASE i <= query.at
    BY <1>1, <2>1 DEF PagesInv, BodiesKept, Collecting
  <2>2. CASE i = query.at + 1
    BY <1>1, <1>2, <2>2, NextPageIs
  <2> QED
    BY <1>2, <1>5, <2>1, <2>2
<1> QED
  BY <1>1, <1>3, <1>4, <1>5, NextPageIs, KeepKeeps

LEMMA OverlappingKeeps == PagesInv /\ OverlappingPage => PagesInv'
<1> SUFFICES ASSUME PagesInv, OverlappingPage PROVE PagesInv'
  OBVIOUS
<1> DEFINE body == <<Served[query.at]>> \o NextPage
<1>1. Collecting /\ query.at > 0 /\ KeepPage(body, query.at + 1, HasMore, NextCursor)
  BY DEF OverlappingPage, Answers
<1>2. query.at \in Nat /\ query.cursor \in Int /\ Len(Served) \in Nat
  BY <1>1, ServedIs DEF PagesInv, PagesTyped, Queries
<1>3. query.at + 1 \in Nat /\ HasMore \in BOOLEAN /\ NextCursor \in Int
  BY <1>2 DEF HasMore, NextCursor
<1>4. (HasMore => query.at + 1 < Len(Served)) /\ (~HasMore => query.at + 1 >= Len(Served))
  BY <1>2 DEF HasMore
<1>5. Served[query.at] \in DaysOf(Head(segments)) /\ Served[query.at] \in Trades
  <2>1. query.at < Len(Served)
    BY <1>1, <1>2 DEF PagesInv, BodiesKept, Collecting
  <2> QED
    BY <1>1, <1>2, <2>1, ServedIs DEF DaysOf
<1>6. <<Served[query.at]>> \in Seq(Trades) /\ Range(<<Served[query.at]>>) = {Served[query.at]}
  BY <1>5 DEF Range
<1>7. body \in Seq(Trades) /\ Range(body) = {Served[query.at]} \cup Range(NextPage)
  <2> DEFINE one == <<Served[query.at]>>
  <2>1. one \in Seq(Trades) /\ Range(one) = {Served[query.at]} /\ NextPage \in Seq(Trades) /\ body = one \o NextPage
    BY <1>1, <1>6, NextPageIs
  <2> HIDE DEF one, body
  <2> QED
    BY <2>1, ConcatProperties, RangeConcatenation
<1> HIDE DEF body
<1>8. Range(body) \subseteq DaysOf(Head(segments))
  BY <1>1, <1>5, <1>7, NextPageIs
<1>9. ASSUME NEW i \in 1..Len(Served), i <= query.at + 1
      PROVE  Served[i] \in Gathered(query.bodies) \cup Range(body)
  <2>1. CASE i <= query.at
    BY <1>1, <2>1 DEF PagesInv, BodiesKept, Collecting
  <2>2. CASE i = query.at + 1
    BY <1>1, <1>2, <1>7, <2>2, NextPageIs
  <2> QED
    BY <1>2, <1>9, <2>1, <2>2
<1> QED
  BY <1>1, <1>3, <1>4, <1>7, <1>8, <1>9, KeepKeeps

LEMMA ReplayedKeeps == PagesInv /\ ReplayedPage => PagesInv'
<1> SUFFICES ASSUME PagesInv, ReplayedPage PROVE PagesInv'
  OBVIOUS
<1>1. Collecting
  BY DEF ReplayedPage, Answers
<1>2. PICK body \in Range(query.bodies) \ {<<>>}, more \in BOOLEAN : KeepPage(body, query.at, more, NextCursor)
  BY DEF ReplayedPage
<1>3. query.at \in Nat /\ NextCursor \in Int /\ query.bodies \in Seq(Seq(Trades))
  BY DEF PagesInv, PagesTyped, Queries, NextCursor
<1>4. body \in Seq(Trades) /\ Range(body) \subseteq Gathered(query.bodies)
  BY <1>2, <1>3 DEF Range, Gathered
<1>5. Range(body) \subseteq DaysOf(Head(segments))
  BY <1>1, <1>4 DEF PagesInv, BodiesKept, Collecting
<1>6. \A i \in 1..Len(Served) : i <= query.at => Served[i] \in Gathered(query.bodies) \cup Range(body)
  BY <1>1 DEF PagesInv, BodiesKept, Collecting
<1> QED
  BY <1>1, <1>2, <1>3, <1>4, <1>5, <1>6, KeepKeeps

LEMMA HollowKeeps == PagesInv /\ HollowPage => PagesInv'
<1> SUFFICES ASSUME PagesInv, HollowPage PROVE PagesInv'
  OBVIOUS
<1>1. Collecting /\ query.at < Len(Served) /\ KeepPage(<<>>, query.at, TRUE, NextCursor)
  BY DEF HollowPage, Answers
<1>2. query.at \in Nat /\ NextCursor \in Int
  BY DEF PagesInv, PagesTyped, Queries, NextCursor
<1>3. <<>> \in Seq(Trades) /\ Range(<<>>) = {}
  BY EmptySeq DEF Range
<1>4. \A i \in 1..Len(Served) : i <= query.at => Served[i] \in Gathered(query.bodies) \cup Range(<<>>)
  BY <1>1 DEF PagesInv, BodiesKept, Collecting
<1> QED
  BY <1>1, <1>2, <1>3, <1>4, KeepKeeps

LEMMA StuckKeeps == PagesInv /\ StuckPage => PagesInv'
<1> SUFFICES ASSUME PagesInv, StuckPage PROVE PagesInv'
  OBVIOUS
<1>1. Collecting /\ HasMore
  BY DEF StuckPage, Answers
<1>2. PICK cursor \in query.seen \cup {0} : KeepPage(NextPage, query.at + 1, TRUE, cursor)
  BY DEF StuckPage
<1>3. query.at \in Nat /\ query.seen \subseteq Int /\ Len(Served) \in Nat
  BY <1>1, ServedIs DEF PagesInv, PagesTyped, Queries
<1>4. query.at + 1 \in Nat /\ cursor \in Int /\ query.at + 1 < Len(Served)
  BY <1>1, <1>3 DEF HasMore
<1>5. ASSUME NEW i \in 1..Len(Served), i <= query.at + 1
      PROVE  Served[i] \in Gathered(query.bodies) \cup Range(NextPage)
  <2>1. CASE i <= query.at
    BY <1>1, <2>1 DEF PagesInv, BodiesKept, Collecting
  <2>2. CASE i = query.at + 1
    BY <1>1, <1>3, <2>2, NextPageIs
  <2> QED
    BY <1>3, <1>5, <2>1, <2>2
<1> QED
  BY <1>1, <1>2, <1>4, <1>5, NextPageIs, KeepKeeps

LEMMA PagesInvStep == PagesInv /\ [PagesNext]_pagesVars => PagesInv'
<1> SUFFICES ASSUME PagesInv, [PagesNext]_pagesVars PROVE PagesInv'
  OBVIOUS
<1>1. CASE UNCHANGED pagesVars
  BY <1>1 DEF pagesVars, PagesInv, PagesTyped, DaysCovered, BodiesKept, DaysOf, Served, Serves, InDays
<1>2. CASE Refused
  <2>1. query' = NewQuery("one") /\ UNCHANGED <<recentFrom, oneExchange, segments, history>>
    BY <1>2 DEF Refused
  <2>2. query'.at = 0 /\ query' \in Queries /\ Gathered(query'.bodies) = {}
    BY <2>1, NewQueryKept
  <2>3. BodiesKept'
    BY <2>2 DEF BodiesKept
  <2> QED
    BY <2>1, <2>2, <2>3 DEF PagesInv, PagesTyped, DaysCovered, DaysOf, InDays
<1>3. CASE FailedPage
  <2>1. history' = [history EXCEPT !.end = "failed"] /\ UNCHANGED <<recentFrom, oneExchange, segments, query>>
    BY <1>3 DEF FailedPage
  <2>2. /\ history' \in [trades : Seq(Trades), truncated : BOOLEAN, end : {"no", "done", "failed"}]
        /\ history'.trades = history.trades /\ history'.truncated = history.truncated /\ history'.end = "failed"
    BY <2>1 DEF PagesInv, PagesTyped
  <2>3. PagesTyped' /\ DaysCovered' /\ BodiesKept'
    BY <2>1, <2>2 DEF PagesInv, PagesTyped, DaysCovered, BodiesKept, DaysOf, Served, Serves, InDays
  <2> QED
    BY <2>2, <2>3 DEF PagesInv, InDays
<1> QED
  BY <1>1, <1>2, <1>3, GoodPageKeeps, OverlappingKeeps, ReplayedKeeps, HollowKeeps, StuckKeeps DEF PagesNext

(***************************************************************************)
(* A scan of orders.                                                       *)
(***************************************************************************)
Rows == [order : Orders, placed : Nat, filled : Nat, last : Nat]

OrderStates == [state : {"none", "open", "closed"}, placed : Nat, filled : Nat, last : Nat]

Doubt == {"PAGING", "DUPLICATE", "LATE", "ROW_LIMIT", "PAGE_LIMIT", "PAGE_FAILED", "TRUNCATED"}

ScanTyped ==
    /\ scanNow \in Nat
    /\ orders \in [Orders -> OrderStates] /\ atCutoff \in [Orders -> OrderStates]
    /\ scan \in [kind : {"none", "fills", "listing"}, step : {"idle", "open", "closed", "done"}, cutoff : Nat,
                  cursor : Nat, cursors : SUBSET Nat, pages : Nat, rows : Seq(Rows), doubts : SUBSET Doubt]

Going == scan.step \in {"open", "closed"}

(* What an order has become since the scan began is later than the cutoff.   *)
Unchanged(o) ==
    /\ orders[o].placed = atCutoff[o].placed /\ orders[o].filled = atCutoff[o].filled /\ orders[o].last = atCutoff[o].last
    /\ atCutoff[o].state \in {"open", "closed"}

ChangesLater ==
    /\ scan.cutoff < scanNow
    /\ \A o \in Orders :
          /\ orders[o].state # "none" => Unchanged(o) \/ orders[o].placed > scan.cutoff \/ orders[o].last > scan.cutoff
          /\ atCutoff[o].state # "none" => orders[o].state # "none"
          /\ atCutoff[o].state = "closed" => orders[o].state = "closed"
          /\ atCutoff[o].state = "none" => atCutoff[o].filled = 0
          /\ orders[o].state = "none" => orders[o].filled = 0

SameRow(row, was) ==
    was.state # "none" /\ row.placed = was.placed /\ row.filled = was.filled /\ row.last = was.last

(* Rows taken as evidence are as they were at the cutoff, each order once.    *)
RowsTrue ==
    /\ \A i \in 1..Len(scan.rows) :
          SameRow(scan.rows[i], atCutoff[scan.rows[i].order])
    /\ \A i, j \in 1..Len(scan.rows) : scan.rows[i].order = scan.rows[j].order => i = j

(* The orders a scan owes are read, or closed and listed after its cursor.   *)
Owed == {o \in Orders : atCutoff[o].state \in IF scan.kind = "fills" THEN {"open", "closed"} ELSE {"closed"}}
StillAhead(o) == orders[o].state = "closed" /\ Cardinality(ListedBefore(o)) >= scan.cursor

ScanInv ==
    /\ ScanTyped
    /\ scan.kind = "none" <=> scan.step = "idle"
    /\ scan.step = "open" => scan.kind = "fills" /\ scan.rows = <<>> /\ scan.cursor = 0
    /\ scan.step = "idle" => \A o \in Orders : orders[o].state = "none" => orders[o].filled = 0
    /\ Going => ChangesLater
    /\ scan.kind = "fills" => RowsTrue
    /\ scan.step = "closed" => \A o \in Owed : o \in Scanned \/ StillAhead(o)
    /\ scan.step = "done" /\ scan.doubts = {} => Owed \subseteq Scanned
    /\ scan.step = "done" => \A o \in Orders : atCutoff[o].state = "none" => atCutoff[o].filled = 0
    /\ scan.kind = "fills" /\ Going => scan.doubts = {}

LEMMA ScanInvMeans == ScanInv => ScansWhole
<1> SUFFICES ASSUME ScanInv PROVE ScansWhole
  OBVIOUS
<1>1. scan.rows \in Seq(Rows) /\ DOMAIN scan.rows = 1..Len(scan.rows) /\ \A i \in DOMAIN scan.rows : scan.rows[i] \in Rows
  BY DEF ScanInv, ScanTyped
<1>2. ASSUME scan.kind = "fills", scan.step = "done", scan.doubts = {}
      PROVE  EvidenceWhole
  <2> DEFINE selected == {i \in DOMAIN scan.rows : InWindow(scan.rows[i])}
             read == {<<scan.rows[i].order, scan.rows[i].filled>> : i \in selected}
             held == {<<o, atCutoff[o].filled>> : o \in {o \in Orders : InWindow(atCutoff[o])}}
  <2>1. \A i \in DOMAIN scan.rows : SameRow(scan.rows[i], atCutoff[scan.rows[i].order]) /\ scan.rows[i].order \in Orders
    BY <1>1, <1>2 DEF ScanInv, RowsTrue, Rows
  <2>2. read \subseteq held
    BY <2>1 DEF SameRow, InWindow
  <2>3. ASSUME NEW o \in Orders, InWindow(atCutoff[o])
        PROVE  <<o, atCutoff[o].filled>> \in read
    <3>1. atCutoff[o] \in OrderStates
      BY DEF ScanInv, ScanTyped
    <3>2. atCutoff[o].state # "none"
      BY <1>2, <2>3, <3>1 DEF ScanInv, InWindow, OrderStates
    <3>3. o \in Owed
      BY <1>2, <3>1, <3>2 DEF Owed, OrderStates
    <3>4. PICK i \in DOMAIN scan.rows : scan.rows[i].order = o
      BY <1>2, <3>3 DEF ScanInv, Scanned, OrdersOf
    <3>5. scan.rows[i].filled = atCutoff[o].filled /\ InWindow(scan.rows[i])
      BY <2>1, <2>3, <3>4 DEF SameRow, InWindow
    <3> QED
      BY <3>4, <3>5
  <2>4. held \subseteq read
    BY <2>3
  <2>5. \A i, j \in selected : scan.rows[i].order = scan.rows[j].order => i = j
    BY <1>1, <1>2 DEF ScanInv, RowsTrue
  <2> QED
    BY <2>2, <2>4, <2>5 DEF EvidenceWhole
<1>3. ListingWhole
  BY DEF ScanInv, ListingWhole, Owed
<1> QED
  BY <1>2, <1>3 DEF ScansWhole, EvidenceWhole

LEMMA ScanBegins == ScanInit => ScanInv
<1> SUFFICES ASSUME ScanInit PROVE ScanInv
  OBVIOUS
<1>1. /\ orders = [o \in Orders |-> [state |-> "none", placed |-> 0, filled |-> 0, last |-> 0]] /\ atCutoff = orders /\ scanNow = 0
      /\ scan = [kind |-> "none", step |-> "idle", cutoff |-> 0, cursor |-> 0, cursors |-> {}, pages |-> 0, rows |-> <<>>, doubts |-> {}]
  BY DEF ScanInit, NoOrder, NoScan
<1>2. orders \in [Orders -> OrderStates]
  BY <1>1 DEF OrderStates
<1>3. <<>> \in Seq(Rows)
  BY EmptySeq
<1>4. ScanTyped
  BY <1>1, <1>2, <1>3 DEF ScanTyped
<1> QED
  BY <1>1, <1>4 DEF ScanInv, Going

(***************************************************************************)
(* The venue.                                                              *)
(***************************************************************************)
(* Places in the listing only grow. *)
LEMMA PlacesGrow ==
    ASSUME ScanTyped, NEW o \in Orders, orders[o].state = "closed", orders'[o].state = "closed",
           \A p \in Orders : orders[p].state = "closed" => orders'[p].state = "closed"
    PROVE  /\ Cardinality(ListedBefore(o)) \in Nat /\ Cardinality(ListedBefore(o)') \in Nat
           /\ Cardinality(ListedBefore(o)) <= Cardinality(ListedBefore(o)')
<1>1. ListedBefore(o) \subseteq ListedBefore(o)'
  BY DEF ListedBefore, InState
<1>2. ListedBefore(o)' \subseteq Orders
  BY DEF ListedBefore, InState
<1>3. IsFiniteSet(ListedBefore(o)')
  BY <1>2, ScanAssumption, FS_Subset
<1> QED
  BY <1>1, <1>3, FS_Subset, FS_CardinalityType

(* What the venue does to an order while a scan is under way. *)
VenueMove(o) ==
    /\ orders'[o] \in OrderStates
    /\ orders[o].state = "closed" => orders'[o] = orders[o]
    /\ orders[o].state # "none" => orders'[o].state # "none" /\ orders'[o].placed = orders[o].placed
    /\ orders'[o].state = "none" => orders'[o] = orders[o]
    /\ \/ orders'[o].filled = orders[o].filled /\ orders'[o].last = orders[o].last /\ orders[o].state # "none"
       \/ orders'[o].last = scanNow
       \/ orders'[o].placed = scanNow
       \/ orders'[o] = orders[o]

LEMMA VenueKeeps ==
    ASSUME ScanInv, orders' \in [Orders -> OrderStates], UNCHANGED <<scanNow, scan, atCutoff>>, Unended,
           \A o \in Orders : VenueMove(o)
    PROVE  ScanInv'
<1>1. ScanTyped'
  BY DEF ScanInv, ScanTyped
<1>2. \A o \in Orders : orders[o] \in OrderStates /\ atCutoff[o] \in OrderStates
  BY DEF ScanInv, ScanTyped
<1>3. scanNow \in Nat /\ scan.cutoff \in Nat
  BY DEF ScanInv, ScanTyped
<1>4. Going => ChangesLater'
  <2> SUFFICES ASSUME Going, NEW o \in Orders
               PROVE  /\ orders'[o].state # "none" => Unchanged(o)' \/ orders'[o].placed > scan.cutoff \/ orders'[o].last > scan.cutoff
                      /\ atCutoff[o].state # "none" => orders'[o].state # "none"
                      /\ atCutoff[o].state = "closed" => orders'[o].state = "closed"
                      /\ atCutoff[o].state = "none" => atCutoff[o].filled = 0
                      /\ orders'[o].state = "none" => orders'[o].filled = 0
    BY DEF ScanInv, ChangesLater
  <2>1. /\ orders[o].state # "none" => Unchanged(o) \/ orders[o].placed > scan.cutoff \/ orders[o].last > scan.cutoff
        /\ atCutoff[o].state # "none" => orders[o].state # "none"
        /\ atCutoff[o].state = "closed" => orders[o].state = "closed"
        /\ atCutoff[o].state = "none" => atCutoff[o].filled = 0
        /\ orders[o].state = "none" => orders[o].filled = 0
        /\ scan.cutoff < scanNow
    BY DEF ScanInv, ChangesLater
  <2>2. VenueMove(o)
    OBVIOUS
  <2>3. orders'[o].state # "none" => Unchanged(o)' \/ orders'[o].placed > scan.cutoff \/ orders'[o].last > scan.cutoff
    BY <1>2, <1>3, <2>1, <2>2 DEF VenueMove, Unchanged
  <2> QED
    BY <2>1, <2>2, <2>3 DEF VenueMove
<1>5. ASSUME NEW o \in Orders, StillAhead(o) PROVE StillAhead(o)'
  <2>1. \A p \in Orders : orders[p].state = "closed" => orders'[p].state = "closed"
    BY DEF VenueMove
  <2>2. orders[o].state = "closed" /\ orders'[o].state = "closed" /\ scan'.cursor = scan.cursor /\ scan.cursor \in Nat
        /\ Cardinality(ListedBefore(o)) >= scan.cursor
    BY <1>5, <2>1 DEF StillAhead, ScanInv, ScanTyped
  <2>3. ScanTyped
    BY DEF ScanInv
  <2>4. /\ Cardinality(ListedBefore(o)) \in Nat /\ Cardinality(ListedBefore(o)') \in Nat
        /\ Cardinality(ListedBefore(o)) <= Cardinality(ListedBefore(o)')
    BY <2>1, <2>2, <2>3, PlacesGrow
  <2> QED
    BY <2>2, <2>4 DEF StillAhead
<1>6. Going' = Going /\ Scanned' = Scanned /\ Owed' = Owed /\ (RowsTrue => RowsTrue')
  BY DEF Going, Scanned, Owed, RowsTrue
<1>7. scan.step = "closed" => \A o \in Owed : o \in Scanned \/ StillAhead(o)'
  <2>1. Owed \subseteq Orders
    BY DEF Owed
  <2> QED
    BY <1>5, <2>1 DEF ScanInv
<1>8. scan.step = "idle" => \A o \in Orders : orders'[o].state = "none" => orders'[o].filled = 0
  BY DEF ScanInv, VenueMove
<1> QED
  BY <1>1, <1>4, <1>6, <1>7, <1>8 DEF ScanInv, Unended

LEMMA PlacedKeeps ==
    ASSUME NEW o \in Orders, ScanInv, Placed(o)
    PROVE  ScanInv'
<1>1. /\ orders[o].state = "none" /\ UNCHANGED <<scanNow, scan, atCutoff>> /\ Unended
      /\ orders' = [orders EXCEPT ![o] = [state |-> "open", placed |-> scanNow, filled |-> 0, last |-> 0]]
  <2>1. [NoOrder EXCEPT !.state = "open", !.placed = scanNow] = [state |-> "open", placed |-> scanNow, filled |-> 0, last |-> 0]
    <3> DEFINE new == [NoOrder EXCEPT !.state = "open", !.placed = scanNow]
    <3>1. new = [[state |-> "none", placed |-> 0, filled |-> 0, last |-> 0] EXCEPT !.state = "open", !.placed = scanNow]
      BY DEF NoOrder
    <3> HIDE DEF new
    <3>2. new = [state |-> "open", placed |-> scanNow, filled |-> 0, last |-> 0]
      BY <3>1
    <3> QED
      BY <3>2 DEF new
  <2> QED
    BY <2>1 DEF Placed
<1>2. orders \in [Orders -> OrderStates] /\ scanNow \in Nat
  BY DEF ScanInv, ScanTyped
<1>3. [state |-> "open", placed |-> scanNow, filled |-> 0, last |-> 0] \in OrderStates
  BY <1>2 DEF OrderStates
<1>4. orders' \in [Orders -> OrderStates]
  BY <1>1, <1>2, <1>3
<1>5. \A p \in Orders : VenueMove(p)
  BY <1>1, <1>2, <1>3 DEF VenueMove
<1> QED
  BY <1>1, <1>4, <1>5, VenueKeeps

LEMMA FilledKeeps ==
    ASSUME NEW o \in Orders, ScanInv, Filled(o)
    PROVE  ScanInv'
<1> DEFINE state == IF orders[o].filled + 1 = Quantity THEN "closed" ELSE "open"
           record == [state |-> state, placed |-> orders[o].placed, filled |-> orders[o].filled + 1, last |-> scanNow]
<1>1. orders[o].state = "open" /\ UNCHANGED <<scanNow, scan, atCutoff>> /\ Unended
  BY DEF Filled
<1>2. orders \in [Orders -> OrderStates] /\ scanNow \in Nat /\ orders[o] \in OrderStates
  BY DEF ScanInv, ScanTyped
<1>3. orders' = [orders EXCEPT ![o] = record]
  <2>1. orders' = [orders EXCEPT ![o] = [orders[o] EXCEPT !.filled = @ + 1, !.last = scanNow, !.state = state]]
    BY <1>2 DEF Filled, OrderStates
  <2>2. [orders[o] EXCEPT !.filled = @ + 1, !.last = scanNow, !.state = state] = record
    <3> DEFINE new == [orders[o] EXCEPT !.filled = @ + 1, !.last = scanNow, !.state = state]
               was == orders[o]
    <3>1. was \in OrderStates /\ state \in {"open", "closed"}
      BY <1>2
    <3>2. new = [was EXCEPT !.filled = @ + 1, !.last = scanNow, !.state = state]
      OBVIOUS
    <3> HIDE DEF new, was, state
    <3>3. new = [state |-> state, placed |-> was.placed, filled |-> was.filled + 1, last |-> scanNow]
      BY <3>1, <3>2 DEF OrderStates
    <3> QED
      BY <3>3 DEF new, was
  <2> QED
    BY <2>1, <2>2
<1>4. record \in OrderStates /\ record.state # "none" /\ record.placed = orders[o].placed /\ record.last = scanNow
  BY <1>2 DEF OrderStates
<1> HIDE DEF record
<1>5. orders' \in [Orders -> OrderStates]
  BY <1>2, <1>3, <1>4
<1>6. \A p \in Orders : VenueMove(p)
  BY <1>1, <1>2, <1>3, <1>4 DEF VenueMove
<1> QED
  BY <1>1, <1>5, <1>6, VenueKeeps

LEMMA CanceledKeeps ==
    ASSUME NEW o \in Orders, ScanInv, Canceled(o)
    PROVE  ScanInv'
<1> DEFINE record == [state |-> "closed", placed |-> orders[o].placed, filled |-> orders[o].filled, last |-> orders[o].last]
<1>1. orders[o].state = "open" /\ UNCHANGED <<scanNow, scan, atCutoff>> /\ Unended
  BY DEF Canceled
<1>2. orders \in [Orders -> OrderStates] /\ scanNow \in Nat /\ orders[o] \in OrderStates
  BY DEF ScanInv, ScanTyped
<1>3. orders' = [orders EXCEPT ![o] = record]
  <2>1. orders' = [orders EXCEPT ![o] = [orders[o] EXCEPT !.state = "closed"]]
    BY <1>2 DEF Canceled
  <2>2. [orders[o] EXCEPT !.state = "closed"] = record
    BY <1>2 DEF OrderStates
  <2> QED
    BY <2>1, <2>2
<1>4. /\ record \in OrderStates /\ record.state # "none" /\ record.placed = orders[o].placed
      /\ record.filled = orders[o].filled /\ record.last = orders[o].last
  BY <1>2 DEF OrderStates
<1> HIDE DEF record
<1>5. orders' \in [Orders -> OrderStates]
  BY <1>2, <1>3, <1>4
<1>6. \A p \in Orders : VenueMove(p)
  BY <1>1, <1>2, <1>3, <1>4 DEF VenueMove
<1> QED
  BY <1>1, <1>5, <1>6, VenueKeeps

LEMMA TickKeepsScan == ScanInv /\ ScanTick => ScanInv'
<1> SUFFICES ASSUME ScanInv, ScanTick PROVE ScanInv'
  OBVIOUS
<1>1. scanNow' = scanNow + 1 /\ scanNow \in Nat /\ UNCHANGED <<orders, scan, atCutoff>> /\ scan.cutoff \in Nat
  BY DEF ScanTick, ScanInv, ScanTyped
<1>2. ScanTyped'
  BY <1>1 DEF ScanInv, ScanTyped
<1>3. ChangesLater => ChangesLater'
  BY <1>1 DEF ChangesLater, Unchanged
<1> QED
  BY <1>1, <1>2, <1>3 DEF ScanInv, Going, RowsTrue, Owed, StillAhead, ListedBefore, InState, Scanned

(***************************************************************************)
(* The scan.                                                               *)
(***************************************************************************)
LEMMA ScanFields ==
    ASSUME ScanInv
    PROVE  /\ scan.cutoff \in Nat /\ scan.cursor \in Nat /\ scan.rows \in Seq(Rows) /\ scan.doubts \subseteq Doubt
           /\ scan.cursors \subseteq Nat /\ scan.pages \in Nat /\ scan.kind \in {"none", "fills", "listing"}
           /\ DOMAIN scan = {"kind", "step", "cutoff", "cursor", "cursors", "pages", "rows", "doubts"}
  BY DEF ScanInv, ScanTyped

LEMMA BeginKeeps ==
    ASSUME NEW kind \in {"fills", "listing"}, ScanInv, BeginScan(kind)
    PROVE  ScanInv'
<1> DEFINE step == IF kind = "fills" THEN "open" ELSE "closed"
<1>1. /\ scan.step = "idle" /\ atCutoff' = orders /\ orders' = orders /\ scanNow' = scanNow + 1 /\ scanNow \in Nat
      /\ scan' = [kind |-> kind, step |-> step, cutoff |-> scanNow, cursor |-> 0, cursors |-> {}, pages |-> 0, rows |-> <<>>, doubts |-> {}]
  <2>1. scan' = [NoScan EXCEPT !.kind = kind, !.step = step, !.cutoff = scanNow]
    BY DEF BeginScan, Groups
  <2>2. NoScan = [kind |-> "none", step |-> "idle", cutoff |-> 0, cursor |-> 0, cursors |-> {}, pages |-> 0, rows |-> <<>>, doubts |-> {}]
    BY DEF NoScan
  <2>3. scanNow \in Nat
    BY DEF ScanInv, ScanTyped
  <2>4. scan' = [kind |-> kind, step |-> step, cutoff |-> scanNow, cursor |-> 0, cursors |-> {}, pages |-> 0, rows |-> <<>>, doubts |-> {}]
    BY <2>1, <2>2
  <2> QED
    BY <2>3, <2>4 DEF BeginScan
<1>2. <<>> \in Seq(Rows) /\ Len(<<>>) = 0
  BY EmptySeq
<1>3. ScanTyped'
  BY <1>1, <1>2 DEF ScanInv, ScanTyped
<1>4. \A o \in Orders : orders[o] \in OrderStates
  BY DEF ScanInv, ScanTyped
<1>5. ChangesLater'
  BY <1>1, <1>4 DEF ChangesLater, Unchanged, ScanInv, OrderStates
<1>6. RowsTrue'
  <2>1. scan'.rows = <<>>
    BY <1>1
  <2>2. \A i \in 1..Len(scan'.rows) : FALSE
    BY <2>1
  <2> QED
    BY <2>2 DEF RowsTrue
<1>7. scan'.step = "closed" => \A o \in Owed' : StillAhead(o)'
  <2> SUFFICES ASSUME kind = "listing", NEW o \in Owed' PROVE StillAhead(o)'
    BY <1>1
  <2>1. o \in Orders /\ orders[o].state = "closed"
    BY <1>1 DEF Owed
  <2>2. orders'[o].state = "closed" /\ \A p \in Orders : orders[p].state = "closed" => orders'[p].state = "closed"
    BY <1>1, <2>1
  <2>3. ScanTyped
    BY DEF ScanInv
  <2>4. Cardinality(ListedBefore(o)') \in Nat
    BY <2>1, <2>2, <2>3, PlacesGrow
  <2> QED
    BY <1>1, <2>2, <2>4 DEF StillAhead
<1> QED
  BY <1>1, <1>3, <1>5, <1>6, <1>7 DEF ScanInv, Going

(* A page has each order in its places, as it is, once. *)
LEMMA PageIs ==
    ASSUME ScanTyped, NEW state \in {"open", "closed"}, NEW from \in Nat
    PROVE  LET page == Page(state, from)
           IN  /\ page \in Seq(Rows) /\ Len(page) \in Nat
               /\ \A i \in 1..Len(page) : page[i].order \in OnPage(state, from) /\ page[i] = Row(page[i].order)
               /\ \A i, j \in 1..Len(page) : page[i].order = page[j].order => i = j
               /\ OrdersOf(page) = OnPage(state, from)
<1> DEFINE page == Page(state, from)
           rows == {Row(o) : o \in OnPage(state, from)}
           on == OnPage(state, from)
<1>1. on \subseteq Orders
  BY DEF OnPage, InState
<1>2. IsFiniteSet(on)
  BY <1>1, ScanAssumption, FS_Subset
<1>3. \A o \in on : Row(o).order = o
  BY DEF Row
<1>4. IsFiniteSet(rows)
  <2> DEFINE f == [o \in on |-> Row(o)]
  <2>1. f \in Surjection(on, rows)
    BY DEF Surjection
  <2> HIDE DEF f, on, rows
  <2> QED
    BY <1>2, <2>1, FS_Surjection
<1>5. rows \subseteq Rows
  <2> SUFFICES ASSUME NEW o \in on PROVE Row(o) \in Rows
    OBVIOUS
  <2>1. orders[o] \in OrderStates
    BY <1>1 DEF ScanTyped
  <2> QED
    BY <1>1, <2>1 DEF Row, Rows, OrderStates
<1>6. \A r \in rows : r.order \in on /\ r = Row(r.order)
  BY <1>3
<1>7. \A o \in on : \E r \in rows : r.order = o
  BY <1>3
<1>8. page = SetToSeq(rows)
  BY DEF Page
<1> HIDE DEF page, rows, on
<1>9. /\ page \in Seq(rows) /\ Len(page) \in Nat
      /\ \A i, j \in 1..Len(page) : page[i] = page[j] => i = j
      /\ \A r \in rows : \E i \in 1..Len(page) : page[i] = r
  BY <1>4, <1>8, SetAsSeq
<1>10. page \in Seq(Rows)
  BY <1>5, <1>9, SeqMonotonic
<1>11. \A i \in 1..Len(page) : page[i] \in rows
  BY <1>9
<1>12. \A i \in 1..Len(page) : page[i].order \in on /\ page[i] = Row(page[i].order)
  BY <1>6, <1>11
<1>13. \A i, j \in 1..Len(page) : page[i].order = page[j].order => i = j
  BY <1>9, <1>12
<1>14. OrdersOf(page) = on
  <2>1. DOMAIN page = 1..Len(page)
    BY <1>9
  <2>2. OrdersOf(page) \subseteq on
    BY <1>12, <2>1 DEF OrdersOf
  <2>3. on \subseteq OrdersOf(page)
    BY <1>7, <1>9, <2>1 DEF OrdersOf
  <2> QED
    BY <2>2, <2>3
<1> QED
  BY <1>9, <1>10, <1>12, <1>13, <1>14 DEF page, on

LEMMA OrdersOfConcat ==
    ASSUME NEW a \in Seq(Rows), NEW b \in Seq(Rows)
    PROVE  OrdersOf(a \o b) = OrdersOf(a) \cup OrdersOf(b)
<1>1. /\ a \o b \in Seq(Rows) /\ DOMAIN (a \o b) = 1..Len(a) + Len(b) /\ Len(a) \in Nat /\ Len(b) \in Nat
      /\ DOMAIN a = 1..Len(a) /\ DOMAIN b = 1..Len(b)
      /\ \A i \in 1..Len(a) + Len(b) : (a \o b)[i] = IF i <= Len(a) THEN a[i] ELSE b[i - Len(a)]
  BY ConcatProperties
<1>2. \A i \in 1..Len(a) : i \in 1..Len(a) + Len(b) /\ (a \o b)[i] = a[i]
  BY <1>1
<1>3. \A i \in 1..Len(b) : Len(a) + i \in 1..Len(a) + Len(b) /\ (a \o b)[Len(a) + i] = b[i]
  <2> SUFFICES ASSUME NEW i \in 1..Len(b)
               PROVE  Len(a) + i \in 1..Len(a) + Len(b) /\ (a \o b)[Len(a) + i] = b[i]
    OBVIOUS
  <2>1. Len(a) + i \in 1..Len(a) + Len(b) /\ ~(Len(a) + i <= Len(a)) /\ (Len(a) + i) - Len(a) = i
    BY <1>1
  <2> QED
    BY <1>1, <2>1
<1>4. OrdersOf(a \o b) \subseteq OrdersOf(a) \cup OrdersOf(b)
  <2> SUFFICES ASSUME NEW i \in 1..Len(a) + Len(b)
               PROVE  (a \o b)[i].order \in OrdersOf(a) \cup OrdersOf(b)
    BY <1>1 DEF OrdersOf
  <2>1. CASE i <= Len(a)
    BY <1>1, <2>1 DEF OrdersOf
  <2>2. CASE ~(i <= Len(a))
    <3>1. i - Len(a) \in 1..Len(b) /\ (a \o b)[i] = b[i - Len(a)]
      BY <1>1, <2>2
    <3> QED
      BY <1>1, <3>1 DEF OrdersOf
  <2> QED
    BY <2>1, <2>2
<1>5. OrdersOf(a) \cup OrdersOf(b) \subseteq OrdersOf(a \o b)
  BY <1>1, <1>2, <1>3 DEF OrdersOf
<1> QED
  BY <1>4, <1>5

(* Of the closed orders from the cursor on, a page has those that are not    *)
(* listed after it, and the last page all.                                   *)
LEMMA PageTakes ==
    ASSUME ScanTyped, NEW state \in {"open", "closed"}, NEW from \in Nat, NEW o \in InState(state),
           Cardinality(ListedBefore(o)) >= from
    PROVE  /\ o \in OrdersOf(Page(state, from)) \/ Cardinality(ListedBefore(o)) >= from + ScanPage
           /\ ~More(state, from) => o \in OrdersOf(Page(state, from))
<1>1. o \in Orders /\ orders[o].state = state
  BY DEF InState
<1>2. InState(state) \subseteq Orders /\ ListedBefore(o) \subseteq InState(state) /\ o \notin ListedBefore(o)
  <2>1. ~(o > o)
    BY <1>1, ScanAssumption
  <2> QED
    BY <1>1, <2>1 DEF InState, ListedBefore
<1>3. IsFiniteSet(InState(state)) /\ IsFiniteSet(ListedBefore(o))
  BY <1>2, ScanAssumption, FS_Subset
<1>4. Cardinality(ListedBefore(o)) <= Cardinality(InState(state)) /\ Cardinality(ListedBefore(o)) # Cardinality(InState(state))
  BY <1>2, <1>3, FS_Subset
<1>5. Cardinality(ListedBefore(o)) \in Nat /\ Cardinality(InState(state)) \in Nat /\ ScanPage \in Nat
  BY <1>3, FS_CardinalityType, ScanAssumption
<1>6. o \in OrdersOf(Page(state, from)) \/ Cardinality(ListedBefore(o)) >= from + ScanPage
  <2>1. OrdersOf(Page(state, from)) = OnPage(state, from)
    BY PageIs
  <2> QED
    BY <1>5, <2>1 DEF OnPage
<1>7. ~More(state, from) => Cardinality(InState(state)) <= from + ScanPage
  BY <1>5 DEF More
<1> QED
  BY <1>4, <1>5, <1>6, <1>7

LEMMA EndsDoubtful ==
    ASSUME NEW why \in SUBSET Doubt, why # {}, ScanInv, Going, scan' = Ended(why),
           UNCHANGED <<scanNow, orders, atCutoff>>
    PROVE  ScanInv'
<1>1. scan' = [scan EXCEPT !.step = "done", !.doubts = why]
  BY DEF Ended
<1>2. /\ scan'.step = "done" /\ scan'.doubts = why /\ scan'.kind = scan.kind /\ scan'.rows = scan.rows
      /\ scan' \in [kind : {"none", "fills", "listing"}, step : {"idle", "open", "closed", "done"}, cutoff : Nat,
                     cursor : Nat, cursors : SUBSET Nat, pages : Nat, rows : Seq(Rows), doubts : SUBSET Doubt]
  BY <1>1 DEF ScanInv, ScanTyped
<1>3. ScanTyped'
  BY <1>2 DEF ScanInv, ScanTyped, OrderStates, Rows, Doubt
<1>4. (RowsTrue => RowsTrue') /\ ~Going'
  BY <1>2 DEF RowsTrue, Going
<1> QED
  BY <1>2, <1>3, <1>4 DEF ScanInv, ChangesLater, Going

LEMMA FailScanKeeps == ScanInv /\ FailScan => ScanInv'
<1>1. {"PAGE_FAILED"} \subseteq Doubt /\ {"PAGE_FAILED"} # {}
  BY DEF Doubt
<1> QED
  BY <1>1, EndsDoubtful DEF FailScan, Going

(* Rows of a page without a doubt join those taken. *)
LEMMA KeptTrue ==
    ASSUME ScanInv, Going, scan.kind = "fills", NEW more \in BOOLEAN,
           PageDoubts(Page(scan.step, scan.cursor), more) = {}
    PROVE  LET kept == scan.rows \o Page(scan.step, scan.cursor)
           IN  /\ kept \in Seq(Rows) /\ Len(kept) \in Nat
               /\ OrdersOf(kept) = Scanned \cup OrdersOf(Page(scan.step, scan.cursor))
               /\ \A i \in 1..Len(kept) : SameRow(kept[i], atCutoff[kept[i].order])
               /\ \A i, j \in 1..Len(kept) : kept[i].order = kept[j].order => i = j
               /\ more => scan.step = "closed"
<1> DEFINE page == Page(scan.step, scan.cursor)
           rows == scan.rows
           kept == rows \o page
<1>1. scan.step \in {"open", "closed"} /\ scan.cursor \in Nat /\ rows \in Seq(Rows) /\ ScanTyped /\ scan.cutoff \in Nat
  BY ScanFields DEF Going, ScanInv
<1>2. /\ page \in Seq(Rows) /\ Len(page) \in Nat
      /\ \A i \in 1..Len(page) : page[i].order \in OnPage(scan.step, scan.cursor) /\ page[i] = Row(page[i].order)
      /\ \A i, j \in 1..Len(page) : page[i].order = page[j].order => i = j
  BY <1>1, PageIs
<1>3. more => scan.step = "closed"
  BY <1>1 DEF PageDoubts
<1>4. DOMAIN page = 1..Len(page) /\ DOMAIN rows = 1..Len(rows) /\ Len(rows) \in Nat
  BY <1>1, <1>2
<1>5. \A i \in DOMAIN page : page[i].order \notin Scanned /\ ~(page[i].placed > scan.cutoff) /\ ~(page[i].last > scan.cutoff)
  BY DEF PageDoubts
<1> HIDE DEF page, rows
<1>6. ASSUME NEW i \in 1..Len(page)
      PROVE  SameRow(page[i], atCutoff[page[i].order])
  <2> DEFINE o == page[i].order
  <2>1. o \in Orders /\ orders[o].state \in {"open", "closed"} /\ page[i] = Row(o)
    BY <1>1, <1>2 DEF OnPage, InState
  <2> HIDE DEF o
  <2>2. orders[o].placed = page[i].placed /\ orders[o].last = page[i].last /\ orders[o].filled = page[i].filled
    BY <2>1 DEF Row
  <2>3. ~(orders[o].placed > scan.cutoff) /\ ~(orders[o].last > scan.cutoff)
    BY <1>4, <1>5, <2>2
  <2>4. Unchanged(o)
    BY <2>1, <2>3 DEF ScanInv, ChangesLater
  <2>5. SameRow(page[i], atCutoff[o])
    BY <2>2, <2>4 DEF Unchanged, SameRow
  <2> QED
    BY <2>5 DEF o
<1>7. /\ \A i \in 1..Len(rows) : SameRow(rows[i], atCutoff[rows[i].order])
      /\ \A i, j \in 1..Len(rows) : rows[i].order = rows[j].order => i = j
      /\ \A i \in 1..Len(rows) : rows[i].order \in Scanned
  BY <1>4 DEF ScanInv, RowsTrue, Scanned, OrdersOf, rows
<1>8. /\ kept \in Seq(Rows) /\ Len(kept) = Len(rows) + Len(page)
      /\ \A i \in 1..Len(rows) + Len(page) : kept[i] = IF i <= Len(rows) THEN rows[i] ELSE page[i - Len(rows)]
  BY <1>1, <1>2, ConcatProperties
<1>9. OrdersOf(kept) = Scanned \cup OrdersOf(page)
  BY <1>1, <1>2, OrdersOfConcat DEF Scanned, rows
<1> HIDE DEF kept
<1>10. ASSUME NEW i \in 1..Len(kept)
       PROVE  \/ i \in 1..Len(rows) /\ kept[i] = rows[i]
              \/ i - Len(rows) \in 1..Len(page) /\ kept[i] = page[i - Len(rows)] /\ ~(i <= Len(rows))
  <2>1. CASE i <= Len(rows)
    <3>1. i \in 1..Len(rows)
      BY <1>4, <2>1
    <3>2. kept[i] = rows[i]
      BY <1>8, <2>1
    <3> QED
      BY <3>1, <3>2
  <2>2. CASE ~(i <= Len(rows))
    BY <1>2, <1>4, <1>8, <2>2
  <2> QED
    BY <2>1, <2>2
<1>11. \A i \in 1..Len(kept) : SameRow(kept[i], atCutoff[kept[i].order])
  BY <1>6, <1>7, <1>10
<1>12. ASSUME NEW i \in 1..Len(kept), NEW j \in 1..Len(kept), kept[i].order = kept[j].order
       PROVE  i = j
  <2>1. \A k \in 1..Len(page) : page[k].order \notin Scanned
    BY <1>4, <1>5
  <2>2. CASE i \in 1..Len(rows) /\ kept[i] = rows[i] /\ j \in 1..Len(rows) /\ kept[j] = rows[j]
    BY <1>7, <1>12, <2>2
  <2>3. CASE /\ i - Len(rows) \in 1..Len(page) /\ kept[i] = page[i - Len(rows)]
             /\ j - Len(rows) \in 1..Len(page) /\ kept[j] = page[j - Len(rows)]
    <3>1. i - Len(rows) = j - Len(rows)
      BY <1>2, <1>12, <2>3
    <3>2. i \in Int /\ j \in Int /\ Len(rows) \in Int
      BY <1>4
    <3> QED
      BY <3>1, <3>2
  <2>4. CASE i \in 1..Len(rows) /\ kept[i] = rows[i] /\ j - Len(rows) \in 1..Len(page) /\ kept[j] = page[j - Len(rows)]
    BY <1>7, <1>12, <2>1, <2>4
  <2>5. CASE j \in 1..Len(rows) /\ kept[j] = rows[j] /\ i - Len(rows) \in 1..Len(page) /\ kept[i] = page[i - Len(rows)]
    BY <1>7, <1>12, <2>1, <2>5
  <2> QED
    BY <1>10, <2>2, <2>3, <2>4, <2>5
<1>13. Len(kept) \in Nat
  BY <1>2, <1>4, <1>8
<1> QED
  BY <1>3, <1>8, <1>9, <1>11, <1>12, <1>13 DEF kept, rows, page

(* A scan that goes on, or ends, with rows that leave none of the owed behind. *)
LEMMA ScanGoesOn ==
    ASSUME ScanInv, Going, UNCHANGED <<scanNow, orders, atCutoff>>,
           NEW step \in {"closed", "done"}, NEW rows \in Seq(Rows), NEW cursor \in Nat, NEW cursors \in SUBSET Nat,
           NEW count \in Nat, NEW why \in SUBSET Doubt,
           scan' = [kind |-> scan.kind, step |-> step, cutoff |-> scan.cutoff, cursor |-> cursor, cursors |-> cursors,
                    pages |-> count, rows |-> rows, doubts |-> why],
           scan.kind = "fills" => RowsTrue' /\ why = {},
           step = "closed" => \A o \in Owed : o \in OrdersOf(rows) \/ (orders[o].state = "closed" /\ Cardinality(ListedBefore(o)) >= cursor),
           step = "done" /\ why = {} => Owed \subseteq OrdersOf(rows)
    PROVE  ScanInv'
<1>1. /\ scan'.kind = scan.kind /\ scan'.step = step /\ scan'.cutoff = scan.cutoff /\ scan'.cursor = cursor /\ scan'.rows = rows
      /\ scan'.doubts = why
      /\ scan.kind \in {"none", "fills", "listing"} /\ scan.cutoff \in Nat
  BY ScanFields
<1>2. scan' \in [kind : {"none", "fills", "listing"}, step : {"idle", "open", "closed", "done"}, cutoff : Nat,
                 cursor : Nat, cursors : SUBSET Nat, pages : Nat, rows : Seq(Rows), doubts : SUBSET Doubt]
  BY <1>1
<1>3. ScanTyped'
  BY <1>2 DEF ScanInv, ScanTyped, OrderStates, Rows, Doubt
<1>4. Owed' = Owed /\ Scanned' = OrdersOf(rows) /\ \A o : StillAhead(o)' = (orders[o].state = "closed" /\ Cardinality(ListedBefore(o)) >= cursor)
  BY <1>1 DEF Owed, Scanned, StillAhead, ListedBefore, InState
<1>5. ChangesLater /\ (ChangesLater => ChangesLater')
  BY <1>1 DEF ScanInv, ChangesLater, Unchanged
<1>6. scan.kind # "none" /\ step # "idle" /\ step # "open"
  BY DEF ScanInv, Going
<1>7. \A o \in Orders : atCutoff[o].state = "none" => atCutoff[o].filled = 0
  BY <1>5 DEF ChangesLater
<1> QED
  BY <1>1, <1>3, <1>4, <1>5, <1>6, <1>7 DEF ScanInv

LEMMA OwedAhead ==
    ASSUME ScanInv, scan.step = "closed", NEW o \in Owed, o \notin Scanned
    PROVE  o \in InState("closed") /\ Cardinality(ListedBefore(o)) >= scan.cursor
  BY DEF ScanInv, StillAhead, InState, Owed

LEMMA ReadEvidenceKeeps ==
    ASSUME NEW stale \in BOOLEAN, ScanInv, ReadEvidence(stale)
    PROVE  ScanInv'
<1> DEFINE page == Page(scan.step, scan.cursor)
           more == More(scan.step, scan.cursor)
           why == PageDoubts(page, more)
           kept == scan.rows \o page
           next == IF stale THEN scan.cursor ELSE scan.cursor + ScanPage
           none == {}
<1>1. /\ scan.kind = "fills" /\ scan.step \in {"open", "closed"} /\ Going /\ UNCHANGED <<scanNow, orders, atCutoff>>
      /\ stale => more
  BY DEF ReadEvidence, Going
<1>2. scan' = IF why # {} THEN Ended(why)
              ELSE IF Len(kept) > ScanRows THEN Ended({"ROW_LIMIT"})
              ELSE IF ~more /\ scan.step = "closed" THEN [scan EXCEPT !.step = "done", !.rows = kept]
              ELSE IF ~more THEN [scan EXCEPT !.step = "closed", !.rows = kept, !.cursor = 0, !.cursors = {}, !.pages = 0]
              ELSE IF next \in scan.cursors THEN Ended({"PAGING"})
              ELSE IF scan.pages + 1 = ScanPages THEN Ended({"PAGE_LIMIT"})
              ELSE [scan EXCEPT !.rows = kept, !.cursor = next, !.cursors = @ \cup {next}, !.pages = @ + 1]
  <2>1. Last(Groups) = "closed"
    BY DEF Last, Groups
  <2> QED
    BY <2>1 DEF ReadEvidence
<1>3. /\ scan.cursor \in Nat /\ scan.rows \in Seq(Rows) /\ scan.cursors \subseteq Nat /\ scan.pages \in Nat /\ ScanTyped
      /\ ScanPage \in Nat /\ more \in BOOLEAN
  BY ScanFields, ScanAssumption DEF ScanInv, More
<1>4. next \in Nat /\ next <= scan.cursor + ScanPage /\ \A n \in Nat : n >= scan.cursor + ScanPage => n >= next
  BY <1>3
<1>5. why \subseteq Doubt
  BY DEF PageDoubts, Doubt
<1>6. why = {} =>
          /\ kept \in Seq(Rows) /\ Len(kept) \in Nat
          /\ OrdersOf(kept) = Scanned \cup OrdersOf(page)
          /\ \A i \in 1..Len(kept) : SameRow(kept[i], atCutoff[kept[i].order])
          /\ \A i, j \in 1..Len(kept) : kept[i].order = kept[j].order => i = j
          /\ more => scan.step = "closed"
  BY <1>1, <1>3, KeptTrue
<1>7. ASSUME scan.step = "closed", NEW o \in Owed, o \notin Scanned
      PROVE  /\ orders[o].state = "closed" /\ Cardinality(ListedBefore(o)) \in Nat
             /\ o \in OrdersOf(page) \/ Cardinality(ListedBefore(o)) >= scan.cursor + ScanPage
             /\ ~more => o \in OrdersOf(page)
  <2>1. o \in InState("closed") /\ Cardinality(ListedBefore(o)) >= scan.cursor
    BY <1>7, OwedAhead
  <2>2. o \in Orders /\ orders[o].state = "closed"
    BY <2>1 DEF InState
  <2>3. Cardinality(ListedBefore(o)) \in Nat
    <3>1. ListedBefore(o) \subseteq Orders
      BY DEF ListedBefore, InState
    <3> QED
      BY <3>1, ScanAssumption, FS_Subset, FS_CardinalityType
  <2> QED
    BY <1>3, <1>7, <2>1, <2>2, <2>3, PageTakes
<1> HIDE DEF page, more, why, kept, next
<1>8. CASE why # {}
  BY <1>1, <1>2, <1>5, <1>8, EndsDoubtful
<1>9. CASE why = {} /\ Len(kept) > ScanRows
  <2>1. {"ROW_LIMIT"} \subseteq Doubt /\ {"ROW_LIMIT"} # {} /\ scan' = Ended({"ROW_LIMIT"})
    BY <1>2, <1>9 DEF Doubt
  <2> QED
    BY <1>1, <2>1, EndsDoubtful
<1>10. CASE why = {} /\ ~(Len(kept) > ScanRows) /\ ~more /\ scan.step = "closed"
  <2>1. scan' = [scan EXCEPT !.step = "done", !.rows = kept]
    BY <1>2, <1>10
  <2>2. scan' = [kind |-> scan.kind, step |-> "done", cutoff |-> scan.cutoff, cursor |-> scan.cursor, cursors |-> scan.cursors,
                 pages |-> scan.pages, rows |-> kept, doubts |-> scan.doubts]
    BY <2>1 DEF ScanInv, ScanTyped
  <2>3. scan'.rows = kept /\ scan.doubts = {}
    BY <1>1, <2>2 DEF ScanInv
  <2>4. RowsTrue'
    BY <1>1, <1>6, <1>10, <2>3 DEF RowsTrue
  <2>5. Owed \subseteq OrdersOf(kept)
    BY <1>6, <1>7, <1>10
  <2>6. scan.doubts \subseteq Doubt
    BY <2>3
  <2> QED
    BY <1>1, <1>3, <1>6, <1>10, <2>2, <2>3, <2>4, <2>5, <2>6, ScanGoesOn
<1>11. CASE why = {} /\ ~(Len(kept) > ScanRows) /\ ~more /\ scan.step # "closed"
  <2>1. scan' = [scan EXCEPT !.step = "closed", !.rows = kept, !.cursor = 0, !.cursors = {}, !.pages = 0]
    BY <1>2, <1>11
  <2>2. scan' = [kind |-> scan.kind, step |-> "closed", cutoff |-> scan.cutoff, cursor |-> 0, cursors |-> {},
                 pages |-> 0, rows |-> kept, doubts |-> scan.doubts]
    BY <2>1 DEF ScanInv, ScanTyped
  <2>3. scan'.rows = kept /\ scan.doubts = {} /\ scan.step = "open" /\ scan.cursor = 0
    BY <1>1, <1>11, <2>2 DEF ScanInv
  <2>4. RowsTrue'
    BY <1>1, <1>6, <1>11, <2>3 DEF RowsTrue
  <2>5. ASSUME NEW o \in Owed
        PROVE  o \in OrdersOf(kept) \/ (orders[o].state = "closed" /\ Cardinality(ListedBefore(o)) >= 0)
    <3>1. o \in Orders /\ atCutoff[o].state \in {"open", "closed"}
      BY DEF Owed
    <3>2. orders[o].state \in {"open", "closed"}
      <4>1. orders[o] \in OrderStates
        BY <1>3, <3>1 DEF ScanTyped
      <4>2. orders[o].state # "none"
        BY <1>1, <3>1 DEF ScanInv, ChangesLater
      <4> QED
        BY <4>1, <4>2 DEF OrderStates
    <3>3. Cardinality(ListedBefore(o)) \in Nat
      <4>1. ListedBefore(o) \subseteq Orders
        BY DEF ListedBefore, InState
      <4> QED
        BY <4>1, ScanAssumption, FS_Subset, FS_CardinalityType
    <3>4. CASE orders[o].state = "open"
      <4>1. o \in InState("open") /\ Cardinality(ListedBefore(o)) >= 0
        BY <3>1, <3>3, <3>4 DEF InState
      <4>2. o \in OrdersOf(page)
        BY <1>3, <1>11, <2>3, <4>1, PageTakes DEF page, more
      <4> QED
        BY <1>6, <1>11, <4>2
    <3>5. CASE orders[o].state = "closed"
      BY <3>3, <3>5
    <3> QED
      BY <3>2, <3>4, <3>5
  <2> QED
    BY <1>1, <1>6, <1>11, <2>2, <2>3, <2>4, <2>5, ScanGoesOn
<1>12. CASE why = {} /\ ~(Len(kept) > ScanRows) /\ more /\ next \in scan.cursors
  <2>1. {"PAGING"} \subseteq Doubt /\ {"PAGING"} # {} /\ scan' = Ended({"PAGING"})
    BY <1>2, <1>12 DEF Doubt
  <2> QED
    BY <1>1, <2>1, EndsDoubtful
<1>13. CASE why = {} /\ ~(Len(kept) > ScanRows) /\ more /\ next \notin scan.cursors /\ scan.pages + 1 = ScanPages
  <2>1. {"PAGE_LIMIT"} \subseteq Doubt /\ {"PAGE_LIMIT"} # {} /\ scan' = Ended({"PAGE_LIMIT"})
    BY <1>2, <1>13 DEF Doubt
  <2> QED
    BY <1>1, <2>1, EndsDoubtful
<1>14. CASE why = {} /\ ~(Len(kept) > ScanRows) /\ more /\ next \notin scan.cursors /\ scan.pages + 1 # ScanPages
  <2>1. scan' = [scan EXCEPT !.rows = kept, !.cursor = next, !.cursors = @ \cup {next}, !.pages = @ + 1]
    BY <1>2, <1>14
  <2>2. scan' = [kind |-> scan.kind, step |-> "closed", cutoff |-> scan.cutoff, cursor |-> next, cursors |-> scan.cursors \cup {next},
                 pages |-> scan.pages + 1, rows |-> kept, doubts |-> scan.doubts]
    BY <1>6, <1>14, <2>1 DEF ScanInv, ScanTyped
  <2>3. scan'.rows = kept /\ scan.doubts = {} /\ scan.step = "closed"
    BY <1>1, <1>6, <1>14, <2>2 DEF ScanInv
  <2>4. RowsTrue'
    BY <1>1, <1>6, <1>14, <2>3 DEF RowsTrue
  <2>5. \A o \in Owed : o \in OrdersOf(kept) \/ (orders[o].state = "closed" /\ Cardinality(ListedBefore(o)) >= next)
    BY <1>4, <1>6, <1>7, <1>14, <2>3
  <2>6. scan.cursors \cup {next} \subseteq Nat /\ scan.pages + 1 \in Nat
    BY <1>3, <1>4
  <2> QED
    BY <1>1, <1>4, <1>6, <1>14, <2>2, <2>3, <2>4, <2>5, <2>6, ScanGoesOn
<1> QED
  BY <1>3, <1>8, <1>9, <1>10, <1>11, <1>12, <1>13, <1>14

(* Rows replaced or added by a page: the orders of both are there. *)
LEMMA ReplacedHas ==
    ASSUME NEW rows \in Seq(Rows), NEW page \in Seq(Rows)
    PROVE  /\ Replaced(rows, page) \in Seq(Rows) /\ Len(Replaced(rows, page)) \in Nat
           /\ OrdersOf(rows) \cup OrdersOf(page) \subseteq OrdersOf(Replaced(rows, page))
<1> DEFINE before == [i \in DOMAIN rows |-> IF rows[i].order \in OrdersOf(page)
                         THEN CHOOSE row \in Range(page) : row.order = rows[i].order ELSE rows[i]]
           new == {row \in Range(page) : row.order \notin OrdersOf(rows)}
           added == SetToSeq(new)
<1>1. /\ DOMAIN rows = 1..Len(rows) /\ Len(rows) \in Nat /\ \A i \in 1..Len(rows) : rows[i] \in Rows
      /\ DOMAIN page = 1..Len(page) /\ Len(page) \in Nat /\ \A i \in 1..Len(page) : page[i] \in Rows
  OBVIOUS
<1>2. Range(page) \subseteq Rows /\ OrdersOf(page) = {row.order : row \in Range(page)}
  BY <1>1 DEF Range, OrdersOf
<1>3. ASSUME NEW i \in 1..Len(rows)
      PROVE  before[i] \in Rows /\ before[i].order = rows[i].order
  <2>1. CASE rows[i].order \in OrdersOf(page)
    <3>1. \E row \in Range(page) : row.order = rows[i].order
      BY <1>2, <2>1
    <3> DEFINE chosen == CHOOSE row \in Range(page) : row.order = rows[i].order
    <3>2. chosen \in Range(page) /\ chosen.order = rows[i].order
      BY <3>1
    <3>3. before[i] = chosen
      BY <1>1, <2>1
    <3> HIDE DEF chosen, before
    <3> QED
      BY <1>2, <3>2, <3>3
  <2>2. CASE rows[i].order \notin OrdersOf(page)
    BY <1>1, <2>2
  <2> QED
    BY <2>1, <2>2
<1>4. DOMAIN before = 1..Len(rows)
  BY <1>1
<1>5. IsFiniteSet(Range(page))
  <2>1. page \in Surjection(1..Len(page), Range(page))
    BY <1>1 DEF Surjection, Range
  <2>2. IsFiniteSet(1..Len(page))
    BY <1>1, FS_Interval
  <2> QED
    BY <2>1, <2>2, FS_Surjection
<1>6. IsFiniteSet(new) /\ new \subseteq Rows
  BY <1>2, <1>5, FS_Subset
<1>7. /\ added \in Seq(new) /\ Len(added) \in Nat /\ \A e \in new : \E i \in 1..Len(added) : added[i] = e
  BY <1>6, SetAsSeq
<1>8. Replaced(rows, page) = before \o added
  BY DEF Replaced
<1>9. \A row \in Range(page) : row.order \in OrdersOf(rows) \/ row \in new
  OBVIOUS
<1> HIDE DEF before, new, added
<1>10. added \in Seq(Rows) /\ DOMAIN added = 1..Len(added)
  BY <1>6, <1>7, SeqMonotonic
<1>11. before \in [1..Len(rows) -> Rows]
  <2>1. before = [i \in DOMAIN before |-> before[i]]
    BY DEF before
  <2> QED
    BY <1>3, <1>4, <2>1
<1>12. before \in Seq(Rows)
  BY <1>1, <1>11
<1>13. OrdersOf(before) = OrdersOf(rows)
  BY <1>1, <1>3, <1>4 DEF OrdersOf
<1>14. OrdersOf(before \o added) = OrdersOf(rows) \cup OrdersOf(added)
  BY <1>10, <1>12, <1>13, OrdersOfConcat
<1>15. \A row \in new : row.order \in OrdersOf(added)
  BY <1>7, <1>10 DEF OrdersOf
<1>16. OrdersOf(page) \subseteq OrdersOf(rows) \cup OrdersOf(added)
  BY <1>2, <1>9, <1>15
<1>17. before \o added \in Seq(Rows) /\ Len(before \o added) \in Nat
  BY <1>10, <1>12, ConcatProperties
<1> QED
  BY <1>8, <1>14, <1>16, <1>17

LEMMA ReadListingKeeps ==
    ASSUME NEW stale \in BOOLEAN, ScanInv, ReadListing(stale)
    PROVE  ScanInv'
<1> DEFINE page == Page("closed", scan.cursor)
           more == More("closed", scan.cursor)
           kept == Replaced(scan.rows, page)
           next == IF stale THEN scan.cursor ELSE scan.cursor + ScanPage
           stop == ~more \/ next \in scan.cursors \/ scan.pages + 1 = ScanPages \/ Len(kept) >= ScanRows
           truncated == more \/ Len(kept) > ScanRows
           rows == IF stop THEN SubSeq(kept, 1, Min({ScanRows, Len(kept)})) ELSE kept
           why == IF stop /\ truncated THEN {"TRUNCATED"} ELSE {}
           step == IF stop THEN "done" ELSE "closed"
<1>1. scan.kind = "listing" /\ scan.step = "closed" /\ Going /\ UNCHANGED <<scanNow, orders, atCutoff>>
  BY DEF ReadListing, Going
<1>2. scan' = [scan EXCEPT !.rows = rows, !.cursor = next, !.cursors = @ \cup {next}, !.pages = @ + 1, !.step = step, !.doubts = why]
  BY DEF ReadListing
<1>3. /\ scan.cursor \in Nat /\ scan.rows \in Seq(Rows) /\ scan.cursors \subseteq Nat /\ scan.pages \in Nat /\ ScanTyped
      /\ ScanPage \in Nat /\ ScanRows \in Nat /\ ScanRows > 0 /\ more \in BOOLEAN
  BY ScanFields, ScanAssumption DEF ScanInv, More
<1>4. next \in Nat /\ \A n \in Nat : n >= scan.cursor + ScanPage => n >= next
  BY <1>3
<1>5. page \in Seq(Rows)
  BY <1>3, PageIs
<1>6. /\ kept \in Seq(Rows) /\ Len(kept) \in Nat /\ Scanned \cup OrdersOf(page) \subseteq OrdersOf(kept)
  BY <1>3, <1>5, ReplacedHas DEF Scanned
<1>7. ASSUME NEW o \in Owed, o \notin Scanned
      PROVE  /\ orders[o].state = "closed" /\ Cardinality(ListedBefore(o)) \in Nat
             /\ o \in OrdersOf(page) \/ Cardinality(ListedBefore(o)) >= scan.cursor + ScanPage
             /\ ~more => o \in OrdersOf(page)
  <2>1. o \in InState("closed") /\ Cardinality(ListedBefore(o)) >= scan.cursor
    BY <1>1, <1>7, OwedAhead
  <2>2. o \in Orders /\ orders[o].state = "closed"
    BY <2>1 DEF InState
  <2>3. Cardinality(ListedBefore(o)) \in Nat
    <3>1. ListedBefore(o) \subseteq Orders
      BY DEF ListedBefore, InState
    <3> QED
      BY <3>1, ScanAssumption, FS_Subset, FS_CardinalityType
  <2> QED
    BY <1>3, <2>1, <2>2, <2>3, PageTakes
<1>8. stop => more \/ ~more
  OBVIOUS
<1>9. ~stop => more
  OBVIOUS
<1>10. rows \in Seq(Rows) /\ (Len(kept) <= ScanRows => rows = kept)
  <2> DEFINE m == Min({ScanRows, Len(kept)})
  <2> HIDE DEF kept
  <2>1. m = IF ScanRows <= Len(kept) THEN ScanRows ELSE Len(kept)
    BY <1>3, <1>6 DEF Min
  <2> HIDE DEF m
  <2>2. m \in Nat /\ m <= Len(kept) /\ (Len(kept) <= ScanRows => m = Len(kept))
    BY <1>3, <1>6, <2>1
  <2>3. SubSeq(kept, 1, m) \in Seq(Rows)
    <3>1. \A i \in 1..m : kept[i] \in Rows
      BY <1>6, <2>2
    <3> QED
      BY <2>2, <3>1, SubSeqProperties
  <2>4. SubSeq(kept, 1, Len(kept)) = kept
    BY <1>6, SubSeqFull
  <2> QED
    BY <1>6, <2>2, <2>3, <2>4 DEF m
<1>11. why \subseteq Doubt /\ (why = {} => ~stop \/ (~more /\ ~(Len(kept) > ScanRows)))
  BY DEF Doubt
<1>12. step \in {"closed", "done"} /\ (step = "done" <=> stop)
  OBVIOUS
<1> DEFINE cursors == scan.cursors \cup {next}
           count == scan.pages + 1
<1>13. cursors \subseteq Nat /\ count \in Nat
  BY <1>3, <1>4
<1>14. ~stop => rows = kept
  OBVIOUS
<1> HIDE DEF page, more, kept, next, stop, truncated, rows, why, step
<1>15. scan' = [kind |-> scan.kind, step |-> step, cutoff |-> scan.cutoff, cursor |-> next, cursors |-> cursors,
                pages |-> count, rows |-> rows, doubts |-> why]
  BY <1>2 DEF ScanInv, ScanTyped
<1>16. step = "closed" => \A o \in Owed : o \in OrdersOf(rows) \/ (orders[o].state = "closed" /\ Cardinality(ListedBefore(o)) >= next)
  <2> SUFFICES ASSUME step = "closed", NEW o \in Owed
               PROVE  o \in OrdersOf(rows) \/ (orders[o].state = "closed" /\ Cardinality(ListedBefore(o)) >= next)
    OBVIOUS
  <2>1. rows = kept
    BY <1>12, <1>14
  <2>2. CASE o \in Scanned
    BY <1>6, <2>1, <2>2
  <2>3. CASE o \notin Scanned
    <3>1. /\ orders[o].state = "closed" /\ Cardinality(ListedBefore(o)) \in Nat
          /\ o \in OrdersOf(page) \/ Cardinality(ListedBefore(o)) >= scan.cursor + ScanPage
      BY <1>7, <2>3
    <3> QED
      BY <1>4, <1>6, <2>1, <3>1
  <2> QED
    BY <2>2, <2>3
<1>17. step = "done" /\ why = {} => Owed \subseteq OrdersOf(rows)
  <2> SUFFICES ASSUME step = "done", why = {}, NEW o \in Owed
               PROVE  o \in OrdersOf(rows)
    OBVIOUS
  <2>1. ~more /\ ~(Len(kept) > ScanRows)
    BY <1>11, <1>12
  <2>2. rows = kept
    BY <1>3, <1>6, <1>10, <2>1
  <2> QED
    BY <1>6, <1>7, <2>1, <2>2
<1> HIDE DEF cursors, count
<1> QED
  BY <1>1, <1>4, <1>10, <1>11, <1>12, <1>13, <1>15, <1>16, <1>17, ScanGoesOn

LEMMA ScanInvStep == ScanInv /\ [ScanNext]_scanVars => ScanInv'
<1> SUFFICES ASSUME ScanInv, [ScanNext]_scanVars PROVE ScanInv'
  OBVIOUS
<1>1. CASE UNCHANGED scanVars
  BY <1>1 DEF scanVars, ScanInv, ScanTyped, Going, ChangesLater, Unchanged, RowsTrue, Owed, StillAhead, ListedBefore, InState, Scanned
<1> QED
  BY <1>1, TickKeepsScan, FailScanKeeps, PlacedKeeps, FilledKeeps, CanceledKeeps, BeginKeeps, ReadEvidenceKeeps, ReadListingKeeps
     DEF ScanNext

(***************************************************************************)
(* The theorems.                                                           *)
(***************************************************************************)
(* However the calls interleave, positions are answered from a read that    *)
(* overlapped the call, or ended at most SharedSeconds before it            *)
(* (portfolio_sources.py), in a copy of the call's own, and futures         *)
(* positions from a read of the call's own or one younger than the reuse    *)
(* time (crypto_futures_accounts.py).                                       *)
THEOREM ThreadsReadsFresh == MCSpec => []ReadsFresh
<1> DEFINE Inv == SharedInv /\ FuturesInv
<1>1. MCInit => Inv
  BY GroupsBegin, SharedBegin, FuturesBegin
<1>2. Inv /\ [MCNext]_threadVars => Inv'
  BY GroupsApart, SharedInvStep, FuturesInvStep
<1>3. Inv => ReadsFresh
  BY SharedInvMeans, FuturesInvMeans DEF ReadsFresh
<1> QED
  BY <1>1, <1>2, <1>3, PTL DEF MCSpec

(* However requests and tries fall, those of a provider are apart and       *)
(* silent after a refusal (request_pacing.py), wrong phrases and            *)
(* registrations are no more than the limits say in any window, and who is  *)
(* told to wait is let in after that (owner_gate.py, oauth_store.py).       *)
THEOREM ThreadsRatesKept == MCSpec => []RatesKept
<1> DEFINE Inv == PaceInv /\ GateInv
<1>1. MCInit => Inv
  BY GroupsBegin, PaceBegin, GateBegin
<1>2. Inv /\ [MCNext]_threadVars => Inv'
  BY GroupsApart, PaceInvStep, GateInvStep
<1>3. Inv => RatesKept
  BY PaceInvMeans, GateInvMeans DEF RatesKept
<1> QED
  BY <1>1, <1>2, <1>3, PTL DEF MCSpec

(* Whatever fails or changes between the requests, what they return together *)
(* is whole or says that it is not: a futures history has every row and the  *)
(* value of an account every exchange (crypto_futures_accounts.py), a scan   *)
(* of orders those of its cutoff (toss_api.py), and a trade history every    *)
(* trade of its days, none twice (kis_api.py).                               *)
THEOREM ThreadsReadsWhole == MCSpec => []ReadsWhole
<1> DEFINE Inv == HistoryInv /\ ValueInv /\ ScanInv /\ PagesInv
<1>1. MCInit => Inv
  BY GroupsBegin, HistoryBegin, ValuesBegin, ScanBegins, PagesBegin
<1>2. Inv /\ [MCNext]_threadVars => Inv'
  BY GroupsApart, HistoryInvStep, ValueInvStep, ScanInvStep, PagesInvStep
<1>3. Inv => HistoryWhole /\ ScansWhole /\ PagesWhole
  BY HistoryInvMeans, ScanInvMeans, PagesInvMeans
<1>4. Inv => ReadsWhole
  BY <1>3 DEF ReadsWhole, ValueInv
<1> QED
  BY <1>1, <1>2, <1>4, PTL DEF MCSpec

================================================================================
