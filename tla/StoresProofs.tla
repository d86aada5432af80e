----------------------------- MODULE StoresProofs -----------------------------
(***************************************************************************)
(* Theorems about what calls and processes leave behind for one another:   *)
(* the Toss token, the dividend cache, frozen exports, the cursors with    *)
(* which a history's collection is resumed.                                *)
(***************************************************************************)
EXTENDS TossToken, DividendCache, DatasetExport, Recoveries, FiniteSetTheorems, SequenceTheorems, TLAPS

(***************************************************************************)
(* The Toss token.  A token once written to the file is never written to   *)
(* it again: the process that was issued a token writes it before anyone   *)
(* else can hold it.                                                       *)
(***************************************************************************)
Steps == {"idle", "ensure", "issue", "save", "write", "send", "sent"}

TossTypeOK ==
    /\ issued \in 0..MaxTokens
    /\ tokenFile \in -1..issued
    /\ memory \in [Processes -> [token : 0..issued, expiry : 0..issued]]
    /\ request \in [Processes -> [step : Steps, first : 0..issued, second : 0..issued, stuck : BOOLEAN]]

(* A token being saved is known to the process it was issued to and no other. *)
UnsharedUntilSaved ==
    \A p \in Processes : request[p].step \in {"save", "write"} =>
        /\ memory[p].token # 0 /\ tokenFile # memory[p].token
        /\ \A q \in Processes :
              /\ request[q].first # memory[p].token /\ request[q].second # memory[p].token
              /\ q # p => memory[q].token # memory[p].token

(* The token a request was refused with is nowhere it could be read from, *)
(* unless the file could not be removed.                                  *)
RefusedTokenGone ==
    \A p \in Processes :
        request[p].first # 0 /\ ~request[p].stuck /\ request[p].step \in Steps \ {"sent"} =>
            /\ tokenFile # request[p].first
            /\ memory[p].token # request[p].first

(* A request carries a token, and one that goes on has none or a new one. *)
Carried ==
    \A p \in Processes :
        /\ request[p].step \in {"send", "sent"} => memory[p].token # 0
        /\ request[p].step # "sent" => request[p].second = 0
        /\ request[p].step = "sent" => request[p].first # 0
        /\ request[p].step = "sent" /\ request[p].second = 0 => request[p].first = memory[p].token

TossInv == TossTypeOK /\ UnsharedUntilSaved /\ RefusedTokenGone /\ Carried /\ ResendIsAnother

(* Every step of a process, and of Toss, keeps the invariant. *)
LEMMA TossStep == ASSUME TossAssumption, TossInv, [TossNext]_tossVars PROVE TossInv'
<1> USE DEF Tokens, Absent, Truncated, NoRequest, Steps, GoesOn, TossAssumption
<1>1. ASSUME NEW t \in Tokens, TokenEnds(t) \/ TokenAges(t) PROVE TossInv'
  BY <1>1 DEF TossInv, TossTypeOK, UnsharedUntilSaved, RefusedTokenGone, Carried, ResendIsAnother,
              TokenEnds, TokenAges
<1>2. ASSUME NEW p \in Processes, StartRequest(p) PROVE TossInv'
  BY <1>2 DEF TossInv, TossTypeOK, UnsharedUntilSaved, RefusedTokenGone, Carried, ResendIsAnother,
              StartRequest
<1>3. ASSUME NEW p \in Processes, Remember(p) PROVE TossInv'
  BY <1>3 DEF TossInv, TossTypeOK, UnsharedUntilSaved, RefusedTokenGone, Carried, ResendIsAnother,
              Remember, Remembered
<1>4. ASSUME NEW p \in Processes, Load(p) PROVE TossInv'
  BY <1>4 DEF TossInv, TossTypeOK, UnsharedUntilSaved, RefusedTokenGone, Carried, ResendIsAnother,
              Load, Loadable
<1>5. ASSUME NEW p \in Processes, AskToken(p) PROVE TossInv'
  BY <1>5 DEF TossInv, TossTypeOK, UnsharedUntilSaved, RefusedTokenGone, Carried, ResendIsAnother,
              AskToken
<1>6. ASSUME NEW p \in Processes, NEW others \in BOOLEAN, Issue(p, others) PROVE TossInv'
  BY <1>6 DEF TossInv, TossTypeOK, UnsharedUntilSaved, RefusedTokenGone, Carried, ResendIsAnother,
              Issue
<1>7. ASSUME NEW p \in Processes, NotIssued(p) PROVE TossInv'
  BY <1>7 DEF TossInv, TossTypeOK, UnsharedUntilSaved, RefusedTokenGone, Carried, ResendIsAnother,
              NotIssued
<1>8. ASSUME NEW p \in Processes, Truncate(p) PROVE TossInv'
  BY <1>8 DEF TossInv, TossTypeOK, UnsharedUntilSaved, RefusedTokenGone, Carried, ResendIsAnother,
              Truncate
<1>9. ASSUME NEW p \in Processes, Write(p) PROVE TossInv'
  BY <1>9 DEF TossInv, TossTypeOK, UnsharedUntilSaved, RefusedTokenGone, Carried, ResendIsAnother,
              Write
<1>10. ASSUME NEW p \in Processes, SaveFails(p) PROVE TossInv'
  BY <1>10 DEF TossInv, TossTypeOK, UnsharedUntilSaved, RefusedTokenGone, Carried, ResendIsAnother,
               SaveFails
<1>11. ASSUME NEW p \in Processes, Send(p) PROVE TossInv'
  BY <1>11 DEF TossInv, TossTypeOK, UnsharedUntilSaved, RefusedTokenGone, Carried, ResendIsAnother,
               Send
<1>12. ASSUME NEW p \in Processes, Done(p) PROVE TossInv'
  BY <1>12 DEF TossInv, TossTypeOK, UnsharedUntilSaved, RefusedTokenGone, Carried, ResendIsAnother,
               Done
<1>13. ASSUME NEW p \in Processes, NEW stuck \in BOOLEAN, Refused(p, stuck) PROVE TossInv'
  <2>1. /\ memory' = [memory EXCEPT ![p].token = 0]
        /\ request' = [request EXCEPT ![p] = [step |-> "ensure", first |-> request[p].first,
                                               second |-> 0, stuck |-> stuck]]
        /\ tokenFile' \in {tokenFile, 0} /\ (~stuck => tokenFile' = 0)
        /\ request[p].step = "sent" /\ request[p].second = 0
        /\ UNCHANGED <<issued, valid, old>>
    BY <1>13 DEF Refused, Removed
  <2>2. TossTypeOK'
    BY <2>1 DEF TossInv, TossTypeOK
  <2>3. UnsharedUntilSaved'
    BY <2>1 DEF TossInv, TossTypeOK, UnsharedUntilSaved
  <2>4. RefusedTokenGone'
    BY <2>1 DEF TossInv, TossTypeOK, RefusedTokenGone
  <2>5. Carried' /\ ResendIsAnother'
    BY <2>1 DEF TossInv, TossTypeOK, Carried, ResendIsAnother
  <2> QED
    BY <2>2, <2>3, <2>4, <2>5 DEF TossInv
<1>14. CASE UNCHANGED tossVars
  BY <1>14 DEF TossInv, TossTypeOK, UnsharedUntilSaved, RefusedTokenGone, Carried, ResendIsAnother, tossVars
<1> QED
  BY <1>1, <1>2, <1>3, <1>4, <1>5, <1>6, <1>7, <1>8, <1>9, <1>10, <1>11, <1>12, <1>13, <1>14 DEF TossNext

(* ResendIsAnother, for any number of processes: toss_api.py sends a refused *)
(* request again with a token the refusal did not meet.                      *)
THEOREM TossResendIsAnother == TossSpec => []ResendIsAnother
<1>1. TossInit => TossInv
  BY TossAssumption DEF TossInit, TossInv, TossTypeOK, UnsharedUntilSaved, RefusedTokenGone, Carried,
                        ResendIsAnother, TossAssumption, NoRequest, Absent, Steps
<1>2. TossInv /\ [TossNext]_tossVars => TossInv'
  BY TossStep, TossAssumption
<1>3. TossInv => ResendIsAnother
  BY DEF TossInv
<1> QED
  BY <1>1, <1>2, <1>3, PTL DEF TossSpec

(***************************************************************************)
(* The dividend cache.  Who holds the flock read the file as it still is,  *)
(* or met the one read that fails; and began after the file's attempt.     *)
(***************************************************************************)
CacheRecord == [attempt : Nat \cup {NoTime}, good : Nat \cup {NoTime}]
Holding == {"fetching", "merging", "saving"}

DividendTypeOK ==
    /\ clock \in Nat /\ setBack \in Nat /\ faults \in Nat
    /\ file \in CacheRecord
    /\ locked \subseteq Refreshers
    /\ refresh \in [Refreshers -> [step : {"idle", "looking"} \cup Holding, now : Nat,
                                   previous : CacheRecord, record : CacheRecord]]

LockIsHeld ==
    \A p \in Refreshers :
        /\ p \in locked <=> refresh[p].step \in Holding
        /\ p \in locked => locked = {p}

(* What a holder read is the file, unless the read that may fail was that one. *)
ReadUnderLock ==
    \A p \in locked :
        \/ refresh[p].previous = file /\ file.attempt < refresh[p].now
        \/ refresh[p].previous = NoRecord /\ faults >= 1

GoodIsAttempted == file.good <= file.attempt

NotYetMerged ==
    \A p \in locked : refresh[p].step = "merging" =>
        /\ refresh[p].record.attempt = refresh[p].now
        /\ refresh[p].record.good \in {refresh[p].now, refresh[p].previous.good}

NothingLost ==
    \A p \in locked : refresh[p].step = "saving" =>
        /\ refresh[p].record.attempt >= file.attempt
        /\ refresh[p].record.good >= file.good
        /\ refresh[p].record.good <= refresh[p].record.attempt

DividendInv ==
    DividendTypeOK /\ LockIsHeld /\ ReadUnderLock /\ GoodIsAttempted /\ NotYetMerged /\ NothingLost

(* A later market day is a later time. *)
LEMMA LaterDay ==
    ASSUME DividendAssumption, NEW early \in Nat, NEW late \in Nat, MarketDay(early) < MarketDay(late)
    PROVE  early < late
<1>1. PICK d \in Nat \ {0} : d = DayLength
  BY DEF DividendAssumption
<1>2. /\ early = d * (early \div d) + (early % d) /\ late = d * (late \div d) + (late % d)
      /\ early % d \in 0..d-1 /\ late % d \in 0..d-1
      /\ early \div d \in Nat /\ late \div d \in Nat
  BY <1>1
<1>3. early \div d + 1 <= late \div d
  BY <1>1, <1>2 DEF MarketDay
<1>4. \A x, y \in Nat : x + 1 <= y => d * x + d <= d * y
  <2> SUFFICES ASSUME NEW x \in Nat, NEW y \in Nat, x + 1 <= y PROVE d * x + d <= d * y
    OBVIOUS
  <2>1. PICK n \in Nat : y = x + 1 + n
    BY x + 1 <= y, y - x - 1 \in Nat
  <2>2. d * y = d * x + d + d * n
    BY <2>1, <1>1
  <2>3. d * n \in Nat /\ d * x \in Nat
    BY <1>1
  <2> QED
    BY <2>2, <2>3, <1>1
<1>5. d * (early \div d) + d <= d * (late \div d)
  BY <1>2, <1>3, <1>4
<1>6. d * (early \div d) \in Nat /\ d * (late \div d) \in Nat
  BY <1>1, <1>2
<1> QED
  BY <1>1, <1>2, <1>5, <1>6

LEMMA DividendStep ==
    ASSUME DividendAssumption, MaxFaults <= 1, DividendInv, [DividendNext]_dividendVars
    PROVE  /\ DividendInv'
           /\ file'.good >= file.good /\ file'.attempt >= file.attempt
<1> DEFINE Kept == DividendInv' /\ file'.good >= file.good /\ file'.attempt >= file.attempt
<1> SUFFICES Kept
  OBVIOUS
<1>0. MaxFaults \in Nat
  BY DEF DividendAssumption
<1> USE DEF GoesOnTo, CacheRecord, Holding, NoTime, NoRecord, Asleep, DividendAssumption
<1>1. CASE ClockGoesOn \/ ClockIsSet
  BY <1>1 DEF DividendInv, DividendTypeOK, LockIsHeld, ReadUnderLock, GoodIsAttempted, NotYetMerged, NothingLost,
              ClockGoesOn, ClockIsSet
<1>2. ASSUME NEW p \in Refreshers, NEW fails \in BOOLEAN, Lock(p, fails) PROVE Kept
  <2> DEFINE previous == Loaded(clock, TRUE, fails)
  <2>1. /\ previous = file \/ (previous = NoRecord /\ faults' >= 1)
        /\ previous \in CacheRecord /\ faults' \in Nat /\ faults' >= faults
    BY <1>2 DEF Lock, Loaded, Fault, DividendInv, DividendTypeOK
  <2>2. CASE AttemptedToday(previous, clock)
    BY <1>2, <2>1, <2>2 DEF Lock, DividendInv, DividendTypeOK, LockIsHeld, ReadUnderLock, GoodIsAttempted,
                            NotYetMerged, NothingLost
  <2>3. CASE ~AttemptedToday(previous, clock)
    <3>1. /\ locked = {} /\ locked' = {p} /\ UNCHANGED <<clock, setBack, file>>
          /\ GoesOnTo(p, "fetching", clock, previous, NoRecord)
      BY <1>2, <2>3 DEF Lock
    <3>2. previous = file => file.attempt < clock
      <4> SUFFICES ASSUME previous = file, file.attempt # NoTime PROVE file.attempt < clock
        BY DEF DividendInv, DividendTypeOK
      <4>1. ~(MarketDay(file.attempt) >= MarketDay(clock))
        BY <2>3 DEF AttemptedToday
      <4>2. file.attempt \in Nat /\ clock \in Nat
        BY DEF DividendInv, DividendTypeOK
      <4>3. MarketDay(file.attempt) \in Int /\ MarketDay(clock) \in Int
        BY <4>2 DEF MarketDay
      <4> QED
        BY <4>1, <4>2, <4>3, LaterDay
    <3> HIDE DEF previous
    <3> QED
      BY <2>1, <3>1, <3>2 DEF DividendInv, DividendTypeOK, LockIsHeld, ReadUnderLock, GoodIsAttempted,
                              NotYetMerged, NothingLost
  <2> QED
    BY <2>2, <2>3
<1>3. ASSUME NEW p \in Refreshers, NEW fails \in BOOLEAN, LookOnly(p, fails) PROVE Kept
  <2>1. PICK previous \in CacheRecord :
            GoesOnTo(p, "looking", clock, previous, NoRecord)
    BY <1>3 DEF LookOnly, Loaded, DividendInv, DividendTypeOK
  <2>2. /\ faults' \in Nat /\ faults' >= faults /\ UNCHANGED <<clock, setBack, file, locked>>
        /\ refresh[p].step = "idle"
    BY <1>3 DEF LookOnly, Fault, DividendInv, DividendTypeOK
  <2> QED
    BY <2>1, <2>2 DEF DividendInv, DividendTypeOK, LockIsHeld, ReadUnderLock, GoodIsAttempted,
              NotYetMerged, NothingLost
<1>4. ASSUME NEW p \in Refreshers, NEW listed \in BOOLEAN, Fetched(p, listed) PROVE Kept
  <2>1. PICK mine \in CacheRecord :
            /\ mine.attempt = refresh[p].now
            /\ mine.good \in {refresh[p].now, refresh[p].previous.good}
            /\ GoesOnTo(p, "merging", refresh[p].now, refresh[p].previous, mine)
    BY <1>4 DEF Fetched, Attempted, DividendInv, DividendTypeOK
  <2>2. /\ refresh[p].step = "fetching" /\ p \in locked
        /\ UNCHANGED <<clock, setBack, faults, file, locked>>
    BY <1>4 DEF Fetched, DividendInv, LockIsHeld
  <2> QED
    BY <2>1, <2>2 DEF DividendInv, DividendTypeOK, LockIsHeld, ReadUnderLock, GoodIsAttempted,
                      NotYetMerged, NothingLost
<1>5. ASSUME NEW p \in Refreshers, NEW fails \in BOOLEAN, Merge(p, fails) PROVE Kept
  <2>1. PICK mine \in CacheRecord :
            /\ mine = refresh[p].record /\ mine.attempt = refresh[p].now /\ refresh[p].now \in Nat
            /\ mine.good \in {refresh[p].now, refresh[p].previous.good}
            /\ p \in locked /\ locked = {p} /\ refresh[p].step = "merging"
            /\ file \in CacheRecord /\ file.good <= file.attempt
    BY <1>5 DEF Merge, DividendInv, DividendTypeOK, LockIsHeld, GoodIsAttempted, NotYetMerged
  <2>2. PICK latest \in CacheRecord :
            /\ latest = file \/ (latest = NoRecord /\ faults = 0)
            /\ faults' \in Nat /\ faults' >= faults /\ UNCHANGED <<clock, setBack, file>>
            /\ IF latest.attempt # NoTime /\ latest.attempt >= mine.attempt THEN Returns(p)
               ELSE /\ GoesOnTo(p, "saving", refresh[p].now, refresh[p].previous, Merged(mine, latest))
                    /\ UNCHANGED locked
    BY <1>0, <1>5, MaxFaults <= 1, <2>1 DEF Merge, Loaded, Fault, DividendInv, DividendTypeOK
  <2>3. CASE latest.attempt # NoTime /\ latest.attempt >= mine.attempt
    <3>1. refresh' = [refresh EXCEPT ![p] = Asleep] /\ locked' = {}
      BY <2>2, <2>3 DEF Returns
    <3> QED
      BY <2>1, <2>2, <3>1 DEF DividendInv, DividendTypeOK, LockIsHeld, ReadUnderLock, GoodIsAttempted,
                              NotYetMerged, NothingLost
  <2>4. CASE ~(latest.attempt # NoTime /\ latest.attempt >= mine.attempt)
    <3>1. mine.attempt > file.attempt
      BY <2>1, <2>2, <2>4 DEF DividendInv, DividendTypeOK, ReadUnderLock
    <3>2. mine.good <= mine.attempt
      BY <2>1 DEF DividendInv, DividendTypeOK, ReadUnderLock
    <3>3. PICK merged \in CacheRecord :
              /\ merged = Merged(mine, latest) /\ merged.attempt = mine.attempt
              /\ merged.good >= file.good /\ merged.good <= mine.attempt
      <4>1. CASE latest = file
        <5>1. Merged(mine, latest) = [attempt |-> mine.attempt,
                                      good |-> IF latest.good > mine.good THEN latest.good ELSE mine.good]
          BY <2>1 DEF Merged
        <5> QED
          BY <2>1, <3>1, <3>2, <4>1, <5>1
      <4>2. CASE latest = NoRecord /\ faults = 0
        <5>1. mine.good >= file.good
          BY <2>1, <3>1, <4>2 DEF DividendInv, DividendTypeOK, ReadUnderLock
        <5>2. Merged(mine, latest) = mine
          BY <2>1, <4>2 DEF Merged
        <5> QED
          BY <2>1, <3>2, <5>1, <5>2
      <4> QED
        BY <2>2, <4>1, <4>2
    <3>4. GoesOnTo(p, "saving", refresh[p].now, refresh[p].previous, merged) /\ UNCHANGED locked
      BY <2>2, <2>4, <3>3
    <3> QED
      BY <2>1, <2>2, <2>4, <3>1, <3>3, <3>4 DEF DividendInv, DividendTypeOK, LockIsHeld, ReadUnderLock,
                              GoodIsAttempted, NotYetMerged, NothingLost
  <2> QED
    BY <2>3, <2>4
<1>6. ASSUME NEW p \in Refreshers, NEW fails \in BOOLEAN, Save(p, fails) PROVE Kept
  <2>1. /\ refresh' = [refresh EXCEPT ![p] = Asleep] /\ locked' = {} /\ UNCHANGED <<clock, setBack, faults>>
        /\ p \in locked /\ locked = {p}
        /\ file' \in {file, refresh[p].record} /\ refresh[p].step = "saving"
    BY <1>6 DEF Save, Returns, DividendInv, LockIsHeld
  <2> QED
    BY <2>1 DEF DividendInv, DividendTypeOK, LockIsHeld, ReadUnderLock,
              GoodIsAttempted, NotYetMerged, NothingLost
<1>7. ASSUME NEW p \in Refreshers, Looked(p) \/ Die(p) PROVE Kept
  <2>1. /\ refresh' = [refresh EXCEPT ![p] = Asleep] /\ UNCHANGED <<clock, setBack, faults, file>>
        /\ locked' = locked \ {p}
    BY <1>7 DEF Looked, Die, DividendInv, LockIsHeld
  <2> QED
    BY <2>1 DEF DividendInv, DividendTypeOK, LockIsHeld, ReadUnderLock,
              GoodIsAttempted, NotYetMerged, NothingLost
<1>8. CASE UNCHANGED dividendVars
  BY <1>8 DEF dividendVars, DividendInv, DividendTypeOK, LockIsHeld, ReadUnderLock,
              GoodIsAttempted, NotYetMerged, NothingLost
<1> QED
  BY <1>1, <1>2, <1>3, <1>4, <1>5, <1>6, <1>7, <1>8 DEF DividendNext

(* NewestKept, for any number of processes and deaths, writes that fail and  *)
(* settings of the clock: toss_dividend_cache.py never loses newer evidence  *)
(* while at most one read of the file fails.                                 *)
THEOREM DividendNewestKept ==
    ASSUME MaxFaults <= 1 PROVE DividendSpec => NewestKept
<1>1. DividendInit => DividendInv
  BY DividendAssumption DEF DividendAssumption, DividendInit, DividendInv, DividendTypeOK, LockIsHeld, ReadUnderLock,
        GoodIsAttempted, NotYetMerged, NothingLost, CacheRecord, Holding, NoTime, NoRecord, Asleep
<1>2. DividendInv /\ [DividendNext]_dividendVars => DividendInv'
  BY DividendStep, DividendAssumption, MaxFaults <= 1
<1>3. DividendInv /\ [DividendNext]_dividendVars
        => [file'.good >= file.good /\ file'.attempt >= file.attempt]_dividendVars
  BY DividendStep, DividendAssumption, MaxFaults <= 1
<1> QED
  BY <1>1, <1>2, <1>3, PTL DEF DividendSpec, NewestKept

(***************************************************************************)
(* Frozen exports.  A client has read exactly the rows its cursor is past. *)
(***************************************************************************)
AllRows == UNION {Range(c) : c \in Contents}

Dataset == [id : Contents, rows : Contents]

(* A stored dataset goes by the hash of what it holds. *)
StoredById ==
    /\ datasets \in Seq(Dataset)
    /\ \A i \in 1..Len(datasets) : datasets[i].id = datasets[i].rows

ExporterTypeOK ==
    exporter \in [Exporters -> [id : {<<>>} \cup Contents, cursor : {<<>>} \cup (Contents \X Nat),
                               rows : Seq(AllRows), whole : BOOLEAN]]

Followed(x) ==
    /\ exporter[x].id \in Contents
    /\ Len(exporter[x].rows) <= Len(exporter[x].id)
    /\ exporter[x].rows = SubSeq(exporter[x].id, 1, Len(exporter[x].rows))
    /\ IF exporter[x].whole THEN Len(exporter[x].rows) = Len(exporter[x].id)
       ELSE Offset(x) = Len(exporter[x].rows)

ReadSoFar == \A x \in Exporters : exporter[x] = NoExport \/ Followed(x)

ExportInv == StoredById /\ ExporterTypeOK /\ ReadSoFar

LEMMA ContentsAreSequences ==
    ASSUME ExportAssumption, NEW c \in Contents PROVE c \in Seq(AllRows) /\ Len(c) \in Nat /\ c # <<>>
<1>1. Range(c) \subseteq AllRows
  BY DEF AllRows
<1>2. c \in Seq(Range(c)) /\ c # <<>>
  BY DEF ExportAssumption
<1> QED
  BY <1>1, <1>2, SeqMonotonic

(* Retention keeps datasets under their hashes. *)
LEMMA NewestKeepsIds ==
    ASSUME ExportAssumption, NEW all \in Seq(Dataset), \A i \in 1..Len(all) : all[i].id = all[i].rows
    PROVE  Newest(all) \in Seq(Dataset) /\ \A i \in 1..Len(Newest(all)) : Newest(all)[i].id = Newest(all)[i].rows
<1>1. PICK first \in Nat \ {0} : Newest(all) = SubSeq(all, first, Len(all))
  <2>1. Len(all) \in Nat /\ MaxDatasets \in Nat
    BY DEF ExportAssumption
  <2>2. (IF Len(all) > MaxDatasets THEN Len(all) - MaxDatasets + 1 ELSE 1) \in Nat \ {0}
    BY <2>1
  <2> QED
    BY <2>2 DEF Newest
<1>2. \A i \in first..Len(all) : all[i] \in Dataset
  BY ElementOfSeq
<1>3. /\ Newest(all) \in Seq(Dataset)
      /\ Len(Newest(all)) = IF first <= Len(all) THEN Len(all) - first + 1 ELSE 0
      /\ \A i \in 1..Len(all) - first + 1 : Newest(all)[i] = all[first + i - 1]
  BY <1>1, <1>2, SubSeqProperties
<1>4. ASSUME NEW i \in 1..Len(Newest(all)) PROVE Newest(all)[i].id = Newest(all)[i].rows
  <2>1. first + i - 1 \in 1..Len(all) /\ i \in 1..Len(all) - first + 1
    BY <1>3
  <2>2. Newest(all)[i] = all[first + i - 1]
    BY <1>3, <2>1
  <2> QED
    BY <2>1, <2>2
<1> QED
  BY <1>3, <1>4

LEMMA AppendKeepsIds ==
    ASSUME NEW all \in Seq(Dataset), \A i \in 1..Len(all) : all[i].id = all[i].rows, NEW c \in Contents
    PROVE  LET more == Append(all, [id |-> c, rows |-> c])
           IN  more \in Seq(Dataset) /\ \A i \in 1..Len(more) : more[i].id = more[i].rows
<1>1. PICK d \in Dataset : d = [id |-> c, rows |-> c]
  BY DEF Dataset
<1>2. PICK more \in Seq(Dataset) : more = Append(all, d)
  BY AppendProperties
<1>3. /\ Len(more) = Len(all) + 1
      /\ \A i \in 1..Len(all) : more[i] = all[i]
      /\ more[Len(all) + 1] = d
  BY <1>2, AppendProperties
<1> QED
  BY <1>1, <1>2, <1>3

LEMMA ExportStep == ASSUME ExportAssumption, ExportInv, [ExportNext]_exportVars PROVE ExportInv'
<1> USE DEF NoExport
<1>1. ASSUME NEW x \in Exporters, NEW contents \in Contents, Freeze(x, contents) PROVE ExportInv'
  <2>1. StoredById'
    <3>1. datasets' \in {datasets, Newest(Append(datasets, [id |-> contents, rows |-> contents]))}
      BY <1>1 DEF Freeze, DatasetId
    <3>2. datasets \in Seq(Dataset) /\ \A i \in 1..Len(datasets) : datasets[i].id = datasets[i].rows
      BY DEF ExportInv, StoredById
    <3>3. PICK more \in Seq(Dataset) :
              /\ more = Append(datasets, [id |-> contents, rows |-> contents])
              /\ \A i \in 1..Len(more) : more[i].id = more[i].rows
      BY <3>2, AppendKeepsIds
    <3>4. Newest(more) \in Seq(Dataset) /\ \A i \in 1..Len(Newest(more)) : Newest(more)[i].id = Newest(more)[i].rows
      BY <3>3, NewestKeepsIds
    <3> QED
      BY <3>1, <3>2, <3>3, <3>4 DEF StoredById
  <2>2. exporter' = [exporter EXCEPT ![x] = [id |-> contents, cursor |-> <<>>, rows |-> <<>>, whole |-> FALSE]]
    BY <1>1 DEF Freeze, DatasetId
  <2>3. ExporterTypeOK'
    BY <2>2 DEF ExportInv, ExporterTypeOK
  <2>4. ReadSoFar'
    <3>1. SubSeq(contents, 1, 0) = <<>> /\ Len(contents) >= 0
      BY SubSeqEmpty, ContentsAreSequences
    <3> QED
      BY <2>2, <3>1 DEF ExportInv, ExporterTypeOK, ReadSoFar, Followed, Offset
  <2> QED
    BY <2>1, <2>3, <2>4 DEF ExportInv
<1>2. ASSUME NEW x \in Exporters, NEW count \in 1..2, Page(x, count) PROVE ExportInv'
  <2>1. StoredById'
    BY <1>2 DEF Page, ExportInv, StoredById
  <2>2. PICK c \in Contents, n \in Nat, r \in Seq(AllRows) :
            /\ exporter[x].id = c /\ ~exporter[x].whole /\ n = Len(r) /\ r = exporter[x].rows
            /\ Offset(x) = n /\ r = SubSeq(c, 1, n)
    <3>1. exporter[x].id # <<>> /\ ~exporter[x].whole
      BY <1>2 DEF Page
    <3>2. exporter[x] # NoExport
      BY <3>1
    <3>3. exporter[x].rows \in Seq(AllRows) /\ Len(exporter[x].rows) \in Nat
      BY LenProperties DEF ExportInv, ExporterTypeOK
    <3>4. /\ exporter[x].id \in Contents /\ Offset(x) = Len(exporter[x].rows)
          /\ exporter[x].rows = SubSeq(exporter[x].id, 1, Len(exporter[x].rows))
      BY <3>1, <3>2 DEF ExportInv, ReadSoFar, Followed
    <3> QED
      BY <3>1, <3>3, <3>4
  <2>3. PICK i \in 1..Len(datasets) :
            /\ datasets[i].id = c /\ n + count <= Len(datasets[i].rows)
            /\ exporter' = [exporter EXCEPT ![x] =
                    [id |-> c,
                     cursor |-> IF n + count < Len(datasets[i].rows) THEN Cursor(c, n + count) ELSE exporter[x].cursor,
                     rows |-> r \o SubSeq(datasets[i].rows, n + 1, n + count),
                     whole |-> n + count >= Len(datasets[i].rows)]]
    <3>1. DOMAIN datasets = 1..Len(datasets)
      BY LenProperties DEF ExportInv, StoredById
    <3> QED
      BY <1>2, <2>2, <3>1 DEF Page
  <2>4. datasets[i].rows = c
    BY <2>3 DEF ExportInv, StoredById
  <2>5. c \in Seq(AllRows) /\ Len(c) \in Nat /\ n + count \in 1..Len(c)
    <3>1. c \in Seq(AllRows) /\ Len(c) \in Nat
      BY <2>2, ExportAssumption, ContentsAreSequences
    <3>2. n + count <= Len(c) /\ n \in Nat /\ count \in 1..2
      BY <2>2, <2>3, <2>4
    <3> QED
      BY <3>1, <3>2
  <2>6. PICK new : new = r \o SubSeq(c, n + 1, n + count)
    OBVIOUS
  <2>7. new = SubSeq(c, 1, n + count)
    <3>1. 1 \in 1..Len(c) + 1 /\ n \in 0..Len(c) /\ n + count \in n..Len(c)
      BY <2>5
    <3>2. SubSeq(c, 1, n) \o SubSeq(c, n + 1, n + count) = SubSeq(c, 1, n + count)
      BY ONLY <2>5, <3>1, ConcatAdjacentSubSeq
    <3> QED
      BY <2>2, <2>6, <3>2
  <2>8. new \in Seq(AllRows) /\ Len(new) = n + count
    <3>1. \A j \in 1..n + count : c[j] \in AllRows
      BY <2>5, ElementOfSeq
    <3>2. n + count \in Int /\ 1 <= n + count
      BY <2>5
    <3> QED
      BY <2>7, <3>1, <3>2, SubSeqProperties
  <2>9. PICK cursor \in {<<>>} \cup (Contents \X Nat) :
            /\ exporter' = [exporter EXCEPT ![x] = [id |-> c, cursor |-> cursor, rows |-> new,
                                                   whole |-> n + count >= Len(c)]]
            /\ n + count < Len(c) => cursor = <<c, n + count>>
    <3>1. exporter[x].cursor \in {<<>>} \cup (Contents \X Nat)
      BY DEF ExportInv, ExporterTypeOK
    <3>2. <<c, n + count>> \in Contents \X Nat
      BY <2>2, <2>5
    <3>3. CASE n + count < Len(c)
      BY <2>3, <2>4, <2>6, <3>2, <3>3 DEF Cursor
    <3>4. CASE ~(n + count < Len(c))
      BY <2>3, <2>4, <2>6, <3>1, <3>4
    <3> QED
      BY <3>3, <3>4
  <2>10. ExporterTypeOK'
    BY <2>8, <2>9 DEF ExportInv, ExporterTypeOK
  <2>11. ReadSoFar'
    <3>record. exporter'[x] = [id |-> c, cursor |-> cursor, rows |-> new, whole |-> n + count >= Len(c)]
      BY <2>9 DEF ExportInv, ExporterTypeOK
    <3>1. /\ exporter'[x].id = c /\ exporter'[x].rows = new /\ exporter'[x].cursor = cursor
          /\ exporter'[x].whole = (n + count >= Len(c))
      BY <3>record
    <3>2. \A y \in Exporters \ {x} : exporter'[y] = exporter[y] /\ Offset(y)' = Offset(y)
      BY <2>9 DEF ExportInv, ExporterTypeOK, Offset
    <3>others. ASSUME NEW y \in Exporters \ {x}, exporter'[y] # NoExport PROVE Followed(y)'
      BY <3>2, <3>others DEF ExportInv, ReadSoFar, Followed
    <3>3. Len(new) <= Len(c) /\ new = SubSeq(c, 1, Len(new))
      BY <2>5, <2>7, <2>8
    <3>4. ASSUME n + count >= Len(c) PROVE Followed(x)'
      <4>0. exporter'[x].whole
        BY <3>1, <3>4, Zenon
      <4>1. exporter'[x].whole /\ Len(new) = Len(c)
        BY <2>5, <2>8, <3>4, <4>0
      <4> QED
        BY <2>2, <3>1, <3>3, <4>1 DEF Followed
    <3>5. ASSUME n + count < Len(c) PROVE Followed(x)'
      <4>0. ~(n + count >= Len(c))
        BY <2>5, <3>5
      <4>1. ~exporter'[x].whole /\ exporter'[x].cursor = <<c, n + count>>
        BY <2>9, <3>1, <3>5, <4>0, Zenon
      <4>2. Offset(x)' = n + count
        BY <4>1 DEF Offset
      <4> QED
        BY <2>2, <2>8, <3>1, <3>3, <4>1, <4>2 DEF Followed
    <3>6. Followed(x)'
      BY <2>5, <3>4, <3>5
    <3> QED
      BY <3>others, <3>6 DEF ReadSoFar
  <2> QED
    BY <2>1, <2>10, <2>11 DEF ExportInv
<1>3. ASSUME NEW x \in Exporters, StartAgain(x) PROVE ExportInv'
  <2>1. StoredById'
    BY <1>3 DEF StartAgain, ExportInv, StoredById
  <2>2. ExporterTypeOK'
    BY <1>3 DEF StartAgain, ExportInv, ExporterTypeOK
  <2>3. ReadSoFar'
    BY <1>3 DEF StartAgain, ExportInv, ExporterTypeOK, ReadSoFar, Followed, Offset
  <2> QED
    BY <2>1, <2>2, <2>3 DEF ExportInv
<1>4. CASE UNCHANGED exportVars
  BY <1>4 DEF exportVars, ExportInv, StoredById, ExporterTypeOK, ReadSoFar, Followed, Offset
<1> QED
  BY <1>1, <1>2, <1>3, <1>4 DEF ExportNext

(* ExportPages, for any rows, page ends and retention: what portfolio_export.py *)
(* hands out in pages is what it froze, also when it was deleted and frozen     *)
(* again in between.                                                            *)
THEOREM ExportPagesAreRows == ExportSpec => []ExportPages
<1>1. ExportInit => ExportInv
  BY EmptySeq DEF ExportInit, ExportInv, StoredById, ExporterTypeOK, ReadSoFar, Followed, NoExport
<1>2. ExportInv /\ [ExportNext]_exportVars => ExportInv'
  BY ExportStep, ExportAssumption
<1>3. ExportInv => ExportPages
  <2> SUFFICES ASSUME ExportInv, NEW x \in Exporters, exporter[x].rows # <<>>
               PROVE  \E contents \in Contents :
                         /\ DatasetId(contents) = exporter[x].id
                         /\ IsPrefix(exporter[x].rows, contents)
                         /\ exporter[x].whole => exporter[x].rows = contents
    BY DEF ExportPages
  <2>1. PICK c \in Contents, r \in Seq(AllRows) :
              /\ exporter[x].id = c /\ exporter[x].rows = r
              /\ Len(r) <= Len(c) /\ r = SubSeq(c, 1, Len(r))
              /\ exporter[x].whole => Len(r) = Len(c)
    BY DEF ExportInv, ExporterTypeOK, ReadSoFar, Followed, NoExport
  <2>2. SubSeq(r, 1, Len(r)) = r /\ SubSeq(c, 1, Len(c)) = c
    BY <2>1, ExportAssumption, ContentsAreSequences, SubSeqFull
  <2> QED
    BY <2>1, <2>2 DEF DatasetId, IsPrefix
<1> QED
  BY <1>1, <1>2, <1>3, PTL DEF ExportSpec

(***************************************************************************)
(* Recovery cursors.                                                       *)
(***************************************************************************)
Chunks == (Nat \X Histories \X Windows) \cup ({Listing} \X Providers \X {0})
Results == UNION {[cs -> Int] : cs \in SUBSET Chunks}
Sessions == [cursor : Nat, created : Nat, chunks : SUBSET Chunks, anchors : [Histories -> Nat],
             incremental : BOOLEAN, results : Results]

(* What was read for a session was read after it was begun, or taken from a *)
(* cache that was young then.                                               *)
ReadLate(session) ==
    \A c \in session.chunks :
        session.results[c] = Poor \/ session.results[c] > session.created - CacheSeconds

(* Every window that no anchor spares is a chunk, or the listing of its    *)
(* provider is, and has failed.                                            *)
Covers(session, h, w) ==
    \/ \E c \in session.chunks : c[2] = h /\ c[3] = w
    \/ <<Listing, ProviderOf[h], 0>> \in PoorOf(session)

Covered(session) ==
    \A h \in Histories : \A w \in Windows : w > session.anchors[h] => Covers(session, h, w)

SessionOK(session) ==
    /\ session \in Sessions /\ session.results \in [session.chunks -> Int]
    /\ session.created <= recNow
    /\ ReadLate(session) /\ Covered(session)

CallOK ==
    call # Idle =>
        /\ call \in [session : Sessions, resumed : BOOLEAN, began : Nat, todo : SUBSET Chunks]
        /\ SessionOK(call.session) /\ call.todo \subseteq call.session.chunks
        /\ call.began <= recNow /\ call.began - call.session.created < SessionSeconds

(* A session is kept under a cursor that was given out; the call under way  *)
(* has such a cursor, or will give one that is newer than all.              *)
CursorsOK ==
    /\ given \subseteq [cursor : 1..made, created : Nat, done : BOOLEAN]
    /\ Cursors \subseteq GivenCursors
    /\ \A s \in sessions, g \in given : s.cursor = g.cursor => s.created = g.created
    /\ call # Idle /\ call.resumed =>
          /\ call.session.cursor \in Cursors
          /\ \A g \in given : g.cursor = call.session.cursor => g.created = call.session.created
    /\ call # Idle /\ ~call.resumed => made > 0 /\ \A g \in given : g.cursor < made

RecInv ==
    /\ recNow \in Nat /\ made \in Nat
    /\ windowCache \in [Histories \X Settled -> Int]
    /\ \A s \in sessions : SessionOK(s)
    /\ CallOK /\ CursorsOK /\ CursorKept

LEMMA RecAssumed ==
    ASSUME RecoveryAssumption
    PROVE  /\ SessionSeconds \in Nat /\ CacheSeconds \in Nat \ {0} /\ MaxSessions \in Nat \ {0}
           /\ LastHistory \in Nat /\ LastWindow \in Nat
           /\ ProviderOf \in [Histories -> Nat]
           /\ \A a \in Anchorings : a \in [Histories -> Nat]
<1>1. {SessionSeconds, CacheSeconds, CooldownSeconds, MaxSessions} \subseteq Nat \ {0}
  BY DEF RecoveryAssumption
<1>2. {LastHistory, LastWindow} \subseteq Nat \ {0}
  BY DEF RecoveryAssumption
<1>3. \A a \in Anchorings : a \in [Histories -> 0..LastWindow]
  BY DEF RecoveryAssumption, Histories
<1> QED
  BY <1>1, <1>2, <1>3 DEF RecoveryAssumption, Histories

(* A result that is recorded for a chunk of a session leaves it as good as *)
(* it was.                                                                  *)
LEMMA Recorded ==
    ASSUME SessionOK(call.session), RecoveryAssumption,
           NEW chunk \in call.session.chunks, NEW result \in Int,
           result = Poor \/ result > call.session.created - CacheSeconds,
           IsListing(chunk) => result = Poor, recNow' = recNow,
           NEW new, new = [call.session EXCEPT !.results = [@ EXCEPT ![chunk] = result]]
    PROVE  SessionOK(new)' /\ new \in Sessions /\ new.created = call.session.created
           /\ new.cursor = call.session.cursor /\ new.chunks = call.session.chunks
<1>1. PICK was \in Sessions : was = call.session
  BY DEF SessionOK
<1>2. PICK r \in [was.chunks -> Int] : r = [was.results EXCEPT ![chunk] = result]
  BY <1>1 DEF SessionOK
<1>3. new = [cursor |-> was.cursor, created |-> was.created, chunks |-> was.chunks, anchors |-> was.anchors,
             incremental |-> was.incremental, results |-> r]
  BY <1>1, <1>2 DEF Sessions
<1>4. /\ new.cursor = was.cursor /\ new.created = was.created /\ new.chunks = was.chunks
      /\ new.anchors = was.anchors /\ new.incremental = was.incremental /\ new.results = r
  BY <1>3
<1>5. new \in Sessions
  <2>1. was.chunks \in SUBSET Chunks
    BY DEF Sessions
  <2>2. r \in Results 
    BY <2>1 DEF Results
  <2> QED
    <3>1. /\ was.cursor \in Nat /\ was.created \in Nat /\ was.anchors \in [Histories -> Nat]
          /\ was.incremental \in BOOLEAN
      BY DEF Sessions
    <3> QED
      BY ONLY <1>3, <2>1, <2>2, <3>1 DEF Sessions
<1>6. ReadLate(new)
  BY <1>1, <1>2, <1>4 DEF SessionOK, ReadLate
<1>7. Covered(new)
  <2> SUFFICES ASSUME NEW h \in Histories, NEW w \in Windows, w > new.anchors[h] PROVE Covers(new, h, w)
    BY DEF Covered
  <2>1. Covers(was, h, w)
    BY <1>1, <1>4 DEF SessionOK, Covered
  <2>2. CASE \E c \in was.chunks : c[2] = h /\ c[3] = w
    BY <1>4, <2>2 DEF Covers
  <2>3. CASE <<Listing, ProviderOf[h], 0>> \in PoorOf(was)
    <3>1. PICK l \in was.chunks : l = <<Listing, ProviderOf[h], 0>> /\ was.results[l] = Poor
      BY <2>3 DEF PoorOf
    <3>2. IsListing(l)
      BY <3>1 DEF IsListing
    <3>3. r[l] = Poor
      BY <1>1, <1>2, <3>1, <3>2 DEF SessionOK
    <3>4. l \in PoorOf(new)
      BY <1>4, <3>3 DEF PoorOf
    <3> QED
      BY <3>1, <3>4 DEF Covers
  <2> QED
    BY <2>1, <2>2, <2>3 DEF Covers
<1>8. new \in Sessions /\ new.results \in [new.chunks -> Int] /\ new.created <= recNow /\ ReadLate(new) /\ Covered(new)
  BY <1>1, <1>4, <1>5, <1>6, <1>7 DEF SessionOK
<1> QED
  BY <1>1, <1>4, <1>8 DEF SessionOK, ReadLate, Covered, Covers, PoorOf

(* A step of a call that goes on with the same session's cursor. *)
LEMMA CallGoesOn ==
    ASSUME RecInv, call # Idle, UNCHANGED <<recNow, sessions, given, made>>,
           windowCache' \in [Histories \X Settled -> Int], CallOK',
           call'.resumed = call.resumed, call'.session.cursor = call.session.cursor,
           call'.session.created = call.session.created
    PROVE  RecInv'
<1>1. \A s \in sessions : SessionOK(s)'
  BY DEF RecInv, SessionOK, ReadLate, Covered, Covers, PoorOf
<1>2. CursorsOK'
  BY DEF RecInv, CursorsOK, Cursors, GivenCursors
<1>3. CursorKept'
  BY DEF RecInv, CursorKept, Cursors, NewerThan, GivenCursors
<1> QED
  BY <1>1, <1>2, <1>3 DEF RecInv

LEMMA RecordStep ==
    ASSUME RecInv, RecoveryAssumption, call # Idle, NEW chunk \in call.todo, NEW result \in Int,
           result = Poor \/ result > call.session.created - CacheSeconds,
           IsListing(chunk) => result = Poor,
           Record(chunk, result), UNCHANGED <<recNow, sessions, given, made>>,
           windowCache' \in [Histories \X Settled -> Int]
    PROVE  RecInv'
<1>1. /\ SessionOK(call.session) /\ call.todo \subseteq call.session.chunks
      /\ call.began \in Nat /\ call.resumed \in BOOLEAN /\ call.todo \in SUBSET Chunks
      /\ call.began <= recNow /\ call.began - call.session.created < SessionSeconds
  BY DEF RecInv, CallOK
<1>2. PICK new : new = [call.session EXCEPT !.results = [@ EXCEPT ![chunk] = result]]
  OBVIOUS
<1>3. /\ SessionOK(new)' /\ new \in Sessions /\ new.created = call.session.created
      /\ new.cursor = call.session.cursor /\ new.chunks = call.session.chunks
  BY <1>1, <1>2, Recorded
<1>4. call' = [session |-> new, resumed |-> call.resumed, began |-> call.began, todo |-> call.todo \ {chunk}]
  BY <1>2 DEF Record
<1>5. /\ call'.session = new /\ call'.resumed = call.resumed /\ call'.began = call.began
      /\ call'.todo = call.todo \ {chunk}
  BY <1>4
<1>6. CallOK'
  <2>1. call' \in [session : Sessions, resumed : BOOLEAN, began : Nat, todo : SUBSET Chunks]
    BY ONLY <1>1, <1>3, <1>4
  <2>2. SessionOK(call.session)'
    BY <1>3, <1>5 DEF SessionOK, ReadLate, Covered, Covers, PoorOf
  <2>3. /\ call'.todo \subseteq call'.session.chunks
        /\ call'.began <= recNow' /\ call'.began - call'.session.created < SessionSeconds
    BY <1>1, <1>3, <1>5
  <2> QED
    BY <2>1, <2>2, <2>3 DEF CallOK
<1> QED
  BY <1>3, <1>5, <1>6, CallGoesOn

LEMMA LeaveStep == ASSUME RecInv, RecoveryAssumption, call # Idle, NEW chunk \in call.todo, Leave(chunk) PROVE RecInv'
<1>1. Record(chunk, Poor) /\ UNCHANGED <<recNow, sessions, given, made>> /\ windowCache' = windowCache
  BY DEF Leave
<1>2. Poor \in Int
  BY DEF Poor
<1> QED
  BY <1>1, <1>2, RecordStep DEF RecInv

LEMMA ReuseStep == ASSUME RecInv, RecoveryAssumption, call # Idle, NEW chunk \in call.todo, ReuseWindow(chunk) PROVE RecInv'
<1>1. /\ Record(chunk, CachedAt(chunk)) /\ UNCHANGED <<recNow, sessions, given, made>> /\ windowCache' = windowCache
      /\ ~IsListing(chunk) /\ CachedAt(chunk) # -1
  BY DEF ReuseWindow, AtWindow
<1>2. SessionOK(call.session) /\ call.session.created \in Nat /\ call.session.created <= recNow /\ recNow \in Nat
  BY DEF RecInv, CallOK, SessionOK, Sessions
<1>3. /\ CachedAt(chunk) = windowCache[Piece(chunk)] /\ chunk[3] \in Settled
      /\ recNow - windowCache[Piece(chunk)] < CacheSeconds
  BY <1>1 DEF CachedAt
<1>4. CachedAt(chunk) \in Int
  <2>1. chunk \in Nat \X Histories \X Windows
    BY <1>1 DEF RecInv, CallOK, Chunks, IsListing
  <2> QED
    BY <1>3, <2>1 DEF Piece, RecInv
<1>5. CachedAt(chunk) > call.session.created - CacheSeconds
  BY <1>2, <1>3, <1>4, RecAssumed
<1> QED
  BY <1>1, <1>4, <1>5, RecordStep DEF RecInv


LEMMA ReadStep ==
    ASSUME RecInv, RecoveryAssumption, call # Idle, NEW chunk \in call.todo, NEW outcome \in Outcomes,
           ReadWindow(chunk, outcome)
    PROVE  RecInv'
<1>1. /\ Record(chunk, IF outcome = "whole" THEN recNow ELSE Poor) /\ UNCHANGED <<recNow, sessions, given, made>>
      /\ windowCache' = windowCache \/ windowCache' = [windowCache EXCEPT ![Piece(chunk)] = recNow]
      /\ ~IsListing(chunk)
  BY DEF ReadWindow, AtWindow, WindowStored
<1>2. SessionOK(call.session) /\ call.session.created \in Nat /\ call.session.created <= recNow /\ recNow \in Nat
  BY DEF RecInv, CallOK, SessionOK, Sessions
<1>3. windowCache' \in [Histories \X Settled -> Int]
  BY <1>1, <1>2 DEF RecInv
<1>4. PICK result \in Int :
          /\ result = IF outcome = "whole" THEN recNow ELSE Poor
          /\ result = Poor \/ result > call.session.created - CacheSeconds
  BY <1>2, RecAssumed DEF Poor
<1> QED
  BY <1>1, <1>3, <1>4, RecordStep

(* What a call finds at last is added to its session. *)
LEMMA FoundStep ==
    ASSUME RecInv, RecoveryAssumption, call # Idle, NEW chunk \in call.todo, IsListing(chunk),
           Rediscover(chunk, FALSE)
    PROVE  RecInv'
<1>1. PICK was \in Sessions : was = call.session /\ SessionOK(was)
  BY DEF RecInv, CallOK, SessionOK
<1>2. /\ call.todo \subseteq was.chunks
      /\ call.began \in Nat /\ call.resumed \in BOOLEAN /\ call.todo \in SUBSET Chunks
      /\ call.began <= recNow /\ call.began - was.created < SessionSeconds
  BY <1>1 DEF RecInv, CallOK
<1>3. PICK found : found = Found(chunk[2])
  OBVIOUS
<1>4. /\ was.cursor \in Nat /\ was.created \in Nat /\ was.anchors \in [Histories -> Nat]
      /\ was.incremental \in BOOLEAN /\ was.chunks \in SUBSET Chunks /\ was.results \in [was.chunks -> Int]
      /\ was.created <= recNow /\ recNow \in Nat
  BY <1>1 DEF Sessions, SessionOK, RecInv
<1>5. /\ found \in SUBSET Chunks
      /\ \A h \in Histories : \A w \in Windows : ProviderOf[h] = chunk[2] =>
            <<Later, h, w>> \in found
  <2>1. Later \in Nat
    BY DEF Later, RecInv
  <2>2. found \subseteq {Later} \X Histories \X Windows
    BY <1>3 DEF Found, Windowed
  <2>3. ASSUME NEW h \in Histories, NEW w \in Windows, ProviderOf[h] = chunk[2] PROVE <<Later, h, w>> \in found
    <3>1. PICK c \in {Later} \X Histories \X Windows : c = <<Later, h, w>>
      OBVIOUS
    <3>2. c[2] = h /\ c[3] = w /\ w > 0 /\ NoAnchors[h] = 0
      BY <3>1 DEF Windows, NoAnchors
    <3> QED
      BY <1>3, <2>3, <3>1, <3>2 DEF Found, Windowed
  <2> QED
    BY <2>1, <2>2, <2>3 DEF Chunks
<1>6. PICK r : r = [c \in was.chunks \cup found |->
                      IF c = chunk THEN recNow ELSE IF c \in found THEN Poor ELSE was.results[c]]
  OBVIOUS
<1>r. r \in [was.chunks \cup found -> Int]
  <2>1. \A c \in was.chunks \cup found :
            (IF c = chunk THEN recNow ELSE IF c \in found THEN Poor ELSE was.results[c]) \in Int
    BY <1>4 DEF Poor
  <2> QED
    BY <1>6, <2>1
<1>7. PICK new : new = [cursor |-> was.cursor, created |-> was.created, chunks |-> was.chunks \cup found,
                        anchors |-> was.anchors, incremental |-> was.incremental, results |-> r]
  OBVIOUS
<1>8. /\ new.cursor = was.cursor /\ new.created = was.created /\ new.chunks = was.chunks \cup found
      /\ new.anchors = was.anchors /\ new.incremental = was.incremental /\ new.results = r
  BY <1>7
<1>9. new \in Sessions
  <2>1. was.chunks \cup found \in SUBSET Chunks
    BY <1>4, <1>5
  <2>2. r \in Results
    BY <1>r, <2>1 DEF Results
  <2> QED
    BY ONLY <1>4, <1>7, <2>1, <2>2 DEF Sessions
<1>10. ReadLate(new)
  BY <1>1, <1>4, <1>6, <1>8, RecAssumed DEF SessionOK, ReadLate
<1>11. Covered(new)
  <2> SUFFICES ASSUME NEW h \in Histories, NEW w \in Windows, w > new.anchors[h] PROVE Covers(new, h, w)
    BY DEF Covered
  <2>1. Covers(was, h, w)
    BY <1>1, <1>8 DEF SessionOK, Covered
  <2>2. CASE \E c \in was.chunks : c[2] = h /\ c[3] = w
    BY <1>8, <2>2 DEF Covers
  <2>3. CASE ProviderOf[h] = chunk[2]
    <3>1. PICK c \in found : c = <<Later, h, w>>
      BY <1>5, <2>3
    <3>2. c[2] = h /\ c[3] = w
      BY <3>1
    <3> QED
      BY <1>8, <3>2 DEF Covers
  <2>4. CASE <<Listing, ProviderOf[h], 0>> \in PoorOf(was) /\ ProviderOf[h] # chunk[2]
    <3>1. PICK l \in was.chunks : l = <<Listing, ProviderOf[h], 0>> /\ was.results[l] = Poor
      BY <2>4 DEF PoorOf
    <3>2. l # chunk
      BY <2>4, <3>1
    <3>3. r[l] = Poor
      BY <1>6, <3>1, <3>2
    <3>4. l \in PoorOf(new)
      BY <1>8, <3>3 DEF PoorOf
    <3> QED
      BY <3>1, <3>4 DEF Covers
  <2> QED
    BY <2>1, <2>2, <2>3, <2>4 DEF Covers
<1>12. /\ call' = [session |-> new, resumed |-> call.resumed, began |-> call.began,
                   todo |-> (call.todo \ {chunk}) \cup found]
       /\ UNCHANGED <<recNow, sessions, given, made, windowCache>>
  BY <1>1, <1>3, <1>6, <1>7 DEF Rediscover
<1>13. /\ call'.session = new /\ call'.resumed = call.resumed /\ call'.began = call.began
       /\ call'.todo = (call.todo \ {chunk}) \cup found
  BY <1>12
<1>14. SessionOK(call.session)'
  <2>1. new \in Sessions /\ new.results \in [new.chunks -> Int] /\ new.created <= recNow /\ ReadLate(new) /\ Covered(new)
    BY <1>4, <1>8, <1>9, <1>10, <1>11, <1>r
  <2> QED
    BY <1>12, <1>13, <2>1 DEF SessionOK, ReadLate, Covered, Covers, PoorOf
<1>15. CallOK'
  <2>1. (call.todo \ {chunk}) \cup found \in SUBSET Chunks
    BY <1>2, <1>5
  <2>2. call' \in [session : Sessions, resumed : BOOLEAN, began : Nat, todo : SUBSET Chunks]
    BY ONLY <1>2, <1>9, <1>12, <2>1
  <2>3. /\ call'.todo \subseteq call'.session.chunks
        /\ call'.began <= recNow' /\ call'.began - call'.session.created < SessionSeconds
    BY <1>2, <1>8, <1>12, <1>13
  <2> QED
    BY <1>14, <2>2, <2>3 DEF CallOK
<1> QED
  BY <1>1, <1>8, <1>12, <1>13, <1>15, CallGoesOn DEF RecInv

LEMMA RediscoverStep ==
    ASSUME RecInv, RecoveryAssumption, call # Idle, NEW chunk \in call.todo, NEW fails \in BOOLEAN,
           Rediscover(chunk, fails)
    PROVE  RecInv'
<1>1. CASE fails
  <2>1. Record(chunk, Poor) /\ UNCHANGED <<recNow, sessions, given, made>> /\ windowCache' = windowCache
    BY <1>1 DEF Rediscover
  <2> QED
    BY <2>1, RecordStep DEF RecInv, Poor
<1>2. CASE ~fails
  <2>1. Rediscover(chunk, FALSE) /\ IsListing(chunk)
    BY <1>2 DEF Rediscover
  <2> QED
    BY <2>1, FoundStep
<1> QED
  BY <1>1, <1>2


LEMMA NewerGrow ==
    ASSUME RecInv, given' \subseteq [cursor : 1..made', created : Nat, done : BOOLEAN], made' \in Nat,
           GivenCursors \subseteq GivenCursors', NEW cursor
    PROVE  Cardinality(NewerThan(cursor)) <= Cardinality(NewerThan(cursor)')
           /\ Cardinality(NewerThan(cursor)) \in Nat /\ Cardinality(NewerThan(cursor)') \in Nat
<1>1. GivenCursors' \subseteq 1..made'
  BY DEF GivenCursors
<1>2. IsFiniteSet(1..made')
  BY FS_Interval
<1>3. NewerThan(cursor) \subseteq NewerThan(cursor)' /\ NewerThan(cursor)' \subseteq 1..made'
  BY <1>1 DEF NewerThan
<1>4. IsFiniteSet(NewerThan(cursor)') /\ IsFiniteSet(NewerThan(cursor))
  BY <1>2, <1>3, FS_Subset
<1> QED
  BY <1>3, <1>4, FS_Subset, FS_CardinalityType

(* What every call does first: what is too old goes. *)
LEMMA CallBegins ==
    ASSUME RecInv, sessions' = Live, UNCHANGED <<recNow, given>>, made' = made + 1
    PROVE  /\ given' \subseteq [cursor : 1..made', created : Nat, done : BOOLEAN]
           /\ Cursors' \subseteq GivenCursors'
           /\ \A s \in sessions', g \in given' : s.cursor = g.cursor => s.created = g.created
           /\ \A s \in sessions' : s \in sessions /\ SessionOK(s)'
           /\ CursorKept'
<1>1. made \in Nat /\ given \subseteq [cursor : 1..made, created : Nat, done : BOOLEAN] /\ Live \subseteq sessions
  BY DEF RecInv, CursorsOK, Live
<1>2. given' \subseteq [cursor : 1..made', created : Nat, done : BOOLEAN]
  <2>1. ASSUME NEW g \in given PROVE g \in [cursor : 1..made', created : Nat, done : BOOLEAN]
    <3>1. g \in [cursor : 1..made, created : Nat, done : BOOLEAN] /\ 1..made \subseteq 1..made'
      BY <1>1
    <3> QED
      BY ONLY <3>1
  <2> QED
    BY <2>1
<1>3. Cursors' \subseteq GivenCursors' /\ GivenCursors' = GivenCursors
  BY <1>1 DEF RecInv, CursorsOK, Cursors, GivenCursors
<1>4. \A s \in sessions', g \in given' : s.cursor = g.cursor => s.created = g.created
  BY <1>1 DEF RecInv, CursorsOK
<1>5. \A s \in sessions' : s \in sessions /\ SessionOK(s)'
  BY <1>1 DEF RecInv, SessionOK, ReadLate, Covered, Covers, PoorOf
<1>6. CursorKept'
  <2> SUFFICES ASSUME NEW g \in given, ~g.done, recNow - g.created < SessionSeconds,
                      Cardinality(NewerThan(g.cursor)') < MaxSessions
               PROVE  g.cursor \in Cursors'
    BY DEF CursorKept
  <2>1. Cardinality(NewerThan(g.cursor)) < MaxSessions
    BY <1>3 DEF NewerThan
  <2>2. PICK s \in sessions : s.cursor = g.cursor
    BY <2>1 DEF RecInv, CursorKept, Cursors
  <2>3. s \in Live
    BY <2>2 DEF Live, RecInv, CursorsOK
  <2> QED
    BY <2>2, <2>3 DEF Cursors
<1> QED
  BY <1>2, <1>3, <1>4, <1>5, <1>6

LEMMA BeginStep ==
    ASSUME RecInv, RecoveryAssumption, NEW failing \in SUBSET Providers, NEW incremental \in BOOLEAN,
           NEW anchored \in Anchorings \cup {NoAnchors}, Begin(failing, incremental, anchored)
    PROVE  RecInv'
<1>1. PICK anchors : anchors = [h \in Histories |-> IF ProviderOf[h] \in failing THEN 0 ELSE anchored[h]]
  OBVIOUS
<1>2. anchors \in [Histories -> Nat]
  <2>1. anchored \in [Histories -> Nat]
    BY RecAssumed DEF NoAnchors
  <2> QED
    BY <1>1, <2>1
<1>3. PICK found : found = Windowed(AtOnce, Providers \ failing, anchors)
  OBVIOUS
<1>4. PICK chunks : chunks = found \cup Listings(failing)
  OBVIOUS
<1>5. PICK r : r = [c \in chunks |-> Poor]
  OBVIOUS
<1>6. PICK new : new = [cursor |-> 0, created |-> recNow, chunks |-> chunks, anchors |-> anchors,
                        incremental |-> incremental, results |-> r]
  OBVIOUS
<1>7. /\ new.cursor = 0 /\ new.created = recNow /\ new.chunks = chunks
      /\ new.anchors = anchors /\ new.incremental = incremental /\ new.results = r
  BY <1>6
<1>8. /\ call' = [session |-> new, resumed |-> FALSE, began |-> recNow, todo |-> found]
      /\ sessions' = Live /\ UNCHANGED <<recNow, given, windowCache>> /\ made' = made + 1
  BY <1>1, <1>3, <1>4, <1>5, <1>6 DEF Begin
<1>9. call'.session = new /\ call'.resumed = FALSE /\ call'.began = recNow /\ call'.todo = found
  BY <1>8
<1>10. chunks \in SUBSET Chunks /\ found \subseteq chunks
  BY <1>3, <1>4 DEF Windowed, Listings, Chunks, AtOnce
<1>11. r \in [chunks -> Int] /\ \A c \in chunks : r[c] = Poor
  BY <1>5 DEF Poor
<1>12. new \in Sessions
  <2>1. r \in Results /\ recNow \in Nat
    BY <1>10, <1>11 DEF Results, RecInv
  <2> QED
    BY ONLY <1>2, <1>6, <1>10, <2>1, incremental \in BOOLEAN DEF Sessions
<1>13. Covered(new)
  <2> SUFFICES ASSUME NEW h \in Histories, NEW w \in Windows, w > new.anchors[h] PROVE Covers(new, h, w)
    BY DEF Covered
  <2>1. CASE ProviderOf[h] \in failing
    <3>1. PICK l \in chunks : l = <<Listing, ProviderOf[h], 0>>
      BY <1>4, <2>1 DEF Listings
    <3>2. l \in PoorOf(new)
      BY <1>7, <1>11 DEF PoorOf
    <3> QED
      BY <3>1, <3>2 DEF Covers
  <2>2. CASE ProviderOf[h] \notin failing
    <3>1. PICK c \in {AtOnce} \X Histories \X Windows : c = <<AtOnce, h, w>>
      OBVIOUS
    <3>2. c[2] = h /\ c[3] = w
      BY <3>1
    <3>3. ProviderOf[h] \in Providers \ failing
      BY <2>2 DEF Providers
    <3>4. c \in found
      BY <1>3, <1>7, <3>2, <3>3 DEF Windowed
    <3> QED
      BY <1>7, <1>10, <3>2, <3>4 DEF Covers
  <2> QED
    BY <2>1, <2>2
<1>14. SessionOK(call.session)'
  <2>1. new.results \in [new.chunks -> Int] /\ new.created <= recNow /\ ReadLate(new)
    BY <1>7, <1>11 DEF ReadLate, RecInv
  <2> QED
    BY <1>8, <1>9, <1>12, <1>13, <2>1 DEF SessionOK, ReadLate, Covered, Covers, PoorOf
<1>15. CallOK'
  <2>1. recNow \in Nat /\ found \in SUBSET Chunks
    BY <1>10 DEF RecInv
  <2>2. call' \in [session : Sessions, resumed : BOOLEAN, began : Nat, todo : SUBSET Chunks]
    BY ONLY <1>8, <1>12, <2>1
  <2>3. call'.began <= recNow' /\ call'.began - call'.session.created < SessionSeconds
    <3>1. SessionSeconds > 0
      BY DEF RecoveryAssumption
    <3> QED
      BY <1>7, <1>8, <1>9, <2>1, <3>1
  <2> QED
    BY <1>7, <1>9, <1>10, <1>14, <2>2, <2>3 DEF CallOK
<1>16. CursorsOK'
  <2>1. made' > 0 /\ \A g \in given' : g.cursor < made'
    BY <1>8 DEF RecInv, CursorsOK
  <2> QED
    BY <1>8, <1>9, <2>1, CallBegins DEF CursorsOK
<1> QED
  BY <1>8, <1>15, <1>16, CallBegins DEF RecInv

LEMMA ResumeStep == ASSUME RecInv, RecoveryAssumption, NEW cursor, Resume(cursor) PROVE RecInv'
<1>1. PICK s \in Live :
          call' = [session |-> s, resumed |-> TRUE, began |-> recNow, todo |-> PoorOf(s)]
  BY DEF Resume
<1>2. sessions' = Live /\ UNCHANGED <<recNow, given, windowCache>> /\ made' = made + 1
  BY DEF Resume
<1>3. call'.session = s /\ call'.resumed = TRUE /\ call'.began = recNow /\ call'.todo = PoorOf(s)
  BY <1>1
<1>4. /\ s \in sessions' /\ s \in sessions /\ SessionOK(s)' /\ s \in Sessions
      /\ recNow - s.created < SessionSeconds
  BY <1>2, CallBegins DEF Live, SessionOK
<1>5. PoorOf(s) \subseteq s.chunks /\ s.chunks \in SUBSET Chunks
  BY <1>4 DEF PoorOf, Sessions
<1>6. SessionOK(call.session)'
  BY <1>2, <1>3, <1>4 DEF SessionOK, ReadLate, Covered, Covers, PoorOf
<1>7. CallOK'
  <2>1. recNow \in Nat /\ PoorOf(s) \in SUBSET Chunks
    BY <1>5 DEF RecInv
  <2>2. call' \in [session : Sessions, resumed : BOOLEAN, began : Nat, todo : SUBSET Chunks]
    BY ONLY <1>1, <1>4, <2>1
  <2> QED
    BY <1>2, <1>3, <1>4, <1>5, <1>6, <2>1, <2>2 DEF CallOK
<1>8. CursorsOK'
  <2>1. s.cursor \in Cursors' /\ \A g \in given' : g.cursor = s.cursor => g.created = s.created
    BY <1>2, <1>4, CallBegins DEF Cursors
  <2> QED
    BY <1>2, <1>3, <2>1, CallBegins DEF CursorsOK
<1> QED
  BY <1>2, <1>7, <1>8, CallBegins DEF RecInv


LEMMA Renamed ==
    ASSUME NEW s, SessionOK(s), NEW cursor \in Nat, NEW new, new = [s EXCEPT !.cursor = cursor], recNow' = recNow
    PROVE  SessionOK(new)' /\ new.cursor = cursor /\ new.created = s.created
<1>1. PICK was \in Sessions : was = s
  BY DEF SessionOK
<1>2. new = [cursor |-> cursor, created |-> was.created, chunks |-> was.chunks, anchors |-> was.anchors,
             incremental |-> was.incremental, results |-> was.results]
  BY <1>1 DEF Sessions
<1>3. /\ new.cursor = cursor /\ new.created = was.created /\ new.chunks = was.chunks
      /\ new.anchors = was.anchors /\ new.results = was.results
  BY <1>2
<1>4. new \in Sessions
  <2>1. /\ was.created \in Nat /\ was.chunks \in SUBSET Chunks /\ was.anchors \in [Histories -> Nat]
        /\ was.incremental \in BOOLEAN /\ was.results \in Results
    BY DEF Sessions
  <2> QED
    BY ONLY <1>2, <2>1, cursor \in Nat DEF Sessions
<1> QED
  BY <1>1, <1>3, <1>4 DEF SessionOK, ReadLate, Covered, Covers, PoorOf

(* A call ends: what it leaves under a cursor, and what a dropped session  *)
(* was dropped for.                                                         *)
LEMMA FinishStep == ASSUME RecInv, RecoveryAssumption, Finish PROVE RecInv'
<1>1. /\ call # Idle /\ call' = Idle /\ UNCHANGED <<recNow, windowCache, made>>
      /\ call.resumed \in BOOLEAN /\ SessionOK(call.session) /\ call.session.created \in Nat
      /\ recNow \in Nat /\ made \in Nat
  BY DEF Finish, Ending, RecInv, CallOK, SessionOK, Sessions
<1>2. PICK cursor \in 1..made :
          /\ cursor = IF call.resumed THEN call.session.cursor ELSE made
          /\ call.resumed => cursor \in Cursors
          /\ ~call.resumed => \A g \in given : g.cursor < cursor
          /\ \A g \in given : g.cursor = cursor => g.created = call.session.created
  <2>1. CASE call.resumed
    BY <1>1, <2>1 DEF RecInv, CursorsOK, GivenCursors
  <2>2. CASE ~call.resumed
    BY <1>1, <2>2 DEF RecInv, CursorsOK
  <2> QED
    BY <1>1, <2>1, <2>2
<1>3. PICK new : new = [call.session EXCEPT !.cursor = cursor]
  OBVIOUS
<1>4. SessionOK(new)' /\ new.cursor = cursor /\ new.created = call.session.created
  BY <1>1, <1>2, <1>3, Renamed
<1>5. PICK g0 : g0 = [cursor |-> cursor, created |-> call.session.created, done |-> NoneFailed]
  OBVIOUS
<1>6. /\ g0.cursor = cursor /\ g0.created = call.session.created /\ g0.done = NoneFailed
      /\ g0 \in [cursor : 1..made, created : Nat, done : BOOLEAN]
  BY <1>1, <1>2, <1>5 DEF NoneFailed
<1>7. /\ sessions' = IF NoneFailed THEN {s \in sessions : s.cursor # cursor} ELSE KeptSession(new)
      /\ given' = {g \in given : g.cursor # cursor} \cup IF NoneFailed /\ ~call.resumed THEN {} ELSE {g0}
  <2>1. PICK c \in {IF call.resumed THEN call.session.cursor ELSE made} :
            /\ sessions' = IF NoneFailed THEN {s \in sessions : s.cursor # c}
                           ELSE KeptSession([call.session EXCEPT !.cursor = c])
            /\ given' = {g \in given : g.cursor # c}
                  \cup IF NoneFailed /\ ~call.resumed THEN {}
                       ELSE {[cursor |-> c, created |-> call.session.created, done |-> NoneFailed]}
    BY DEF Finish
  <2>2. c = cursor
    BY <1>2
  <2> QED
    BY <1>3, <1>5, <2>1, <2>2, Zenon
<1>8. \A s \in sessions' : (s \in sessions /\ s.cursor # cursor) \/ (s = new /\ ~NoneFailed)
  BY <1>4, <1>7 DEF KeptSession
<1>9. \A g \in given' : (g \in given /\ g.cursor # cursor) \/ g = g0
  BY <1>7
<1>10. /\ \A g \in given : g.cursor # cursor => g \in given'
       /\ ~NoneFailed => g0 \in given' /\ new \in sessions'
       /\ call.resumed => g0 \in given'
  BY <1>7 DEF KeptSession
<1>11. \A s \in sessions' : SessionOK(s)'
  <2>1. \A s \in sessions : SessionOK(s)'
    BY <1>1 DEF RecInv, SessionOK, ReadLate, Covered, Covers, PoorOf
  <2> QED
    BY <1>4, <1>8, <2>1
<1>12. GivenCursors \subseteq GivenCursors'
  BY <1>2, <1>6, <1>10 DEF GivenCursors
<1>13. given' \subseteq [cursor : 1..made, created : Nat, done : BOOLEAN]
  BY <1>6, <1>9 DEF RecInv, CursorsOK
<1>14. CursorsOK'
  <2>1. Cursors' \subseteq GivenCursors'
    <3> SUFFICES ASSUME NEW s \in sessions' PROVE s.cursor \in GivenCursors'
      BY DEF Cursors
    <3>1. CASE s \in sessions
      BY <1>12, <3>1 DEF RecInv, CursorsOK, Cursors
    <3>2. CASE s = new /\ ~NoneFailed
      BY <1>4, <1>6, <1>10, <3>2 DEF GivenCursors
    <3> QED
      BY <1>8, <3>1, <3>2
  <2>2. \A s \in sessions', g \in given' : s.cursor = g.cursor => s.created = g.created
    BY <1>4, <1>6, <1>8, <1>9 DEF RecInv, CursorsOK
  <2> QED
    BY <1>1, <1>13, <2>1, <2>2 DEF CursorsOK
<1>15. CursorKept'
  <2> SUFFICES ASSUME NEW g \in given', ~g.done, recNow - g.created < SessionSeconds,
                      Cardinality(NewerThan(g.cursor)') < MaxSessions
               PROVE  g.cursor \in Cursors'
    BY <1>1 DEF CursorKept
  <2>1. CASE g = g0
    BY <1>4, <1>6, <1>10, <2>1, Zenon DEF Cursors
  <2>2. CASE g \in given /\ g.cursor # cursor
    <3>1. Cardinality(NewerThan(g.cursor)) < MaxSessions
      BY <1>1, <1>12, <1>13, NewerGrow, RecAssumed
    <3>2. PICK s \in sessions : s.cursor = g.cursor
      BY <1>1, <2>2, <3>1 DEF RecInv, CursorKept, Cursors
    <3>3. CASE NoneFailed
      BY <1>7, <2>2, <3>2, <3>3 DEF Cursors
    <3>4. CASE ~NoneFailed
      <4>1. ASSUME cursor \notin Cursors, Cardinality(Cursors) >= MaxSessions,
                   \A older \in Cursors : ~(older < s.cursor)
            PROVE  FALSE
        <5>1. /\ Cursors \subseteq GivenCursors /\ GivenCursors \subseteq 1..made
              /\ \A c \in GivenCursors : c < cursor
          <6>1. Cursors \subseteq GivenCursors /\ GivenCursors \subseteq 1..made
            BY DEF RecInv, CursorsOK, GivenCursors
          <6>2. \A h \in given : h.cursor < cursor
            BY <1>2, <4>1
          <6> QED
            BY <6>1, <6>2 DEF GivenCursors
        <5>2. IsFiniteSet(Cursors) /\ IsFiniteSet(1..made)
          <6>1. IsFiniteSet(1..made)
            BY <1>1, FS_Interval
          <6> QED
            BY <5>1, <6>1, FS_Subset
        <5>3. PICK others : others = Cursors \ {s.cursor}
          OBVIOUS
        <5>4. /\ IsFiniteSet(others) /\ Cardinality(others) = Cardinality(Cursors) - 1
              /\ Cardinality(Cursors) \in Nat
          <6>1. s.cursor \in Cursors
            BY <3>2 DEF Cursors
          <6> QED
            BY <5>2, <5>3, <6>1, FS_RemoveElement, FS_CardinalityType
        <5>5. /\ IsFiniteSet(others \cup {cursor})
              /\ Cardinality(others \cup {cursor}) = Cardinality(others) + 1
          BY <4>1, <5>3, <5>4, FS_AddElement
        <5>6. others \cup {cursor} \subseteq NewerThan(g.cursor)'
          <6>1. cursor \in GivenCursors'
            BY <1>6, <1>10, <3>4 DEF GivenCursors
          <6>2. cursor > g.cursor
            BY <1>2, <2>2, <5>1 DEF GivenCursors, RecInv, CursorsOK
          <6>3. ASSUME NEW c \in others PROVE c \in NewerThan(g.cursor)'
            <7>1. c \in Cursors /\ c # s.cursor /\ c \in 1..made /\ s.cursor \in 1..made
              BY <3>2, <5>1, <5>3 DEF Cursors
            <7>2. c > g.cursor
              BY <3>2, <4>1, <7>1
            <7> QED
              BY <1>12, <5>1, <7>1, <7>2 DEF NewerThan
          <6> QED
            BY <6>1, <6>2, <6>3 DEF NewerThan
        <5>7. IsFiniteSet(NewerThan(g.cursor)')
          <6>1. NewerThan(g.cursor)' \subseteq 1..made
            BY <1>13 DEF NewerThan, GivenCursors
          <6> QED
            BY <5>2, <6>1, FS_Subset
        <5>8. Cardinality(others \cup {cursor}) <= Cardinality(NewerThan(g.cursor)')
          BY <5>6, <5>7, FS_Subset
        <5>9. Cardinality(NewerThan(g.cursor)') \in Nat
          BY <5>7, FS_CardinalityType
        <5> QED
          BY <4>1, <5>4, <5>5, <5>8, <5>9, RecAssumed
      <4>2. s \in KeptSession(new)
        BY <1>4, <2>2, <3>2, <4>1 DEF KeptSession
      <4> QED
        BY <1>7, <3>2, <3>4, <4>2 DEF Cursors
    <3> QED
      BY <3>3, <3>4
  <2> QED
    BY <1>9, <2>1, <2>2
<1> QED
  BY <1>1, <1>11, <1>14, <1>15 DEF RecInv, CallOK

LEMMA RecTickStep == ASSUME RecInv, RecoveryAssumption, RecTick PROVE RecInv'
<1>1. /\ UNCHANGED <<sessions, windowCache, call, given, made>> /\ recNow' = recNow + 1
      /\ recNow \in Nat
  BY DEF RecTick, RecInv
<1>2. ASSUME NEW s, SessionOK(s) PROVE SessionOK(s)'
  <2>1. s.created \in Nat /\ s.created <= recNow'
    BY <1>1, <1>2 DEF SessionOK, Sessions
  <2> QED
    BY <1>2, <2>1 DEF SessionOK, ReadLate, Covered, Covers, PoorOf
<1>3. (\A s \in sessions : SessionOK(s))'
  BY <1>1, <1>2 DEF RecInv
<1>4. CallOK'
  BY <1>1, <1>2 DEF RecInv, CallOK
<1>5. CursorsOK'
  BY <1>1 DEF RecInv, CursorsOK, Cursors, GivenCursors
<1>6. CursorKept'
  <2> SUFFICES ASSUME NEW g \in given, ~g.done, recNow' - g.created < SessionSeconds,
                      Cardinality(NewerThan(g.cursor)') < MaxSessions
               PROVE  g.cursor \in Cursors'
    BY <1>1 DEF CursorKept
  <2>1. NewerThan(g.cursor)' = NewerThan(g.cursor) /\ Cursors' = Cursors
    BY <1>1 DEF NewerThan, GivenCursors, Cursors
  <2>2. g.created \in Nat
    BY DEF RecInv, CursorsOK
  <2> QED
    <3>1. recNow - g.created < SessionSeconds
      BY <1>1, <2>2, RecAssumed
    <3> QED
      BY <2>1, <3>1 DEF RecInv, CursorKept
<1> QED
  BY <1>1, <1>3, <1>4, <1>5, <1>6 DEF RecInv

LEMMA RecStep == ASSUME RecInv, RecoveryAssumption, [RecNext]_recVars PROVE RecInv'
<1>1. CASE RecTick
  BY <1>1, RecTickStep
<1>2. CASE Finish
  BY <1>2, FinishStep
<1>3. ASSUME NEW failing \in SUBSET Providers, NEW incremental \in BOOLEAN,
             NEW anchored \in Anchorings \cup {NoAnchors}, Begin(failing, incremental, anchored)
      PROVE  RecInv'
  BY <1>3, BeginStep
<1>4. ASSUME NEW g \in given, Resume(g.cursor) PROVE RecInv'
  BY <1>4, ResumeStep
<1>5. ASSUME call # Idle, NEW chunk \in call.todo, Leave(chunk) PROVE RecInv'
  BY <1>5, LeaveStep
<1>6. ASSUME call # Idle, NEW chunk \in call.todo, ReuseWindow(chunk) PROVE RecInv'
  BY <1>6, ReuseStep
<1>7. ASSUME call # Idle, NEW chunk \in call.todo, NEW fails \in BOOLEAN, Rediscover(chunk, fails) PROVE RecInv'
  BY <1>7, RediscoverStep
<1>8. ASSUME call # Idle, NEW chunk \in call.todo, NEW outcome \in Outcomes, ReadWindow(chunk, outcome) PROVE RecInv'
  BY <1>8, ReadStep
<1>9. CASE UNCHANGED recVars
  BY <1>9 DEF recVars, RecInv, SessionOK, ReadLate, Covered, Covers, PoorOf, CallOK, CursorsOK, Cursors,
              GivenCursors, CursorKept, NewerThan
<1> QED
  BY <1>1, <1>2, <1>3, <1>4, <1>5, <1>6, <1>7, <1>8, <1>9, Zenon DEF RecNext

LEMMA CompleteIsRead == ASSUME RecInv, RecoveryAssumption PROVE CompleteMeansRead
<1> SUFFICES ASSUME Ending, Complete, NEW h \in Histories, NEW w \in Windows, w > call.session.anchors[h]
             PROVE  \E c \in call.session.chunks :
                       /\ c[2] = h /\ c[3] = w
                       /\ call.session.results[c] > call.began - SessionSeconds - CacheSeconds
  BY DEF CompleteMeansRead
<1>1. /\ SessionOK(call.session) /\ call.began \in Nat /\ call.began - call.session.created < SessionSeconds
      /\ call.session.created \in Nat /\ call.session.results \in [call.session.chunks -> Int]
  BY DEF RecInv, CallOK, Ending, SessionOK, Sessions
<1>2. PoorOf(call.session) = {}
  BY DEF Complete, NoneFailed
<1>3. PICK c \in call.session.chunks : c[2] = h /\ c[3] = w
  BY <1>1, <1>2 DEF SessionOK, Covered, Covers
<1>4. call.session.results[c] \in Int /\ call.session.results[c] > call.session.created - CacheSeconds
  BY <1>1, <1>2 DEF SessionOK, ReadLate, PoorOf
<1>5. call.session.results[c] > call.began - SessionSeconds - CacheSeconds
  <2>1. SessionSeconds \in Nat /\ CacheSeconds \in Nat
    BY RecAssumed
  <2>2. /\ call.session.created \in Nat /\ call.began \in Nat
        /\ call.began - call.session.created < SessionSeconds
    BY <1>1
  <2>3. \A r \in Int, b, a, lasts, cached \in Nat :
            r > a - cached /\ b - a < lasts => r > b - lasts - cached
    OBVIOUS
  <2> QED
    BY <1>4, <2>1, <2>2, <2>3
<1> QED
  BY <1>3, <1>5

(* RecoveryTold, for any accounts, windows, anchors and retention: what      *)
(* collect_transactions says of a history it collected over several calls.   *)
THEOREM RecoveryIsTold == RecSpec => []RecoveryTold
<1>1. RecInit => RecInv
  BY DEF RecInit, RecInv, CallOK, CursorsOK, CursorKept, Cursors, GivenCursors
<1>2. RecInv /\ [RecNext]_recVars => RecInv'
  BY RecStep, RecoveryAssumption
<1>3. RecInv => RecoveryTold
  BY CompleteIsRead, RecoveryAssumption DEF RecInv, RecoveryTold
<1> QED
  BY <1>1, <1>2, <1>3, PTL DEF RecSpec

================================================================================
