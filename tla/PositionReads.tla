----------------------------- MODULE PositionReads -----------------------------
(***************************************************************************)
(* Tool calls of one server process that ask for the same positions at     *)
(* once (portfolio_sources.py): a call reads them for the others, or waits *)
(* for the one that does.  A read asks each broker in turn, under the lock *)
(* of the connection and, for KIS, the gate of the account ledger.         *)
(*                                                                         *)
(* Each call is made once, in a thread of its own.  A broker's failure is  *)
(* part of what was read; a read fails when its answer cannot be turned    *)
(* into rows.  The deadline of NAV evidence never reaches these calls.     *)
(***************************************************************************)
EXTENDS Integers, Sequences, SequencesExt

CONSTANTS
    Calls,          \* the tool calls
    Nobody,
    Brokers,        \* the sequence of brokers a read asks
    LocksOf,        \* the sequence of locks each of them is asked under
    SharedSeconds,  \* SHARED_POSITIONS_SECONDS
    MaxPosTime      \* bound on the clock

ASSUME PositionAssumption ==
    /\ Nobody \notin Calls
    /\ SharedSeconds \in Nat /\ MaxPosTime \in Nat
    /\ Brokers # <<>> /\ LocksOf \in [Range(Brokers) -> Seq(UNION {Range(LocksOf[b]) : b \in Range(Brokers)})]

VARIABLES
    posNow,
    shared,     \* the shared reads made so far; the last is the registered one
    calls,      \* each call: its step, when it began, the shared read it owns or waits for,
                \* the broker it asks, how many of that broker's locks it has, its answer
    holder      \* who holds each lock

posVars == <<posNow, shared, calls, holder>>

Locks == UNION {Range(LocksOf[b]) : b \in Range(Brokers)}
None == <<>>

(* A collection is the read it came from and whose copy it is. *)
Deepcopy(collection, whose) == <<collection[1], whose>>

(* Whether the registered read no longer serves a new call.  Variant: a *)
(* read that succeeded always does.                                     *)
UnfitByFailure(read) == read.finished # -1 /\ read.value = None
Unfit(read) ==
    read.finished # -1 /\ (read.value = None \/ posNow - read.finished > SharedSeconds)

PositionInit ==
    /\ posNow = 0
    /\ shared = <<>>
    /\ calls = [c \in Calls |-> [step |-> "new", began |-> 0, entry |-> 0, broker |-> 1, locks |-> 0, answer |-> None]]
    /\ holder = [l \in Locks |-> Nobody]

PositionTick == posNow < MaxPosTime /\ posNow' = posNow + 1 /\ UNCHANGED <<shared, calls, holder>>

(* The NAV write, a script: outside shared_position_reads. *)
EnterAlone(c) ==
    /\ calls[c].step = "new"
    /\ calls' = [calls EXCEPT ![c] = [@ EXCEPT !.step = "read", !.began = posNow]]
    /\ UNCHANGED <<posNow, shared, holder>>

(* collect_positions up to its read or its wait. *)
Enter(c) ==
    LET owner == shared = <<>> \/ Unfit(Last(shared))
    IN  /\ calls[c].step = "new"
        /\ shared' = IF owner THEN Append(shared, [value |-> None, finished |-> -1, done |-> FALSE]) ELSE shared
        /\ calls' = [calls EXCEPT ![c] =
                [@ EXCEPT !.step = IF owner THEN "read" ELSE "wait", !.began = posNow, !.entry = Len(shared')]]
        /\ UNCHANGED <<posNow, holder>>

Owns(c) == calls[c].entry > 0 /\ calls[c].step \in {"read", "finished", "announced"}

(* A waiter is woken: it copies the value, or reads on its own. *)
Wake(c) ==
    /\ calls[c].step = "wait"
    /\ LET read == shared[calls[c].entry]
       IN  /\ read.done
           /\ calls' = [calls EXCEPT ![c] =
                IF read.value = None THEN [@ EXCEPT !.step = "read", !.entry = 0]
                ELSE [@ EXCEPT !.step = "ended", !.answer = Deepcopy(read.value, c)]]
    /\ UNCHANGED <<posNow, shared, holder>>

LockList(c) == LocksOf[Brokers[calls[c].broker]]

(* kis_ledger_gate, then connection_guard. *)
Acquire(c) ==
    /\ calls[c].step = "read" /\ calls[c].broker <= Len(Brokers)
    /\ calls[c].locks < Len(LockList(c))
    /\ LET lock == LockList(c)[calls[c].locks + 1]
       IN  holder[lock] = Nobody /\ holder' = [holder EXCEPT ![lock] = c]
    /\ calls' = [calls EXCEPT ![c].locks = @ + 1]
    /\ UNCHANGED <<posNow, shared>>

Released(c) == [l \in Locks |-> IF holder[l] = c THEN Nobody ELSE holder[l]]

(* The broker answers, or fails, which its health says. *)
Answered(c) ==
    /\ calls[c].step = "read" /\ calls[c].broker <= Len(Brokers)
    /\ calls[c].locks = Len(LockList(c))
    /\ holder' = Released(c)
    /\ calls' = [calls EXCEPT ![c] = [@ EXCEPT !.broker = calls[c].broker + 1, !.locks = 0]]
    /\ UNCHANGED <<posNow, shared>>

(* The read is whole: its owner keeps a copy for the others. *)
ReadWhole(c) ==
    LET collection == <<calls[c].entry, c>>
    IN  /\ calls[c].step = "read" /\ calls[c].broker > Len(Brokers)
        /\ shared' = IF Owns(c) THEN [shared EXCEPT ![calls[c].entry].value = Deepcopy(collection, Nobody)] ELSE shared
        /\ calls' = [calls EXCEPT ![c] =
                [@ EXCEPT !.step = IF Owns(c) THEN "finished" ELSE "ended", !.answer = collection]]
        /\ UNCHANGED <<posNow, holder>>

(* Its rows cannot be made: the call fails, also when others wait for it. *)
ReadFails(c) ==
    /\ calls[c].step = "read" /\ calls[c].locks = 0 /\ calls[c].broker > 1
    /\ calls' = [calls EXCEPT ![c].step = IF Owns(c) THEN "finished" ELSE "ended"]
    /\ UNCHANGED <<posNow, shared, holder>>

(* The two statements of the finally clause. *)
SetFinished(c) ==
    /\ calls[c].step = "finished"
    /\ shared' = [shared EXCEPT ![calls[c].entry].finished = posNow]
    /\ calls' = [calls EXCEPT ![c].step = "announced"]
    /\ UNCHANGED <<posNow, holder>>

(* Variant: the waiters are woken for a value only. *)
SetDoneOnSuccess(c) ==
    /\ calls[c].step = "announced"
    /\ shared' = [shared EXCEPT ![calls[c].entry].done = @ \/ shared[calls[c].entry].value # None]
    /\ calls' = [calls EXCEPT ![c].step = "ended"]
    /\ UNCHANGED <<posNow, holder>>
SetDone(c) ==
    /\ calls[c].step = "announced"
    /\ shared' = [shared EXCEPT ![calls[c].entry].done = TRUE]
    /\ calls' = [calls EXCEPT ![c].step = "ended"]
    /\ UNCHANGED <<posNow, holder>>

Progress(c) ==
    Wake(c) \/ Acquire(c) \/ Answered(c) \/ ReadWhole(c) \/ ReadFails(c) \/ SetFinished(c) \/ SetDone(c)

PositionNext == PositionTick \/ \E c \in Calls : EnterAlone(c) \/ Enter(c) \/ Progress(c)

PositionSpec == PositionInit /\ [][PositionNext]_posVars

(***************************************************************************)
(* Properties.                                                             *)
(***************************************************************************)
(* A call is answered from positions read while it ran, or that finished at *)
(* most SharedSeconds before it began; and from a collection no other call  *)
(* holds, for tools write NAV evidence into theirs.                         *)
SharedFresh ==
    LET Has(c) == calls[c].answer # None
    IN  \A c \in Calls : Has(c) =>
            LET answer == calls[c].answer
            IN  /\ answer[2] = c
                /\ answer[1] > 0 =>
                    LET read == shared[answer[1]]
                    IN  /\ read.value # answer
                        /\ read.finished # -1 => read.finished >= calls[c].began - SharedSeconds

NoCallUnderWay == \A c \in Calls : calls[c].step \in {"new", "ended"}

================================================================================
