----------------------------- MODULE RequestPacing -----------------------------
(***************************************************************************)
(* Admission of requests to one provider (provider_pacing.py): a request   *)
(* holds its budget's lock from its admission to its answer, the next one  *)
(* is sent an interval later, and a refusal turns requests away until its  *)
(* cooldown is over.  Supplemental reads have a budget of their own before *)
(* the provider's, whose refusals are theirs alone.                        *)
(*                                                                         *)
(* Each request is made once, by a thread of its own.                      *)
(***************************************************************************)
EXTENDS Integers, Sequences, FiniteSets

CONSTANTS
    Requests,
    Supplemental,       \* those of an inference client
    Hurried,            \* those with a deadline (remaining)
    IntervalOf,         \* the spacing each asks for after its answer
    Cooldown,           \* the delay a refusal asks for
    Patience,           \* the time a hurried request has
    MaxPaceTime         \* bound on the clock, but for a request that waits for its spacing

ASSUME PacingAssumption ==
    /\ Supplemental \subseteq Requests /\ Hurried \subseteq Requests
    /\ IntervalOf \in [Requests -> Nat]
    /\ {Cooldown, Patience, MaxPaceTime} \subseteq Nat

VARIABLES
    paceNow,
    requests,       \* each request: its step, the budgets it has entered, when it began,
                    \* was sent and ended, and whether it was refused
    lockedBy,       \* the request in each budget, or the set of none
    nextSend,       \* _next_request of each budget
    cooledUntil     \* _cooldown_until of each budget

paceVars == <<paceNow, requests, lockedBy, nextSend, cooledUntil>>

Budgets == {"provider", "supplemental"}
Path(r) == IF r \in Supplemental THEN <<"supplemental", "provider">> ELSE <<"provider">>
Never == -1

PaceInit ==
    /\ paceNow = 0
    /\ requests = [r \in Requests |-> [step |-> "new", entered |-> 0, began |-> Never,
                                       sent |-> Never, ended |-> Never, refused |-> FALSE]]
    /\ lockedBy = [b \in Budgets |-> {}]
    /\ nextSend = [b \in Budgets |-> 0]
    /\ cooledUntil = [b \in Budgets |-> 0]

Ask(r) ==
    /\ requests[r].step = "new"
    /\ requests' = [requests EXCEPT ![r].step = "waiting", ![r].began = paceNow]
    /\ UNCHANGED <<paceNow, lockedBy, nextSend, cooledUntil>>

Wanted(r) == Path(r)[requests[r].entered + 1]
Entered(r) == {Path(r)[i] : i \in 1..requests[r].entered}
Deadline(r) == requests[r].began + Patience
Late(r) == r \in Hurried /\ paceNow >= Deadline(r)

(* Leaving the budgets: those that admitted it space what follows. *)
Leaves(r, admitted) ==
    /\ nextSend' = [b \in Budgets |-> IF b \in admitted THEN paceNow + IntervalOf[r] ELSE nextSend[b]]
    /\ lockedBy' = [b \in Budgets |-> lockedBy[b] \ {r}]

(* Into the next budget, under its lock, until the spacing is over. *)
EnterBudget(r) ==
    /\ requests[r].step = "waiting" /\ lockedBy[Wanted(r)] = {}
    /\ ~Late(r) /\ paceNow >= cooledUntil[Wanted(r)]
    /\ r \in Hurried => nextSend[Wanted(r)] < Deadline(r)
    /\ lockedBy' = [lockedBy EXCEPT ![Wanted(r)] = {r}]
    /\ requests' = [requests EXCEPT ![r].step = "pausing"]
    /\ UNCHANGED <<paceNow, nextSend, cooledUntil>>

(* RequestThrottled. *)
TurnAway(r) ==
    /\ requests[r].step = "waiting" /\ lockedBy[Wanted(r)] = {}
    /\ ~Late(r) /\ paceNow < cooledUntil[Wanted(r)]
    /\ requests' = [requests EXCEPT ![r].step = "turned away", ![r].ended = paceNow]
    /\ Leaves(r, Entered(r))
    /\ UNCHANGED <<paceNow, cooledUntil>>

(* TimeoutError: at the lock, for a spacing beyond the deadline, after it. *)
GiveUp(r) ==
    /\ \/ requests[r].step = "waiting" /\ Late(r)
       \/ /\ requests[r].step = "waiting" /\ lockedBy[Wanted(r)] = {}
          /\ r \in Hurried /\ nextSend[Wanted(r)] >= Deadline(r) /\ nextSend[Wanted(r)] > paceNow
          /\ paceNow >= cooledUntil[Wanted(r)]
       \/ requests[r].step = "pausing" /\ Late(r)
    /\ requests' = [requests EXCEPT ![r].step = "gave up", ![r].ended = paceNow]
    /\ Leaves(r, Entered(r))
    /\ UNCHANGED <<paceNow, cooledUntil>>

(* The pause is over.  Variant: there is none. *)
PausedNever(r) == TRUE
Paused(r) == paceNow >= nextSend[Wanted(r)]
Admit(r) ==
    /\ requests[r].step = "pausing" /\ Paused(r) /\ ~Late(r)
    /\ LET all == requests[r].entered + 1 = Len(Path(r))
       IN  requests' = [requests EXCEPT ![r].entered = @ + 1, ![r].step = IF all THEN "sent" ELSE "waiting",
                                        ![r].sent = IF all THEN paceNow ELSE Never]
    /\ UNCHANGED <<paceNow, lockedBy, nextSend, cooledUntil>>

(* The answer; a refusal defers the budget its client asked. *)
Answer(r, refused) ==
    /\ requests[r].step = "sent"
    /\ requests' = [requests EXCEPT ![r].step = "answered", ![r].ended = paceNow, ![r].refused = refused]
    /\ cooledUntil' = IF ~refused THEN cooledUntil
                      ELSE [cooledUntil EXCEPT ![Path(r)[1]] = IF @ > paceNow + Cooldown THEN @ ELSE paceNow + Cooldown]
    /\ Leaves(r, Entered(r))
    /\ UNCHANGED paceNow

PaceTick ==
    /\ paceNow < MaxPaceTime \/ \E r \in Requests : requests[r].step = "pausing" /\ ~Paused(r)
    /\ paceNow' = paceNow + 1
    /\ UNCHANGED <<requests, lockedBy, nextSend, cooledUntil>>

Proceed(r) == EnterBudget(r) \/ TurnAway(r) \/ GiveUp(r) \/ Admit(r) \/ \E refused \in BOOLEAN : Answer(r, refused)

PaceNext == PaceTick \/ \E r \in Requests : Ask(r) \/ Proceed(r)

PaceSpec == PaceInit /\ [][PaceNext]_paceVars

(***************************************************************************)
(* Properties.                                                             *)
(***************************************************************************)
Sent(r) == requests[r].sent # Never
WasAnswered(r) == requests[r].step = "answered"

(* However the threads interleave: requests to the provider follow one      *)
(* another, each an interval after the one before was answered; a refusal   *)
(* is followed by silence, the supplemental client's by its own only; and   *)
(* no request is turned away but for a refusal that applies to it.          *)
Applies(q, r) == requests[q].refused /\ (q \in Supplemental => r \in Supplemental)

PacedApart ==
    /\ \A q, r \in Requests :
          Sent(q) /\ Sent(r) /\ q # r =>
              \/ WasAnswered(q) /\ requests[r].sent >= requests[q].ended + IntervalOf[q]
              \/ WasAnswered(r) /\ requests[q].sent >= requests[r].ended + IntervalOf[r]
    /\ \A q, r \in Requests :
          Applies(q, r) /\ Sent(r) /\ requests[r].sent > requests[q].ended =>
              requests[r].sent >= requests[q].ended + Cooldown
    /\ \A r \in Requests : requests[r].step = "turned away" =>
          \E q \in Requests : Applies(q, r) /\ requests[r].ended < requests[q].ended + Cooldown

NoRequestUnderWay == \A r \in Requests : requests[r].step \in {"new", "answered", "turned away", "gave up"}

================================================================================
