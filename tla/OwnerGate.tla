------------------------------- MODULE OwnerGate -------------------------------
(***************************************************************************)
(* The gate of the owner's passphrase (owner_gate.py), shared by the       *)
(* threads of one server process, and the registration of clients          *)
(* (oauth_store.py), shared by the processes: how often either may be      *)
(* tried, and what a refused caller is told to wait.                       *)
(***************************************************************************)
EXTENDS Integers, Sequences, FiniteSets

CONSTANTS
    MaxFailures,    \* wrong phrases that lock the gate
    Lockout,        \* and for how long
    MaxTries,       \* registrations tried in a window
    TryWindow,
    Caps,           \* clients a process may be configured to allow
    MaxGateTime,
    MaxRestarts     \* of the server

ASSUME GateAssumption ==
    /\ {MaxFailures, MaxTries, Lockout, TryWindow} \subseteq Nat \ {0}
    /\ Caps \subseteq Nat \ {0} /\ {MaxGateTime, MaxRestarts} \subseteq Nat

VARIABLES
    gateNow,
    failures, lockedUntil,
    guess,          \* when the phrase being compared was taken up, -1 for none
    tries,          \* the rows of the registration attempts, by number: those of the last window at least
    clients,        \* clients registered
    cap, restarts,
    wrongAt,        \* history: when each phrase found wrong since the last right one was taken up
    triedAt,        \* when each row was made, the deleted ones too
    advice          \* history: the last wait told by each, and what it had then let in

gateVars == <<gateNow, failures, lockedUntil, guess, tries, clients, cap, restarts, wrongAt, triedAt, advice>>

NoAdvice == [due |-> 0, after |-> -1]

GateInit ==
    /\ gateNow = 0
    /\ failures = 0 /\ lockedUntil = 0 /\ guess = -1
    /\ tries = {} /\ clients = 0 /\ cap \in Caps /\ restarts = 0
    /\ wrongAt = <<>> /\ triedAt = <<>>
    /\ advice = [w \in {"gate", "registry"} |-> NoAdvice]

Advised(who, wait, after) == advice' = [advice EXCEPT ![who] = [due |-> gateNow + wait, after |-> after]]

(* The lock is held while the phrase is compared, which takes a while. *)
TakeGuess ==
    /\ guess = -1
    /\ IF gateNow < lockedUntil
       THEN /\ Advised("gate", lockedUntil - gateNow, Len(wrongAt))
            /\ UNCHANGED <<failures, lockedUntil, guess>>
       ELSE /\ guess' = gateNow
            /\ failures' = (IF lockedUntil > 0 THEN 0 ELSE failures) /\ lockedUntil' = 0
            /\ UNCHANGED advice
    /\ UNCHANGED <<gateNow, tries, clients, cap, restarts, wrongAt, triedAt>>

RightGuess ==
    /\ guess >= 0
    /\ failures' = 0 /\ wrongAt' = <<>> /\ guess' = -1
    /\ advice' = [advice EXCEPT !["gate"] = NoAdvice]
    /\ UNCHANGED <<gateNow, lockedUntil, tries, clients, cap, restarts, triedAt>>

WrongGuess ==
    /\ guess >= 0
    /\ failures' = failures + 1 /\ wrongAt' = Append(wrongAt, guess) /\ guess' = -1
    /\ IF failures' >= MaxFailures
       THEN lockedUntil' = guess + Lockout /\ Advised("gate", Lockout, Len(wrongAt'))
       ELSE UNCHANGED <<lockedUntil, advice>>
    /\ UNCHANGED <<gateNow, tries, clients, cap, restarts, triedAt>>

(* Whether a try no longer counts.  Variant: a moment too late. *)
PastLate(created) == created < gateNow - TryWindow
Past(created) == created <= gateNow - TryWindow

Recent == {row \in tries : ~Past(triedAt[row])}

(* One transaction; what it removes stays removed when it refuses. *)
Register ==
    /\ IF Cardinality(Recent) >= MaxTries
       THEN /\ tries' = Recent
            /\ \E oldest \in Recent :
                  LET wait == triedAt[oldest] + TryWindow - gateNow
                  IN  /\ \A row \in Recent : triedAt[oldest] <= triedAt[row]
                      /\ Advised("registry", IF wait > 1 THEN wait ELSE 1, Len(triedAt))
            /\ UNCHANGED <<clients, triedAt>>
       ELSE /\ triedAt' = Append(triedAt, gateNow) /\ tries' = Recent \cup {Len(triedAt')}
            /\ clients' = IF clients >= cap THEN clients ELSE clients + 1
            /\ UNCHANGED advice
    /\ UNCHANGED <<gateNow, failures, lockedUntil, guess, cap, restarts, wrongAt>>

(* The server restarts, perhaps with another cap: the gate forgets. *)
RestartGate ==
    /\ restarts < MaxRestarts /\ restarts' = restarts + 1
    /\ cap' \in Caps
    /\ failures' = 0 /\ lockedUntil' = 0 /\ guess' = -1 /\ wrongAt' = <<>>
    /\ advice' = [advice EXCEPT !["gate"] = NoAdvice]
    /\ UNCHANGED <<gateNow, tries, clients, triedAt>>

GateTick ==
    /\ gateNow < MaxGateTime /\ gateNow' = gateNow + 1
    /\ UNCHANGED <<failures, lockedUntil, guess, tries, clients, cap, restarts, wrongAt, triedAt, advice>>

GateNext == TakeGuess \/ RightGuess \/ WrongGuess \/ Register \/ RestartGate \/ GateTick

(***************************************************************************)
(* Properties.                                                             *)
(***************************************************************************)
(* Of as many events as may happen together and one more, the first and the *)
(* last are apart.                                                          *)
Spread(times, most, apart) ==
    \A i \in DOMAIN times : i + most \in DOMAIN times => times[i + most] - times[i] >= apart

(* Who waits as told finds the gate, or the registry, open, if none was let  *)
(* in meanwhile.                                                            *)
WaitsAreHonest ==
    /\ advice["gate"].after = Len(wrongAt) /\ gateNow >= advice["gate"].due => gateNow >= lockedUntil
    /\ advice["registry"].after = Len(triedAt) /\ gateNow >= advice["registry"].due
       => Cardinality(Recent) < MaxTries

(* However the tries fall, no more wrong phrases are compared during a      *)
(* lockout's length, a right one aside, nor registrations let in during a   *)
(* window, than the limits say, whenever the server restarts with another cap for   *)
(* clients; and no caller is told too short a wait.                         *)
TriesBounded ==
    /\ Spread(wrongAt, MaxFailures, Lockout)
    /\ Spread(triedAt, MaxTries, TryWindow)
    /\ \E most \in Caps : clients <= most
    /\ WaitsAreHonest

================================================================================
