----------------------------- MODULE MCStatement -----------------------------
(***************************************************************************)
(* What is known from outside the books, one of four at a time: broker     *)
(* statements, the owner's exports of a futures wallet, and what a day's   *)
(* snapshot reads of a stock account and of the futures venues.  They      *)
(* share no state; part says which of them moves, so the run is their sum. *)
(*                                                                         *)
(* An early and a late statement of one number that disagree about a       *)
(* trade, and one of another number with the same last digits, read by two *)
(* processes.  A transfer in, one out and a deposit on two days.  A market *)
(* that closes late on the first day, and next in three days.              *)
(***************************************************************************)
EXTENDS StatementImport, FlowRecords, NavEvidence, CryptoCapture, TLC

CONSTANTS early, late, other, mine, theirs, n1, n2, bought, resold, m1, m2, m3

VARIABLE part

MCNumberOf == [f \in Files |-> IF f = other THEN n2 ELSE n1]
MCOwnerOf ==
    [n \in Numbers |-> IF n = n1 THEN mine ELSE IF theirs \in Accounts THEN theirs ELSE None]
MCSuffixOf == [a \in Accounts |-> {n2}]
MCTradesOf ==
    [f \in Files |-> IF f = early THEN {bought} ELSE IF f = late THEN {resold} ELSE {bought, resold}]
MCClashes == {<<bought, resold>>, <<resold, bought>>}
MCKindOf == [m \in Moves |-> CASE m = m1 -> "in" [] m = m2 -> "out" [] m = m3 -> "deposit"]
MCHappensAt == [m \in Moves |-> CASE m = m1 -> 1 [] m = m2 -> 2 [] m = m3 -> 3]
mcSessions == {-1, 0, 3}
mcCloses == [d \in mcSessions |-> CASE d = -1 -> -3 [] d = 0 -> 1 [] d = 3 -> 9]
MCSymmetry == Permutations(Processes) \union Permutations(Salts)

MCInit ==
    /\ part \in {"statements", "exports", "stock", "venues"}
    /\ Init /\ FlowInit /\ EvidenceInit /\ CaptureInit
    /\ part # "stock" => traded = 0 /\ ~orders.open
    /\ part # "venues" => coins.at = "binance"

MCNext ==
    /\ UNCHANGED part
    /\ \/ part = "statements" /\ Next /\ UNCHANGED <<flowVars, evidenceVars, captureVars>>
       \/ part = "exports" /\ FlowNext /\ UNCHANGED <<vars, evidenceVars, captureVars>>
       \/ part = "stock" /\ EvidenceNext /\ UNCHANGED <<vars, flowVars, captureVars>>
       \/ part = "venues" /\ CaptureNext /\ UNCHANGED <<vars, flowVars, evidenceVars>>

(* What a day's evidence is said to be worth is what there was, and money   *)
(* between two venues is counted once.                                      *)
EvidenceTrue == WorthOfItsDay /\ MoneyCountedOnce

MCSpec == MCInit /\ [][MCNext]_<<part, vars, flowVars, evidenceVars, captureVars>>
=============================================================================
