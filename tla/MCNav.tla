--------------------------------- MODULE MCNav ---------------------------------
(***************************************************************************)
(* The daily snapshots, one of four at a time: how they are stored, the    *)
(* flows inferred from those of a Toss account and from the captures of a  *)
(* KIS account, and those the futures venues tell.  The four share no      *)
(* state; part says which of them moves, so the run is their sum.  In the  *)
(* first one midnight falls between the first two instants; jobs are the   *)
(* tool and the scheduled job.                                             *)
(***************************************************************************)
EXTENDS NavStore, TossFlows, KisFlows, CryptoFlows

CONSTANTS k, u, k1, k2, u1, h1, h2, f1, f2

VARIABLE part

MCDayOf == [t \in 0..MaxTime |-> IF t = 0 THEN 0 ELSE 1]

(* A won and a dollar symbol.  The first two payments may fall in the same   *)
(* interval and differ in their ex-dates.                                    *)
mcCurrency == [s \in {k, u} |-> IF s = k THEN "KRW" ELSE "USD"]
mcPrice == [s \in {k, u} |-> IF s = k THEN 50 ELSE 7]
mcSchedule == [d \in {k1, k2, u1} |->
    CASE d = k1 -> [symbol |-> k, ex |-> 1, first |-> 1, last |-> 2, net |-> 50, gross |-> 60]
      [] d = k2 -> [symbol |-> k, ex |-> 2, first |-> 2, last |-> 2, net |-> 70, gross |-> 80]
      [] d = u1 -> [symbol |-> u, ex |-> 1, first |-> 1, last |-> 2, net |-> 4, gross |-> 5]]
mcMark == [d \in 0..2 |-> IF d = 2 THEN 12 ELSE 10]
mcOpening == [c \in {"KRW", "USD"} |-> 300]
mcShares == [s \in {k, u} |-> 1]
mcExternal == {<<"KRW", 50>>, <<"USD", 9>>}
mcConversions == {<<-30, 3>>}
mcExchanges == {<<-30, 3>>, <<-20, 3>>}

(* A purchase and then a sale, at home and abroad. *)
mcOrderDate == [o \in {h1, h2} |-> IF o = h1 THEN 0 ELSE 1]
mcOrderSide == [o \in {h1, h2} |-> IF o = h1 THEN 1 ELSE -1]
mcRowDate == [o \in {f1, f2} |-> IF o = f1 THEN 0 ELSE 1]
mcRowSide == [o \in {f1, f2} |-> IF o = f1 THEN 1 ELSE -1]
mcRate == [d \in 0..2 |-> 10]
mcOpeningCash == [KRW |-> 500, USD |-> 5]
mcDeposits == {<<"KRW", 40>>, <<"KRW", -5>>, <<"USD", 9>>}

(* Binance's transfers go by two routes, and some times are told in seconds. *)
mcBrings == [in |-> {1}, out |-> {-1}, ledger |-> {1}]
mcScenes == {
    [streams |-> <<"in", "out">>, readFirst |-> FALSE, tick |-> 1, keeps |-> 7, pad |-> 2,
     last |-> 5, moves |-> 1, cuts |-> 2, passes |-> 1, odd |-> 1],
    [streams |-> <<"ledger">>, readFirst |-> TRUE, tick |-> 0, keeps |-> 2, pad |-> 1,
     last |-> 3, moves |-> 2, cuts |-> 2, passes |-> 2, odd |-> 1]}

MCInit ==
    /\ part \in {"store", "toss", "kis", "crypto"} /\ Init /\ TossFlowInit /\ KisFlowInit /\ CryptoFlowsInit
    /\ part # "crypto" => scene = CHOOSE s \in Scenes : TRUE

MCNext ==
    /\ UNCHANGED part
    /\ \/ part = "store" /\ Next /\ UNCHANGED <<tossVars, kisVars, flowVars>>
       \/ part = "toss" /\ TossFlowNext /\ UNCHANGED <<vars, kisVars, flowVars>>
       \/ part = "kis" /\ KisFlowNext /\ UNCHANGED <<vars, tossVars, flowVars>>
       \/ part = "crypto" /\ CryptoFlowsNext /\ UNCHANGED <<vars, tossVars, kisVars>>

(* What is inferred to have come in or gone out between two captures did,   *)
(* for each of the three kinds of account.                                  *)
InferredFlowsTrue == DividendsAreIncome /\ TradesAreNotFlows /\ FlowBetweenReads

MCSpec == MCInit /\ [][MCNext]_<<part, vars, tossVars, kisVars, flowVars>>

================================================================================
