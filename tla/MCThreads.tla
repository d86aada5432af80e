------------------------------- MODULE MCThreads -------------------------------
(***************************************************************************)
(* Threads of the server process, one of several groups at a time: calls   *)
(* that read positions, requests to one provider, or calls that read the   *)
(* futures venues (and, of one call, the history it collects and the        *)
(* accounts it values), a scan of orders, a trade history read page by page, *)
(* or tries of the owner's gate.  They share no state; part says which of    *)
(* them moves, so the run is the sum of them.                               *)
(***************************************************************************)
EXTENDS PositionReads, RequestPacing, FuturesReads, OrderScan, ContinuedPages,
        OwnerGate

CONSTANTS public, account, inference

VARIABLE part

mcBrokers == <<"kis">>
mcLocksOf == [b \in {"kis"} |-> <<"ledger gate", "connection">>]
mcIntervalOf == [r \in {public, account, inference} |-> IF r = public THEN 2 ELSE 1]
mcWallets == <<"first", "second">>
mcNamed == <<"alpha", "beta">>
mcDays == <<0, 1, 1, 2, 3>>
mcModes == {"unifiedAccount", "disabled", "portfolioMargin"}

threadVars == <<part, posVars, paceVars, futuresVars, historyVars, perpVars, scanVars, pagesVars, gateVars>>

MCInit ==
    /\ part \in {"positions", "pacing", "futures", "history", "wallets", "orders", "pages", "gate"}
    /\ PositionInit /\ PaceInit /\ FuturesInit /\ PerpInit /\ GateInit
    /\ HistoryInit /\ ScanInit /\ PagesInit
    /\ part # "history" => rowTime = [r \in VenueRows |-> 0]
    /\ part # "gate" => cap = 1
    /\ part # "pages" => recentFrom = FromDay /\ ~oneExchange
    /\ part # "wallets" => listed = <<>> /\ perpMode = [w \in Range(Wallets) |-> "disabled"]

MCNext ==
    /\ UNCHANGED part
    /\ \/ /\ part = "positions" /\ PositionNext
          /\ UNCHANGED <<paceVars, futuresVars, historyVars, perpVars, scanVars, pagesVars, gateVars>>
       \/ /\ part = "pacing" /\ PaceNext
          /\ UNCHANGED <<posVars, futuresVars, historyVars, perpVars, scanVars, pagesVars, gateVars>>
       \/ /\ part = "futures" /\ FuturesNext
          /\ UNCHANGED <<posVars, paceVars, historyVars, perpVars, scanVars, pagesVars, gateVars>>
       \/ /\ part = "history" /\ HistoryNext
          /\ UNCHANGED <<posVars, paceVars, futuresVars, perpVars, scanVars, pagesVars, gateVars>>
       \/ /\ part = "wallets" /\ PerpNext
          /\ UNCHANGED <<posVars, paceVars, futuresVars, historyVars, scanVars, pagesVars, gateVars>>
       \/ /\ part = "orders" /\ ScanNext
          /\ UNCHANGED <<posVars, paceVars, futuresVars, historyVars, perpVars, pagesVars, gateVars>>
       \/ /\ part = "pages" /\ PagesNext
          /\ UNCHANGED <<posVars, paceVars, futuresVars, historyVars, perpVars, scanVars, gateVars>>
       \/ /\ part = "gate" /\ GateNext
          /\ UNCHANGED <<posVars, paceVars, futuresVars, historyVars, perpVars, scanVars, pagesVars>>

(* Time goes on, brokers and venues answer within their timeouts, and a      *)
(* thread that can take a lock, wake or go on does.                          *)
MCFairness ==
    /\ WF_threadVars(part = "pacing" /\ PaceTick /\ MCNext)
    /\ \A c \in Calls : WF_threadVars(part = "positions" /\ Progress(c) /\ MCNext)
    /\ \A r \in Requests : WF_threadVars(part = "pacing" /\ Proceed(r) /\ MCNext)
    /\ \A c \in Asked : WF_threadVars(part = "futures" /\ FuturesStep(c) /\ MCNext)

MCSpec == MCInit /\ [][MCNext]_threadVars /\ MCFairness

(* Every call and every request that began ends, the waiters for a read that *)
(* failed, those behind a refused request and the positions calls behind a   *)
(* history read among them: each is made once, so this says that none stays  *)
(* under way.                                                                *)
ThreadsEnd == []<>(NoCallUnderWay /\ NoRequestUnderWay /\ NobodyAsking)

(* Positions are never older than the tool says that they may be: those of   *)
(* the brokers, shared by the calls that ask at once, and those of the       *)
(* futures venues, reused for a while.                                       *)
ReadsFresh == SharedFresh /\ FuturesFresh

(* Providers are asked no faster, and the gate and the registry tried no     *)
(* more often, than their limits allow.                                      *)
RatesKept == PacedApart /\ TriesBounded

(* What was read in many requests is whole or says that it is not: a history *)
(* has every row, a value every exchange, a scan every order.                *)
ReadsWhole == HistoryWhole /\ ValueWhole /\ ScansWhole /\ PagesWhole

================================================================================
