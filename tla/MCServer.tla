------------------------------- MODULE MCServer --------------------------------
(***************************************************************************)
(* The tool server: the grants it issues to its clients, and the reports   *)
(* its tools compute, one of them at a time.  They share no state; part    *)
(* says which of them moves, so the run is the sum of them.                *)
(***************************************************************************)
EXTENDS OAuthGrants, GainsReport, PortfolioView, PerformanceReport, TLC

CONSTANTS a1, a2, x, y

VARIABLE part

mcRoster == <<a1, a2>>
mcMaxEvents == [a \in {a1, a2} |-> IF a = a1 THEN 4 ELSE 1]
mcLeverage == [s \in {x, y} |-> IF s = x THEN 2 ELSE 1]

MCSymmetry == Permutations(Requests)

MCInit ==
    /\ part \in {"grants", "gains", "view", "performance"}
    /\ Init /\ BookInit /\ GainsInit
    /\ ViewInit /\ purse["kis"] = EmptyPurse
    /\ PerfInit
    /\ owned = [d \in Desks |-> [s \in {x, y} |-> IF d = "kis" /\ s = y THEN 0 ELSE 1]]

(* Nothing happens after the last report. *)
MCView == ViewNext /\ (view.pc = "done" => counts.reports < MaxReports)
MCPerf == PerfNext /\ perf.pc # "done"

MCNext ==
    /\ UNCHANGED <<part, bookVars>>
    /\ \/ part = "grants" /\ Next /\ UNCHANGED <<gainVars, viewVars, perfVars>>
       \/ part = "gains" /\ GainsNext /\ UNCHANGED <<vars, viewVars, perfVars>>
       \/ part = "view" /\ MCView /\ UNCHANGED <<vars, gainVars, perfVars>>
       \/ part = "performance" /\ MCPerf /\ UNCHANGED <<vars, gainVars, viewVars>>

MCSpec == MCInit /\ [][MCNext]_<<part, vars, bookVars, gainVars, viewVars, perfVars>>

================================================================================
