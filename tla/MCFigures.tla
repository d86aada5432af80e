------------------------------- MODULE MCFigures -------------------------------
(***************************************************************************)
(* The accounting figures, one of three at a time: a cost book, the        *)
(* interval returns, or transfer matching.  They share no state; part says *)
(* which of them moves, so the run is the sum of the three.                *)
(***************************************************************************)
EXTENDS AccountBook, IntervalReturns, TransferMatching

CONSTANTS toss, kis, o1, o2, i1, oa, ia, ib, m1, m2

VARIABLE part

mcNavs == {[s \in {toss, kis} |-> IF s = toss THEN nav[1] ELSE nav[2]] :
             nav \in {<<"worth", "worth">>, <<"zero", "uncaptured">>, <<"incomplete", "worth">>}}
mcClose == {<<o1, i1>>, <<o2, i1>>, <<oa, ia>>, <<oa, ib>>}
mcShared == {<<o2, i1>>}
mcRule == [m \in {m1, m2} |-> IF m = m1 THEN "v1" ELSE "v2"]

MCInit ==
    /\ part \in {"book", "returns", "matching"}
    /\ BookInit /\ ReturnsInit /\ MatchInit

MCNext ==
    /\ UNCHANGED part
    /\ \/ part = "book" /\ BookNext /\ UNCHANGED <<returnVars, matchVars>>
       \/ part = "returns" /\ ReturnsNext /\ UNCHANGED <<bookVars, matchVars>>
       \/ part = "matching" /\ MatchNext /\ UNCHANGED <<bookVars, returnVars>>

MCSpec == MCInit /\ [][MCNext]_<<part, bookVars, returnVars, matchVars>>

================================================================================
