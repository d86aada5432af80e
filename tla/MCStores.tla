------------------------------- MODULE MCStores -------------------------------
(***************************************************************************)
(* What calls and processes leave behind for one another, one part at a    *)
(* time: recovery cursors, the Toss token, the dividend cache, frozen      *)
(* exports.  They share no state; part says which of them moves, so the    *)
(* run is the sum of the four.                                             *)
(***************************************************************************)
EXTENDS Recoveries, TossToken, DividendCache, DatasetExport

VARIABLE part

mcOwn == [h \in 1..2 |-> h]
mcAnchorings == {<<1, 0>>}
mcContents == {<<"a", "b", "c">>, <<"a", "c", "b">>, <<"c">>, <<"c", "a">>}

MCInit == part \in {"recoveries", "token", "dividends", "exports"} /\ RecInit /\ TossInit /\ DividendInit /\ ExportInit

MCNext ==
    /\ UNCHANGED part
    /\ \/ part = "recoveries" /\ RecNext /\ UNCHANGED <<tossVars, dividendVars, exportVars>>
       \/ part = "token" /\ TossNext /\ UNCHANGED <<recVars, dividendVars, exportVars>>
       \/ part = "dividends" /\ DividendNext /\ UNCHANGED <<recVars, tossVars, exportVars>>
       \/ part = "exports" /\ ExportNext /\ UNCHANGED <<recVars, tossVars, dividendVars>>

MCSpec == MCInit /\ [][MCNext]_<<part, recVars, tossVars, dividendVars, exportVars>>

================================================================================
