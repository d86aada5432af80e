------------------------------ MODULE MCLedger ------------------------------
(* A small ledger: one fill that an older release may have stored under    *)
(* another identity, one transfer with a status, two writers.              *)
EXTENDS Ledger, TLC

CONSTANTS fill, oldFill, flow, fact, note, x, y, done, waiting, o2, o3, d1

MCIds == {fill, oldFill, flow}
MCLegacyOf == [i \in MCIds |-> IF i = fill THEN oldFill ELSE None]
MCFields == {fact, note}
MCRow(id, a, b, s) == [id |-> id, facts |-> (fact :> a @@ note :> b), status |-> s]

\* o2 sees both events; o3 repeats an id and contradicts itself or o2; the daily
\* run d1 reports the transfer late, as still pending, and an unsupported row.
AllRows ==
    o2 :> <<MCRow(flow, x, y, done), MCRow(fill, x, y, None)>> @@
    o3 :> <<MCRow(fill, y, x, None), MCRow(fill, None, x, None)>> @@
    d1 :> <<MCRow(flow, None, x, waiting), None>>
MCRows == [o \in Observations |-> AllRows[o]]
MCSymmetry == Permutations(Writers)
MCBefore == [i \in MCIds |-> IF i = oldFill THEN [facts |-> (fact :> None @@ note :> None), status |-> None] ELSE None]
=============================================================================
