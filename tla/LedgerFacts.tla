----------------------------- MODULE LedgerFacts -----------------------------
(***************************************************************************)
(* What the permanent ledger promises its readers, without saying how it   *)
(* is stored: a fact, once known, is never changed or forgotten, and an    *)
(* observation is claimed to be covered only when every row it returned    *)
(* can be read back from the facts.  Ledger.tla implements this.           *)
(***************************************************************************)
EXTENDS Naturals, Sequences

CONSTANTS
    Ids,            \* ledger event identities
    LegacyOf,       \* LegacyOf[id]: an older identity of the same event, or None
    Fields,         \* the fields of an event
    Annotations,    \* fields whose first reported value stands without conflict
    Observations,   \* collected windows of broker rows
    Rows,           \* Rows[o]: the rows the source returned, None if unsupported
    None            \* a field nobody has reported yet

VARIABLES
    fact,           \* fact[id][field]: the value known, or None
    claimed         \* observations whose coverage is claimed

vars == <<fact, claimed>>

\* Facts only grow: what is known stays as it is.
Extends(new, old) ==
    \A id \in Ids, f \in Fields :
        old[id][f] # None => new[id][f] = old[id][f]

\* The facts of id answer a row: every field it reports is known, and no fact
\* of it is contradicted.
Answers(id, row) ==
    \A f \in Fields : row.facts[f] # None =>
        /\ fact[id][f] # None
        /\ f \notin Annotations => fact[id][f] = row.facts[f]

Matches(o) ==
    \A i \in 1..Len(Rows[o]) :
        /\ Rows[o][i] # None
        /\ \E id \in {Rows[o][i].id, LegacyOf[Rows[o][i].id]} \ {None} : Answers(id, Rows[o][i])

Init == claimed = {}

Learn ==
    /\ Extends(fact', fact)
    /\ UNCHANGED claimed

Claim(o) ==
    /\ Matches(o)
    /\ claimed' = claimed \union {o}
    /\ UNCHANGED fact

Next == Learn \/ \E o \in Observations : Claim(o)

Spec == Init /\ [][Next]_vars
=============================================================================
