----------------------------- MODULE NavHistory -----------------------------
(***************************************************************************)
(* What the NAV store promises a reader of the daily series: every         *)
(* observation ever stored stays as it was, and the one shown for a day    *)
(* changes only to a new observation.  NavStore.tla implements this.       *)
(***************************************************************************)
EXTENDS Sequences, SequencesExt

CONSTANTS
    Days,
    None

VARIABLES
    archive,    \* archive[d]: every observation stored for day d, in order
    shown       \* shown[d]: the observation a reader of day d gets, or None

vars == <<archive, shown>>

Init ==
    /\ archive = [d \in Days |-> <<>>]
    /\ shown = [d \in Days |-> None]

\* An observation asked for in chat may not hide evidence that only the scheduled
\* capture collects.
Hides(new, old) == new.source = "tool" /\ old # None /\ ~ old.evidence \subseteq new.evidence

\* Stored aside, or the import of what was already shown.
Kept(d) == shown'[d] = shown[d]

Replaced(d) ==
    /\ archive'[d] # <<>>
    /\ shown'[d] = Last(archive'[d])
    /\ ~ Hides(shown'[d], shown[d])

\* An older release knows no versions: it overwrites what it finds.
Overwritten(d) ==
    /\ archive'[d] = archive[d]
    /\ shown'[d].source = "legacy"

\* It may also undo its own overwrite within the second, which nothing has recorded.
PutBack(d) ==
    /\ archive'[d] = archive[d]
    /\ shown[d].source = "legacy"
    /\ shown'[d] \in Range(archive[d])

Next ==
    /\ DOMAIN archive' = Days /\ DOMAIN shown' = Days
    /\ \A d \in Days :
        /\ IsPrefix(archive[d], archive'[d])
        /\ Kept(d) \/ Replaced(d) \/ Overwritten(d) \/ PutBack(d)

Spec == Init /\ [][Next]_vars
=============================================================================
