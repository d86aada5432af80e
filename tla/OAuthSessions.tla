---------------------------- MODULE OAuthSessions ----------------------------
(***************************************************************************)
(* What the OAuth store promises the owner: every consent leads a one-way  *)
(* life, and what a session may do never grows.  OAuthGrants.tla           *)
(* implements this.                                                        *)
(***************************************************************************)
EXTENDS Naturals

CONSTANTS
    MaxConsents,
    Scopes

VARIABLES
    session,    \* session[c]: the state of the session consent c asks for
    reach       \* reach[c]: the scopes its live grants carry

vars == <<session, reach>>

Consents == 1..MaxConsents
States == {"none", "open", "closed", "approved", "active", "ended"}
Moves == {<<"none", "open">>, <<"open", "closed">>, <<"open", "approved">>,
          <<"approved", "active">>, <<"approved", "ended">>, <<"active", "ended">>}

Init ==
    /\ session = [c \in Consents |-> "none"]
    /\ reach = [c \in Consents |-> {}]

Next ==
    /\ session' \in [Consents -> States]
    /\ reach' \in [Consents -> SUBSET Scopes]
    /\ \A c \in Consents :
        /\ session'[c] = session[c] \/ <<session[c], session'[c]>> \in Moves
        /\ reach'[c] \subseteq reach[c] \/ <<session[c], session'[c]>> = <<"open", "approved">>

Spec == Init /\ [][Next]_vars
=============================================================================
