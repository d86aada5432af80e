----------------------------- MODULE OAuthGrants -----------------------------
(***************************************************************************)
(* The OAuth grants of oauth_store.py and oauth_provider.py: the owner's   *)
(* consent, the authorization code, and the family of token pairs rotated  *)
(* from it.  Each handler loads a row in one transaction and acts on it in *)
(* a later one, so the server's requests, a second server process and the  *)
(* oauth_admin command interleave between the two; the second transaction  *)
(* checks again.  A request may be dropped at any point.                   *)
(*                                                                         *)
(* A grant is a code or a pair (an access and a refresh row sharing pair,  *)
(* family, used_at and revoked).  Ids stand for the digests of random      *)
(* values.  Columns no statement updates are in grants; consumed, revoked, *)
(* purged, usedAt and consumedAt hold what statements change.              *)
(***************************************************************************)
EXTENDS Naturals, Sequences

CONSTANTS
    Requests,       \* requests in flight, in any number of processes
    Clients,        \* registered clients
    Scopes,
    ConsentTTL,     \* CONSENT_TTL
    CodeTTL,        \* life of an authorization code
    AccessTTL,      \* MCP_OAUTH_TOKEN_TTL
    RefreshTTL,     \* MCP_OAUTH_REFRESH_TOKEN_TTL
    Grace,          \* MCP_OAUTH_REFRESH_GRACE_SECONDS
    Retention,      \* how long expired rows are kept
    MaxConsents,    \* bounds of the model
    MaxGrants,
    MaxTime,
    None

ASSUME TimeAssumption ==
    /\ ConsentTTL \in Nat \ {0} /\ CodeTTL \in Nat \ {0}
    /\ AccessTTL \in Nat \ {0} /\ RefreshTTL \in Nat \ {0}
    /\ Grace \in Nat /\ Retention \in Nat
    \* An access row is not kept longer than its refresh row (3600 s and 30 days).
    /\ AccessTTL <= RefreshTTL
ASSUME BoundAssumption ==
    MaxConsents \in Nat /\ MaxGrants \in Nat /\ MaxTime \in Nat
ASSUME NoneAssumption == None \notin Nat

VARIABLES
    now,            \* int(time.time())
    consents,       \* signed consent nonces handed to browsers
    spent,          \* consents with a kind='consent' row
    grants,         \* every code and pair ever inserted
    consumed,       \* codes and pairs with consumed=1
    consumedAt,     \* consumed_at of a pair's refresh row
    usedAt,         \* used_at of a pair
    revoked,        \* grants with revoked=1
    purged,         \* grants whose (refresh) row was deleted
    request         \* what each request in flight has loaded

columns == <<consumed, consumedAt, usedAt, revoked>>
rows == <<grants, columns, purged>>
vars == <<now, consents, spent, rows, request>>

Ids == 1..MaxGrants
Times == Nat \union {None}
Consent == [client : Clients, scopes : SUBSET Scopes, expires : Nat]
Grant == [kind : {"code", "pair"}, consent : Nat, client : Clients, scopes : SUBSET Scopes,
          family : Nat, parent : Nat, at : Nat]
Idle == [op |-> "idle"]
Request == {Idle}
    \union [op : {"consent"}, consent : Nat]
    \union [op : {"exchange", "rotate"}, grant : Ids, client : Clients,
            scopes : SUBSET Scopes, at : Nat]

TypeOK ==
    /\ now \in Nat
    /\ consents \in Seq(Consent)
    /\ spent \subseteq DOMAIN consents
    /\ grants \in Seq(Grant)
    /\ Len(grants) <= MaxGrants
    /\ consumed \subseteq DOMAIN grants
    /\ revoked \subseteq DOMAIN grants
    /\ purged \subseteq DOMAIN grants
    /\ consumedAt \in [Ids -> Times]
    /\ usedAt \in [Ids -> Times]
    /\ request \in [Requests -> Request]
    \* consumed and consumed_at of a refresh row are set together.
    /\ \A i \in DOMAIN grants : grants[i].kind = "pair" => (i \in consumed <=> consumedAt[i] # None)

Init ==
    /\ now = 0
    /\ consents = <<>>
    /\ spent = {}
    /\ grants = <<>>
    /\ consumed = {} /\ revoked = {} /\ purged = {}
    /\ consumedAt = [i \in Ids |-> None]
    /\ usedAt = [i \in Ids |-> None]
    /\ request = [r \in Requests |-> Idle]

-----------------------------------------------------------------------------
(* Rows *)

Expires(i) == grants[i].at + (IF grants[i].kind = "code" THEN CodeTTL ELSE RefreshTTL)
Codes == {i \in DOMAIN grants : grants[i].kind = "code"}
Pairs == {i \in DOMAIN grants : grants[i].kind = "pair"}
Stored(i) == i \notin purged
\* Variant: only the presented row and its twin are revoked.
RowOnly(i) == {i} \ purged
FamilyOf(i) == {j \in DOMAIN grants : grants[j].family = grants[i].family /\ Stored(j)}
ChildrenOf(p) == {j \in Pairs : grants[j].parent = p /\ Stored(j)}

\* issue deletes the consent rows that have expired, whatever it then decides.
Unexpired == {c \in spent : consents[c].expires > now}

\* issue and rotate end by deleting the rows past their retention.
PurgeOld == purged' = purged \union {i \in DOMAIN grants : Expires(i) + Retention < now}

\* insert: a new row, with none of the updated columns set.
Insert(g) ==
    /\ Len(grants) < MaxGrants
    /\ grants' = Append(grants, g)

Done(r) == request' = [request EXCEPT ![r] = Idle]

-----------------------------------------------------------------------------
(* The owner's consent: begin_consent, complete_consent, authorize *)

\* The nonce is signed and sent to the browser; nothing is stored.
BeginConsent(client, scopes) ==
    /\ Len(consents) < MaxConsents
    /\ consents' = Append(consents, [client |-> client, scopes |-> scopes, expires |-> now + ConsentTTL])
    /\ UNCHANGED <<now, spent, rows, request>>

\* _consent accepts the posted nonce; the owner's secret is then verified in a thread.
CheckConsent(r, c) ==
    /\ request[r].op = "idle"
    /\ c \in DOMAIN consents
    /\ consents[c].expires > now
    /\ request' = [request EXCEPT ![r] = [op |-> "consent", consent |-> c]]
    /\ UNCHANGED <<now, consents, spent, rows>>

\* issue refuses an expired nonce, and one that is spent.
\* Variant: the spent row is not looked up.
SpendableInTime(c) == consents[c].expires > now
Spendable(c) == consents[c].expires > now /\ c \notin Unexpired

\* The owner approved: spend the consent and insert the code in one transaction.
ApproveConsent(r) ==
    LET c == request[r].consent
    IN /\ request[r].op = "consent"
       /\ IF Spendable(c)
          THEN /\ Insert([kind |-> "code", consent |-> c, client |-> consents[c].client,
                          scopes |-> consents[c].scopes, family |-> Len(grants) + 1,
                          parent |-> 0, at |-> now])
               /\ spent' = Unexpired \union {c}
               /\ PurgeOld
          ELSE /\ spent' = Unexpired
               /\ UNCHANGED <<grants, purged>>
       /\ Done(r)
       /\ UNCHANGED <<now, consents, columns>>

\* The secret was wrong, or the owner is locked out: the consent is spent all the same.
DenyConsent(r) ==
    LET c == request[r].consent
    IN /\ request[r].op = "consent"
       /\ spent' = IF Spendable(c) THEN Unexpired \union {c} ELSE Unexpired
       /\ IF Spendable(c) THEN PurgeOld ELSE UNCHANGED purged
       /\ Done(r)
       /\ UNCHANGED <<now, consents, grants, columns>>

-----------------------------------------------------------------------------
(* The code: exchange_authorization_code *)

\* _load: the row is there, unconsumed, unrevoked, unexpired and the client's own.
BeginExchange(r, i, client) ==
    /\ request[r].op = "idle"
    /\ i \in Codes \ (consumed \union revoked \union purged)
    /\ grants[i].client = client
    /\ Expires(i) > now
    /\ request' = [request EXCEPT ![r] = [op |-> "exchange", grant |-> i, client |-> client,
                                          scopes |-> grants[i].scopes, at |-> now]]
    /\ UNCHANGED <<now, consents, spent, rows>>

\* issue consumes the code it still finds unconsumed, unrevoked and unexpired.
Consumable(i) == i \notin consumed \union revoked \union purged /\ Expires(i) > now

CommitExchange(r) ==
    LET i == request[r].grant
    IN /\ request[r].op = "exchange"
       /\ spent' = Unexpired
       /\ IF Consumable(i)
          THEN /\ Insert([kind |-> "pair", consent |-> grants[i].consent, client |-> request[r].client,
                          scopes |-> request[r].scopes, family |-> grants[i].family,
                          parent |-> 0, at |-> request[r].at])
               /\ consumed' = consumed \union {i}
               /\ PurgeOld
          ELSE UNCHANGED <<grants, consumed, purged>>
       /\ Done(r)
       /\ UNCHANGED <<now, consents, consumedAt, usedAt, revoked>>

-----------------------------------------------------------------------------
(* The pairs: load_refresh, rotate, mark_access_used *)

LateReplay(i) == i \in consumed /\ (consumedAt[i] = None \/ now >= consumedAt[i] + Grace)

\* _refresh_allowed revokes the family of a stored, unrevoked row presented by
\* another client, or again after the grace.
Condemns(i, client) ==
    /\ Stored(i) /\ i \notin revoked
    /\ grants[i].client # client \/ LateReplay(i)

\* Variant: a revoked row still rotates.
AllowedEvenRevoked(i, client) ==
    /\ Stored(i)
    /\ grants[i].client = client /\ ~LateReplay(i)
    /\ Expires(i) > now
Allowed(i, client) ==
    /\ Stored(i) /\ i \notin revoked
    /\ grants[i].client = client /\ ~LateReplay(i)
    /\ Expires(i) > now

\* load_refresh, for load_refresh_token and for exchange_refresh_token.
LoadRefresh(r, i, client, scopes) ==
    /\ request[r].op = "idle"
    /\ i \in Pairs
    /\ \/ /\ Condemns(i, client)
          /\ revoked' = revoked \union FamilyOf(i)
          /\ UNCHANGED request
       \/ /\ Allowed(i, client)
          /\ scopes \subseteq grants[i].scopes
          /\ request' = [request EXCEPT ![r] = [op |-> "rotate", grant |-> i, client |-> client,
                                                scopes |-> scopes, at |-> now]]
          /\ UNCHANGED revoked
    /\ UNCHANGED <<now, consents, spent, grants, consumed, consumedAt, usedAt, purged>>

\* _used: the first use of a pair is recorded; after the grace it revokes the
\* siblings nobody has used.
MarkUsed(i) == usedAt' = IF usedAt[i] = None THEN [usedAt EXCEPT ![i] = now] ELSE usedAt

\* Variant: every sibling survives.
NoLosers(i) == {}
Losers(i) ==
    LET p == grants[i].parent
    IN {j \in DOMAIN grants :
            /\ p # 0 /\ p \notin purged
            /\ consumedAt[p] # None
            /\ now >= consumedAt[p] + Grace
            /\ j # i /\ j \in ChildrenOf(p) /\ usedAt[j] = None}

\* The first consumption is the one that counts for the grace (COALESCE).
Stamp(i) == consumedAt' = IF consumedAt[i] = None THEN [consumedAt EXCEPT ![i] = now] ELSE consumedAt

\* rotate accepts scopes the row has and every unrevoked child kept.
\* Variant: the children are not asked.
ScopesOfRowOnly(i, scopes) == scopes \subseteq grants[i].scopes
ScopesAllowed(i, scopes) ==
    /\ scopes \subseteq grants[i].scopes
    /\ \A j \in ChildrenOf(i) \ revoked : scopes \subseteq grants[j].scopes

Rotate(r) ==
    LET i == request[r].grant
        client == request[r].client
        scopes == request[r].scopes
    IN /\ request[r].op = "rotate"
       /\ \/ /\ Condemns(i, client)
             /\ revoked' = revoked \union FamilyOf(i)
             /\ UNCHANGED <<grants, consumed, consumedAt, usedAt, purged>>
          \/ /\ Allowed(i, client)
             /\ ScopesAllowed(i, scopes)
             /\ MarkUsed(i)
             /\ revoked' = revoked \union Losers(i)
             /\ consumed' = consumed \union {i}
             /\ Stamp(i)
             /\ Insert([kind |-> "pair", consent |-> grants[i].consent, client |-> client,
                        scopes |-> scopes, family |-> grants[i].family,
                        parent |-> i, at |-> request[r].at])
             /\ PurgeOld
          \/ /\ ~Condemns(i, client)
             /\ ~(Allowed(i, client) /\ ScopesAllowed(i, scopes))
             /\ UNCHANGED rows
       /\ Done(r)
       /\ UNCHANGED <<now, consents, spent>>

\* load_access_token and mark_access_used: a live access token is presented.
UseAccess(i) ==
    /\ i \in Pairs
    /\ Stored(i) /\ i \notin revoked
    /\ grants[i].at + AccessTTL > now
    /\ MarkUsed(i)
    /\ revoked' = revoked \union Losers(i)
    /\ UNCHANGED <<now, consents, spent, grants, consumed, consumedAt, purged, request>>

\* The revocation endpoint: either token of the pair ends the family.
Revoke(i) ==
    /\ i \in Pairs
    /\ Stored(i)
    /\ revoked' = revoked \union FamilyOf(i)
    /\ UNCHANGED <<now, consents, spent, grants, consumed, consumedAt, usedAt, purged, request>>

\* oauth_admin revoke-all, from its own process.
RevokeAll ==
    /\ revoked' = revoked \union {i \in DOMAIN grants : Stored(i)}
    /\ UNCHANGED <<now, consents, spent, grants, consumed, consumedAt, usedAt, purged, request>>

\* The connection drops, or the server restarts.
Abandon(r) ==
    /\ request[r].op # "idle"
    /\ Done(r)
    /\ UNCHANGED <<now, consents, spent, rows>>

Tick ==
    /\ now < MaxTime
    /\ now' = now + 1
    /\ UNCHANGED <<consents, spent, rows, request>>

Next ==
    \/ Tick
    \/ RevokeAll
    \/ \E client \in Clients, scopes \in SUBSET Scopes : BeginConsent(client, scopes)
    \/ \E i \in Ids : UseAccess(i) \/ Revoke(i)
    \/ \E r \in Requests :
        \/ \E c \in 1..MaxConsents : CheckConsent(r, c)
        \/ ApproveConsent(r)
        \/ DenyConsent(r)
        \/ \E i \in Ids, client \in Clients : BeginExchange(r, i, client)
        \/ CommitExchange(r)
        \/ \E i \in Ids, client \in Clients, scopes \in SUBSET Scopes : LoadRefresh(r, i, client, scopes)
        \/ Rotate(r)
        \/ Abandon(r)

Spec == Init /\ [][Next]_vars

-----------------------------------------------------------------------------
(* Properties *)

\* Each consent yields at most one code and each code at most one first pair, whatever
\* is retried, raced or purged (issue's consent row and its recheck of the code).
SingleUse ==
    /\ \A i, j \in Codes : grants[i].consent = grants[j].consent => i = j
    /\ \A i, j \in Pairs :
          grants[i].parent = 0 /\ grants[j].parent = 0 /\ grants[i].family = grants[j].family => i = j

\* A retried rotation cannot restore scopes an earlier one gave up: of the pairs
\* rotated from one refresh token, the later has no scope the earlier lacks (rotate).
RetryKeepsScopes ==
    \A i, j \in Pairs :
        i < j /\ grants[i].parent # 0 /\ grants[i].parent = grants[j].parent =>
            grants[j].scopes \subseteq grants[i].scopes

\* When a branch of a family is cut, nothing rotated from it stays usable: a pair
\* with children has been used, so choosing a winner never cuts it off (_used).
CutBranchesEnd ==
    \A i \in Pairs \intersect revoked : ChildrenOf(i) \subseteq revoked

\* The first use of i came after the grace in which siblings may coexist.
LateUse(i) ==
    LET p == grants[i].parent
    IN /\ usedAt[i] # None
       /\ p # 0
       /\ consumedAt[p] # None
       /\ usedAt[i] >= consumedAt[p] + Grace

\* After the grace actual use chooses a branch: a sibling of a late winner is revoked
\* unless it was used within the grace.  The choice needs the parent's row (_used).
Chosen(i) ==
    \A j \in Pairs \ {i} :
        grants[j].parent = grants[i].parent =>
            j \in revoked \union purged \/ (usedAt[j] # None /\ ~LateUse(j))
LateUseChooses == \A i \in Pairs : LateUse(i) /\ Stored(grants[i].parent) => Chosen(i)

\* The same without the proviso, as the comment in _used says it.
UseAlwaysChooses == \A i \in Pairs : LateUse(i) => Chosen(i)

\* What has become of a consent, and what the grants that stem from it may still do.
GrantsOf(c) == {i \in DOMAIN grants : grants[i].consent = c}
LiveOf(c) == {i \in GrantsOf(c) : Stored(i) /\ i \notin revoked}
Session == [c \in 1..MaxConsents |->
    IF c \notin DOMAIN consents THEN "none"
    ELSE IF GrantsOf(c) = {}
         THEN IF consents[c].expires > now /\ c \notin spent THEN "open" ELSE "closed"
    ELSE IF LiveOf(c) = {} THEN "ended"
    ELSE IF GrantsOf(c) \intersect consumed = {} THEN "approved" ELSE "active"]
Reach == [c \in 1..MaxConsents |-> UNION {grants[i].scopes : i \in LiveOf(c)}]
Sessions == INSTANCE OAuthSessions WITH session <- Session, reach <- Reach

\* The store implements the one-way life of a session (OAuthSessions): no stale
\* request reopens a closed consent, revives an ended session or widens its scopes.
ImplementsSessions == Sessions!Spec
=============================================================================
