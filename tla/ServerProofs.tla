----------------------------- MODULE ServerProofs -----------------------------
(***************************************************************************)
(* Theorems about what the server answers with: its sessions (OAuthGrants, *)
(* for any number of requests, clients and scopes and any lifetimes) and   *)
(* its reports (PerformanceReport, PortfolioView and GainsReport).         *)
(*                                                                         *)
(* The inductive invariant of the sessions relates the rows of a family to *)
(* one another, to the clock and to what requests in flight have loaded.   *)
(* Those of the reports relate what has been read so far to what the       *)
(* accounts are, or were when it was read; that the figures made of it are *)
(* the real ones then follows from lemmas on sums over finite sets.        *)
(***************************************************************************)
EXTENDS OAuthGrants, PerformanceReport, PortfolioView, GainsReport, FiniteSetTheorems, WellFoundedInduction, TLAPS

-----------------------------------------------------------------------------
(* The sessions *)

\* A row and the rows it stems from.
GrantOK(i) ==
    LET g == grants[i]
        p == grants[i].parent
        f == grants[i].family
    IN /\ g.consent \in DOMAIN consents
       /\ g.at <= now
       /\ g.kind = "code" => f = i /\ p = 0
       /\ g.kind = "pair" =>
            /\ f \in Codes /\ f \in consumed /\ f < i
            /\ grants[f].consent = g.consent
       /\ p # 0 =>
            /\ p \in Pairs /\ p \in consumed /\ p < i
            /\ grants[p].family = f
            /\ usedAt[p] # None
            /\ grants[p].at <= g.at

\* Times are past, and rows not yet inserted have none.
TimesOK ==
    \A i \in Ids :
        /\ usedAt[i] # None => usedAt[i] <= now /\ i \in DOMAIN grants
        /\ consumedAt[i] # None => consumedAt[i] <= now /\ i \in DOMAIN grants

\* A consent that yielded a code can no longer be spent.
SpentOK == \A i \in Codes :
    grants[i].consent \in spent \/ consents[grants[i].consent].expires <= now

\* Only rows past their expiry are deleted.
PurgedOK == \A i \in purged : Expires(i) < now

\* A pair is revoked with its parent, or by a sibling's use after the grace.
RevokedOK == \A j \in Pairs \intersect revoked :
    LET p == grants[j].parent
    IN p # 0 => \/ p \in revoked \union purged
                \/ consumedAt[p] # None /\ now >= consumedAt[p] + Grace

\* What a request has loaded is still so, apart from what may be consumed or revoked.
RequestOK(r) ==
    /\ request[r].op = "consent" => request[r].consent \in DOMAIN consents
    /\ request[r].op \in {"exchange", "rotate"} => request[r].at <= now
    /\ request[r].op = "exchange" =>
          /\ request[r].grant \in Codes
          /\ request[r].scopes = grants[request[r].grant].scopes
    /\ request[r].op = "rotate" =>
          /\ request[r].grant \in Pairs
          /\ request[r].at >= grants[request[r].grant].at

IInv ==
    /\ TypeOK
    /\ \A i \in DOMAIN grants : GrantOK(i)
    /\ TimesOK
    /\ SpentOK
    /\ PurgedOK
    /\ RevokedOK
    /\ \A r \in Requests : RequestOK(r)
    /\ SingleUse
    /\ RetryKeepsScopes
    /\ CutBranchesEnd
    /\ LateUseChooses

-----------------------------------------------------------------------------
(* Rows are only appended *)

LEMMA InsertFacts ==
    ASSUME grants \in Seq(Grant), NEW g \in Grant, MaxGrants \in Nat, Insert(g)
    PROVE  /\ Len(grants) + 1 \in Ids
           /\ Len(grants) + 1 \notin DOMAIN grants
           /\ DOMAIN grants' = DOMAIN grants \union {Len(grants) + 1}
           /\ \A i \in DOMAIN grants : i < Len(grants) + 1 /\ grants'[i] = grants[i]
           /\ grants'[Len(grants) + 1] = g
           /\ grants' \in Seq(Grant)
           /\ Len(grants') <= MaxGrants
  BY DEF Insert, Ids

LEMMA GrantTypes ==
    ASSUME TypeOK, NEW i \in DOMAIN grants
    PROVE  /\ i \in Nat \ {0}
           /\ i \in Ids
           /\ grants[i] \in Grant
           /\ grants[i].kind \in {"code", "pair"}
           /\ grants[i].consent \in Nat
           /\ grants[i].client \in Clients
           /\ grants[i].scopes \in SUBSET Scopes
           /\ grants[i].family \in Nat
           /\ grants[i].parent \in Nat
           /\ grants[i].at \in Nat
           /\ Expires(i) \in Nat
  <1>1. i \in 1..Len(grants) /\ Len(grants) \in Nat /\ MaxGrants \in Nat
    BY BoundAssumption DEF TypeOK
  <1>2. grants[i] \in Grant
    BY DEF TypeOK
  <1>3. Len(grants) <= MaxGrants
    BY DEF TypeOK
  <1>4. i \in Nat \ {0} /\ i \in Ids
    BY <1>1, <1>3 DEF Ids
  <1>5. /\ grants[i].kind \in {"code", "pair"}
        /\ grants[i].consent \in Nat
        /\ grants[i].client \in Clients
        /\ grants[i].scopes \in SUBSET Scopes
        /\ grants[i].family \in Nat
        /\ grants[i].parent \in Nat
        /\ grants[i].at \in Nat
    BY <1>2 DEF Grant
  <1>6. Expires(i) \in Nat
    BY <1>5, TimeAssumption DEF Expires
  <1> QED
    BY <1>2, <1>4, <1>5, <1>6

LEMMA ConsentTypes ==
    ASSUME TypeOK, NEW c \in DOMAIN consents
    PROVE  /\ c \in Nat
           /\ consents[c].client \in Clients
           /\ consents[c].scopes \in SUBSET Scopes
           /\ consents[c].expires \in Nat
  <1>1. c \in Nat /\ consents[c] \in Consent
    BY DEF TypeOK
  <1> QED
    BY <1>1 DEF Consent

-----------------------------------------------------------------------------
(* Types *)

LEMMA TypesInit == Init => TypeOK
  <1> SUFFICES ASSUME Init PROVE TypeOK
    OBVIOUS
  <1>1. Idle \in Request /\ None \in Times
    BY DEF Request, Times
  <1>2. request \in [Requests -> Request]
    BY <1>1 DEF Init
  <1>3. consumedAt \in [Ids -> Times] /\ usedAt \in [Ids -> Times]
    BY <1>1 DEF Init
  <1> QED
    BY <1>2, <1>3, BoundAssumption DEF Init, TypeOK

LEMMA DoneTypes ==
    ASSUME TypeOK, NEW r \in Requests, Done(r)
    PROVE  request' \in [Requests -> Request]
  <1>1. Idle \in Request
    BY DEF Request
  <1> QED
    BY <1>1 DEF TypeOK, Done

LEMMA PurgeTypes ==
    ASSUME TypeOK, PurgeOld
    PROVE  purged' \subseteq DOMAIN grants
  BY DEF TypeOK, PurgeOld

\* Insertion keeps the types of the rows.
LEMMA InsertTypes ==
    ASSUME IInv, NEW g \in Grant, Insert(g)
    PROVE  /\ grants' \in Seq(Grant)
           /\ Len(grants') <= MaxGrants
           /\ DOMAIN grants \subseteq DOMAIN grants'
           /\ \A i \in DOMAIN grants' : grants'[i].kind = "pair" =>
                (i \in consumed <=> consumedAt[i] # None)
  <1>1. grants \in Seq(Grant) /\ MaxGrants \in Nat
    BY BoundAssumption DEF IInv, TypeOK
  <1>2. Len(grants) + 1 \notin consumed /\ consumedAt[Len(grants) + 1] = None
    BY <1>1, InsertFacts DEF IInv, TypeOK, TimesOK
  <1> QED
    BY <1>1, <1>2, InsertFacts DEF IInv, TypeOK

-----------------------------------------------------------------------------
(* Steps that leave the rows of grants alone *)

\* Nonces are only added, and a spent consent is forgotten only once it has expired.
ConsentsGrow ==
    /\ DOMAIN consents \subseteq DOMAIN consents'
    /\ \A c \in DOMAIN consents : consents'[c] = consents[c]
    /\ \A c \in spent \ spent' : consents[c].expires <= now

LEMMA SpentKept ==
    ASSUME IInv, UNCHANGED grants, now' \in Nat, now <= now', ConsentsGrow
    PROVE  SpentOK'
  <1> SUFFICES ASSUME NEW i \in Codes
               PROVE  grants[i].consent \in spent' \/ consents'[grants[i].consent].expires <= now'
    BY DEF SpentOK, Codes
  <1>1. i \in DOMAIN grants /\ TypeOK /\ now \in Nat
    BY DEF IInv, TypeOK, Codes
  <1> DEFINE c == grants[i].consent
  <1>2. c \in DOMAIN consents
    BY <1>1 DEF IInv, GrantOK
  <1>3. consents[c].expires \in Nat
    BY <1>1, <1>2, ConsentTypes
  <1>4. c \in spent \/ consents[c].expires <= now
    BY DEF IInv, SpentOK
  <1>5. consents'[c] = consents[c] /\ (c \in spent \ spent' => consents[c].expires <= now)
    BY <1>2 DEF ConsentsGrow
  <1> QED
    BY <1>1, <1>3, <1>4, <1>5

\* Rows are only inserted, and a mark once set stays set.
RowsGrow ==
    /\ DOMAIN grants \subseteq DOMAIN grants'
    /\ \A i \in DOMAIN grants : grants'[i] = grants[i]
    /\ consumed \subseteq consumed'
    /\ \A i \in DOMAIN grants :
          /\ usedAt[i] # None => usedAt'[i] = usedAt[i]
          /\ consumedAt[i] # None => consumedAt'[i] = consumedAt[i]

LEMMA RequestsKept ==
    ASSUME IInv, NEW r \in Requests, request'[r] \in {request[r], Idle},
           RowsGrow, ConsentsGrow, now' \in Nat, now <= now'
    PROVE  RequestOK(r)'
  <1>1. RequestOK(r)
    BY DEF IInv
  <1> USE DEF RowsGrow
  <1>2. CASE request'[r] = Idle
    BY <1>2 DEF RequestOK, Idle
  <1>3. CASE request'[r] = request[r]
    <2> DEFINE q == request[r]
    <2>1. q.op = "consent" => q.consent \in DOMAIN consents'
      BY <1>1 DEF RequestOK, ConsentsGrow
    <2>2. ASSUME q.grant \in DOMAIN grants
          PROVE  q.grant \in DOMAIN grants' /\ grants'[q.grant] = grants[q.grant]
      BY <2>2
    <2>3. ASSUME q.op = "exchange"
          PROVE  q.grant \in DOMAIN grants' /\ grants'[q.grant].kind = "code"
                 /\ q.scopes = grants'[q.grant].scopes
      BY <1>1, <2>2, <2>3 DEF RequestOK, Codes
    <2>4. ASSUME q.op = "rotate"
          PROVE  q.grant \in DOMAIN grants' /\ grants'[q.grant].kind = "pair"
                 /\ q.at >= grants'[q.grant].at
      BY <1>1, <2>2, <2>4 DEF RequestOK, Pairs
    <2>5. ASSUME q.op \in {"exchange", "rotate"}
          PROVE  q.at <= now'
      <3>1. q \in Request /\ now \in Nat /\ q.at <= now
        BY <1>1, <2>5 DEF IInv, TypeOK, RequestOK
      <3>2. q.at \in Nat
        BY <2>5, <3>1 DEF Request, Idle
      <3> QED
        BY <3>1, <3>2
    <2> QED
      BY <1>3, <2>1, <2>3, <2>4, <2>5 DEF RequestOK, Codes, Pairs
  <1> QED
    BY <1>2, <1>3

LEMMA GrantsKept ==
    ASSUME IInv, RowsGrow, ConsentsGrow, now' \in Nat, now <= now', NEW i \in DOMAIN grants
    PROVE  GrantOK(i)'
  <1>1. GrantOK(i)
    BY DEF IInv
  <1>2. grants'[i] = grants[i] /\ i \in DOMAIN grants'
    BY DEF RowsGrow
  <1> DEFINE f == grants[i].family
             p == grants[i].parent
  <1>3. ASSUME grants[i].kind = "pair"
        PROVE  f \in DOMAIN grants' /\ grants'[f] = grants[f] /\ f \in consumed'
    BY <1>1, <1>3 DEF GrantOK, RowsGrow, Codes
  <1>4. ASSUME p # 0
        PROVE  /\ p \in DOMAIN grants' /\ grants'[p] = grants[p]
               /\ p \in consumed' /\ usedAt'[p] # None
    BY <1>1, <1>4 DEF GrantOK, RowsGrow, Pairs
  <1>5. grants[i].at <= now'
    <2>1. grants[i].at \in Nat /\ now \in Nat
      BY GrantTypes DEF IInv, TypeOK
    <2> QED
      BY <1>1, <2>1 DEF GrantOK
  <1> QED
    BY <1>1, <1>2, <1>3, <1>4, <1>5 DEF GrantOK, ConsentsGrow, Codes, Pairs

LEMMA TimesKept ==
    ASSUME IInv, now' \in Nat, now <= now', DOMAIN grants \subseteq DOMAIN grants',
           \A i \in Ids : usedAt'[i] \in {usedAt[i], now} /\ consumedAt'[i] \in {consumedAt[i], now},
           \A i \in Ids : i \in DOMAIN grants \/ (usedAt'[i] = usedAt[i] /\ consumedAt'[i] = consumedAt[i])
    PROVE  TimesOK'
  <1> SUFFICES ASSUME NEW i \in Ids
               PROVE  /\ usedAt'[i] # None => usedAt'[i] <= now' /\ i \in DOMAIN grants'
                      /\ consumedAt'[i] # None => consumedAt'[i] <= now' /\ i \in DOMAIN grants'
    BY DEF TimesOK
  <1>1. /\ now \in Nat
        /\ usedAt[i] \in Nat \union {None}
        /\ consumedAt[i] \in Nat \union {None}
    BY DEF IInv, TypeOK, Times
  <1>2. /\ usedAt[i] # None => usedAt[i] <= now /\ i \in DOMAIN grants
        /\ consumedAt[i] # None => consumedAt[i] <= now /\ i \in DOMAIN grants
    BY DEF IInv, TimesOK
  <1> QED
    BY <1>1, <1>2

LEMMA PurgedKept ==
    ASSUME IInv, now' \in Nat, now <= now', RowsGrow, PurgeOld \/ UNCHANGED purged
    PROVE  PurgedOK'
  <1> SUFFICES ASSUME NEW i \in purged'
               PROVE  Expires(i)' < now'
    BY DEF PurgedOK
  <1>1. i \in DOMAIN grants /\ TypeOK /\ now \in Nat
    BY DEF IInv, TypeOK, PurgeOld
  <1>2. Expires(i) \in Nat
    BY <1>1, GrantTypes
  <1>3. Expires(i)' = Expires(i)
    BY <1>1 DEF RowsGrow, Expires
  <1>4. Expires(i) < now
    BY <1>1, <1>2, TimeAssumption DEF IInv, PurgedOK, PurgeOld
  <1> QED
    BY <1>1, <1>2, <1>3, <1>4

\* A set of rows that leaves no part of a family behind.
Whole(S) == \A i \in S : i \in DOMAIN grants /\ Stored(i) /\ FamilyOf(i) \subseteq S

\* Revoking whole families, inserting the first row of one and deleting old rows
\* leave the branches of every family as they should be.
LEMMA BranchesKept ==
    ASSUME IInv, now' \in Nat, now <= now', RowsGrow, UNCHANGED <<consumedAt, usedAt>>,
           \A i \in DOMAIN grants' \ DOMAIN grants : grants'[i].parent = 0,
           purged \subseteq purged',
           NEW S, Whole(S), revoked' = revoked \union S
    PROVE  RevokedOK' /\ CutBranchesEnd' /\ LateUseChooses'
  <1>1. now \in Nat /\ TypeOK
    BY DEF IInv, TypeOK
  <1>2. revoked' \subseteq DOMAIN grants
    BY DEF Whole, IInv, TypeOK
  <1>3. RevokedOK'
    <2> SUFFICES ASSUME NEW j \in Pairs', j \in revoked', grants'[j].parent # 0
                 PROVE  \/ grants'[j].parent \in revoked' \union purged'
                        \/ /\ consumedAt'[grants'[j].parent] # None
                           /\ now' >= consumedAt'[grants'[j].parent] + Grace
      BY DEF RevokedOK
    <2> DEFINE p == grants[j].parent
    <2>1. j \in DOMAIN grants /\ grants'[j] = grants[j] /\ j \in Pairs /\ p # 0
      BY <1>2 DEF RowsGrow, Pairs
    <2>2. p \in Pairs /\ grants[p].family = grants[j].family /\ p \in DOMAIN grants
      BY <2>1 DEF IInv, GrantOK, Pairs
    <2>3. CASE j \in revoked
      <3>1. \/ p \in revoked \union purged
            \/ consumedAt[p] # None /\ now >= consumedAt[p] + Grace
        BY <2>1, <2>3 DEF IInv, RevokedOK
      <3>2. p \in Ids /\ consumedAt[p] \in Nat \union {None}
        BY <1>1, <2>2, GrantTypes DEF TypeOK, Times
      <3> QED
        BY <1>1, <2>1, <3>1, <3>2, TimeAssumption
    <2>4. CASE j \in S
      <3>1. p \in FamilyOf(j) \/ p \in purged
        BY <2>1, <2>2 DEF FamilyOf, Stored
      <3> QED
        BY <2>1, <2>4, <3>1 DEF Whole
    <2> QED
      BY <2>3, <2>4
  <1>4. CutBranchesEnd'
    <2> SUFFICES ASSUME NEW i \in Pairs', i \in revoked', NEW j \in ChildrenOf(i)'
                 PROVE  j \in revoked'
      BY DEF CutBranchesEnd
    <2>1. i \in DOMAIN grants /\ grants'[i] = grants[i] /\ i \in Pairs /\ i # 0
      BY <1>1, <1>2, GrantTypes DEF RowsGrow, Pairs
    <2>2. j \in DOMAIN grants' /\ grants'[j].parent = i /\ j \notin purged' /\ grants'[j].kind = "pair"
      BY DEF ChildrenOf, Pairs, Stored
    <2>3. j \in DOMAIN grants /\ grants[j] = grants'[j] /\ j \in Pairs /\ j \in ChildrenOf(i)
      BY <2>1, <2>2 DEF RowsGrow, ChildrenOf, Pairs, Stored
    <2>4. CASE i \in revoked
      BY <2>1, <2>3, <2>4 DEF IInv, CutBranchesEnd
    <2>5. CASE i \in S
      <3>1. grants[i].family = grants[j].family
        BY <2>1, <2>2, <2>3 DEF IInv, GrantOK
      <3> QED
        BY <2>2, <2>3, <2>5, <3>1 DEF Whole, FamilyOf, Stored
    <2> QED
      BY <2>4, <2>5
  <1>5. LateUseChooses'
    <2> SUFFICES ASSUME NEW i \in Pairs', LateUse(i)', (Stored(grants[i].parent))',
                        NEW j \in Pairs' \ {i}, grants'[j].parent = grants'[i].parent
                 PROVE  j \in revoked' \union purged' \/ (usedAt'[j] # None /\ ~LateUse(j)')
      BY DEF LateUseChooses, Chosen
    <2>1. grants'[i].parent # 0 /\ i \in DOMAIN grants'
      BY DEF LateUse, Pairs
    <2>2. /\ i \in DOMAIN grants /\ grants'[i] = grants[i] /\ i \in Pairs
          /\ j \in DOMAIN grants /\ grants'[j] = grants[j] /\ j \in Pairs
      BY <2>1 DEF Pairs, RowsGrow
    <2>3. LateUse(i) /\ Stored(grants[i].parent)
      BY <2>2 DEF LateUse, Stored
    <2>4. j \in revoked \union purged \/ (usedAt[j] # None /\ ~LateUse(j))
      BY <2>2, <2>3 DEF IInv, LateUseChooses, Chosen
    <2>5. LateUse(j)' = LateUse(j)
      BY <2>2 DEF LateUse
    <2> QED
      BY <2>4, <2>5
  <1> QED
    BY <1>3, <1>4, <1>5

\* A step that inserts nothing and uses no pair keeps the invariant.
LEMMA QuietStep ==
    ASSUME IInv, UNCHANGED <<grants, consumed, consumedAt, usedAt>>,
           PurgeOld \/ UNCHANGED purged,
           now' \in Nat, now <= now',
           ConsentsGrow, consents' \in Seq(Consent), spent' \subseteq DOMAIN consents',
           NEW S, Whole(S), revoked' = revoked \union S,
           request' \in [Requests -> Request],
           \A r \in Requests : RequestOK(r)'
    PROVE  IInv'
  <1>1. TypeOK /\ RowsGrow
    BY DEF IInv, RowsGrow
  <1>2. purged \subseteq purged' /\ purged' \subseteq DOMAIN grants
    BY <1>1 DEF PurgeOld, TypeOK
  <1>3. revoked' \subseteq DOMAIN grants
    BY <1>1 DEF Whole, TypeOK
  <1>4. TypeOK'
    BY <1>1, <1>2, <1>3 DEF TypeOK
  <1>5. \A i \in DOMAIN grants' : GrantOK(i)'
    BY <1>1, GrantsKept
  <1>6. TimesOK' /\ SpentOK' /\ PurgedOK'
    BY <1>1, TimesKept, SpentKept, PurgedKept
  <1>7. RevokedOK' /\ CutBranchesEnd' /\ LateUseChooses'
    BY <1>1, <1>2, BranchesKept
  <1>8. SingleUse' /\ RetryKeepsScopes'
    BY DEF IInv, SingleUse, RetryKeepsScopes, Codes, Pairs
  <1> QED
    BY <1>4, <1>5, <1>6, <1>7, <1>8 DEF IInv

LEMMA NothingIsWhole == Whole({})
  BY DEF Whole

LEMMA FamilyIsWhole ==
    ASSUME NEW i \in DOMAIN grants
    PROVE  Whole(FamilyOf(i))
  BY DEF Whole, FamilyOf

LEMMA EverythingIsWhole == Whole({i \in DOMAIN grants : Stored(i)})
  BY DEF Whole, FamilyOf

LEMMA SpentForgets ==
    ASSUME IInv, UNCHANGED consents, Unexpired \subseteq spent'
    PROVE  ConsentsGrow
  <1> SUFFICES ASSUME NEW c \in spent \ spent' PROVE consents[c].expires <= now
    BY DEF ConsentsGrow
  <1>1. c \in DOMAIN consents /\ TypeOK /\ now \in Nat
    BY DEF IInv, TypeOK
  <1>2. consents[c].expires \in Nat /\ ~(consents[c].expires > now)
    BY <1>1, ConsentTypes DEF Unexpired
  <1> QED
    BY <1>1, <1>2

LEMMA RequestsStand ==
    ASSUME IInv, RowsGrow, ConsentsGrow, now' \in Nat, now <= now',
           UNCHANGED request \/ \E r \in Requests : Done(r)
    PROVE  /\ request' \in [Requests -> Request]
           /\ \A r \in Requests : RequestOK(r)'
  <1>1. TypeOK
    BY DEF IInv
  <1>2. \A r \in Requests : request'[r] \in {request[r], Idle}
    BY <1>1 DEF Done, TypeOK
  <1> QED
    BY <1>1, <1>2, RequestsKept, DoneTypes DEF TypeOK

LEMMA TickStep == IInv /\ Tick => IInv'
  <1> SUFFICES ASSUME IInv, Tick PROVE IInv'
    OBVIOUS
  <1>1. TypeOK /\ now \in Nat
    BY DEF IInv, TypeOK
  <1>2. UNCHANGED <<consents, spent, grants, consumed, consumedAt, usedAt, revoked, purged, request>>
        /\ now' = now + 1
    BY DEF Tick, rows, columns
  <1>3. RowsGrow /\ ConsentsGrow
    BY <1>2 DEF RowsGrow, ConsentsGrow
  <1>4. /\ request' \in [Requests -> Request]
        /\ \A r \in Requests : RequestOK(r)'
    BY <1>1, <1>2, <1>3, RequestsStand
  <1> QED
    BY <1>1, <1>2, <1>3, <1>4, NothingIsWhole, QuietStep DEF TypeOK

LEMMA RevokeStep ==
    IInv /\ (RevokeAll \/ \E i \in Ids : Revoke(i)) => IInv'
  <1> SUFFICES ASSUME IInv, RevokeAll \/ \E i \in Ids : Revoke(i) PROVE IInv'
    OBVIOUS
  <1>1. TypeOK /\ now \in Nat
    BY DEF IInv, TypeOK
  <1>2. UNCHANGED <<now, consents, spent, grants, consumed, consumedAt, usedAt, purged, request>>
    BY DEF RevokeAll, Revoke
  <1>3. RowsGrow /\ ConsentsGrow
    BY <1>2 DEF RowsGrow, ConsentsGrow
  <1>4. /\ request' \in [Requests -> Request]
        /\ \A r \in Requests : RequestOK(r)'
    BY <1>1, <1>2, <1>3, RequestsStand
  <1>5. PICK S : Whole(S) /\ revoked' = revoked \union S
    <2>1. CASE RevokeAll
      BY <2>1, EverythingIsWhole DEF RevokeAll
    <2>2. ASSUME NEW i \in Ids, Revoke(i)
          PROVE  \E S : Whole(S) /\ revoked' = revoked \union S
      BY <2>2, FamilyIsWhole DEF Revoke, Pairs
    <2> QED
      BY <2>1, <2>2
  <1> QED
    BY <1>1, <1>2, <1>3, <1>4, <1>5, QuietStep DEF TypeOK

LEMMA AbandonStep ==
    ASSUME NEW r \in Requests, IInv, Abandon(r)
    PROVE  IInv'
  <1>1. TypeOK /\ now \in Nat
    BY DEF IInv, TypeOK
  <1>2. UNCHANGED <<now, consents, spent, grants, consumed, consumedAt, usedAt, revoked, purged>>
    BY DEF Abandon, rows, columns
  <1>3. RowsGrow /\ ConsentsGrow
    BY <1>2 DEF RowsGrow, ConsentsGrow
  <1>4. /\ request' \in [Requests -> Request]
        /\ \A q \in Requests : RequestOK(q)'
    BY <1>1, <1>2, <1>3, RequestsStand DEF Abandon
  <1> QED
    BY <1>1, <1>2, <1>3, <1>4, NothingIsWhole, QuietStep DEF TypeOK

LEMMA BeginConsentStep ==
    ASSUME NEW client \in Clients, NEW scopes \in SUBSET Scopes,
           IInv, BeginConsent(client, scopes)
    PROVE  IInv'
  <1>1. TypeOK /\ now \in Nat
    BY DEF IInv, TypeOK
  <1>2. UNCHANGED <<now, spent, grants, consumed, consumedAt, usedAt, revoked, purged, request>>
    BY DEF BeginConsent, rows, columns
  <1> DEFINE g == [client |-> client, scopes |-> scopes, expires |-> now + ConsentTTL]
  <1>3. g \in Consent
    BY <1>1, TimeAssumption DEF Consent
  <1>4. consents' = Append(consents, g) /\ consents \in Seq(Consent)
    BY <1>1 DEF BeginConsent, TypeOK
  <1> HIDE DEF g
  <1>5. /\ consents' \in Seq(Consent)
        /\ DOMAIN consents \subseteq DOMAIN consents'
        /\ \A c \in DOMAIN consents : consents'[c] = consents[c]
    BY <1>3, <1>4
  <1>6. RowsGrow /\ ConsentsGrow
    BY <1>2, <1>5 DEF RowsGrow, ConsentsGrow
  <1>7. /\ request' \in [Requests -> Request]
        /\ \A r \in Requests : RequestOK(r)'
    BY <1>1, <1>2, <1>6, RequestsStand
  <1>8. spent' \subseteq DOMAIN consents'
    BY <1>1, <1>2, <1>5 DEF TypeOK
  <1> QED
    BY <1>1, <1>2, <1>5, <1>6, <1>7, <1>8, NothingIsWhole, QuietStep

\* A step that only loads something into a request.
LEMMA LoadStep ==
    ASSUME IInv, NEW r \in Requests, NEW q \in Request,
           request' = [request EXCEPT ![r] = q],
           UNCHANGED <<now, consents, spent, rows>>,
           RequestOK(r)'
    PROVE  IInv'
  <1>1. TypeOK /\ now \in Nat
    BY DEF IInv, TypeOK
  <1>2. UNCHANGED <<now, consents, spent, grants, consumed, consumedAt, usedAt, revoked, purged>>
    BY DEF rows, columns
  <1>3. RowsGrow /\ ConsentsGrow
    BY <1>2 DEF RowsGrow, ConsentsGrow
  <1>4. request' \in [Requests -> Request]
    BY <1>1 DEF TypeOK
  <1>5. ASSUME NEW s \in Requests, s # r
        PROVE  RequestOK(s)'
    <2>1. request'[s] = request[s]
      BY <1>1, <1>5 DEF TypeOK
    <2> QED
      BY <1>1, <1>2, <1>3, <2>1, RequestsKept
  <1> QED
    BY <1>1, <1>2, <1>3, <1>4, <1>5, NothingIsWhole, QuietStep DEF TypeOK

LEMMA CheckConsentStep ==
    ASSUME NEW r \in Requests, NEW c \in 1..MaxConsents, IInv, CheckConsent(r, c)
    PROVE  IInv'
  <1> DEFINE q == [op |-> "consent", consent |-> c]
  <1>1. q \in Request
    BY BoundAssumption DEF Request
  <1>2. request' = [request EXCEPT ![r] = q] /\ UNCHANGED <<now, consents, spent, rows>>
        /\ c \in DOMAIN consents
    BY DEF CheckConsent
  <1>3. request'[r] = q
    BY <1>2 DEF IInv, TypeOK
  <1>4. RequestOK(r)'
    BY <1>2, <1>3 DEF RequestOK
  <1> HIDE DEF q
  <1> QED
    BY <1>1, <1>2, <1>4, LoadStep

LEMMA BeginExchangeStep ==
    ASSUME NEW r \in Requests, NEW i \in Ids, NEW client \in Clients,
           IInv, BeginExchange(r, i, client)
    PROVE  IInv'
  <1> DEFINE q == [op |-> "exchange", grant |-> i, client |-> client,
                   scopes |-> grants[i].scopes, at |-> now]
  <1>1. i \in Codes /\ i \in DOMAIN grants /\ now \in Nat /\ TypeOK
    BY DEF BeginExchange, IInv, TypeOK, Codes
  <1>2. grants[i].scopes \in SUBSET Scopes
    BY <1>1, GrantTypes
  <1>3. q \in Request
    BY <1>1, <1>2 DEF Request
  <1>4. request' = [request EXCEPT ![r] = q] /\ UNCHANGED <<now, consents, spent, rows>>
    BY DEF BeginExchange
  <1>5. request'[r] = q
    BY <1>1, <1>4 DEF TypeOK
  <1>6. RequestOK(r)'
    BY <1>1, <1>4, <1>5 DEF RequestOK, Codes, rows
  <1> HIDE DEF q
  <1> QED
    BY <1>3, <1>4, <1>6, LoadStep

\* The family of a row presented by the wrong client or again too late.
LEMMA CondemnedStep ==
    ASSUME IInv, NEW i \in DOMAIN grants, revoked' = revoked \union FamilyOf(i),
           UNCHANGED <<now, consents, spent, grants, consumed, consumedAt, usedAt, purged>>,
           UNCHANGED request \/ \E r \in Requests : Done(r)
    PROVE  IInv'
  <1>1. TypeOK /\ now \in Nat
    BY DEF IInv, TypeOK
  <1>2. RowsGrow /\ ConsentsGrow
    BY DEF RowsGrow, ConsentsGrow
  <1>3. /\ request' \in [Requests -> Request]
        /\ \A q \in Requests : RequestOK(q)'
    BY <1>1, <1>2, RequestsStand
  <1> QED
    BY <1>1, <1>2, <1>3, FamilyIsWhole, QuietStep DEF TypeOK

LEMMA LoadRefreshStep ==
    ASSUME NEW r \in Requests, NEW i \in Ids, NEW client \in Clients, NEW scopes \in SUBSET Scopes,
           IInv, LoadRefresh(r, i, client, scopes)
    PROVE  IInv'
  <1>1. /\ i \in Pairs /\ i \in DOMAIN grants /\ now \in Nat /\ TypeOK
        /\ UNCHANGED <<now, consents, spent, grants, consumed, consumedAt, usedAt, purged>>
    BY DEF LoadRefresh, IInv, TypeOK, Pairs
  <1>2. CASE Condemns(i, client) /\ revoked' = revoked \union FamilyOf(i) /\ UNCHANGED request
    BY <1>1, <1>2, CondemnedStep
  <1>3. CASE /\ Allowed(i, client)
             /\ request' = [request EXCEPT ![r] = [op |-> "rotate", grant |-> i, client |-> client,
                                                   scopes |-> scopes, at |-> now]]
             /\ UNCHANGED revoked
    <2> DEFINE q == [op |-> "rotate", grant |-> i, client |-> client, scopes |-> scopes, at |-> now]
    <2>1. q \in Request
      BY <1>1 DEF Request
    <2>2. request'[r] = q
      BY <1>1, <1>3 DEF TypeOK
    <2>3. grants[i].at \in Nat /\ grants[i].at <= now
      <3>1. grants[i].at \in Nat
        BY <1>1, GrantTypes
      <3> QED
        BY <1>1, <3>1 DEF IInv, GrantOK
    <2>4. RequestOK(r)'
      BY <1>1, <2>2, <2>3 DEF RequestOK, Pairs
    <2>5. UNCHANGED rows
      BY <1>1, <1>3 DEF rows, columns
    <2>6. request' = [request EXCEPT ![r] = q]
      BY <1>3
    <2> HIDE DEF q
    <2> QED
      BY <1>1, <2>1, <2>4, <2>5, <2>6, LoadStep
  <1> QED
    BY <1>2, <1>3 DEF LoadRefresh

LEMMA DenyConsentStep ==
    ASSUME NEW r \in Requests, IInv, DenyConsent(r)
    PROVE  IInv'
  <1>1. TypeOK /\ now \in Nat
    BY DEF IInv, TypeOK
  <1>2. /\ UNCHANGED <<now, consents, grants, consumed, consumedAt, usedAt, revoked>>
        /\ PurgeOld \/ UNCHANGED purged
        /\ Unexpired \subseteq spent'
        /\ Done(r)
    BY DEF DenyConsent, columns
  <1>3. RowsGrow /\ ConsentsGrow
    BY <1>2, SpentForgets DEF RowsGrow
  <1>4. /\ request' \in [Requests -> Request]
        /\ \A q \in Requests : RequestOK(q)'
    BY <1>1, <1>2, <1>3, RequestsStand
  <1>5. request[r].consent \in DOMAIN consents
    BY DEF IInv, RequestOK, DenyConsent
  <1>6. spent' \subseteq DOMAIN consents'
    BY <1>1, <1>2, <1>5 DEF DenyConsent, Unexpired, TypeOK
  <1> QED
    BY <1>1, <1>2, <1>3, <1>4, <1>6, NothingIsWhole, QuietStep DEF TypeOK

-----------------------------------------------------------------------------
(* Steps that insert a row *)

\* What the insertion of g does to the rows, whatever g is.
LEMMA InsertGrows ==
    ASSUME IInv, NEW g \in Grant, Insert(g), consumed \subseteq consumed',
           \A i \in DOMAIN grants : /\ usedAt[i] # None => usedAt'[i] = usedAt[i]
                                    /\ consumedAt[i] # None => consumedAt'[i] = consumedAt[i]
    PROVE  /\ RowsGrow
           /\ grants' \in Seq(Grant) /\ Len(grants') <= MaxGrants
           /\ DOMAIN grants' = DOMAIN grants \union {Len(grants) + 1}
           /\ Len(grants) + 1 \in Ids
           /\ Len(grants) + 1 \notin DOMAIN grants
           /\ \A i \in DOMAIN grants : i < Len(grants) + 1
           /\ grants'[Len(grants) + 1] = g
  <1>1. grants \in Seq(Grant) /\ MaxGrants \in Nat
    BY BoundAssumption DEF IInv, TypeOK
  <1> QED
    BY <1>1, InsertFacts DEF RowsGrow

\* A code, or the first pair of its family.
LEMMA FirstRowStep ==
    ASSUME IInv, NEW g \in Grant, Insert(g), g.parent = 0, NEW n, n = Len(grants) + 1,
           UNCHANGED <<now, consents, consumedAt, usedAt, revoked>>,
           PurgeOld, NEW r \in Requests, Done(r),
           spent' \subseteq DOMAIN consents, Unexpired \subseteq spent',
           consumed \subseteq consumed', consumed' \subseteq consumed \union Codes,
           GrantOK(n)', SpentOK', SingleUse'
    PROVE  IInv'
  <1>1. TypeOK /\ now \in Nat /\ now' = now
    BY DEF IInv, TypeOK
  <1>2. /\ RowsGrow
        /\ grants' \in Seq(Grant) /\ Len(grants') <= MaxGrants
        /\ DOMAIN grants' = DOMAIN grants \union {n}
        /\ n \in Ids /\ n \notin DOMAIN grants
        /\ \A i \in DOMAIN grants : i < n
        /\ grants'[n] = g
    BY InsertGrows
  <1>3. ConsentsGrow
    BY SpentForgets
  <1>4. purged \subseteq purged' /\ purged' \subseteq DOMAIN grants
    BY <1>1, PurgeTypes DEF PurgeOld
  <1>5. TypeOK'
    <2>1. request' \in [Requests -> Request]
      BY <1>1, DoneTypes
    <2>2. ASSUME NEW i \in DOMAIN grants', grants'[i].kind = "pair"
          PROVE  i \in consumed' <=> consumedAt'[i] # None
      <3>1. CASE i \in DOMAIN grants
        BY <1>1, <1>2, <2>2, <3>1 DEF TypeOK, RowsGrow, Codes
      <3>2. CASE i = n
        <4>1. n \notin consumed /\ n \notin Codes /\ consumedAt[n] = None
          BY <1>1, <1>2 DEF IInv, TypeOK, TimesOK, Codes
        <4> QED
          BY <3>2, <4>1
      <3> QED
        BY <1>2, <3>1, <3>2
    <2>3. consumed' \subseteq DOMAIN grants' /\ revoked' \subseteq DOMAIN grants'
      BY <1>1, <1>2 DEF TypeOK, Codes
    <2> QED
      BY <1>1, <1>2, <1>4, <2>1, <2>2, <2>3 DEF TypeOK
  <1>6. \A i \in DOMAIN grants' : GrantOK(i)'
    BY <1>1, <1>2, <1>3, GrantsKept
  <1>7. TimesOK' /\ PurgedOK'
    BY <1>1, <1>2, TimesKept, PurgedKept
  <1>8. RevokedOK' /\ CutBranchesEnd' /\ LateUseChooses'
    BY <1>1, <1>2, <1>4, NothingIsWhole, BranchesKept
  <1>9. \A q \in Requests : RequestOK(q)'
    BY <1>1, <1>2, <1>3, RequestsStand
  <1>10. RetryKeepsScopes'
    <2> SUFFICES ASSUME NEW i \in Pairs', NEW j \in Pairs',
                        i < j, grants'[i].parent # 0, grants'[i].parent = grants'[j].parent
                 PROVE  grants'[j].scopes \subseteq grants'[i].scopes
      BY DEF RetryKeepsScopes
    <2>1. i \in DOMAIN grants /\ j \in DOMAIN grants
      BY <1>2 DEF Pairs
    <2>2. i \in Pairs /\ j \in Pairs /\ grants'[i] = grants[i] /\ grants'[j] = grants[j]
      BY <1>2, <2>1 DEF Pairs, RowsGrow
    <2> QED
      BY <2>2 DEF IInv, RetryKeepsScopes
  <1> QED
    BY <1>5, <1>6, <1>7, <1>8, <1>9, <1>10 DEF IInv

LEMMA ApproveConsentStep ==
    ASSUME NEW r \in Requests, IInv, ApproveConsent(r)
    PROVE  IInv'
  <1>0. PICK c, n : c = request[r].consent /\ n = Len(grants) + 1
    OBVIOUS
  <1>1. TypeOK /\ now \in Nat /\ now' = now
    BY DEF IInv, TypeOK, ApproveConsent
  <1>2. c \in DOMAIN consents
    BY <1>0 DEF IInv, RequestOK, ApproveConsent
  <1>3. UNCHANGED <<consents, consumed, consumedAt, usedAt, revoked>> /\ Done(r)
    BY DEF ApproveConsent, columns
  <1>4. Unexpired \subseteq spent' /\ spent' \subseteq DOMAIN consents
    BY <1>0, <1>1, <1>2 DEF ApproveConsent, Unexpired, TypeOK
  <1>5. ConsentsGrow
    BY <1>3, <1>4, SpentForgets
  <1>6. CASE ~Spendable(c)
    <2>1. UNCHANGED <<grants, purged>>
      BY <1>0, <1>6 DEF ApproveConsent
    <2>2. RowsGrow
      BY <1>3, <2>1 DEF RowsGrow
    <2>3. /\ request' \in [Requests -> Request]
          /\ \A q \in Requests : RequestOK(q)'
      BY <1>1, <1>3, <1>5, <2>2, RequestsStand
    <2> QED
      BY <1>1, <1>3, <1>4, <1>5, <2>1, <2>3, NothingIsWhole, QuietStep DEF TypeOK
  <1>7. CASE Spendable(c)
    <2>0. PICK g : g = [kind |-> "code", consent |-> c, client |-> consents[c].client,
                        scopes |-> consents[c].scopes, family |-> n, parent |-> 0, at |-> now]
      OBVIOUS
    <2>1. Insert(g) /\ spent' = Unexpired \union {c} /\ PurgeOld
      BY <1>0, <1>7, <2>0 DEF ApproveConsent
    <2>2. n \in Nat /\ grants \in Seq(Grant)
      BY <1>0, <1>1 DEF TypeOK
    <2>3. g \in Grant
      BY <1>1, <1>2, <2>0, <2>2, ConsentTypes DEF Grant
    <2>4. g.kind = "code" /\ g.consent = c /\ g.family = n /\ g.parent = 0 /\ g.at = now
      BY <2>0
    <2>5. /\ RowsGrow
          /\ DOMAIN grants' = DOMAIN grants \union {n}
          /\ n \notin DOMAIN grants
          /\ grants'[n] = g
      BY <1>0, <1>3, <2>1, <2>3, InsertGrows
    <2>6. GrantOK(n)'
      BY <1>1, <1>2, <1>3, <2>4, <2>5 DEF GrantOK
    <2>7. ASSUME NEW i \in Codes
          PROVE  grants[i].consent # c
      <3>1. consents[c].expires \in Nat /\ consents[c].expires > now /\ c \notin spent
        BY <1>2, <1>1, <1>7, ConsentTypes DEF Spendable, Unexpired
      <3> QED
        BY <1>1, <3>1 DEF IInv, SpentOK
    <2>8. SpentOK'
      <3> SUFFICES ASSUME NEW i \in Codes'
                   PROVE  \/ grants'[i].consent \in spent'
                          \/ consents'[grants'[i].consent].expires <= now'
        BY DEF SpentOK
      <3>1. CASE i = n
        BY <2>1, <2>4, <2>5, <3>1
      <3>2. CASE i \in DOMAIN grants
        <4>1. i \in Codes /\ grants'[i] = grants[i]
          BY <2>5, <3>2 DEF RowsGrow, Codes
        <4>2. grants[i].consent \in DOMAIN consents
          BY <3>2 DEF IInv, GrantOK
        <4> QED
          BY <1>1, <1>3, <1>5, <4>1, <4>2 DEF IInv, SpentOK, ConsentsGrow
      <3> QED
        BY <2>5, <3>1, <3>2 DEF Codes
    <2>9. SingleUse'
      <3>1. \A i \in Codes' : (i = n /\ grants'[i].consent = c)
                               \/ (i \in Codes /\ grants'[i] = grants[i])
        BY <2>4, <2>5 DEF Codes, RowsGrow
      <3>2. \A i \in Pairs' : i \in Pairs /\ grants'[i] = grants[i]
        BY <2>4, <2>5 DEF Pairs, RowsGrow
      <3>3. \A i, j \in Codes' : grants'[i].consent = grants'[j].consent => i = j
        BY <2>7, <3>1 DEF IInv, SingleUse
      <3>4. \A i, j \in Pairs' :
              grants'[i].parent = 0 /\ grants'[j].parent = 0 /\ grants'[i].family = grants'[j].family => i = j
        BY <3>2 DEF IInv, SingleUse
      <3> QED
        BY <3>3, <3>4 DEF SingleUse
    <2>10. consumed \subseteq consumed' /\ consumed' \subseteq consumed \union Codes
      BY <1>3
    <2> QED
      BY <1>0, <1>1, <1>3, <1>4, <2>1, <2>3, <2>4, <2>6, <2>8, <2>9, <2>10, FirstRowStep
  <1> QED
    BY <1>6, <1>7

LEMMA RequestTypes ==
    ASSUME TypeOK, NEW r \in Requests, request[r].op \in {"exchange", "rotate"}
    PROVE  /\ request[r].grant \in Ids
           /\ request[r].client \in Clients
           /\ request[r].scopes \in SUBSET Scopes
           /\ request[r].at \in Nat
  <1>1. request[r] \in Request
    BY DEF TypeOK
  <1> QED
    BY <1>1 DEF Request, Idle

LEMMA CommitExchangeStep ==
    ASSUME NEW r \in Requests, IInv, CommitExchange(r)
    PROVE  IInv'
  <1>0. PICK i, n : i = request[r].grant /\ n = Len(grants) + 1
    OBVIOUS
  <1>1. TypeOK /\ now \in Nat /\ now' = now
    BY DEF IInv, TypeOK, CommitExchange
  <1>2. /\ i \in Codes /\ i \in DOMAIN grants
        /\ request[r].scopes = grants[i].scopes
        /\ request[r].at <= now
    BY <1>0 DEF IInv, RequestOK, CommitExchange, Codes
  <1>3. UNCHANGED <<consents, consumedAt, usedAt, revoked>> /\ Done(r) /\ spent' = Unexpired
    BY DEF CommitExchange
  <1>4. Unexpired \subseteq spent' /\ spent' \subseteq DOMAIN consents
    BY <1>1, <1>3 DEF Unexpired, TypeOK
  <1>5. ConsentsGrow
    BY <1>3, <1>4, SpentForgets
  <1>6. CASE ~Consumable(i)
    <2>1. UNCHANGED <<grants, consumed, purged>>
      BY <1>0, <1>6 DEF CommitExchange
    <2>2. RowsGrow
      BY <1>3, <2>1 DEF RowsGrow
    <2>3. /\ request' \in [Requests -> Request]
          /\ \A q \in Requests : RequestOK(q)'
      BY <1>1, <1>3, <1>5, <2>2, RequestsStand
    <2> QED
      BY <1>1, <1>3, <1>4, <1>5, <2>1, <2>3, NothingIsWhole, QuietStep DEF TypeOK
  <1>7. CASE Consumable(i)
    <2>0. PICK g : g = [kind |-> "pair", consent |-> grants[i].consent, client |-> request[r].client,
                        scopes |-> request[r].scopes, family |-> grants[i].family,
                        parent |-> 0, at |-> request[r].at]
      OBVIOUS
    <2>1. Insert(g) /\ consumed' = consumed \union {i} /\ PurgeOld
      BY <1>0, <1>7, <2>0 DEF CommitExchange
    <2>2. g \in Grant
      BY <1>1, <1>2, <2>0, GrantTypes, RequestTypes DEF Grant, CommitExchange
    <2>3. grants[i].family = i /\ grants[i].consent \in DOMAIN consents
      BY <1>2 DEF IInv, GrantOK, Codes
    <2>4. /\ g.kind = "pair" /\ g.consent = grants[i].consent /\ g.family = i
          /\ g.parent = 0 /\ g.at <= now
      BY <1>2, <2>0, <2>3
    <2>5. /\ RowsGrow
          /\ DOMAIN grants' = DOMAIN grants \union {n}
          /\ n \notin DOMAIN grants
          /\ \A k \in DOMAIN grants : k < n
          /\ grants'[n] = g
      BY <1>0, <1>3, <2>1, <2>2, InsertGrows
    <2>6. i \in DOMAIN grants' /\ grants'[i] = grants[i] /\ grants[i].kind = "code" /\ i < n
      BY <1>2, <2>5 DEF RowsGrow, Codes
    <2>7. GrantOK(n)'
      BY <1>1, <1>3, <2>1, <2>3, <2>4, <2>5, <2>6 DEF GrantOK, Codes
    <2>8. ASSUME NEW k \in Codes'
          PROVE  k \in Codes /\ grants'[k] = grants[k]
      BY <2>4, <2>5 DEF Codes, RowsGrow
    <2>9. SpentOK'
      <3> SUFFICES ASSUME NEW k \in Codes'
                   PROVE  \/ grants'[k].consent \in spent'
                          \/ consents'[grants'[k].consent].expires <= now'
        BY DEF SpentOK
      <3>1. k \in Codes /\ grants'[k] = grants[k]
        BY <2>8
      <3>2. grants[k].consent \in DOMAIN consents
        BY <3>1 DEF IInv, GrantOK, Codes
      <3> QED
        BY <1>1, <1>3, <1>5, <3>1, <3>2 DEF IInv, SpentOK, ConsentsGrow
    <2>10. SingleUse'
      <3>1. \A k \in Pairs' : k = n \/ (k \in Pairs /\ grants'[k] = grants[k])
        BY <2>5 DEF Pairs, RowsGrow
      <3>2. ASSUME NEW k \in Pairs
            PROVE  grants[k].family # i
        <4>1. grants[k].family \in consumed
          BY DEF IInv, GrantOK, Pairs
        <4> QED
          BY <1>7, <4>1 DEF Consumable
      <3>3. \A k, l \in Codes' : grants'[k].consent = grants'[l].consent => k = l
        BY <2>8 DEF IInv, SingleUse
      <3>4. \A k, l \in Pairs' :
              grants'[k].parent = 0 /\ grants'[l].parent = 0 /\ grants'[k].family = grants'[l].family => k = l
        BY <2>4, <2>5, <3>1, <3>2 DEF IInv, SingleUse
      <3> QED
        BY <3>3, <3>4 DEF SingleUse
    <2> QED
      BY <1>0, <1>1, <1>2, <1>3, <1>4, <2>1, <2>2, <2>4, <2>7, <2>9, <2>10, FirstRowStep
  <1> QED
    BY <1>6, <1>7

-----------------------------------------------------------------------------
(* Steps that use a pair *)

\* The parent of a row is a consumed, used pair inserted before it.
LEMMA ParentFacts ==
    ASSUME IInv, NEW j \in DOMAIN grants, grants[j].parent # 0
    PROVE  /\ grants[j].parent \in Pairs
           /\ grants[j].parent \in DOMAIN grants
           /\ grants[j].parent \in Ids
           /\ grants[j].parent < j /\ grants[j].parent # j
           /\ grants[j].parent \in consumed
           /\ consumedAt[grants[j].parent] \in Nat
           /\ usedAt[grants[j].parent] # None
  <1> DEFINE p == grants[j].parent
  <1>1. TypeOK /\ GrantOK(j) /\ j \in Nat
    BY GrantTypes DEF IInv
  <1>2. p \in Pairs /\ p \in consumed /\ p < j /\ usedAt[p] # None
    BY <1>1 DEF GrantOK
  <1>3. p \in DOMAIN grants /\ grants[p].kind = "pair"
    BY <1>2 DEF Pairs
  <1>4. p \in Ids /\ p \in Nat
    BY <1>1, <1>3, GrantTypes
  <1>5. consumedAt[p] \in Nat
    BY <1>1, <1>2, <1>3, <1>4 DEF TypeOK, Times
  <1> QED
    BY <1>1, <1>2, <1>3, <1>4, <1>5

LEMMA BranchesUsed ==
    ASSUME IInv, now' = now, RowsGrow, purged \subseteq purged',
           NEW i \in Pairs, Stored(i), i \notin revoked,
           MarkUsed(i), revoked' = revoked \union Losers(i),
           \A k \in DOMAIN grants' \ DOMAIN grants :
                grants'[k].parent = i /\ usedAt'[k] = None /\ ~LateReplay(i)
    PROVE  RevokedOK' /\ CutBranchesEnd' /\ LateUseChooses'
  <1>1. /\ now \in Nat /\ TypeOK /\ i \in DOMAIN grants /\ i \in Ids
        /\ usedAt \in [Ids -> Times] /\ usedAt[i] \in Times
    BY GrantTypes DEF IInv, TypeOK, Pairs
  <1>2. revoked' \subseteq DOMAIN grants
    BY <1>1 DEF Losers, ChildrenOf, Pairs, TypeOK
  <1>3. \A k \in DOMAIN grants : k # i => usedAt'[k] = usedAt[k]
    BY <1>1, GrantTypes DEF MarkUsed
  <1>4. usedAt'[i] = (IF usedAt[i] = None THEN now ELSE usedAt[i])
    BY <1>1 DEF MarkUsed
  <1>5. ASSUME NEW j \in DOMAIN grants, grants[j].parent # 0
        PROVE  consumedAt'[grants[j].parent] = consumedAt[grants[j].parent]
    BY <1>5, ParentFacts, NoneAssumption DEF RowsGrow
  <1>6. RevokedOK'
    <2> SUFFICES ASSUME NEW j \in Pairs', j \in revoked', grants'[j].parent # 0
                 PROVE  \/ grants'[j].parent \in revoked' \union purged'
                        \/ /\ consumedAt'[grants'[j].parent] # None
                           /\ now' >= consumedAt'[grants'[j].parent] + Grace
      BY DEF RevokedOK
    <2>1. j \in DOMAIN grants /\ grants'[j] = grants[j] /\ j \in Pairs
      BY <1>2 DEF RowsGrow, Pairs
    <2>2. CASE j \in revoked
      BY <1>5, <2>1, <2>2 DEF IInv, RevokedOK
    <2>3. CASE j \in Losers(i)
      BY <1>5, <2>1, <2>3 DEF Losers, ChildrenOf
    <2> QED
      BY <2>2, <2>3
  <1>7. CutBranchesEnd'
    <2> SUFFICES ASSUME NEW k \in Pairs', k \in revoked', NEW j \in ChildrenOf(k)'
                 PROVE  j \in revoked'
      BY DEF CutBranchesEnd
    <2>1. k \in DOMAIN grants /\ k \in Pairs /\ k # 0
      BY <1>1, <1>2, GrantTypes DEF RowsGrow, Pairs
    <2>2. j \in DOMAIN grants' /\ grants'[j].parent = k /\ j \notin purged' /\ grants'[j].kind = "pair"
      BY DEF ChildrenOf, Pairs, Stored
    <2>3. k # i
      BY DEF Losers
    <2>4. j \in DOMAIN grants /\ grants[j] = grants'[j] /\ j \in Pairs /\ j \in ChildrenOf(k)
      BY <2>2, <2>3 DEF RowsGrow, ChildrenOf, Pairs, Stored
    <2>5. usedAt[k] # None
      BY <2>1, <2>2, <2>4, ParentFacts
    <2>6. k \in revoked
      BY <2>5 DEF Losers
    <2> QED
      BY <2>1, <2>4, <2>6 DEF IInv, CutBranchesEnd
  <1>8. ASSUME NEW j \in DOMAIN grants, usedAt'[j] = usedAt[j]
        PROVE  LateUse(j)' <=> LateUse(j)
    <2>1. grants'[j] = grants[j]
      BY DEF RowsGrow
    <2> QED
      BY <1>5, <1>8, <2>1 DEF LateUse
  <1>9. LateUseChooses'
    <2> SUFFICES ASSUME NEW k \in Pairs', LateUse(k)', (Stored(grants[k].parent))',
                        NEW j \in Pairs' \ {k}, grants'[j].parent = grants'[k].parent
                 PROVE  j \in revoked' \union purged' \/ (usedAt'[j] # None /\ ~LateUse(j)')
      BY DEF LateUseChooses, Chosen
    <2>1. PICK p : p = grants'[k].parent
      OBVIOUS
    <2>2. /\ usedAt'[k] # None /\ p # 0 /\ consumedAt'[p] # None
          /\ usedAt'[k] >= consumedAt'[p] + Grace
          /\ p \notin purged' /\ p \notin purged
      BY <2>1 DEF LateUse, Stored
    <2>3. k \in DOMAIN grants
      BY <2>2 DEF Pairs
    <2>4. k \in Pairs /\ grants'[k] = grants[k] /\ grants[k].parent = p
      BY <2>1, <2>3 DEF Pairs, RowsGrow
    <2>5. consumedAt'[p] = consumedAt[p] /\ consumedAt[p] \in Nat /\ p \in consumed
      BY <1>5, <2>2, <2>3, <2>4, ParentFacts
    <2>6. CASE j \notin DOMAIN grants
      <3>1. p = i /\ ~LateReplay(i)
        BY <2>1, <2>6 DEF Pairs
      <3>2. k # i
        BY <2>2, <2>3, <2>4, <3>1, ParentFacts
      <3>3. usedAt[k] # None /\ usedAt[k] >= consumedAt[i] + Grace
        BY <1>3, <2>2, <2>3, <2>5, <3>1, <3>2
      <3>4. usedAt[k] \in Nat /\ usedAt[k] <= now
        BY <1>1, <2>3, <3>3, GrantTypes DEF IInv, TimesOK, TypeOK, Times
      <3>5. now >= consumedAt[i] + Grace
        BY <1>1, <2>5, <3>1, <3>3, <3>4, TimeAssumption
      <3> QED
        BY <2>5, <3>1, <3>5 DEF LateReplay
    <2>7. CASE j \in DOMAIN grants
      <3>1. j \in Pairs /\ grants'[j] = grants[j] /\ grants[j].parent = p /\ j # k
        BY <2>1, <2>7 DEF Pairs, RowsGrow
      <3>2. CASE k # i \/ usedAt[i] # None
        <4>1. usedAt'[k] = usedAt[k]
          BY <1>3, <1>4, <2>3, <3>2
        <4>2. LateUse(k) /\ Stored(grants[k].parent)
          BY <1>8, <2>2, <2>3, <2>4, <4>1 DEF Stored
        <4>3. j \in revoked \union purged \/ (usedAt[j] # None /\ ~LateUse(j))
          BY <2>4, <3>1, <4>2 DEF IInv, LateUseChooses, Chosen
        <4>4. usedAt[j] # None => usedAt'[j] = usedAt[j]
          BY <2>7 DEF RowsGrow
        <4> QED
          BY <1>8, <2>7, <4>3, <4>4
      <3>3. CASE k = i /\ usedAt[i] = None
        <4>1. now >= consumedAt[p] + Grace /\ j # i /\ usedAt'[j] = usedAt[j]
          BY <1>3, <1>4, <2>2, <2>5, <2>7, <3>1, <3>3
        <4>2. CASE usedAt[j] = None /\ j \notin purged
          <5>1. grants[i].parent = p /\ consumedAt[p] # None
            BY <2>4, <2>5, <3>3, NoneAssumption
          <5>2. j \in ChildrenOf(p)
            BY <3>1, <4>2 DEF ChildrenOf, Stored
          <5>3. j \in Losers(i)
            BY <2>2, <2>7, <4>1, <4>2, <5>1, <5>2 DEF Losers
          <5> QED
            BY <5>3
        <4>3. ASSUME usedAt[j] # None, LateUse(j)
              PROVE  FALSE
          BY <2>2, <2>4, <3>1, <3>3, <4>1, <4>3 DEF IInv, LateUseChooses, Chosen, Stored
        <4> QED
          BY <1>8, <2>7, <4>1, <4>2, <4>3
      <3> QED
        BY <3>2, <3>3
    <2> QED
      BY <2>6, <2>7
  <1> QED
    BY <1>6, <1>7, <1>9

LEMMA MarkFacts ==
    ASSUME TypeOK, NEW i \in Ids, MarkUsed(i)
    PROVE  /\ usedAt' \in [Ids -> Times]
           /\ usedAt'[i] # None
           /\ \A k \in Ids : usedAt[k] # None => usedAt'[k] = usedAt[k]
           /\ \A k \in Ids : usedAt'[k] \in {usedAt[k], now}
           /\ \A k \in Ids : k # i => usedAt'[k] = usedAt[k]
  BY NoneAssumption DEF TypeOK, MarkUsed, Times

LEMMA StampFacts ==
    ASSUME TypeOK, NEW i \in Ids, Stamp(i)
    PROVE  /\ consumedAt' \in [Ids -> Times]
           /\ consumedAt'[i] # None
           /\ \A k \in Ids : consumedAt[k] # None => consumedAt'[k] = consumedAt[k]
           /\ \A k \in Ids : consumedAt'[k] \in {consumedAt[k], now}
           /\ \A k \in Ids : k # i => consumedAt'[k] = consumedAt[k]
  BY NoneAssumption DEF TypeOK, Stamp, Times

LEMMA UseAccessStep ==
    ASSUME NEW i \in Ids, IInv, UseAccess(i)
    PROVE  IInv'
  <1>1. TypeOK /\ now \in Nat /\ now' = now
    BY DEF IInv, TypeOK, UseAccess
  <1>2. /\ i \in Pairs /\ i \in DOMAIN grants /\ Stored(i) /\ i \notin revoked
        /\ MarkUsed(i) /\ revoked' = revoked \union Losers(i)
        /\ UNCHANGED <<consents, spent, grants, consumed, consumedAt, purged, request>>
    BY DEF UseAccess, Pairs
  <1>3. RowsGrow /\ ConsentsGrow
    BY <1>1, <1>2, MarkFacts, GrantTypes DEF RowsGrow, ConsentsGrow
  <1>4. revoked' \subseteq DOMAIN grants
    BY <1>1, <1>2 DEF Losers, ChildrenOf, Pairs, TypeOK
  <1>5. TypeOK'
    BY <1>1, <1>2, <1>4, MarkFacts DEF TypeOK
  <1>6. \A j \in DOMAIN grants' : GrantOK(j)'
    BY <1>1, <1>2, <1>3, GrantsKept
  <1>7. TimesOK'
    BY <1>1, <1>2, MarkFacts, TimesKept
  <1>8. SpentOK' /\ PurgedOK'
    BY <1>1, <1>2, <1>3, SpentKept, PurgedKept
  <1>9. RevokedOK' /\ CutBranchesEnd' /\ LateUseChooses'
    BY <1>1, <1>2, <1>3, BranchesUsed
  <1>10. \A q \in Requests : RequestOK(q)'
    BY <1>1, <1>2, <1>3, RequestsStand
  <1>11. SingleUse' /\ RetryKeepsScopes'
    BY <1>2 DEF IInv, SingleUse, RetryKeepsScopes, Codes, Pairs
  <1> QED
    BY <1>5, <1>6, <1>7, <1>8, <1>9, <1>10, <1>11 DEF IInv

\* While a refresh token may be rotated again, the pairs rotated from it are all
\* there: none is revoked, and none has expired, for it is as young as its parent.
LEMMA ChildrenStand ==
    ASSUME IInv, NEW i \in Pairs, NEW client, Allowed(i, client),
           NEW k \in Pairs, grants[k].parent = i
    PROVE  k \in ChildrenOf(i) \ revoked
  <1>1. /\ TypeOK /\ i \in DOMAIN grants /\ k \in DOMAIN grants /\ now \in Nat
        /\ grants[i].kind = "pair" /\ grants[k].kind = "pair"
    BY DEF IInv, TypeOK, Pairs
  <1>2. i # 0
    BY <1>1, GrantTypes
  <1>3. i \in consumed /\ consumedAt[i] \in Nat /\ ~(now >= consumedAt[i] + Grace)
    <2>1. i \in consumed /\ consumedAt[i] \in Nat
      BY <1>1, <1>2, ParentFacts
    <2> QED
      BY <2>1 DEF Allowed, LateReplay
  <1>4. k \notin revoked
    <2>1. i \notin revoked \union purged
      BY DEF Allowed, Stored
    <2> QED
      BY <1>2, <1>3, <2>1 DEF IInv, RevokedOK
  <1>5. grants[i].at <= grants[k].at /\ grants[i].at \in Nat /\ grants[k].at \in Nat
    BY <1>1, <1>2, GrantTypes DEF IInv, GrantOK
  <1>6. Expires(k) >= Expires(i)
    BY <1>1, <1>5, TimeAssumption DEF Expires
  <1>7. k \notin purged
    <2>1. Expires(i) > now /\ Expires(i) \in Nat /\ Expires(k) \in Nat
      BY <1>1, GrantTypes DEF Allowed
    <2> QED
      BY <1>1, <1>6, <2>1 DEF IInv, PurgedOK
  <1> QED
    BY <1>4, <1>7 DEF ChildrenOf, Stored

LEMMA RotateStep ==
    ASSUME NEW r \in Requests, IInv, Rotate(r)
    PROVE  IInv'
  <1>0. PICK i, n, client, scopes : /\ i = request[r].grant /\ n = Len(grants) + 1
                                    /\ client = request[r].client /\ scopes = request[r].scopes
    OBVIOUS
  <1>1. TypeOK /\ now \in Nat /\ now' = now /\ UNCHANGED <<consents, spent>> /\ Done(r)
    BY DEF IInv, TypeOK, Rotate
  <1>2. /\ i \in Pairs /\ i \in DOMAIN grants /\ i \in Ids /\ grants[i].kind = "pair"
        /\ client \in Clients /\ scopes \in SUBSET Scopes
        /\ request[r].at \in Nat /\ grants[i].at <= request[r].at /\ request[r].at <= now
    <2>1. /\ request[r].op = "rotate" /\ i \in Pairs /\ grants[i].at \in Nat
          /\ request[r].at <= now /\ request[r].at >= grants[i].at
      BY <1>0, <1>1, GrantTypes DEF IInv, RequestOK, Rotate, Pairs
    <2> QED
      BY <1>0, <1>1, <2>1, RequestTypes DEF Pairs
  <1>3. CASE /\ Condemns(i, client)
             /\ revoked' = revoked \union FamilyOf(i)
             /\ UNCHANGED <<grants, consumed, consumedAt, usedAt, purged>>
    BY <1>1, <1>2, <1>3, CondemnedStep
  <1>4. CASE UNCHANGED rows
    <2>1. UNCHANGED <<grants, consumed, consumedAt, usedAt, revoked, purged>>
      BY <1>4 DEF rows, columns
    <2>2. RowsGrow /\ ConsentsGrow
      BY <1>1, <2>1 DEF RowsGrow, ConsentsGrow
    <2>3. /\ request' \in [Requests -> Request]
          /\ \A q \in Requests : RequestOK(q)'
      BY <1>1, <2>2, RequestsStand
    <2> QED
      BY <1>1, <2>1, <2>2, <2>3, NothingIsWhole, QuietStep DEF TypeOK
  <1>5. ASSUME /\ Allowed(i, client)
               /\ ScopesAllowed(i, scopes)
               /\ MarkUsed(i)
               /\ revoked' = revoked \union Losers(i)
               /\ consumed' = consumed \union {i}
               /\ Stamp(i)
               /\ Insert([kind |-> "pair", consent |-> grants[i].consent, client |-> client,
                          scopes |-> scopes, family |-> grants[i].family,
                          parent |-> i, at |-> request[r].at])
               /\ PurgeOld
        PROVE  IInv'
    <2>0. PICK g : g = [kind |-> "pair", consent |-> grants[i].consent, client |-> client,
                        scopes |-> scopes, family |-> grants[i].family,
                        parent |-> i, at |-> request[r].at]
      OBVIOUS
    <2>1. Insert(g) /\ Stored(i) /\ i \notin revoked /\ ~LateReplay(i)
      BY <1>5, <2>0 DEF Allowed
    <2>2. g \in Grant
      <3>1. grants[i].consent \in Nat /\ grants[i].family \in Nat /\ i \in Nat
        BY <1>1, <1>2, GrantTypes
      <3> QED
        BY <1>2, <2>0, <3>1 DEF Grant
    <2>3. /\ g.kind = "pair" /\ g.consent = grants[i].consent /\ g.family = grants[i].family
          /\ g.parent = i /\ g.at = request[r].at /\ g.scopes = scopes
      BY <2>0
    <2>4. /\ \A k \in DOMAIN grants : /\ usedAt[k] # None => usedAt'[k] = usedAt[k]
                                      /\ consumedAt[k] # None => consumedAt'[k] = consumedAt[k]
          /\ consumed \subseteq consumed'
      BY <1>1, <1>2, <1>5, MarkFacts, StampFacts, GrantTypes
    <2>5. /\ RowsGrow
          /\ grants' \in Seq(Grant) /\ Len(grants') <= MaxGrants
          /\ DOMAIN grants' = DOMAIN grants \union {n}
          /\ n \in Ids /\ n \notin DOMAIN grants
          /\ \A k \in DOMAIN grants : k < n
          /\ grants'[n] = g
      BY <1>0, <2>1, <2>2, <2>4, InsertGrows
    <2>6. ConsentsGrow
      BY <1>1 DEF ConsentsGrow
    <2>7. n # i /\ usedAt'[n] = None /\ consumedAt'[n] = None /\ n \notin consumed
      BY <1>1, <1>2, <1>5, <2>5, MarkFacts, StampFacts DEF IInv, TimesOK, TypeOK
    <2>8. purged \subseteq purged' /\ purged' \subseteq DOMAIN grants
      BY <1>1, <1>5, PurgeTypes DEF PurgeOld
    <2>9. TypeOK'
      <3>1. request' \in [Requests -> Request]
        BY <1>1, DoneTypes
      <3>2. revoked' \subseteq DOMAIN grants'
        BY <1>1, <1>5, <2>5 DEF Losers, ChildrenOf, Pairs, TypeOK
      <3>3. ASSUME NEW k \in DOMAIN grants', grants'[k].kind = "pair"
            PROVE  k \in consumed' <=> consumedAt'[k] # None
        <4>1. CASE k = n
          BY <1>5, <2>7, <4>1
        <4>2. CASE k = i
          BY <1>1, <1>2, <1>5, <4>2, StampFacts
        <4>3. CASE k \in DOMAIN grants /\ k # i
          <5>1. consumedAt'[k] = consumedAt[k] /\ grants'[k] = grants[k]
            BY <1>1, <1>2, <1>5, <2>5, <4>3, StampFacts, GrantTypes DEF RowsGrow
          <5> QED
            BY <1>1, <1>5, <3>3, <4>3, <5>1 DEF TypeOK
        <4> QED
          BY <2>5, <4>1, <4>2, <4>3
      <3>4. consumed' \subseteq DOMAIN grants' /\ purged' \subseteq DOMAIN grants' /\ spent' \subseteq DOMAIN consents'
        BY <1>1, <1>2, <1>5, <2>5, <2>8 DEF TypeOK
      <3>5. usedAt' \in [Ids -> Times] /\ consumedAt' \in [Ids -> Times]
        BY <1>1, <1>2, <1>5, MarkFacts, StampFacts
      <3>6. consents' \in Seq(Consent)
        BY <1>1 DEF TypeOK
      <3> QED
        BY <1>1, <2>5, <3>1, <3>2, <3>3, <3>4, <3>5, <3>6 DEF TypeOK
    <2>10. \A k \in DOMAIN grants' : GrantOK(k)'
      <3>1. GrantOK(n)'
        <4>1. /\ grants[i].consent \in DOMAIN consents
              /\ grants[i].family \in Codes /\ grants[i].family \in consumed /\ grants[i].family < i
              /\ grants[grants[i].family].consent = grants[i].consent
          BY <1>2 DEF IInv, GrantOK
        <4>2. PICK f : f = grants[i].family
          OBVIOUS
        <4>3. /\ f \in DOMAIN grants' /\ grants'[f] = grants[f] /\ grants[f].kind = "code"
              /\ f < n /\ f \in consumed'
          BY <2>4, <2>5, <4>1, <4>2 DEF RowsGrow, Codes
        <4>4. /\ i \in DOMAIN grants' /\ grants'[i] = grants[i] /\ i < n /\ i \in consumed'
              /\ usedAt'[i] # None
          BY <1>1, <1>2, <1>5, <2>5, MarkFacts DEF RowsGrow
        <4> QED
          BY <1>1, <1>2, <2>3, <2>5, <4>1, <4>2, <4>3, <4>4 DEF GrantOK, Codes, Pairs
      <3> QED
        BY <1>1, <2>5, <2>6, <3>1, GrantsKept
    <2>11. TimesOK'
      <3>1. \A k \in Ids : usedAt'[k] \in {usedAt[k], now} /\ consumedAt'[k] \in {consumedAt[k], now}
        BY <1>1, <1>2, <1>5, MarkFacts, StampFacts
      <3>2. \A k \in Ids : k # i => usedAt'[k] = usedAt[k] /\ consumedAt'[k] = consumedAt[k]
        BY <1>1, <1>2, <1>5, MarkFacts, StampFacts
      <3>3. \A k \in Ids : k \in DOMAIN grants \/ (usedAt'[k] = usedAt[k] /\ consumedAt'[k] = consumedAt[k])
        BY <1>2, <3>2
      <3> QED
        BY <1>1, <2>5, <3>1, <3>3, TimesKept
    <2>12. SpentOK'
      <3> SUFFICES ASSUME NEW k \in Codes'
                   PROVE  \/ grants'[k].consent \in spent'
                          \/ consents'[grants'[k].consent].expires <= now'
        BY DEF SpentOK
      <3>1. k \in Codes /\ grants'[k] = grants[k]
        BY <2>3, <2>5 DEF Codes, RowsGrow
      <3> QED
        BY <1>1, <3>1 DEF IInv, SpentOK
    <2>13. PurgedOK'
      BY <1>1, <1>5, <2>5, PurgedKept
    <2>14. RevokedOK' /\ CutBranchesEnd' /\ LateUseChooses'
      BY <1>1, <1>2, <1>5, <2>1, <2>3, <2>5, <2>7, <2>8, BranchesUsed
    <2>15. \A q \in Requests : RequestOK(q)'
      BY <1>1, <2>5, <2>6, RequestsStand
    <2>16. \A k \in Pairs' : k = n \/ (k \in Pairs /\ k \in DOMAIN grants /\ grants'[k] = grants[k])
      BY <2>5 DEF Pairs, RowsGrow
    <2>17. SingleUse'
      <3>1. \A k \in Codes' : k \in Codes /\ grants'[k] = grants[k]
        BY <2>3, <2>5 DEF Codes, RowsGrow
      <3>2. i # 0
        BY <1>1, <1>2, GrantTypes
      <3>3. \A k, l \in Codes' : grants'[k].consent = grants'[l].consent => k = l
        BY <3>1 DEF IInv, SingleUse
      <3>4. \A k, l \in Pairs' :
              grants'[k].parent = 0 /\ grants'[l].parent = 0 /\ grants'[k].family = grants'[l].family => k = l
        BY <2>3, <2>5, <2>16, <3>2 DEF IInv, SingleUse
      <3> QED
        BY <3>3, <3>4 DEF SingleUse
    <2>18. RetryKeepsScopes'
      <3> SUFFICES ASSUME NEW k \in Pairs', NEW l \in Pairs',
                          k < l, grants'[k].parent # 0, grants'[k].parent = grants'[l].parent
                   PROVE  grants'[l].scopes \subseteq grants'[k].scopes
        BY DEF RetryKeepsScopes
      <3>1. CASE l = n
        <4>1. k \in Pairs /\ k \in DOMAIN grants /\ grants'[k] = grants[k] /\ grants[k].parent = i
          <5>1. n \in Nat
            BY <2>5, BoundAssumption DEF Ids
          <5>2. k # n
            BY <3>1, <5>1
          <5> QED
            BY <2>3, <2>5, <2>16, <3>1, <5>2
        <4>2. k \in ChildrenOf(i) \ revoked
          BY <1>2, <1>5, <4>1, ChildrenStand
        <4> QED
          BY <1>5, <2>3, <2>5, <3>1, <4>1, <4>2 DEF ScopesAllowed
      <3>2. CASE l # n
        <4>1. l \in Pairs /\ grants'[l] = grants[l] /\ l < n /\ l \in Ids
          BY <1>1, <2>5, <2>16, <3>2, GrantTypes
        <4>2. k # n
          BY <2>5, <4>1, BoundAssumption DEF Ids
        <4> QED
          BY <2>16, <4>1, <4>2 DEF IInv, RetryKeepsScopes
      <3> QED
        BY <3>1, <3>2
    <2> QED
      BY <2>9, <2>10, <2>11, <2>12, <2>13, <2>14, <2>15, <2>17, <2>18 DEF IInv
  <1> QED
    BY <1>0, <1>3, <1>4, <1>5 DEF Rotate

-----------------------------------------------------------------------------
(* Theorems *)

LEMMA InvInit == Init => IInv
  <1> SUFFICES ASSUME Init PROVE IInv
    OBVIOUS
  <1>1. TypeOK
    BY TypesInit
  <1>2. DOMAIN grants = {} /\ Codes = {} /\ Pairs = {}
    BY DEF Init, Codes, Pairs
  <1>3. \A r \in Requests : RequestOK(r)
    BY DEF Init, RequestOK, Idle
  <1>4. TimesOK /\ PurgedOK
    BY DEF Init, TimesOK, PurgedOK
  <1>5. SpentOK /\ RevokedOK /\ SingleUse /\ RetryKeepsScopes /\ CutBranchesEnd /\ LateUseChooses
    BY <1>2 DEF SpentOK, RevokedOK, SingleUse, RetryKeepsScopes, CutBranchesEnd, LateUseChooses
  <1> QED
    BY <1>1, <1>2, <1>3, <1>4, <1>5 DEF IInv

LEMMA InvNext == IInv /\ [Next]_vars => IInv'
  <1> SUFFICES ASSUME IInv, [Next]_vars PROVE IInv'
    OBVIOUS
  <1>1. CASE UNCHANGED vars
    <2>1. /\ UNCHANGED <<now, consents, spent, grants, consumed, consumedAt, usedAt, revoked, purged, request>>
          /\ TypeOK /\ now \in Nat
      BY <1>1 DEF vars, rows, columns, IInv, TypeOK
    <2>2. RowsGrow /\ ConsentsGrow
      BY <2>1 DEF RowsGrow, ConsentsGrow
    <2>3. /\ request' \in [Requests -> Request]
          /\ \A r \in Requests : RequestOK(r)'
      BY <2>1, <2>2, RequestsStand
    <2> QED
      BY <2>1, <2>2, <2>3, NothingIsWhole, QuietStep DEF TypeOK
  <1>2. CASE Tick
    BY <1>2, TickStep
  <1>3. CASE RevokeAll \/ \E i \in Ids : Revoke(i)
    BY <1>3, RevokeStep
  <1>4. CASE \E client \in Clients, scopes \in SUBSET Scopes : BeginConsent(client, scopes)
    BY <1>4, BeginConsentStep
  <1>5. CASE \E i \in Ids : UseAccess(i)
    BY <1>5, UseAccessStep
  <1>6. ASSUME NEW r \in Requests,
               \/ \E c \in 1..MaxConsents : CheckConsent(r, c)
               \/ ApproveConsent(r)
               \/ DenyConsent(r)
               \/ Abandon(r)
        PROVE  IInv'
    BY <1>6, CheckConsentStep, ApproveConsentStep, DenyConsentStep, AbandonStep
  <1>7. ASSUME NEW r \in Requests,
               \/ \E i \in Ids, client \in Clients : BeginExchange(r, i, client)
               \/ CommitExchange(r)
        PROVE  IInv'
    BY <1>7, BeginExchangeStep, CommitExchangeStep
  <1>8. ASSUME NEW r \in Requests,
               \/ \E i \in Ids, client \in Clients, scopes \in SUBSET Scopes :
                    LoadRefresh(r, i, client, scopes)
               \/ Rotate(r)
        PROVE  IInv'
    BY <1>8, LoadRefreshStep, RotateStep
  <1> QED
    BY <1>1, <1>2, <1>3, <1>4, <1>5, <1>6, <1>7, <1>8 DEF Next

\* The inductive invariant: rows agree with their family, the clock and what requests loaded.
THEOREM OAuthInvariant == Spec => []IInv
  <1>1. Init => IInv
    BY InvInit
  <1>2. IInv /\ [Next]_vars => IInv'
    BY InvNext
  <1> QED
    BY <1>1, <1>2, PTL DEF Spec

\* Type correctness: consumed and consumed_at of a refresh row are set together.
THEOREM OAuthTypes == Spec => []TypeOK
  <1>1. IInv => TypeOK
    BY DEF IInv
  <1> QED
    BY <1>1, OAuthInvariant, PTL

\* A consent yields one code and a code one first pair (issue), for any number of requests.
THEOREM OAuthSingleUse == Spec => []SingleUse
  <1>1. IInv => SingleUse
    BY DEF IInv
  <1> QED
    BY <1>1, OAuthInvariant, PTL

\* A retried rotation has no scope that an earlier one from the same token lacks (rotate).
THEOREM OAuthRetryKeepsScopes == Spec => []RetryKeepsScopes
  <1>1. IInv => RetryKeepsScopes
    BY DEF IInv
  <1> QED
    BY <1>1, OAuthInvariant, PTL

\* Nothing rotated from a revoked pair is usable, however it came to be revoked (_used, revoke).
THEOREM OAuthCutBranchesEnd == Spec => []CutBranchesEnd
  <1>1. IInv => CutBranchesEnd
    BY DEF IInv
  <1> QED
    BY <1>1, OAuthInvariant, PTL

\* A use after the grace leaves no sibling that could be first used later (_used).
THEOREM OAuthLateUseChooses == Spec => []LateUseChooses
  <1>1. IInv => LateUseChooses
    BY DEF IInv
  <1> QED
    BY <1>1, OAuthInvariant, PTL

-----------------------------------------------------------------------------
(* The store implements OAuthSessions *)

SessionStep(c) ==
    /\ Session'[c] = Session[c] \/ <<Session[c], Session'[c]>> \in Sessions!Moves
    /\ Reach'[c] \subseteq Reach[c] \/ <<Session[c], Session'[c]>> = <<"open", "approved">>

\* A session whose grants are only revoked or deleted.
LEMMA QuietSession ==
    ASSUME IInv, TypeOK', now <= now', ConsentsGrow, NEW c \in 1..MaxConsents,
           GrantsOf(c)' = GrantsOf(c),
           \A i \in GrantsOf(c) : grants'[i] = grants[i],
           consumed' \intersect GrantsOf(c) = consumed \intersect GrantsOf(c),
           revoked \subseteq revoked', purged \subseteq purged',
           c \in DOMAIN consents' \ DOMAIN consents => consents'[c].expires > now' /\ c \notin spent'
    PROVE  SessionStep(c)
  <1>1. LiveOf(c)' \subseteq LiveOf(c)
    BY DEF LiveOf, Stored
  <1>2. Reach'[c] \subseteq Reach[c]
    <2>1. \A i \in LiveOf(c)' : i \in GrantsOf(c)
      BY DEF LiveOf
    <2> QED
      BY <1>1, <2>1 DEF Reach
  <1>3. LiveOf(c) \subseteq GrantsOf(c) /\ LiveOf(c)' \subseteq GrantsOf(c)
    BY DEF LiveOf
  <1>4. CASE c \notin DOMAIN consents
    <2>1. GrantsOf(c) = {}
      BY <1>4 DEF IInv, GrantOK, GrantsOf
    <2>2. Session[c] = "none"
      BY <1>4 DEF Session
    <2>3. Session'[c] \in {"none", "open"}
      BY <1>4, <2>1 DEF Session
    <2> QED
      BY <1>2, <2>2, <2>3 DEF SessionStep, Sessions!Moves
  <1>5. CASE c \in DOMAIN consents /\ GrantsOf(c) = {}
    <2>1. /\ c \in DOMAIN consents' /\ consents'[c] = consents[c]
          /\ c \in spent \ spent' => consents[c].expires <= now
      BY <1>5 DEF ConsentsGrow
    <2>2. consents[c].expires \in Nat /\ now \in Nat /\ now' \in Nat
      BY <1>5, ConsentTypes DEF IInv, TypeOK
    <2>3. Session[c] = IF consents[c].expires > now /\ c \notin spent THEN "open" ELSE "closed"
      BY <1>5 DEF Session
    <2>4. Session'[c] = IF consents[c].expires > now' /\ c \notin spent' THEN "open" ELSE "closed"
      BY <1>5, <2>1 DEF Session
    <2>5. Session[c] = "closed" => Session'[c] = "closed"
      BY <2>1, <2>2, <2>3, <2>4
    <2> QED
      BY <1>2, <2>3, <2>4, <2>5 DEF SessionStep, Sessions!Moves
  <1>6. CASE c \in DOMAIN consents /\ GrantsOf(c) # {}
    <2>1. c \in DOMAIN consents'
      BY <1>6 DEF ConsentsGrow
    <2>2. Session[c] = IF LiveOf(c) = {} THEN "ended"
                       ELSE IF GrantsOf(c) \intersect consumed = {} THEN "approved" ELSE "active"
      BY <1>6 DEF Session
    <2>3. Session'[c] = IF LiveOf(c)' = {} THEN "ended"
                        ELSE IF GrantsOf(c) \intersect consumed' = {} THEN "approved" ELSE "active"
      BY <1>6, <2>1 DEF Session
    <2>4. GrantsOf(c) \intersect consumed' = GrantsOf(c) \intersect consumed
      OBVIOUS
    <2> QED
      BY <1>1, <1>2, <2>2, <2>3, <2>4 DEF SessionStep, Sessions!Moves
  <1> QED
    BY <1>4, <1>5, <1>6

\* Nothing is inserted: every session is quiet.
LEMMA QuietSessions ==
    ASSUME IInv, TypeOK', now <= now', ConsentsGrow, UNCHANGED <<grants, consumed>>,
           revoked \subseteq revoked', purged \subseteq purged',
           \A c \in DOMAIN consents' \ DOMAIN consents : consents'[c].expires > now' /\ c \notin spent',
           NEW c \in 1..MaxConsents
    PROVE  SessionStep(c)
  <1>1. GrantsOf(c)' = GrantsOf(c)
    BY DEF GrantsOf
  <1> QED
    BY <1>1, QuietSession

\* What a step that inserts the grant g leaves of the sessions of other consents.
LEMMA OtherSessions ==
    ASSUME IInv, TypeOK', now' = now, ConsentsGrow, UNCHANGED consents,
           NEW g \in Grant, Insert(g),
           revoked \subseteq revoked', purged \subseteq purged',
           NEW c \in 1..MaxConsents, c # g.consent,
           consumed' \intersect GrantsOf(c) = consumed \intersect GrantsOf(c)
    PROVE  SessionStep(c)
  <1>1. now \in Nat /\ grants \in Seq(Grant) /\ MaxGrants \in Nat
    BY BoundAssumption DEF IInv, TypeOK
  <1>2. PICK n : n = Len(grants) + 1
    OBVIOUS
  <1>3. /\ DOMAIN grants' = DOMAIN grants \union {n}
        /\ \A i \in DOMAIN grants : grants'[i] = grants[i]
        /\ grants'[n] = g
    BY <1>1, <1>2, InsertFacts
  <1>4. GrantsOf(c)' = GrantsOf(c)
    BY <1>3 DEF GrantsOf
  <1>5. \A i \in GrantsOf(c) : grants'[i] = grants[i]
    BY <1>3 DEF GrantsOf
  <1> QED
    BY <1>1, <1>4, <1>5, QuietSession

\* The session of the grant g that a step inserts, of which it keeps i alive.
LEMMA OwnSession ==
    ASSUME IInv, TypeOK', UNCHANGED consents, ConsentsGrow,
           NEW g \in Grant, Insert(g),
           revoked \subseteq revoked', purged \subseteq purged',
           NEW i \in DOMAIN grants, Stored(i), i \notin revoked,
           NEW n, n = Len(grants) + 1, n \notin revoked', n \notin purged',
           NEW c \in 1..MaxConsents, c = g.consent, c = grants[i].consent,
           g.scopes \subseteq grants[i].scopes,
           i \in consumed', consumed \subseteq consumed'
    PROVE  SessionStep(c)
  <1>1. grants \in Seq(Grant) /\ MaxGrants \in Nat
    BY BoundAssumption DEF IInv, TypeOK
  <1>2. /\ DOMAIN grants' = DOMAIN grants \union {n}
        /\ n \notin DOMAIN grants
        /\ \A k \in DOMAIN grants : grants'[k] = grants[k]
        /\ grants'[n] = g
    BY <1>1, InsertFacts
  <1>3. c \in DOMAIN consents /\ c \in DOMAIN consents'
    BY DEF IInv, GrantOK
  <1>4. i \in LiveOf(c) /\ i \in GrantsOf(c)
    BY DEF LiveOf, GrantsOf
  <1>5. i \in GrantsOf(c)' /\ n \in LiveOf(c)' /\ n \in GrantsOf(c)'
    BY <1>2 DEF LiveOf, GrantsOf, Stored
  <1>6. Session[c] \in {"approved", "active"}
    BY <1>3, <1>4 DEF Session
  <1>7. Session'[c] = "active"
    BY <1>3, <1>5 DEF Session
  <1>8. \A k \in LiveOf(c)' : k = n \/ (k \in LiveOf(c) /\ grants'[k] = grants[k])
    BY <1>2 DEF LiveOf, GrantsOf, Stored
  <1>9. Reach'[c] \subseteq Reach[c]
    <2> SUFFICES ASSUME NEW k \in LiveOf(c)', NEW s \in grants'[k].scopes
                 PROVE  \E l \in LiveOf(c) : s \in grants[l].scopes
      BY DEF Reach
    <2> QED
      BY <1>2, <1>4, <1>8
  <1> QED
    BY <1>6, <1>7, <1>9 DEF SessionStep, Sessions!Moves

LEMMA ApproveSession ==
    ASSUME IInv, TypeOK', NEW r \in Requests, ApproveConsent(r),
           NEW c \in 1..MaxConsents
    PROVE  SessionStep(c)
  <1>0. PICK d, n : d = request[r].consent /\ n = Len(grants) + 1
    OBVIOUS
  <1>1. /\ TypeOK /\ now \in Nat /\ now' = now /\ grants \in Seq(Grant) /\ MaxGrants \in Nat
        /\ UNCHANGED <<consents, consumed, consumedAt, usedAt, revoked>>
    BY BoundAssumption DEF IInv, TypeOK, ApproveConsent, columns
  <1>2. Unexpired \subseteq spent' /\ d \in DOMAIN consents
    BY <1>0 DEF ApproveConsent, IInv, RequestOK
  <1>3. ConsentsGrow
    BY <1>1, <1>2, SpentForgets
  <1>4. CASE ~Spendable(d)
    <2>1. UNCHANGED <<grants, purged>>
      BY <1>0, <1>4 DEF ApproveConsent
    <2> QED
      BY <1>1, <1>3, <2>1, QuietSessions
  <1>5. CASE Spendable(d)
    <2>0. PICK g : g = [kind |-> "code", consent |-> d, client |-> consents[d].client,
                        scopes |-> consents[d].scopes, family |-> n, parent |-> 0, at |-> now]
      OBVIOUS
    <2>1. Insert(g) /\ PurgeOld
      BY <1>0, <1>5, <2>0 DEF ApproveConsent
    <2>2. n \in Nat
      BY <1>0, <1>1
    <2>3. g \in Grant /\ g.consent = d
      BY <1>1, <1>2, <2>0, <2>2, ConsentTypes DEF Grant
    <2>4. purged \subseteq purged' /\ n \notin purged' /\ n \notin revoked' /\ n \notin consumed'
      BY <1>0, <1>1, <2>1, <2>3, InsertFacts DEF PurgeOld, TypeOK
    <2>5. CASE c # d
      BY <1>1, <1>3, <2>1, <2>3, <2>4, <2>5, OtherSessions
    <2>6. CASE c = d
      <3>1. consents[c].expires \in Nat /\ consents[c].expires > now /\ c \notin spent
        BY <1>1, <1>2, <1>5, <2>6, ConsentTypes DEF Spendable, Unexpired
      <3>2. ASSUME NEW i \in GrantsOf(c) PROVE FALSE
        <4>1. i \in DOMAIN grants /\ grants[i].consent = c /\ grants[i].kind \in {"code", "pair"}
          BY <1>1, GrantTypes DEF GrantsOf
        <4>2. PICK k \in Codes : grants[k].consent = c
          BY <4>1 DEF IInv, GrantOK, Codes
        <4> QED
          BY <1>1, <3>1, <4>2 DEF IInv, SpentOK
      <3>3. Session[c] = "open"
        BY <1>2, <2>6, <3>1, <3>2 DEF Session
      <3>4. /\ DOMAIN grants' = DOMAIN grants \union {n}
            /\ \A k \in DOMAIN grants : grants'[k] = grants[k]
            /\ grants'[n] = g
        BY <1>0, <1>1, <2>1, <2>3, InsertFacts
      <3>5. GrantsOf(c)' = {n}
        BY <2>3, <2>6, <3>2, <3>4 DEF GrantsOf
      <3>6. n \in LiveOf(c)'
        BY <2>4, <3>5 DEF LiveOf, Stored
      <3>7. Session'[c] = "approved"
        BY <1>1, <1>2, <2>4, <2>6, <3>5, <3>6 DEF Session
      <3> QED
        BY <3>3, <3>7 DEF SessionStep, Sessions!Moves
    <2> QED
      BY <2>5, <2>6
  <1> QED
    BY <1>4, <1>5

LEMMA ExchangeSession ==
    ASSUME IInv, TypeOK', NEW r \in Requests, CommitExchange(r),
           NEW c \in 1..MaxConsents
    PROVE  SessionStep(c)
  <1>0. PICK i, n : i = request[r].grant /\ n = Len(grants) + 1
    OBVIOUS
  <1>1. /\ TypeOK /\ now \in Nat /\ now' = now /\ grants \in Seq(Grant) /\ MaxGrants \in Nat
        /\ UNCHANGED <<consents, consumedAt, usedAt, revoked>>
    BY BoundAssumption DEF IInv, TypeOK, CommitExchange
  <1>2. i \in DOMAIN grants /\ request[r].scopes = grants[i].scopes
    BY <1>0 DEF IInv, RequestOK, CommitExchange, Codes
  <1>3. ConsentsGrow
    BY <1>1, SpentForgets DEF CommitExchange
  <1>4. CASE ~Consumable(i)
    <2>1. UNCHANGED <<grants, consumed, purged>>
      BY <1>0, <1>4 DEF CommitExchange
    <2> QED
      BY <1>1, <1>3, <2>1, QuietSessions
  <1>5. CASE Consumable(i)
    <2>0. PICK g : g = [kind |-> "pair", consent |-> grants[i].consent, client |-> request[r].client,
                        scopes |-> request[r].scopes, family |-> grants[i].family,
                        parent |-> 0, at |-> request[r].at]
      OBVIOUS
    <2>1. Insert(g) /\ consumed' = consumed \union {i} /\ PurgeOld
      BY <1>0, <1>5, <2>0 DEF CommitExchange
    <2>2. g \in Grant /\ g.consent = grants[i].consent /\ g.scopes = grants[i].scopes
      BY <1>1, <1>2, <2>0, GrantTypes, RequestTypes DEF Grant, CommitExchange
    <2>3. purged \subseteq purged' /\ n \notin purged' /\ n \notin revoked'
      BY <1>0, <1>1, <2>1, <2>2, InsertFacts DEF PurgeOld, TypeOK
    <2>4. CASE c # g.consent
      <3>1. consumed' \intersect GrantsOf(c) = consumed \intersect GrantsOf(c)
        BY <2>1, <2>2, <2>4 DEF GrantsOf
      <3> QED
        BY <1>1, <1>3, <2>1, <2>2, <2>3, <2>4, <3>1, OtherSessions
    <2>5. CASE c = g.consent
      BY <1>0, <1>1, <1>2, <1>3, <1>5, <2>1, <2>2, <2>3, <2>5, OwnSession DEF Consumable, Stored
    <2> QED
      BY <2>4, <2>5
  <1> QED
    BY <1>4, <1>5

LEMMA RotateSession ==
    ASSUME IInv, TypeOK', NEW r \in Requests, Rotate(r),
           NEW c \in 1..MaxConsents
    PROVE  SessionStep(c)
  <1>0. PICK i, n, client, scopes : /\ i = request[r].grant /\ n = Len(grants) + 1
                                    /\ client = request[r].client /\ scopes = request[r].scopes
    OBVIOUS
  <1>1. /\ TypeOK /\ now \in Nat /\ now' = now /\ grants \in Seq(Grant) /\ MaxGrants \in Nat
        /\ UNCHANGED <<consents, spent>>
    BY BoundAssumption DEF IInv, TypeOK, Rotate
  <1>2. /\ i \in Pairs /\ i \in DOMAIN grants /\ i \in Ids
        /\ client \in Clients /\ scopes \in SUBSET Scopes /\ request[r].at \in Nat
    BY <1>0, <1>1, RequestTypes DEF IInv, RequestOK, Rotate, Pairs
  <1>3. ConsentsGrow
    BY <1>1 DEF ConsentsGrow
  <1>4. CASE UNCHANGED <<grants, consumed, purged>> /\ revoked \subseteq revoked'
    BY <1>1, <1>3, <1>4, QuietSessions
  <1>5. ASSUME /\ Allowed(i, client)
               /\ ScopesAllowed(i, scopes)
               /\ revoked' = revoked \union Losers(i)
               /\ consumed' = consumed \union {i}
               /\ Insert([kind |-> "pair", consent |-> grants[i].consent, client |-> client,
                          scopes |-> scopes, family |-> grants[i].family,
                          parent |-> i, at |-> request[r].at])
               /\ PurgeOld
        PROVE  SessionStep(c)
    <2>0. PICK g : g = [kind |-> "pair", consent |-> grants[i].consent, client |-> client,
                        scopes |-> scopes, family |-> grants[i].family,
                        parent |-> i, at |-> request[r].at]
      OBVIOUS
    <2>1. Insert(g) /\ Stored(i) /\ i \notin revoked /\ scopes \subseteq grants[i].scopes
      BY <1>5, <2>0 DEF Allowed, ScopesAllowed
    <2>2. g \in Grant /\ g.consent = grants[i].consent /\ g.scopes = scopes
      <3>1. grants[i].consent \in Nat /\ grants[i].family \in Nat /\ i \in Nat
        BY <1>1, <1>2, GrantTypes
      <3> QED
        BY <1>2, <2>0, <3>1 DEF Grant
    <2>3. n \notin DOMAIN grants
      BY <1>0, <1>1, <2>1, <2>2, InsertFacts
    <2>4. purged \subseteq purged' /\ n \notin purged' /\ n \notin revoked' /\ revoked \subseteq revoked'
      BY <1>1, <1>5, <2>3 DEF PurgeOld, TypeOK, Losers, ChildrenOf, Pairs
    <2>5. CASE c # g.consent
      <3>1. consumed' \intersect GrantsOf(c) = consumed \intersect GrantsOf(c)
        BY <1>5, <2>2, <2>5 DEF GrantsOf
      <3> QED
        BY <1>1, <1>3, <1>5, <2>1, <2>2, <2>4, <2>5, <3>1, OtherSessions
    <2>6. CASE c = g.consent
      BY <1>0, <1>1, <1>2, <1>3, <1>5, <2>1, <2>2, <2>4, <2>6, OwnSession
    <2> QED
      BY <2>5, <2>6
  <1>6. CASE Condemns(i, client) /\ revoked' = revoked \union FamilyOf(i)
             /\ UNCHANGED <<grants, consumed, consumedAt, usedAt, purged>>
    BY <1>4, <1>6
  <1>7. CASE UNCHANGED rows
    BY <1>4, <1>7 DEF rows, columns
  <1> QED
    BY <1>0, <1>5, <1>6, <1>7 DEF Rotate

LEMMA InvSession ==
    ASSUME IInv, IInv', [Next]_vars, NEW c \in 1..MaxConsents
    PROVE  SessionStep(c)
  <1>1. TypeOK /\ TypeOK' /\ now \in Nat
    BY DEF IInv, TypeOK
  <1>2. CASE /\ UNCHANGED <<consents, spent, grants, consumed, purged>>
             /\ revoked \subseteq revoked'
             /\ now' = now \/ now' = now + 1
    <2>1. ConsentsGrow
      BY <1>2 DEF ConsentsGrow
    <2> QED
      BY <1>1, <1>2, <2>1, QuietSessions
  <1>3. ASSUME NEW client \in Clients, NEW scopes \in SUBSET Scopes, BeginConsent(client, scopes)
        PROVE  SessionStep(c)
    <2>1. PICK g : g = [client |-> client, scopes |-> scopes, expires |-> now + ConsentTTL]
      OBVIOUS
    <2>2. /\ consents' = Append(consents, g) /\ g \in Consent /\ consents \in Seq(Consent)
          /\ g.expires > now /\ now' = now
          /\ UNCHANGED <<spent, grants, consumed, purged, revoked>>
      BY <1>1, <1>3, <2>1, TimeAssumption DEF BeginConsent, Consent, TypeOK, rows, columns
    <2>3. /\ DOMAIN consents \subseteq DOMAIN consents'
          /\ \A d \in DOMAIN consents : consents'[d] = consents[d]
          /\ \A d \in DOMAIN consents' \ DOMAIN consents : consents'[d] = g
      BY <2>2
    <2>4. ConsentsGrow
      BY <2>2, <2>3 DEF ConsentsGrow
    <2>5. \A d \in DOMAIN consents' \ DOMAIN consents : consents'[d].expires > now' /\ d \notin spent'
      BY <1>1, <2>2, <2>3 DEF TypeOK
    <2> QED
      BY <1>1, <2>2, <2>4, <2>5, QuietSessions
  <1>4. ASSUME NEW r \in Requests, DenyConsent(r)
        PROVE  SessionStep(c)
    <2>1. /\ UNCHANGED <<now, consents, grants, consumed, revoked>>
          /\ purged \subseteq purged'
          /\ Unexpired \subseteq spent'
      BY <1>4 DEF DenyConsent, columns, PurgeOld
    <2>2. ConsentsGrow
      BY <2>1, SpentForgets
    <2> QED
      BY <1>1, <2>1, <2>2, QuietSessions
  <1>5. CASE Tick
    BY <1>2, <1>5 DEF Tick, rows, columns
  <1>6. CASE RevokeAll \/ \E i \in Ids : UseAccess(i) \/ Revoke(i)
    BY <1>2, <1>6 DEF RevokeAll, UseAccess, Revoke
  <1>7. ASSUME NEW r \in Requests,
               \/ \E d \in 1..MaxConsents : CheckConsent(r, d)
               \/ \E i \in Ids, client \in Clients : BeginExchange(r, i, client)
               \/ \E i \in Ids, client \in Clients, scopes \in SUBSET Scopes :
                    LoadRefresh(r, i, client, scopes)
               \/ Abandon(r)
        PROVE  SessionStep(c)
    BY <1>2, <1>7 DEF CheckConsent, BeginExchange, LoadRefresh, Abandon, rows, columns
  <1>8. CASE UNCHANGED vars
    BY <1>2, <1>8 DEF vars, rows, columns
  <1> QED
    BY <1>1, <1>3, <1>4, <1>5, <1>6, <1>7, <1>8,
       ApproveSession, ExchangeSession, RotateSession DEF Next

\* The store implements the one-way life of a session, for any number of requests and clients.
THEOREM OAuthImplementsSessions == Spec => ImplementsSessions
  <1>1. Init => Sessions!Init
    BY DEF Init, Sessions!Init, Sessions!Consents, Session, Reach, LiveOf, GrantsOf
  <1>2. IInv /\ IInv' /\ [Next]_vars => [Sessions!Next]_(Sessions!vars)
    <2> SUFFICES ASSUME IInv, IInv', [Next]_vars
                 PROVE  Sessions!Next
      OBVIOUS
    <2>1. \A c \in 1..MaxConsents : Session'[c] \in Sessions!States
      BY DEF Session, Sessions!States
    <2>2. Session' \in [1..MaxConsents -> Sessions!States]
      BY <2>1 DEF Session
    <2>3. \A c \in 1..MaxConsents : Reach'[c] \in SUBSET Scopes
      <3>1. \A c \in 1..MaxConsents : \A i \in LiveOf(c)' : i \in DOMAIN grants'
        BY DEF LiveOf, GrantsOf
      <3>2. \A i \in DOMAIN grants' : grants'[i] \in Grant
        BY DEF IInv, TypeOK
      <3>3. \A i \in DOMAIN grants' : grants'[i].scopes \in SUBSET Scopes
        BY <3>2 DEF Grant
      <3> QED
        BY <3>1, <3>3 DEF Reach
    <2>4. Reach' \in [1..MaxConsents -> SUBSET Scopes]
      BY <2>3 DEF Reach
    <2>5. \A c \in 1..MaxConsents : SessionStep(c)
      BY InvSession
    <2> QED
      BY <2>2, <2>4, <2>5 DEF Sessions!Next, Sessions!Consents, SessionStep
  <1> QED
    BY <1>1, <1>2, OAuthInvariant, PTL DEF Spec, ImplementsSessions, Sessions!Spec

-----------------------------------------------------------------------------
(* Induction, over sets instead of predicates *)

(* A nonempty set of numbers has a least one. *)
LEMMA FirstOf ==
    ASSUME NEW S \in SUBSET Nat, S # {}
    PROVE  \E x \in S : \A y \in S : x <= y
<1>1. PICK x \in S : \A y \in S : ~(<<y, x>> \in OpToRel(<, Nat))
  BY NatLessThanWellFounded, WFMin, Zenon
<1>2. \A y \in S : ~(y < x)
  BY <1>1 DEF OpToRel
<1> QED
  BY <1>2

(* Induction over the numbers, with a set in the place of a predicate. *)
LEMMA EveryNumber ==
    ASSUME NEW P, 0 \in P, \A n \in Nat : n \in P => n + 1 \in P
    PROVE  \A n \in Nat : n \in P
<1> DEFINE Bad == {n \in Nat : n \notin P}
<1> SUFFICES ASSUME Bad # {} PROVE FALSE
  OBVIOUS
<1>1. PICK m \in Bad : \A n \in Bad : m <= n
  BY FirstOf
<1>2. m # 0 /\ m - 1 \in Nat /\ m - 1 \notin Bad
  BY <1>1
<1> QED
  BY <1>2, (m - 1) + 1 = m

(* What holds of the empty set, and of a set with one more, holds of every part of a finite set. *)
LEMMA EverySubset ==
    ASSUME NEW U, IsFiniteSet(U), NEW P, {} \in P,
           \A T \in SUBSET U, x \in U : T \in P /\ x \notin T => T \cup {x} \in P
    PROVE  \A T \in SUBSET U : T \in P
<1> DEFINE Good == {n \in Nat : \A T \in SUBSET U : Cardinality(T) = n => T \in P}
<1>1. \A T \in SUBSET U : IsFiniteSet(T) /\ Cardinality(T) \in Nat
  BY FS_Subset, FS_CardinalityType
<1>2. 0 \in Good
  BY <1>1, FS_EmptySet
<1>3. ASSUME NEW n \in Nat, n \in Good PROVE n + 1 \in Good
  <2> SUFFICES ASSUME NEW T \in SUBSET U, Cardinality(T) = n + 1 PROVE T \in P
    OBVIOUS
  <2>1. PICK x \in T : TRUE
    BY <1>1, FS_EmptySet
  <2>2. Cardinality(T \ {x}) = n
    <3>1. IsFiniteSet(T) /\ x \in T
      BY <1>1, <2>1
    <3>2. Cardinality(T \ {x}) = Cardinality(T) - 1
      BY <3>1, FS_RemoveElement
    <3> QED
      BY <3>2
  <2>3. T \ {x} \in P /\ T = (T \ {x}) \cup {x}
    BY <1>3, <2>2
  <2> QED
    BY <2>3
<1> HIDE DEF Good
<1>4. \A n \in Nat : n \in Good
  BY <1>2, <1>3, EveryNumber
<1> QED
  BY <1>1, <1>4 DEF Good

-----------------------------------------------------------------------------
(* Sums over finite sets *)

SumRule(g, f, S) ==
    g = [s \in SUBSET S |-> IF s = {} THEN 0 ELSE f[CHOOSE x \in s : TRUE] + g[s \ {CHOOSE x \in s : TRUE}]]

(* The function by which a sum is computed. *)
LEMMA SumIs ==
    ASSUME NEW f, NEW S PROVE SumFunctionOnSet(f, S) = (CHOOSE g : SumRule(g, f, S))[S]
  BY DEF SumFunctionOnSet, FoldFunctionOnSet, MapThenFoldSet, SumRule

(* There is such a function for a finite set. *)
LEMMA SumExists ==
    ASSUME NEW f, NEW S, IsFiniteSet(S)
    PROVE  \E g : SumRule(g, f, S)
<1> DEFINE Level(n) == {s \in SUBSET S : Cardinality(s) <= n}
           Following(g, s) == IF s = {} THEN 0 ELSE f[CHOOSE x \in s : TRUE] + g[s \ {CHOOSE x \in s : TRUE}]
           Reached == {n \in Nat : \E g : g = [s \in Level(n) |-> Following(g, s)]}
<1>1. \A T \in SUBSET S : IsFiniteSet(T) /\ Cardinality(T) \in Nat /\ Cardinality(T) <= Cardinality(S)
  BY FS_Subset, FS_CardinalityType
<1>2. \A T \in SUBSET S : T # {} =>
        (CHOOSE x \in T : TRUE) \in T /\ Cardinality(T \ {CHOOSE x \in T : TRUE}) = Cardinality(T) - 1
  <2> TAKE T \in SUBSET S
  <2> HAVE T # {}
  <2>1. (CHOOSE x \in T : TRUE) \in T
    OBVIOUS
  <2> QED
    BY <1>1, <2>1, FS_RemoveElement
<1>3. 0 \in Reached
  <2> DEFINE g == [s \in Level(0) |-> 0]
  <2>1. \A s \in Level(0) : s = {}
    BY <1>1, FS_EmptySet
  <2>2. g = [s \in Level(0) |-> Following(g, s)]
    BY <2>1
  <2> QED
    BY <2>2
<1>4. ASSUME NEW n \in Nat, n \in Reached PROVE n + 1 \in Reached
  <2>1. PICK g : g = [s \in Level(n) |-> Following(g, s)]
    BY <1>4
  <2> DEFINE h == [s \in Level(n + 1) |-> Following(g, s)]
  <2>2. \A s \in Level(n) : s \in Level(n + 1) /\ h[s] = g[s]
    <3> TAKE s \in Level(n)
    <3>1. s \in Level(n + 1)
      BY <1>1
    <3>2. g[s] = Following(g, s)
      BY <2>1
    <3> QED
      BY <3>1, <3>2
  <2>3. \A s \in Level(n + 1) : s # {} => s \ {CHOOSE x \in s : TRUE} \in Level(n)
    BY <1>1, <1>2
  <2> HIDE DEF Level
  <2>4. ASSUME NEW s \in Level(n + 1) PROVE Following(h, s) = Following(g, s)
    <3>1. s = {} \/ h[s \ {CHOOSE x \in s : TRUE}] = g[s \ {CHOOSE x \in s : TRUE}]
      BY <2>2, <2>3
    <3> HIDE DEF h
    <3> QED
      BY <3>1
  <2>6. h = [s \in Level(n + 1) |-> Following(g, s)]
    OBVIOUS
  <2> HIDE DEF h, Following
  <2>5. h = [s \in Level(n + 1) |-> Following(h, s)]
    BY <2>4, <2>6
  <2> QED
    BY <2>5
<1>5. Cardinality(S) \in Reached
  <2> HIDE DEF Reached
  <2> QED
    BY <1>1, <1>3, <1>4, EveryNumber
<1>6. Level(Cardinality(S)) = SUBSET S
  BY <1>1
<1> HIDE DEF Level
<1>7. PICK g : g = [s \in SUBSET S |-> Following(g, s)]
  BY <1>5, <1>6
<1> QED
  BY <1>7 DEF SumRule

(* What is summed of a part of a set does not depend on the set. *)
LEMMA SumRulesAgree ==
    ASSUME NEW f, NEW S, IsFiniteSet(S), NEW R \in SUBSET S, NEW g, SumRule(g, f, S), NEW h, SumRule(h, f, R)
    PROVE  \A T \in SUBSET R : g[T] = h[T]
<1> DEFINE Same == {n \in Nat : \A T \in SUBSET R : Cardinality(T) = n => g[T] = h[T]}
<1>1. \A T \in SUBSET R : IsFiniteSet(T) /\ Cardinality(T) \in Nat
  BY FS_Subset, FS_CardinalityType
<1>2. \A T \in SUBSET R :
        /\ g[T] = IF T = {} THEN 0 ELSE f[CHOOSE x \in T : TRUE] + g[T \ {CHOOSE x \in T : TRUE}]
        /\ h[T] = IF T = {} THEN 0 ELSE f[CHOOSE x \in T : TRUE] + h[T \ {CHOOSE x \in T : TRUE}]
  <2> TAKE T \in SUBSET R
  <2>1. T \in SUBSET S
    OBVIOUS
  <2> QED
    BY <2>1 DEF SumRule
<1>3. 0 \in Same
  BY <1>1, <1>2, FS_EmptySet
<1>4. ASSUME NEW n \in Nat, n \in Same PROVE n + 1 \in Same
  <2> SUFFICES ASSUME NEW T \in SUBSET R, Cardinality(T) = n + 1 PROVE g[T] = h[T]
    OBVIOUS
  <2>1. T # {}
    BY FS_EmptySet, <1>1
  <2>2. (CHOOSE x \in T : TRUE) \in T
    BY <2>1
  <2> DEFINE U == T \ {CHOOSE x \in T : TRUE}
  <2>3. U \in SUBSET R /\ Cardinality(U) = n
    <3>1. IsFiniteSet(T)
      BY <1>1
    <3>2. Cardinality(U) = Cardinality(T) - 1
      BY <3>1, <2>2, FS_RemoveElement
    <3> QED
      BY <3>2
  <2>4. g[U] = h[U]
    BY <1>4, <2>3
  <2> QED
    BY <1>2, <2>1, <2>4
<1> HIDE DEF Same
<1>5. \A n \in Nat : n \in Same
  BY <1>3, <1>4, EveryNumber
<1> QED
  BY <1>1, <1>5 DEF Same

(* A sum takes one element, and the sum of the rest. *)
LEMMA SumChosen ==
    ASSUME NEW f, NEW S, IsFiniteSet(S)
    PROVE  /\ SumFunctionOnSet(f, {}) = 0
           /\ S # {} => SumFunctionOnSet(f, S) = f[CHOOSE x \in S : TRUE] + SumFunctionOnSet(f, S \ {CHOOSE x \in S : TRUE})
<1> DEFINE R == S \ {CHOOSE x \in S : TRUE}
           g == CHOOSE g : SumRule(g, f, S)
           h == CHOOSE h : SumRule(h, f, R)
           e == CHOOSE e : SumRule(e, f, {})
<1>1. IsFiniteSet(R) /\ IsFiniteSet({}) /\ R \in SUBSET S /\ {} \in SUBSET {}
  BY FS_Subset, FS_EmptySet
<1>2. SumRule(g, f, S) /\ SumRule(h, f, R) /\ SumRule(e, f, {})
  BY <1>1, SumExists
<1>3. SumFunctionOnSet(f, S) = g[S] /\ SumFunctionOnSet(f, R) = h[R] /\ SumFunctionOnSet(f, {}) = e[{}]
  BY SumIs
<1> HIDE DEF g, h, e
<1>4. g[R] = h[R]
  BY <1>1, <1>2, SumRulesAgree
<1>5. e[{}] = 0
  BY <1>2 DEF SumRule
<1>6. S # {} => g[S] = f[CHOOSE x \in S : TRUE] + g[R]
  BY <1>2 DEF SumRule
<1> QED
  BY <1>3, <1>4, <1>5, <1>6

(* A sum of integers is one. *)
LEMMA SumTyped ==
    ASSUME NEW f, NEW S, IsFiniteSet(S), \A x \in S : f[x] \in Int
    PROVE  SumFunctionOnSet(f, S) \in Int
<1> DEFINE Good == {n \in Nat : \A T \in SUBSET S : Cardinality(T) = n => SumFunctionOnSet(f, T) \in Int}
<1>1. \A T \in SUBSET S : IsFiniteSet(T) /\ Cardinality(T) \in Nat
  BY FS_Subset, FS_CardinalityType
<1>2. 0 \in Good
  <2> SUFFICES ASSUME NEW T \in SUBSET S, Cardinality(T) = 0 PROVE SumFunctionOnSet(f, T) \in Int
    OBVIOUS
  <2>1. T = {} /\ IsFiniteSet(T)
    BY <1>1, FS_EmptySet
  <2>2. SumFunctionOnSet(f, T) = 0
    BY <2>1, SumChosen
  <2> QED
    BY <2>2
<1>3. ASSUME NEW n \in Nat, n \in Good PROVE n + 1 \in Good
  <2> SUFFICES ASSUME NEW T \in SUBSET S, Cardinality(T) = n + 1 PROVE SumFunctionOnSet(f, T) \in Int
    OBVIOUS
  <2> DEFINE c == CHOOSE x \in T : TRUE
             U == T \ {c}
  <2>1. T # {} /\ IsFiniteSet(T)
    BY FS_EmptySet, <1>1
  <2>2. c \in T
    BY <2>1
  <2>3. Cardinality(U) = Cardinality(T) - 1 /\ U \in SUBSET S
    BY <2>1, <2>2, FS_RemoveElement
  <2>4. SumFunctionOnSet(f, U) \in Int
    BY <1>3, <2>3
  <2>5. SumFunctionOnSet(f, T) = f[c] + SumFunctionOnSet(f, U)
    BY <2>1, SumChosen
  <2> HIDE DEF c, U
  <2> QED
    BY <2>2, <2>4, <2>5
<1> HIDE DEF Good
<1>4. \A n \in Nat : n \in Good
  BY <1>2, <1>3, EveryNumber
<1> QED
  BY <1>1, <1>4, S \in SUBSET S DEF Good

(* The order of a sum of integers does not matter. *)
LEMMA SumTaken ==
    ASSUME NEW f, NEW S, IsFiniteSet(S), \A x \in S : f[x] \in Int, NEW x \in S
    PROVE  SumFunctionOnSet(f, S) = f[x] + SumFunctionOnSet(f, S \ {x})
<1> DEFINE Sum(T) == SumFunctionOnSet(f, T)
           Good == {n \in Nat : \A T \in SUBSET S : Cardinality(T) = n => \A y \in T : Sum(T) = f[y] + Sum(T \ {y})}
<1>1. \A T \in SUBSET S : IsFiniteSet(T) /\ Cardinality(T) \in Nat
  BY FS_Subset, FS_CardinalityType
<1>2. \A T \in SUBSET S : Sum(T) \in Int
  BY <1>1, SumTyped
<1>3. 0 \in Good
  BY <1>1, FS_EmptySet
<1>4. ASSUME NEW n \in Nat, n \in Good PROVE n + 1 \in Good
  <2> SUFFICES ASSUME NEW T \in SUBSET S, Cardinality(T) = n + 1, NEW y \in T
               PROVE  Sum(T) = f[y] + Sum(T \ {y})
    OBVIOUS
  <2> DEFINE c == CHOOSE z \in T : TRUE
  <2>1. c \in T
    OBVIOUS
  <2>2. \A z \in T : T \ {z} \in SUBSET S /\ Cardinality(T \ {z}) = n
    <3> TAKE z \in T
    <3>1. IsFiniteSet(T)
      BY <1>1
    <3>2. Cardinality(T \ {z}) = Cardinality(T) - 1
      BY <3>1, FS_RemoveElement
    <3> QED
      BY <3>2
  <2>3. \A z \in T : \A w \in T \ {z} : Sum(T \ {z}) = f[w] + Sum((T \ {z}) \ {w})
    BY <1>4, <2>2
  <2>4. Sum(T) = f[c] + Sum(T \ {c})
    BY <1>1, SumChosen
  <2> HIDE DEF c
  <2>5. CASE y = c
    BY <2>4, <2>5
  <2>6. CASE y # c
    <3> DEFINE r == Sum((T \ {c}) \ {y})
               p == Sum(T \ {c})
               q == Sum(T \ {y})
    <3>1. (T \ {y}) \ {c} = (T \ {c}) \ {y} /\ y \in T \ {c} /\ c \in T \ {y}
      BY <2>6, <2>1
    <3>2. p = f[y] + r
      BY <2>1, <2>3, <3>1
    <3>3. q = f[c] + r
      BY <2>1, <2>3, <3>1
    <3>4. r \in Int /\ f[y] \in Int /\ f[c] \in Int
      BY <1>2, <2>1
    <3>5. Sum(T) = f[c] + p
      BY <2>4
    <3> HIDE DEF r, p, q
    <3>6. Sum(T) = f[y] + q
      BY <3>2, <3>3, <3>4, <3>5
    <3> QED
      BY <3>6 DEF q
  <2> QED
    BY <2>5, <2>6
<1> HIDE DEF Good
<1>5. \A n \in Nat : n \in Good
  BY <1>3, <1>4, EveryNumber
<1> QED
  BY <1>1, <1>5, S \in SUBSET S DEF Good

(* Sums are equal when what is summed is. *)
LEMMA SumSame ==
    ASSUME NEW S, IsFiniteSet(S), NEW f, NEW g, \A x \in S : f[x] \in Int /\ f[x] = g[x]
    PROVE  SumFunctionOnSet(f, S) = SumFunctionOnSet(g, S)
<1> DEFINE P == {T \in SUBSET S : SumFunctionOnSet(f, T) = SumFunctionOnSet(g, T)}
<1>1. \A T \in SUBSET S : IsFiniteSet(T)
  BY FS_Subset
<1>2. {} \in P
  BY FS_EmptySet, SumChosen
<1>3. ASSUME NEW T \in SUBSET S, NEW x \in S, T \in P, x \notin T PROVE T \cup {x} \in P
  <2>1. (T \cup {x}) \ {x} = T /\ IsFiniteSet(T \cup {x}) /\ x \in T \cup {x}
    BY <1>1, <1>3
  <2>2. SumFunctionOnSet(f, T \cup {x}) = f[x] + SumFunctionOnSet(f, T)
    BY <2>1, SumTaken
  <2>3. SumFunctionOnSet(g, T \cup {x}) = g[x] + SumFunctionOnSet(g, T)
    BY <2>1, SumTaken
  <2> QED
    BY <1>3, <2>2, <2>3
<1> HIDE DEF P
<1>4. S \in P
  BY <1>2, <1>3, EverySubset, S \in SUBSET S
<1> QED
  BY <1>4 DEF P

(* One more element adds what is summed of it. *)
LEMMA SumAdded ==
    ASSUME NEW S, IsFiniteSet(S), NEW f, \A x \in S : f[x] \in Int, NEW y, y \notin S, f[y] \in Int
    PROVE  SumFunctionOnSet(f, S \cup {y}) = f[y] + SumFunctionOnSet(f, S)
<1>1. (S \cup {y}) \ {y} = S /\ IsFiniteSet(S \cup {y}) /\ y \in S \cup {y}
  BY FS_AddElement
<1> QED
  BY <1>1, SumTaken

(* The sum over two sets that share nothing. *)
LEMMA SumSplit ==
    ASSUME NEW S, IsFiniteSet(S), NEW R, IsFiniteSet(R), S \cap R = {}, NEW f, \A x \in S \cup R : f[x] \in Int
    PROVE  SumFunctionOnSet(f, S \cup R) = SumFunctionOnSet(f, S) + SumFunctionOnSet(f, R)
<1> DEFINE P == {T \in SUBSET R : SumFunctionOnSet(f, S \cup T) = SumFunctionOnSet(f, S) + SumFunctionOnSet(f, T)}
<1>1. \A T \in SUBSET R : IsFiniteSet(T) /\ IsFiniteSet(S \cup T)
  BY FS_Subset, FS_Union
<1>2. \A T \in SUBSET R : SumFunctionOnSet(f, T) \in Int
  BY <1>1, SumTyped
<1>3. SumFunctionOnSet(f, S) \in Int
  BY SumTyped
<1>4. {} \in P
  <2>1. SumFunctionOnSet(f, {}) = 0 /\ S \cup {} = S
    BY FS_EmptySet, SumChosen
  <2> QED
    BY <2>1, <1>3
<1>5. ASSUME NEW T \in SUBSET R, NEW x \in R, T \in P, x \notin T PROVE T \cup {x} \in P
  <2>1. S \cup (T \cup {x}) = (S \cup T) \cup {x} /\ x \notin S \cup T
    BY <1>5
  <2>2. SumFunctionOnSet(f, (S \cup T) \cup {x}) = f[x] + SumFunctionOnSet(f, S \cup T)
    BY <2>1, <1>1, SumAdded
  <2>3. SumFunctionOnSet(f, T \cup {x}) = f[x] + SumFunctionOnSet(f, T)
    BY <1>5, <1>1, SumAdded
  <2>4. SumFunctionOnSet(f, S \cup T) = SumFunctionOnSet(f, S) + SumFunctionOnSet(f, T)
    BY <1>5
  <2>5. f[x] \in Int /\ SumFunctionOnSet(f, T) \in Int
    BY <1>2
  <2> DEFINE all == SumFunctionOnSet(f, S \cup T)
             old == SumFunctionOnSet(f, S)
             new == SumFunctionOnSet(f, T)
  <2>6. f[x] + all = old + (f[x] + new)
    <3>1. all = old + new /\ old \in Int /\ new \in Int /\ f[x] \in Int
      BY <2>4, <2>5, <1>3
    <3> HIDE DEF all, old, new
    <3> QED
      BY <3>1
  <2> HIDE DEF all, old, new
  <2> QED
    BY <2>1, <2>2, <2>3, <2>6 DEF all, old, new
<1> HIDE DEF P
<1>6. R \in P
  BY <1>4, <1>5, EverySubset, R \in SUBSET R
<1> QED
  BY <1>6 DEF P

(* The sum of multiples and what is added to them. *)
LEMMA SumPlus ==
    ASSUME NEW S, IsFiniteSet(S), NEW f, NEW g, NEW h, NEW k \in Int,
           \A x \in S : f[x] \in Int /\ g[x] \in Int /\ h[x] = k * f[x] + g[x]
    PROVE  SumFunctionOnSet(h, S) = k * SumFunctionOnSet(f, S) + SumFunctionOnSet(g, S)
<1> DEFINE P == {T \in SUBSET S : SumFunctionOnSet(h, T) = k * SumFunctionOnSet(f, T) + SumFunctionOnSet(g, T)}
<1>1. \A T \in SUBSET S : IsFiniteSet(T)
  BY FS_Subset
<1>2. \A x \in S : h[x] \in Int
  <2> TAKE x \in S
  <2>1. f[x] \in Int /\ g[x] \in Int /\ k * f[x] \in Int
    OBVIOUS
  <2> QED
    BY <2>1
<1>3. \A T \in SUBSET S : SumFunctionOnSet(f, T) \in Int /\ SumFunctionOnSet(g, T) \in Int
  BY <1>1, SumTyped
<1>4. {} \in P
  <2>1. SumFunctionOnSet(f, {}) = 0 /\ SumFunctionOnSet(g, {}) = 0 /\ SumFunctionOnSet(h, {}) = 0
    BY FS_EmptySet, SumChosen
  <2> QED
    BY <2>1
<1>5. ASSUME NEW T \in SUBSET S, NEW x \in S, T \in P, x \notin T PROVE T \cup {x} \in P
  <2>1. SumFunctionOnSet(h, T \cup {x}) = h[x] + SumFunctionOnSet(h, T)
    BY <1>1, <1>2, <1>5, SumAdded
  <2>2. SumFunctionOnSet(f, T \cup {x}) = f[x] + SumFunctionOnSet(f, T)
    BY <1>1, <1>5, SumAdded
  <2>3. SumFunctionOnSet(g, T \cup {x}) = g[x] + SumFunctionOnSet(g, T)
    BY <1>1, <1>5, SumAdded
  <2> DEFINE sf == SumFunctionOnSet(f, T)
             sg == SumFunctionOnSet(g, T)
             sh == SumFunctionOnSet(h, T)
  <2>4. h[x] + sh = k * (f[x] + sf) + (g[x] + sg)
    <3>1. sh = k * sf + sg /\ sf \in Int /\ sg \in Int
      BY <1>3, <1>5
    <3>2. f[x] \in Int /\ g[x] \in Int /\ h[x] = k * f[x] + g[x]
      OBVIOUS
    <3> HIDE DEF sf, sg, sh
    <3>3. k * (f[x] + sf) = k * f[x] + k * sf /\ k * f[x] \in Int /\ k * sf \in Int
      BY <3>1, <3>2
    <3> QED
      BY <3>1, <3>2, <3>3
  <2> QED
    BY <2>1, <2>2, <2>3, <2>4
<1> HIDE DEF P
<1>6. S \in P
  BY <1>4, <1>5, EverySubset, S \in SUBSET S
<1> QED
  BY <1>6 DEF P

(* A sum by groups. *)
Fibre(of, S, k) == {x \in S : of[x] = k}
(* A sum over a set is that of the sums over the parts that share a name. *)
LEMMA SumGrouped ==
    ASSUME NEW S, IsFiniteSet(S), NEW f, \A x \in S : f[x] \in Int,
           NEW K, IsFiniteSet(K), NEW of, \A x \in S : of[x] \in K,
           NEW g, \A k \in K : g[k] = SumFunctionOnSet(f, Fibre(of, S, k))
    PROVE  SumFunctionOnSet(f, S) = SumFunctionOnSet(g, K)
<1> DEFINE In(L) == {x \in S : of[x] \in L}
           P == {L \in SUBSET K : SumFunctionOnSet(f, In(L)) = SumFunctionOnSet(g, L)}
<1>1. \A T \in SUBSET S : IsFiniteSet(T) /\ SumFunctionOnSet(f, T) \in Int
  BY FS_Subset, SumTyped
<1>2. \A k \in K : g[k] \in Int
  <2> TAKE k \in K
  <2>1. Fibre(of, S, k) \in SUBSET S
    BY DEF Fibre
  <2> QED
    BY <1>1, <2>1
<1>3. \A L \in SUBSET K : IsFiniteSet(L)
  BY FS_Subset
<1>4. {} \in P
  BY FS_EmptySet, SumChosen, In({}) = {}
<1>5. ASSUME NEW L \in SUBSET K, NEW k \in K, L \in P, k \notin L PROVE L \cup {k} \in P
  <2> DEFINE one == {x \in S : of[x] = k}
  <2>1. In(L \cup {k}) = In(L) \cup one /\ In(L) \cap one = {} /\ one \in SUBSET S /\ In(L) \in SUBSET S
    BY <1>5
  <2>2. SumFunctionOnSet(f, In(L \cup {k})) = SumFunctionOnSet(f, In(L)) + SumFunctionOnSet(f, one)
    <3> DEFINE rest == In(L)
    <3>1. /\ IsFiniteSet(rest) /\ IsFiniteSet(one) /\ rest \cap one = {}
          /\ \A x \in rest \cup one : f[x] \in Int
      BY <2>1, <1>1
    <3> HIDE DEF one, rest
    <3>2. SumFunctionOnSet(f, rest \cup one) = SumFunctionOnSet(f, rest) + SumFunctionOnSet(f, one)
      BY <3>1, SumSplit
    <3> QED
      BY <2>1, <3>2 DEF rest
  <2>3. SumFunctionOnSet(g, L \cup {k}) = g[k] + SumFunctionOnSet(g, L)
    BY <1>2, <1>3, <1>5, SumAdded
  <2>4. SumFunctionOnSet(f, In(L)) = SumFunctionOnSet(g, L) /\ g[k] = SumFunctionOnSet(f, one)
    BY <1>5 DEF Fibre
  <2>5. SumFunctionOnSet(f, In(L)) \in Int /\ g[k] \in Int
    BY <2>1, <1>1, <1>2
  <2> HIDE DEF In, one
  <2>6. SumFunctionOnSet(f, In(L \cup {k})) = SumFunctionOnSet(g, L \cup {k})
    BY <2>2, <2>3, <2>4, <2>5
  <2> QED
    BY <2>6
<1> HIDE DEF P
<1>6. K \in P
  BY <1>4, <1>5, EverySubset, K \in SUBSET K
<1>7. In(K) = S
  OBVIOUS
<1> QED
  BY <1>6, <1>7 DEF P

(* A sum of the differences of neighbours. *)
LEMMA SumTelescopes ==
    ASSUME NEW n \in Nat, NEW v, \A k \in 1..n + 1 : v[k] \in Int, NEW f, \A k \in 1..n : f[k] = v[k + 1] - v[k]
    PROVE  SumFunctionOnSet(f, 1..n) = v[n + 1] - v[1]
<1> DEFINE P == {m \in Nat : m <= n => SumFunctionOnSet(f, 1..m) = v[m + 1] - v[1]}
<1>1. \A k \in 1..n : f[k] \in Int
  <2> TAKE k \in 1..n
  <2>1. v[k + 1] \in Int /\ v[k] \in Int
    OBVIOUS
  <2> QED
    BY <2>1
<1>2. 0 \in P
  <2>3. SumFunctionOnSet(f, {}) = 0
    BY FS_EmptySet, SumChosen
  <2>1. 1..0 = {} /\ SumFunctionOnSet(f, 1..0) = 0
    <3>1. 1..0 = {}
      OBVIOUS
    <3> QED
      BY <2>3, <3>1
  <2>2. v[1] \in Int /\ 0 + 1 = 1
    OBVIOUS
  <2> QED
    BY <2>1, <2>2
<1>3. ASSUME NEW m \in Nat, m \in P PROVE m + 1 \in P
  <2> SUFFICES ASSUME m + 1 <= n PROVE SumFunctionOnSet(f, 1..m + 1) = v[m + 2] - v[1]
    OBVIOUS
  <2>1. 1..m + 1 = (1..m) \cup {m + 1} /\ m + 1 \notin 1..m /\ m + 1 \in 1..n
    OBVIOUS
  <2>2. IsFiniteSet(1..m) /\ \A k \in (1..m) \cup {m + 1} : f[k] \in Int
    BY <1>1, <2>1, FS_Interval
  <2>3. SumFunctionOnSet(f, (1..m) \cup {m + 1}) = f[m + 1] + SumFunctionOnSet(f, 1..m)
    BY <2>1, <2>2, SumAdded
  <2>4. SumFunctionOnSet(f, 1..m) = v[m + 1] - v[1] /\ f[m + 1] = v[m + 2] - v[m + 1]
    BY <1>3, <2>1
  <2>5. v[m + 1] \in Int /\ v[1] \in Int /\ v[m + 2] \in Int
    OBVIOUS
  <2> DEFINE sum == SumFunctionOnSet(f, 1..m)
  <2>6. f[m + 1] + sum = v[m + 2] - v[1]
    <3> HIDE DEF sum
    <3> QED
      BY <2>4, <2>5 DEF sum
  <2> QED
    BY <2>1, <2>3, <2>6
<1> HIDE DEF P
<1>4. n \in P
  BY <1>2, <1>3, EveryNumber
<1> QED
  BY <1>4 DEF P

-----------------------------------------------------------------------------
(* Performance reports: sorting *)

(* A finite set that is ordered in full can be put in that order. *)
LEMMA SortedExists ==
    ASSUME NEW S, IsFiniteSet(S), NEW R,
           \A x, y \in S : x # y => <<x, y>> \in R \/ <<y, x>> \in R,
           \A x, y, z \in S : <<x, y>> \in R /\ <<y, z>> \in R => <<x, z>> \in R
    PROVE  \E s \in [1..Cardinality(S) -> S] : \A k, l \in DOMAIN s : k < l => <<s[k], s[l]>> \in R
<1> DEFINE Sorts(s, T) == /\ s \in [1..Cardinality(T) -> T] /\ \A x \in T : \E k \in DOMAIN s : s[k] = x
                          /\ \A k, l \in DOMAIN s : k < l => <<s[k], s[l]>> \in R
           P == {T \in SUBSET S : \E s : Sorts(s, T)}
<1>1. \A T \in SUBSET S : IsFiniteSet(T) /\ Cardinality(T) \in Nat
  BY FS_Subset, FS_CardinalityType
<1>2. {} \in P
  <2>1. Cardinality({}) = 0 /\ 1..0 = {}
    BY FS_EmptySet
  <2> DEFINE e == [k \in {} |-> 0]
  <2>2. Sorts(e, {})
    BY <2>1
  <2> QED
    BY <2>2
<1>3. ASSUME NEW T \in SUBSET S, NEW x \in S, T \in P, x \notin T PROVE T \cup {x} \in P
  <2>1. PICK s : Sorts(s, T)
    BY <1>3
  <2> DEFINE n == Cardinality(T)
             Above == {k \in 1..n + 1 : k = n + 1 \/ <<x, s[k]>> \in R}
  <2>2. n \in Nat /\ Cardinality(T \cup {x}) = n + 1
    BY <1>1, <1>3, FS_AddElement
  <2>3. DOMAIN s = 1..n /\ \A k \in 1..n : s[k] \in T
    BY <2>1
  <2>4. \A k, l \in 1..n : k < l => <<s[k], s[l]>> \in R
    BY <2>1, <2>3
  <2>5. \A y \in T : \E k \in 1..n : s[k] = y
    BY <2>1, <2>3
  <2> HIDE DEF n
  <2>6. PICK p \in Above : \A k \in Above : p <= k
    <3>1. Above \in SUBSET Nat /\ n + 1 \in Above
      BY <2>2
    <3> QED
      BY <3>1, FirstOf
  <2>7. \A k \in 1..n : k < p => <<s[k], x>> \in R
    <3> SUFFICES ASSUME NEW k \in 1..n, k < p PROVE <<s[k], x>> \in R
      OBVIOUS
    <3>1. k \notin Above
      BY <2>2, <2>6
    <3>2. ~(<<x, s[k]>> \in R) /\ s[k] \in S /\ s[k] # x
      BY <3>1, <2>2, <2>3, <1>3
    <3> QED
      BY <3>2
  <2>8. \A k \in 1..n : p <= k => <<x, s[k]>> \in R
    <3> SUFFICES ASSUME NEW k \in 1..n, p <= k PROVE <<x, s[k]>> \in R
      OBVIOUS
    <3>1. p \in 1..n /\ <<x, s[p]>> \in R
      BY <2>2, <2>6
    <3>2. p = k \/ <<s[p], s[k]>> \in R
      BY <3>1, <2>2, <2>4
    <3> QED
      BY <3>1, <3>2, <2>3
  <2>9. p \in 1..n + 1
    BY <2>6
  <2> HIDE DEF Above
  <2> DEFINE t == [k \in 1..n + 1 |-> IF k < p THEN s[k] ELSE IF k = p THEN x ELSE s[k - 1]]
  <2>10. t \in [1..n + 1 -> T \cup {x}]
    <3> SUFFICES ASSUME NEW k \in 1..n + 1 PROVE t[k] \in T \cup {x}
      OBVIOUS
    <3>1. CASE k < p
      BY <3>1, <2>2, <2>3, <2>9
    <3>2. CASE k = p
      BY <3>2
    <3>3. CASE k > p
      <4>1. k - 1 \in 1..n
        BY <3>3, <2>2, <2>9
      <4> QED
        BY <3>3, <4>1, <2>3, <2>9
    <3> QED
      BY <3>1, <3>2, <3>3, <2>2, <2>9
  <2>11. ASSUME NEW y \in T \cup {x} PROVE \E k \in 1..n + 1 : t[k] = y
    <3>1. CASE y = x
      BY <3>1, <2>9
    <3>2. CASE y \in T
      <4>1. PICK k \in 1..n : s[k] = y
        BY <2>5, <3>2
      <4>2. CASE k < p
        BY <4>1, <4>2, <2>2
      <4>3. CASE p <= k
        <5>1. k + 1 \in 1..n + 1 /\ ~(k + 1 < p) /\ k + 1 # p /\ (k + 1) - 1 = k
          BY <4>3, <2>2, <2>9
        <5>2. t[k + 1] = s[k]
          BY <5>1
        <5> QED
          BY <5>1, <5>2, <4>1
      <4> QED
        BY <4>2, <4>3, <2>2, <2>9
    <3> QED
      BY <3>1, <3>2
  <2>12. ASSUME NEW k \in 1..n + 1, NEW l \in 1..n + 1, k < l PROVE <<t[k], t[l]>> \in R
    <3>1. CASE l < p
      <4>1. k \in 1..n /\ l \in 1..n /\ t[k] = s[k] /\ t[l] = s[l]
        BY <3>1, <2>12, <2>2, <2>9
      <4> QED
        BY <4>1, <2>4, <2>12
    <3>2. CASE l = p
      <4>1. k \in 1..n /\ t[k] = s[k] /\ t[l] = x
        BY <3>2, <2>12, <2>2, <2>9
      <4> QED
        BY <4>1, <2>7, <2>12, <3>2
    <3>3. CASE l > p
      <4>1. l - 1 \in 1..n /\ t[l] = s[l - 1] /\ p <= l - 1
        BY <3>3, <2>12, <2>2, <2>9
      <4>2. CASE k < p
        <5>1. k \in 1..n /\ t[k] = s[k] /\ k < l - 1
          BY <4>1, <4>2, <2>2, <2>9
        <5> QED
          BY <4>1, <5>1, <2>4
      <4>3. CASE k = p
        BY <4>1, <4>3, <2>8
      <4>4. CASE k > p
        <5>1. k - 1 \in 1..n /\ t[k] = s[k - 1] /\ k - 1 < l - 1
          BY <4>4, <2>12, <2>2, <2>9
        <5> QED
          BY <4>1, <5>1, <2>4
      <4> QED
        BY <4>2, <4>3, <4>4, <2>2, <2>9
    <3> QED
      BY <3>1, <3>2, <3>3, <2>2, <2>9
  <2> HIDE DEF t
  <2>13. Sorts(t, T \cup {x})
    BY <2>2, <2>10, <2>11, <2>12
  <2> QED
    BY <2>13
<1> HIDE DEF P
<1>4. S \in P
  BY <1>2, <1>3, EverySubset, S \in SUBSET S
<1> QED
  BY <1>4 DEF P

-----------------------------------------------------------------------------
(* Flows of days *)

MoneyByDay == [Days -> Nat]
Span(after, until) == {d \in Days : after < d /\ d <= until}

(* There are finitely many days. *)
LEMMA DaysFinite == IsFiniteSet(Days) /\ Days \subseteq Int /\ \A S \in SUBSET Days : IsFiniteSet(S)
<1>1. LastDay \in Nat
  BY PerformanceAssumption
<1>2. IsFiniteSet(Days)
  BY <1>1, FS_Interval DEF Days
<1>3. \A S \in SUBSET Days : IsFiniteSet(S)
  BY <1>2, FS_Subset
<1>4. Days \subseteq Int
  BY <1>1 DEF Days
<1> QED
  BY <1>2, <1>3, <1>4

(* The money of a stretch of days is a number. *)
LEMMA FlowsTyped ==
    ASSUME NEW f \in MoneyByDay, NEW a \in Int, NEW b \in Int PROVE Flows(f, a, b) \in Int
<1>1. Span(a, b) \in SUBSET Days /\ \A d \in Span(a, b) : f[d] \in Int
  BY DEF Span, MoneyByDay
<1> QED
  BY <1>1, DaysFinite, SumTyped DEF Flows, Span

(* The money of two stretches that follow one another adds up. *)
LEMMA FlowsSplit ==
    ASSUME NEW f \in MoneyByDay, NEW a \in Int, NEW b \in Int, NEW c \in Int, a <= b, b <= c
    PROVE  Flows(f, a, c) = Flows(f, a, b) + Flows(f, b, c)
<1>0. \A d \in Days : d \in Int
  BY DaysFinite
<1>1. /\ Span(a, c) = Span(a, b) \cup Span(b, c) /\ Span(a, b) \cap Span(b, c) = {}
      /\ Span(a, b) \in SUBSET Days /\ Span(b, c) \in SUBSET Days
  <2>1. \A d \in Days : (a < d /\ d <= c) <=> (a < d /\ d <= b) \/ (b < d /\ d <= c)
    BY <1>0
  <2>2. \A d \in Days : ~((a < d /\ d <= b) /\ (b < d /\ d <= c))
    BY <1>0
  <2> QED
    BY <2>1, <2>2, Zenon DEF Span
<1>2. \A d \in Span(a, b) \cup Span(b, c) : f[d] \in Int
  BY <1>1 DEF MoneyByDay
<1>3. IsFiniteSet(Span(a, b)) /\ IsFiniteSet(Span(b, c))
  BY <1>1, DaysFinite
<1> HIDE DEF Span
<1>4. SumFunctionOnSet(f, Span(a, b) \cup Span(b, c)) = SumFunctionOnSet(f, Span(a, b)) + SumFunctionOnSet(f, Span(b, c))
  BY <1>1, <1>2, <1>3, SumSplit
<1> QED
  BY <1>1, <1>4 DEF Flows, Span

(* Flows that agree on a stretch of days are the same there. *)
LEMMA FlowsSame ==
    ASSUME NEW f \in MoneyByDay, NEW g \in MoneyByDay, NEW a \in Int, NEW b \in Int, \A d \in Span(a, b) : f[d] = g[d]
    PROVE  Flows(f, a, b) = Flows(g, a, b)
<1>1. Span(a, b) \in SUBSET Days /\ IsFiniteSet(Span(a, b))
  BY DaysFinite DEF Span
<1>2. \A d \in Span(a, b) : f[d] \in Int /\ f[d] = g[d]
  BY <1>1 DEF MoneyByDay
<1>3. SumFunctionOnSet(f, Span(a, b)) = SumFunctionOnSet(g, Span(a, b))
  BY <1>1, <1>2, SumSame
<1> QED
  BY <1>3 DEF Flows, Span

(* Nothing adds up to nothing. *)
LEMMA SumOfNone ==
    ASSUME NEW S, IsFiniteSet(S), NEW f, \A x \in S : f[x] = 0 PROVE SumFunctionOnSet(f, S) = 0
<1> DEFINE P == {T \in SUBSET S : SumFunctionOnSet(f, T) = 0}
<1>1. {} \in P
  BY FS_EmptySet, SumChosen
<1>2. ASSUME NEW T \in SUBSET S, NEW x \in S, T \in P, x \notin T PROVE T \cup {x} \in P
  <2>1. IsFiniteSet(T)
    BY FS_Subset
  <2>2. SumFunctionOnSet(f, T \cup {x}) = f[x] + SumFunctionOnSet(f, T)
    BY <2>1, <1>2, SumAdded
  <2> QED
    BY <1>2, <2>2
<1> HIDE DEF P
<1>3. S \in P
  BY <1>1, <1>2, EverySubset, S \in SUBSET S
<1> QED
  BY <1>3 DEF P

(* A sum of amounts is no less than any of them. *)
LEMMA SumOfSome ==
    ASSUME NEW S, IsFiniteSet(S), NEW f, \A x \in S : f[x] \in Nat
    PROVE  SumFunctionOnSet(f, S) \in Nat /\ \A x \in S : f[x] <= SumFunctionOnSet(f, S)
<1> DEFINE P == {T \in SUBSET S : SumFunctionOnSet(f, T) \in Nat}
<1>1. {} \in P
  <2>1. SumFunctionOnSet(f, {}) = 0
    BY FS_EmptySet, SumChosen
  <2> QED
    BY <2>1
<1>2. ASSUME NEW T \in SUBSET S, NEW x \in S, T \in P, x \notin T PROVE T \cup {x} \in P
  <2>1. IsFiniteSet(T)
    BY FS_Subset
  <2>2. SumFunctionOnSet(f, T \cup {x}) = f[x] + SumFunctionOnSet(f, T)
    BY <2>1, <1>2, SumAdded
  <2> QED
    BY <1>2, <2>2
<1> HIDE DEF P
<1>3. \A T \in SUBSET S : T \in P
  BY <1>1, <1>2, EverySubset
<1>4. ASSUME NEW x \in S PROVE f[x] <= SumFunctionOnSet(f, S)
  <2>1. SumFunctionOnSet(f, S) = f[x] + SumFunctionOnSet(f, S \ {x})
    BY SumTaken
  <2>2. SumFunctionOnSet(f, S \ {x}) \in Nat
    BY <1>3, S \ {x} \in SUBSET S DEF P
  <2> QED
    BY <2>1, <2>2
<1> QED
  BY <1>3, <1>4, S \in SUBSET S DEF P

(* No money came in on a stretch of days exactly if none did on any of them. *)
LEMMA FlowsNone ==
    ASSUME NEW f \in MoneyByDay, NEW a \in Int, NEW b \in Int
    PROVE  Flows(f, a, b) \in Nat /\ (Flows(f, a, b) = 0 <=> \A d \in Span(a, b) : f[d] = 0)
<1>1. IsFiniteSet(Span(a, b)) /\ \A d \in Span(a, b) : f[d] \in Nat
  BY DaysFinite DEF Span, MoneyByDay
<1>2. SumFunctionOnSet(f, Span(a, b)) \in Nat /\ \A d \in Span(a, b) : f[d] <= SumFunctionOnSet(f, Span(a, b))
  BY <1>1, SumOfSome
<1>3. (\A d \in Span(a, b) : f[d] = 0) => SumFunctionOnSet(f, Span(a, b)) = 0
  BY <1>1, SumOfNone
<1> HIDE DEF Span
<1>4. Flows(f, a, b) = SumFunctionOnSet(f, Span(a, b))
  BY DEF Flows, Span
<1> QED
  BY <1>1, <1>2, <1>3, <1>4

(* The money of a stretch of one day. *)
LEMMA FlowsOfDay ==
    ASSUME NEW f \in MoneyByDay, NEW d \in Days PROVE Flows(f, d - 1, d) = f[d]
<1>1. Span(d - 1, d) = {d}
  <2>1. \A e \in Days : d - 1 < e /\ e <= d <=> e = d
    BY DaysFinite
  <2> QED
    BY <2>1 DEF Span
<1>2. IsFiniteSet({d}) /\ {d} \ {d} = {} /\ f[d] \in Nat
  BY FS_Singleton DEF MoneyByDay
<1>3. SumFunctionOnSet(f, {d}) = f[d] + SumFunctionOnSet(f, {})
  <2>1. \A x \in {d} : f[x] \in Int
    BY <1>2
  <2> QED
    BY <1>2, <2>1, SumTaken
<1>4. SumFunctionOnSet(f, {}) = 0
  BY FS_EmptySet, SumChosen
<1>5. Flows(f, d - 1, d) = SumFunctionOnSet(f, Span(d - 1, d))
  BY DEF Flows, Span
<1> QED
  BY <1>1, <1>2, <1>3, <1>4, <1>5

-----------------------------------------------------------------------------
(* What a report knows *)

Snaps == [day : Days, how : {"ok", "short", "unvalued"}, late : BOOLEAN, gain : Int, value : Int]
Reports == [pc : {"none", "holdings", "ledger", "range", "flows", "done"}, live : BOOLEAN, vouched : BOOLEAN,
            from : Days, to : Days, rows : SUBSET Nat, end : Int, observed : Nat, told : MoneyByDay,
            reasons : SUBSET {"failed", "unpriced", "unstated", "conflict", "incomplete"},
            endGain : Int, moved : BOOLEAN]
NoFlows == [d \in Days |-> 0]

PerfTyped ==
    /\ today \in Days /\ wealth \in [gain : Int, flow : MoneyByDay] /\ snaps \in Seq(Snaps) /\ perf \in Reports

(* What came in on the day of a value before it was taken is in it. *)
SnapTrue(x) ==
    /\ x.day <= today
    /\ \E c \in 0..wealth.flow[x.day] :
          /\ x.how # "short" => x.value = Opening + x.gain + Flows(wealth.flow, -1, x.day - 1) + c
          /\ ~x.late => c = wealth.flow[x.day]

\* The stored values of a report are of its period; flows that are vouched for are none.
RowsOfPeriod ==
    /\ perf.to <= today
    /\ perf.rows \subseteq DOMAIN snaps
    /\ \A i \in perf.rows : perf.from <= snaps[i].day /\ snaps[i].day <= perf.to
    /\ perf.pc # "done" \/ perf.vouched => perf.told = NoFlows

\* Up to a value that nothing came in after, the ledger told what came in.
LedgerTold ==
    perf.pc = "done" /\ ~perf.vouched =>
        \A i \in perf.rows : ~snaps[i].late => \A d \in Days : d <= snaps[i].day => perf.told[d] = wealth.flow[d]

(* A live report that nothing spoke against so far, when no money came in. *)
Quiet == perf.live /\ perf.vouched /\ perf.reasons = {} /\ ~perf.moved
LiveSoFar ==
    Quiet =>
        /\ perf.pc \notin {"none", "done"} => \A d \in Days : d > perf.to => wealth.flow[d] = 0
        /\ perf.pc \in {"ledger", "range", "flows"} => perf.end = Opening + perf.endGain + Flows(wealth.flow, -1, LastDay)
        /\ perf.pc \in {"range", "flows"} => perf.observed = Flows(wealth.flow, perf.from - 1, perf.to)
\* Then all its values differ by what the markets gave alone.
LiveTold ==
    Quiet /\ perf.pc = "done" =>
        \E base \in Int :
            /\ perf.end = base + perf.endGain
            /\ \A i \in perf.rows : snaps[i].how # "short" => snaps[i].value = base + snaps[i].gain

PerfInv ==
    /\ PerfTyped /\ RowsOfPeriod /\ LedgerTold /\ LiveSoFar /\ LiveTold
    /\ \A d \in Days : d > today => wealth.flow[d] = 0
    /\ \A i \in DOMAIN snaps : SnapTrue(snaps[i])

(* The days are numbers up to the last. *)
LEMMA DaysAre == LastDay \in Nat /\ 0 \in Days /\ LastDay \in Days /\ \A d \in Days : d \in Nat /\ d <= LastDay
  BY PerformanceAssumption DEF Days

(* The types of the parts of the state. *)
LEMMA PerfFacts ==
    ASSUME PerfTyped
    PROVE  /\ today \in Days /\ wealth.gain \in Int /\ wealth.flow \in MoneyByDay /\ perf \in Reports
           /\ \A i \in DOMAIN snaps : snaps[i] \in Snaps
           /\ wealth = [gain |-> wealth.gain, flow |-> wealth.flow]
  BY DEF PerfTyped

-----------------------------------------------------------------------------
(* What a performance report says *)

(* A value that nothing came in after on its day. *)
LEMMA SnapWorth ==
    ASSUME PerfInv, NEW i \in DOMAIN snaps, snaps[i].how # "short", ~snaps[i].late
    PROVE  snaps[i].value = Opening + snaps[i].gain + Flows(wealth.flow, -1, snaps[i].day)
<1> DEFINE d == snaps[i].day
           flow == wealth.flow
<1>1. d \in Days /\ flow \in MoneyByDay /\ snaps[i].gain \in Int
  BY PerfFacts DEF PerfInv, Snaps
<1>2. snaps[i].value = Opening + snaps[i].gain + Flows(flow, -1, d - 1) + flow[d]
  BY DEF PerfInv, SnapTrue
<1>3. Flows(flow, -1, d) = Flows(flow, -1, d - 1) + flow[d]
  <2> HIDE DEF d, flow
  <2>3. d \in Nat
    BY <1>1, DaysAre
  <2>1. d \in Int /\ d - 1 \in Int /\ -1 <= d - 1 /\ d - 1 <= d /\ -1 \in Int
    BY <2>3
  <2>2. Flows(flow, -1, d) = Flows(flow, -1, d - 1) + Flows(flow, d - 1, d)
    BY <1>1, <2>1, FlowsSplit
  <2> QED
    BY <1>1, <2>2, FlowsOfDay
<1>4. Flows(flow, -1, d - 1) \in Int /\ flow[d] \in Int /\ Opening \in Int
  <2> HIDE DEF d, flow
  <2>3. d \in Nat
    BY <1>1, DaysAre
  <2>1. d - 1 \in Int /\ -1 \in Int
    BY <2>3
  <2> QED
    BY <1>1, <2>1, FlowsTyped, PerformanceAssumption DEF MoneyByDay
<1> HIDE DEF d, flow
<1> QED
  BY <1>1, <1>2, <1>3, <1>4 DEF d, flow

(* A value of a period in which no money came in. *)
LEMMA SnapWorthQuiet ==
    ASSUME PerfInv, NEW i \in DOMAIN snaps, snaps[i].how # "short", NEW from \in Days, NEW to \in Days,
           from <= snaps[i].day, snaps[i].day <= to, Flows(wealth.flow, from - 1, to) = 0
    PROVE  snaps[i].value = Opening + snaps[i].gain + Flows(wealth.flow, -1, from - 1)
<1> DEFINE d == snaps[i].day
           flow == wealth.flow
<1>0. d \in Days /\ flow \in MoneyByDay /\ snaps[i].gain \in Int
  BY PerfFacts DEF PerfInv, Snaps
<1>5. d \in Nat /\ from \in Nat /\ to \in Nat
  <2> HIDE DEF d
  <2> QED
    BY <1>0, DaysAre
<1>1. d \in Days /\ flow \in MoneyByDay /\ snaps[i].gain \in Int /\ d \in Int /\ from \in Int /\ to \in Int /\ 0 <= from
  BY <1>0, <1>5
<1>2. \A e \in Days : from - 1 < e /\ e <= to => flow[e] = 0
  <2>1. from - 1 \in Int
    BY <1>1
  <2> HIDE DEF flow
  <2> QED
    BY <1>1, <2>1, FlowsNone DEF Span, flow
<1>3. snaps[i].value = Opening + snaps[i].gain + Flows(flow, -1, d - 1)
  <2>1. PICK c \in 0..flow[d] : snaps[i].value = Opening + snaps[i].gain + Flows(flow, -1, d - 1) + c
    BY DEF PerfInv, SnapTrue
  <2>2. flow[d] = 0 /\ c = 0
    BY <1>1, <1>2, <2>1
  <2>3. Flows(flow, -1, d - 1) \in Int /\ Opening \in Int
    <3>1. d - 1 \in Int /\ -1 \in Int
      BY <1>1
    <3> HIDE DEF d, flow
    <3> QED
      BY <1>1, <3>1, FlowsTyped, PerformanceAssumption
  <2> HIDE DEF d, flow
  <2> QED
    BY <1>1, <2>1, <2>2, <2>3
<1>4. Flows(flow, -1, d - 1) = Flows(flow, -1, from - 1)
  <2>1. -1 \in Int /\ from - 1 \in Int /\ d - 1 \in Int /\ -1 <= from - 1 /\ from - 1 <= d - 1
    BY <1>1
  <2>2. Flows(flow, -1, d - 1) = Flows(flow, -1, from - 1) + Flows(flow, from - 1, d - 1)
    <3> HIDE DEF d, flow
    <3> QED
      BY <1>1, <2>1, FlowsSplit
  <2>3. \A e \in Span(from - 1, d - 1) : flow[e] = 0
    <3> TAKE e \in Span(from - 1, d - 1)
    <3>1. e \in Days /\ e \in Int /\ from - 1 < e /\ e <= d - 1
      BY DaysAre DEF Span
    <3>2. e <= to
      BY <3>1, <1>1
    <3> QED
      BY <3>1, <3>2, <1>2
  <2>4. Flows(flow, from - 1, d - 1) = 0 /\ Flows(flow, -1, from - 1) \in Int
    <3> HIDE DEF d, flow
    <3> QED
      BY <1>1, <2>1, <2>3, FlowsNone, FlowsTyped
  <2> HIDE DEF d, flow
  <2> QED
    BY <2>2, <2>4
<1> HIDE DEF d, flow
<1> QED
  BY <1>3, <1>4 DEF d, flow

(* Where no flows are told, none are counted. *)
LEMMA NoFlowsNone ==
    ASSUME NEW a \in Int, NEW b \in Int PROVE NoFlows \in MoneyByDay /\ Flows(NoFlows, a, b) = 0
<1>1. NoFlows \in MoneyByDay /\ \A d \in Days : NoFlows[d] = 0
  BY DEF NoFlows, MoneyByDay
<1>2. \A d \in Span(a, b) : NoFlows[d] = 0
  BY <1>1 DEF Span
<1> HIDE DEF NoFlows
<1> QED
  BY <1>1, <1>2, FlowsNone

(* Two values of a report, or the live one, differ by what the markets gave *)
(* and the money told of between them.                                      *)
LEMMA PairTrue ==
    ASSUME PerfInv, perf.pc = "done", InputsSound, NEW i \in perf.rows, NEW j \in perf.rows,
           snaps[i].day <= snaps[j].day, Vouchable(i, j)
    PROVE  snaps[j].value - snaps[i].value - Flows(perf.told, snaps[i].day, snaps[j].day) = snaps[j].gain - snaps[i].gain
<1> DEFINE a == snaps[i].day
           b == snaps[j].day
           u == snaps[i].value
           v == snaps[j].value
           g == snaps[i].gain
           h == snaps[j].gain
           told == perf.told
           flow == wealth.flow
<1>1. /\ i \in DOMAIN snaps /\ j \in DOMAIN snaps /\ snaps[i].how # "short" /\ snaps[j].how # "short"
      /\ perf.from <= a /\ b <= perf.to /\ perf.reasons = {}
  BY DEF PerfInv, RowsOfPeriod, InputsSound
<1>2. /\ a \in Days /\ b \in Days /\ u \in Int /\ v \in Int /\ g \in Int /\ h \in Int
      /\ told \in MoneyByDay /\ flow \in MoneyByDay /\ perf.from \in Days /\ perf.to \in Days
  BY <1>1, PerfFacts DEF PerfInv, Snaps, Reports
<1>3. a \in Nat /\ b \in Nat /\ perf.from \in Nat /\ perf.to \in Nat
  <2> HIDE DEF a, b
  <2> QED
    BY <1>2, DaysAre
<1>4. perf.vouched => told = NoFlows
  BY DEF PerfInv, RowsOfPeriod
<1>5. perf.vouched => Flows(told, a, b) = 0
  <2> HIDE DEF a, b, told
  <2> QED
    BY <1>3, <1>4, NoFlowsNone
<1>6. CASE LiveEnd
  <2>1. Quiet
    BY <1>1, <1>6 DEF LiveEnd, Vouchable, Quiet
  <2>2. PICK base \in Int : u = base + g /\ v = base + h
    BY <1>1, <2>1 DEF PerfInv, LiveTold
  <2>3. Flows(told, a, b) = 0
    BY <1>5, <1>6 DEF LiveEnd
  <2> HIDE DEF a, b, u, v, g, h, told
  <2>4. v - u - Flows(told, a, b) = h - g
    BY <1>2, <2>2, <2>3
  <2> QED
    BY <2>4 DEF a, b, u, v, g, h, told
<1>7. CASE ~LiveEnd /\ perf.vouched
  <2>1. Flows(flow, perf.from - 1, perf.to) = 0
    BY <1>7 DEF Vouchable
  <2>2. perf.from <= b /\ a <= perf.to
    BY <1>1, <1>3
  <2>3. u = Opening + g + Flows(flow, -1, perf.from - 1) /\ v = Opening + h + Flows(flow, -1, perf.from - 1)
    BY <1>1, <1>2, <2>1, <2>2, SnapWorthQuiet
  <2>4. Flows(flow, -1, perf.from - 1) \in Int /\ Opening \in Int
    <3>1. -1 \in Int /\ perf.from - 1 \in Int
      BY <1>3
    <3> QED
      BY <1>2, <3>1, FlowsTyped, PerformanceAssumption
  <2>5. Flows(told, a, b) = 0
    BY <1>5, <1>7
  <2> HIDE DEF a, b, u, v, g, h, told, flow
  <2>6. v - u - Flows(told, a, b) = h - g
    BY <1>2, <2>3, <2>4, <2>5
  <2> QED
    BY <2>6 DEF a, b, u, v, g, h, told
<1>8. CASE ~LiveEnd /\ ~perf.vouched
  <2>1. ~snaps[i].late /\ ~snaps[j].late
    BY <1>8 DEF Vouchable
  <2>2. u = Opening + g + Flows(flow, -1, a) /\ v = Opening + h + Flows(flow, -1, b)
    BY <1>1, <2>1, SnapWorth
  <2>3. \A d \in Span(a, b) : told[d] = flow[d]
    BY <1>8, <2>1 DEF PerfInv, LedgerTold, Span
  <2> HIDE DEF a, b, u, v, g, h, told, flow
  <2>4. Flows(told, a, b) = Flows(flow, a, b)
    BY <1>2, <1>3, <2>3, FlowsSame
  <2>5. Flows(flow, -1, b) = Flows(flow, -1, a) + Flows(flow, a, b)
    <3>1. -1 \in Int /\ -1 <= a /\ a <= b /\ a \in Int /\ b \in Int
      BY <1>3 DEF a, b
    <3> QED
      BY <1>2, <3>1, FlowsSplit
  <2>6. Flows(flow, -1, a) \in Int /\ Flows(flow, a, b) \in Int /\ Opening \in Int
    <3>1. -1 \in Int /\ a \in Int /\ b \in Int
      BY <1>3
    <3> QED
      BY <1>2, <3>1, FlowsTyped, PerformanceAssumption
  <2>7. v - u - Flows(told, a, b) = h - g
    BY <1>2, <2>2, <2>4, <2>5, <2>6
  <2> QED
    BY <2>7 DEF a, b, u, v, g, h, told
<1> QED
  BY <1>6, <1>7, <1>8

(* The series has the values of the period, each once and in the order of their days. *)
LEMMA SeriesIs ==
    ASSUME PerfInv
    PROVE  /\ Len(Series) \in Nat /\ Series \in Seq(perf.rows)
           /\ \A k \in 1..Len(Series) : Series[k] \in perf.rows /\ snaps[Series[k]].how # "unvalued"
           /\ \A k, l \in 1..Len(Series) : k < l => snaps[Series[k]].day <= snaps[Series[l]].day
<1> DEFINE valued == {i \in perf.rows : snaps[i].how # "unvalued"}
           R == {p \in valued \X valued : Before(p[1], p[2])}
           n == Cardinality(valued)
<1>0. \A i : i \in valued <=> i \in perf.rows /\ snaps[i].how # "unvalued"
  OBVIOUS
<1>4. \A x, y \in valued : Before(x, y) <=> <<x, y>> \in R
  OBVIOUS
<1>n. n = Cardinality(valued)
  OBVIOUS
<1>series. Series = CHOOSE s \in [1..n -> valued] : \A k, l \in DOMAIN s : k < l => Before(s[k], s[l])
  BY DEF Series
<1> HIDE DEF valued, R, n
<1>1. perf.rows \subseteq DOMAIN snaps /\ snaps \in Seq(Snaps) /\ \A i \in DOMAIN snaps : snaps[i] \in Snaps
  BY PerfFacts DEF PerfInv, RowsOfPeriod, PerfTyped
<1>2. IsFiniteSet(valued)
  <2>1. Len(snaps) \in Nat /\ DOMAIN snaps = 1..Len(snaps)
    BY <1>1
  <2>2. IsFiniteSet(DOMAIN snaps)
    BY <2>1, FS_Interval
  <2> QED
    BY <1>0, <1>1, <2>2, FS_Subset
<1>3. \A i \in valued : i \in Nat /\ snaps[i].day \in Nat /\ snaps[i].value \in Int
  <2> TAKE i \in valued
  <2>1. i \in DOMAIN snaps /\ snaps[i] \in Snaps
    BY <1>0, <1>1
  <2>2. i \in Nat
    BY <1>1, <2>1
  <2>3. snaps[i].day \in Days /\ snaps[i].value \in Int
    BY <2>1 DEF Snaps
  <2>4. snaps[i].day \in Nat
    BY <2>3, DaysAre
  <2> QED
    BY <2>2, <2>3, <2>4
<1>5. \A x, y \in valued : x # y => Before(x, y) \/ Before(y, x)
  <2> SUFFICES ASSUME NEW x \in valued, NEW y \in valued, x # y
               PROVE  Before(x, y) \/ Before(y, x)
    OBVIOUS
  <2> DEFINE dx == snaps[x].day  dy == snaps[y].day
             vx == snaps[x].value  vy == snaps[y].value
  <2>1. dx \in Nat /\ dy \in Nat /\ vx \in Int /\ vy \in Int /\ x \in Nat /\ y \in Nat
    BY <1>3
  <2> HIDE DEF dx, dy, vx, vy
  <2>2. \/ dx < dy \/ dy < dx
        \/ dx = dy /\ (vx < vy \/ vy < vx)
        \/ dx = dy /\ vx = vy /\ (x < y \/ y < x)
    BY <2>1
  <2> QED
    BY <2>2 DEF Before, dx, dy, vx, vy
<1>6. \A x, y, z \in valued : Before(x, y) /\ Before(y, z) => Before(x, z)
  <2> SUFFICES ASSUME NEW x \in valued, NEW y \in valued, NEW z \in valued, Before(x, y), Before(y, z)
               PROVE  Before(x, z)
    OBVIOUS
  <2> DEFINE dx == snaps[x].day  dy == snaps[y].day  dz == snaps[z].day
             vx == snaps[x].value  vy == snaps[y].value  vz == snaps[z].value
  <2>1. /\ dx \in Nat /\ dy \in Nat /\ dz \in Nat /\ vx \in Int /\ vy \in Int /\ vz \in Int
        /\ x \in Nat /\ y \in Nat /\ z \in Nat
    BY <1>3
  <2>2. /\ dx < dy \/ (dx = dy /\ vx < vy) \/ (dx = dy /\ vx = vy /\ x < y)
        /\ dy < dz \/ (dy = dz /\ vy < vz) \/ (dy = dz /\ vy = vz /\ y < z)
    BY DEF Before
  <2> HIDE DEF dx, dy, dz, vx, vy, vz
  <2>3. CASE dx < dy \/ dy < dz
    <3>1. dx <= dy /\ dy <= dz
      BY <2>1, <2>2
    <3>2. dx < dz
      BY <2>1, <2>3, <3>1
    <3> QED
      BY <3>2 DEF Before, dx, dz
  <2>4. CASE dx = dy /\ dy = dz /\ (vx < vy \/ vy < vz)
    <3>1. vx <= vy /\ vy <= vz
      BY <2>1, <2>2, <2>4
    <3>2. dx = dz /\ vx < vz
      BY <2>1, <2>4, <3>1
    <3> QED
      BY <3>2 DEF Before, dx, dz, vx, vz
  <2>5. CASE dx = dy /\ dy = dz /\ vx = vy /\ vy = vz /\ x < y /\ y < z
    <3>1. dx = dz /\ vx = vz /\ x < z
      BY <2>1, <2>5
    <3> QED
      BY <3>1 DEF Before, dx, dz, vx, vz
  <2> QED
    BY <2>2, <2>3, <2>4, <2>5
<1>7. \E s \in [1..n -> valued] : \A k, l \in DOMAIN s : k < l => <<s[k], s[l]>> \in R
  <2>1. \A x, y \in valued : x # y => <<x, y>> \in R \/ <<y, x>> \in R
    BY <1>4, <1>5
  <2>2. \A x, y, z \in valued : <<x, y>> \in R /\ <<y, z>> \in R => <<x, z>> \in R
    BY <1>4, <1>6
  <2> QED
    BY <1>2, <2>1, <2>2, SortedExists, <1>n
<1>8. PICK t \in [1..n -> valued] : \A k, l \in DOMAIN t : k < l => Before(t[k], t[l])
  <2>1. PICK t \in [1..n -> valued] : \A k, l \in DOMAIN t : k < l => <<t[k], t[l]>> \in R
    BY <1>7
  <2>2. \A k \in DOMAIN t : t[k] \in valued
    OBVIOUS
  <2> QED
    BY <2>1, <2>2, <1>4
<1>9. n \in Nat
  BY <1>2, <1>n, FS_CardinalityType
<1>10. Series \in [1..n -> valued] /\ \A k, l \in DOMAIN Series : k < l => Before(Series[k], Series[l])
  <2> DEFINE Sorted(s) == \A k, l \in DOMAIN s : k < l => Before(s[k], s[l])
  <2>1. Series = CHOOSE s \in [1..n -> valued] : Sorted(s)
    BY <1>series
  <2>2. \E s \in [1..n -> valued] : Sorted(s)
    BY <1>8
  <2>3. Series \in [1..n -> valued] /\ Sorted(Series)
    BY <2>1, <2>2
  <2> QED
    BY <2>3
<1>11. Len(Series) = n /\ Series \in Seq(perf.rows) /\ DOMAIN Series = 1..n
  <2>1. Series \in [1..n -> perf.rows]
    BY <1>0, <1>10
  <2> DEFINE t1 == Series
  <2>2. t1 \in [1..n -> perf.rows] /\ n \in Nat
    BY <2>1, <1>9
  <2> HIDE DEF t1
  <2>3. t1 \in Seq(perf.rows) /\ DOMAIN t1 = 1..n
    BY <2>2
  <2>4. Len(t1) = n
    BY <2>2, <2>3
  <2> QED
    BY <2>3, <2>4 DEF t1
<1>12. ASSUME NEW k \in 1..n, NEW l \in 1..n, k < l PROVE snaps[Series[k]].day <= snaps[Series[l]].day
  <2>1. Series[k] \in valued /\ Series[l] \in valued
    BY <1>10
  <2>2. Before(Series[k], Series[l])
    BY <1>10, <1>11, <1>12
  <2>3. snaps[Series[k]].day \in Nat /\ snaps[Series[l]].day \in Nat
    BY <1>3, <2>1
  <2> DEFINE dk == snaps[Series[k]].day  dl == snaps[Series[l]].day
  <2>4. dk < dl \/ dk = dl
    BY <2>2 DEF Before
  <2>5. dk \in Nat /\ dl \in Nat
    BY <2>3
  <2> HIDE DEF dk, dl
  <2>6. dk <= dl
    BY <2>4, <2>5
  <2> QED
    BY <2>6 DEF dk, dl
<1>13. \A k \in 1..n : Series[k] \in valued
  BY <1>10
<1> QED
  BY <1>0, <1>9, <1>11, <1>12, <1>13

(* The profit of a series is that between its first value and its last.    *)
LEMMA ProfitIs ==
    ASSUME PerfInv, perf.pc = "done", Profit(Series) # NoFigure
    PROVE  /\ InputsSound /\ Len(Series) >= 1
           /\ ~LiveEnd => Profit(Series) = snaps[Series[Len(Series)]].value - snaps[Series[1]].value
                                             - Flows(perf.told, snaps[Series[1]].day, snaps[Series[Len(Series)]].day)
           /\ LiveEnd => Profit(Series) = perf.end - snaps[Series[1]].value /\ perf.end \in Int
<1> DEFINE s == Series
           a == snaps[s[1]].day
           b == snaps[s[Len(s)]].day
<1>1. Len(s) \in Nat /\ s \in Seq(perf.rows) /\ \A k \in 1..Len(s) : s[k] \in perf.rows
  BY SeriesIs
<1>2. InputsSound /\ EndsStored(s)
  BY DEF Profit
<1>3. Profit(s) = (IF LiveEnd THEN perf.end ELSE snaps[s[Len(s)]].value) - snaps[s[1]].value - Flows(perf.told, a, perf.to)
  BY <1>2 DEF Profit
<1>4. Len(s) >= 1 /\ s # <<>>
  <2> HIDE DEF s
  <2>1. s # <<>>
    BY <1>2 DEF EndsStored
  <2> QED
    BY <1>1, <2>1
<1>5. s[1] \in perf.rows /\ s[Len(s)] \in perf.rows
  <2> HIDE DEF s
  <2> QED
    BY <1>1, <1>4
<1>6. /\ a \in Int /\ b \in Int /\ perf.to \in Int /\ snaps[s[1]].value \in Int /\ perf.end \in Int
      /\ perf.told \in MoneyByDay
  <2> HIDE DEF s
  <2>1. s[1] \in DOMAIN snaps /\ s[Len(s)] \in DOMAIN snaps
    BY <1>5 DEF PerfInv, RowsOfPeriod
  <2>2. a \in Days /\ b \in Days /\ perf.to \in Days /\ snaps[s[1]].value \in Int /\ perf.end \in Int /\ perf.told \in MoneyByDay
    BY <2>1, PerfFacts DEF PerfInv, Snaps, Reports
  <2> QED
    BY <2>2, DaysFinite
<1>7. perf.vouched => Flows(perf.told, a, perf.to) = 0 /\ Flows(perf.told, a, b) = 0
  BY <1>6, NoFlowsNone DEF PerfInv, RowsOfPeriod
<1>8. ~perf.vouched => b = perf.to
  BY <1>2 DEF EndsStored
<1>9. ASSUME ~LiveEnd PROVE Profit(s) = snaps[s[Len(s)]].value - snaps[s[1]].value - Flows(perf.told, a, b)
  BY <1>3, <1>7, <1>8, <1>9
<1>10. ASSUME LiveEnd PROVE Profit(s) = perf.end - snaps[s[1]].value
  <2>1. Profit(s) = perf.end - snaps[s[1]].value - 0
    BY <1>3, <1>7, <1>10 DEF LiveEnd
  <2> HIDE DEF s
  <2> QED
    BY <2>1, <1>6
<1> QED
  BY <1>2, <1>4, <1>6, <1>9, <1>10

(* A value comes before a later one of the series. *)
LEMMA SeriesOrdered ==
    ASSUME PerfInv, NEW k \in 1..(Len(Series) - 1)
    PROVE  /\ k \in 1..Len(Series) /\ k + 1 \in 1..Len(Series)
           /\ Series[k] \in perf.rows /\ Series[k + 1] \in perf.rows
           /\ snaps[Series[k]].day <= snaps[Series[k + 1]].day
<1>1. Len(Series) \in Nat
  BY SeriesIs
<1>2. k \in 1..Len(Series) /\ k + 1 \in 1..Len(Series) /\ k < k + 1
  BY <1>1
<1> QED
  BY <1>2, SeriesIs

(* The profit of an interval of the series is what the markets gave in it. *)
LEMMA IntervalTrue ==
    ASSUME PerfInv, perf.pc = "done", NEW k \in 1..(Len(Series) - 1), InputsSound,
           Vouchable(Series[k], Series[k + 1])
    PROVE  IntervalPnl(Series[k], Series[k + 1]) = snaps[Series[k + 1]].gain - snaps[Series[k]].gain
BY SeriesOrdered, PairTrue DEF IntervalPnl

(* The profits of the intervals add up to that of the series. *)
LEMMA IntervalsAddUp ==
    ASSUME PerfInv, perf.pc = "done", Profit(Series) # NoFigure, ~LiveEnd
    PROVE  Profit(Series) = SumFunction([k \in 1..(Len(Series) - 1) |-> IntervalPnl(Series[k], Series[k + 1])])
<1> DEFINE s == Series
           n == Len(s) - 1
           told == perf.told
           day(k) == snaps[s[k]].day
           val(k) == snaps[s[k]].value
           v == [k \in 1..n + 1 |-> val(k) - Flows(told, -1, day(k))]
           f == [k \in 1..n |-> IntervalPnl(s[k], s[k + 1])]
<1>1. n \in Nat /\ Len(s) \in Nat /\ Len(s) = n + 1
  <2>1. Len(s) \in Nat /\ Len(s) >= 1
    BY ProfitIs, SeriesIs
  <2> HIDE DEF s
  <2> QED
    BY <2>1
<1>2. told \in MoneyByDay
  BY PerfFacts DEF PerfInv, Reports
<1>3. \A k \in 1..n + 1 : day(k) \in Nat /\ val(k) \in Int /\ Flows(told, -1, day(k)) \in Int
  <2> TAKE k \in 1..n + 1
  <2>1. s[k] \in DOMAIN snaps
    BY <1>1, SeriesIs DEF PerfInv, RowsOfPeriod
  <2>2. day(k) \in Days /\ val(k) \in Int
    BY <2>1, PerfFacts DEF PerfInv, Snaps
  <2>3. day(k) \in Nat /\ day(k) \in Int /\ -1 \in Int
    <3> DEFINE d == day(k)
    <3>1. d \in Days
      BY <2>2
    <3> HIDE DEF d
    <3>2. d \in Nat
      BY <3>1, DaysAre
    <3>3. d \in Int /\ -1 \in Int
      BY <3>2
    <3> QED
      BY <3>2, <3>3 DEF d
  <2>4. Flows(told, -1, day(k)) \in Int
    BY <1>2, <2>3, FlowsTyped
  <2> QED
    BY <2>2, <2>3, <2>4
<1>4. \A k \in 1..n + 1 : v[k] \in Int
  <2> TAKE k \in 1..n + 1
  <2>1. v[k] = val(k) - Flows(told, -1, day(k)) /\ val(k) \in Int /\ Flows(told, -1, day(k)) \in Int
    BY <1>3
  <2> HIDE DEF v, val, day
  <2> QED
    BY <2>1
<1>5. InputsSound
  BY ProfitIs
<1>6. \A k, l \in 1..n + 1 : k <= l => Flows(told, -1, day(l)) = Flows(told, -1, day(k)) + Flows(told, day(k), day(l)) 
                                        /\ Flows(told, day(k), day(l)) \in Int
  <2> SUFFICES ASSUME NEW k \in 1..n + 1, NEW l \in 1..n + 1, k <= l
               PROVE  /\ Flows(told, -1, day(l)) = Flows(told, -1, day(k)) + Flows(told, day(k), day(l)) 
                      /\ Flows(told, day(k), day(l)) \in Int
    OBVIOUS
  <2>1. day(k) <= day(l)
    <3>1. CASE k < l
      BY <1>1, <3>1, SeriesIs
    <3>2. CASE k = l
      <4>1. day(k) \in Nat
        BY <1>3
      <4> HIDE DEF day
      <4> QED
        BY <3>2, <4>1
    <3> QED
      <4>1. k \in Int /\ l \in Int
        BY <1>1
      <4> QED
        BY <3>1, <3>2, <4>1
  <2>2. day(k) \in Nat /\ day(l) \in Nat
    BY <1>3
  <2>3. -1 \in Int /\ day(k) \in Int /\ day(l) \in Int /\ -1 <= day(k)
    <3> HIDE DEF day
    <3> QED
      BY <2>2
  <2> HIDE DEF day, told
  <2> QED
    BY <1>2, <2>1, <2>3, FlowsSplit, FlowsTyped
<1>7. \A k \in 1..n : f[k] = v[k + 1] - v[k]
  <2> TAKE k \in 1..n
  <2>1. k \in 1..n + 1 /\ k + 1 \in 1..n + 1 /\ k <= k + 1
    BY <1>1
  <2>2. f[k] = val(k + 1) - val(k) - Flows(told, day(k), day(k + 1))
    BY <1>5 DEF IntervalPnl
  <2>3. v[k + 1] = val(k + 1) - Flows(told, -1, day(k + 1)) /\ v[k] = val(k) - Flows(told, -1, day(k))
    BY <2>1
  <2>4. Flows(told, -1, day(k + 1)) = Flows(told, -1, day(k)) + Flows(told, day(k), day(k + 1)) /\ Flows(told, day(k), day(k + 1)) \in Int
    BY <1>6, <2>1
  <2>5. val(k + 1) \in Int /\ val(k) \in Int /\ Flows(told, -1, day(k)) \in Int /\ Flows(told, -1, day(k + 1)) \in Int
    BY <1>3, <2>1
  <2> DEFINE x1 == val(k + 1)  x0 == val(k)  y1 == Flows(told, -1, day(k + 1))  y0 == Flows(told, -1, day(k))
             z == Flows(told, day(k), day(k + 1))
  <2>6. f[k] = x1 - x0 - z /\ v[k + 1] = x1 - y1 /\ v[k] = x0 - y0 /\ y1 = y0 + z /\ z \in Int /\ x1 \in Int /\ x0 \in Int /\ y0 \in Int
    BY <2>2, <2>3, <2>4, <2>5
  <2> HIDE DEF x1, x0, y1, y0, z, v, f
  <2> QED
    BY <2>6
<1>8. SumFunctionOnSet(f, 1..n) = v[n + 1] - v[1]
  <2> HIDE DEF v, f
  <2> QED
    BY <1>1, <1>4, <1>7, SumTelescopes
<1>9. SumFunction(f) = SumFunctionOnSet(f, 1..n)
  BY DEF SumFunction, SumFunctionOnSet, FoldFunction
<1>10. v[n + 1] - v[1] = val(n + 1) - val(1) - Flows(told, day(1), day(n + 1))
  <2>1. n + 1 \in 1..n + 1 /\ 1 \in 1..n + 1 /\ 1 <= n + 1
    BY <1>1
  <2>2. v[n + 1] = val(n + 1) - Flows(told, -1, day(n + 1)) /\ v[1] = val(1) - Flows(told, -1, day(1))
    BY <2>1
  <2>3. Flows(told, -1, day(n + 1)) = Flows(told, -1, day(1)) + Flows(told, day(1), day(n + 1)) /\ Flows(told, day(1), day(n + 1)) \in Int
    BY <1>6, <2>1
  <2>4. val(n + 1) \in Int /\ val(1) \in Int /\ Flows(told, -1, day(1)) \in Int
    BY <1>3, <2>1
  <2> DEFINE x1 == val(n + 1)  x0 == val(1)  y1 == Flows(told, -1, day(n + 1))  y0 == Flows(told, -1, day(1))
             z == Flows(told, day(1), day(n + 1))
  <2>5. v[n + 1] = x1 - y1 /\ v[1] = x0 - y0 /\ y1 = y0 + z /\ z \in Int /\ x1 \in Int /\ x0 \in Int /\ y0 \in Int
    BY <2>2, <2>3, <2>4
  <2> HIDE DEF x1, x0, y1, y0, z, v
  <2>6. v[n + 1] - v[1] = x1 - x0 - z
    BY <2>5
  <2> QED
    BY <2>6 DEF x1, x0, z
<1>11. Profit(s) = val(n + 1) - val(1) - Flows(told, day(1), day(n + 1))
  BY <1>1, ProfitIs
<1> HIDE DEF v
<1>12. Profit(s) = SumFunction(f)
  BY <1>8, <1>9, <1>10, <1>11
<1> QED
  BY <1>12

(* A report whose state is as the invariant says is true (compute_performance). *)
LEMMA PerfMeans == ASSUME PerfInv PROVE PerformanceTrue
<1> SUFFICES ASSUME perf.pc = "done" PROVE PerformanceTrue
  BY DEF PerformanceTrue
<1> DEFINE s == Series
           first == s[1]
           last == s[Len(s)]
<1>1. ASSUME Profit(s) # NoFigure, Vouchable(first, last)
      PROVE  Profit(s) = (IF LiveEnd THEN perf.endGain ELSE snaps[last].gain) - snaps[first].gain
  <2>1. first \in perf.rows /\ last \in perf.rows /\ snaps[first].day <= snaps[last].day
    <3>1. Len(s) \in Nat /\ Len(s) >= 1
      BY <1>1, ProfitIs, SeriesIs
    <3>2. 1 \in 1..Len(s) /\ Len(s) \in 1..Len(s)
      BY <3>1
    <3>3. first \in perf.rows /\ last \in perf.rows
      BY <3>2, SeriesIs
    <3>4. CASE Len(s) = 1
      <4>1. snaps[first].day \in Nat
        BY <3>3, PerfFacts, DaysAre DEF PerfInv, RowsOfPeriod, Snaps
      <4> DEFINE d == snaps[first].day
      <4>2. d \in Nat
        BY <4>1
      <4> HIDE DEF d
      <4>3. d <= d
        BY <4>2
      <4> QED
        BY <3>3, <3>4, <4>3 DEF d
    <3>5. CASE 1 < Len(s)
      BY <3>2, <3>3, <3>5, SeriesIs
    <3>6. Len(s) = 1 \/ 1 < Len(s)
      <4> DEFINE m == Len(s)
      <4>1. m \in Nat /\ m >= 1
        BY <3>1
      <4> HIDE DEF m
      <4>2. m = 1 \/ 1 < m
        BY <4>1
      <4> QED
        BY <4>2 DEF m
    <3> QED
      BY <3>4, <3>5, <3>6
  <2>2. InputsSound
    BY <1>1, ProfitIs
  <2>3. CASE ~LiveEnd
    BY <1>1, <2>1, <2>2, <2>3, ProfitIs, PairTrue
  <2>4. CASE LiveEnd
    <3>1. Quiet /\ snaps[first].how # "short"
      BY <1>1, <2>1, <2>2, <2>4 DEF Quiet, LiveEnd, Vouchable, InputsSound
    <3>2. PICK base \in Int : perf.end = base + perf.endGain /\ snaps[first].value = base + snaps[first].gain
      BY <2>1, <3>1 DEF PerfInv, LiveTold
    <3>3. Profit(s) = perf.end - snaps[first].value
      BY <1>1, <2>4, ProfitIs
    <3>4. perf.endGain \in Int /\ snaps[first].gain \in Int
      BY <2>1, PerfFacts DEF PerfInv, RowsOfPeriod, Snaps, Reports
    <3> DEFINE p == Profit(s)  e == perf.end  g == perf.endGain  v == snaps[first].value  h == snaps[first].gain
    <3>5. e = base + g /\ v = base + h /\ p = e - v /\ g \in Int /\ h \in Int
      BY <3>2, <3>3, <3>4
    <3> HIDE DEF p, e, g, v, h
    <3>6. p = g - h
      BY <3>5
    <3> QED
      BY <3>6, <2>4 DEF p, g, h
  <2> QED
    BY <2>3, <2>4
<1>2. ASSUME NEW k \in 1..(Len(s) - 1), IntervalPnl(s[k], s[k + 1]) # NoFigure, Vouchable(s[k], s[k + 1])
      PROVE  IntervalPnl(s[k], s[k + 1]) = snaps[s[k + 1]].gain - snaps[s[k]].gain
  <2>1. InputsSound
    BY <1>2 DEF IntervalPnl
  <2> QED
    BY <1>2, <2>1, IntervalTrue
<1>3. ASSUME Profit(s) # NoFigure, ~LiveEnd
      PROVE  Profit(s) = SumFunction([k \in 1..(Len(s) - 1) |-> IntervalPnl(s[k], s[k + 1])])
  BY <1>3, IntervalsAddUp
<1>4. ASSUME NEW figures \in {TimeWeighted(s), DayFigures(s)}, figures # NoFigure, NEW k \in DOMAIN figures
      PROVE  figures[k][2] > 0 /\ (Vouchable(s[k], s[k + 1]) => figures[k][1] = snaps[s[k + 1]].gain - snaps[s[k]].gain)
  <2>1. figures = Returns(s) /\ InputsSound /\ ~\E i \in perf.rows : snaps[i].value <= 0
    BY <1>4 DEF TimeWeighted, DayFigures
  <2>2. k \in 1..(Len(s) - 1) /\ figures[k] = <<IntervalPnl(s[k], s[k + 1]), snaps[s[k]].value>>
    BY <2>1 DEF Returns
  <2>3. s[k] \in perf.rows
    BY <2>2, SeriesOrdered
  <2>4. snaps[s[k]].value \in Int
    BY <2>3, PerfFacts DEF PerfInv, RowsOfPeriod, Snaps
  <2>5. snaps[s[k]].value > 0
    <3> DEFINE v == snaps[s[k]].value
    <3>1. v \in Int /\ ~(v <= 0)
      BY <2>1, <2>3, <2>4
    <3> HIDE DEF v
    <3>2. v > 0
      BY <3>1
    <3> QED
      BY <3>2 DEF v
  <2>6. figures[k][1] = IntervalPnl(s[k], s[k + 1]) /\ figures[k][2] = snaps[s[k]].value
    BY <2>2
  <2> QED
    BY <2>1, <2>2, <2>5, <2>6, IntervalTrue
<1> HIDE DEF s
<1> QED
  BY <1>1, <1>2, <1>3, <1>4 DEF PerformanceTrue, s

-----------------------------------------------------------------------------
(* Steps of performance reports *)

(* The invariant does not depend on the gain, nor on how far today has come. *)
LEMMA PerfIdle ==
    ASSUME PerfInv, today \in Nat, today' \in Days, today <= today', UNCHANGED snaps, UNCHANGED perf,
           wealth' \in [gain : Int, flow : MoneyByDay], wealth'.flow = wealth.flow
    PROVE  PerfInv'
<1>0. /\ \A d \in Days : d \in Nat
      /\ today' \in Nat /\ \A i \in DOMAIN snaps : snaps[i].day \in Nat
      /\ perf.to \in Nat
  BY PerfFacts, DaysAre DEF PerfInv, Snaps, Reports
<1>1. PerfTyped'
  BY DEF PerfInv, PerfTyped
<1>2. RowsOfPeriod'
  <2>1. perf.to <= today'
    <3>1. perf.to <= today
      BY DEF PerfInv, RowsOfPeriod
    <3> DEFINE t == perf.to  u == today'
    <3>2. t <= today /\ today <= u /\ t \in Nat /\ u \in Nat
      BY <1>0, <3>1
    <3> HIDE DEF t, u
    <3>3. t <= u
      BY <3>2
    <3> QED
      BY <3>3 DEF t, u
  <2> QED
    BY <2>1 DEF PerfInv, RowsOfPeriod
<1>3. LedgerTold' /\ LiveTold' /\ LiveSoFar'
  BY DEF PerfInv, LedgerTold, LiveSoFar, LiveTold, Quiet
<1>4. \A d \in Days : d > today' => wealth'.flow[d] = 0
  <2> DEFINE u == today'
  <2>1. u \in Nat /\ today <= u
    BY <1>0
  <2> HIDE DEF u
  <2>2. \A d \in Days : d > u => d > today
    BY <1>0, <2>1
  <2>3. \A d \in Days : d > u => wealth'.flow[d] = 0
    BY <2>2 DEF PerfInv
  <2> QED
    BY <2>3 DEF u
<1>5. \A i \in DOMAIN snaps : SnapTrue(snaps[i])'
  <2> TAKE i \in DOMAIN snaps
  <2>1. SnapTrue(snaps[i])
    BY DEF PerfInv
  <2>2. snaps[i].day <= today'
    <3> DEFINE t == snaps[i].day  u == today'
    <3>2. t <= today /\ today <= u /\ t \in Nat /\ u \in Nat
      BY <1>0, <2>1 DEF SnapTrue
    <3> HIDE DEF t, u
    <3>3. t <= u
      BY <3>2
    <3> QED
      BY <3>3 DEF t, u
  <2> QED
    BY <2>1, <2>2 DEF SnapTrue
<1> QED
  BY <1>1, <1>2, <1>3, <1>4, <1>5 DEF PerfInv

(* No value is stored and nothing is asked. *)
LEMMA PerfStarts == PerfInit => PerfInv
<1> SUFFICES ASSUME PerfInit PROVE PerfInv
  OBVIOUS
<1>1. NoFlows \in MoneyByDay
  BY DEF NoFlows, MoneyByDay
<1>2. today = 0 /\ wealth = [gain |-> 0, flow |-> NoFlows] /\ snaps = <<>> /\ perf = NoReport /\ 0 \in Days
  BY DaysAre DEF PerfInit, NoFlows
<1>3. perf.pc = "none" /\ perf.rows = {} /\ perf.told = NoFlows /\ perf.to = 0 /\ ~perf.live
  BY <1>2 DEF NoReport, NoFlows
<1>4. NoReport \in Reports
  <2>1. NoReport = [pc |-> "none", live |-> FALSE, vouched |-> FALSE, from |-> 0, to |-> 0, rows |-> {},
                    end |-> 0, observed |-> 0, told |-> NoFlows, reasons |-> {}, endGain |-> 0, moved |-> FALSE]
    BY DEF NoReport, NoFlows
  <2> HIDE DEF NoFlows
  <2> QED
    BY <2>1, <1>1, <1>2 DEF Reports
<1>5. PerfTyped
  <2>1. snaps \in Seq(Snaps)
    BY <1>2
  <2>2. wealth \in [gain : Int, flow : MoneyByDay]
    BY <1>1, <1>2
  <2> QED
    BY <1>2, <1>4, <2>1, <2>2 DEF PerfTyped
<1>6. RowsOfPeriod /\ LedgerTold /\ LiveSoFar /\ LiveTold
  BY <1>2, <1>3 DEF RowsOfPeriod, LedgerTold, LiveSoFar, LiveTold, Quiet
<1>7. \A d \in Days : d > today => wealth.flow[d] = 0
  BY <1>2 DEF NoFlows
<1>8. DOMAIN snaps = {}
  BY <1>2
<1> QED
  BY <1>5, <1>6, <1>7, <1>8 DEF PerfInv

(* The markets give or take. *)
LEMMA PerfMarket == PerfInv /\ MarketGives => PerfInv'
<1> SUFFICES ASSUME PerfInv, MarketGives PROVE PerfInv'
  OBVIOUS
<1>1. PICK g \in {-1, 1} : wealth' = [wealth EXCEPT !.gain = @ + g]
  BY DEF MarketGives
<1>2. wealth.gain \in Int /\ wealth.flow \in MoneyByDay /\ wealth \in [gain : Int, flow : MoneyByDay] /\ today \in Days
  BY PerfFacts DEF PerfInv, PerfTyped
<1>3. wealth' \in [gain : Int, flow : MoneyByDay] /\ wealth'.flow = wealth.flow
  BY <1>1, <1>2
<1>4. today \in Nat /\ today <= today
  BY <1>2, DaysAre
<1> QED
  BY <1>2, <1>3, <1>4, PerfIdle DEF MarketGives

(* A day ends. *)
LEMMA PerfDay == PerfInv /\ DayEnds => PerfInv'
<1> SUFFICES ASSUME PerfInv, DayEnds PROVE PerfInv'
  OBVIOUS
<1>2. wealth \in [gain : Int, flow : MoneyByDay] /\ today \in Days
  BY PerfFacts DEF PerfInv, PerfTyped
<1>3. today \in Nat
  BY <1>2, DaysAre
<1>4. today' \in Days /\ today <= today'
  BY <1>3, PerformanceAssumption DEF DayEnds, Days
<1> QED
  BY <1>2, <1>3, <1>4, PerfIdle DEF DayEnds

(* The value of the accounts is what was there, what the markets gave and what came in. *)
LEMMA ValueIs ==
    ASSUME PerfInv
    PROVE  Value \in Int /\ Value = Opening + wealth.gain + Flows(wealth.flow, -1, today - 1) + wealth.flow[today]
<1> DEFINE flow == wealth.flow  gain == wealth.gain
<1>1. today \in Days /\ flow \in MoneyByDay /\ gain \in Int
  BY PerfFacts DEF PerfInv
<1>2. today \in Nat
  BY <1>1, DaysAre
<1>3. -1 \in Int /\ today - 1 \in Int /\ today \in Int /\ -1 <= today - 1 /\ today - 1 <= today
  BY <1>2
<1>4. Flows(flow, -1, today) = Flows(flow, -1, today - 1) + Flows(flow, today - 1, today)
  <2> HIDE DEF flow
  <2> QED
    BY <1>1, <1>3, FlowsSplit
<1>5. Flows(flow, today - 1, today) = flow[today] /\ flow[today] \in Int /\ Flows(flow, -1, today - 1) \in Int /\ Opening \in Int
  <2> HIDE DEF flow
  <2> QED
    BY <1>1, <1>3, FlowsOfDay, FlowsTyped, PerformanceAssumption DEF MoneyByDay
<1>6. Value = Opening + gain + Flows(flow, -1, today)
  BY DEF Value
<1> HIDE DEF flow, gain
<1>7. Value = Opening + gain + Flows(flow, -1, today - 1) + flow[today] /\ Value \in Int
  BY <1>1, <1>4, <1>5, <1>6
<1> QED
  BY <1>7 DEF flow, gain

(* A sequence with one more element. *)
LEMMA Appended ==
    ASSUME NEW S, NEW s \in Seq(S), NEW x \in S, NEW t, t = Append(s, x)
    PROVE  /\ t \in Seq(S) /\ Len(s) \in Nat /\ DOMAIN s = 1..Len(s) /\ DOMAIN t = 1..(Len(s) + 1)
           /\ \A i \in DOMAIN s : t[i] = s[i]
           /\ t[Len(s) + 1] = x
           /\ DOMAIN s \subseteq DOMAIN t /\ \A i \in DOMAIN t : i \in DOMAIN s \/ i = Len(s) + 1
  OBVIOUS

(* A snapshot is appended to the history (add_portfolio_snapshot). *)
LEMMA PerfCapture == PerfInv /\ Capture => PerfInv'
<1> SUFFICES ASSUME PerfInv, Capture PROVE PerfInv'
  OBVIOUS
<1>1. PICK how \in {"ok", "short", "unvalued"} :
        snaps' = Append(snaps, [day |-> today, how |-> how, late |-> FALSE, gain |-> wealth.gain,
                                value |-> IF how = "short" THEN Value - 1 ELSE Value])
  BY DEF Capture
<1>2. today \in Days /\ wealth.gain \in Int /\ wealth.flow \in MoneyByDay /\ snaps \in Seq(Snaps)
  BY PerfFacts DEF PerfInv, PerfTyped
<1>3. Value - 1 \in Int /\ Value \in Int
  <2> DEFINE v == Value
  <2>1. v \in Int
    BY ValueIs
  <2> HIDE DEF v
  <2>2. v - 1 \in Int
    BY <2>1
  <2> QED
    BY <2>1, <2>2 DEF v
<1> DEFINE x == [day |-> today, how |-> how, late |-> FALSE, gain |-> wealth.gain,
                 value |-> IF how = "short" THEN Value - 1 ELSE Value]
<1>4. x \in Snaps
  <2> DEFINE v == IF how = "short" THEN Value - 1 ELSE Value
  <2>1. v \in Int
    BY <1>3
  <2> HIDE DEF v
  <2>2. [day |-> today, how |-> how, late |-> FALSE, gain |-> wealth.gain, value |-> v] \in Snaps
    BY <1>2, <2>1 DEF Snaps
  <2> QED
    BY <2>2 DEF v
<1>5. /\ x.day = today /\ x.how = how /\ x.late = FALSE /\ x.gain = wealth.gain
      /\ how # "short" => x.value = Value
  OBVIOUS
<1>6. UNCHANGED <<today, wealth, perf>>
  BY DEF Capture
<1>7. snaps' = Append(snaps, x)
  BY <1>1
<1>8. SnapTrue(x)
  <2> DEFINE c == wealth.flow[today]
  <2>1. today \in Nat /\ c \in Nat
    BY <1>2, DaysAre DEF MoneyByDay
  <2> HIDE DEF c, x
  <2>2. c \in 0..c /\ today <= today
    BY <2>1
  <2> USE DEF c
  <2> QED
    BY <1>5, <2>2, ValueIs DEF SnapTrue
<1> HIDE DEF x
<1>9. /\ snaps' \in Seq(Snaps) /\ Len(snaps) \in Nat /\ DOMAIN snaps = 1..Len(snaps)
      /\ DOMAIN snaps' = 1..(Len(snaps) + 1)
      /\ \A i \in DOMAIN snaps : snaps'[i] = snaps[i]
      /\ snaps'[Len(snaps) + 1] = x
      /\ DOMAIN snaps \subseteq DOMAIN snaps' /\ \A i \in DOMAIN snaps' : i \in DOMAIN snaps \/ i = Len(snaps) + 1
  <2> DEFINE t == snaps'
  <2>1. t = Append(snaps, x)
    BY <1>7
  <2> HIDE DEF t
  <2>2. /\ t \in Seq(Snaps) /\ Len(snaps) \in Nat /\ DOMAIN snaps = 1..Len(snaps) /\ DOMAIN t = 1..(Len(snaps) + 1)
        /\ \A i \in DOMAIN snaps : t[i] = snaps[i]
        /\ t[Len(snaps) + 1] = x
        /\ DOMAIN snaps \subseteq DOMAIN t /\ \A i \in DOMAIN t : i \in DOMAIN snaps \/ i = Len(snaps) + 1
    BY <1>2, <1>4, <2>1, Appended
  <2> QED
    BY <2>2 DEF t
<1>11. perf.rows \subseteq DOMAIN snaps
  BY DEF PerfInv, RowsOfPeriod
<1>12. PerfTyped'
  BY <1>6, <1>9 DEF PerfInv, PerfTyped
<1>13. \A i \in perf.rows : snaps'[i] = snaps[i] /\ i \in DOMAIN snaps'
  BY <1>9, <1>11
<1>14. RowsOfPeriod' /\ LedgerTold' /\ LiveSoFar' /\ LiveTold'
  BY <1>6, <1>13 DEF PerfInv, RowsOfPeriod, LedgerTold, LiveSoFar, LiveTold, Quiet
<1>15. \A i \in DOMAIN snaps' : SnapTrue(snaps'[i])
  BY <1>8, <1>9 DEF PerfInv
<1>16. (\A i \in DOMAIN snaps : SnapTrue(snaps[i]))'
  BY <1>6, <1>15 DEF SnapTrue
<1> QED
  BY <1>6, <1>12, <1>14, <1>16 DEF PerfInv

(* What came in on a later day is not in the flows until a day. *)
LEMMA FlowsBefore ==
    ASSUME NEW f \in MoneyByDay, NEW g \in MoneyByDay, NEW t \in Days, \A d \in Days : d # t => g[d] = f[d], NEW b \in Int, b < t
    PROVE  Flows(g, -1, b) = Flows(f, -1, b)
<1>1. -1 \in Int /\ t \in Int
  BY DaysFinite
<1>2. \A d \in Span(-1, b) : d \in Days /\ d # t
  <2> TAKE d \in Span(-1, b)
  <2>1. d \in Days /\ d <= b /\ d \in Int
    BY DaysFinite DEF Span
  <2> QED
    BY <1>1, <2>1
<1> QED
  BY <1>1, <1>2, FlowsSame

(* Money comes in; a value of that day is then known to be from before it. *)
LEMMA PerfMoney == PerfInv /\ MoneyIn => PerfInv'
<1> SUFFICES ASSUME PerfInv, MoneyIn PROVE PerfInv'
  OBVIOUS
<1> DEFINE f == wealth.flow
           g == wealth'.flow
<1>1. /\ today \in Days /\ wealth.gain \in Int /\ f \in MoneyByDay /\ perf \in Reports /\ snaps \in Seq(Snaps)
      /\ wealth \in [gain : Int, flow : MoneyByDay] /\ \A i \in DOMAIN snaps : snaps[i] \in Snaps
  BY PerfFacts DEF PerfInv, PerfTyped
<1>2. today \in Nat /\ f[today] \in Nat /\ f[today] + 1 \in Nat
  <2>1. today \in Nat /\ f[today] \in Nat
    BY <1>1, DaysAre DEF MoneyByDay
  <2> DEFINE c == f[today]
  <2> HIDE DEF c
  <2>2. c + 1 \in Nat
    BY <2>1 DEF c
  <2> QED
    BY <2>1, <2>2 DEF c
<1>3. /\ g \in MoneyByDay /\ g[today] = f[today] + 1 /\ \A d \in Days : d # today => g[d] = f[d]
      /\ wealth' \in [gain : Int, flow : MoneyByDay] /\ wealth'.gain = wealth.gain
  <2>1. wealth' = [wealth EXCEPT !.flow = [f EXCEPT ![today] = f[today] + 1]]
    BY <1>1 DEF MoneyIn
  <2> DEFINE e == [f EXCEPT ![today] = f[today] + 1]
  <2>2. e \in MoneyByDay /\ e[today] = f[today] + 1 /\ \A d \in Days : d # today => e[d] = f[d]
    BY <1>1, <1>2 DEF MoneyByDay
  <2> HIDE DEF e
  <2>3. wealth' \in [gain : Int, flow : MoneyByDay] /\ wealth'.flow = e /\ wealth'.gain = wealth.gain
    <3>1. wealth' = [wealth EXCEPT !.flow = e]
      BY <2>1 DEF e
    <3> QED
      BY <1>1, <2>2, <3>1
  <2> QED
    BY <2>2, <2>3
<1>4. snaps' = [i \in DOMAIN snaps |-> [snaps[i] EXCEPT !.late = @ \/ snaps[i].day = today]]
  BY DEF MoneyIn
<1>5. DOMAIN snaps' = DOMAIN snaps /\ snaps' \in Seq(Snaps)
  <2>1. Len(snaps) \in Nat /\ DOMAIN snaps = 1..Len(snaps)
    BY <1>1
  <2>2. \A i \in DOMAIN snaps : [snaps[i] EXCEPT !.late = @ \/ snaps[i].day = today] \in Snaps
    <3> TAKE i \in DOMAIN snaps
    <3>1. snaps[i].late \in BOOLEAN /\ snaps[i] \in Snaps
      BY <1>1 DEF Snaps
    <3> DEFINE l == snaps[i].late \/ snaps[i].day = today
    <3>2. l \in BOOLEAN
      BY <3>1
    <3> HIDE DEF l
    <3>3. [snaps[i] EXCEPT !.late = l] \in Snaps
      BY <3>1, <3>2 DEF Snaps
    <3> QED
      BY <3>3 DEF l
  <2> QED
    BY <1>4, <2>1, <2>2
<1>6. \A i \in DOMAIN snaps : /\ snaps'[i].day = snaps[i].day /\ snaps'[i].how = snaps[i].how
                              /\ snaps'[i].gain = snaps[i].gain /\ snaps'[i].value = snaps[i].value
                              /\ ~snaps'[i].late => ~snaps[i].late /\ snaps[i].day # today
  <2> TAKE i \in DOMAIN snaps
  <2>1. snaps'[i] = [snaps[i] EXCEPT !.late = @ \/ snaps[i].day = today]
    BY <1>4
  <2>2. snaps[i] \in Snaps
    BY <1>1
  <2> QED
    BY <2>1, <2>2 DEF Snaps
<1>7. perf' = [perf EXCEPT !.moved = @ \/ perf.pc \notin {"none", "done"}] /\ UNCHANGED today
  BY DEF MoneyIn
<1>8. /\ perf' \in Reports /\ perf'.pc = perf.pc /\ perf'.live = perf.live /\ perf'.vouched = perf.vouched
      /\ perf'.from = perf.from /\ perf'.to = perf.to /\ perf'.rows = perf.rows /\ perf'.end = perf.end
      /\ perf'.told = perf.told /\ perf'.reasons = perf.reasons /\ perf'.endGain = perf.endGain
      /\ perf'.observed = perf.observed
      /\ ~perf'.moved => ~perf.moved /\ perf.pc \in {"none", "done"}
  <2> DEFINE m == perf.moved \/ perf.pc \notin {"none", "done"}
  <2>1. perf' = [perf EXCEPT !.moved = m] /\ m \in BOOLEAN
    BY <1>1, <1>7 DEF Reports
  <2>2. perf'.moved = m
    <3> HIDE DEF m
    <3> QED
      BY <1>1, <2>1 DEF Reports
  <2>3. /\ perf' \in Reports /\ perf'.pc = perf.pc /\ perf'.live = perf.live /\ perf'.vouched = perf.vouched
        /\ perf'.from = perf.from /\ perf'.to = perf.to /\ perf'.rows = perf.rows /\ perf'.end = perf.end
        /\ perf'.told = perf.told /\ perf'.reasons = perf.reasons /\ perf'.endGain = perf.endGain
        /\ perf'.observed = perf.observed
    <3> HIDE DEF m
    <3> QED
      BY <1>1, <2>1 DEF Reports
  <2> QED
    BY <2>2, <2>3
<1>9. PerfTyped'
  BY <1>1, <1>3, <1>5, <1>7, <1>8 DEF PerfTyped
<1>10. \A d \in Days : d > today' => g[d] = 0
  <2> TAKE d \in Days
  <2>1. d \in Nat
    BY DaysAre
  <2>2. d > today => d # today
    BY <1>2, <2>1
  <2>3. d > today => f[d] = 0
    BY DEF PerfInv
  <2> QED
    BY <1>3, <1>7, <2>2, <2>3
<1>11. RowsOfPeriod'
  <2>1. perf.rows \subseteq DOMAIN snaps
    BY DEF PerfInv, RowsOfPeriod
  <2>2. \A i \in perf.rows : snaps'[i].day = snaps[i].day
    BY <1>6, <2>1
  <2> QED
    BY <1>5, <1>7, <1>8, <2>1, <2>2 DEF PerfInv, RowsOfPeriod
<1>12. \A i \in DOMAIN snaps : SnapTrue(snaps[i]) /\ snaps[i].day \in Days /\ snaps[i].gain \in Int
  BY <1>1 DEF PerfInv, Snaps
<1>13. LedgerTold'
  <2> SUFFICES ASSUME perf.pc = "done", ~perf.vouched, NEW i \in perf.rows, ~snaps'[i].late, NEW d \in Days, d <= snaps'[i].day
               PROVE  perf'.told[d] = g[d]
    BY <1>8 DEF LedgerTold
  <2>1. i \in DOMAIN snaps
    BY DEF PerfInv, RowsOfPeriod
  <2>2. ~snaps[i].late /\ snaps[i].day # today /\ d <= snaps[i].day
    BY <1>6, <2>1
  <2>3. snaps[i].day <= today /\ snaps[i].day \in Nat /\ d \in Nat
    BY <1>12, <2>1, DaysAre DEF SnapTrue
  <2>4. d # today
    <3> DEFINE e == snaps[i].day
    <3>1. e <= today /\ e \in Nat /\ d \in Nat /\ e # today /\ d <= e
      BY <2>2, <2>3
    <3> HIDE DEF e
    <3> QED
      BY <1>2, <3>1
  <2>5. perf.told[d] = f[d]
    BY <2>2 DEF PerfInv, LedgerTold
  <2> QED
    BY <1>3, <1>8, <2>4, <2>5
<1>14. LiveSoFar'
  BY <1>8 DEF LiveSoFar, Quiet
<1>15. LiveTold'
  <2> SUFFICES ASSUME Quiet', perf'.pc = "done"
               PROVE  \E base \in Int : /\ perf'.end = base + perf'.endGain
                        /\ \A i \in perf'.rows : snaps'[i].how # "short" => snaps'[i].value = base + snaps'[i].gain
    BY DEF LiveTold
  <2>1. Quiet /\ perf.pc = "done"
    BY <1>8 DEF Quiet
  <2>2. PICK base \in Int : /\ perf.end = base + perf.endGain
                            /\ \A i \in perf.rows : snaps[i].how # "short" => snaps[i].value = base + snaps[i].gain
    BY <2>1 DEF PerfInv, LiveTold
  <2>3. perf.rows \subseteq DOMAIN snaps
    BY DEF PerfInv, RowsOfPeriod
  <2>4. \A i \in perf.rows : snaps'[i].how # "short" => snaps'[i].value = base + snaps'[i].gain
    BY <1>6, <2>2, <2>3
  <2> QED
    BY <1>8, <2>2, <2>4
<1>16. \A i \in DOMAIN snaps' : SnapTrue(snaps[i])'
  <2> SUFFICES ASSUME NEW i \in DOMAIN snaps PROVE SnapTrue(snaps[i])'
    BY <1>5
  <2> DEFINE e == snaps[i].day
             x == snaps'[i]
             before == Flows(f, -1, e - 1)
  <2>1. e <= today /\ e \in Nat /\ e \in Days /\ f[e] \in Nat /\ g[e] \in Nat
    <3>1. e \in Days /\ e <= today
      BY <1>12 DEF SnapTrue
    <3> HIDE DEF e
    <3> QED
      BY <1>1, <1>3, <3>1, DaysAre DEF MoneyByDay
  <2>2. PICK c \in 0..f[e] : /\ snaps[i].how # "short" => snaps[i].value = Opening + snaps[i].gain + before + c
                             /\ ~snaps[i].late => c = f[e]
    BY <1>12 DEF SnapTrue
  <2>3. Flows(g, -1, e - 1) = before
    <3>1. e - 1 \in Int /\ e - 1 < today
      <4> HIDE DEF e
      <4> QED
        BY <1>2, <2>1
    <3> HIDE DEF e, f, g
    <3> QED
      BY <1>1, <1>3, <3>1, FlowsBefore
  <2>4. c \in 0..g[e]
    <3>1. g[e] = f[e] \/ g[e] = f[e] + 1
      BY <1>3, <2>1
    <3> DEFINE p == f[e]  q == g[e]
    <3>2. c \in 0..p /\ p \in Nat /\ q \in Nat /\ (q = p \/ q = p + 1)
      BY <2>1, <2>2, <3>1
    <3> HIDE DEF p, q
    <3>3. c \in 0..q
      BY <3>2
    <3> QED
      BY <3>3 DEF q
  <2>5. x.day = e /\ x.how = snaps[i].how /\ x.gain = snaps[i].gain /\ x.value = snaps[i].value
    BY <1>6
  <2>6. ~x.late => c = g[e]
    <3> SUFFICES ASSUME ~x.late PROVE c = g[e]
      OBVIOUS
    <3>1. ~snaps[i].late /\ e # today
      BY <1>6
    <3> QED
      BY <1>3, <2>1, <2>2, <3>1
  <2>7. x.how # "short" => x.value = Opening + x.gain + Flows(g, -1, x.day - 1) + c
    BY <2>2, <2>3, <2>5
  <2>8. x.day <= today'
    BY <1>7, <2>1, <2>5
  <2> HIDE DEF x, e, f, g
  <2>9. /\ x.day <= today'
        /\ \E k \in 0..g[x.day] :
              /\ x.how # "short" => x.value = Opening + x.gain + Flows(g, -1, x.day - 1) + k
              /\ ~x.late => k = g[x.day]
    BY <2>4, <2>5, <2>6, <2>7, <2>8
  <2> QED
    BY <2>9 DEF SnapTrue, x, g
<1>17. (\A i \in DOMAIN snaps : SnapTrue(snaps[i]))'
  BY <1>16
<1>18. (\A d \in Days : d > today => wealth.flow[d] = 0)'
  BY <1>10
<1> HIDE DEF f, g
<1> QED
  BY <1>9, <1>11, <1>13, <1>14, <1>15, <1>17, <1>18 DEF PerfInv

(* The steps of a report leave what is stored alone. *)
LEMMA ReportStep ==
    ASSUME PerfInv, UNCHANGED <<today, wealth, snaps>>, perf' \in Reports,
           RowsOfPeriod', LedgerTold', LiveSoFar', LiveTold'
    PROVE  PerfInv'
<1>1. PerfTyped'
  BY DEF PerfInv, PerfTyped
<1>2. (\A i \in DOMAIN snaps : SnapTrue(snaps[i]))'
  BY DEF PerfInv, SnapTrue
<1>3. (\A d \in Days : d > today => wealth.flow[d] = 0)'
  BY DEF PerfInv
<1> QED
  BY <1>1, <1>2, <1>3 DEF PerfInv

(* The report nobody asked for is a report. *)
LEMMA NoReportTyped == NoReport \in Reports /\ NoReport.told = NoFlows /\ NoReport.rows = {} /\ NoReport.reasons = {}
<1>1. NoFlows \in MoneyByDay
  BY DEF NoFlows, MoneyByDay
<1>2. NoReport = [pc |-> "none", live |-> FALSE, vouched |-> FALSE, from |-> 0, to |-> 0, rows |-> {},
                  end |-> 0, observed |-> 0, told |-> NoFlows, reasons |-> {}, endGain |-> 0, moved |-> FALSE]
  BY DEF NoReport, NoFlows
<1> HIDE DEF NoFlows
<1> QED
  BY <1>1, <1>2, DaysAre DEF Reports

(* A report of a period is asked for. *)
LEMMA PerfAsksPeriod == PerfInv /\ AskPeriod => PerfInv'
<1> SUFFICES ASSUME PerfInv, AskPeriod PROVE PerfInv'
  OBVIOUS
<1>1. PICK live \in BOOLEAN, vouched \in BOOLEAN, from \in 0..today :
        perf' = [NoReport EXCEPT !.pc = IF live THEN "holdings" ELSE "range", !.live = live,
                                 !.vouched = vouched, !.from = from, !.to = today]
  BY DEF AskPeriod
<1>2. today \in Days /\ today \in Nat
  BY PerfFacts, DaysAre DEF PerfInv
<1>3. from \in Days
  BY <1>2, PerformanceAssumption DEF Days
<1>4. /\ perf' \in Reports /\ perf'.told = NoFlows /\ perf'.rows = {} /\ perf'.to = today /\ perf'.live = live
      /\ perf'.pc = IF live THEN "holdings" ELSE "range"
  <2> DEFINE p == IF live THEN "holdings" ELSE "range"
  <2>1. p \in {"none", "holdings", "ledger", "range", "flows", "done"}
    OBVIOUS
  <2> HIDE DEF p, NoReport
  <2>2. perf' = [NoReport EXCEPT !.pc = p, !.live = live, !.vouched = vouched, !.from = from, !.to = today]
    BY <1>1 DEF p
  <2>3. /\ perf' \in Reports /\ perf'.told = NoFlows /\ perf'.rows = {} /\ perf'.to = today /\ perf'.live = live
        /\ perf'.pc = p
    BY <1>2, <1>3, <2>1, <2>2, NoReportTyped DEF Reports
  <2> QED
    BY <2>3 DEF p
<1>5. UNCHANGED <<today, wealth, snaps>>
  BY DEF AskPeriod
<1>6. perf'.pc # "done" /\ (perf'.live => perf'.pc = "holdings")
  BY <1>4
<1>7. RowsOfPeriod' /\ LedgerTold' /\ LiveTold'
  BY <1>2, <1>4, <1>5, <1>6 DEF RowsOfPeriod, LedgerTold, LiveTold
<1>8. LiveSoFar'
  BY <1>4, <1>5, <1>6 DEF PerfInv, LiveSoFar, Quiet
<1> QED
  BY <1>4, <1>5, <1>7, <1>8, ReportStep

(* A set of days has a first and a last. *)
LEMMA BoundsExist ==
    ASSUME NEW S \in SUBSET Days, S # {}
    PROVE  /\ Min(S) \in S /\ \A x \in S : Min(S) <= x
           /\ Max(S) \in S /\ \A x \in S : x <= Max(S)
<1>1. S \subseteq Nat /\ \A x \in S : x <= LastDay
  BY DaysAre
<1>2. \E m \in S : \A x \in S : m <= x
  BY <1>1, FirstOf
<1>3. \E m \in S : \A x \in S : x <= m
  <2> DEFINE Below == {n \in Nat : \E x \in S : x = LastDay - n}
  <2>1. Below # {}
    <3>1. PICK x \in S : TRUE
      OBVIOUS
    <3>2. LastDay - x \in Nat /\ x = LastDay - (LastDay - x)
      BY <1>1, <3>1, DaysAre
    <3> QED
      BY <3>1, <3>2
  <2>2. Below \in SUBSET Nat
    OBVIOUS
  <2>3. PICK n \in Below : \A y \in Below : n <= y
    <3> HIDE DEF Below
    <3> QED
      BY <2>1, <2>2, FirstOf
  <2>4. PICK m \in S : m = LastDay - n
    BY <2>3
  <2>5. \A x \in S : x <= m
    <3> TAKE x \in S
    <3>1. LastDay - x \in Nat /\ x = LastDay - (LastDay - x) /\ x \in Nat /\ LastDay \in Nat /\ n \in Nat
      BY <1>1, DaysAre
    <3>2. LastDay - x \in Below
      BY <3>1
    <3>3. n <= LastDay - x
      BY <2>3, <3>2
    <3> HIDE DEF Below
    <3> QED
      BY <2>4, <3>1, <3>3
  <2> QED
    BY <2>5
<1> QED
  BY <1>2, <1>3 DEF Min, Max

(* A report of two pinned snapshots is asked for. *)
LEMMA PerfAsksPinned == PerfInv /\ AskPinned => PerfInv'
<1> SUFFICES ASSUME PerfInv, AskPinned PROVE PerfInv'
  OBVIOUS
<1>1. PICK pinned \in (SUBSET DOMAIN snaps) \ {{}}, vouched \in BOOLEAN :
        perf' = [NoReport EXCEPT !.pc = "flows", !.vouched = vouched, !.rows = pinned,
                                 !.from = Min({snaps[i].day : i \in pinned}), !.to = Max({snaps[i].day : i \in pinned})]
  BY DEF AskPinned
<1> DEFINE D == {snaps[i].day : i \in pinned}
<1>2. pinned \subseteq DOMAIN snaps /\ pinned # {} /\ snaps \in Seq(Snaps) /\ \A i \in DOMAIN snaps : snaps[i].day \in Days
  BY PerfFacts DEF PerfInv, PerfTyped, Snaps
<1>3. D \in SUBSET Days /\ D # {}
  BY <1>2
<1>4. Min(D) \in D /\ Max(D) \in D /\ \A x \in D : Min(D) <= x /\ x <= Max(D)
  <2> HIDE DEF D
  <2> QED
    BY <1>3, BoundsExist
<1>5. pinned \in SUBSET Nat
  BY <1>2
<1>6. /\ perf' \in Reports /\ perf'.told = NoFlows /\ perf'.rows = pinned /\ perf'.to = Max(D) /\ perf'.from = Min(D)
      /\ ~perf'.live /\ perf'.pc = "flows"
  <2>1. perf' = [NoReport EXCEPT !.pc = "flows", !.vouched = vouched, !.rows = pinned, !.from = Min(D), !.to = Max(D)]
    BY <1>1
  <2>2. Min(D) \in Days /\ Max(D) \in Days
    BY <1>3, <1>4
  <2>3. NoReport.live = FALSE
    BY DEF NoReport
  <2> HIDE DEF D, NoReport
  <2> QED
    BY <1>5, <2>1, <2>2, <2>3, NoReportTyped DEF Reports
<1>7. UNCHANGED <<today, wealth, snaps>>
  BY DEF AskPinned
<1>8. perf'.to <= today'
  <2>1. PICK i \in pinned : snaps[i].day = Max(D)
    BY <1>4
  <2>2. SnapTrue(snaps[i])
    BY <1>2 DEF PerfInv
  <2>3. snaps[i].day <= today
    BY <2>2 DEF SnapTrue
  <2> QED
    BY <1>6, <1>7, <2>1, <2>3
<1>9. \A i \in pinned : Min(D) <= snaps[i].day /\ snaps[i].day <= Max(D)
  <2> TAKE i \in pinned
  <2>1. snaps[i].day \in D
    OBVIOUS
  <2> QED
    BY <1>4, <2>1
<1> HIDE DEF D
<1>10. RowsOfPeriod' /\ LedgerTold' /\ LiveSoFar' /\ LiveTold'
  BY <1>2, <1>6, <1>7, <1>8, <1>9 DEF RowsOfPeriod, LedgerTold, LiveSoFar, LiveTold, Quiet
<1> QED
  BY <1>6, <1>7, <1>10, ReportStep

(* Nothing came in after the period until now, so a live value is that of  *)
(* the opening, the gain and all that came in.                             *)
LEMMA ValueOfAll == ASSUME PerfInv PROVE Value = Opening + wealth.gain + Flows(wealth.flow, -1, LastDay)
<1> DEFINE flow == wealth.flow
<1>1. flow \in MoneyByDay /\ today \in Days /\ \A d \in Days : d > today => flow[d] = 0
  BY PerfFacts DEF PerfInv
<1>2. Flows(flow, -1, LastDay) = Flows(flow, -1, today)
  <2> HIDE DEF flow
  <2>1. today \in Nat /\ LastDay \in Nat /\ today <= LastDay
    BY <1>1, DaysAre
  <2>2. -1 \in Int /\ today \in Int /\ LastDay \in Int /\ -1 <= today
    BY <2>1
  <2>3. Flows(flow, -1, LastDay) = Flows(flow, -1, today) + Flows(flow, today, LastDay)
    BY <1>1, <2>1, <2>2, FlowsSplit
  <2>4. Flows(flow, today, LastDay) = 0
    <3>1. \A d \in Span(today, LastDay) : flow[d] = 0
      <4> TAKE d \in Span(today, LastDay)
      <4>1. d \in Days /\ d \in Nat /\ today < d
        BY DaysAre DEF Span
      <4>2. d > today
        BY <2>1, <4>1
      <4> QED
        BY <1>1, <4>1, <4>2
    <3> QED
      BY <1>1, <2>2, <3>1, FlowsNone
  <2>5. Flows(flow, -1, today) \in Int
    BY <1>1, <2>2, FlowsTyped
  <2> QED
    BY <2>3, <2>4, <2>5
<1> QED
  BY <1>2 DEF Value

(* The holdings of today are read for the end of a live report. *)
LEMMA PerfReadsAccounts == PerfInv /\ ReadAccounts => PerfInv'
<1> SUFFICES ASSUME PerfInv, ReadAccounts PROVE PerfInv'
  OBVIOUS
<1>1. PICK how \in {"ok", "failed", "unpriced"} :
        Step("holdings", "ledger",
             [perf EXCEPT !.end = IF how = "ok" THEN Value ELSE Value - 1, !.endGain = wealth.gain,
                          !.reasons = @ \cup Because(how, how)])
  BY DEF ReadAccounts
<1>2. perf \in Reports /\ wealth.gain \in Int
  BY PerfFacts DEF PerfInv
<1>3. perf.pc = "holdings" /\ UNCHANGED <<today, wealth, snaps>>
  BY <1>1 DEF Step
<1> DEFINE e == IF how = "ok" THEN Value ELSE Value - 1
           r == perf.reasons \cup Because(how, how)
<1>4. e \in Int /\ (how = "ok" => e = Value)
  <2> DEFINE v == Value
  <2>1. v \in Int
    BY ValueIs
  <2> HIDE DEF v
  <2>2. v - 1 \in Int
    BY <2>1
  <2> QED
    BY <2>1, <2>2 DEF v
<1>5. r \in SUBSET {"failed", "unpriced", "unstated", "conflict", "incomplete"} /\ (r = {} => how = "ok" /\ perf.reasons = {})
  BY <1>2 DEF Because, Reports
<1>6. perf' = [perf EXCEPT !.end = e, !.endGain = wealth.gain, !.reasons = r, !.pc = "ledger"]
  <2> DEFINE q == [perf EXCEPT !.end = IF how = "ok" THEN Value ELSE Value - 1, !.endGain = wealth.gain,
                          !.reasons = @ \cup Because(how, how)]
  <2>1. perf' = [q EXCEPT !.pc = "ledger"]
    BY <1>1 DEF Step
  <2>2. q = [perf EXCEPT !.end = e, !.endGain = wealth.gain, !.reasons = r]
    OBVIOUS
  <2> HIDE DEF q, e, r
  <2> QED
    BY <1>2, <2>1, <2>2 DEF Reports
<1> HIDE DEF e, r
<1>7. /\ perf' \in Reports /\ perf'.pc = "ledger" /\ perf'.live = perf.live /\ perf'.vouched = perf.vouched
      /\ perf'.from = perf.from /\ perf'.to = perf.to /\ perf'.rows = perf.rows /\ perf'.told = perf.told
      /\ perf'.moved = perf.moved /\ perf'.end = e /\ perf'.endGain = wealth.gain /\ perf'.reasons = r
  BY <1>2, <1>4, <1>5, <1>6 DEF Reports
<1>8. RowsOfPeriod' /\ LedgerTold' /\ LiveTold'
  BY <1>3, <1>7 DEF PerfInv, RowsOfPeriod, LedgerTold, LiveTold
<1>9. LiveSoFar'
  <2> SUFFICES ASSUME Quiet'
               PROVE  /\ \A d \in Days : d > perf'.to => wealth'.flow[d] = 0
                      /\ perf'.end = Opening + perf'.endGain + Flows(wealth'.flow, -1, LastDay)
    BY <1>7 DEF LiveSoFar
  <2>1. Quiet /\ how = "ok"
    BY <1>5, <1>7 DEF Quiet
  <2> QED
    BY <1>3, <1>4, <1>7, <2>1, ValueOfAll DEF PerfInv, LiveSoFar
<1> QED
  BY <1>3, <1>7, <1>8, <1>9, ReportStep

(* The movements of cash of the period are read. *)
LEMMA PerfReadsTransactions == PerfInv /\ ReadTransactions => PerfInv'
<1> SUFFICES ASSUME PerfInv, ReadTransactions PROVE PerfInv'
  OBVIOUS
<1>1. PICK how \in {"ok", "failed", "unstated"} :
        Step("ledger", "range",
             [perf EXCEPT !.observed = IF how = "ok" THEN Flows(wealth.flow, perf.from - 1, perf.to) ELSE 0,
                          !.reasons = @ \cup IF how = "unstated" /\ ~perf.vouched THEN {} ELSE Because(how, how)])
  BY DEF ReadTransactions
<1>2. perf \in Reports /\ wealth.flow \in MoneyByDay /\ perf.from \in Days /\ perf.to \in Days
  BY PerfFacts DEF PerfInv, Reports
<1>3. perf.pc = "ledger" /\ UNCHANGED <<today, wealth, snaps>>
  BY <1>1 DEF Step
<1> DEFINE o == IF how = "ok" THEN Flows(wealth.flow, perf.from - 1, perf.to) ELSE 0
           r == perf.reasons \cup IF how = "unstated" /\ ~perf.vouched THEN {} ELSE Because(how, how)
<1>4. o \in Nat
  <2> DEFINE from == perf.from  to == perf.to
  <2>1. from \in Nat /\ to \in Nat
    BY <1>2, DaysAre
  <2> HIDE DEF from, to
  <2>2. from - 1 \in Int /\ to \in Int
    BY <2>1
  <2>3. Flows(wealth.flow, from - 1, to) \in Nat
    BY <1>2, <2>2, FlowsNone
  <2> QED
    BY <2>3 DEF from, to
<1>5. /\ r \in SUBSET {"failed", "unpriced", "unstated", "conflict", "incomplete"}
      /\ r = {} => perf.reasons = {} /\ (perf.vouched => how = "ok")
  BY <1>2 DEF Because, Reports
<1>6. perf' = [perf EXCEPT !.observed = o, !.reasons = r, !.pc = "range"]
  <2> DEFINE q == [perf EXCEPT !.observed = IF how = "ok" THEN Flows(wealth.flow, perf.from - 1, perf.to) ELSE 0,
                          !.reasons = @ \cup IF how = "unstated" /\ ~perf.vouched THEN {} ELSE Because(how, how)]
  <2>1. perf' = [q EXCEPT !.pc = "range"]
    BY <1>1 DEF Step
  <2>2. q = [perf EXCEPT !.observed = o, !.reasons = r]
    OBVIOUS
  <2> HIDE DEF q, o, r
  <2> QED
    BY <1>2, <2>1, <2>2 DEF Reports
<1>o. how = "ok" => o = Flows(wealth.flow, perf.from - 1, perf.to)
  OBVIOUS
<1> HIDE DEF o, r
<1>7. /\ perf' \in Reports /\ perf'.pc = "range" /\ perf'.live = perf.live /\ perf'.vouched = perf.vouched
      /\ perf'.from = perf.from /\ perf'.to = perf.to /\ perf'.rows = perf.rows /\ perf'.told = perf.told
      /\ perf'.moved = perf.moved /\ perf'.end = perf.end /\ perf'.endGain = perf.endGain /\ perf'.reasons = r
      /\ perf'.observed = o
  BY <1>2, <1>4, <1>5, <1>6 DEF Reports
<1>8. RowsOfPeriod' /\ LedgerTold' /\ LiveTold'
  BY <1>3, <1>7 DEF PerfInv, RowsOfPeriod, LedgerTold, LiveTold
<1>9. LiveSoFar'
  <2> SUFFICES ASSUME Quiet'
               PROVE  /\ \A d \in Days : d > perf'.to => wealth'.flow[d] = 0
                      /\ perf'.end = Opening + perf'.endGain + Flows(wealth'.flow, -1, LastDay)
                      /\ perf'.observed = Flows(wealth'.flow, perf'.from - 1, perf'.to)
    BY <1>7 DEF LiveSoFar
  <2>1. Quiet /\ how = "ok"
    BY <1>5, <1>7 DEF Quiet
  <2> QED
    BY <1>3, <1>o, <1>7, <2>1 DEF PerfInv, LiveSoFar
<1> QED
  BY <1>3, <1>7, <1>8, <1>9, ReportStep

(* The snapshots of the period are read. *)
LEMMA PerfReadsRange == PerfInv /\ ReadRange => PerfInv'
<1> SUFFICES ASSUME PerfInv, ReadRange PROVE PerfInv'
  OBVIOUS
<1> DEFINE N == Newest(perf.from, perf.to)
<1>1. perf.pc = "range" /\ UNCHANGED <<today, wealth, snaps>> /\ perf \in Reports
  BY PerfFacts DEF PerfInv, ReadRange, Step
<1>2. perf' = [[perf EXCEPT !.rows = N] EXCEPT !.pc = "flows"]
  BY DEF ReadRange, Step
<1>3. N \subseteq DOMAIN snaps /\ \A i \in N : perf.from <= snaps[i].day /\ snaps[i].day <= perf.to
  BY DEF Newest
<1>4. N \in SUBSET Nat
  <2>1. snaps \in Seq(Snaps)
    BY DEF PerfInv, PerfTyped
  <2> HIDE DEF N
  <2> QED
    BY <1>3, <2>1
<1> HIDE DEF N
<1>5. /\ perf' \in Reports /\ perf'.pc = "flows" /\ perf'.live = perf.live /\ perf'.vouched = perf.vouched
      /\ perf'.from = perf.from /\ perf'.to = perf.to /\ perf'.rows = N /\ perf'.told = perf.told
      /\ perf'.moved = perf.moved /\ perf'.end = perf.end /\ perf'.endGain = perf.endGain /\ perf'.reasons = perf.reasons
      /\ perf'.observed = perf.observed
  BY <1>1, <1>2, <1>4 DEF Reports
<1>6. RowsOfPeriod' /\ LedgerTold' /\ LiveTold' /\ LiveSoFar'
  BY <1>1, <1>3, <1>5 DEF PerfInv, RowsOfPeriod, LedgerTold, LiveTold, LiveSoFar, Quiet
<1> QED
  BY <1>1, <1>5, <1>6, ReportStep

(* The flows are those told, or none when they are vouched for (resolve_flow_inputs). *)
LEMMA PerfReadsFlows == PerfInv /\ ReadFlowInputs => PerfInv'
<1> SUFFICES ASSUME PerfInv, ReadFlowInputs PROVE PerfInv'
  OBVIOUS
<1>1. perf \in Reports /\ wealth.flow \in MoneyByDay /\ wealth.gain \in Int
  BY PerfFacts DEF PerfInv
<1>2. CASE perf.vouched
  <2> DEFINE r == perf.reasons \cup IF perf.observed > 0 THEN {"conflict"} ELSE {}
  <2>1. perf' = [[perf EXCEPT !.reasons = r] EXCEPT !.pc = "done"] /\ perf.pc = "flows" /\ UNCHANGED <<today, wealth, snaps>>
    BY <1>2 DEF ReadFlowInputs, Step
  <2>2. r \in SUBSET {"failed", "unpriced", "unstated", "conflict", "incomplete"} /\ (r = {} => perf.reasons = {} /\ perf.observed = 0)
    BY <1>1 DEF Reports
  <2> HIDE DEF r
  <2>3. /\ perf' \in Reports /\ perf'.pc = "done" /\ perf'.live = perf.live /\ perf'.vouched = perf.vouched
        /\ perf'.from = perf.from /\ perf'.to = perf.to /\ perf'.rows = perf.rows /\ perf'.told = perf.told
        /\ perf'.moved = perf.moved /\ perf'.end = perf.end /\ perf'.endGain = perf.endGain /\ perf'.reasons = r
        /\ perf'.observed = perf.observed
    BY <1>1, <2>1, <2>2 DEF Reports
  <2>4. RowsOfPeriod' /\ LedgerTold' /\ LiveSoFar'
    BY <1>2, <2>1, <2>3 DEF PerfInv, RowsOfPeriod, LedgerTold, LiveSoFar
  <2>5. LiveTold'
    <3> SUFFICES ASSUME Quiet'
                 PROVE  \E base \in Int :
                          /\ perf.end = base + perf.endGain
                          /\ \A i \in perf.rows : snaps[i].how # "short" => snaps[i].value = base + snaps[i].gain
      BY <2>1, <2>3 DEF LiveTold
    <3>1. Quiet /\ perf.observed = 0
      BY <2>2, <2>3 DEF Quiet
    <3> DEFINE f == wealth.flow  from == perf.from  to == perf.to  e == perf.end  g == perf.endGain
               base == Opening + Flows(f, -1, from - 1)
    <3>2. /\ \A d \in Days : d > to => f[d] = 0
          /\ e = Opening + g + Flows(f, -1, LastDay) /\ Flows(f, from - 1, to) = 0
      BY <2>1, <3>1 DEF PerfInv, LiveSoFar
    <3>3. f \in MoneyByDay /\ from \in Days /\ to \in Days /\ e \in Int /\ g \in Int
      BY <1>1 DEF Reports
    <3>4. \A i \in perf.rows : snaps[i].how # "short" => snaps[i].value = Opening + snaps[i].gain + Flows(f, -1, from - 1)
      <4> SUFFICES ASSUME NEW i \in perf.rows, snaps[i].how # "short"
                   PROVE  snaps[i].value = Opening + snaps[i].gain + Flows(f, -1, from - 1)
        OBVIOUS
      <4>1. i \in DOMAIN snaps /\ from <= snaps[i].day /\ snaps[i].day <= to
        BY DEF PerfInv, RowsOfPeriod
      <4> QED
        BY <3>2, <3>3, <4>1, SnapWorthQuiet
    <3>5. \A i \in perf.rows : snaps[i].gain \in Int
      BY PerfFacts DEF PerfInv, RowsOfPeriod, Snaps
    <3> HIDE DEF f, from, to, e, g
    <3>6. from \in Nat /\ to \in Nat /\ LastDay \in Nat /\ to <= LastDay
      BY <3>3, DaysAre
    <3>7. from - 1 \in Int /\ to \in Int /\ LastDay \in Int /\ -1 \in Int /\ -1 <= from - 1
      BY <3>6
    <3>8. Flows(f, -1, from - 1) \in Int /\ Opening \in Int
      BY <3>3, <3>7, FlowsTyped, PerformanceAssumption
    <3>9. Flows(f, -1, LastDay) = Flows(f, -1, from - 1)
      <4>1. \A d \in Days : d > from - 1 => f[d] = 0
        <5> TAKE d \in Days
        <5>1. d \in Nat
          BY DaysAre
        <5>2. \A x \in Span(from - 1, to) : f[x] = 0
          BY <3>2, <3>3, <3>7, FlowsNone
        <5>3. from - 1 < d /\ d <= to => f[d] = 0
          BY <5>2 DEF Span
        <5> QED
          BY <3>2, <3>6, <3>7, <5>1, <5>3
      <4>2. \A d \in Span(from - 1, LastDay) : f[d] = 0
        <5> TAKE d \in Span(from - 1, LastDay)
        <5>1. d \in Days /\ from - 1 < d /\ d \in Int
          BY DaysFinite DEF Span
        <5> QED
          BY <3>7, <4>1, <5>1
      <4>3. Flows(f, from - 1, LastDay) = 0
        BY <3>3, <3>7, <4>2, FlowsNone
      <4>4. from - 1 <= LastDay
        <5>1. from <= LastDay
          BY <3>3, DaysAre
        <5> QED
          BY <3>6, <5>1
      <4>5. Flows(f, -1, LastDay) = Flows(f, -1, from - 1) + Flows(f, from - 1, LastDay)
        BY <3>3, <3>7, <4>4, FlowsSplit
      <4> QED
        BY <3>8, <4>3, <4>5
    <3>10. base \in Int /\ e = base + g
      BY <3>2, <3>3, <3>8, <3>9
    <3>11. \A i \in perf.rows : snaps[i].how # "short" => snaps[i].value = base + snaps[i].gain
      <4> SUFFICES ASSUME NEW i \in perf.rows, snaps[i].how # "short" PROVE snaps[i].value = base + snaps[i].gain
        OBVIOUS
      <4> DEFINE v == snaps[i].value  h == snaps[i].gain  w == Flows(f, -1, from - 1)
      <4>1. v = Opening + h + w /\ h \in Int /\ w \in Int /\ Opening \in Int
        BY <3>4, <3>5, <3>8
      <4> HIDE DEF v, h, w
      <4>2. v = (Opening + w) + h
        BY <4>1
      <4> QED
        BY <4>2 DEF v, h, w
    <3> HIDE DEF base
    <3> QED
      BY <3>10, <3>11 DEF e, g
  <2> QED
    BY <2>1, <2>3, <2>4, <2>5, ReportStep
<1>3. CASE ~perf.vouched
  <2>1. PICK how \in {"ok", "incomplete"} :
          Step("flows", "done", [perf EXCEPT !.told = wealth.flow, !.reasons = @ \cup Because(how, how)])
    BY <1>3 DEF ReadFlowInputs
  <2> DEFINE r == perf.reasons \cup Because(how, how)
  <2>2. perf' = [[perf EXCEPT !.told = wealth.flow, !.reasons = r] EXCEPT !.pc = "done"] /\ UNCHANGED <<today, wealth, snaps>>
    BY <2>1 DEF Step
  <2>3. r \in SUBSET {"failed", "unpriced", "unstated", "conflict", "incomplete"}
    BY <1>1 DEF Because, Reports
  <2> HIDE DEF r
  <2>4. /\ perf' \in Reports /\ perf'.pc = "done" /\ perf'.live = perf.live /\ perf'.vouched = perf.vouched
        /\ perf'.from = perf.from /\ perf'.to = perf.to /\ perf'.rows = perf.rows /\ perf'.told = wealth.flow
    BY <1>1, <2>2, <2>3 DEF Reports
  <2>5. RowsOfPeriod' /\ LiveSoFar' /\ LiveTold'
    BY <1>3, <2>2, <2>4 DEF PerfInv, RowsOfPeriod, LiveSoFar, LiveTold, Quiet
  <2>6. LedgerTold'
    BY <2>2, <2>4 DEF LedgerTold
  <2> QED
    BY <2>2, <2>4, <2>5, <2>6, ReportStep
<1> QED
  BY <1>2, <1>3

(* Every step keeps the invariant. *)
LEMMA PerfSteps == PerfInv /\ [PerfNext]_perfVars => PerfInv'
<1> SUFFICES ASSUME PerfInv, [PerfNext]_perfVars PROVE PerfInv'
  OBVIOUS
<1>1. CASE PerfNext
  BY <1>1, PerfMarket, PerfMoney, PerfDay, PerfCapture, PerfAsksPeriod, PerfAsksPinned, PerfReadsAccounts,
     PerfReadsTransactions, PerfReadsRange, PerfReadsFlows DEF PerfNext
<1>2. CASE UNCHANGED perfVars
  <2>1. UNCHANGED <<today, wealth, snaps, perf>>
    BY <1>2 DEF perfVars
  <2>2. today \in Nat /\ today' \in Days /\ today <= today' /\ wealth' \in [gain : Int, flow : MoneyByDay] /\ wealth'.flow = wealth.flow
    <3>1. today \in Days /\ wealth \in [gain : Int, flow : MoneyByDay] /\ today \in Nat
      BY PerfFacts, DaysAre DEF PerfInv, PerfTyped
    <3> QED
      BY <2>1, <3>1
  <2> QED
    BY <2>1, <2>2, PerfIdle
<1> QED
  BY <1>1, <1>2

-----------------------------------------------------------------------------
(* The theorem on performance reports *)

(* For any number of days and any number of snapshots: what a performance   *)
(* report says of a period, or between two pinned snapshots, is what the    *)
(* markets gave, whatever came in, was captured before it, was told or went *)
(* unread meanwhile (portfolio_engine.compute_performance).                 *)
THEOREM PerformanceIsTrue == PerfSpec => []PerformanceTrue
<1>1. PerfInit => PerfInv
  BY PerfStarts
<1>2. PerfInv /\ [PerfNext]_perfVars => PerfInv'
  BY PerfSteps
<1>3. PerfInv => PerformanceTrue
  BY PerfMeans
<1> QED
  BY <1>1, <1>2, <1>3, PTL DEF PerfSpec

-----------------------------------------------------------------------------
(* Views of the portfolio: what is stored *)

AmountsTold == Int \cup {Unvalued}
Rows == [of : Desks, asset : Assets, qty : Nat \ {0}, price : Prices, how : {"priced", "valued", "bare"}]
Balances == [cash : AmountsTold, receive : AmountsTold, pay : AmountsTold]
Views == [pc : {"none", "toss", "toss_cash", "kis", "balance", "check", "dollar", "quotes", "done"},
          told : SUBSET Rows, balance : [Desks -> Balances], bad : SUBSET Desks,
          dollar : {Dollar, Unvalued}, quotes : [Assets -> Prices \cup {Unvalued}],
          futures : {"unread", "failed", "no_rate", "flat", "short"},
          real : [Desks -> [shares : [Assets -> Nat], worth : Int]], stirred : SUBSET Desks, hidden : BOOLEAN]

ViewTyped ==
    /\ market \in [price : [Assets -> Prices], short : {0, 1}]
    /\ owned \in [Desks -> [Assets -> Nat]]
    /\ purse \in [Desks -> [cash : Int, receive : Int, pay : Int]]
    /\ view \in Views /\ IsFiniteSet(view.told)
    /\ proof \in [made : BOOLEAN, at : Int, shares : [Assets -> Int], empty : BOOLEAN, disturbed : BOOLEAN]

\* The rows told are of the shares an account had when they were read, each once;
\* an account that answered whole left none out.
ToldRows ==
    /\ \A r \in view.told : r.qty = view.real[r.of].shares[r.asset]
    /\ \A r, q \in view.told : r.of = q.of /\ r.asset = q.asset => r = q
    /\ \A d \in Desks, s \in Assets : d \notin view.bad /\ view.real[d].shares[s] > 0 =>
          \E r \in view.told : r.of = d /\ r.asset = s
    /\ view.pc \in {"none", "toss"} => view.told = {}
    /\ view.pc \in {"toss_cash", "kis"} => HeldRows("kis") = {}

\* The cash told, with what is to settle, is what an account was worth when it was read,
\* unless something happened in it between its reads.
MoneyTold ==
    /\ purse["toss"].receive = 0 /\ purse["toss"].pay = 0
    /\ Known("toss") => view.balance["toss"].cash = view.real["toss"].worth
    /\ \A k \in {view.balance["kis"]} :
         Unvalued \notin {k.cash, k.receive, k.pay} /\ view.bad = {} /\ view.stirred = {} /\ ~view.hidden
            => k.cash + k.receive - k.pay = view.real["kis"].worth
    /\ view.pc \in {"none", "toss", "toss_cash"} => view.balance["toss"] = NoBalance
    /\ view.pc \in {"none", "toss", "toss_cash", "kis", "balance", "check"} => view.balance["kis"] = NoBalance
    /\ view.pc \in {"balance", "check"} /\ view.stirred = {} => owned["kis"] = view.real["kis"].shares
    /\ view.pc = "check" /\ view.stirred = {} => view.real["kis"].worth = Worth("kis")

\* An account proved empty is, while it has the shares it had and nothing disturbed it.
ProofHolds == proof.made /\ proof.empty /\ ~proof.disturbed /\ owned["kis"] = proof.shares => purse["kis"] = EmptyPurse

ViewInv == ViewTyped /\ ToldRows /\ MoneyTold /\ ProofHolds

(* Of finitely many numbers one is the largest. *)
LEMMA LargestExists ==
    ASSUME NEW S, IsFiniteSet(S), S # {}, NEW f, \A x \in S : f[x] \in Int
    PROVE  \E x \in S : \A y \in S : f[y] <= f[x]
<1> DEFINE P == {T \in SUBSET S : T # {} => \E x \in T : \A y \in T : f[y] <= f[x]}
<1>1. {} \in P
  OBVIOUS
<1>2. ASSUME NEW T \in SUBSET S, NEW z \in S, T \in P, z \notin T PROVE T \cup {z} \in P
  <2>1. CASE T = {}
    <3>1. f[z] <= f[z]
      OBVIOUS
    <3>2. \A y \in T \cup {z} : f[y] <= f[z]
      BY <2>1, <3>1
    <3> QED
      BY <3>2
  <2>2. CASE T # {}
    <3>1. PICK x \in T : \A y \in T : f[y] <= f[x]
      BY <1>2, <2>2
    <3>2. CASE f[z] <= f[x]
      BY <3>1, <3>2
    <3>3. CASE ~(f[z] <= f[x])
      <4>1. \A y \in T \cup {z} : f[y] <= f[z]
        <5> TAKE y \in T \cup {z}
        <5>1. CASE y = z
          BY <5>1
        <5>2. CASE y \in T
          <6>1. f[y] \in Int /\ f[x] \in Int /\ f[z] \in Int /\ f[y] <= f[x]
            BY <3>1, <5>2
          <6> QED
            BY <3>3, <6>1
        <5> QED
          BY <5>1, <5>2
      <4> QED
        BY <4>1
    <3> QED
      BY <3>2, <3>3
  <2> QED
    BY <2>1, <2>2
<1>3. \A T \in SUBSET S, x \in S : T \in P /\ x \notin T => T \cup {x} \in P
  BY <1>2
<1> HIDE DEF P
<1>4. \A T \in SUBSET S : T \in P
  BY <1>1, <1>3, EverySubset
<1> QED
  BY <1>4 DEF P

(* The types of the parts of the state. *)
LEMMA ViewFacts ==
    ASSUME ViewTyped
    PROVE  /\ \A s \in Assets : market.price[s] \in Prices
           /\ \A d \in Desks, s \in Assets : owned[d][s] \in Nat
           /\ \A d \in Desks : purse[d].cash \in Int /\ purse[d].receive \in Int /\ purse[d].pay \in Int
           /\ view \in Views /\ IsFiniteSet(view.told) /\ view.told \in SUBSET Rows
           /\ \A r \in view.told : /\ r.of \in Desks /\ r.asset \in Assets /\ r.qty \in Int /\ r.qty > 0
                                   /\ r.price \in Int /\ r.how \in {"priced", "valued", "bare"}
           /\ \A s \in Assets : view.quotes[s] \in Prices \cup {Unvalued}
           /\ \A d \in Desks, s \in Assets : view.real[d].shares[s] \in Nat
           /\ \A d \in Desks : view.real[d].worth \in Int
           /\ \A d \in Desks : view.balance[d] \in Balances
           /\ view.dollar \in {Dollar, Unvalued}
<1>1. \A p \in Prices : p \in Int
  BY ViewAssumption
<1>2. view \in Views
  BY DEF ViewTyped
<1>3. view.told \in SUBSET Rows
  BY <1>2 DEF Views
<1>4. \A r \in view.told : /\ r.of \in Desks /\ r.asset \in Assets /\ r.qty \in Int /\ r.qty > 0
                           /\ r.price \in Int /\ r.how \in {"priced", "valued", "bare"}
  BY <1>1, <1>3 DEF Rows
<1>5. /\ \A s \in Assets : view.quotes[s] \in Prices \cup {Unvalued}
      /\ \A d \in Desks, s \in Assets : view.real[d].shares[s] \in Nat
      /\ \A d \in Desks : view.real[d].worth \in Int
      /\ \A d \in Desks : view.balance[d] \in Balances
      /\ view.dollar \in {Dollar, Unvalued}
  BY <1>2 DEF Views
<1>6. /\ \A s \in Assets : market.price[s] \in Prices
      /\ \A d \in Desks, s \in Assets : owned[d][s] \in Nat
      /\ \A d \in Desks : purse[d].cash \in Int /\ purse[d].receive \in Int /\ purse[d].pay \in Int
  BY DEF ViewTyped
<1> QED
  BY <1>2, <1>3, <1>4, <1>5, <1>6 DEF ViewTyped

(* A mark is an amount, or not known. *)
LEMMA MarkTyped == ASSUME ViewTyped, NEW s \in Assets PROVE CanonicalMark(s) \in AmountsTold
<1> DEFINE priced == {r \in Group(s) : r.how = "priced"}
<1>1. view.quotes[s] \in AmountsTold
  <2>1. view.quotes[s] \in Prices \cup {Unvalued}
    BY ViewFacts
  <2>2. \A p \in Prices : p \in Int
    BY ViewAssumption
  <2> QED
    BY <2>1, <2>2 DEF AmountsTold
<1>2. CASE view.quotes[s] # Unvalued \/ priced = {}
  BY <1>1, <1>2 DEF CanonicalMark
<1>3. CASE ~(view.quotes[s] # Unvalued \/ priced = {})
  <2> DEFINE f == [r \in priced |-> Rank(r)]
             top == CHOOSE r \in priced : \A q \in priced : Rank(q) <= Rank(r)
  <2>1. priced \subseteq view.told /\ IsFiniteSet(priced)
    BY ViewFacts, FS_Subset DEF Group
  <2>2. \A r \in priced : Rank(r) \in Int
    <3> TAKE r \in priced
    <3>1. r.qty \in Int
      BY <2>1, ViewFacts
    <3> DEFINE n == r.qty
    <3> HIDE DEF n
    <3>2. 2 * n + (IF r.of = "toss" THEN 1 ELSE 0) \in Int
      BY <3>1 DEF n
    <3> QED
      BY <3>2 DEF Rank, n
  <2>3. \A r \in priced : f[r] = Rank(r)
    OBVIOUS
  <2> HIDE DEF f
  <2>4. \E r \in priced : \A q \in priced : f[q] <= f[r]
    <3> HIDE DEF priced
    <3>1. priced # {} /\ \A x \in priced : f[x] \in Int
      BY <1>3, <2>2, <2>3
    <3> QED
      BY <2>1, <3>1, LargestExists
  <2>5. \E r \in priced : \A q \in priced : Rank(q) <= Rank(r)
    BY <2>3, <2>4
  <2>6. top \in priced
    <3> HIDE DEF priced
    <3> QED
      BY <2>5
  <2>7. CanonicalMark(s) = top.price
    BY <1>3 DEF CanonicalMark
  <2>8. top.price \in Int
    <3> HIDE DEF top
    <3> QED
      BY <2>1, <2>6, ViewFacts
  <2> QED
    BY <2>7, <2>8 DEF AmountsTold
<1> QED
  BY <1>2, <1>3

(* The value of a row is its shares at their mark, when there is one. *)
LEMMA RowTyped ==
    ASSUME ViewTyped, NEW r \in view.told
    PROVE  /\ RowValue(r) \in AmountsTold
           /\ CanonicalMark(r.asset) # Unvalued => RowValue(r) = CanonicalMark(r.asset) * r.qty
<1> DEFINE n == r.qty
           p == r.price
           m == CanonicalMark(r.asset)
<1>1. n \in Int /\ p \in Int /\ r.asset \in Assets
  BY ViewFacts
<1>2. m \in AmountsTold
  BY <1>1, MarkTyped
<1>3. RowValue(r) = IF m = Unvalued THEN IF r.how = "bare" THEN Unvalued ELSE p * n ELSE m * n
  BY DEF RowValue, BrokerValue
<1> HIDE DEF n, p, m
<1>4. p * n \in Int /\ (m # Unvalued => m * n \in Int)
  BY <1>1, <1>2 DEF AmountsTold
<1>5. RowValue(r) \in AmountsTold /\ (m # Unvalued => RowValue(r) = m * n)
  BY <1>3, <1>4 DEF AmountsTold
<1> QED
  BY <1>5 DEF n, m

(* The row of a symbol an account told, when it answered whole. *)
LEMMA RowsOfOne ==
    ASSUME ViewInv, NEW d \in Desks, d \notin view.bad, NEW s \in Assets, NEW R, R = {r \in view.told : r.of = d /\ r.asset = s},
           NEW f, \A r \in R : f[r] = r.qty
    PROVE  IsFiniteSet(R) /\ SumFunctionOnSet(f, R) = view.real[d].shares[s]
<1>1. IsFiniteSet(R) /\ R \subseteq view.told
  BY FS_Subset, ViewFacts DEF ViewInv
<1>2. view.real[d].shares[s] \in Nat
  BY ViewFacts DEF ViewInv
<1>3. CASE R = {}
  <2>1. ~(view.real[d].shares[s] > 0)
    BY <1>3 DEF ViewInv, ToldRows
  <2>2. view.real[d].shares[s] = 0
    <3> DEFINE c == view.real[d].shares[s]
    <3>1. c \in Nat /\ ~(c > 0)
      BY <1>2, <2>1
    <3> HIDE DEF c
    <3>2. c = 0
      BY <3>1
    <3> QED
      BY <3>2 DEF c
  <2> QED
    BY <1>1, <1>3, <2>2, SumChosen
<1>4. CASE R # {}
  <2>1. PICK r \in R : TRUE
    BY <1>4
  <2>2. R = {r} /\ f[r] = view.real[d].shares[s]
    BY <2>1 DEF ViewInv, ToldRows
  <2>3. f[r] \in Int /\ IsFiniteSet({r}) /\ IsFiniteSet({}) /\ {r} \ {r} = {}
    <3>1. f[r] \in Int
      BY <1>2, <2>2
    <3> QED
      BY <3>1, FS_EmptySet, FS_Singleton
  <2>4. SumFunctionOnSet(f, {r}) = f[r] + SumFunctionOnSet(f, {r} \ {r})
    BY <2>3, SumTaken
  <2>5. SumFunctionOnSet(f, {}) = 0
    BY <2>3, SumChosen
  <2>6. SumFunctionOnSet(f, {r}) = f[r]
    <3> DEFINE a == SumFunctionOnSet(f, {r})  b == f[r]
    <3>1. a = b + 0 /\ b \in Int
      BY <2>3, <2>4, <2>5
    <3> HIDE DEF a, b
    <3>2. a = b
      BY <3>1
    <3> QED
      BY <3>2 DEF a, b
  <2> QED
    BY <1>1, <2>2, <2>6
<1> QED
  BY <1>3, <1>4

Rate(s) == IF s \in Foreign THEN Dollar ELSE 1

-----------------------------------------------------------------------------
(* What a view says *)

(* The rates are positive. *)
LEMMA RateIs == \A s : Rate(s) \in Int /\ Rate(s) > 0
  BY ViewAssumption DEF Rate

(* The rows of a symbol are some of those told. *)
LEMMA GroupFinite ==
    ASSUME ViewTyped, NEW s
    PROVE  Group(s) \subseteq view.told /\ IsFiniteSet(Group(s)) /\ \A r \in Group(s) : r.asset = s
BY ViewFacts, FS_Subset DEF Group

(* The shares of a symbol that both accounts told. *)
LEMMA GroupShares ==
    ASSUME ViewInv, view.bad = {}, NEW s \in Assets, NEW f, \A r \in Group(s) : f[r] = r.qty
    PROVE  SumFunctionOnSet(f, Group(s)) = RealShares(s)
<1> DEFINE T == {r \in view.told : r.of = "toss" /\ r.asset = s}
           K == {r \in view.told : r.of = "kis" /\ r.asset = s}
<1>1. Group(s) = T \cup K /\ T \cap K = {}
  BY ViewFacts DEF Group, ViewInv, Desks
<1>2. IsFiniteSet(T) /\ SumFunctionOnSet(f, T) = view.real["toss"].shares[s]
  <2>1. \A r \in T : f[r] = r.qty
    BY <1>1
  <2> QED
    BY <2>1, RowsOfOne DEF Desks
<1>3. IsFiniteSet(K) /\ SumFunctionOnSet(f, K) = view.real["kis"].shares[s]
  <2>1. \A r \in K : f[r] = r.qty
    BY <1>1
  <2> QED
    BY <2>1, RowsOfOne DEF Desks
<1>4. \A r \in T \cup K : f[r] \in Int
  BY <1>1, ViewFacts DEF ViewInv
<1> HIDE DEF T, K
<1>5. SumFunctionOnSet(f, T \cup K) = SumFunctionOnSet(f, T) + SumFunctionOnSet(f, K)
  BY <1>1, <1>2, <1>3, <1>4, SumSplit
<1> QED
  BY <1>1, <1>2, <1>3, <1>5 DEF RealShares

(* A position with a value has one for each row, and a rate. *)
LEMMA PositionIs ==
    ASSUME ViewTyped, NEW s, NEW f, f = [r \in Group(s) |-> RowValue(r)]
    PROVE  /\ PositionValue(s) # Unvalued => /\ \A r \in Group(s) : RowValue(r) \in Int
                                             /\ s \in Foreign => view.dollar = Dollar
           /\ (\A r \in Group(s) : RowValue(r) # Unvalued) /\ (s \in Foreign => view.dollar # Unvalued) =>
                 /\ SumFunctionOnSet(f, Group(s)) \in Int /\ PositionValue(s) \in Int
                 /\ PositionValue(s) = SumFunctionOnSet(f, Group(s)) * Rate(s)
<1> DEFINE total == SumFunctionOnSet(f, Group(s))
<1>1. \A r \in Group(s) : RowValue(r) \in AmountsTold
  BY RowTyped, GroupFinite
<1>2. SumFunction(f) = total
  BY DEF SumFunction
<1>3. ASSUME \A r \in Group(s) : RowValue(r) # Unvalued PROVE total \in Int
  <2>1. \A r \in Group(s) : f[r] \in Int
    BY <1>1, <1>3 DEF AmountsTold
  <2> QED
    BY <2>1, GroupFinite, SumTyped
<1>4. Unvalued \notin Int /\ Dollar \in Int
  BY ViewAssumption
<1>5. view.dollar \in {Dollar, Unvalued}
  BY ViewFacts
<1>6. ASSUME \A r \in Group(s) : RowValue(r) # Unvalued
      PROVE  PositionValue(s) = Won(total, s \in Foreign)
  BY <1>2, <1>6 DEF PositionValue
<1>7. ASSUME PositionValue(s) # Unvalued
      PROVE  /\ \A r \in Group(s) : RowValue(r) \in Int
             /\ s \in Foreign => view.dollar = Dollar
  <2>1. \A r \in Group(s) : RowValue(r) # Unvalued
    BY <1>7 DEF PositionValue
  <2>2. Won(total, s \in Foreign) # Unvalued
    BY <1>6, <1>7, <2>1
  <2>3. s \in Foreign => view.dollar # Unvalued
    BY <2>2 DEF Won
  <2> QED
    BY <1>1, <1>5, <2>1, <2>3 DEF AmountsTold
<1>8. ASSUME \A r \in Group(s) : RowValue(r) # Unvalued, s \in Foreign => view.dollar # Unvalued
      PROVE  total \in Int /\ PositionValue(s) \in Int /\ PositionValue(s) = total * Rate(s)
  <2>1. total \in Int /\ PositionValue(s) = Won(total, s \in Foreign)
    BY <1>3, <1>6, <1>8
  <2>2. Won(total, s \in Foreign) = total * Rate(s)
    <3>1. CASE s \in Foreign
      <4>1. view.dollar = Dollar /\ view.dollar # Unvalued
        BY <1>5, <1>8, <3>1
      <4> HIDE DEF total
      <4>2. Unvalued \notin {total, view.dollar}
        BY <1>4, <2>1, <4>1
      <4> QED
        BY <3>1, <4>1, <4>2 DEF Won, Rate
    <3>2. CASE s \notin Foreign
      <4> HIDE DEF total
      <4>1. total * 1 = total
        BY <2>1
      <4> QED
        BY <3>2, <4>1 DEF Won, Rate
    <3> QED
      BY <3>1, <3>2
  <2>3. total * Rate(s) \in Int
    <3> DEFINE k == Rate(s)
    <3>1. k \in Int
      BY RateIs
    <3> HIDE DEF k, total
    <3>2. total * k \in Int
      BY <2>1, <3>1
    <3> QED
      BY <3>2 DEF k
  <2> QED
    BY <2>1, <2>2, <2>3
<1> HIDE DEF total
<1>9. /\ PositionValue(s) # Unvalued => /\ \A r \in Group(s) : RowValue(r) \in Int
                                        /\ s \in Foreign => view.dollar = Dollar
      /\ (\A r \in Group(s) : RowValue(r) # Unvalued) /\ (s \in Foreign => view.dollar # Unvalued) =>
            total \in Int /\ PositionValue(s) \in Int /\ PositionValue(s) = total * Rate(s)
  BY <1>7, <1>8
<1> QED
  BY <1>9 DEF total

(* What a known value of a position is made of. *)
LEMMA PositionKnown ==
    ASSUME ViewTyped, NEW s, PositionValue(s) # Unvalued
    PROVE  /\ PositionValue(s) \in Int
           /\ \A r \in Group(s) : RowValue(r) \in Int
           /\ s \in Foreign => view.dollar = Dollar
           /\ PositionValue(s) = SumFunctionOnSet([r \in Group(s) |-> RowValue(r)], Group(s)) * Rate(s)
<1> DEFINE f == [r \in Group(s) |-> RowValue(r)]
           total == SumFunctionOnSet(f, Group(s))
<1>1. (\A r \in Group(s) : RowValue(r) \in Int) /\ (s \in Foreign => view.dollar = Dollar)
  BY PositionIs
<1>2. Unvalued \notin Int /\ Dollar \in Int
  BY ViewAssumption
<1>3. (\A r \in Group(s) : RowValue(r) # Unvalued) /\ (s \in Foreign => view.dollar # Unvalued)
  BY <1>1, <1>2
<1>4. PositionValue(s) \in Int /\ PositionValue(s) = total * Rate(s)
  BY <1>3, PositionIs
<1> QED
  BY <1>1, <1>4

(* What is owned is what was told, when the accounts answered. *)
LEMMA ToldIsOwned ==
    ASSUME ViewInv, view.bad = {}
    PROVE  HeldAssets = Owned /\ HeldAssets \subseteq Assets
<1>1. ASSUME NEW r \in view.told PROVE r.asset \in Owned
  <2>1. r.of \in Desks /\ r.asset \in Assets /\ r.qty \in Int /\ r.qty > 0 /\ r.qty = view.real[r.of].shares[r.asset]
    BY ViewFacts DEF ViewInv, ToldRows
  <2> DEFINE a == view.real["toss"].shares[r.asset]
             b == view.real["kis"].shares[r.asset]
  <2>2. a \in Nat /\ b \in Nat /\ (a > 0 \/ b > 0)
    BY <2>1, ViewFacts DEF ViewInv, Desks
  <2> HIDE DEF a, b
  <2>3. a + b > 0
    BY <2>2
  <2> QED
    BY <2>1, <2>3 DEF Owned, RealShares, a, b
<1>2. ASSUME NEW s \in Owned PROVE s \in HeldAssets
  <2> DEFINE a == view.real["toss"].shares[s]
             b == view.real["kis"].shares[s]
  <2>1. s \in Assets /\ a + b > 0 /\ a \in Nat /\ b \in Nat
    BY ViewFacts DEF Owned, RealShares, ViewInv, Desks
  <2> HIDE DEF a, b
  <2>2. a > 0 \/ b > 0
    BY <2>1
  <2> USE DEF a, b
  <2>3. PICK r \in view.told : r.asset = s
    BY <2>1, <2>2 DEF ViewInv, ToldRows, Desks
  <2> QED
    BY <2>3 DEF HeldAssets
<1>3. HeldAssets \subseteq Owned
  BY <1>1 DEF HeldAssets
<1>4. Owned \subseteq HeldAssets /\ Owned \subseteq Assets
  BY <1>2 DEF Owned
<1> QED
  BY <1>3, <1>4

(* A position with a value is the shares there were at their mark. *)
LEMMA PositionTrue ==
    ASSUME ViewInv, view.bad = {}, NEW s \in Owned, CanonicalMark(s) # Unvalued,
           s \in Foreign => view.dollar = Dollar
    PROVE  PositionValue(s) = RealValue(s) /\ PositionValue(s) \in Int
<1> DEFINE m == CanonicalMark(s)
           f == [r \in Group(s) |-> RowValue(r)]
           q == [r \in Group(s) |-> r.qty]
           zero == [r \in Group(s) |-> 0]
           G == Group(s)
           n == RealShares(s)
           k == Rate(s)
<1>0. ViewTyped /\ s \in Assets /\ Unvalued \notin Int /\ Dollar \in Int
  BY ViewAssumption DEF ViewInv, Owned
<1>1. m \in Int
  BY <1>0, MarkTyped DEF AmountsTold
<1>2. IsFiniteSet(G) /\ G \subseteq view.told /\ \A r \in G : r.asset = s
  BY <1>0, GroupFinite
<1>3. \A r \in G : r.qty \in Int /\ RowValue(r) = m * r.qty
  BY <1>0, <1>2, RowTyped, ViewFacts
<1>4. \A r \in G : q[r] = r.qty /\ zero[r] = 0 /\ f[r] = RowValue(r)
  OBVIOUS
<1>5. SumFunctionOnSet(q, G) = n
  BY <1>0, <1>4, GroupShares
<1>6. SumFunctionOnSet(zero, G) = 0
  <2> HIDE DEF zero, G
  <2> QED
    BY <1>2, <1>4, SumOfNone
<1>7. n \in Int
  <2>1. view.real["toss"].shares[s] \in Nat /\ view.real["kis"].shares[s] \in Nat
    BY <1>0, ViewFacts DEF Desks
  <2> DEFINE a == view.real["toss"].shares[s]  b == view.real["kis"].shares[s]
  <2>2. a \in Nat /\ b \in Nat
    BY <2>1
  <2> HIDE DEF a, b
  <2>3. a + b \in Int
    BY <2>2
  <2> QED
    BY <2>3 DEF RealShares, a, b
<1>8. SumFunctionOnSet(f, G) = m * n
  <2>1. \A r \in G : q[r] \in Int /\ zero[r] \in Int /\ f[r] = m * q[r] + zero[r]
    <3> TAKE r \in G
    <3> DEFINE c == r.qty  v == RowValue(r)
    <3>1. q[r] = c /\ zero[r] = 0 /\ f[r] = v /\ c \in Int /\ v = m * c
      BY <1>3, <1>4
    <3> HIDE DEF c, v, m, q, zero, f
    <3>2. m * c \in Int
      BY <1>1, <3>1
    <3>3. v = m * c + 0
      BY <3>1, <3>2
    <3> QED
      BY <3>1, <3>3
  <2> HIDE DEF m, q, zero, f, G, n, k
  <2>f. IsFiniteSet(G) /\ m \in Int
    BY <1>1, <1>2
  <2>2. SumFunctionOnSet(f, G) = m * SumFunctionOnSet(q, G) + SumFunctionOnSet(zero, G)
    BY <2>f, <2>1, SumPlus
  <2>3. SumFunctionOnSet(f, G) = m * n + 0
    BY <1>5, <1>6, <2>2
  <2>4. m * n \in Int
    BY <1>1, <1>7
  <2> QED
    BY <2>3, <2>4
<1>9. \A r \in G : RowValue(r) # Unvalued
  <2> TAKE r \in G
  <2> DEFINE c == r.qty
  <2>1. c \in Int /\ RowValue(r) = m * c
    BY <1>3
  <2> HIDE DEF c, m
  <2>2. m * c \in Int
    BY <1>1, <2>1
  <2> QED
    BY <1>0, <2>1, <2>2
<1>10. PositionValue(s) = SumFunctionOnSet(f, G) * k /\ PositionValue(s) \in Int
  BY <1>0, <1>9, PositionIs
<1>11. RealValue(s) = n * m * k
  BY DEF RealValue, Rate
<1>12. (m * n) * k = n * m * k
  <2>1. k \in Int
    BY RateIs
  <2> HIDE DEF m, n, k
  <2> QED
    BY <1>1, <1>7, <2>1
<1> HIDE DEF m, n, k, G, f
<1> QED
  BY <1>8, <1>10, <1>11, <1>12

(* The symbols held are some of the assets. *)
LEMMA HeldFinite == ASSUME ViewTyped PROVE HeldAssets \subseteq Assets /\ IsFiniteSet(HeldAssets)
<1>1. HeldAssets \subseteq Assets
  BY ViewFacts DEF HeldAssets
<1> QED
  BY <1>1, ViewAssumption, FS_Subset

(* The cash of the accounts with what is still to settle. *)
LEMMA CashTrue ==
    ASSUME ViewInv, Known("toss"), Known("kis"), ~MissingTold, view.bad = {}, view.stirred = {}, ~view.hidden,
           view.dollar = Dollar
    PROVE  /\ CashWon("toss") = view.real["toss"].worth /\ CashWon("kis") \in Int /\ Bridged \in Int
           /\ CashWon("kis") + Bridged = view.real["kis"].worth * Dollar
<1> DEFINE b == view.balance["kis"]
           c == b.cash
           r == b.receive
           p == b.pay
           w == view.real["kis"].worth
           t == view.balance["toss"].cash
<1>1. Unvalued \notin Int /\ Dollar \in Int
  BY ViewAssumption
<1>2. b \in Balances /\ view.balance["toss"] \in Balances /\ w \in Int /\ view.real["toss"].worth \in Int
  BY ViewFacts DEF ViewInv, Desks
<1>3. Unvalued \notin {r, p} /\ c # Unvalued /\ t # Unvalued
  BY DEF MissingTold, Known
<1>4. c \in Int /\ r \in Int /\ p \in Int /\ t \in Int
  BY <1>2, <1>3 DEF Balances, AmountsTold
<1>5. c + r - p = w /\ t = view.real["toss"].worth
  BY <1>3 DEF ViewInv, MoneyTold
<1>6. CashWon("toss") = t
  <2>1. CashWon("toss") = Or0(Won(t, FALSE))
    BY DEF CashWon
  <2> HIDE DEF t
  <2> QED
    BY <1>3, <2>1 DEF Or0, Won
<1>7. CashWon("kis") = Or0(Won(c, TRUE)) /\ Bridged = Or0(Won(Or0(r) - Or0(p), TRUE))
  BY DEF CashWon, Bridged
<1> HIDE DEF c, r, p, w, t, b
<1>8. Unvalued \notin {c, view.dollar} /\ Unvalued \notin {r - p, view.dollar} /\ Or0(r) = r /\ Or0(p) = p
  <2>1. r - p \in Int
    BY <1>4
  <2> QED
    BY <1>1, <1>3, <2>1 DEF Or0
<1>9. Won(c, TRUE) = c * Dollar /\ Won(r - p, TRUE) = (r - p) * Dollar
  BY <1>8 DEF Won
<1>10. c * Dollar \in Int /\ (r - p) * Dollar \in Int /\ c * Dollar + (r - p) * Dollar = (c + r - p) * Dollar
  BY <1>1, <1>4
<1>11. CashWon("kis") = c * Dollar /\ Bridged = (r - p) * Dollar
  BY <1>1, <1>7, <1>8, <1>9, <1>10 DEF Or0
<1>12. CashWon("kis") + Bridged = w * Dollar
  BY <1>5, <1>10, <1>11
<1> QED
  BY <1>5, <1>6, <1>10, <1>11, <1>12 DEF w

(* The net worth reported, with what is to settle, is the real one (settlement_nav_bridge). *)
LEMMA AdjustedIsTrue == ASSUME ViewInv PROVE AdjustedTrue
<1> SUFFICES ASSUME AdjustedValue # Unvalued, ~MissingTold, \A d \in Desks : Known(d), Marked, view.stirred = {}, ~view.hidden
             PROVE  AdjustedValue = SumFunction([s \in Owned |-> RealValue(s)])
                                      + view.real["toss"].worth + view.real["kis"].worth * Dollar
  BY DEF AdjustedTrue
<1>1. view.bad = {} /\ ~NoRate /\ AdjustedValue = TotalAssets + Bridged
  BY DEF AdjustedValue
<1>2. Known("toss") /\ Known("kis")
  BY DEF Desks
<1>3. view.dollar = Dollar
  <2>1. view.dollar # Unvalued
    BY <1>1, <1>2 DEF NoRate
  <2> QED
    BY <2>1, ViewFacts DEF ViewInv
<1>4. HeldAssets = Owned /\ HeldAssets \subseteq Assets /\ IsFiniteSet(HeldAssets)
  BY <1>1, ToldIsOwned, HeldFinite DEF ViewInv
<1>5. \A s \in Owned : PositionValue(s) = RealValue(s) /\ PositionValue(s) \in Int
  BY <1>1, <1>3, PositionTrue DEF Marked
<1>6. \A s \in Owned : Or0(PositionValue(s)) = RealValue(s) /\ RealValue(s) \in Int
  <2>1. Unvalued \notin Int
    BY ViewAssumption
  <2> QED
    BY <1>5, <2>1 DEF Or0
<1> DEFINE f == [s \in HeldAssets |-> Or0(PositionValue(s))]
           g == [s \in Owned |-> RealValue(s)]
<1>7. f = g
  BY <1>4, <1>6
<1>8. SumFunction(g) \in Int
  <2>1. SumFunction(g) = SumFunctionOnSet(g, Owned) /\ \A s \in Owned : g[s] \in Int
    BY <1>6 DEF SumFunction
  <2> HIDE DEF g
  <2> QED
    BY <1>4, <2>1, SumTyped
<1>9. TotalAssets = SumFunction(g) + CashWon("toss") + CashWon("kis")
  <2>1. TotalAssets = SumFunction(f) + CashWon("toss") + CashWon("kis")
    BY DEF TotalAssets
  <2> HIDE DEF f, g
  <2> QED
    BY <1>7, <2>1
<1>10. /\ CashWon("toss") = view.real["toss"].worth /\ CashWon("kis") \in Int /\ Bridged \in Int
       /\ CashWon("kis") + Bridged = view.real["kis"].worth * Dollar
  BY <1>1, <1>2, <1>3, CashTrue
<1>11. view.real["toss"].worth \in Int
  BY ViewFacts DEF ViewInv, Desks
<1> DEFINE sum == SumFunction(g)
           a == CashWon("toss")
           b == CashWon("kis")
           c == Bridged
           w == view.real["kis"].worth * Dollar
<1>12. sum \in Int /\ a \in Int /\ b \in Int /\ c \in Int /\ b + c = w /\ AdjustedValue = sum + a + b + c
  BY <1>1, <1>8, <1>9, <1>10, <1>11
<1> HIDE DEF sum, a, b, c, w
<1>13. AdjustedValue = sum + a + w
  BY <1>12
<1> QED
  BY <1>10, <1>13 DEF sum, a, w

(* The largest position and the exposure are the real ones (concentration_risk, underlying_exposure). *)
LEMMA RiskIsTrue == ASSUME ViewInv PROVE RiskTrue
<1> SUFFICES ASSUME view.bad = {}, AllValued, Marked
             PROVE  /\ Owned # {} => TopPosition \in Owned /\ \A s \in Owned : RealValue(s) <= RealValue(TopPosition)
                    /\ view.futures \in {"flat", "short"} =>
                         Exposure = SumFunction([s \in Owned |-> Leverage[s] * RealValue(s)])
                                      - (IF view.futures = "short" THEN 1 ELSE 0)
  BY DEF RiskTrue
<1>1. HeldAssets = Owned /\ HeldAssets \subseteq Assets /\ IsFiniteSet(HeldAssets)
  BY ToldIsOwned, HeldFinite DEF ViewInv
<1>2. \A s \in Owned : PositionValue(s) = RealValue(s) /\ RealValue(s) \in Int
  <2> TAKE s \in Owned
  <2>1. PositionValue(s) # Unvalued
    BY <1>1 DEF AllValued
  <2>2. s \in Foreign => view.dollar = Dollar
    BY <2>1, PositionKnown DEF ViewInv
  <2> QED
    BY <2>2, PositionTrue DEF Marked
<1>3. ASSUME Owned # {} PROVE TopPosition \in Owned /\ \A s \in Owned : RealValue(s) <= RealValue(TopPosition)
  <2> DEFINE f == [s \in HeldAssets |-> PositionValue(s)]
  <2>1. \A s \in HeldAssets : f[s] = PositionValue(s) /\ f[s] \in Int
    BY <1>1, <1>2
  <2> HIDE DEF f
  <2>2. \E s \in HeldAssets : \A t \in HeldAssets : f[t] <= f[s]
    BY <1>1, <1>3, <2>1, LargestExists
  <2>3. \E s \in HeldAssets : \A t \in HeldAssets : PositionValue(t) <= PositionValue(s)
    BY <2>1, <2>2
  <2>4. TopPosition = CHOOSE s \in HeldAssets : \A t \in HeldAssets : PositionValue(t) <= PositionValue(s)
    BY <1>1, <1>3 DEF TopPosition
  <2>5. TopPosition \in HeldAssets /\ \A t \in HeldAssets : PositionValue(t) <= PositionValue(TopPosition)
    BY <2>3, <2>4
  <2> QED
    BY <1>1, <1>2, <2>5
<1>4. ASSUME view.futures \in {"flat", "short"}
      PROVE  Exposure = SumFunction([s \in Owned |-> Leverage[s] * RealValue(s)])
                          - (IF view.futures = "short" THEN 1 ELSE 0)
  <2>1. Exposure = SumFunction([s \in HeldAssets |-> Leverage[s] * PositionValue(s)])
                     - (IF view.futures = "short" THEN 1 ELSE 0)
    BY <1>4 DEF Exposure
  <2>2. [s \in HeldAssets |-> Leverage[s] * PositionValue(s)] = [s \in Owned |-> Leverage[s] * RealValue(s)]
    BY <1>1, <1>2
  <2> QED
    BY <2>1, <2>2
<1> QED
  BY <1>3, <1>4

(* The values of the accounts add up to the total of the positions (summarize_portfolio). *)
LEMMA AccountsDoAddUp == ASSUME ViewInv PROVE AccountsAddUp
<1> SUFFICES ASSUME AllValued PROVE AccountTotal("toss") + AccountTotal("kis") = TotalAssets
  BY DEF AccountsAddUp
<1> DEFINE Heard == view.told
           T == HeldRows("toss")
           K == HeldRows("kis")
           H == HeldAssets
           f == [r \in Heard |-> Or0(Won(RowValue(r), r.asset \in Foreign))]
           ft == [r \in T |-> Or0(Won(RowValue(r), r.asset \in Foreign))]
           fk == [r \in K |-> Or0(Won(RowValue(r), r.asset \in Foreign))]
           of == [r \in Heard |-> r.asset]
           g == [s \in H |-> Or0(PositionValue(s))]
<1>1. ViewTyped /\ IsFiniteSet(Heard) /\ IsFiniteSet(T) /\ IsFiniteSet(K) /\ IsFiniteSet(H)
  BY ViewFacts, HeldFinite, FS_Subset DEF ViewInv, HeldRows
<1>2. Heard = T \cup K /\ T \cap K = {}
  BY ViewFacts DEF HeldRows, ViewInv, Desks
<1>3. Unvalued \notin Int /\ Dollar \in Int
  BY ViewAssumption
<1>4. \A r \in Heard : r.asset \in H /\ RowValue(r) \in Int /\ f[r] = Rate(r.asset) * RowValue(r) /\ f[r] \in Int
  <2> TAKE r \in Heard
  <2> DEFINE s == r.asset
             v == RowValue(r)
  <2>1. s \in H /\ r \in Group(s)
    BY DEF HeldAssets, Group
  <2>2. PositionValue(s) # Unvalued
    BY <2>1 DEF AllValued
  <2>3. v \in Int /\ (s \in Foreign => view.dollar = Dollar)
    BY <1>1, <2>1, <2>2, PositionKnown
  <2>4. f[r] = Or0(Won(v, s \in Foreign))
    OBVIOUS
  <2> HIDE DEF s, v, f
  <2>5. CASE s \in Foreign
    <3>1. Unvalued \notin {v, view.dollar}
      BY <1>3, <2>3, <2>5
    <3>2. Won(v, s \in Foreign) = v * Dollar
      BY <2>3, <2>5, <3>1 DEF Won
    <3>3. v * Dollar \in Int /\ v * Dollar = Dollar * v
      BY <1>3, <2>3
    <3>4. Rate(s) = Dollar
      BY <2>5 DEF Rate
    <3> QED
      BY <1>3, <2>1, <2>3, <2>4, <3>2, <3>3, <3>4 DEF Or0, s, v
  <2>6. CASE s \notin Foreign
    <3>1. Won(v, s \in Foreign) = v /\ Rate(s) = 1
      BY <2>6 DEF Won, Rate
    <3>2. 1 * v = v
      BY <2>3
    <3> QED
      BY <1>3, <2>1, <2>3, <2>4, <3>1, <3>2 DEF Or0, s, v
  <2> QED
    BY <2>5, <2>6
<1>5. \A s \in H : g[s] = SumFunctionOnSet(f, Fibre(of, Heard, s))
  <2> TAKE s \in H
  <2> DEFINE e == [r \in Group(s) |-> RowValue(r)]
             zero == [r \in Group(s) |-> 0]
             k == Rate(s)
             G == Group(s)
  <2>1. PositionValue(s) # Unvalued
    BY DEF AllValued
  <2>2. PositionValue(s) \in Int /\ PositionValue(s) = SumFunctionOnSet(e, G) * k
    BY <1>1, <2>1, PositionKnown
  <2>3. Fibre(of, Heard, s) = G
    BY DEF Group, Fibre
  <2>4. IsFiniteSet(G) /\ G \subseteq Heard /\ \A r \in G : r.asset = s
    BY <1>1, GroupFinite
  <2>5. \A r \in G : e[r] \in Int /\ zero[r] \in Int /\ f[r] = k * e[r] + zero[r]
    <3> TAKE r \in G
    <3> DEFINE v == RowValue(r)
    <3>1. e[r] = v /\ zero[r] = 0 /\ v \in Int /\ f[r] = k * v
      BY <1>4, <2>4
    <3>2. k \in Int
      BY RateIs
    <3> HIDE DEF v, k, e, zero, f
    <3>3. k * v \in Int
      BY <3>1, <3>2
    <3>4. f[r] = k * v + 0
      BY <3>1, <3>3
    <3> QED
      BY <3>1, <3>4
  <2>6. k \in Int
    BY RateIs
  <2>z. \A r \in G : zero[r] = 0
    OBVIOUS
  <2>9. \A r \in G : e[r] \in Int
    BY <2>5
  <2>g. g[s] = Or0(PositionValue(s))
    OBVIOUS
  <2> HIDE DEF e, zero, k, G, f, of, g, ft, fk, Heard, T, K, H
  <2>7. SumFunctionOnSet(f, G) = k * SumFunctionOnSet(e, G) + SumFunctionOnSet(zero, G)
    BY <2>4, <2>5, <2>6, SumPlus
  <2>8. SumFunctionOnSet(zero, G) = 0
    BY <2>4, <2>z, SumOfNone
  <2>10. SumFunctionOnSet(e, G) \in Int
    BY <2>4, <2>9, SumTyped
  <2>11. SumFunctionOnSet(f, G) = PositionValue(s)
    <3> DEFINE a == SumFunctionOnSet(e, G)  c == SumFunctionOnSet(f, G)  d == PositionValue(s)
    <3>1. c = k * a + 0 /\ d = a * k /\ a \in Int
      BY <2>2, <2>7, <2>8, <2>10
    <3> HIDE DEF a, c, d
    <3>2. k * a \in Int /\ a * k = k * a
      BY <2>6, <3>1
    <3>3. c = d
      BY <3>1, <3>2
    <3> QED
      BY <3>3 DEF c, d
  <2>12. Or0(PositionValue(s)) = PositionValue(s)
    BY <2>1 DEF Or0
  <2> QED
    BY <2>3, <2>11, <2>12, <2>g
<1>6. SumFunctionOnSet(f, Heard) = SumFunctionOnSet(g, H)
  <2>1. \A r \in Heard : f[r] \in Int
    BY <1>4
  <2>2. \A r \in Heard : of[r] \in H
    BY <1>4
  <2> HIDE DEF f, g, of, Heard, H, T, K, ft, fk
  <2>3. IsFiniteSet(Heard) /\ IsFiniteSet(H)
    BY <1>1
  <2> QED
    BY <2>3, <1>5, <2>1, <2>2, SumGrouped
<1>7. SumFunctionOnSet(f, Heard) = SumFunctionOnSet(f, T) + SumFunctionOnSet(f, K)
  <2>1. \A r \in T \cup K : f[r] \in Int
    BY <1>2, <1>4
  <2> HIDE DEF f, T, K, Heard
  <2> QED
    BY <1>1, <1>2, <2>1, SumSplit
<1>8. SumFunctionOnSet(f, T) = SumFunctionOnSet(ft, T)
  <2>1. \A r \in T : f[r] \in Int /\ f[r] = ft[r]
    BY <1>2, <1>4
  <2> HIDE DEF f, ft, T
  <2> QED
    BY <1>1, <2>1, SumSame
<1>9. SumFunctionOnSet(f, K) = SumFunctionOnSet(fk, K)
  <2>1. \A r \in K : f[r] \in Int /\ f[r] = fk[r]
    BY <1>2, <1>4
  <2> HIDE DEF f, fk, K
  <2> QED
    BY <1>1, <2>1, SumSame
<1>10. /\ AccountTotal("toss") = SumFunctionOnSet(ft, T) + CashWon("toss")
       /\ AccountTotal("kis") = SumFunctionOnSet(fk, K) + CashWon("kis")
       /\ TotalAssets = SumFunctionOnSet(g, H) + CashWon("toss") + CashWon("kis")
  BY DEF AccountTotal, TotalAssets, SumFunction
<1>11. CashWon("toss") \in Int /\ CashWon("kis") \in Int
  <2>1. \A d \in Desks : CashWon(d) \in Int
    <3> TAKE d \in Desks
    <3> DEFINE c == view.balance[d].cash
    <3>1. c \in AmountsTold
      BY <1>1, ViewFacts DEF Balances
    <3>2. view.dollar \in {Dollar, Unvalued}
      BY <1>1, ViewFacts
    <3>3. CashWon(d) = Or0(Won(c, d = "kis"))
      BY DEF CashWon
    <3> HIDE DEF c
    <3>4. c # Unvalued => c \in Int /\ c * Dollar \in Int
      BY <1>3, <3>1 DEF AmountsTold
    <3>5. Won(c, d = "kis") \in Int \cup {Unvalued}
      BY <1>3, <3>1, <3>2, <3>4 DEF Won, AmountsTold
    <3> QED
      BY <1>3, <3>3, <3>5 DEF Or0
  <2> QED
    BY <2>1 DEF Desks
<1>12. SumFunctionOnSet(f, T) \in Int /\ SumFunctionOnSet(f, K) \in Int
  <2>1. (\A r \in T : f[r] \in Int) /\ \A r \in K : f[r] \in Int
    BY <1>2, <1>4
  <2> HIDE DEF f, T, K
  <2> QED
    BY <1>1, <2>1, SumTyped
<1> DEFINE x == SumFunctionOnSet(f, T)
           y == SumFunctionOnSet(f, K)
           z == SumFunctionOnSet(g, H)
           a == CashWon("toss")
           b == CashWon("kis")
<1>13. /\ x \in Int /\ y \in Int /\ a \in Int /\ b \in Int /\ z = x + y
       /\ AccountTotal("toss") = x + a /\ AccountTotal("kis") = y + b /\ TotalAssets = z + a + b
  BY <1>6, <1>7, <1>8, <1>9, <1>10, <1>11, <1>12
<1> HIDE DEF x, y, z, a, b
<1> QED
  BY <1>13

(* The three parts of what a view says. *)
LEMMA ViewMeans == ViewInv => ViewTrue
  BY AdjustedIsTrue, AccountsDoAddUp, RiskIsTrue DEF ViewTrue

-----------------------------------------------------------------------------
(* Steps of views *)

(* The view nobody asked for is a view. *)
LEMMA NoViewTyped == NoView \in Views /\ IsFiniteSet(NoView.told) /\ NoBalance \in Balances
<1> DEFINE B == [d \in Desks |-> NoBalance]
           Q == [s \in Assets |-> Unvalued]
           R == [d \in Desks |-> [shares |-> [s \in Assets |-> 0], worth |-> 0]]
<1>1. NoBalance \in Balances
  BY DEF NoBalance, Balances, AmountsTold
<1>2. B \in [Desks -> Balances]
  BY <1>1
<1>3. Q \in [Assets -> Prices \cup {Unvalued}]
  OBVIOUS
<1>4. R \in [Desks -> [shares : [Assets -> Nat], worth : Int]]
  OBVIOUS
<1>5. NoView = [pc |-> "none", told |-> {}, balance |-> B, bad |-> {}, dollar |-> Unvalued, quotes |-> Q,
                futures |-> "unread", real |-> R, stirred |-> {}, hidden |-> FALSE]
  BY DEF NoView
<1> HIDE DEF B, Q, R
<1>6. NoView \in Views
  BY <1>2, <1>3, <1>4, <1>5 DEF Views
<1>7. IsFiniteSet(NoView.told)
  BY <1>5, FS_EmptySet
<1> QED
  BY <1>1, <1>6, <1>7

(* It holds nothing. *)
LEMMA NoViewIs ==
    /\ NoView.pc = "none" /\ NoView.told = {} /\ NoView.bad = {} /\ NoView.stirred = {} /\ NoView.hidden = FALSE
    /\ \A d \in Desks : NoView.balance[d] = NoBalance
    /\ \A d \in Desks, s \in Assets : NoView.real[d].shares[s] = 0
  BY DEF NoView

(* A report just begun. *)
LEMMA FreshView ==
    ASSUME view.told = {}, \A d \in Desks : view.balance[d] = NoBalance,
           \A d \in Desks, s \in Assets : view.real[d].shares[s] = 0,
           purse["toss"].receive = 0, purse["toss"].pay = 0, view.pc \in {"none", "toss"}
    PROVE  ToldRows /\ MoneyTold
<1>1. ToldRows
  BY DEF ToldRows
<1>2. view.balance["toss"] = NoBalance /\ view.balance["kis"] = NoBalance
  BY DEF Desks
<1>3. NoBalance.cash = Unvalued
  BY DEF NoBalance
<1> QED
  BY <1>1, <1>2, <1>3 DEF MoneyTold, Known

(* Nothing is asked and nothing is owned. *)
LEMMA ViewStarts == ViewInit => ViewInv
<1> SUFFICES ASSUME ViewInit PROVE ViewInv
  OBVIOUS
<1>1. \E m \in Prices : \A p \in Prices : m <= p
  <2>1. Prices \in SUBSET Nat /\ Prices # {}
    BY ViewAssumption
  <2> QED
    BY <2>1, FirstOf
<1>2. Min(Prices) \in Prices
  BY <1>1 DEF Min
<1>3. market \in [price : [Assets -> Prices], short : {0, 1}]
  <2>1. market = [price |-> [s \in Assets |-> Min(Prices)], short |-> 0]
    BY DEF ViewInit
  <2> DEFINE m == Min(Prices)
  <2> HIDE DEF m
  <2>2. [s \in Assets |-> m] \in [Assets -> Prices]
    BY <1>2 DEF m
  <2> DEFINE q == [s \in Assets |-> m]
  <2>3. market = [price |-> q, short |-> 0]
    BY <2>1 DEF m
  <2> HIDE DEF q
  <2> QED
    BY <2>2, <2>3 DEF q
<1>4. owned \in [Desks -> [Assets -> Nat]]
  BY DEF ViewInit
<1>5. PICK c \in {0, 2} : purse = [d \in Desks |-> [cash |-> c, receive |-> 0, pay |-> 0]]
  BY DEF ViewInit
<1>6. purse \in [Desks -> [cash : Int, receive : Int, pay : Int]] /\ purse["toss"].receive = 0 /\ purse["toss"].pay = 0
  BY <1>5 DEF Desks
<1>7. view = NoView /\ proof = NoProof
  BY DEF ViewInit
<1>8. proof \in [made : BOOLEAN, at : Int, shares : [Assets -> Int], empty : BOOLEAN, disturbed : BOOLEAN] /\ ~proof.made
  <2> DEFINE q == [s \in Assets |-> 0]
  <2>1. q \in [Assets -> Int] /\ proof = [made |-> FALSE, at |-> 0, shares |-> q, empty |-> FALSE, disturbed |-> FALSE]
    BY <1>7 DEF NoProof
  <2> HIDE DEF q
  <2> QED
    BY <2>1
<1>9. ViewTyped
  BY <1>3, <1>4, <1>6, <1>7, <1>8, NoViewTyped DEF ViewTyped
<1>10. ToldRows /\ MoneyTold
  BY <1>6, <1>7, NoViewIs, FreshView
<1> QED
  BY <1>8, <1>9, <1>10 DEF ViewInv, ProofHolds

(* Prices move. *)
LEMMA ViewMarket == ViewInv /\ MarketMoves => ViewInv'
<1> SUFFICES ASSUME ViewInv, MarketMoves PROVE ViewInv'
  OBVIOUS
<1>1. UNCHANGED <<owned, purse, view, proof>>
  BY DEF MarketMoves
<1>2. market \in [price : [Assets -> Prices], short : {0, 1}]
  BY DEF ViewInv, ViewTyped
<1>3. market' \in [price : [Assets -> Prices], short : {0, 1}]
  <2>1. CASE \E s \in Assets, p \in Prices : p # market.price[s] /\ market' = [market EXCEPT !.price[s] = p]
    <3>1. PICK s \in Assets, p \in Prices : market' = [market EXCEPT !.price[s] = p]
      BY <2>1
    <3> DEFINE q == [market.price EXCEPT ![s] = p]
    <3>2. q \in [Assets -> Prices] /\ market' = [market EXCEPT !.price = q]
      BY <1>2, <3>1
    <3> HIDE DEF q
    <3> QED
      BY <1>2, <3>2
  <2>2. CASE market.short = 0 /\ market' = [market EXCEPT !.short = 1]
    BY <1>2, <2>2
  <2> QED
    BY <2>1, <2>2 DEF MarketMoves
<1>4. ViewTyped'
  BY <1>1, <1>3 DEF ViewInv, ViewTyped
<1>5. ToldRows' /\ MoneyTold' /\ ProofHolds'
  BY <1>1 DEF ViewInv, ToldRows, MoneyTold, ProofHolds, HeldRows, Known, Worth
<1> QED
  BY <1>4, <1>5 DEF ViewInv

(* What changes in an account disturbs a proof, and a view that is half read. *)
LEMMA ViewAccount ==
    ASSUME ViewInv, NEW d \in Desks, NEW shares \in [Assets -> Nat], NEW money \in [cash : Int, receive : Int, pay : Int],
           d = "toss" => money.receive = 0 /\ money.pay = 0, AccountChanges(d, shares, money)
    PROVE  ViewInv'
<1>1. /\ owned' = [owned EXCEPT ![d] = shares] /\ purse' = [purse EXCEPT ![d] = money] /\ UNCHANGED market
      /\ view' = [view EXCEPT !.stirred = @ \cup ({d} \cap HalfRead)]
      /\ proof' = [proof EXCEPT !.disturbed = @ \/ (proof.made /\ d = "kis" /\ shares = proof.shares)]
  BY DEF AccountChanges
<1>2. ViewTyped /\ view \in Views /\ owned \in [Desks -> [Assets -> Nat]]
      /\ purse \in [Desks -> [cash : Int, receive : Int, pay : Int]]
      /\ proof \in [made : BOOLEAN, at : Int, shares : [Assets -> Int], empty : BOOLEAN, disturbed : BOOLEAN]
  BY DEF ViewInv, ViewTyped
<1>3. /\ owned' \in [Desks -> [Assets -> Nat]] /\ purse' \in [Desks -> [cash : Int, receive : Int, pay : Int]]
      /\ owned'[d] = shares /\ purse'[d] = money
      /\ \A e \in Desks : e # d => owned'[e] = owned[e] /\ purse'[e] = purse[e]
  BY <1>1, <1>2
<1> DEFINE t == view.stirred \cup ({d} \cap HalfRead)
           u == proof.disturbed \/ (proof.made /\ d = "kis" /\ shares = proof.shares)
<1>4. t \in SUBSET Desks /\ (t = {} => view.stirred = {} /\ d \notin HalfRead)
  BY <1>2 DEF Views
<1>5. u \in BOOLEAN /\ (~u => ~proof.disturbed /\ ~(proof.made /\ d = "kis" /\ shares = proof.shares))
  BY <1>2
<1>6. view' = [view EXCEPT !.stirred = t] /\ proof' = [proof EXCEPT !.disturbed = u]
  BY <1>1
<1> HIDE DEF t, u
<1>7. /\ view' \in Views /\ view'.pc = view.pc /\ view'.told = view.told /\ view'.balance = view.balance
      /\ view'.bad = view.bad /\ view'.real = view.real /\ view'.hidden = view.hidden /\ view'.stirred = t
  BY <1>2, <1>4, <1>6 DEF Views
<1>8. /\ proof' \in [made : BOOLEAN, at : Int, shares : [Assets -> Int], empty : BOOLEAN, disturbed : BOOLEAN]
      /\ proof'.made = proof.made /\ proof'.shares = proof.shares /\ proof'.empty = proof.empty /\ proof'.disturbed = u
  BY <1>2, <1>5, <1>6
<1>9. ViewTyped'
  BY <1>1, <1>3, <1>7, <1>8 DEF ViewInv, ViewTyped
<1>10. ToldRows'
  BY <1>7 DEF ViewInv, ToldRows, HeldRows
<1>11. d = "toss" \/ d = "kis"
  BY DEF Desks
<1>12. view.pc \in {"balance", "check"} /\ t = {} => owned'["kis"] = owned["kis"] /\ purse'["kis"] = purse["kis"]
  <2> SUFFICES ASSUME view.pc \in {"balance", "check"}, t = {}
               PROVE  owned'["kis"] = owned["kis"] /\ purse'["kis"] = purse["kis"]
    OBVIOUS
  <2>1. HalfRead = {"kis"}
    BY DEF HalfRead
  <2>2. d # "kis"
    BY <1>4, <2>1
  <2> QED
    BY <1>3, <2>2 DEF Desks
<1>13. MoneyTold'
  <2>1. purse'["toss"].receive = 0 /\ purse'["toss"].pay = 0
    <3>1. CASE d = "toss"
      BY <1>3, <3>1
    <3>2. CASE d # "toss"
      BY <1>3, <3>2 DEF ViewInv, MoneyTold, Desks
    <3> QED
      BY <3>1, <3>2
  <2>2. Known("toss")' => view'.balance["toss"].cash = view'.real["toss"].worth
    BY <1>7 DEF ViewInv, MoneyTold, Known
  <2>3. \A k \in {view'.balance["kis"]} :
         Unvalued \notin {k.cash, k.receive, k.pay} /\ view'.bad = {} /\ view'.stirred = {} /\ ~view'.hidden
            => k.cash + k.receive - k.pay = view'.real["kis"].worth
    BY <1>4, <1>7 DEF ViewInv, MoneyTold
  <2>4. /\ view'.pc \in {"none", "toss", "toss_cash"} => view'.balance["toss"] = NoBalance
        /\ view'.pc \in {"none", "toss", "toss_cash", "kis", "balance", "check"} => view'.balance["kis"] = NoBalance
    BY <1>7 DEF ViewInv, MoneyTold
  <2>5. view'.pc \in {"balance", "check"} /\ view'.stirred = {} => owned'["kis"] = view'.real["kis"].shares
    BY <1>4, <1>7, <1>12 DEF ViewInv, MoneyTold
  <2>6. view'.pc = "check" /\ view'.stirred = {} => view'.real["kis"].worth = Worth("kis")'
    BY <1>4, <1>7, <1>12 DEF ViewInv, MoneyTold, Worth
  <2> QED
    BY <2>1, <2>2, <2>3, <2>4, <2>5, <2>6 DEF MoneyTold
<1>14. ProofHolds'
  <2> SUFFICES ASSUME proof.made, proof.empty, ~u, owned'["kis"] = proof.shares PROVE purse'["kis"] = EmptyPurse
    BY <1>8 DEF ProofHolds
  <2>1. CASE d = "kis"
    BY <1>3, <1>5, <2>1
  <2>2. CASE d # "kis"
    BY <1>3, <1>5, <2>2 DEF ViewInv, ProofHolds, Desks
  <2> QED
    BY <2>1, <2>2
<1> QED
  BY <1>9, <1>10, <1>13, <1>14 DEF ViewInv

(* A trade moves shares and, at KIS two days later, money. *)
LEMMA ViewTrade == ASSUME ViewInv, NEW d \in Desks, NEW s \in Assets, NEW n \in {1, -1}, Trade(d, s, n) PROVE ViewInv'
<1> DEFINE due == n * market.price[s] * (IF d = "toss" /\ s \in Foreign THEN Dollar ELSE 1)
           shares == [owned[d] EXCEPT ![s] = @ + n]
           money == IF d = "toss" THEN [purse[d] EXCEPT !.cash = @ - due]
                    ELSE IF n > 0 THEN [purse[d] EXCEPT !.pay = @ + due] ELSE [purse[d] EXCEPT !.receive = @ - due]
<1>1. owned[d][s] + n \in 0..2 /\ AccountChanges(d, shares, money)
  BY DEF Trade
<1>2. owned \in [Desks -> [Assets -> Nat]] /\ purse \in [Desks -> [cash : Int, receive : Int, pay : Int]]
  BY DEF ViewInv, ViewTyped
<1>3. shares \in [Assets -> Nat]
  <2> DEFINE k == owned[d][s] + n
  <2>1. k \in Nat
    BY <1>1
  <2> HIDE DEF k
  <2>2. [owned[d] EXCEPT ![s] = k] \in [Assets -> Nat]
    BY <1>2, <2>1
  <2> QED
    BY <2>2 DEF k
<1>4. due \in Int
  <2> DEFINE p == market.price[s]
             k == IF d = "toss" /\ s \in Foreign THEN Dollar ELSE 1
  <2>1. p \in Int /\ k \in Int /\ n \in Int
    <3>1. market.price[s] \in Prices /\ \A q \in Prices : q \in Int
      BY ViewFacts, ViewAssumption DEF ViewInv
    <3>2. Dollar \in Int
      BY ViewAssumption
    <3> QED
      BY <3>1, <3>2
  <2> HIDE DEF p, k
  <2>2. n * p * k \in Int
    BY <2>1
  <2> QED
    BY <2>2 DEF p, k
<1>5. money \in [cash : Int, receive : Int, pay : Int]
  <2> DEFINE c == purse[d].cash - due
             p == purse[d].pay + due
             r == purse[d].receive - due
             w == purse[d]
  <2>1. c \in Int /\ p \in Int /\ r \in Int /\ w \in [cash : Int, receive : Int, pay : Int]
    <3>1. purse[d].cash \in Int /\ purse[d].pay \in Int /\ purse[d].receive \in Int
      BY ViewFacts DEF ViewInv
    <3> HIDE DEF due
    <3> QED
      BY <1>2, <1>4, <3>1
  <2>2. money = IF d = "toss" THEN [w EXCEPT !.cash = c] ELSE IF n > 0 THEN [w EXCEPT !.pay = p] ELSE [w EXCEPT !.receive = r]
    OBVIOUS
  <2> HIDE DEF money, c, p, r, w
  <2> QED
    BY <2>1, <2>2
<1>6. d = "toss" => money.receive = 0 /\ money.pay = 0
  <2> SUFFICES ASSUME d = "toss" PROVE money.receive = 0 /\ money.pay = 0
    OBVIOUS
  <2> DEFINE c == purse[d].cash - due
             w == purse[d]
  <2>1. money = [w EXCEPT !.cash = c]
    OBVIOUS
  <2>2. w \in [cash : Int, receive : Int, pay : Int] /\ w.receive = 0 /\ w.pay = 0
    BY <1>2 DEF ViewInv, MoneyTold
  <2> HIDE DEF money, c, w
  <2> QED
    BY <2>1, <2>2
<1> HIDE DEF shares, money
<1> QED
  BY <1>1, <1>3, <1>5, <1>6, ViewAccount

(* Money is paid in. *)
LEMMA ViewDeposit == ASSUME ViewInv, NEW d \in Desks, Deposit(d) PROVE ViewInv'
<1> DEFINE shares == owned[d]
           money == [purse[d] EXCEPT !.cash = @ + 1]
<1>1. AccountChanges(d, shares, money)
  BY DEF Deposit
<1>2. owned \in [Desks -> [Assets -> Nat]] /\ purse \in [Desks -> [cash : Int, receive : Int, pay : Int]]
  BY DEF ViewInv, ViewTyped
<1>3. money \in [cash : Int, receive : Int, pay : Int] /\ money.receive = purse[d].receive /\ money.pay = purse[d].pay
  BY <1>2
<1>4. d = "toss" => money.receive = 0 /\ money.pay = 0
  BY <1>3 DEF ViewInv, MoneyTold
<1>5. shares \in [Assets -> Nat]
  BY <1>2
<1> HIDE DEF shares, money
<1> QED
  BY <1>1, <1>3, <1>4, <1>5, ViewAccount

(* What was due is paid. *)
LEMMA ViewSettle == ViewInv /\ Settle => ViewInv'
<1> SUFFICES ASSUME ViewInv, Settle PROVE ViewInv'
  OBVIOUS
<1> DEFINE money == [cash |-> purse["kis"].cash + purse["kis"].receive - purse["kis"].pay, receive |-> 0, pay |-> 0]
           shares == owned["kis"]
<1>1. AccountChanges("kis", shares, money)
  BY DEF Settle
<1>2. money \in [cash : Int, receive : Int, pay : Int]
  <2> DEFINE c == purse["kis"].cash  r == purse["kis"].receive  p == purse["kis"].pay
  <2>1. c \in Int /\ r \in Int /\ p \in Int
    BY ViewFacts DEF ViewInv, Desks
  <2> HIDE DEF c, r, p
  <2>2. c + r - p \in Int
    BY <2>1
  <2> DEFINE e == c + r - p
  <2> HIDE DEF e
  <2>3. [cash |-> e, receive |-> 0, pay |-> 0] \in [cash : Int, receive : Int, pay : Int]
    BY <2>2 DEF e
  <2> QED
    BY <2>3 DEF c, r, p, e
<1>3. shares \in [Assets -> Nat]
  BY DEF ViewInv, ViewTyped, Desks
<1> HIDE DEF shares, money
<1> QED
  BY <1>1, <1>2, <1>3, ViewAccount DEF Desks

(* A step that reads nothing of the accounts. *)
LEMMA ViewKept ==
    ASSUME ViewInv, UNCHANGED <<market, owned, purse, proof>>, view' \in Views,
           view'.told = view.told, view'.balance = view.balance, view'.real = view.real, view'.bad = view.bad,
           view'.stirred = view.stirred, view'.hidden = view.hidden, view'.pc = view.pc \/ view'.pc \in {"quotes", "done"}
    PROVE  ViewInv'
<1>1. ViewTyped'
  BY DEF ViewInv, ViewTyped
<1>2. ToldRows'
  BY DEF ViewInv, ToldRows, HeldRows
<1>3. MoneyTold'
  BY DEF ViewInv, MoneyTold, Known, Worth
<1>4. ProofHolds'
  BY DEF ViewInv, ProofHolds
<1> QED
  BY <1>1, <1>2, <1>3, <1>4 DEF ViewInv

(* Nothing changes. *)
LEMMA ViewIdle == ViewInv /\ UNCHANGED <<market, owned, purse, view, proof>> => ViewInv'
<1> SUFFICES ASSUME ViewInv, UNCHANGED <<market, owned, purse, view, proof>> PROVE ViewInv'
  OBVIOUS
<1>1. view' \in Views
  BY DEF ViewInv, ViewTyped
<1> QED
  BY <1>1, ViewKept

(* A view is asked for. *)
LEMMA ViewAsk == ViewInv /\ AskWorth => ViewInv'
<1> SUFFICES ASSUME ViewInv, AskWorth PROVE ViewInv'
  OBVIOUS
<1>1. view' = [NoView EXCEPT !.pc = "toss"] /\ UNCHANGED <<market, owned, purse, proof>>
  BY DEF AskWorth
<1>2. /\ view' \in Views /\ view'.pc = "toss" /\ view'.told = NoView.told /\ view'.balance = NoView.balance
      /\ view'.real = NoView.real
  BY <1>1, NoViewTyped DEF Views
<1>3. /\ view'.told = {} /\ IsFiniteSet(view'.told)
      /\ \A d \in Desks : view'.balance[d] = NoBalance
      /\ \A d \in Desks, s \in Assets : view'.real[d].shares[s] = 0
  BY <1>2, NoViewIs, NoViewTyped
<1>4. ViewTyped'
  BY <1>1, <1>2, <1>3 DEF ViewInv, ViewTyped
<1>5. purse'["toss"].receive = 0 /\ purse'["toss"].pay = 0
  BY <1>1 DEF ViewInv, MoneyTold
<1>6. ToldRows'
  BY <1>2, <1>3 DEF ToldRows
<1>7. MoneyTold'
  <2>1. view'.balance["toss"] = NoBalance /\ view'.balance["kis"] = NoBalance /\ NoBalance.cash = Unvalued
    BY <1>3 DEF Desks, NoBalance
  <2> QED
    BY <1>2, <1>5, <2>1 DEF MoneyTold, Known
<1>8. ProofHolds'
  BY <1>1 DEF ViewInv, ProofHolds
<1> QED
  BY <1>4, <1>6, <1>7, <1>8 DEF ViewInv

(* The rows of an account: one for each share held, but for some of a cut list. *)
LEMMA PricedIs ==
    ASSUME ViewInv, NEW d \in Desks, NEW held \in SUBSET {s \in Assets : owned[d][s] > 0}
    PROVE  /\ Priced(d, held) \subseteq Rows /\ IsFiniteSet(Priced(d, held))
           /\ \A r \in Priced(d, held) : r.of = d /\ r.asset \in held /\ r.qty = owned[d][r.asset]
           /\ \A r, q \in Priced(d, held) : r.asset = q.asset => r = q
           /\ \A s \in held : \E r \in Priced(d, held) : r.asset = s
<1> DEFINE Row(s) == [of |-> d, asset |-> s, qty |-> owned[d][s], price |-> market.price[s], how |-> "priced"]
<1>1. Priced(d, held) = {Row(s) : s \in held}
  BY DEF Priced
<1>2. \A s \in held : s \in Assets /\ owned[d][s] \in Nat \ {0} /\ market.price[s] \in Prices
  <2> TAKE s \in held
  <2> DEFINE k == owned[d][s]
  <2>1. s \in Assets /\ k \in Nat /\ k > 0 /\ market.price[s] \in Prices
    BY ViewFacts DEF ViewInv
  <2> HIDE DEF k
  <2>2. k \in Nat \ {0}
    BY <2>1
  <2> QED
    BY <2>1, <2>2 DEF k
<1>3. \A s \in held : Row(s) \in Rows
  BY <1>2 DEF Rows
<1>4. \A s \in held : Row(s).of = d /\ Row(s).asset = s /\ Row(s).qty = owned[d][s]
  OBVIOUS
<1>5. IsFiniteSet(held)
  BY ViewAssumption, FS_Subset
<1>6. IsFiniteSet({Row(s) : s \in held})
  <2> DEFINE P == {H \in SUBSET held : IsFiniteSet({Row(s) : s \in H})}
  <2>1. {} \in P
    BY FS_EmptySet
  <2>2. ASSUME NEW H \in SUBSET held, NEW x \in held, H \in P PROVE H \cup {x} \in P
    <3>1. {Row(s) : s \in H \cup {x}} = {Row(s) : s \in H} \cup {Row(x)}
      OBVIOUS
    <3>2. IsFiniteSet({Row(s) : s \in H})
      BY <2>2
    <3> DEFINE A == {Row(s) : s \in H}  z == Row(x)
    <3>3. IsFiniteSet(A)
      BY <3>2
    <3> HIDE DEF A, z
    <3>4. IsFiniteSet(A \cup {z})
      BY <3>3, FS_AddElement
    <3> QED
      BY <3>1, <3>4 DEF A, z
  <2>3. \A H \in SUBSET held, x \in held : H \in P /\ x \notin H => H \cup {x} \in P
    BY <2>2
  <2> HIDE DEF P
  <2>4. held \in P
    BY <1>5, <2>1, <2>3, EverySubset
  <2> QED
    BY <2>4 DEF P
<1> HIDE DEF Row
<1>7. \A r \in Priced(d, held) : \E s \in held : r = Row(s)
  BY <1>1
<1>8. \A r \in Priced(d, held) : r.of = d /\ r.asset \in held /\ r.qty = owned[d][r.asset] /\ r = Row(r.asset)
  BY <1>4, <1>7
<1> QED
  BY <1>1, <1>3, <1>4, <1>6, <1>8

(* Rows of the shares held are added to those of the other account.         *)
LEMMA ViewTold ==
    ASSUME ViewInv, NEW d \in Desks, view.pc = d, UNCHANGED <<market, owned, purse, proof>>,
           NEW heard \in SUBSET Rows, IsFiniteSet(heard),
           \A r \in heard : r.of = d /\ r.qty = owned[d][r.asset],
           \A r, q \in heard : r.asset = q.asset => r = q,
           NEW bad \in SUBSET {d}, bad # {} \/ (\A s \in Assets : owned[d][s] > 0 => \E r \in heard : r.asset = s),
           SharesTold(d, heard, bad)
    PROVE  ViewInv'
<1> DEFINE R == [view.real EXCEPT ![d].shares = owned[d]]
           T == view.told \cup heard
           B == view.bad \cup bad
           next == IF d = "toss" THEN "toss_cash" ELSE "balance"
<1>1. view' = [view EXCEPT !.pc = next, !.told = T, !.bad = B, !.real = R]
  <2>1. view' = [view EXCEPT !.pc = IF d = "toss" THEN "toss_cash" ELSE "balance",
                         !.told = @ \cup heard, !.bad = @ \cup bad, !.real[d].shares = owned[d]]
    BY DEF SharesTold
  <2> QED
    BY <2>1
<1>2. ViewTyped /\ view \in Views /\ owned[d] \in [Assets -> Nat]
  BY DEF ViewInv, ViewTyped
<1>3. view.real \in [Desks -> [shares : [Assets -> Nat], worth : Int]]
  BY <1>2 DEF Views
<1>4. /\ R \in [Desks -> [shares : [Assets -> Nat], worth : Int]] /\ R[d].shares = owned[d]
      /\ \A e \in Desks : R[e].worth = view.real[e].worth
      /\ \A e \in Desks : e # d => R[e] = view.real[e]
  <2> DEFINE x == [view.real[d] EXCEPT !.shares = owned[d]]
  <2>1. view.real[d] \in [shares : [Assets -> Nat], worth : Int]
    BY <1>3
  <2>2. x \in [shares : [Assets -> Nat], worth : Int] /\ x.shares = owned[d] /\ x.worth = view.real[d].worth
    BY <1>2, <2>1
  <2>3. R = [view.real EXCEPT ![d] = x]
    OBVIOUS
  <2> HIDE DEF x, R
  <2> QED
    BY <1>3, <2>2, <2>3
<1>5. T \in SUBSET Rows /\ IsFiniteSet(T)
  BY <1>2, FS_Union DEF Views, ViewTyped
<1>6. B \in SUBSET Desks
  BY <1>2 DEF Views
<1>7. next \in {"toss_cash", "balance"} /\ (next = "toss_cash" <=> d = "toss")
  OBVIOUS
<1>t. /\ \A r : r \in T <=> r \in view.told \/ r \in heard
      /\ \A e : e \in B <=> e \in view.bad \/ e \in bad
  OBVIOUS
<1> HIDE DEF R, T, B, next
<1>8. /\ view' \in Views /\ view'.pc = next /\ view'.told = T /\ view'.bad = B /\ view'.real = R
      /\ view'.balance = view.balance /\ view'.stirred = view.stirred /\ view'.hidden = view.hidden
  BY <1>1, <1>2, <1>4, <1>5, <1>6, <1>7 DEF Views
<1>9. d = "toss" \/ d = "kis"
  BY DEF Desks
<1>10. \A r \in view.told : r.of # d
  <2>1. CASE d = "toss"
    BY <2>1 DEF ViewInv, ToldRows
  <2>2. CASE d = "kis"
    BY <2>2 DEF ViewInv, ToldRows, HeldRows
  <2> QED
    BY <1>9, <2>1, <2>2
<1>11. ViewTyped'
  BY <1>5, <1>8 DEF ViewInv, ViewTyped
<1>12. ToldRows'
  <2>1. \A r \in view'.told : r.qty = view'.real[r.of].shares[r.asset]
    <3> SUFFICES ASSUME NEW r \in T PROVE r.qty = R[r.of].shares[r.asset]
      BY <1>8
    <3>1. CASE r \in view.told
      <4>1. r.of \in Desks /\ r.of # d /\ r.qty = view.real[r.of].shares[r.asset]
        BY <3>1, <1>10, ViewFacts DEF ViewInv, ToldRows
      <4> QED
        BY <1>4, <4>1
    <3>2. CASE r \in heard
      BY <3>2, <1>4
    <3> QED
      BY <1>t, <3>1, <3>2
  <2>2. \A r, q \in view'.told : r.of = q.of /\ r.asset = q.asset => r = q
    <3> SUFFICES ASSUME NEW r \in T, NEW q \in T, r.of = q.of, r.asset = q.asset PROVE r = q
      BY <1>8
    <3>1. CASE r \in view.told /\ q \in view.told
      BY <3>1 DEF ViewInv, ToldRows
    <3>2. CASE r \in heard /\ q \in heard
      BY <3>2
    <3> QED
      BY <1>t, <1>10, <3>1, <3>2
  <2>3. \A e \in Desks, s \in Assets : e \notin view'.bad /\ view'.real[e].shares[s] > 0 =>
          \E r \in view'.told : r.of = e /\ r.asset = s
    <3> SUFFICES ASSUME NEW e \in Desks, NEW s \in Assets, e \notin B, R[e].shares[s] > 0
                 PROVE  \E r \in T : r.of = e /\ r.asset = s
      BY <1>8
    <3>1. CASE e = d
      <4>1. bad = {}
        BY <1>t, <3>1
      <4>2. owned[d][s] > 0
        BY <1>4, <3>1
      <4> QED
        BY <1>t, <3>1, <4>1, <4>2
    <3>2. CASE e # d
      <4>1. e \notin view.bad /\ view.real[e].shares[s] > 0
        BY <1>t, <1>4, <3>2
      <4>2. PICK r \in view.told : r.of = e /\ r.asset = s
        BY <4>1 DEF ViewInv, ToldRows
      <4> QED
        BY <1>t, <4>2
    <3> QED
      BY <3>1, <3>2
  <2>4. view'.pc \in {"toss_cash", "kis"} => HeldRows("kis")' = {}
    <3> SUFFICES ASSUME next = "toss_cash", NEW r \in T PROVE r.of # "kis"
      BY <1>7, <1>8 DEF HeldRows
    <3>1. d = "toss" /\ view.told = {}
      BY <1>7 DEF ViewInv, ToldRows
    <3> QED
      BY <1>t, <3>1
  <2>5. view'.pc \notin {"none", "toss"}
    BY <1>7, <1>8
  <2> QED
    BY <2>1, <2>2, <2>3, <2>4, <2>5 DEF ToldRows
<1>13. MoneyTold'
  <2>1. view'.balance["toss"] = view.balance["toss"] /\ view'.real["toss"].worth = view.real["toss"].worth
    BY <1>4, <1>8 DEF Desks
  <2>2. view.balance["kis"] = NoBalance
    BY DEF ViewInv, MoneyTold, Desks
  <2>3. NoBalance.cash = Unvalued
    BY DEF NoBalance
  <2>4. view'.pc = "balance" => view'.real["kis"].shares = owned["kis"]
    BY <1>4, <1>7, <1>8, <1>9
  <2>5. view'.pc # "check"
    BY <1>7, <1>8
  <2>6. view'.pc \in {"none", "toss", "toss_cash"} => view'.balance["toss"] = NoBalance
    <3>1. d = "toss" => view.balance["toss"] = NoBalance
      BY DEF ViewInv, MoneyTold
    <3> QED
      BY <1>7, <1>8, <2>1, <3>1
  <2>7. purse'["toss"].receive = 0 /\ purse'["toss"].pay = 0 /\ view'.balance["kis"] = NoBalance
    BY <1>8, <2>2 DEF ViewInv, MoneyTold
  <2>8. Known("toss")' => view'.balance["toss"].cash = view'.real["toss"].worth
    BY <2>1 DEF ViewInv, MoneyTold, Known
  <2>9. view'.pc \in {"balance", "check"} /\ view'.stirred = {} => owned'["kis"] = view'.real["kis"].shares
    BY <2>4, <2>5
  <2> QED
    BY <2>3, <2>5, <2>6, <2>7, <2>8, <2>9 DEF MoneyTold
<1>14. ProofHolds'
  BY DEF ViewInv, ProofHolds
<1> QED
  BY <1>11, <1>12, <1>13, <1>14 DEF ViewInv

(* The shares of an account are read, whole or cut. *)
LEMMA ViewReadsShares == ASSUME ViewInv, NEW d \in Desks, ReadShares(d) PROVE ViewInv'
<1> DEFINE held == {s \in Assets : owned[d][s] > 0}
<1>1. view.pc = d /\ UNCHANGED <<market, owned, purse, proof>>
  BY DEF ReadShares
<1>2. /\ Priced(d, held) \subseteq Rows /\ IsFiniteSet(Priced(d, held))
      /\ \A r \in Priced(d, held) : r.of = d /\ r.asset \in held /\ r.qty = owned[d][r.asset]
      /\ \A r, q \in Priced(d, held) : r.asset = q.asset => r = q
      /\ \A s \in held : \E r \in Priced(d, held) : r.asset = s
  <2>1. held \in SUBSET {s \in Assets : owned[d][s] > 0}
    OBVIOUS
  <2> HIDE DEF held
  <2> QED
    BY <2>1, PricedIs
<1>3. CASE SharesTold(d, Priced(d, held), {})
  <2> DEFINE heard == Priced(d, held)
  <2>1. \A s \in Assets : owned[d][s] > 0 => \E r \in heard : r.asset = s
    BY <1>2
  <2> HIDE DEF heard
  <2> QED
    BY <1>1, <1>2, <1>3, <2>1, ViewTold DEF heard
<1>4. CASE SharesTold(d, {}, {d})
  BY <1>1, <1>4, ViewTold, FS_EmptySet
<1>5. CASE \E s \in held : SharesTold(d, Priced(d, held \ {s}), {d})
  <2>1. PICK s \in held : SharesTold(d, Priced(d, held \ {s}), {d})
    BY <1>5
  <2> DEFINE heard == Priced(d, held \ {s})
  <2>2. /\ heard \subseteq Rows /\ IsFiniteSet(heard)
        /\ \A r \in heard : r.of = d /\ r.qty = owned[d][r.asset]
        /\ \A r, q \in heard : r.asset = q.asset => r = q
    <3> DEFINE some == held \ {s}
    <3>1. some \in SUBSET {t \in Assets : owned[d][t] > 0}
      OBVIOUS
    <3> HIDE DEF some, held
    <3>2. /\ Priced(d, some) \subseteq Rows /\ IsFiniteSet(Priced(d, some))
          /\ \A r \in Priced(d, some) : r.of = d /\ r.qty = owned[d][r.asset]
          /\ \A r, q \in Priced(d, some) : r.asset = q.asset => r = q
      BY <3>1, PricedIs
    <3> QED
      BY <3>2 DEF some
  <2> HIDE DEF heard
  <2> QED
    BY <1>1, <2>1, <2>2, ViewTold DEF heard
<1>6. CASE \E r \in Priced(d, held), how \in {"valued", "bare"} :
             SharesTold(d, (Priced(d, held) \ {r}) \cup {[r EXCEPT !.how = how]}, {})
  <2>1. PICK x \in Priced(d, held), how \in {"valued", "bare"} :
             SharesTold(d, (Priced(d, held) \ {x}) \cup {[x EXCEPT !.how = how]}, {})
    BY <1>6
  <2> DEFINE old == Priced(d, held)
             y == [x EXCEPT !.how = how]
             heard == (old \ {x}) \cup {y}
  <2>2. x \in Rows /\ x \in old
    BY <1>2
  <2>3. y \in Rows /\ y.of = x.of /\ y.asset = x.asset /\ y.qty = x.qty
    BY <2>2 DEF Rows
  <2>4. IsFiniteSet(heard)
    <3>1. IsFiniteSet(old \ {x}) /\ IsFiniteSet({y})
      BY <1>2, FS_Subset, FS_Singleton
    <3> HIDE DEF old, y
    <3> QED
      BY <3>1, FS_Union
  <2>5. \A r : r \in heard <=> (r \in old /\ r # x) \/ r = y
    OBVIOUS
  <2>6. SharesTold(d, heard, {})
    BY <2>1
  <2> HIDE DEF y, heard, old
  <2>7. heard \subseteq Rows /\ \A r \in heard : r.of = d /\ r.qty = owned[d][r.asset]
    BY <1>2, <2>2, <2>3, <2>5 DEF old
  <2>8. \A r, q \in heard : r.asset = q.asset => r = q
    <3>1. \A r, q \in old : r.asset = q.asset => r = q
      BY <1>2 DEF old
    <3>2. \A r \in heard : r.asset = x.asset => r = y
      BY <2>2, <2>3, <2>5, <3>1
    <3> QED
      BY <2>3, <2>5, <3>1, <3>2
  <2>9. \A s \in Assets : owned[d][s] > 0 => \E r \in heard : r.asset = s
    <3> SUFFICES ASSUME NEW s \in Assets, owned[d][s] > 0 PROVE \E r \in heard : r.asset = s
      OBVIOUS
    <3>1. PICK r \in old : r.asset = s
      BY <1>2 DEF old
    <3> QED
      BY <2>3, <2>5, <3>1
  <2> QED
    BY <1>1, <2>4, <2>6, <2>7, <2>8, <2>9, ViewTold
<1> QED
  BY <1>3, <1>4, <1>5, <1>6 DEF ReadShares

(* The cash at Toss is read. *)
LEMMA ViewReadsTossCash == ViewInv /\ ReadTossCash => ViewInv'
<1> SUFFICES ASSUME ViewInv, ReadTossCash PROVE ViewInv'
  OBVIOUS
<1>1. PICK how \in {"ok", "failed", "unreadable"} :
        view' = [view EXCEPT
                 !.pc = "kis",
                 !.balance["toss"] = IF how = "ok" THEN [NoBalance EXCEPT !.cash = purse["toss"].cash] ELSE @,
                 !.bad = @ \cup IF how = "failed" THEN {"toss"} ELSE {},
                 !.real["toss"].worth = Worth("toss")]
  BY DEF ReadTossCash
<1>2. view.pc = "toss_cash" /\ UNCHANGED <<market, owned, purse, proof>>
  BY DEF ReadTossCash
<1>3. ViewTyped /\ view \in Views
  BY DEF ViewInv, ViewTyped
<1>4. view.balance \in [Desks -> Balances] /\ view.real \in [Desks -> [shares : [Assets -> Nat], worth : Int]] /\ view.bad \in SUBSET Desks
  BY <1>3 DEF Views
<1> DEFINE b == IF how = "ok" THEN [NoBalance EXCEPT !.cash = purse["toss"].cash] ELSE view.balance["toss"]
           w == Worth("toss")
           B == [view.balance EXCEPT !["toss"] = b]
           D == view.bad \cup IF how = "failed" THEN {"toss"} ELSE {}
           R == [view.real EXCEPT !["toss"].worth = w]
<1>5. view' = [view EXCEPT !.pc = "kis", !.balance = B, !.bad = D, !.real = R]
  BY <1>1
<1>6. purse["toss"].cash \in Int /\ w = purse["toss"].cash
  <2> DEFINE c == purse["toss"].cash
  <2>1. c \in Int /\ purse["toss"].receive = 0 /\ purse["toss"].pay = 0
    BY <1>3, ViewFacts DEF ViewInv, MoneyTold, Desks
  <2> HIDE DEF c
  <2>2. c + 0 - 0 = c
    BY <2>1
  <2> QED
    BY <2>1, <2>2 DEF Worth, c
<1>7. b \in Balances /\ (b.cash # Unvalued => b.cash = w \/ b = view.balance["toss"])
  <2>1. CASE how = "ok"
    <3> DEFINE c == purse["toss"].cash
    <3>1. c \in Int /\ w = c
      BY <1>6
    <3> HIDE DEF c, w
    <3>2. [NoBalance EXCEPT !.cash = c] \in Balances /\ [NoBalance EXCEPT !.cash = c].cash = c
      BY <3>1, NoViewTyped DEF Balances, AmountsTold
    <3> QED
      BY <2>1, <3>1, <3>2 DEF c
  <2>2. CASE how # "ok"
    BY <1>4, <2>2 DEF Desks
  <2> QED
    BY <2>1, <2>2
<1>8. view.balance["toss"].cash = Unvalued
  BY <1>2 DEF ViewInv, MoneyTold, NoBalance
<1>9. B \in [Desks -> Balances] /\ B["toss"] = b /\ B["kis"] = view.balance["kis"]
  <2> HIDE DEF b
  <2> QED
    BY <1>4, <1>7 DEF Desks
<1>10. D \in SUBSET Desks /\ \A e : e \in view.bad => e \in D
  BY <1>4 DEF Desks
<1>11. /\ R \in [Desks -> [shares : [Assets -> Nat], worth : Int]] /\ R["toss"].worth = w
       /\ \A e \in Desks : R[e].shares = view.real[e].shares
       /\ R["kis"] = view.real["kis"]
  <2> DEFINE x == [view.real["toss"] EXCEPT !.worth = w]
  <2>1. view.real["toss"] \in [shares : [Assets -> Nat], worth : Int] /\ w \in Int
    BY <1>4, <1>6 DEF Desks
  <2> HIDE DEF w
  <2>2. x \in [shares : [Assets -> Nat], worth : Int] /\ x.shares = view.real["toss"].shares /\ x.worth = w
    BY <2>1
  <2>3. R = [view.real EXCEPT !["toss"] = x]
    OBVIOUS
  <2> HIDE DEF x, R
  <2> QED
    BY <1>4, <2>2, <2>3 DEF Desks
<1> HIDE DEF b, w, B, D, R
<1>12. /\ view' \in Views /\ view'.pc = "kis" /\ view'.told = view.told /\ view'.bad = D /\ view'.real = R
       /\ view'.balance = B /\ view'.stirred = view.stirred /\ view'.hidden = view.hidden
  BY <1>3, <1>5, <1>9, <1>10, <1>11 DEF Views
<1>13. ViewTyped'
  BY <1>2, <1>12 DEF ViewInv, ViewTyped
<1>14. ToldRows'
  <2>1. \A r \in view.told : r.of \in Desks
    BY <1>3, ViewFacts
  <2>2. HeldRows("kis") = {} /\ HeldRows("kis")' = HeldRows("kis")
    BY <1>2, <1>12 DEF ViewInv, ToldRows, HeldRows
  <2> QED
    BY <1>10, <1>11, <1>12, <2>1, <2>2 DEF ViewInv, ToldRows
<1>15. MoneyTold'
  <2>1. view'.balance["toss"].cash # Unvalued => view'.balance["toss"].cash = view'.real["toss"].worth
    BY <1>7, <1>8, <1>9, <1>11, <1>12
  <2>2. view'.balance["kis"] = NoBalance /\ NoBalance.cash = Unvalued
    BY <1>2, <1>9, <1>12 DEF ViewInv, MoneyTold, NoBalance
  <2> QED
    BY <1>2, <1>12, <2>1, <2>2 DEF ViewInv, MoneyTold, Known
<1>16. ProofHolds'
  BY <1>2 DEF ViewInv, ProofHolds
<1> QED
  BY <1>13, <1>14, <1>15, <1>16 DEF ViewInv

(* The balance at KIS is read, or no row comes. *)
LEMMA ViewReadsBalance == ViewInv /\ ReadBalance => ViewInv'
<1> SUFFICES ASSUME ViewInv, ReadBalance PROVE ViewInv'
  OBVIOUS
<1>1. PICK how \in {"ok", "failed", "unreadable", "no_row"} :
        view' = [view EXCEPT
                 !.pc = IF how = "no_row" /\ HeldRows("kis") # {} THEN "check" ELSE "dollar",
                 !.balance["kis"] = CASE how = "ok" -> purse["kis"]
                                      [] how = "unreadable" -> [purse["kis"] EXCEPT !.receive = Unvalued]
                                      [] OTHER -> @,
                 !.bad = @ \cup IF how = "failed" THEN {"kis"} ELSE {},
                 !.real["kis"].worth = Worth("kis")]
  BY DEF ReadBalance
<1>2. view.pc = "balance" /\ UNCHANGED <<market, owned, purse, proof>>
  BY DEF ReadBalance
<1>3. ViewTyped /\ view \in Views
  BY DEF ViewInv, ViewTyped
<1>4. view.balance \in [Desks -> Balances] /\ view.real \in [Desks -> [shares : [Assets -> Nat], worth : Int]] /\ view.bad \in SUBSET Desks
  BY <1>3 DEF Views
<1> DEFINE next == IF how = "no_row" /\ HeldRows("kis") # {} THEN "check" ELSE "dollar"
           b == CASE how = "ok" -> purse["kis"]
                  [] how = "unreadable" -> [purse["kis"] EXCEPT !.receive = Unvalued]
                  [] OTHER -> view.balance["kis"]
           w == Worth("kis")
           B == [view.balance EXCEPT !["kis"] = b]
           D == view.bad \cup IF how = "failed" THEN {"kis"} ELSE {}
           R == [view.real EXCEPT !["kis"].worth = w]
<1>5. view' = [view EXCEPT !.pc = next, !.balance = B, !.bad = D, !.real = R]
  BY <1>1
<1>6. view.balance["kis"] = NoBalance /\ NoBalance.cash = Unvalued /\ NoBalance \in Balances
  BY <1>2, NoViewTyped DEF ViewInv, MoneyTold, NoBalance
<1>7. /\ b \in Balances /\ (next = "check" => b = NoBalance)
      /\ Unvalued \notin {b.cash, b.receive, b.pay} => b.cash + b.receive - b.pay = w
  <2>0. Unvalued \notin Int /\ purse["kis"] \in [cash : Int, receive : Int, pay : Int]
    BY <1>3, ViewAssumption DEF ViewTyped, Desks
  <2>1. CASE how = "ok"
    <3>1. b = purse["kis"] /\ next = "dollar"
      BY <2>1
    <3> QED
      BY <2>0, <3>1 DEF Worth, Balances, AmountsTold
  <2>2. CASE how = "unreadable"
    <3>1. b = [purse["kis"] EXCEPT !.receive = Unvalued] /\ next = "dollar"
      BY <2>2
    <3>2. b \in Balances /\ b.receive = Unvalued
      BY <2>0, <3>1 DEF Balances, AmountsTold
    <3> QED
      BY <3>1, <3>2
  <2>3. CASE how = "failed" \/ how = "no_row"
    <3>1. b = view.balance["kis"]
      BY <2>3
    <3> QED
      BY <1>6, <3>1
  <2> QED
    BY <2>1, <2>2, <2>3
<1>8. next \in {"check", "dollar"}
  OBVIOUS
<1>9. B \in [Desks -> Balances] /\ B["kis"] = b /\ B["toss"] = view.balance["toss"]
  <2>1. b \in Balances
    BY <1>7
  <2> HIDE DEF b
  <2> QED
    BY <1>4, <2>1 DEF Desks
<1>10. D \in SUBSET Desks /\ (\A e : e \in view.bad => e \in D)
  BY <1>4 DEF Desks
<1>11. /\ R \in [Desks -> [shares : [Assets -> Nat], worth : Int]] /\ R["kis"].worth = w
       /\ \A e \in Desks : R[e].shares = view.real[e].shares
       /\ R["toss"] = view.real["toss"]
  <2> DEFINE x == [view.real["kis"] EXCEPT !.worth = w]
  <2>0. w \in Int
    <3> DEFINE c == purse["kis"].cash  r == purse["kis"].receive  p == purse["kis"].pay
    <3>1. c \in Int /\ r \in Int /\ p \in Int
      BY <1>3, ViewFacts DEF Desks
    <3> HIDE DEF c, r, p
    <3>2. c + r - p \in Int
      BY <3>1
    <3> QED
      BY <3>2 DEF Worth, c, r, p
  <2>1. view.real["kis"] \in [shares : [Assets -> Nat], worth : Int]
    BY <1>4 DEF Desks
  <2> HIDE DEF w
  <2>2. x \in [shares : [Assets -> Nat], worth : Int] /\ x.shares = view.real["kis"].shares /\ x.worth = w
    BY <2>0, <2>1
  <2>3. R = [view.real EXCEPT !["kis"] = x]
    OBVIOUS
  <2> HIDE DEF x, R
  <2> QED
    BY <1>4, <2>2, <2>3 DEF Desks
<1>w. w = Worth("kis")
  OBVIOUS
<1> HIDE DEF b, w, B, D, R, next
<1>12. /\ view' \in Views /\ view'.pc = next /\ view'.told = view.told /\ view'.bad = D /\ view'.real = R
       /\ view'.balance = B /\ view'.stirred = view.stirred /\ view'.hidden = view.hidden
  BY <1>3, <1>5, <1>8, <1>9, <1>10, <1>11 DEF Views
<1>13. ViewTyped'
  BY <1>2, <1>12 DEF ViewInv, ViewTyped
<1>14. ToldRows'
  <2>1. \A r \in view.told : r.of \in Desks
    BY <1>3, ViewFacts
  <2>2. view'.pc \in {"check", "dollar"}
    BY <1>8, <1>12
  <2>3. \A r \in view'.told : r.qty = view'.real[r.of].shares[r.asset]
    BY <1>11, <1>12, <2>1 DEF ViewInv, ToldRows
  <2>4. \A d \in Desks, s \in Assets : d \notin view'.bad /\ view'.real[d].shares[s] > 0 =>
          \E r \in view'.told : r.of = d /\ r.asset = s
    BY <1>10, <1>11, <1>12 DEF ViewInv, ToldRows
  <2> QED
    BY <1>12, <2>2, <2>3, <2>4 DEF ViewInv, ToldRows
<1>15. MoneyTold'
  <2>1. \A k \in {view'.balance["kis"]} :
         Unvalued \notin {k.cash, k.receive, k.pay} /\ view'.bad = {} /\ view'.stirred = {} /\ ~view'.hidden
            => k.cash + k.receive - k.pay = view'.real["kis"].worth
    BY <1>7, <1>9, <1>11, <1>12
  <2>2. Known("toss")' => view'.balance["toss"].cash = view'.real["toss"].worth
    BY <1>9, <1>11, <1>12 DEF ViewInv, MoneyTold, Known
  <2>3. /\ view'.pc \in {"none", "toss", "toss_cash"} => view'.balance["toss"] = NoBalance
        /\ view'.pc \in {"none", "toss", "toss_cash", "kis", "balance", "check"} => view'.balance["kis"] = NoBalance
    BY <1>7, <1>8, <1>9, <1>12
  <2>4. view'.pc \in {"balance", "check"} /\ view'.stirred = {} => owned'["kis"] = view'.real["kis"].shares
    BY <1>2, <1>11, <1>12 DEF ViewInv, MoneyTold, Desks
  <2>5. view'.pc = "check" /\ view'.stirred = {} => view'.real["kis"].worth = Worth("kis")'
    BY <1>2, <1>11, <1>12, <1>w DEF Worth
  <2>6. purse'["toss"].receive = 0 /\ purse'["toss"].pay = 0
    BY <1>2 DEF ViewInv, MoneyTold
  <2> QED
    BY <2>1, <2>2, <2>3, <2>4, <2>5, <2>6 DEF MoneyTold
<1>16. ProofHolds'
  BY <1>2 DEF ViewInv, ProofHolds
<1> QED
  BY <1>13, <1>14, <1>15, <1>16 DEF ViewInv

(* What a whole answer told of the shares of the account. *)
LEMMA ReadQtyIs ==
    ASSUME ViewInv
    PROVE  /\ ReadQty \in [Assets -> Int]
           /\ "kis" \notin view.bad => ReadQty = view.real["kis"].shares
<1> DEFINE heard(s) == {r \in HeldRows("kis") : r.asset = s}
           q(s) == [r \in heard(s) |-> r.qty]
<1>1. ReadQty = [s \in Assets |-> SumFunction(q(s))]
  BY DEF ReadQty
<1>2. \A s \in Assets : SumFunction(q(s)) \in Int
  <2> TAKE s \in Assets
  <2> DEFINE R == heard(s)
             f == q(s)
  <2>1. R \in SUBSET view.told /\ IsFiniteSet(R) /\ \A r \in R : r.qty \in Int
    BY ViewFacts, FS_Subset DEF HeldRows, ViewInv
  <2>2. \A r \in R : f[r] \in Int
    BY <2>1
  <2>3. SumFunction(f) = SumFunctionOnSet(f, R)
    BY DEF SumFunction
  <2>4. SumFunctionOnSet(f, R) \in Int
    <3> HIDE DEF f, R
    <3> QED
      BY <2>1, <2>2, SumTyped
  <2> QED
    BY <2>3, <2>4
<1>3. ASSUME "kis" \notin view.bad, NEW s \in Assets PROVE SumFunction(q(s)) = view.real["kis"].shares[s]
  <2> DEFINE R == heard(s)
             f == q(s)
  <2>1. R = {r \in view.told : r.of = "kis" /\ r.asset = s}
    BY DEF HeldRows
  <2>2. \A r \in R : f[r] = r.qty
    OBVIOUS
  <2>3. SumFunction(f) = SumFunctionOnSet(f, R)
    BY DEF SumFunction
  <2>4. SumFunctionOnSet(f, R) = view.real["kis"].shares[s]
    <3>1. "kis" \in Desks
      BY DEF Desks
    <3> HIDE DEF f, R
    <3> QED
      BY <1>3, <2>1, <2>2, <3>1, RowsOfOne
  <2> QED
    BY <2>3, <2>4
<1>4. view.real["kis"].shares \in [Assets -> Nat]
  BY DEF ViewInv, ViewTyped, Views, Desks
<1> HIDE DEF q
<1>5. ReadQty \in [Assets -> Int]
  BY <1>1, <1>2
<1>6. ASSUME "kis" \notin view.bad PROVE ReadQty = view.real["kis"].shares
  BY <1>1, <1>3, <1>4, <1>6
<1> QED
  BY <1>5, <1>6

(* What is counted. *)
ViewCounts == counts \in [ticks : Nat, reports : Nat, changes : Nat, misses : Nat]

(* An empty answer counts as empty only while it was proved so (_overseas_cash_check). *)
LEMMA ViewChecks == ViewInv /\ ViewCounts /\ CheckEmpty => ViewInv'
<1> SUFFICES ASSUME ViewInv, ViewCounts, CheckEmpty PROVE ViewInv'
  OBVIOUS
<1>1. view.pc = "check" /\ UNCHANGED <<market, owned, purse>>
  BY DEF CheckEmpty
<1>2. ViewTyped /\ view \in Views /\ proof \in [made : BOOLEAN, at : Int, shares : [Assets -> Int], empty : BOOLEAN, disturbed : BOOLEAN]
  BY DEF ViewInv, ViewTyped
<1>3. ReadQty \in [Assets -> Int] /\ ("kis" \notin view.bad => ReadQty = view.real["kis"].shares)
  BY ReadQtyIs
<1>4. EmptyPurse \in Balances /\ EmptyPurse.cash = 0 /\ EmptyPurse.receive = 0 /\ EmptyPurse.pay = 0
  BY DEF EmptyPurse, Balances, AmountsTold
<1>5. view.balance["kis"] = NoBalance /\ NoBalance.cash = Unvalued /\ view.balance \in [Desks -> Balances]
  BY <1>1, <1>2 DEF ViewInv, MoneyTold, NoBalance, Views
\* Whichever proof is used, an empty one is true of the account that was read.
<1>6. ASSUME NEW b \in {EmptyPurse, NoBalance}, NEW h \in BOOLEAN,
             view' = [view EXCEPT !.pc = "dollar", !.balance["kis"] = b, !.hidden = h],
             b = EmptyPurse /\ view.bad = {} /\ view.stirred = {} /\ ~h => purse["kis"] = EmptyPurse,
             proof' \in [made : BOOLEAN, at : Int, shares : [Assets -> Int], empty : BOOLEAN, disturbed : BOOLEAN],
             ProofHolds'
      PROVE  ViewInv'
  <2> DEFINE B == [view.balance EXCEPT !["kis"] = b]
  <2>1. view' = [view EXCEPT !.pc = "dollar", !.balance = B, !.hidden = h]
    BY <1>6
  <2>2. b \in Balances /\ (b.cash # Unvalued => b = EmptyPurse)
    BY <1>4, <1>5, NoViewTyped
  <2>3. B \in [Desks -> Balances] /\ B["kis"] = b /\ B["toss"] = view.balance["toss"]
    BY <1>5, <2>2 DEF Desks
  <2> HIDE DEF B
  <2>4. /\ view' \in Views /\ view'.pc = "dollar" /\ view'.told = view.told /\ view'.bad = view.bad
        /\ view'.real = view.real /\ view'.balance = B /\ view'.stirred = view.stirred /\ view'.hidden = h
    BY <1>2, <2>1, <2>3 DEF Views
  <2>5. ViewTyped'
    BY <1>1, <1>6, <2>4 DEF ViewInv, ViewTyped
  <2>6. ToldRows'
    BY <2>4 DEF ViewInv, ToldRows, HeldRows
  <2>7. MoneyTold'
    <3>1. \A k \in {view'.balance["kis"]} :
         Unvalued \notin {k.cash, k.receive, k.pay} /\ view'.bad = {} /\ view'.stirred = {} /\ ~view'.hidden
            => k.cash + k.receive - k.pay = view'.real["kis"].worth
      <4> SUFFICES ASSUME b.cash # Unvalued, view.bad = {}, view.stirred = {}, ~h
                   PROVE  b.cash + b.receive - b.pay = view.real["kis"].worth
        BY <2>3, <2>4
      <4>1. b = EmptyPurse /\ purse["kis"] = EmptyPurse
        BY <1>6, <2>2
      <4>2. view.real["kis"].worth = Worth("kis")
        BY <1>1 DEF ViewInv, MoneyTold
      <4> QED
        BY <4>1, <4>2 DEF Worth
    <3>2. Known("toss")' => view'.balance["toss"].cash = view'.real["toss"].worth
      BY <2>3, <2>4 DEF ViewInv, MoneyTold, Known
    <3>3. purse'["toss"].receive = 0 /\ purse'["toss"].pay = 0
      BY <1>1 DEF ViewInv, MoneyTold
    <3> QED
      BY <2>4, <3>1, <3>2, <3>3 DEF MoneyTold
  <2> QED
    BY <1>6, <2>5, <2>6, <2>7 DEF ViewInv
<1>7. CASE StillProves(proof) /\ WithProof(proof) /\ UNCHANGED proof
  <2> DEFINE b == IF proof.empty THEN EmptyPurse ELSE NoBalance
             h == proof.disturbed /\ counts.ticks - proof.at < Reuse
  <2>1. proof.made /\ proof.shares = ReadQty /\ counts.ticks - proof.at < Reuse
    BY <1>7 DEF StillProves
  <2>2. h \in BOOLEAN /\ h = proof.disturbed
    BY <1>2, <2>1
  <2>3. view' = [view EXCEPT !.pc = "dollar", !.balance["kis"] = b, !.hidden = h]
    BY <1>5, <1>7 DEF WithProof
  <2>6. b \in {EmptyPurse, NoBalance} /\ (b = EmptyPurse => proof.empty)
    BY <1>4, <1>5, ViewAssumption
  <2> HIDE DEF h, b
  <2>4. b = EmptyPurse /\ view.bad = {} /\ view.stirred = {} /\ ~h => purse["kis"] = EmptyPurse
    <3> SUFFICES ASSUME b = EmptyPurse, view.bad = {}, view.stirred = {}, ~h PROVE purse["kis"] = EmptyPurse
      OBVIOUS
    <3>1. owned["kis"] = view.real["kis"].shares
      BY <1>1 DEF ViewInv, MoneyTold
    <3> QED
      BY <1>3, <2>1, <2>2, <2>6, <3>1 DEF ViewInv, ProofHolds
  <2>5. proof' \in [made : BOOLEAN, at : Int, shares : [Assets -> Int], empty : BOOLEAN, disturbed : BOOLEAN] /\ ProofHolds'
    BY <1>1, <1>2, <1>7 DEF ViewInv, ProofHolds
  <2> QED
    BY <1>6, <2>2, <2>3, <2>4, <2>5, <2>6
<1>8. CASE /\ proof' = [made |-> TRUE, at |-> counts.ticks, shares |-> ReadQty,
                        empty |-> purse["kis"] = EmptyPurse, disturbed |-> FALSE]
           /\ WithProof(proof')
  <2> DEFINE b == IF purse["kis"] = EmptyPurse THEN EmptyPurse ELSE NoBalance
  <2>1. /\ (proof'.empty <=> purse["kis"] = EmptyPurse) /\ ~proof'.disturbed
        /\ proof'.made /\ proof'.shares = ReadQty
    BY <1>8
  <2>2. view' = [view EXCEPT !.pc = "dollar", !.balance["kis"] = b, !.hidden = FALSE]
    BY <1>5, <1>8 DEF WithProof
  <2>3. proof' \in [made : BOOLEAN, at : Int, shares : [Assets -> Int], empty : BOOLEAN, disturbed : BOOLEAN]
    BY <1>3, <1>8 DEF ViewCounts
  <2>4. ProofHolds'
    BY <1>1, <2>1 DEF ProofHolds
  <2>5. b \in {EmptyPurse, NoBalance} /\ (b = EmptyPurse => purse["kis"] = EmptyPurse)
    BY <1>4, <1>5, ViewAssumption
  <2> HIDE DEF b
  <2> QED
    BY <1>6, <2>2, <2>3, <2>4, <2>5
<1>9. CASE WithProof(NoProof) /\ UNCHANGED proof
  <2>1. NoProof.empty = FALSE /\ NoProof.disturbed = FALSE
    BY DEF NoProof
  <2>2. view' = [view EXCEPT !.pc = "dollar", !.balance["kis"] = NoBalance, !.hidden = FALSE]
    BY <1>5, <1>9, <2>1 DEF WithProof
  <2>3. proof' \in [made : BOOLEAN, at : Int, shares : [Assets -> Int], empty : BOOLEAN, disturbed : BOOLEAN] /\ ProofHolds'
    BY <1>1, <1>2, <1>9 DEF ViewInv, ProofHolds
  <2>4. NoBalance # EmptyPurse
    BY <1>4, <1>5, ViewAssumption
  <2> QED
    BY <1>6, <2>2, <2>3, <2>4
<1> QED
  BY <1>7, <1>8, <1>9 DEF CheckEmpty

(* The exchange rate is read. *)
LEMMA ViewReadsDollar == ViewInv /\ ReadDollar => ViewInv'
<1> SUFFICES ASSUME ViewInv, ReadDollar PROVE ViewInv'
  OBVIOUS
<1>1. PICK how \in {"ok", "failed"} :
        view' = [view EXCEPT !.pc = "quotes", !.dollar = IF how = "ok" THEN Dollar ELSE @]
  BY DEF ReadDollar
<1>2. UNCHANGED <<market, owned, purse, proof>> /\ view \in Views
  BY DEF ReadDollar, ViewInv, ViewTyped
<1> DEFINE c == IF how = "ok" THEN Dollar ELSE view.dollar
<1>3. view' = [view EXCEPT !.pc = "quotes", !.dollar = c]
  BY <1>1
<1>4. c \in {Dollar, Unvalued}
  BY <1>2 DEF Views
<1> HIDE DEF c
<1>5. /\ view' \in Views /\ view'.told = view.told /\ view'.balance = view.balance /\ view'.real = view.real
      /\ view'.bad = view.bad /\ view'.stirred = view.stirred /\ view'.hidden = view.hidden /\ view'.pc = "quotes"
  BY <1>2, <1>3, <1>4 DEF Views
<1> QED
  BY <1>2, <1>5, ViewKept

(* The futures account is read. *)
LEMMA ViewReadsFutures == ViewInv /\ ReadFutures => ViewInv'
<1> SUFFICES ASSUME ViewInv, ReadFutures PROVE ViewInv'
  OBVIOUS
<1>1. PICK how \in {"ok", "failed", "no_rate"} :
        view' = [view EXCEPT !.futures = IF how = "failed" \/ (how = "no_rate" /\ market.short > 0) THEN how
                                         ELSE IF market.short = 0 THEN "flat" ELSE "short"]
  BY DEF ReadFutures
<1>2. UNCHANGED <<market, owned, purse, proof>> /\ view \in Views
  BY DEF ReadFutures, ViewInv, ViewTyped
<1> DEFINE c == IF how = "failed" \/ (how = "no_rate" /\ market.short > 0) THEN how
                ELSE IF market.short = 0 THEN "flat" ELSE "short"
<1>3. view' = [view EXCEPT !.futures = c]
  BY <1>1
<1>4. c \in {"failed", "no_rate", "flat", "short"}
  OBVIOUS
<1> HIDE DEF c
<1>5. /\ view' \in Views /\ view'.told = view.told /\ view'.balance = view.balance /\ view'.real = view.real
      /\ view'.bad = view.bad /\ view'.stirred = view.stirred /\ view'.hidden = view.hidden /\ view'.pc = view.pc
  BY <1>2, <1>3, <1>4 DEF Views
<1> QED
  BY <1>2, <1>5, ViewKept

(* The quotes are read, and the view is done. *)
LEMMA ViewReadsQuotes == ViewInv /\ ReadQuotes => ViewInv'
<1> SUFFICES ASSUME ViewInv, ReadQuotes PROVE ViewInv'
  OBVIOUS
<1>1. PICK lost \in {{}, HeldAssets} \cup {{s} : s \in HeldAssets} :
        view' = [view EXCEPT !.pc = "done",
                 !.quotes = [s \in Assets |-> IF s \in HeldAssets \ lost THEN market.price[s] ELSE Unvalued]]
  BY DEF ReadQuotes
<1>2. UNCHANGED <<market, owned, purse, proof>> /\ view \in Views /\ market.price \in [Assets -> Prices]
  BY DEF ReadQuotes, ViewInv, ViewTyped
<1> DEFINE c == [s \in Assets |-> IF s \in HeldAssets \ lost THEN market.price[s] ELSE Unvalued]
<1>3. view' = [view EXCEPT !.pc = "done", !.quotes = c]
  BY <1>1
<1>4. c \in [Assets -> Prices \cup {Unvalued}]
  BY <1>2
<1> HIDE DEF c
<1>5. /\ view' \in Views /\ view'.told = view.told /\ view'.balance = view.balance /\ view'.real = view.real
      /\ view'.bad = view.bad /\ view'.stirred = view.stirred /\ view'.hidden = view.hidden /\ view'.pc = "done"
  BY <1>2, <1>3, <1>4 DEF Views
<1> QED
  BY <1>2, <1>5, ViewKept

(* The counters are numbers. *)
LEMMA ViewCounted == ViewCounts /\ [ViewNext]_viewVars => ViewCounts'
<1> SUFFICES ASSUME ViewCounts, [ViewNext]_viewVars PROVE ViewCounts'
  OBVIOUS
<1>1. ASSUME NEW what \in {"ticks", "reports", "changes", "misses"}, NEW bound, Within(what, bound) PROVE ViewCounts'
  BY <1>1 DEF Within, ViewCounts
<1>2. UNCHANGED counts => ViewCounts'
  BY DEF ViewCounts
<1>3. ASSUME NEW how, Answer(how) PROVE ViewCounts'
  BY <1>1, <1>2, <1>3 DEF Answer
<1>4. ASSUME NEW d, NEW shares, NEW money, AccountChanges(d, shares, money) PROVE ViewCounts'
  BY <1>1, <1>4 DEF AccountChanges
<1>5. CASE MarketMoves \/ TimeGoesBy \/ AskWorth
  BY <1>1, <1>5 DEF MarketMoves, TimeGoesBy, AskWorth
<1>6. CASE Settle
  BY <1>4, <1>6 DEF Settle
<1>7. CASE \E d \in Desks, s \in Assets, n \in {1, -1} : Trade(d, s, n)
  BY <1>4, <1>7 DEF Trade
<1>8. CASE \E d \in Desks : Deposit(d)
  BY <1>4, <1>8 DEF Deposit
<1>9. CASE \E d \in Desks : ReadShares(d)
  BY <1>3, <1>9 DEF ReadShares
<1>10. CASE ReadTossCash \/ ReadDollar \/ ReadFutures \/ ReadQuotes
  BY <1>3, <1>10 DEF ReadTossCash, ReadDollar, ReadFutures, ReadQuotes
<1>11. CASE ReadBalance
  BY <1>3, <1>11 DEF ReadBalance
<1>12. CASE CheckEmpty
  BY <1>2, <1>3, <1>12 DEF CheckEmpty
<1>13. CASE UNCHANGED viewVars
  BY <1>2, <1>13 DEF viewVars
<1> QED
  BY <1>5, <1>6, <1>7, <1>8, <1>9, <1>10, <1>11, <1>12, <1>13 DEF ViewNext

(* Every step keeps the invariant. *)
LEMMA ViewSteps == ViewInv /\ ViewCounts /\ [ViewNext]_viewVars => ViewInv'
<1> SUFFICES ASSUME ViewInv, ViewCounts, [ViewNext]_viewVars PROVE ViewInv'
  OBVIOUS
<1>1. CASE MarketMoves
  BY <1>1, ViewMarket
<1>2. CASE Settle
  BY <1>2, ViewSettle
<1>3. CASE TimeGoesBy
  BY <1>3, ViewIdle DEF TimeGoesBy
<1>4. CASE \E d \in Desks, s \in Assets, n \in {1, -1} : Trade(d, s, n)
  BY <1>4, ViewTrade
<1>5. CASE \E d \in Desks : Deposit(d)
  BY <1>5, ViewDeposit
<1>6. CASE \E d \in Desks : ReadShares(d)
  BY <1>6, ViewReadsShares
<1>7. CASE AskWorth
  BY <1>7, ViewAsk
<1>8. CASE ReadTossCash
  BY <1>8, ViewReadsTossCash
<1>9. CASE ReadBalance
  BY <1>9, ViewReadsBalance
<1>10. CASE CheckEmpty
  BY <1>10, ViewChecks
<1>11. CASE ReadDollar
  BY <1>11, ViewReadsDollar
<1>12. CASE ReadFutures
  BY <1>12, ViewReadsFutures
<1>13. CASE ReadQuotes
  BY <1>13, ViewReadsQuotes
<1>14. CASE UNCHANGED viewVars
  BY <1>14, ViewIdle DEF viewVars
<1> QED
  BY <1>1, <1>2, <1>3, <1>4, <1>5, <1>6, <1>7, <1>8, <1>9, <1>10, <1>11, <1>12, <1>13, <1>14 DEF ViewNext

-----------------------------------------------------------------------------
(* The theorem on views *)

(* For any assets, prices and leverages: the net worth, the largest          *)
(* position and the exposure that a view of the portfolio publishes are the  *)
(* real ones, and its parts add up, whatever an answer left out or an        *)
(* account did between two reads (summarize_portfolio).                      *)
THEOREM ViewIsTrue == ViewSpec => []ViewTrue
<1>1. ViewInit => ViewInv /\ ViewCounts
  <2>1. ViewInit => ViewCounts
    BY DEF ViewInit, ViewCounts
  <2> QED
    BY <2>1, ViewStarts
<1>2. ViewInv /\ ViewCounts /\ [ViewNext]_viewVars => ViewInv' /\ ViewCounts'
  BY ViewCounted, ViewSteps
<1>3. ViewInv => ViewTrue
  BY ViewMeans
<1> QED
  BY <1>1, <1>2, <1>3, PTL DEF ViewSpec

-----------------------------------------------------------------------------
(* What was gained: the replay *)

Entries == [kind : {"buy", "sell", "receive"}, qty : Nat \ {0}, paid : Nat, told : BOOLEAN, on : Nat]

IsReplay(s) == s = [truth |-> s.truth, book |-> s.book, told |-> s.told, sold |-> s.sold,
                    trip |-> s.trip, begun |-> s.begun, trips |-> s.trips]

\* The book holds what there really is.
Agree(s) == s.truth.qty = s.book.qty

\* The book holds no more than there is.  While it holds all, the cost of all of it is
\* known, and with every fee told it is what the book says.
ReplayCosts(s) ==
    /\ IsReplay(s)
    /\ s.truth.qty \in Nat /\ s.truth.cost \in Nat /\ s.truth.known \in BOOLEAN
    /\ s.book.qty \in Nat /\ s.book.cost \in Nat /\ s.told \in BOOLEAN
    /\ s.book.qty <= s.truth.qty
    /\ s.truth.qty = 0 => s.truth.cost = 0
    /\ s.book.qty = 0 => s.book.cost = 0
    /\ Agree(s) /\ s.truth.qty > 0 => s.truth.known /\ (s.told => s.book.cost = s.truth.cost)

\* What is said of a sale whose basis is whole is true of it.
ToldTruly(s, row) ==
    row.matched >= row.qty /\ row.index >= s.book.opening /\ Agree(s) /\ row.told => TrueRow(row)

(* A portion of an amount is no more than it, and all of it for all shares. *)
LEMMA PortionIs ==
    ASSUME NEW a \in Nat, NEW w \in Nat \ {0}, NEW q \in Nat, q <= w
    PROVE  Portion(a, q, w) \in Nat /\ Portion(a, q, w) <= a /\ Portion(a, w, w) = a
<1>1. a * q \in Nat /\ a * w \in Nat
  BY SMT
<1>2. (a * q) \div w \in Nat
  BY <1>1, SMT
<1>3. a * q <= a * w
  BY SMT
<1>4. (a * w) \div w = a
  BY SMT
<1>5. (a * q) \div w <= (a * w) \div w
  BY <1>1, <1>3, SMT
<1> QED
  BY <1>2, <1>4, <1>5 DEF Portion

(* Before the first event nothing is held. *)
LEMMA ReplayStarts == ReplayCosts(EmptyReplay) /\ EmptyReplay.sold = {} /\ EmptyReplay.truth.qty = 0 /\ EmptyReplay.book.qty = 0
<1> DEFINE s == EmptyReplay
<1>1. IsReplay(s)
  BY DEF EmptyReplay, IsReplay
<1>2. /\ s.truth.qty = 0 /\ s.truth.cost = 0 /\ s.truth.known \in BOOLEAN /\ s.book.qty = 0 /\ s.book.cost = 0
      /\ s.told \in BOOLEAN /\ s.sold = {}
  BY DEF EmptyReplay
<1> HIDE DEF s
<1>3. ReplayCosts(s)
  BY <1>1, <1>2 DEF ReplayCosts
<1> QED
  BY <1>2, <1>3 DEF s

(* Shares received unseen part the quantities; trades are unseen only before *)
(* the first that is seen.                                                   *)
LEMMA ReplayUnseen ==
    ASSUME NEW s, ReplayCosts(s), NEW e \in Entries, e.kind # "receive" => s.book.qty = 0,
           e.kind = "sell" => e.qty <= s.truth.qty
    PROVE  /\ ReplayCosts(Unseen(s, e))
           /\ Unseen(s, e).truth.qty = s.truth.qty + Moved(e)
           /\ Unseen(s, e).book = s.book /\ Unseen(s, e).sold = s.sold
           /\ e.kind = "receive" => ~Agree(Unseen(s, e))
<1> DEFINE t == IF e.kind = "receive" THEN Received(s.truth, e.qty)
                ELSE IF e.kind = "buy" THEN Bought(s.truth, e.qty, e.paid + Unit, 1) ELSE Parted(s.truth, e.qty, 1)
           u == Unseen(s, e)
<1>1. e.qty \in Nat \ {0} /\ e.paid \in Nat /\ e.kind \in {"buy", "sell", "receive"} /\ Unit \in Nat
  BY GainsAssumption DEF Entries
<1>2. u = [s EXCEPT !.truth = t]
  BY DEF Unseen
<1>3. IsReplay(u) /\ u.truth = t /\ u.book = s.book /\ u.told = s.told /\ u.sold = s.sold
  <2> HIDE DEF t
  <2> QED
    BY <1>2 DEF ReplayCosts, IsReplay
<1>4. /\ t.qty = s.truth.qty + Moved(e) /\ t.qty \in Nat /\ t.cost \in Nat /\ t.known \in BOOLEAN
      /\ t.qty = 0 => t.cost = 0
      /\ t.qty = s.book.qty => t.qty = 0 /\ e.kind # "receive"
      /\ s.book.qty <= t.qty
  <2>1. CASE e.kind = "receive"
    <3>1. t = Received(s.truth, e.qty) /\ Moved(e) = e.qty
      BY <2>1 DEF Moved
    <3>2. t.qty = s.truth.qty + e.qty /\ t.cost = s.truth.cost /\ t.known = FALSE
      BY <3>1 DEF Received
    <3>3. t.known \in BOOLEAN
      BY <3>2
    <3>4. s.truth.qty \in Nat /\ s.truth.cost \in Nat /\ s.book.qty \in Nat /\ s.book.qty <= s.truth.qty
      BY DEF ReplayCosts
    <3> HIDE DEF t
    <3>5. t.qty \in Nat /\ t.qty > s.truth.qty /\ t.qty > 0
      BY <1>1, <3>2, <3>4
    <3>6. s.book.qty <= t.qty /\ t.qty # s.book.qty
      BY <3>4, <3>5
    <3> QED
      BY <1>1, <2>1, <3>1, <3>2, <3>3, <3>4, <3>5, <3>6
  <2>2. CASE e.kind = "buy"
    <3>1. t = Bought(s.truth, e.qty, e.paid + Unit, 1) /\ Moved(e) = e.qty
      BY <2>2 DEF Moved
    <3>2. t.qty = s.truth.qty + e.qty /\ t.cost = s.truth.cost + (e.paid + Unit)
      BY <3>1 DEF Bought
    <3>3. t.known \in BOOLEAN
      <4> DEFINE w == Bought(s.truth, e.qty, e.paid + Unit, 1)
      <4>1. w.known = (IF s.truth.qty = 0 THEN TRUE ELSE s.truth.known)
        BY DEF Bought
      <4>2. s.truth.known \in BOOLEAN
        BY DEF ReplayCosts
      <4>3. w.known \in BOOLEAN
        BY <4>1, <4>2, Zenon
      <4> QED
        BY <3>1, <4>3
    <3>4. s.truth.qty \in Nat /\ s.truth.cost \in Nat /\ s.book.qty = 0
      BY <2>2 DEF ReplayCosts
    <3> HIDE DEF t
    <3>5. t.qty \in Nat /\ t.qty > 0 /\ t.cost \in Nat
      BY <1>1, <3>2, <3>4
    <3> QED
      BY <2>2, <3>1, <3>2, <3>3, <3>4, <3>5
  <2>3. CASE e.kind = "sell"
    <3>1. t = Parted(s.truth, e.qty, 1) /\ Moved(e) = - e.qty
      BY <2>3 DEF Moved
    <3> DEFINE p == Portion(s.truth.cost, e.qty, s.truth.qty)
    <3>2. t.qty = s.truth.qty - e.qty /\ t.cost = s.truth.cost - p /\ t.known = s.truth.known
      BY <3>1 DEF Parted
    <3>3. p \in Nat /\ p <= s.truth.cost /\ (e.qty = s.truth.qty => p = s.truth.cost)
      <4>1. s.truth.cost \in Nat /\ s.truth.qty \in Nat \ {0} /\ e.qty <= s.truth.qty
        BY <1>1, <2>3 DEF ReplayCosts
      <4> QED
        BY <1>1, <4>1, PortionIs
    <3> HIDE DEF t, p
    <3> QED
      BY <1>1, <2>3, <3>1, <3>2, <3>3 DEF ReplayCosts
  <2> QED
    BY <1>1, <2>1, <2>2, <2>3
<1> HIDE DEF t, u
<1>5. ReplayCosts(u)
  BY <1>3, <1>4 DEF ReplayCosts, Agree
<1> QED
  BY <1>3, <1>4, <1>5 DEF u, Agree

(* A purchase on record adds the same to the book and to the truth. *)
LEMMA ReplayBuys ==
    ASSUME NEW s, ReplayCosts(s), NEW e \in Entries, e.kind = "buy"
    PROVE  /\ ReplayCosts(SeenBuy(s, e))
           /\ SeenBuy(s, e).truth.qty = s.truth.qty + Moved(e)
           /\ SeenBuy(s, e).sold = s.sold /\ SeenBuy(s, e).book.opening = s.book.opening
           /\ Agree(SeenBuy(s, e)) => Agree(s)
<1> DEFINE t == Bought(s.truth, e.qty, e.paid + Unit, 1)
           b == BookAfterBuy(s.book, e.qty, e.paid + Told(e), TRUE, 1)
           f == ToldAfterBuy(s, e)
           c == TripAfterBuy(s.trip, s.book.qty = 0, e.paid + Told(e))
           d == IF s.book.qty = 0 THEN e.on ELSE s.begun
           u == SeenBuy(s, e)
<1>1. e.qty \in Nat \ {0} /\ e.paid \in Nat /\ Unit \in Nat /\ Told(e) \in Nat /\ Moved(e) = e.qty
      /\ (e.told => Told(e) = Unit) /\ e.told \in BOOLEAN
  BY GainsAssumption DEF Entries, Told, Moved
<1>2. /\ t.qty = s.truth.qty + e.qty /\ t.cost = s.truth.cost + (e.paid + Unit)
      /\ t.known = (IF s.truth.qty = 0 THEN TRUE ELSE s.truth.known)
  BY DEF Bought
<1>3. b.qty = s.book.qty + e.qty /\ b.cost = s.book.cost + (e.paid + Told(e)) /\ b.opening = s.book.opening
  BY DEF BookAfterBuy
<1>4. f = ((IF s.book.qty = 0 THEN TRUE ELSE s.told) /\ e.told)
  BY DEF ToldAfterBuy
<1>5. u = [s EXCEPT !.truth = t, !.book = b, !.told = f, !.trip = c, !.begun = d]
  BY DEF SeenBuy
<1> HIDE DEF t, b, f, c, d, u
<1>6. IsReplay(u) /\ u.truth = t /\ u.book = b /\ u.told = f /\ u.sold = s.sold
  BY <1>5 DEF ReplayCosts, IsReplay
<1>7. /\ t.qty \in Nat /\ t.qty > 0 /\ t.cost \in Nat /\ b.qty \in Nat /\ b.qty > 0 /\ b.cost \in Nat /\ b.qty <= t.qty
      /\ (t.qty = b.qty => s.truth.qty = s.book.qty)
  BY <1>1, <1>2, <1>3 DEF ReplayCosts
<1>8. t.known \in BOOLEAN /\ f \in BOOLEAN
  <2>1. s.truth.known \in BOOLEAN /\ s.told \in BOOLEAN
    BY DEF ReplayCosts
  <2> QED
    BY <1>1, <1>2, <1>4, <2>1, Zenon
<1>9. ASSUME s.truth.qty = s.book.qty PROVE t.known /\ (f => b.cost = t.cost)
  <2>1. CASE s.truth.qty = 0
    <3>1. s.truth.cost = 0 /\ s.book.cost = 0
      BY <1>9, <2>1 DEF ReplayCosts
    <3> QED
      BY <1>1, <1>2, <1>3, <1>4, <2>1, <3>1
  <2>2. CASE s.truth.qty # 0
    <3>1. s.truth.known /\ (s.told => s.book.cost = s.truth.cost)
      BY <1>9, <2>2 DEF ReplayCosts, Agree
    <3> QED
      BY <1>1, <1>2, <1>3, <1>4, <1>9, <2>2, <3>1
  <2> QED
    BY <2>1, <2>2
<1>10. ReplayCosts(u)
  BY <1>6, <1>7, <1>8, <1>9 DEF ReplayCosts, Agree
<1> QED
  BY <1>1, <1>2, <1>3, <1>6, <1>7, <1>10 DEF Agree, u

(* A sale on record takes the same portion from both, and what it is said to have gained is true. *)
LEMMA ReplaySells ==
    ASSUME NEW s, ReplayCosts(s), NEW e \in Entries, e.kind = "sell", e.qty <= s.truth.qty, NEW i \in Nat
    PROVE  LET u == SeenSale(s, e, i)
           IN  /\ ReplayCosts(u) /\ u.truth.qty = s.truth.qty + Moved(e)
               /\ Agree(u) => \/ Agree(s) /\ u.book.opening = s.book.opening
                              \/ u.book.opening = i
               /\ u.book.opening \in {s.book.opening, i}
               /\ \E row : /\ u.sold = s.sold \cup {row} /\ row.index = i /\ row.on = e.on /\ ToldTruly(u, row)
                           /\ row.told = (e.told /\ (row.matched > 0 => s.told))
<1> DEFINE b == s.book
           q == e.qty
           left == AtLeastZero(b.qty + Inferred(b, q) - q)
           p == Portion(s.truth.cost, q, s.truth.qty)
           m == Matched(b, q)
           r == CostRemoved(b, q)
           t2 == Parted(s.truth, q, 1)
           b2 == BookAfterSale(b, q, 1, i)
           sale == SaleRow(b, s.truth, q, e.paid - Told(e), TRUE, 1, i)
           row == [index |-> i, on |-> e.on, qty |-> q, matched |-> sale.matched, gross |-> sale.gross,
                   proceeds |-> sale.proceeds, cost |-> sale.cost, trueKnown |-> sale.trueKnown,
                   truth |-> e.paid - Unit - sale.trueCost, told |-> e.told /\ (sale.matched > 0 => s.told)]
           u == SeenSale(s, e, i)
<1>1. /\ q \in Nat \ {0} /\ e.paid \in Nat /\ Unit \in Nat /\ Told(e) \in Nat /\ Moved(e) = - q
      /\ (e.told => Told(e) = Unit) /\ e.told \in BOOLEAN
  BY GainsAssumption DEF Entries, Told, Moved
<1>2. /\ s.truth.qty \in Nat \ {0} /\ q <= s.truth.qty /\ s.truth.cost \in Nat /\ s.truth.known \in BOOLEAN
      /\ b.qty \in Nat /\ b.cost \in Nat /\ s.told \in BOOLEAN /\ b.qty <= s.truth.qty
      /\ (b.qty = 0 => b.cost = 0)
  BY <1>1 DEF ReplayCosts
<1>3. /\ u.truth = t2 /\ u.book = b2 /\ u.told = s.told /\ u.sold = s.sold \cup {row} /\ IsReplay(u)
  BY DEF SeenSale, ToldAfterSale, IsReplay
<1>4. t2.qty = s.truth.qty - q /\ t2.cost = s.truth.cost - p /\ t2.known = s.truth.known
  BY DEF Parted
<1>5. p \in Nat /\ p <= s.truth.cost /\ (q = s.truth.qty => p = s.truth.cost)
  BY <1>1, <1>2, PortionIs
<1>6. /\ b2.qty = left /\ b2.cost = CostLeft(b, q, left) /\ b2.opening = OpeningAfter(b, q, i)
  BY DEF BookAfterSale
<1>7. /\ row.index = i /\ row.on = e.on /\ row.qty = q /\ row.matched = m /\ row.proceeds = e.paid - Told(e) /\ row.cost = r
      /\ row.trueKnown = s.truth.known /\ row.truth = e.paid - Unit - p /\ row.told = (e.told /\ (m > 0 => s.told))
  BY DEF SaleRow
<1>8. t2.qty \in Nat /\ t2.cost \in Nat /\ (t2.qty = 0 => t2.cost = 0)
  <2> HIDE DEF p, t2, q
  <2> QED
    BY <1>1, <1>2, <1>4, <1>5
<1>9. CASE q <= b.qty
  <2>1. Inferred(b, q) = 0 /\ left = b.qty - q /\ left \in Nat /\ m = q
    BY <1>1, <1>2, <1>9 DEF Inferred, AtLeastZero, Matched, Least
  <2>2. r = Portion(b.cost, q, b.qty) /\ r \in Nat /\ r <= b.cost
    <3>1. b.qty > 0 /\ b.qty \in Nat \ {0}
      BY <1>1, <1>2, <1>9
    <3>2. r = Portion(b.cost, q, b.qty)
      BY <2>1, <3>1 DEF CostRemoved
    <3> HIDE DEF q, b, r
    <3>3. Portion(b.cost, q, b.qty) \in Nat /\ Portion(b.cost, q, b.qty) <= b.cost
      BY <1>1, <1>2, <1>9, <3>1, PortionIs
    <3> QED
      BY <3>2, <3>3
  <2>3. b2.opening = b.opening /\ b2.cost = IF left > 0 THEN b.cost - r ELSE 0
    BY <1>2, <1>6, <2>1, <2>2 DEF OpeningAfter, CostLeft, AtLeastZero
  <2> HIDE DEF left, p, m, r, t2, b2, row, u, sale
  <2>4. /\ b2.qty \in Nat /\ b2.cost \in Nat /\ b2.qty <= t2.qty /\ (b2.qty = 0 => b2.cost = 0)
        /\ (t2.qty = b2.qty => s.truth.qty = b.qty)
    BY <1>1, <1>2, <1>4, <1>6, <2>1, <2>2, <2>3
  <2>5. ASSUME s.truth.qty = b.qty
        PROVE  s.truth.known /\ (s.told => b.cost = s.truth.cost /\ r = p)
    <3>1. s.truth.known /\ (s.told => b.cost = s.truth.cost)
      BY <1>2, <2>5 DEF ReplayCosts, Agree
    <3> QED
      BY <2>2, <2>5, <3>1 DEF p
  <2>6. ASSUME t2.qty = b2.qty, t2.qty > 0 PROVE t2.known /\ (s.told => b2.cost = t2.cost)
    BY <1>2, <1>4, <1>6, <2>3, <2>4, <2>5, <2>6
  <2>7. ReplayCosts(u)
    BY <1>2, <1>3, <1>4, <1>8, <2>4, <2>6 DEF ReplayCosts, Agree
  <2>8. ToldTruly(u, row)
    <3> SUFFICES ASSUME t2.qty = b2.qty, row.told PROVE row.trueKnown /\ row.proceeds - row.cost = row.truth
      BY <1>3 DEF ToldTruly, TrueRow, Gain, Agree
    <3>0. e.told /\ m > 0
      BY <1>1, <1>7, <2>1
    <3>1. s.told /\ Told(e) = Unit
      BY <1>1, <1>7, <3>0
    <3>2. s.truth.known /\ r = p
      BY <2>4, <2>5, <3>1
    <3> QED
      BY <1>1, <1>5, <1>7, <3>1, <3>2
  <2>9. Agree(u) => Agree(s)
    BY <1>3, <2>4 DEF Agree
  <2>10. u.truth.qty = s.truth.qty + Moved(e)
    BY <1>1, <1>2, <1>3, <1>4
  <2> QED
    BY <1>3, <1>7, <2>3, <2>7, <2>8, <2>9, <2>10 DEF u
<1>10. CASE ~(q <= b.qty)
  <2>1. Inferred(b, q) = q - b.qty /\ Inferred(b, q) > 0 /\ left = 0 /\ m = b.qty
    BY <1>1, <1>2, <1>10 DEF Inferred, AtLeastZero, Matched, Least
  <2>2. b2.qty = 0 /\ b2.cost = 0 /\ b2.opening = i
    BY <1>6, <2>1 DEF CostLeft, OpeningAfter
  <2> HIDE DEF left, p, m, r, t2, b2, row, u, sale
  <2>3. ReplayCosts(u)
    BY <1>2, <1>3, <1>4, <1>8, <2>2 DEF ReplayCosts, Agree
  <2>4. ToldTruly(u, row)
    BY <1>1, <1>2, <1>7, <1>10, <2>1 DEF ToldTruly
  <2>5. u.truth.qty = s.truth.qty + Moved(e)
    BY <1>1, <1>2, <1>3, <1>4
  <2> QED
    BY <1>3, <1>7, <2>2, <2>3, <2>4, <2>5 DEF u
<1> QED
  BY <1>9, <1>10

-----------------------------------------------------------------------------
(* What a report of gains has read *)

Reads == [status : {"unread", "ok", "failed", "truncated"}, upto : Nat, seen : SUBSET Nat, qty : Int]
Queries == [pc : {"none", "ledger", "held", "done"}, tool : {"none", "gains", "summary"}, from : Nat, to : Nat, asOf : Nat,
            ledger : [Accounts -> Reads], held : [Accounts -> Reads]]

GainsTyped == date \in Nat /\ diary \in [Accounts -> Seq(Entries)] /\ query \in Queries

\* The shares of an account after its first events.
Had(a, n) == SumFunctionOnSet([i \in DOMAIN diary[a] |-> Moved(diary[a][i])], 1..n)

\* A diary is kept in the order of the days, and only what is held is sold.
DiaryHolds ==
    \A a \in Accounts :
        /\ \A i \in 1..Len(diary[a]) : diary[a][i].on <= date
        /\ \A i, j \in 1..Len(diary[a]) : i <= j => diary[a][i].on <= diary[a][j].on
        /\ \A i \in 1..Len(diary[a]) : diary[a][i].kind = "sell" => diary[a][i].qty <= Had(a, i - 1)

\* The trades of the first events that a whole ledger shows.
Shown(a, n) == {i \in 1..n : diary[a][i].kind # "receive" /\ LedgerFrom <= diary[a][i].on /\ diary[a][i].on <= query.to}

\* A ledger that was read whole shows every trade up to its read, and holdings that were
\* read are those of then.
ReadsHold ==
    \A a \in Accounts :
        /\ query.ledger[a].upto <= Len(diary[a])
        /\ query.ledger[a].status \notin {"failed", "truncated"} =>
              query.ledger[a].seen = Shown(a, query.ledger[a].upto)
        /\ query.held[a].status = "ok" =>
              query.held[a].upto <= Len(diary[a]) /\ query.held[a].qty = Had(a, query.held[a].upto)

GainsInv == GainsTyped /\ DiaryHolds /\ ReadsHold

(* What was had after an event is what was had before it and what it moved. *)
LEMMA HadIs ==
    ASSUME GainsTyped, NEW a \in Accounts
    PROVE  /\ Had(a, 0) = 0
           /\ \A n \in 0..Len(diary[a]) : Had(a, n) \in Int
           /\ \A n \in 1..Len(diary[a]) : Had(a, n) = Had(a, n - 1) + Moved(diary[a][n])
<1> DEFINE f == [i \in DOMAIN diary[a] |-> Moved(diary[a][i])]
           m == Len(diary[a])
<1>1. m \in Nat /\ DOMAIN diary[a] = 1..m /\ \A i \in 1..m : diary[a][i] \in Entries
  BY DEF GainsTyped
<1>2. \A i \in 1..m : f[i] = Moved(diary[a][i]) /\ f[i] \in Int
  BY <1>1 DEF Moved, Entries
<1>3. \A n : Had(a, n) = SumFunctionOnSet(f, 1..n)
  BY DEF Had
<1>4. 1..0 = {} /\ IsFiniteSet({})
  BY FS_EmptySet
<1> HIDE DEF f, m
<1>5. Had(a, 0) = 0
  BY <1>3, <1>4, SumChosen
<1>6. \A n \in 0..m : IsFiniteSet(1..n) /\ \A i \in 1..n : f[i] \in Int
  BY <1>1, <1>2, FS_Interval
<1>7. \A n \in 0..m : Had(a, n) \in Int
  BY <1>3, <1>6, SumTyped
<1>8. ASSUME NEW n \in 1..m PROVE Had(a, n) = Had(a, n - 1) + Moved(diary[a][n])
  <2>1. 1..n = (1..n - 1) \cup {n} /\ n \notin 1..n - 1 /\ n - 1 \in 0..m
    BY <1>1
  <2>2. SumFunctionOnSet(f, (1..n - 1) \cup {n}) = f[n] + SumFunctionOnSet(f, 1..n - 1)
    BY <1>2, <1>6, <2>1, SumAdded
  <2>3. Had(a, n) = f[n] + Had(a, n - 1)
    BY <1>3, <2>1, <2>2
  <2> DEFINE x == Had(a, n)  y == Had(a, n - 1)  z == f[n]
  <2>4. y \in Int /\ z \in Int /\ x = z + y /\ z = Moved(diary[a][n])
    BY <1>2, <1>7, <2>1, <2>3
  <2> HIDE DEF x, y, z
  <2>5. x = y + z
    BY <2>4
  <2> QED
    BY <2>4, <2>5 DEF x, y
<1> QED
  BY <1>5, <1>7, <1>8 DEF m

(* A replay goes through the events one by one. *)
LEMMA ReplayRuns ==
    ASSUME NEW a, NEW n \in Nat, NEW seen
    PROVE  \E replay : /\ replay[0] = EmptyReplay /\ replay[n] = ReplayOf(a, n, seen)
                       /\ \A i \in 1..n : replay[i] = Replayed(replay[i - 1], diary[a][i], i, seen)
<1> DEFINE Next_(r, i) == IF i = 0 THEN EmptyReplay ELSE Replayed(r[i - 1], diary[a][i], i, seen)
           Runs(r, m) == r = [i \in 0..m |-> Next_(r, i)]
           P == {m \in Nat : \E r : Runs(r, m)}
<1>1. 0 \in P
  <2> DEFINE r == [i \in 0..0 |-> EmptyReplay]
  <2>1. Runs(r, 0)
    OBVIOUS
  <2> HIDE DEF r, Runs
  <2> QED
    BY <2>1
<1>2. ASSUME NEW m \in Nat, m \in P PROVE m + 1 \in P
  <2>1. PICK r : Runs(r, m)
    BY <1>2
  <2> DEFINE s == Next_(r, m + 1)
             q == [i \in 0..m + 1 |-> IF i = m + 1 THEN s ELSE r[i]]
  <2>2. \A i \in 0..m : r[i] = Next_(r, i)
    BY <2>1
  <2>3. /\ \A i \in 0..m : q[i] = r[i]
        /\ q[m + 1] = s
    <3> HIDE DEF s
    <3> QED
      OBVIOUS
  <2>4. ASSUME NEW i \in 0..m + 1 PROVE q[i] = Next_(q, i)
    <3>1. CASE i = m + 1
      <4>1. i # 0 /\ i - 1 = m /\ q[m] = r[m]
        BY <2>3, <3>1
      <4> HIDE DEF q
      <4>2. Next_(q, i) = Next_(r, i)
        BY <4>1
      <4> QED
        BY <2>3, <3>1, <4>2
    <3>2. CASE i = 0
      <4>1. q[0] = r[0] /\ r[0] = EmptyReplay
        BY <2>2, <2>3
      <4> HIDE DEF q
      <4> QED
        BY <3>2, <4>1
    <3>3. CASE i # 0 /\ i # m + 1
      <4>1. i \in 0..m /\ i - 1 \in 0..m
        BY <3>3
      <4>2. q[i] = r[i] /\ q[i - 1] = r[i - 1] /\ r[i] = Next_(r, i)
        BY <2>2, <2>3, <4>1
      <4> HIDE DEF q
      <4> QED
        BY <4>2
    <3> QED
      BY <3>1, <3>2, <3>3
  <2>5. q = [i \in 0..m + 1 |-> q[i]]
    <3> HIDE DEF s
    <3> QED
      OBVIOUS
  <2>6. Runs(q, m + 1)
    <3> HIDE DEF q, Next_
    <3> QED
      BY <2>4, <2>5
  <2> HIDE DEF q, Runs
  <2> QED
    BY <2>6
<1>3. n \in P
  <2> HIDE DEF P
  <2> QED
    BY <1>1, <1>2, EveryNumber
<1> DEFINE replay == CHOOSE r : Runs(r, n)
<1>4. Runs(replay, n)
  <2> HIDE DEF Runs
  <2>1. \E r : Runs(r, n)
    BY <1>3
  <2> QED
    BY <2>1
<1>5. ReplayOf(a, n, seen) = replay[n]
  BY DEF ReplayOf
<1> HIDE DEF replay
<1>6. \A i \in 0..n : replay[i] = Next_(replay, i)
  BY <1>4
<1>7. replay[0] = EmptyReplay
  BY <1>6
<1>8. \A i \in 1..n : replay[i] = Replayed(replay[i - 1], diary[a][i], i, seen)
  <2> TAKE i \in 1..n
  <2>1. i \in 0..n /\ i # 0
    OBVIOUS
  <2> QED
    BY <1>6, <2>1
<1> QED
  BY <1>5, <1>7, <1>8

(* What the replay of a whole ledger has come to after each event. *)
ReplayHolds(s, a, n, seen) ==
    /\ ReplayCosts(s) /\ s.truth.qty = Had(a, n)
    /\ s.book.opening \in Nat /\ s.book.opening <= n
    /\ (\A j \in seen : j > n) => s.book.qty = 0 /\ s.sold = {}
    /\ \A row \in s.sold : /\ row.index \in seen /\ row.index <= n
                           /\ diary[a][row.index].kind = "sell" /\ row.on = diary[a][row.index].on
                           /\ ToldTruly(s, row)
    /\ \A j \in seen : j <= n /\ diary[a][j].kind = "sell" => \E row \in s.sold : row.index = j

(* An event keeps what holds of a replay. *)
LEMMA ReplayGoesOn ==
    ASSUME GainsInv, NEW a \in Accounts, NEW n \in 1..Len(diary[a]), NEW seen \in SUBSET Nat,
           \A i \in 1..n : i \in seen => diary[a][i].kind # "receive",
           n \notin seen /\ diary[a][n].kind # "receive" => \A j \in seen : j > n,
           NEW s, ReplayHolds(s, a, n - 1, seen)
    PROVE  ReplayHolds(Replayed(s, diary[a][n], n, seen), a, n, seen)
<1> DEFINE e == diary[a][n]
           u == Replayed(s, e, n, seen)
<1>1. /\ n \in Nat /\ n > 0 /\ e \in Entries /\ Had(a, n) = Had(a, n - 1) + Moved(e)
      /\ (e.kind = "sell" => e.qty <= Had(a, n - 1))
  <2>1. GainsTyped /\ diary[a] \in Seq(Entries)
    BY DEF GainsInv, GainsTyped
  <2> QED
    BY <2>1, HadIs DEF GainsInv, DiaryHolds
<1>2. /\ ReplayCosts(s) /\ s.truth.qty = Had(a, n - 1) /\ s.book.opening \in Nat /\ s.book.opening <= n - 1
      /\ (\A j \in seen : j > n - 1) => s.book.qty = 0 /\ s.sold = {}
      /\ \A row \in s.sold : /\ row.index \in seen /\ row.index <= n - 1
                             /\ diary[a][row.index].kind = "sell" /\ row.on = diary[a][row.index].on
                             /\ ToldTruly(s, row)
      /\ \A j \in seen : j <= n - 1 /\ diary[a][j].kind = "sell" => \E row \in s.sold : row.index = j
  BY DEF ReplayHolds
<1>3. \A j \in seen : j \in Nat /\ (j <= n <=> j <= n - 1 \/ j = n) /\ (j > n => j > n - 1)
  BY <1>1
<1>4. CASE n \notin seen
  <2>0. u = Unseen(s, e)
    BY <1>4 DEF Replayed
  <2>1. e.kind # "receive" => s.book.qty = 0 /\ s.sold = {}
    BY <1>2, <1>3, <1>4
  <2>2. /\ ReplayCosts(u) /\ u.truth.qty = s.truth.qty + Moved(e) /\ u.book = s.book /\ u.sold = s.sold
        /\ (e.kind = "receive" => ~Agree(u))
    BY <1>1, <1>2, <2>0, <2>1, ReplayUnseen
  <2> HIDE DEF u, e
  <2>3. \A row \in u.sold : ToldTruly(u, row)
    BY <2>1, <2>2 DEF ToldTruly
  <2>4. \A row \in u.sold : /\ row.index \in seen /\ row.index <= n
                            /\ diary[a][row.index].kind = "sell" /\ row.on = diary[a][row.index].on
    BY <1>2, <1>3, <2>2
  <2>5. \A j \in seen : j <= n /\ diary[a][j].kind = "sell" => \E row \in u.sold : row.index = j
    BY <1>2, <1>3, <1>4, <2>2
  <2>6. u.book.opening \in Nat /\ u.book.opening <= n
    BY <1>1, <1>2, <2>2
  <2>7. (\A j \in seen : j > n) => u.book.qty = 0 /\ u.sold = {}
    BY <1>2, <1>3, <2>2
  <2>8. u.truth.qty = Had(a, n)
    BY <1>1, <1>2, <2>2
  <2>9. ReplayHolds(u, a, n, seen)
    BY <2>2, <2>3, <2>4, <2>5, <2>6, <2>7, <2>8 DEF ReplayHolds
  <2> QED
    BY <2>9 DEF u, e
<1>5. CASE n \in seen /\ e.kind = "buy"
  <2>0. u = SeenBuy(s, e)
    BY <1>5 DEF Replayed
  <2>2. /\ ReplayCosts(u) /\ u.truth.qty = s.truth.qty + Moved(e) /\ u.sold = s.sold
        /\ u.book.opening = s.book.opening /\ (Agree(u) => Agree(s))
    BY <1>1, <1>2, <1>5, <2>0, ReplayBuys
  <2>e. diary[a][n].kind = "buy"
    BY <1>5
  <2> HIDE DEF u, e
  <2>3. \A row \in u.sold : ToldTruly(u, row)
    BY <1>2, <2>2 DEF ToldTruly
  <2>4. \A row \in u.sold : /\ row.index \in seen /\ row.index <= n
                            /\ diary[a][row.index].kind = "sell" /\ row.on = diary[a][row.index].on
    BY <1>2, <1>3, <2>2
  <2>5. \A j \in seen : j <= n /\ diary[a][j].kind = "sell" => \E row \in u.sold : row.index = j
    BY <1>2, <1>3, <2>e, <2>2
  <2>6. u.book.opening \in Nat /\ u.book.opening <= n
    BY <1>1, <1>2, <2>2
  <2>7. ~(\A j \in seen : j > n)
    BY <1>1, <1>5
  <2>8. u.truth.qty = Had(a, n)
    BY <1>1, <1>2, <2>2
  <2>9. ReplayHolds(u, a, n, seen)
    BY <2>2, <2>3, <2>4, <2>5, <2>6, <2>7, <2>8 DEF ReplayHolds
  <2> QED
    BY <2>9 DEF u, e
<1>6. CASE n \in seen /\ e.kind # "buy"
  <2>0. u = SeenSale(s, e, n) /\ e.kind = "sell"
    <3>1. e.kind \in {"buy", "sell", "receive"} /\ e.kind # "receive"
      BY <1>1, <1>6 DEF Entries
    <3> QED
      BY <1>6, <3>1 DEF Replayed
  <2>2. /\ ReplayCosts(u) /\ u.truth.qty = s.truth.qty + Moved(e)
        /\ Agree(u) => \/ Agree(s) /\ u.book.opening = s.book.opening
                       \/ u.book.opening = n
        /\ u.book.opening \in {s.book.opening, n}
        /\ \E row : u.sold = s.sold \cup {row} /\ row.index = n /\ row.on = e.on /\ ToldTruly(u, row)
    BY <1>1, <1>2, <2>0, ReplaySells
  <2>3. PICK new : u.sold = s.sold \cup {new} /\ new.index = n /\ new.on = e.on /\ ToldTruly(u, new)
    BY <2>2
  <2>e. diary[a][n].kind = "sell" /\ new.on = diary[a][n].on
    BY <2>0, <2>3
  <2> HIDE DEF u, e
  <2>4. \A row \in s.sold : ToldTruly(u, row)
    <3> SUFFICES ASSUME NEW row \in s.sold, row.index >= u.book.opening, Agree(u), row.matched >= row.qty, row.told
                 PROVE  TrueRow(row)
      BY DEF ToldTruly
    <3>1. row.index \in Nat /\ row.index <= n - 1
      BY <1>2
    <3>2. u.book.opening # n
      BY <1>1, <3>1
    <3> QED
      BY <1>2, <2>2, <3>2 DEF ToldTruly
  <2>5. \A row \in u.sold : /\ row.index \in seen /\ row.index <= n
                            /\ diary[a][row.index].kind = "sell" /\ row.on = diary[a][row.index].on
                            /\ ToldTruly(u, row)
    <3> TAKE row \in u.sold
    <3>1. CASE row \in s.sold
      BY <1>2, <1>3, <2>4, <3>1
    <3>2. CASE row = new
      BY <1>1, <1>6, <2>3, <2>e, <3>2
    <3> QED
      BY <2>3, <3>1, <3>2
  <2>6. \A j \in seen : j <= n /\ diary[a][j].kind = "sell" => \E row \in u.sold : row.index = j
    BY <1>2, <1>3, <2>3
  <2>7. u.book.opening \in Nat /\ u.book.opening <= n
    BY <1>1, <1>2, <2>2
  <2>8. u.truth.qty = Had(a, n) /\ ~(\A j \in seen : j > n)
    BY <1>1, <1>2, <1>6, <2>2
  <2>9. ReplayHolds(u, a, n, seen)
    BY <2>2, <2>5, <2>6, <2>7, <2>8 DEF ReplayHolds
  <2> QED
    BY <2>9 DEF u, e
<1> QED
  BY <1>4, <1>5, <1>6

-----------------------------------------------------------------------------
(* What a report of gains says *)

(* So it holds after every event. *)
LEMMA ReplayIs ==
    ASSUME GainsInv, NEW a \in Accounts, NEW n \in 0..Len(diary[a]), \A i \in 1..n : diary[a][i].on <= query.to
    PROVE  ReplayHolds(ReplayOf(a, n, Shown(a, n)), a, n, Shown(a, n))
<1> DEFINE seen == Shown(a, n)
<1>1. n \in Nat /\ GainsTyped /\ Len(diary[a]) \in Nat /\ \A i \in 1..Len(diary[a]) : diary[a][i] \in Entries
  BY DEF GainsInv, GainsTyped
<1>2. query.from \in Nat /\ query.to \in Nat /\ LedgerFrom \in Nat
  BY <1>1 DEF GainsTyped, Queries, LedgerFrom
<1>3. /\ seen \in SUBSET (1..n)
      /\ \A i \in 1..n : i \in seen <=> diary[a][i].kind # "receive" /\ LedgerFrom <= diary[a][i].on
  BY DEF Shown
<1>4. \A i \in 1..n : i \in 1..Len(diary[a]) /\ diary[a][i].on \in Nat
  BY <1>1 DEF Entries
<1>5. ASSUME NEW m \in 1..n, m \notin seen, diary[a][m].kind # "receive", NEW j \in seen PROVE j > m
  <2>1. j \in 1..n /\ LedgerFrom <= diary[a][j].on /\ ~(LedgerFrom <= diary[a][m].on)
    BY <1>3, <1>5
  <2>2. ~(diary[a][j].on <= diary[a][m].on)
    BY <1>2, <1>4, <2>1
  <2>3. j <= m => diary[a][j].on <= diary[a][m].on
    BY <1>4, <2>1 DEF GainsInv, DiaryHolds
  <2> QED
    BY <2>1, <2>2, <2>3
<1>6. seen \in SUBSET Nat
  BY <1>1, <1>3
<1> HIDE DEF seen
<1>7. PICK replay : /\ replay[0] = EmptyReplay /\ replay[n] = ReplayOf(a, n, seen)
                    /\ \A i \in 1..n : replay[i] = Replayed(replay[i - 1], diary[a][i], i, seen)
  BY <1>1, ReplayRuns
<1> DEFINE P == {m \in Nat : m <= n => ReplayHolds(replay[m], a, m, seen)}
<1>8. 0 \in P
  <2>1. Had(a, 0) = 0
    BY <1>1, HadIs
  <2>2. EmptyReplay.book.opening = 0
    BY DEF EmptyReplay
  <2>3. \A j \in seen : ~(j <= 0)
    BY <1>3
  <2> DEFINE s == EmptyReplay
  <2>4. ReplayCosts(s) /\ s.sold = {} /\ s.truth.qty = 0 /\ s.book.qty = 0 /\ s.book.opening = 0
    BY <2>2, ReplayStarts
  <2> HIDE DEF s
  <2>5. ReplayHolds(s, a, 0, seen)
    BY <2>1, <2>3, <2>4 DEF ReplayHolds
  <2> QED
    BY <1>7, <2>5 DEF s
<1>9. ASSUME NEW m \in Nat, m \in P PROVE m + 1 \in P
  <2> SUFFICES ASSUME m + 1 <= n PROVE ReplayHolds(replay[m + 1], a, m + 1, seen)
    OBVIOUS
  <2>1. m + 1 \in 1..n /\ m + 1 \in 1..Len(diary[a]) /\ (m + 1) - 1 = m /\ m <= n
    BY <1>1
  <2>2. ReplayHolds(replay[m], a, m, seen)
    BY <1>9, <2>1
  <2>3. \A i \in 1..m + 1 : i \in seen => diary[a][i].kind # "receive"
    BY <1>1, <1>3
  <2>4. m + 1 \notin seen /\ diary[a][m + 1].kind # "receive" => \A j \in seen : j > m + 1
    BY <1>5, <2>1
  <2>5. replay[m + 1] = Replayed(replay[m], diary[a][m + 1], m + 1, seen)
    BY <1>7, <2>1
  <2> DEFINE k == m + 1
             s == replay[m]
  <2>6. /\ k \in 1..Len(diary[a]) /\ ReplayHolds(s, a, k - 1, seen) /\ \A i \in 1..k : i \in seen => diary[a][i].kind # "receive"
        /\ k \notin seen /\ diary[a][k].kind # "receive" => \A j \in seen : j > k
    BY <2>1, <2>2, <2>3, <2>4
  <2> HIDE DEF k, s, P
  <2>7. ReplayHolds(Replayed(s, diary[a][k], k, seen), a, k, seen)
    BY <1>6, <2>6, ReplayGoesOn
  <2> QED
    BY <2>5, <2>7 DEF k, s
<1>10. n \in P
  <2> HIDE DEF P
  <2> QED
    BY <1>1, <1>8, <1>9, EveryNumber
<1>11. n <= n
  BY <1>1
<1> QED
  BY <1>7, <1>10, <1>11 DEF seen

(* What is told of the sales of an account. *)
LEMMA AccountTold ==
    ASSUME GainsInv, NEW a \in Accounts, Settled(a), query.ledger[a].status \notin {"failed", "truncated"},
           NEW rep, rep = ReplayOf(a, query.ledger[a].upto, query.ledger[a].seen)
    PROVE  /\ \A row \in rep.sold : WholeBasis(a, rep, row) /\ row.told => TrueRow(row)
           /\ {row.index : row \in WindowSales(rep)} = TrulySold(a)
<1> DEFINE n == query.ledger[a].upto
           seen == query.ledger[a].seen
<1>1. query \in Queries /\ Len(diary[a]) \in Nat /\ \A i \in 1..Len(diary[a]) : diary[a][i] \in Entries
  BY DEF GainsInv, GainsTyped
<1>2. n \in 0..Len(diary[a]) /\ query.from \in Nat /\ query.to \in Nat /\ LedgerFrom \in {0, query.from}
  BY <1>1 DEF GainsInv, ReadsHold, Queries, Reads, LedgerFrom
<1>3. seen = Shown(a, n) /\ query.held[a].upto = n /\ query.held[a].qty = Had(a, n) /\ Compared(a)
  BY DEF GainsInv, ReadsHold, Settled, Compared
<1>4. \A i \in 1..n : diary[a][i].on <= query.to
  BY <1>3 DEF Settled
<1>h. rep = ReplayOf(a, n, seen)
  OBVIOUS
<1> HIDE DEF n, seen
<1>5. ReplayHolds(rep, a, n, seen)
  BY <1>2, <1>3, <1>4, <1>h, ReplayIs
<1>6. ASSUME NEW row \in rep.sold, WholeBasis(a, rep, row), row.told PROVE TrueRow(row)
  <2>1. rep.book.qty = Had(a, n) /\ row.matched >= row.qty /\ row.index >= rep.book.opening
    BY <1>3, <1>6 DEF WholeBasis, Drifts
  <2>2. Agree(rep)
    BY <1>5, <2>1 DEF ReplayHolds, Agree
  <2> QED
    BY <1>5, <1>6, <2>1, <2>2 DEF ReplayHolds, ToldTruly
<1>7. \A i \in 1..n : diary[a][i].on \in Nat
  BY <1>1, <1>2 DEF Entries
<1>8. ASSUME NEW row \in WindowSales(rep) PROVE row.index \in TrulySold(a)
  <2>1. row \in rep.sold /\ InWindow(row.on)
    BY DEF WindowSales
  <2>2. row.index \in seen /\ diary[a][row.index].kind = "sell" /\ row.on = diary[a][row.index].on
    BY <1>5, <2>1 DEF ReplayHolds
  <2>3. row.index \in 1..n
    BY <1>3, <2>2 DEF Shown
  <2> QED
    BY <2>1, <2>2, <2>3 DEF TrulySold, n
<1>9. ASSUME NEW i \in TrulySold(a) PROVE \E row \in WindowSales(rep) : row.index = i
  <2>1. i \in 1..n /\ diary[a][i].kind = "sell" /\ InWindow(diary[a][i].on)
    BY DEF TrulySold, n
  <2>2. LedgerFrom <= diary[a][i].on /\ diary[a][i].on <= query.to
    BY <1>2, <1>7, <2>1 DEF InWindow
  <2>3. i \in seen /\ i <= n
    BY <1>2, <1>3, <2>1, <2>2 DEF Shown
  <2>4. PICK row \in rep.sold : row.index = i
    BY <1>5, <2>1, <2>3 DEF ReplayHolds
  <2>5. row.on = diary[a][i].on
    BY <1>5, <2>4 DEF ReplayHolds
  <2> QED
    BY <2>1, <2>4, <2>5 DEF WindowSales
<1> QED
  BY <1>6, <1>8, <1>9

(* A report whose state is as the invariant says is true. *)
LEMMA GainsMean == GainsInv => GainsTrue
<1> SUFFICES ASSUME GainsInv, NEW reps, reps = Replays
             PROVE  /\ \A a \in Accounts : Settled(a) /\ query.ledger[a].status = "ok" =>
                          \A row \in WindowSales(reps[a]) : WholeBasis(a, reps[a], row) /\ row.told => TrueRow(row)
                    /\ (\A a \in Accounts : Settled(a)) /\ CheckOf(reps) = "matched" =>
                          LET Full == \A a \in Accounts : /\ {row.index : row \in WindowSales(reps[a])} = TrulySold(a)
                                                          /\ \A row \in WindowSales(reps[a]) : TrueRow(row)
                          IN  \/ /\ TotalOf(reps, TRUE) # Unpublished /\ StatusOfTotal(reps, TRUE) = "complete"
                                 \/ ReviewTotal(reps) # Unpublished
                              => Full
                    /\ WinRatePublished(reps) =>
                          \A a \in Accounts : Settled(a) =>
                              \A c \in Wins(reps[a], Counted(a, reps[a])) : \A row \in SalesOfTrip(reps[a], c) : TrueRow(row)
  BY DEF GainsTrue
<1>1. ASSUME NEW a \in Accounts, Settled(a), query.ledger[a].status \notin {"failed", "truncated"}
      PROVE  /\ \A row \in reps[a].sold : WholeBasis(a, reps[a], row) /\ row.told => TrueRow(row)
             /\ {row.index : row \in WindowSales(reps[a])} = TrulySold(a)
  <2>1. reps[a] = ReplayOf(a, query.ledger[a].upto, query.ledger[a].seen)
    BY DEF Replays
  <2> QED
    BY <1>1, <2>1, AccountTold
<1>2. \A a \in Accounts : \A row \in WindowSales(reps[a]) : row \in reps[a].sold
  BY DEF WindowSales
<1>3. ASSUME NEW a \in Accounts, Settled(a), query.ledger[a].status = "ok",
             NEW row \in WindowSales(reps[a]), WholeBasis(a, reps[a], row), row.told
      PROVE  TrueRow(row)
  BY <1>1, <1>2, <1>3
<1>4. ASSUME \A a \in Accounts : Settled(a), TotalOf(reps, TRUE) # Unpublished, SaleReasons(reps) = {}, NEW a \in Accounts
      PROVE  /\ {row.index : row \in WindowSales(reps[a])} = TrulySold(a)
             /\ \A row \in WindowSales(reps[a]) : TrueRow(row)
  <2>1. SalesWhole(reps) /\ SourceReasons(reps, TRUE) = {}
    BY <1>4 DEF TotalOf
  <2>2. query.ledger[a].status \notin {"failed", "truncated"}
    <3>1. "failed" \notin SourceReasons(reps, TRUE) /\ "truncated" \notin SourceReasons(reps, TRUE)
      BY <2>1
    <3> QED
      BY <3>1 DEF SourceReasons
  <2>3. \A row \in WindowSales(reps[a]) : WholeBasis(a, reps[a], row)
    BY <2>1 DEF SalesWhole
  <2>4. \A row \in WindowSales(reps[a]) : row.told
    <3>1. "fees" \notin SaleReasons(reps)
      BY <1>4
    <3> QED
      BY <3>1 DEF SaleReasons
  <2> QED
    BY <1>1, <1>2, <1>4, <2>2, <2>3, <2>4
<1>5. TotalOf(reps, TRUE) # Unpublished /\ StatusOfTotal(reps, TRUE) = "complete" => SaleReasons(reps) = {}
  BY DEF StatusOfTotal
<1>6. ReviewTotal(reps) # Unpublished => TotalOf(reps, TRUE) # Unpublished /\ SaleReasons(reps) = {}
  <2> SUFFICES ASSUME ReviewTotal(reps) # Unpublished PROVE TotalOf(reps, TRUE) # Unpublished /\ SaleReasons(reps) = {}
    OBVIOUS
  <2>1. ReviewReasons(reps) = {} /\ ReviewTotal(reps) = TotalOf(reps, TRUE)
    BY DEF ReviewTotal
  <2> QED
    BY <2>1 DEF ReviewReasons
<1>7. ASSUME WinRatePublished(reps), NEW a \in Accounts, Settled(a), NEW c \in Wins(reps[a], Counted(a, reps[a])),
             NEW row \in SalesOfTrip(reps[a], c)
      PROVE  TrueRow(row)
  <2>1. query.ledger[a].status \notin {"failed", "truncated"}
    <3>1. "failed" \notin SourceReasons(reps, TRUE) /\ "truncated" \notin SourceReasons(reps, TRUE)
      BY <1>7 DEF WinRatePublished
    <3> QED
      BY <3>1 DEF SourceReasons
  <2>2. c \in Counted(a, reps[a])
    BY DEF Wins
  <2>3. WholeBasis(a, reps[a], row) /\ row.told /\ row \in reps[a].sold
    BY <2>2 DEF Counted, SalesOfTrip
  <2> QED
    BY <1>1, <1>7, <2>1, <2>3
<1> QED
  BY <1>3, <1>4, <1>5, <1>6, <1>7

-----------------------------------------------------------------------------
(* Steps of reports of gains *)

(* A query stays as it is while nothing it has read changes. *)
LEMMA ReadsKept ==
    ASSUME GainsInv, UNCHANGED query, GainsTyped',
           \A a \in Accounts : /\ Len(diary[a]) <= Len(diary'[a])
                               /\ \A i \in 1..Len(diary[a]) : diary'[a][i] = diary[a][i]
                               /\ \A n \in 0..Len(diary[a]) : Had(a, n)' = Had(a, n)
    PROVE  ReadsHold'
<1>1. query \in Queries /\ \A a \in Accounts : Len(diary[a]) \in Nat /\ Len(diary'[a]) \in Nat
  BY DEF GainsInv, GainsTyped
<1>2. LedgerFrom' = LedgerFrom
  BY DEF LedgerFrom
<1>3. ASSUME NEW a \in Accounts, NEW n \in 0..Len(diary[a]) PROVE Shown(a, n)' = Shown(a, n)
  <2>1. \A i \in 1..n : diary'[a][i] = diary[a][i]
    BY <1>1
  <2> QED
    BY <1>2, <2>1 DEF Shown
<1>4. ASSUME NEW a \in Accounts
      PROVE  /\ query.ledger[a].upto <= Len(diary[a])
             /\ query.ledger[a].upto \in 0..Len(diary[a])
             /\ query.held[a].status = "ok" => query.held[a].upto \in 0..Len(diary[a])
  BY <1>1 DEF GainsInv, ReadsHold, Queries, Reads
<1> SUFFICES ASSUME NEW a \in Accounts
             PROVE  /\ query.ledger[a].upto <= Len(diary'[a])
                    /\ query.ledger[a].status \notin {"failed", "truncated"} =>
                          query.ledger[a].seen = Shown(a, query.ledger[a].upto)'
                    /\ query.held[a].status = "ok" =>
                          query.held[a].upto <= Len(diary'[a]) /\ query.held[a].qty = Had(a, query.held[a].upto)'
  BY DEF ReadsHold
<1> DEFINE n == query.ledger[a].upto  h == query.held[a].upto
<1>5. /\ n \in 0..Len(diary[a]) /\ (query.held[a].status = "ok" => h \in 0..Len(diary[a]))
      /\ (query.ledger[a].status \notin {"failed", "truncated"} => query.ledger[a].seen = Shown(a, n))
      /\ (query.held[a].status = "ok" => query.held[a].qty = Had(a, h))
  BY <1>4 DEF GainsInv, ReadsHold
<1>6. n <= Len(diary'[a]) /\ (h \in 0..Len(diary[a]) => h <= Len(diary'[a]))
  BY <1>1, <1>5
<1>7. n' = n /\ h' = h
  OBVIOUS
<1> HIDE DEF n, h
<1>8. Shown(a, n)' = Shown(a, n)
  <2>1. \A i \in 1..n : diary'[a][i] = diary[a][i]
    BY <1>1, <1>5
  <2> QED
    BY <1>2, <1>7, <2>1 DEF Shown
<1>9. h \in 0..Len(diary[a]) => Had(a, h)' = Had(a, h)
  <2> SUFFICES ASSUME h \in 0..Len(diary[a]) PROVE Had(a, h)' = Had(a, h)
    OBVIOUS
  <2>1. \A k \in 0..Len(diary[a]) : Had(a, k)' = Had(a, k)
    OBVIOUS
  <2> QED
    BY <1>7, <2>1 DEF Had
<1> QED
  BY <1>5, <1>6, <1>8, <1>9 DEF n, h

(* Something happens in an account; what a report has read of it stays what was there. *)
LEMMA GainsHappens ==
    ASSUME GainsInv, NEW a \in Accounts, NEW kind \in {"buy", "sell", "receive"}, NEW q \in Quantities, NEW told \in BOOLEAN,
           Happens(a, kind, q, told)
    PROVE  GainsInv'
<1>m. PICK m : m = Len(diary[a])
  OBVIOUS
<1> DEFINE e == [kind |-> kind, qty |-> q, paid |-> q * Unit * (m + 1), told |-> told, on |-> date]
<1>1. /\ diary' = [diary EXCEPT ![a] = Append(@, e)] /\ UNCHANGED <<date, query>>
      /\ (kind = "sell" => q <= SharesOf(a))
  BY <1>m DEF Happens
<1>2. GainsTyped /\ date \in Nat /\ diary \in [Accounts -> Seq(Entries)] /\ query \in Queries
  BY DEF GainsInv, GainsTyped
<1>3. m \in Nat /\ e \in Entries /\ e.kind = kind /\ e.qty = q /\ e.on = date
  <2>1. m \in Nat /\ q \in Nat \ {0} /\ Unit \in Nat
    BY <1>2, <1>m, GainsAssumption, BookAssumption
  <2>2. q * Unit \in Nat
    BY <2>1
  <2>3. q * Unit * (m + 1) \in Nat
    <3> DEFINE z == q * Unit  k == m + 1
    <3>1. z \in Nat /\ k \in Nat
      BY <2>1, <2>2
    <3> HIDE DEF z, k
    <3>2. z * k \in Nat
      BY <3>1
    <3> QED
      BY <3>2 DEF z, k
  <2> QED
    BY <1>2, <2>1, <2>3 DEF Entries
<1> HIDE DEF e
<1>4. /\ diary' \in [Accounts -> Seq(Entries)] /\ diary'[a] = Append(diary[a], e)
      /\ \A b \in Accounts : b # a => diary'[b] = diary[b]
  BY <1>1, <1>2, <1>3
<1>5. GainsTyped'
  BY <1>1, <1>2, <1>4 DEF GainsTyped
<1>6. /\ Len(diary'[a]) = m + 1 /\ diary'[a][m + 1] = e
      /\ \A b \in Accounts : /\ Len(diary[b]) \in Nat /\ Len(diary'[b]) \in Nat /\ Len(diary[b]) <= Len(diary'[b])
                             /\ \A i \in 1..Len(diary[b]) : diary'[b][i] = diary[b][i]
      /\ \A b \in Accounts : b # a => Len(diary'[b]) = Len(diary[b])
  <2>1. diary[a] \in Seq(Entries)
    BY <1>2
  <2>2. /\ Len(diary'[a]) = m + 1 /\ diary'[a][m + 1] = e /\ m <= m + 1 /\ m + 1 \in Nat
        /\ \A i \in 1..m : diary'[a][i] = diary[a][i]
    BY <1>3, <1>4, <1>m, <2>1
  <2>3. \A b \in Accounts : Len(diary[b]) \in Nat
    BY <1>2
  <2>4. \A k \in Nat : k <= k
    OBVIOUS
  <2> QED
    BY <1>4, <1>m, <2>2, <2>3, <2>4
<1>7. ASSUME NEW b \in Accounts, NEW n \in 0..Len(diary[b]) PROVE Had(b, n)' = Had(b, n)
  <2> DEFINE f == [i \in DOMAIN diary[b] |-> Moved(diary[b][i])]
             g == [i \in DOMAIN diary'[b] |-> Moved(diary'[b][i])]
  <2>1. /\ DOMAIN diary[b] = 1..Len(diary[b]) /\ DOMAIN diary'[b] = 1..Len(diary'[b]) /\ n \in Nat
        /\ \A i \in 1..n : i \in 1..Len(diary[b]) /\ i \in 1..Len(diary'[b])
    BY <1>2, <1>4, <1>6
  <2>2. \A i \in 1..n : f[i] \in Int /\ f[i] = g[i]
    <3> TAKE i \in 1..n
    <3>1. diary[b][i] \in Entries /\ diary'[b][i] = diary[b][i]
      BY <1>2, <1>6, <2>1
    <3>2. Moved(diary[b][i]) \in Int
      BY <3>1 DEF Moved, Entries
    <3> QED
      BY <2>1, <3>1, <3>2
  <2>3. Had(b, n) = SumFunctionOnSet(f, 1..n) /\ Had(b, n)' = SumFunctionOnSet(g, 1..n)
    BY DEF Had, Moved
  <2>4. IsFiniteSet(1..n)
    <3>1. 1 \in Int /\ n \in Int
      BY <2>1
    <3> QED
      BY <3>1, FS_Interval
  <2> HIDE DEF f, g
  <2> QED
    BY <2>2, <2>3, <2>4, SumSame
<1>8. SharesOf(a) = Had(a, m)
  <2>1. DOMAIN diary[a] = 1..m
    BY <1>2, <1>m
  <2> DEFINE f == [i \in DOMAIN diary[a] |-> Moved(diary[a][i])]
  <2>2. SharesOf(a) = SumFunctionOnSet(f, DOMAIN f) /\ DOMAIN f = DOMAIN diary[a] /\ Had(a, m) = SumFunctionOnSet(f, 1..m)
    BY DEF SharesOf, SumFunction, Had
  <2> QED
    BY <2>1, <2>2
<1>9. DiaryHolds'
  <2> SUFFICES ASSUME NEW b \in Accounts
               PROVE  /\ \A i \in 1..Len(diary'[b]) : diary'[b][i].on <= date
                      /\ \A i, j \in 1..Len(diary'[b]) : i <= j => diary'[b][i].on <= diary'[b][j].on
                      /\ \A i \in 1..Len(diary'[b]) : diary'[b][i].kind = "sell" => diary'[b][i].qty <= Had(b, i - 1)'
    BY <1>1 DEF DiaryHolds
  <2>1. /\ \A i \in 1..Len(diary[b]) : diary[b][i].on <= date
        /\ \A i, j \in 1..Len(diary[b]) : i <= j => diary[b][i].on <= diary[b][j].on
        /\ \A i \in 1..Len(diary[b]) : diary[b][i].kind = "sell" => diary[b][i].qty <= Had(b, i - 1)
    BY DEF GainsInv, DiaryHolds
  <2>2. \A i \in 1..Len(diary[b]) : i - 1 \in 0..Len(diary[b])
    BY <1>6
  <2>3. \A i \in 1..Len(diary[b]) : diary'[b][i].kind = "sell" => diary'[b][i].qty <= Had(b, i - 1)'
    BY <1>6, <1>7, <2>1, <2>2
  <2>4. CASE b # a
    BY <1>6, <2>1, <2>3, <2>4
  <2>5. CASE b = a
    <3>1. \A i \in 1..m + 1 : i \in 1..m \/ i = m + 1
      BY <1>3
    <3>2. \A i \in 1..m + 1 : diary'[a][i].on <= date
      <4>1. date <= date
        BY <1>2
      <4> QED
        BY <1>3, <1>6, <1>m, <2>1, <2>5, <3>1, <4>1
    <3>3. \A i, j \in 1..m + 1 : i <= j => diary'[a][i].on <= diary'[a][j].on
      <4> SUFFICES ASSUME NEW i \in 1..m + 1, NEW j \in 1..m + 1, i <= j PROVE diary'[a][i].on <= diary'[a][j].on
        OBVIOUS
      <4>1. CASE j = m + 1
        BY <1>3, <1>6, <3>2, <4>1
      <4>2. CASE j \in 1..m
        <5>1. i \in 1..m
          BY <1>3, <4>2
        <5> QED
          BY <1>6, <1>m, <2>1, <2>5, <4>2, <5>1
      <4> QED
        BY <3>1, <4>1, <4>2
    <3>4. kind = "sell" => q <= Had(a, m)'
      <4>1. m \in 0..Len(diary[a])
        BY <1>3, <1>m
      <4>2. \A n \in 0..Len(diary[a]) : Had(a, n)' = Had(a, n)
        BY <1>7
      <4>3. Had(a, m)' = Had(a, m)
        BY <4>1, <4>2
      <4> QED
        BY <1>1, <1>8, <4>3
    <3>5. \A i \in 1..m + 1 : diary'[a][i].kind = "sell" => diary'[a][i].qty <= Had(a, i - 1)'
      <4> TAKE i \in 1..m + 1
      <4>1. CASE i = m + 1
        <5>1. i - 1 = m
          BY <1>3, <4>1
        <5> QED
          BY <1>3, <1>6, <3>4, <4>1, <5>1
      <4>2. CASE i \in 1..m
        BY <1>m, <2>3, <2>5, <4>2
      <4> QED
        BY <3>1, <4>1, <4>2
    <3> QED
      BY <1>6, <2>5, <3>2, <3>3, <3>5
  <2> QED
    BY <2>4, <2>5
<1>10. ReadsHold'
  BY <1>1, <1>5, <1>6, <1>7, ReadsKept
<1> QED
  BY <1>5, <1>9, <1>10 DEF GainsInv

(* Nothing has happened and nothing is asked. *)
LEMMA GainsStarts == ASSUME GainsInit PROVE GainsInv
<1>1. date = 0 /\ diary = [a \in Accounts |-> <<>>] /\ query = NoQuery
  BY DEF GainsInit
<1>2. Unread \in Reads /\ NoQuery \in Queries
  BY DEF Unread, Reads, NoQuery, Queries
<1>3. GainsTyped
  BY <1>1, <1>2 DEF GainsTyped
<1>4. \A a \in Accounts : diary[a] = <<>> /\ Len(diary[a]) = 0 /\ 1..Len(diary[a]) = {}
  BY <1>1
<1>5. DiaryHolds
  BY <1>4 DEF DiaryHolds
<1>6. \A a \in Accounts : query.ledger[a] = Unread /\ query.held[a] = Unread
  BY <1>1 DEF NoQuery
<1>7. \A a : Shown(a, 0) = {}
  <2>1. 1..0 = {}
    OBVIOUS
  <2> QED
    BY <2>1 DEF Shown
<1>8. ReadsHold
  <2> SUFFICES ASSUME NEW a \in Accounts
               PROVE  /\ query.ledger[a].upto <= Len(diary[a])
                      /\ query.ledger[a].seen = Shown(a, query.ledger[a].upto)
                      /\ query.held[a].status # "ok"
    BY DEF ReadsHold
  <2>1. query.ledger[a].upto = 0 /\ query.ledger[a].seen = {} /\ query.held[a].status # "ok"
    BY <1>6 DEF Unread
  <2> QED
    BY <1>4, <1>7, <2>1
<1> QED
  BY <1>3, <1>5, <1>8 DEF GainsInv

(* While the diary stays as it is, so does what was had. *)
LEMMA DiaryKept ==
    ASSUME GainsInv, UNCHANGED diary, date' \in Nat, date <= date'
    PROVE  DiaryHolds' /\ \A a : \A n \in Nat : Had(a, n)' = Had(a, n)
<1>1. \A a : \A n \in Nat : Had(a, n)' = Had(a, n)
  BY DEF Had, Moved
<1>2. \A a \in Accounts : \A i \in 1..Len(diary[a]) : diary[a][i].on \in Nat /\ diary[a][i].on <= date
  <2> TAKE a \in Accounts
  <2>1. \A i \in 1..Len(diary[a]) : diary[a][i] \in Entries
    BY DEF GainsInv, GainsTyped
  <2>2. \A i \in 1..Len(diary[a]) : diary[a][i].on \in Nat
    BY <2>1 DEF Entries
  <2> QED
    BY <2>2 DEF GainsInv, DiaryHolds
<1>3. date \in Nat
  BY DEF GainsInv, GainsTyped
<1>4. \A a \in Accounts : \A i \in 1..Len(diary[a]) : diary[a][i].on <= date'
  BY <1>2, <1>3
<1>5. \A a \in Accounts : \A i \in 1..Len(diary[a]) : Had(a, i - 1)' = Had(a, i - 1)
  BY DEF Had, Moved
<1> QED
  BY <1>1, <1>4, <1>5 DEF GainsInv, DiaryHolds

(* A day ends. *)
LEMMA GainsNextDate == ASSUME GainsInv, NextDate PROVE GainsInv'
<1>1. date' = date + 1 /\ UNCHANGED <<diary, query>> /\ date \in Nat
  BY DEF NextDate, GainsInv, GainsTyped
<1>2. GainsTyped'
  BY <1>1 DEF GainsInv, GainsTyped
<1>3. date' \in Nat /\ date <= date'
  BY <1>1
<1>4. DiaryHolds' /\ \A a : \A n \in Nat : Had(a, n)' = Had(a, n)
  BY <1>1, <1>3, DiaryKept
<1>5. \A a \in Accounts : /\ Len(diary[a]) <= Len(diary'[a])
                          /\ \A i \in 1..Len(diary[a]) : diary'[a][i] = diary[a][i]
  <2>1. \A a \in Accounts : Len(diary[a]) \in Nat /\ diary' = diary
    BY <1>1 DEF GainsInv, GainsTyped
  <2>2. \A k \in Nat : k <= k
    OBVIOUS
  <2> QED
    BY <2>1, <2>2
<1>6. ReadsHold'
  <2>1. ASSUME NEW a \in Accounts, NEW n \in 0..Len(diary[a]) PROVE Had(a, n)' = Had(a, n)
    <3>1. diary' = diary
      BY <1>1
    <3> QED
      BY <3>1 DEF Had, Moved
  <2> QED
    BY <1>1, <1>2, <1>5, <2>1, ReadsKept
<1> QED
  BY <1>2, <1>4, <1>6 DEF GainsInv

(* A report is asked for. *)
LEMMA GainsAsks ==
    ASSUME GainsInv, NEW tool \in {"gains", "summary"}, NEW from \in 0..LastDate, NEW to \in 0..LastDate, Ask(tool, from, to)
    PROVE  GainsInv'
<1> DEFINE pc_ == IF tool = "summary" THEN "held" ELSE "ledger"
<1>1. /\ UNCHANGED <<date, diary>> /\ pc_ \in {"held", "ledger"}
      /\ query' = [NoQuery EXCEPT !.pc = pc_, !.tool = tool, !.from = from, !.to = to, !.asOf = date]
  BY DEF Ask
<1>2. date \in Nat /\ from \in Nat /\ to \in Nat /\ date <= date
  BY GainsAssumption DEF GainsInv, GainsTyped
<1>3. query' = [pc |-> pc_, tool |-> tool, from |-> from, to |-> to, asOf |-> date,
                ledger |-> [a \in Accounts |-> Unread], held |-> [a \in Accounts |-> Unread]]
  BY <1>1 DEF NoQuery
<1>4. Unread \in Reads
  BY DEF Unread, Reads
<1>5. query' \in Queries
  <2> HIDE DEF pc_
  <2> QED
    BY <1>1, <1>2, <1>3, <1>4 DEF Queries
<1>6. GainsTyped' /\ DiaryHolds'
  BY <1>1, <1>2, <1>5, DiaryKept DEF GainsInv, GainsTyped
<1>7. \A a \in Accounts : query'.ledger[a] = Unread /\ query'.held[a] = Unread
  BY <1>3
<1>8. \A a : Shown(a, 0)' = {}
  <2>1. 1..0 = {}
    OBVIOUS
  <2> QED
    BY <2>1 DEF Shown
<1>9. \A a \in Accounts : Len(diary'[a]) \in Nat
  BY <1>6 DEF GainsTyped
<1>10. ReadsHold'
  <2> SUFFICES ASSUME NEW a \in Accounts
               PROVE  /\ query'.ledger[a].upto <= Len(diary'[a])
                      /\ query'.ledger[a].status \notin {"failed", "truncated"} =>
                            query'.ledger[a].seen = Shown(a, query.ledger[a].upto)'
                      /\ query'.held[a].status # "ok"
    BY DEF ReadsHold
  <2>1. query'.ledger[a].upto = 0 /\ query'.ledger[a].seen = {} /\ query'.held[a].status # "ok"
    BY <1>7 DEF Unread
  <2>2. Shown(a, query.ledger[a].upto)' = {}
    <3>1. PICK n : n = query'.ledger[a].upto
      OBVIOUS
    <3>2. Shown(a, query.ledger[a].upto)' = Shown(a, n)'
      BY <3>1 DEF Shown
    <3>3. n = 0
      BY <2>1, <3>1
    <3> QED
      BY <1>8, <3>2, <3>3
  <2> QED
    BY <1>9, <2>1, <2>2
<1> QED
  BY <1>6, <1>10 DEF GainsInv

(* A read makes one account known as it is now. *)
LEMMA ReadMade ==
    ASSUME GainsInv, UNCHANGED <<date, diary>>, query' \in Queries,
           query'.tool = query.tool, query'.from = query.from, query'.to = query.to,
           \A a \in Accounts :
               /\ \/ query'.ledger[a] = query.ledger[a]
                  \/ /\ query'.ledger[a].upto = Len(diary[a])
                     /\ \/ query'.ledger[a].status \in {"failed", "truncated"}
                        \/ query'.ledger[a].seen = Shown(a, Len(diary[a]))
               /\ \/ query'.held[a] = query.held[a]
                  \/ /\ query'.held[a].upto = Len(diary[a])
                     /\ query'.held[a].status = "ok" => query'.held[a].qty = Had(a, Len(diary[a]))
    PROVE  GainsInv'
<1>1. date \in Nat /\ date <= date /\ \A a \in Accounts : Len(diary[a]) \in Nat /\ Len(diary[a]) <= Len(diary[a])
  BY DEF GainsInv, GainsTyped
<1>2. GainsTyped' /\ DiaryHolds'
  BY <1>1, DiaryKept DEF GainsInv, GainsTyped
<1>3. ReadsHold'
  <2> SUFFICES ASSUME NEW a \in Accounts
               PROVE  /\ query'.ledger[a].upto <= Len(diary'[a])
                      /\ query'.ledger[a].status \notin {"failed", "truncated"} =>
                            query'.ledger[a].seen = Shown(a, query.ledger[a].upto)'
                      /\ query'.held[a].status = "ok" =>
                            query'.held[a].upto <= Len(diary'[a]) /\ query'.held[a].qty = Had(a, query.held[a].upto)'
    BY DEF ReadsHold
  <2>1. PICK n, h : n = query'.ledger[a].upto /\ h = query'.held[a].upto
    OBVIOUS
  <2>2. Shown(a, query.ledger[a].upto)' = Shown(a, n)
    BY <2>1 DEF Shown, LedgerFrom
  <2>3. Had(a, query.held[a].upto)' = Had(a, h)
    BY <2>1 DEF Had, Moved
  <2>4. /\ query.ledger[a].upto <= Len(diary[a])
        /\ query.ledger[a].status \notin {"failed", "truncated"} => query.ledger[a].seen = Shown(a, query.ledger[a].upto)
        /\ query.held[a].status = "ok" =>
              query.held[a].upto <= Len(diary[a]) /\ query.held[a].qty = Had(a, query.held[a].upto)
    BY DEF GainsInv, ReadsHold
  <2>5. diary' = diary
    OBVIOUS
  <2> QED
    BY <1>1, <2>1, <2>2, <2>3, <2>4, <2>5
<1> QED
  BY <1>2, <1>3 DEF GainsInv

(* The ledger of an account is read, whole, cut or not at all. *)
LEMMA GainsReadsLedger == ASSUME GainsInv, ReadLedger PROVE GainsInv'
<1> DEFINE a == Roster[NextUnread(query.ledger)]
           all == {i \in DOMAIN diary[a] : /\ diary[a][i].kind # "receive"
                                           /\ diary[a][i].on \in LedgerFrom..query.to}
           next == IF ~LastUnread(query.ledger) THEN "ledger" ELSE IF query.tool = "summary" THEN "done" ELSE "held"
           as_ == IF next = "held" THEN date ELSE query.asOf
           got(status, cut) == [status |-> status, upto |-> Len(diary[a]), qty |-> 0,
                                seen |-> IF status = "failed" THEN {} ELSE {i \in all : i > cut}]
<1>1. PICK status \in {"ok", "failed", "truncated"} : \E cut \in IF status = "truncated" THEN all ELSE {0} :
          query' = [query EXCEPT !.pc = next, !.ledger[a] = got(status, cut),
                                 !.asOf = IF next = "held" THEN date ELSE @]
  BY Zenon DEF ReadLedger
<1>2. PICK cut \in IF status = "truncated" THEN all ELSE {0} :
          query' = [query EXCEPT !.pc = next, !.ledger[a] = got(status, cut),
                                 !.asOf = IF next = "held" THEN date ELSE @]
  BY <1>1
<1>3. UNCHANGED <<date, diary>>
  BY DEF ReadLedger
<1>4. next \in {"ledger", "done", "held"} /\ as_ \in Nat /\ query \in Queries
  BY DEF GainsInv, GainsTyped, Queries
<1>5. /\ DOMAIN query.ledger = Accounts /\ query.ledger \in [Accounts -> Reads]
      /\ query = [pc |-> query.pc, tool |-> query.tool, from |-> query.from, to |-> query.to, asOf |-> query.asOf,
                  ledger |-> query.ledger, held |-> query.held]
  BY <1>4 DEF Queries
<1> DEFINE read == [query.ledger EXCEPT ![a] = got(status, cut)]
<1>6. query' = [pc |-> next, tool |-> query.tool, from |-> query.from, to |-> query.to, asOf |-> as_,
                ledger |-> read, held |-> query.held]
  <2>1. query' = [query EXCEPT !.pc = next, !.ledger = read, !.asOf = as_]
    <3> HIDE DEF next, a, got
    <3> QED
      BY <1>2, <1>5
  <2> HIDE DEF next, read, as_
  <2> QED
    BY <1>5, <2>1
<1>7. ASSUME a \in Accounts
      PROVE  /\ got(status, cut) \in Reads /\ got(status, cut).upto = Len(diary[a])
             /\ \/ got(status, cut).status \in {"failed", "truncated"}
                \/ got(status, cut).seen = Shown(a, Len(diary[a]))
  <2>1. diary[a] \in Seq(Entries) /\ query.to \in Nat /\ LedgerFrom \in Nat
    BY <1>4, <1>7 DEF GainsInv, GainsTyped, Queries, LedgerFrom
  <2>2. PICK x : x = a
    OBVIOUS
  <2>3. PICK k : k = Len(diary[x])
    OBVIOUS
  <2>4. k \in Nat /\ DOMAIN diary[x] = 1..k /\ \A i \in 1..k : diary[x][i].on \in Nat
    <3>1. diary[x] \in Seq(Entries)
      BY <2>1, <2>2
    <3>2. k \in Nat /\ DOMAIN diary[x] = 1..k /\ \A i \in 1..k : diary[x][i] \in Entries
      BY <2>3, <3>1
    <3> QED
      BY <3>2 DEF Entries
  <2>5. all \in SUBSET (1..k)
    BY <2>2, <2>4
  <2>6. {i \in all : i > 0} = Shown(x, k)
    BY <2>1, <2>2, <2>4 DEF Shown
  <2>7. status = "ok" => cut = 0
    BY <1>2
  <2>8. {i \in all : i > cut} \in SUBSET Nat
    <3>1. all \subseteq 1..k /\ 1..k \subseteq Nat
      BY <2>4, <2>5
    <3> HIDE DEF all
    <3> QED
      BY <3>1
  <2> HIDE DEF all, a
  <2>9. got(status, cut).upto = k /\ got(status, cut).status = status /\ got(status, cut) \in Reads
    BY <2>2, <2>3, <2>4, <2>8 DEF Reads
  <2>10. status = "ok" => got(status, cut).seen = Shown(x, k)
    BY <2>6, <2>7
  <2> QED
    BY <2>2, <2>3, <2>9, <2>10
<1> HIDE DEF a, got, next, as_
<1>8. read \in [Accounts -> Reads] /\ \A b \in Accounts : read[b] = IF b = a THEN got(status, cut) ELSE query.ledger[b]
  BY <1>5, <1>7
<1> HIDE DEF read
<1>9. query' \in Queries
  BY <1>4, <1>6, <1>8 DEF Queries
<1>10. /\ query'.tool = query.tool /\ query'.from = query.from /\ query'.to = query.to
       /\ query'.ledger = read /\ query'.held = query.held
  BY <1>6
<1>11. ASSUME NEW b \in Accounts
       PROVE  /\ \/ query'.ledger[b] = query.ledger[b]
                 \/ /\ query'.ledger[b].upto = Len(diary[b])
                    /\ \/ query'.ledger[b].status \in {"failed", "truncated"}
                       \/ query'.ledger[b].seen = Shown(b, Len(diary[b]))
              /\ query'.held[b] = query.held[b]
  BY <1>7, <1>8, <1>10
<1> QED
  BY <1>3, <1>9, <1>10, <1>11, ReadMade

(* The holdings of an account are read, or not. *)
LEMMA GainsReadsHeld == ASSUME GainsInv, ReadHeld PROVE GainsInv'
<1> DEFINE a == Roster[NextUnread(query.held)]
           next == IF ~LastUnread(query.held) THEN "held" ELSE IF query.tool = "summary" THEN "ledger" ELSE "done"
           got(status) == [status |-> status, upto |-> Len(diary[a]), seen |-> {},
                           qty |-> IF status = "ok" THEN SharesOf(a) ELSE 0]
<1>1. PICK status \in {"ok", "failed"} : query' = [query EXCEPT !.pc = next, !.held[a] = got(status)]
  BY Zenon DEF ReadHeld
<1>2. UNCHANGED <<date, diary>>
  BY DEF ReadHeld
<1>3. next \in {"ledger", "done", "held"} /\ query \in Queries
  BY DEF GainsInv, GainsTyped
<1>4. /\ DOMAIN query.held = Accounts /\ query.held \in [Accounts -> Reads]
      /\ query = [pc |-> query.pc, tool |-> query.tool, from |-> query.from, to |-> query.to, asOf |-> query.asOf,
                  ledger |-> query.ledger, held |-> query.held]
  BY <1>3 DEF Queries
<1> DEFINE read == [query.held EXCEPT ![a] = got(status)]
<1>5. query' = [pc |-> next, tool |-> query.tool, from |-> query.from, to |-> query.to, asOf |-> query.asOf,
                ledger |-> query.ledger, held |-> read]
  <2>1. query' = [query EXCEPT !.pc = next, !.held = read]
    <3> HIDE DEF next, a, got
    <3> QED
      BY <1>1, <1>4
  <2> HIDE DEF next, read
  <2> QED
    BY <1>4, <2>1
<1>6. ASSUME a \in Accounts
      PROVE  /\ got(status) \in Reads /\ got(status).upto = Len(diary[a])
             /\ got(status).status = "ok" => got(status).qty = Had(a, Len(diary[a]))
  <2>1. GainsTyped
    BY DEF GainsInv
  <2>2. DOMAIN diary[a] = 1..Len(diary[a]) /\ Len(diary[a]) \in Nat
    BY <1>6, <2>1 DEF GainsTyped
  <2>3. PICK x : x = a
    OBVIOUS
  <2> HIDE DEF a
  <2> DEFINE f == [i \in DOMAIN diary[x] |-> Moved(diary[x][i])]
  <2>4. /\ SharesOf(x) = SumFunctionOnSet(f, DOMAIN f) /\ DOMAIN f = DOMAIN diary[x]
        /\ Had(x, Len(diary[x])) = SumFunctionOnSet(f, 1..Len(diary[x]))
    BY DEF SharesOf, SumFunction, Had
  <2>5. SharesOf(x) = Had(x, Len(diary[x]))
    BY <2>2, <2>3, <2>4
  <2>6. Len(diary[x]) \in 0..Len(diary[x])
    BY <2>2, <2>3
  <2>7. Had(x, Len(diary[x])) \in Int
    BY <1>6, <2>1, <2>3, <2>6, HadIs
  <2> QED
    BY <2>2, <2>3, <2>5, <2>7 DEF Reads
<1> HIDE DEF a, got, next
<1>7. read \in [Accounts -> Reads] /\ \A b \in Accounts : read[b] = IF b = a THEN got(status) ELSE query.held[b]
  BY <1>4, <1>6
<1> HIDE DEF read
<1>8. query' \in Queries
  BY <1>3, <1>5, <1>7 DEF Queries
<1>9. /\ query'.tool = query.tool /\ query'.from = query.from /\ query'.to = query.to
      /\ query'.ledger = query.ledger /\ query'.held = read
  BY <1>5
<1>10. ASSUME NEW b \in Accounts
       PROVE  /\ query'.ledger[b] = query.ledger[b]
              /\ \/ query'.held[b] = query.held[b]
                 \/ /\ query'.held[b].upto = Len(diary[b])
                    /\ query'.held[b].status = "ok" => query'.held[b].qty = Had(b, Len(diary[b]))
  BY <1>6, <1>7, <1>9
<1> QED
  BY <1>2, <1>8, <1>9, <1>10, ReadMade

(* Every step keeps the invariant. *)
LEMMA GainsSteps == ASSUME GainsInv, [GainsNext]_gainVars PROVE GainsInv'
<1>1. CASE GainsNext
  <2>1. ASSUME NEW a \in Accounts, NEW kind \in {"buy", "sell", "receive"}, NEW q \in Quantities, NEW told \in BOOLEAN,
               Happens(a, kind, q, told)
        PROVE  GainsInv'
    BY <2>1, GainsHappens
  <2>2. CASE NextDate
    BY <2>2, GainsNextDate
  <2>3. ASSUME NEW tool \in {"gains", "summary"}, NEW from \in 0..LastDate, NEW to \in 0..LastDate, Ask(tool, from, to)
        PROVE  GainsInv'
    BY <2>3, GainsAsks
  <2>4. CASE ReadLedger
    BY <2>4, GainsReadsLedger
  <2>5. CASE ReadHeld
    BY <2>5, GainsReadsHeld
  <2> QED
    BY <1>1, <2>1, <2>2, <2>3, <2>4, <2>5 DEF GainsNext
<1>2. CASE UNCHANGED gainVars
  <2>1. UNCHANGED <<date, diary, query>>
    BY <1>2 DEF gainVars
  <2>2. \A a \in Accounts : /\ query'.ledger[a] = query.ledger[a] /\ query'.held[a] = query.held[a]
    BY <2>1
  <2>3. query' \in Queries /\ query'.tool = query.tool /\ query'.from = query.from /\ query'.to = query.to
    BY <2>1 DEF GainsInv, GainsTyped
  <2> QED
    BY <2>1, <2>2, <2>3, ReadMade
<1> QED
  BY <1>1, <1>2

-----------------------------------------------------------------------------
(* The theorem on gains *)

(* For any number of accounts and of events in them: what get_realized_pnl,  *)
(* get_trade_review and the portfolio summary publish as gained was gained,  *)
(* whatever was received unseen, went untold, failed, was cut or happened    *)
(* between two reads (the replay and reconcile_collections).                 *)
THEOREM GainsAreTrue == GainsSpec => []GainsTrue
<1>1. GainsInit => GainsInv
  BY GainsStarts
<1>2. GainsInv /\ [GainsNext]_gainVars => GainsInv'
  BY GainsSteps
<1>3. GainsInv => GainsTrue
  BY GainsMean
<1> QED
  BY <1>1, <1>2, <1>3, PTL DEF GainsSpec

===============================================================================
