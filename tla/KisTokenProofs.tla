---------------------------- MODULE KisTokenProofs ----------------------------
(***************************************************************************)
(* Proofs about KisToken.  What a client may hold in memory needs no lock; *)
(* that a live token is in the cache or about to be written there does,    *)
(* for between the reading of the cache and the end of the saving nobody   *)
(* else may read it or ask KIS.                                            *)
(***************************************************************************)
EXTENDS KisToken, TLAPS

Live == (accepted \intersect timely) \ lost

\* A client holds only what KIS issued, never what it last saw refused, and
\* what was refused stays refused.
MemoryInv ==
    /\ \A c \in Clients : token[c] \in issued \union {None}
    /\ \A c \in Clients : rejected[c] \in (issued \ accepted) \union {None}
    /\ \A c \in Clients : token[c] # None => token[c] # rejected[c]
    /\ \A c \in Clients : pc[c] \in {"save", "send"} => token[c] # None
    /\ file \in issued \union {None, Torn, Foreign}

LockInv == \A c \in Clients : pc[c] \in Locked <=> lock = c

\* A live token is cached, or the holder of the lock is about to cache it.
CacheInv ==
    /\ \A t \in Live : file = t \/ \E c \in Clients : pc[c] = "save" /\ token[c] = t
    /\ \A c \in Clients : pc[c] = "issue" => Live = {}
    /\ \A c \in Clients : pc[c] = "save" => Live \subseteq {token[c]}
    /\ \A c \in Clients : pc[c] = "unlink" => file \in {None, Torn, rejected[c]}

-----------------------------------------------------------------------------
(* Every step keeps the state well typed (the whole of kis_api.py's token handling). *)
LEMMA TypeStep ==
    ASSUME TypeOK, MemoryInv, [Next]_vars PROVE TypeOK'
<1> USE SentinelAssumption, ResendsAssumption
<1>1. ASSUME NEW c \in Clients, Begin(c) PROVE TypeOK'
  BY <1>1 DEF TypeOK, Steps, Locked, Begin, Goto, memory, server
<1>2. ASSUME NEW c \in Clients, Acquire(c) PROVE TypeOK'
  BY <1>2 DEF TypeOK, Steps, Locked, Acquire, Goto, memory, server
<1>3. ASSUME NEW c \in Clients, Check(c) PROVE TypeOK'
  BY <1>3 DEF TypeOK, Steps, Locked, Check, Goto, memory, server
<1>4. ASSUME NEW c \in Clients, Load(c) PROVE TypeOK'
  BY <1>4 DEF TypeOK, Steps, Locked, Load, Goto, Unlock, TakeCached, Loadable, memory, server
<1>5. ASSUME NEW c \in Clients, LoadFails(c) PROVE TypeOK'
  BY <1>5 DEF TypeOK, Steps, Locked, LoadFails, Goto, memory, server
<1>6. ASSUME NEW c \in Clients, IssueFails(c) PROVE TypeOK'
  BY <1>6 DEF TypeOK, Steps, Locked, IssueFails, End, Goto, Unlock, memory, server
<1>7. ASSUME NEW c \in Clients, Save(c) PROVE TypeOK'
  BY <1>7 DEF TypeOK, Steps, Locked, Save, Goto, Unlock, memory, server
<1>8. ASSUME NEW c \in Clients, SaveFails(c) PROVE TypeOK'
  BY <1>8 DEF TypeOK, MemoryInv, Steps, Locked, SaveFails, Goto, Unlock, memory, server
<1>9. ASSUME NEW c \in Clients, Answer(c) PROVE TypeOK'
  BY <1>9 DEF TypeOK, Steps, Locked, Answer, End, Goto, memory, server
<1>10. ASSUME NEW c \in Clients, RateLimit(c) PROVE TypeOK'
  BY <1>10 DEF TypeOK, Steps, Locked, RateLimit, Goto, MayResend, memory, server
<1>11. ASSUME NEW c \in Clients, Refuse(c) PROVE TypeOK'
  BY <1>11 DEF TypeOK, Steps, Locked, Refuse, Goto, memory, server
<1>12. ASSUME NEW c \in Clients, Read(c) PROVE TypeOK'
  BY <1>12 DEF TypeOK, Steps, Locked, Read, Goto, Anothers, memory, server
<1>13. ASSUME NEW c \in Clients, ReadFails(c) PROVE TypeOK'
  BY <1>13 DEF TypeOK, Steps, Locked, ReadFails, Goto, Unlock, memory, server
<1>14. ASSUME NEW c \in Clients, Adopt(c) PROVE TypeOK'
  BY <1>14 DEF TypeOK, Steps, Locked, Adopt, Goto, Unlock, TakeCached, Loadable, memory, server
<1>15. ASSUME NEW c \in Clients, Unlink(c) PROVE TypeOK'
  BY <1>15 DEF TypeOK, Steps, Locked, Unlink, Goto, Unlock, memory, server
<1>16. ASSUME NEW c \in Clients, NEW t \in Tokens, Issue(c, t) PROVE TypeOK'
  BY <1>16 DEF TypeOK, Steps, Locked, Issue, Goto
<1>17. ASSUME NEW p \in Processes, Crash(p) PROVE TypeOK'
  <2>1. pc' \in [Clients -> Steps] /\ retried' \in [Clients -> BOOLEAN]
        /\ token' \in [Clients -> Tokens \union {None}] /\ known' \in [Clients -> BOOLEAN]
        /\ rejected' \in [Clients -> Tokens \union {None}]
    BY <1>17 DEF TypeOK, Steps, Locked, Crash
  <2>2. resends' \in [Clients -> 0..MaxResends]
    BY <1>17 DEF TypeOK, Crash
  <2>3. lock' \in Clients \union {None} /\ file' \in Tokens \union {None, Torn, Foreign}
    BY <1>17 DEF TypeOK, Crash
  <2>4. lost' \subseteq Tokens
    <3>1. \A c \in Clients : pc[c] = "save" => token[c] \in Tokens
      BY DEF TypeOK, MemoryInv
    <3> QED
      BY <1>17, <3>1 DEF TypeOK, Crash
  <2> QED
    BY <1>17, <2>1, <2>2, <2>3, <2>4 DEF TypeOK, Crash, server
<1>18. ASSUME NEW t \in Tokens, Age(t) \/ Revoke(t) PROVE TypeOK'
  BY <1>18 DEF TypeOK, Age, Revoke, request, memory
<1>19. CASE UNCHANGED vars
  BY <1>19 DEF TypeOK, vars, request, memory, server
<1>20. timely \subseteq Tokens /\ accepted \subseteq Tokens
  BY DEF TypeOK
<1> QED
  BY <1>1, <1>2, <1>3, <1>4, <1>5, <1>6, <1>7, <1>8, <1>9, <1>10, <1>11, <1>12, <1>13, <1>14, <1>15, <1>16, <1>17, <1>18, <1>19, <1>20 DEF Next, Step

(* A client holds only issued tokens and not the one it last saw refused. *)
LEMMA MemoryStep ==
    ASSUME TypeOK, MemoryInv, [Next]_vars PROVE MemoryInv'
<1> USE SentinelAssumption DEF TypeOK, MemoryInv
<1>1. ASSUME NEW c \in Clients, Begin(c) \/ Acquire(c) \/ Check(c) \/ Read(c) \/ ReadFails(c)
      PROVE MemoryInv'
  <2>1. UNCHANGED <<memory, server, file>>
    BY <1>1 DEF Begin, Acquire, Check, Read, ReadFails
  <2>2. \A d \in Clients : pc'[d] \in {"save", "send"} => pc[d] = pc'[d] \/ token[d] # None
    <3>1. CASE Acquire(c)
      BY <3>1 DEF Acquire, Goto
    <3>2. CASE Check(c)
      BY <3>2 DEF Check, Ready, Goto
    <3>3. CASE Read(c)
      BY <3>3 DEF Read, Goto
    <3>4. CASE Begin(c) \/ ReadFails(c)
      BY <3>4 DEF Begin, ReadFails, Goto
    <3> QED
      BY <1>1, <3>1, <3>2, <3>3, <3>4
  <2> QED
    BY <2>1, <2>2 DEF memory, server
<1>2. ASSUME NEW c \in Clients, Load(c) PROVE MemoryInv'
  BY <1>2 DEF Load, Loadable, TakeCached, Goto, memory, server
<1>3. ASSUME NEW c \in Clients, Adopt(c) PROVE MemoryInv'
  BY <1>3 DEF Adopt, Loadable, TakeCached, Goto, memory, server
<1>4. ASSUME NEW c \in Clients, NEW t \in Tokens, Issue(c, t) PROVE MemoryInv'
  BY <1>4 DEF Issue, Goto
<1>5. ASSUME NEW c \in Clients, LoadFails(c) \/ IssueFails(c) \/ Answer(c) \/ RateLimit(c)
      PROVE MemoryInv'
  BY <1>5 DEF LoadFails, IssueFails, Answer, RateLimit, End, Goto, memory, server
<1>6. ASSUME NEW c \in Clients, Save(c) \/ SaveFails(c) PROVE MemoryInv'
  BY <1>6 DEF Save, SaveFails, Goto, memory, server
<1>7. ASSUME NEW c \in Clients, Refuse(c) PROVE MemoryInv'
  BY <1>7 DEF Refuse, Goto, server
<1>8. ASSUME NEW c \in Clients, Unlink(c) PROVE MemoryInv'
  BY <1>8 DEF Unlink, Goto, memory, server
<1>9. ASSUME NEW p \in Processes, Crash(p) PROVE MemoryInv'
  BY <1>9 DEF Crash, server
<1>10. ASSUME NEW t \in Tokens, Age(t) \/ Revoke(t) PROVE MemoryInv'
  BY <1>10 DEF Age, Revoke, request, memory
<1>11. CASE UNCHANGED vars
  BY <1>11 DEF vars, request, memory, server
<1>12. timely \subseteq Tokens /\ accepted \subseteq Tokens
  OBVIOUS
<1> QED
  BY <1>1, <1>2, <1>3, <1>4, <1>5, <1>6, <1>7, <1>8, <1>9, <1>10, <1>11, <1>12
  DEF Next, Step

LEMMA Typed == Spec => [](TypeOK /\ MemoryInv)
<1>1. Init => TypeOK /\ MemoryInv
  BY SentinelAssumption, ResendsAssumption DEF Init, TypeOK, MemoryInv, Steps, Locked
<1>2. TypeOK /\ MemoryInv /\ [Next]_vars => (TypeOK /\ MemoryInv)'
  BY TypeStep, MemoryStep
<1> QED
  BY <1>1, <1>2, PTL DEF Spec

(* The state of every run is well typed. *)
THEOREM KisTypes == Spec => []TypeOK
  BY Typed, PTL

(* No request carries the token its client was last refused, lock or no    *)
(* lock (_load_cached_token).                                              *)
THEOREM KisRefusedNotResent == Spec => []RefusedNotResent
<1>1. TypeOK /\ MemoryInv => RefusedNotResent
  BY DEF MemoryInv, RefusedNotResent
<1> QED
  BY <1>1, Typed, PTL

-----------------------------------------------------------------------------
(* What the lock adds *)

LEMMA LockStep ==
    ASSUME LockWorks, TypeOK, LockInv, [Next]_vars PROVE LockInv'
<1> USE SentinelAssumption DEF TypeOK, LockInv, Locked, Steps
<1>1. ASSUME NEW c \in Clients, Begin(c) PROVE LockInv'
  BY <1>1, ProcessAssumption DEF Begin, Goto
<1>2. ASSUME NEW c \in Clients, Acquire(c) PROVE LockInv'
  BY <1>2 DEF Acquire, Goto
<1>3. ASSUME NEW c \in Clients, NEW t \in Tokens, Issue(c, t) PROVE LockInv'
  BY <1>3 DEF Issue, Goto
<1>4. ASSUME NEW c \in Clients, Load(c) \/ LoadFails(c) \/ Check(c) \/ Read(c)
      PROVE LockInv'
  BY <1>4 DEF Load, LoadFails, Check, Read, Goto, Unlock
<1>5. ASSUME NEW c \in Clients, IssueFails(c) \/ Save(c) \/ SaveFails(c) PROVE LockInv'
  BY <1>5 DEF IssueFails, Save, SaveFails, End, Goto, Unlock
<1>6. ASSUME NEW c \in Clients, Answer(c) \/ RateLimit(c) \/ Refuse(c) PROVE LockInv'
  BY <1>6 DEF Answer, RateLimit, Refuse, End, Goto
<1>7. ASSUME NEW c \in Clients, ReadFails(c) \/ Adopt(c) \/ Unlink(c) PROVE LockInv'
  BY <1>7 DEF ReadFails, Adopt, Unlink, Goto, Unlock
<1>8. ASSUME NEW p \in Processes, Crash(p) PROVE LockInv'
  BY <1>8 DEF Crash
<1>9. ASSUME NEW t \in Tokens, Age(t) \/ Revoke(t) PROVE LockInv'
  BY <1>9 DEF Age, Revoke, request
<1>10. CASE UNCHANGED vars
  BY <1>10 DEF vars, request
<1>11. timely \subseteq Tokens /\ accepted \subseteq Tokens
  OBVIOUS
<1> QED
  BY <1>1, <1>2, <1>3, <1>4, <1>5, <1>6, <1>7, <1>8, <1>9, <1>10, <1>11 DEF Next, Step

(* A live token is cached or about to be: the lock keeps everyone else out *)
(* between the reading of the cache and the saving.                        *)
LEMMA CacheStep ==
    ASSUME LockWorks, TypeOK, MemoryInv, LockInv, CacheInv, [Next]_vars PROVE CacheInv'
<1> USE SentinelAssumption DEF TypeOK, MemoryInv, LockInv, CacheInv, Locked, Steps, Live
<1>1. ASSUME NEW c \in Clients, Begin(c) PROVE CacheInv'
  BY <1>1, ProcessAssumption DEF Begin, Goto, memory, server
<1>2. ASSUME NEW c \in Clients, Acquire(c) PROVE CacheInv'
  BY <1>2 DEF Acquire, Goto, memory, server
<1>3. ASSUME NEW c \in Clients, NEW t \in Tokens, Issue(c, t) PROVE CacheInv'
  BY <1>3 DEF Issue, Goto
<1>4. ASSUME NEW c \in Clients, Load(c) PROVE CacheInv'
  BY <1>4 DEF Load, Loadable, TakeCached, Goto, Unlock, memory, server
<1>5. ASSUME NEW c \in Clients, LoadFails(c) PROVE CacheInv'
  BY <1>5 DEF LoadFails, Goto, memory, server
<1>6. ASSUME NEW c \in Clients, Check(c) \/ Answer(c) \/ RateLimit(c) PROVE CacheInv'
  BY <1>6 DEF Check, Answer, RateLimit, End, Goto, memory, server
<1>7. ASSUME NEW c \in Clients, IssueFails(c) \/ ReadFails(c) PROVE CacheInv'
  BY <1>7 DEF IssueFails, ReadFails, End, Goto, Unlock, memory, server
<1>8. ASSUME NEW c \in Clients, Save(c) PROVE CacheInv'
  BY <1>8 DEF Save, Goto, Unlock, server
<1>9. ASSUME NEW c \in Clients, SaveFails(c) PROVE CacheInv'
  BY <1>9 DEF SaveFails, Goto, Unlock, memory, server
<1>10. ASSUME NEW c \in Clients, Refuse(c) PROVE CacheInv'
  BY <1>10 DEF Refuse, Goto, server
<1>11. ASSUME NEW c \in Clients, Read(c) PROVE CacheInv'
  BY <1>11 DEF Read, Anothers, Goto, memory, server
<1>12. ASSUME NEW c \in Clients, Adopt(c) PROVE CacheInv'
  BY <1>12 DEF Adopt, Loadable, TakeCached, Goto, Unlock, memory, server
<1>13. ASSUME NEW c \in Clients, Unlink(c) PROVE CacheInv'
  BY <1>13 DEF Unlink, Goto, Unlock, memory, server
<1>14. ASSUME NEW p \in Processes, Crash(p) PROVE CacheInv'
  BY <1>14 DEF Crash, server
<1>15. ASSUME NEW t \in Tokens, Age(t) \/ Revoke(t) PROVE CacheInv'
  BY <1>15 DEF Age, Revoke, request, memory
<1>16. CASE UNCHANGED vars
  BY <1>16 DEF vars, request, memory, server
<1>17. timely \subseteq Tokens /\ accepted \subseteq Tokens
  OBVIOUS
<1> QED
  BY <1>1, <1>2, <1>3, <1>4, <1>5, <1>6, <1>7, <1>8, <1>9, <1>10, <1>11, <1>12, <1>13,
     <1>14, <1>15, <1>16, <1>17 DEF Next, Step

LEMMA Guarded ==
    ASSUME LockWorks PROVE Spec => [](LockInv /\ CacheInv)
<1>1. Init => LockInv /\ CacheInv
  BY SentinelAssumption DEF Init, LockInv, CacheInv, Live, Locked
<1>2. TypeOK /\ MemoryInv /\ LockInv /\ CacheInv /\ [Next]_vars => (LockInv /\ CacheInv)'
  BY LockStep, CacheStep
<1> QED
  BY <1>1, <1>2, Typed, PTL DEF Spec

(* With the lock, of all the tokens that processes asked for at most one is *)
(* live and cached (_token_cache_guard, _ensure_token_unlocked).            *)
THEOREM KisSoleToken ==
    ASSUME LockWorks PROVE Spec => []SoleToken
<1>1. TypeOK /\ MemoryInv /\ LockInv /\ CacheInv => SoleToken
  BY DEF LockInv, CacheInv, SoleToken, Live, Locked
<1> QED
  BY <1>1, Typed, Guarded, PTL

(* With the lock, the dropping of a refused token removes no other token    *)
(* (_invalidate_token).                                                     *)
THEOREM KisOthersNotUnlinked ==
    ASSUME LockWorks PROVE Spec => OthersNotUnlinked
<1> DEFINE Kept == file # None /\ file' = None => file = Torn \/ file \in Tokens \ accepted
<1>1. ASSUME TypeOK, MemoryInv, CacheInv, [Next]_vars PROVE Kept
  <2> SUFFICES ASSUME file # None, file' = None PROVE file = Torn \/ file \in Tokens \ accepted
    OBVIOUS
  <2>1. ASSUME NEW c \in Clients, Unlink(c) PROVE file = Torn \/ file \in Tokens \ accepted
    BY <1>1, <2>1 DEF Unlink, TypeOK, MemoryInv, CacheInv
  <2>2. ASSUME NEW c \in Clients, Save(c) PROVE FALSE
    BY <1>1, <2>2 DEF Save, MemoryInv
  <2>3. ASSUME NEW c \in Clients, SaveFails(c) PROVE FALSE
    BY <2>3, SentinelAssumption DEF SaveFails
  <2>4. ASSUME NEW p \in Processes, Crash(p) PROVE FALSE
    BY <2>4, SentinelAssumption DEF Crash
  <2>5. CASE UNCHANGED file
    BY <2>5
  <2> QED
    BY <1>1, <2>1, <2>2, <2>3, <2>4, <2>5
    DEF Next, Step, vars, Begin, Acquire, Check, Load, LoadFails, Issue, IssueFails, Answer,
        RateLimit, Refuse, Read, ReadFails, Adopt, Age, Revoke
<1> QED
  BY <1>1, Typed, Guarded, PTL DEF Spec, OthersNotUnlinked
=============================================================================
