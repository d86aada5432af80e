------------------------------ MODULE KisToken ------------------------------
(***************************************************************************)
(* The access token of a KIS app key (kis_api.py).  The accounts of one    *)
(* key, in the server and in the scheduled jobs, share a cache file and    *)
(* its flock; each client also keeps the token in memory.  A request whose *)
(* token is refused drops it, adopts what a peer cached or asks for a new  *)
(* one, and is sent again, once.                                           *)
(*                                                                         *)
(* A token is timely while its recorded expiry is more than a minute away, *)
(* which is all a client can see, and accepted while KIS takes it.         *)
(***************************************************************************)
EXTENDS Naturals

CONSTANTS
    Clients,
    Processes,
    ProcessOf,      \* ProcessOf[c]: the process client c lives in
    Tokens,
    None,           \* no file, no token
    Torn,           \* a file no reader can parse
    Foreign,        \* a file that holds the token of another app key
    LockWorks,      \* FALSE: the lock file can be neither opened nor locked
    MaxResends      \* RATE_LIMIT_RETRIES

ASSUME ProcessAssumption == ProcessOf \in [Clients -> Processes]
ASSUME SentinelAssumption ==
    /\ None \notin Tokens /\ Torn \notin Tokens /\ Foreign \notin Tokens
    /\ None # Torn /\ None # Foreign /\ Torn # Foreign
    /\ None \notin Clients
ASSUME LockAssumption == LockWorks \in BOOLEAN
ASSUME ResendsAssumption == MaxResends \in Nat

VARIABLES
    pc,         \* pc[c]: where the request of client c is
    retried,    \* retried[c]: the request has renewed its token
    resends,    \* resends[c]: resends after a rate limit
    token,      \* token[c]: the token client c has in memory
    known,      \* known[c]: its expiry is in memory too
    rejected,   \* rejected[c]: the last token client c saw refused
    lock,       \* the holder of the flock
    file,       \* the cache file
    issued,     \* tokens KIS has issued
    accepted,
    timely,
    lost        \* tokens that a failing read or write kept out of the cache

request == <<pc, retried, resends>>
memory == <<token, known, rejected>>
server == <<issued, accepted, timely>>
vars == <<request, memory, lock, file, server, lost>>

Locked == {"load", "issue", "save", "read", "adopt", "unlink"}
Steps == {"idle", "check", "lock", "send", "relock"} \union Locked

TypeOK ==
    /\ pc \in [Clients -> Steps]
    /\ retried \in [Clients -> BOOLEAN]
    /\ resends \in [Clients -> 0..MaxResends]
    /\ token \in [Clients -> Tokens \union {None}]
    /\ known \in [Clients -> BOOLEAN]
    /\ rejected \in [Clients -> Tokens \union {None}]
    /\ lock \in Clients \union {None}
    /\ file \in Tokens \union {None, Torn, Foreign}
    /\ issued \subseteq Tokens
    /\ accepted \subseteq issued
    /\ timely \subseteq issued
    /\ lost \subseteq Tokens

Init ==
    /\ pc = [c \in Clients |-> "idle"]
    /\ retried = [c \in Clients |-> FALSE]
    /\ resends = [c \in Clients |-> 0]
    /\ token = [c \in Clients |-> None]
    /\ known = [c \in Clients |-> FALSE]
    /\ rejected = [c \in Clients |-> None]
    /\ lock = None
    /\ file \in {None, Torn, Foreign}
    /\ issued = {}
    /\ accepted = {}
    /\ timely = {}
    /\ lost = {}

-----------------------------------------------------------------------------
(* The steps of a request *)

Goto(c, step) == pc' = [pc EXCEPT ![c] = step]

\* Variant: the lock file stays open.
KeepLocked(c) == lock' = lock
Unlock(c) == lock' = IF lock = c THEN None ELSE lock

\* The request's own variables go with it.
End(c) ==
    /\ Goto(c, "idle")
    /\ retried' = [retried EXCEPT ![c] = FALSE]
    /\ resends' = [resends EXCEPT ![c] = 0]

\* One request at a time per app key and process.
Begin(c) ==
    /\ \A d \in Clients : ProcessOf[d] = ProcessOf[c] => pc[d] = "idle"
    /\ Goto(c, "check")
    /\ UNCHANGED <<retried, resends, memory, lock, file, server, lost>>

Ready(c) == token[c] \in timely /\ known[c]

Check(c) ==
    /\ pc[c] = "check"
    /\ Goto(c, IF Ready(c) THEN "send" ELSE "lock")
    /\ UNCHANGED <<retried, resends, memory, lock, file, server, lost>>

Acquire(c) ==
    /\ \/ pc[c] = "lock" /\ Goto(c, "load")
       \/ pc[c] = "relock" /\ Goto(c, "read")
    /\ IF LockWorks THEN lock = None /\ lock' = c ELSE UNCHANGED lock
    /\ UNCHANGED <<retried, resends, memory, file, server, lost>>

\* Variant: the cache is not read again once the lock is held.
NeverLoadable(c) == FALSE
\* Variant: the cache is taken whatever the client was told.
LoadableTimely(c) == file \in timely
Loadable(c) == file \in timely /\ file # rejected[c]

TakeCached(c) ==
    /\ token' = [token EXCEPT ![c] = file]
    /\ known' = [known EXCEPT ![c] = TRUE]
    /\ UNCHANGED rejected

Load(c) ==
    /\ pc[c] = "load"
    /\ \/ Loadable(c) /\ TakeCached(c) /\ Unlock(c) /\ Goto(c, "send")
       \/ ~ Loadable(c) /\ Goto(c, "issue") /\ UNCHANGED <<memory, lock>>
    /\ UNCHANGED <<retried, resends, file, server, lost>>

LoadFails(c) ==
    /\ pc[c] = "load"
    /\ Goto(c, "issue")
    /\ lost' = lost \union ({file} \intersect Tokens)
    /\ UNCHANGED <<retried, resends, memory, lock, file, server>>

Issue(c, t) ==
    /\ pc[c] = "issue"
    /\ t \in Tokens \ issued
    /\ issued' = issued \union {t}
    /\ accepted' = accepted \union {t}
    /\ timely' = timely \union {t}
    /\ token' = [token EXCEPT ![c] = t]
    /\ known' = [known EXCEPT ![c] = FALSE]
    /\ Goto(c, "save")
    /\ UNCHANGED <<retried, resends, rejected, lock, file, lost>>

IssueFails(c) ==
    /\ pc[c] = "issue"
    /\ End(c)
    /\ Unlock(c)
    /\ UNCHANGED <<memory, file, server, lost>>

\* The expiry is kept only after the file has its mode too.
Save(c) ==
    /\ pc[c] = "save"
    /\ file' = token[c]
    /\ \E moded \in BOOLEAN : known' = [known EXCEPT ![c] = moded]
    /\ Unlock(c)
    /\ Goto(c, "send")
    /\ UNCHANGED <<retried, resends, token, rejected, server, lost>>

SaveFails(c) ==
    /\ pc[c] = "save"
    /\ file' \in {file, Torn}
    /\ lost' = lost \union {token[c]}
    /\ Unlock(c)
    /\ Goto(c, "send")
    /\ UNCHANGED <<retried, resends, memory, server>>

\* Any answer or error that neither refuses the token nor is tried again.
Answer(c) ==
    /\ pc[c] = "send"
    /\ End(c)
    /\ UNCHANGED <<memory, lock, file, server, lost>>

MayResend(c) == resends[c] < MaxResends

RateLimit(c) ==
    /\ pc[c] = "send"
    /\ MayResend(c)
    /\ resends' = [resends EXCEPT ![c] = @ + 1]
    /\ Goto(c, "check")
    /\ UNCHANGED <<retried, memory, lock, file, server, lost>>

Refuse(c) ==
    /\ pc[c] = "send"
    /\ token[c] \notin accepted
    /\ ~ retried[c]
    /\ retried' = [retried EXCEPT ![c] = TRUE]
    /\ rejected' = [rejected EXCEPT ![c] = token[c]]
    /\ token' = [token EXCEPT ![c] = None]
    /\ known' = [known EXCEPT ![c] = FALSE]
    /\ Goto(c, "relock")
    /\ UNCHANGED <<resends, lock, file, server, lost>>

\* Variant: whatever is cached is taken for the refused token.
NeverAnothers(c) == FALSE
Anothers(c) == file \in (Tokens \union {Foreign}) \ {rejected[c]}

Read(c) ==
    /\ pc[c] = "read"
    /\ Goto(c, IF Anothers(c) THEN "adopt" ELSE "unlink")
    /\ UNCHANGED <<retried, resends, memory, lock, file, server, lost>>

ReadFails(c) ==
    /\ pc[c] = "read"
    /\ Goto(c, "check")
    /\ Unlock(c)
    /\ UNCHANGED <<retried, resends, memory, file, server, lost>>

Adopt(c) ==
    /\ pc[c] = "adopt"
    /\ \/ Loadable(c) /\ TakeCached(c)
       \/ UNCHANGED memory                  \* not usable, or it cannot be read
    /\ Goto(c, "check")
    /\ Unlock(c)
    /\ UNCHANGED <<retried, resends, file, server, lost>>

Unlink(c) ==
    /\ pc[c] = "unlink"
    /\ file' \in {None, file}
    /\ Goto(c, "check")
    /\ Unlock(c)
    /\ UNCHANGED <<retried, resends, memory, server, lost>>

-----------------------------------------------------------------------------
(* The environment *)

\* The memory of a process goes, and the descriptors that hold the lock.
Crash(p) ==
    LET gone == {c \in Clients : ProcessOf[c] = p}
        saving == {c \in gone : pc[c] = "save"}
        Reset(f, v) == [c \in Clients |-> IF c \in gone THEN v ELSE f[c]]
    IN  /\ pc' = Reset(pc, "idle")
        /\ retried' = Reset(retried, FALSE)
        /\ resends' = Reset(resends, 0)
        /\ token' = Reset(token, None)
        /\ known' = Reset(known, FALSE)
        /\ rejected' = Reset(rejected, None)
        /\ lock' = IF lock \in gone THEN None ELSE lock
        /\ file' = file \/ (saving # {} /\ file' = Torn)
        /\ lost' = lost \union {token[c] : c \in saving}
        /\ UNCHANGED server

Age(t) ==
    /\ timely' = timely \ {t}
    /\ UNCHANGED <<request, memory, lock, file, issued, accepted, lost>>

Revoke(t) ==
    /\ accepted' = accepted \ {t}
    /\ UNCHANGED <<request, memory, lock, file, issued, timely, lost>>

Step(c) ==
    \/ Check(c) \/ Load(c) \/ LoadFails(c)
    \/ \E t \in Tokens : Issue(c, t)
    \/ IssueFails(c) \/ Save(c) \/ SaveFails(c)
    \/ Answer(c) \/ RateLimit(c) \/ Refuse(c)
    \/ Read(c) \/ ReadFails(c) \/ Adopt(c) \/ Unlink(c)

Next ==
    \/ \E c \in Clients : Begin(c) \/ Acquire(c) \/ Step(c)
    \/ \E p \in Processes : Crash(p)
    \/ \E t \in timely : Age(t)
    \/ \E t \in accepted : Revoke(t)

Spec == Init /\ [][Next]_vars

\* Every call has a timeout, and the kernel passes a contended flock on.
Fairness == \A c \in Clients : WF_vars(Step(c)) /\ SF_vars(Acquire(c))
FairSpec == Spec /\ Fairness

-----------------------------------------------------------------------------
(* Properties *)

\* However many processes need a token at once, there is at most one that
\* KIS accepts, that is not about to expire and that no failure kept out of
\* the cache: a renewal is waited for and its token reused, never repeated
\* (_token_cache_guard, _ensure_token_unlocked).
SoleToken ==
    \A s, t \in (accepted \intersect timely) \ lost : s = t

\* A client never sends a request with the token it was last refused, be the
\* cache stale, unreadable or impossible to unlink (_load_cached_token).
RefusedNotResent ==
    \A c \in Clients : pc[c] = "send" => token[c] # rejected[c]

\* Dropping a refused token removes no token of a peer and none of another
\* app key: what is unlinked is unreadable, or KIS has refused it
\* (_invalidate_token).
OthersNotUnlinked ==
    [][file # None /\ file' = None => file = Torn \/ file \in Tokens \ accepted]_vars

\* A request ends: neither the lock nor a token that is refused again and
\* again holds it for ever (_request_unlocked, _token_cache_guard).
RequestsEnd == \A c \in Clients : pc[c] # "idle" ~> pc[c] = "idle"
=============================================================================
