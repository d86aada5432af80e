------------------------------ MODULE Recoveries ------------------------------
(***************************************************************************)
(* collect_transactions of portfolio_sources.py: a history is collected    *)
(* source by source and window by window; what failed is kept under a      *)
(* cursor, with which a later call reads it again and nothing else.        *)
(*                                                                         *)
(* A call holds the recovery lock to its end, so calls follow one another; *)
(* each chunk is a step, for time passes while brokers answer.  Every call *)
(* makes the same request (a cursor of another one is refused).  A chunk's *)
(* result is whole or poor: failed, truncated, or cooling down.  Accounts  *)
(* are known for good once a process has resolved them.                    *)
(***************************************************************************)
EXTENDS Integers, FiniteSets

CONSTANTS
    LastHistory,        \* the broker accounts' histories are 1..LastHistory, in the order they are listed
    ProviderOf,         \* the provider that lists each of them, by its number in the order they are asked
    ConnectionOf,       \* the connection it is read over
    LastWindow,         \* a request's windows are 1..LastWindow
    Settled,            \* those old enough to be cached
    SessionSeconds,     \* how long a cursor lasts (1800)
    CacheSeconds,       \* WINDOW_CACHE_SECONDS
    CooldownSeconds,    \* for how long a refusal asks for silence
    MaxSessions,        \* the cursors kept (16)
    Anchorings,         \* the anchors a request may find: how many windows are spared each history
    MaxRecTime, MaxRecCalls,    \* bounds on the clock, on the calls
    MaxPoor             \* and on the poor results a session has when one more read fails

ASSUME RecoveryAssumption ==
    /\ {LastHistory, LastWindow} \subseteq Nat \ {0}
    /\ ProviderOf \in [1..LastHistory -> Nat] /\ Settled \subseteq 1..LastWindow - 1
    /\ Anchorings \subseteq [1..LastHistory -> 0..LastWindow]
    /\ {SessionSeconds, CacheSeconds, CooldownSeconds, MaxSessions} \subseteq Nat \ {0}
    /\ {MaxRecTime, MaxRecCalls, MaxPoor} \subseteq Nat

VARIABLES
    recNow,
    resolved,       \* the providers whose accounts are resolved
    sessions,       \* _recoveries: the older the lower their cursor
    coolUntil,      \* _cooldowns
    windowCache,    \* _window_cache: when the whole read kept of a window was made, or -1
    call,           \* the call under way, or Idle
    given,          \* ghost: the cursors given out, and whether their history is complete since
    made            \* the calls made so far

recVars == <<recNow, resolved, sessions, coolUntil, windowCache, call, given, made>>

Histories == 1..LastHistory
Windows == 1..LastWindow
Providers == {ProviderOf[h] : h \in Histories}
Connections == {ConnectionOf[h] : h \in Histories}
Idle == [session |-> 0]
Poor == -1                  \* a result is Poor or the time of its whole read

(* A chunk is a window of a history, <<batch, history, window>>, or the      *)
(* listing of a provider's accounts, <<Listing, provider, 0>>.  Batches      *)
(* follow one another: the histories listed at once, the listings that       *)
(* failed, the histories a later call found.                                 *)
AtOnce == 0
Listing == 1
Later == 1 + made
IsListing(chunk) == chunk[1] = Listing

Earlier(a, b) ==
    \/ a[1] < b[1]
    \/ a[1] = b[1] /\ a[2] < b[2]
    \/ a[1] = b[1] /\ a[2] = b[2] /\ a[3] < b[3]

(* The windows of these providers' histories, without those an anchor spares. *)
Windowed(batch, providers, anchors) ==
    {c \in {batch} \X Histories \X Windows : ProviderOf[c[2]] \in providers /\ c[3] > anchors[c[2]]}
Listings(providers) == {Listing} \X providers \X {0}

NoAnchors == [h \in Histories |-> 0]

RecInit ==
    /\ recNow = 0 /\ resolved = {} /\ sessions = {}
    /\ coolUntil = [c \in Connections |-> 0]
    /\ windowCache = [p \in Histories \X Settled |-> -1]
    /\ call = Idle /\ given = {} /\ made = 0

RecTick ==
    /\ recNow < MaxRecTime
    /\ recNow' = recNow + 1
    /\ UNCHANGED <<resolved, sessions, coolUntil, windowCache, call, given, made>>

Live == {s \in sessions : recNow - s.created < SessionSeconds}

PoorOf(session) == {c \in session.chunks : session.results[c] = Poor}

(* A first call: listings, anchors, chunks.  What could not be listed is no *)
(* longer asked for in this call.                                           *)
Begin(failing, incremental, anchored) ==
    /\ call = Idle /\ made < MaxRecCalls /\ made' = made + 1
    /\ failing \subseteq Providers \ resolved
    /\ ~incremental => anchored = NoAnchors
    /\ LET anchors == [h \in Histories |-> IF ProviderOf[h] \in failing THEN 0 ELSE anchored[h]]
           found == Windowed(AtOnce, Providers \ failing, anchors)
       IN  call' = [session |-> [cursor |-> 0, created |-> recNow, chunks |-> found \cup Listings(failing),
                                 anchors |-> anchors, incremental |-> incremental,
                                 results |-> [c \in found \cup Listings(failing) |-> Poor]],
                    resumed |-> FALSE, began |-> recNow, todo |-> found]
    /\ resolved' = resolved \cup (Providers \ failing)
    /\ sessions' = Live
    /\ UNCHANGED <<recNow, coolUntil, windowCache, given>>

(* A later call reads again what is poor; a chunk counts as poor until it is read. *)
Resume(cursor) ==
    /\ call = Idle /\ made < MaxRecCalls /\ made' = made + 1
    /\ \E s \in Live :
          /\ s.cursor = cursor
          /\ call' = [session |-> s, resumed |-> TRUE, began |-> recNow, todo |-> PoorOf(s)]
    /\ sessions' = Live
    /\ UNCHANGED <<recNow, resolved, coolUntil, windowCache, given>>

(* The chunk whose turn it is. *)
AtChunk(chunk) == call # Idle /\ chunk \in call.todo /\ \A other \in call.todo : ~Earlier(other, chunk)

Record(chunk, result) ==
    call' = [session |-> [call.session EXCEPT !.results = [@ EXCEPT ![chunk] = result]],
             resumed |-> call.resumed, began |-> call.began, todo |-> call.todo \ {chunk}]

(* A listing that failed is tried again; the chunks it finds are read in   *)
(* this call.  Variant: they are not added.                                *)
FoundNothing(provider) == {}
Found(provider) == Windowed(Later, {provider}, NoAnchors)
Rediscover(chunk, fails) ==
    /\ AtChunk(chunk) /\ IsListing(chunk)
    /\ fails => chunk[2] \notin resolved
    /\ IF fails THEN Record(chunk, Poor) /\ UNCHANGED resolved
       ELSE /\ resolved' = resolved \cup {chunk[2]}
            /\ LET found == Found(chunk[2])
                   old == call.session
               IN  call' = [session |-> [cursor |-> old.cursor, created |-> old.created,
                                chunks |-> old.chunks \cup found, anchors |-> old.anchors,
                                incremental |-> old.incremental,
                                results |-> [c \in old.chunks \cup found |->
                                    IF c = chunk THEN recNow ELSE IF c \in found THEN Poor ELSE old.results[c]]],
                            resumed |-> call.resumed, began |-> call.began,
                            todo |-> (call.todo \ {chunk}) \cup found]
    /\ UNCHANGED <<recNow, sessions, coolUntil, windowCache, given, made>>

AtWindow(chunk) == AtChunk(chunk) /\ ~IsListing(chunk)
Piece(chunk) == <<chunk[2], chunk[3]>>
Connection(chunk) == ConnectionOf[chunk[2]]
Cooling(chunk) == coolUntil[Connection(chunk)] > recNow

Leave(chunk) ==
    /\ AtWindow(chunk) /\ Cooling(chunk)
    /\ Record(chunk, Poor)
    /\ UNCHANGED <<recNow, resolved, sessions, coolUntil, windowCache, given, made>>

CachedAt(chunk) ==
    IF chunk[3] \in Settled /\ recNow - windowCache[Piece(chunk)] < CacheSeconds THEN windowCache[Piece(chunk)] ELSE -1

ReuseWindow(chunk) ==
    /\ AtWindow(chunk) /\ ~Cooling(chunk) /\ call.session.incremental /\ CachedAt(chunk) # -1
    /\ Record(chunk, CachedAt(chunk))
    /\ UNCHANGED <<recNow, resolved, sessions, coolUntil, windowCache, given, made>>

WindowStored(chunk, outcome) ==
    IF outcome = "whole" /\ chunk[3] \in Settled THEN [windowCache EXCEPT ![Piece(chunk)] = recNow] ELSE windowCache

(* What the read of one window of one account comes to: whole, or poor,    *)
(* when a list was refused or cut short or the order history stood in for  *)
(* an overseas account's trades; and poor it is, too, when the rate was    *)
(* the reason, after which nothing else is asked.                          *)
Outcomes == {"whole", "poor", "limited"}

(* A read that a broker answers; what is not whole is never cached. *)
ReadWindow(chunk, outcome) ==
    /\ AtWindow(chunk) /\ ~Cooling(chunk) /\ (call.session.incremental => CachedAt(chunk) = -1)
    /\ outcome # "whole" => Cardinality(PoorOf(call.session) \ call.todo) <= MaxPoor
    /\ Record(chunk, IF outcome = "whole" THEN recNow ELSE Poor)
    /\ windowCache' = IF call.session.incremental THEN WindowStored(chunk, outcome) ELSE windowCache
    /\ coolUntil' = IF outcome = "limited" THEN [coolUntil EXCEPT ![Connection(chunk)] = recNow + CooldownSeconds]
                    ELSE coolUntil
    /\ UNCHANGED <<recNow, resolved, sessions, given, made>>

Cursors == {s.cursor : s \in sessions}

(* A session under its cursor; for a new one the oldest is dropped. *)
KeptSession(session) ==
    {s \in sessions :
        /\ s.cursor # session.cursor
        /\ session.cursor \notin Cursors /\ Cardinality(Cursors) >= MaxSessions =>
              \E older \in Cursors : older < s.cursor}
    \cup {session}

(* No chunk has failed; result.fetch_complete. *)
NoneFailed == PoorOf(call.session) = {}
Complete == NoneFailed /\ call.session.chunks # {}
Ending == call # Idle /\ call.todo = {}

Finish ==
    /\ Ending
    /\ \E cursor \in {IF call.resumed THEN call.session.cursor ELSE made} :
          /\ sessions' = IF NoneFailed THEN {s \in sessions : s.cursor # cursor}
                         ELSE KeptSession([call.session EXCEPT !.cursor = cursor])
          /\ given' = {g \in given : g.cursor # cursor}
                \cup IF NoneFailed /\ ~call.resumed THEN {}
                     ELSE {[cursor |-> cursor, created |-> call.session.created, done |-> NoneFailed]}
    /\ call' = Idle
    /\ UNCHANGED <<recNow, resolved, coolUntil, windowCache, made>>

RecNext ==
    \/ RecTick \/ Finish
    \/ \E failing \in SUBSET Providers, incremental \in BOOLEAN, anchored \in Anchorings \cup {NoAnchors} :
          Begin(failing, incremental, anchored)
    \/ \E g \in given : Resume(g.cursor)
    \/ call # Idle /\ \E chunk \in call.todo :
          \/ Leave(chunk) \/ ReuseWindow(chunk)
          \/ \E fails \in BOOLEAN : Rediscover(chunk, fails)
          \/ \E outcome \in Outcomes : ReadWindow(chunk, outcome)

RecSpec == RecInit /\ [][RecNext]_recVars

(***************************************************************************)
(* Properties.                                                             *)
(***************************************************************************)
(* fetch_complete: every window of every account was read whole, or ends    *)
(* before the account's anchor, however many calls it took, which sources   *)
(* could not be listed at first and what came from the cache; and nothing   *)
(* was read longer ago than a cursor and a cached window last.              *)
CompleteMeansRead ==
    Ending /\ Complete =>
        \A h \in Histories : \A w \in Windows :
            w > call.session.anchors[h] =>
                \E c \in call.session.chunks :
                    /\ c[2] = h /\ c[3] = w
                    /\ call.session.results[c] > call.began - SessionSeconds - CacheSeconds

GivenCursors == {g.cursor : g \in given}
NewerThan(cursor) == {c \in GivenCursors : c > cursor}

(* A cursor given out stays good for its time, unless as many newer ones as *)
(* are kept were given out since.                                           *)
CursorKept ==
    \A g \in given :
        /\ ~g.done /\ recNow - g.created < SessionSeconds
        /\ Cardinality(NewerThan(g.cursor)) < MaxSessions
        => g.cursor \in Cursors

(* What a caller is told of a history collected over several calls: that it *)
(* is complete only when it is, and a cursor only to a session that lives.  *)
RecoveryTold == CompleteMeansRead /\ CursorKept

================================================================================
