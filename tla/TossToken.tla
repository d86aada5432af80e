------------------------------- MODULE TossToken -------------------------------
(***************************************************************************)
(* The Toss client's access token (toss_api.py): kept in memory and in a   *)
(* file that processes share without a lock, renewed once when a request   *)
(* is refused.                                                             *)
(*                                                                         *)
(* connection_guard makes a process's requests follow one another, so each *)
(* process has one.  Toss may end any token, and the others when it issues *)
(* one; a token about to expire is not used.                               *)
(***************************************************************************)
EXTENDS Integers, FiniteSets

CONSTANTS
    Processes,
    MaxTokens       \* bound on the tokens issued

ASSUME TossAssumption == MaxTokens \in Nat

VARIABLES
    issued, valid, old,     \* how many tokens Toss issued, which it accepts, which expire soon
    tokenFile,              \* the token in the file, or Absent or Truncated
    memory,                 \* each process: its token and the one whose expiry it goes by
    request                 \* each process: the request's step, the tokens it was sent with,
                            \* whether its file could not be removed

tossVars == <<issued, valid, old, tokenFile, memory, request>>

Absent == 0
Truncated == -1
Tokens == 1..MaxTokens
NoRequest == [step |-> "idle", first |-> 0, second |-> 0, stuck |-> FALSE]

TossInit ==
    /\ issued = 0 /\ valid = {} /\ old = {}
    /\ tokenFile = Absent
    /\ memory = [p \in Processes |-> [token |-> 0, expiry |-> 0]]
    /\ request = [p \in Processes |-> NoRequest]

(* Toss ends a token, or it nears its expiry. *)
TokenEnds(t) ==
    /\ t \in valid /\ valid' = valid \ {t}
    /\ UNCHANGED <<issued, old, tokenFile, memory, request>>

TokenAges(t) ==
    /\ t \in (1..issued) \ old /\ old' = old \cup {t}
    /\ UNCHANGED <<issued, valid, tokenFile, memory, request>>

StartRequest(p) ==
    /\ request[p].step = "idle"
    /\ request' = [request EXCEPT ![p] = [NoRequest EXCEPT !.step = "ensure"]]
    /\ UNCHANGED <<issued, valid, old, tokenFile, memory>>

Remembered(p) == memory[p].token # 0 /\ memory[p].expiry \notin old \cup {0}
Loadable == tokenFile \in Tokens \ old

GoesOn(p, step) == request' = [request EXCEPT ![p].step = step]

(* _ensure_token: from memory, from the file, or a new one. *)
Remember(p) ==
    /\ request[p].step = "ensure" /\ Remembered(p)
    /\ GoesOn(p, "send")
    /\ UNCHANGED <<issued, valid, old, tokenFile, memory>>

Load(p) ==
    /\ request[p].step = "ensure" /\ ~Remembered(p) /\ Loadable
    /\ memory' = [memory EXCEPT ![p] = [token |-> tokenFile, expiry |-> tokenFile]]
    /\ GoesOn(p, "send")
    /\ UNCHANGED <<issued, valid, old, tokenFile>>

AskToken(p) ==
    /\ request[p].step = "ensure" /\ ~Remembered(p) /\ ~Loadable
    /\ GoesOn(p, "issue")
    /\ UNCHANGED <<issued, valid, old, tokenFile, memory>>

Issue(p, others) ==
    /\ request[p].step = "issue" /\ issued < MaxTokens
    /\ issued' = issued + 1
    /\ valid' = {issued'} \cup IF others THEN valid ELSE {}
    /\ memory' = [memory EXCEPT ![p].token = issued']
    /\ GoesOn(p, "save")
    /\ UNCHANGED <<old, tokenFile>>

(* The token request is refused: so is the request. *)
NotIssued(p) ==
    /\ request[p].step = "issue"
    /\ request' = [request EXCEPT ![p] = NoRequest]
    /\ UNCHANGED <<issued, valid, old, tokenFile, memory>>

(* write_text truncates the file and writes it; either may fail, and the *)
(* expiry is kept only when none did.                                    *)
Truncate(p) ==
    /\ request[p].step = "save"
    /\ tokenFile' = Truncated
    /\ GoesOn(p, "write")
    /\ UNCHANGED <<issued, valid, old, memory>>

Write(p) ==
    /\ request[p].step = "write"
    /\ tokenFile' = memory[p].token
    /\ memory' = [memory EXCEPT ![p].expiry = memory[p].token]
    /\ GoesOn(p, "send")
    /\ UNCHANGED <<issued, valid, old>>

SaveFails(p) ==
    /\ request[p].step \in {"save", "write"}
    /\ GoesOn(p, "send")
    /\ UNCHANGED <<issued, valid, old, tokenFile, memory>>

(* The request is sent, first or again; its answer may be another error. *)
Send(p) ==
    /\ request[p].step = "send"
    /\ request' = [request EXCEPT ![p] =
            IF @.first = 0 THEN [@ EXCEPT !.first = memory[p].token, !.step = "sent"]
            ELSE [@ EXCEPT !.second = memory[p].token, !.step = "sent"]]
    /\ UNCHANGED <<issued, valid, old, tokenFile, memory>>

Done(p) ==
    /\ request[p].step = "sent"
    /\ memory[p].token \in valid \/ request[p].second # 0
    /\ request' = [request EXCEPT ![p] = NoRequest]
    /\ UNCHANGED <<issued, valid, old, tokenFile, memory>>

(* 401: the token is forgotten and the file removed, whatever it holds.     *)
(* Variant: a file that holds another token than the refused one is removed *)
(* and the refused one stays.                                               *)
RemovedIfAnother(refused) == IF tokenFile = refused THEN tokenFile ELSE Absent
Removed(refused) == Absent

Refused(p, stuck) ==
    /\ request[p].step = "sent" /\ request[p].second = 0
    /\ memory[p].token \notin valid
    /\ memory' = [memory EXCEPT ![p].token = 0]
    /\ tokenFile' = IF stuck THEN tokenFile ELSE Removed(request[p].first)
    /\ request' = [request EXCEPT ![p] = [step |-> "ensure", first |-> @.first, second |-> 0, stuck |-> stuck]]
    /\ UNCHANGED <<issued, valid, old>>

TossNext ==
    \/ \E t \in Tokens : TokenEnds(t) \/ TokenAges(t)
    \/ \E p \in Processes :
          \/ StartRequest(p) \/ Remember(p) \/ Load(p) \/ AskToken(p) \/ NotIssued(p)
          \/ Truncate(p) \/ Write(p) \/ SaveFails(p) \/ Send(p) \/ Done(p)
          \/ \E others \in BOOLEAN : Issue(p, others)
          \/ \E stuck \in BOOLEAN : Refused(p, stuck)

TossSpec == TossInit /\ [][TossNext]_tossVars

(***************************************************************************)
(* Properties.                                                             *)
(***************************************************************************)
(* A refused request is sent again with another token, whatever the other   *)
(* processes loaded, wrote and removed meanwhile, unless the file could not *)
(* be removed.                                                              *)
ResendIsAnother ==
    \A p \in Processes :
        request[p].second # 0 /\ ~request[p].stuck => request[p].second # request[p].first

================================================================================
