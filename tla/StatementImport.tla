--------------------------- MODULE StatementImport ---------------------------
(***************************************************************************)
(* The import of PDF statements (statement_import.py).  A preview checks a *)
(* file against an account and stays in its process; apply checks it all   *)
(* again, then stores every row in one transaction.  A statement's account *)
(* number is stored only as a hash under a salt that is random, chosen by  *)
(* each process for itself until the first import stores one.              *)
(*                                                                         *)
(* What the broker's API shows is the environment's choice at each read.   *)
(* Two trades are the same if a comparison finds them equal, all their     *)
(* costs known; how often one is repeated in a file is left out.           *)
(* The clock is left out: a preview in the set may be used or never again, *)
(* which is all that its fifteen minutes decide.                           *)
(***************************************************************************)
EXTENDS FiniteSets, Naturals

CONSTANTS
    Processes,
    Files,
    Accounts,
    Numbers,        \* account numbers printed in statements
    Salts,
    NumberOf,       \* NumberOf[f]: the number in file f
    OwnerOf,        \* OwnerOf[n]: the account whose trades number n shows, if there
    SuffixOf,       \* SuffixOf[a]: numbers that end like the registered one of a
    Trades,
    TradesOf,       \* TradesOf[f]: the trades in file f
    Clashes,        \* pairs that cannot both be: one key, or near, but not equal
    None,
    MaxPreviews     \* sixteen in the code

Keys == Files \X Accounts
Bindings == Salts \X Numbers
Proofs == {"suffix", "overlap", "previous"}

ASSUME FileAssumption ==
    /\ NumberOf \in [Files -> Numbers]
    /\ OwnerOf \in [Numbers -> Accounts \union {None}]
    /\ SuffixOf \in [Accounts -> SUBSET Numbers]
    /\ TradesOf \in [Files -> SUBSET Trades]
    /\ Clashes \subseteq Trades \X Trades
    /\ \A c \in Clashes : <<c[2], c[1]>> \in Clashes
ASSUME PreviewAssumption == MaxPreviews \in Nat \ {0}
ASSUME NoneAssumption == None \notin Salts /\ None \notin Proofs

VARIABLES
    salt,       \* the stored salt
    cached,     \* cached[p]: the salt process p hashes with
    drawn,      \* salts chosen so far
    previews,   \* previews[p]: unblocked previews in the memory of p
    call,       \* call[p]: the apply call that holds the manager's lock
    imports,    \* imports[k]: the row of statement_imports, or None
    rows        \* rows[k]: the bindings under which the file's rows are stored

store == <<salt, imports, rows>>
vars == <<store, cached, drawn, previews, call>>

NoCall == [pc |-> "idle"]
Import == [binding : Bindings, proof : Proofs \union {None}, undone : BOOLEAN]
ASSUME ImportAssumption == None \notin Import
Call ==
    {NoCall}
    \union [pc : {"check"}, key : Keys]
    \union [pc : {"store"}, key : Keys, proof : Proofs \union {None}]

TypeOK ==
    /\ salt \in Salts \union {None}
    /\ cached \in [Processes -> Salts \union {None}]
    /\ drawn \subseteq Salts
    /\ previews \in [Processes -> SUBSET Keys]
    /\ \A p \in Processes : Cardinality(previews[p]) <= MaxPreviews
    /\ call \in [Processes -> Call]
    /\ \A p \in Processes : previews[p] # {} \/ call[p] # NoCall => cached[p] # None
    /\ imports \in [Keys -> Import \union {None}]
    /\ rows \in [Keys -> SUBSET Bindings]

Init ==
    /\ salt = None
    /\ cached = [p \in Processes |-> None]
    /\ drawn = {}
    /\ previews = [p \in Processes |-> {}]
    /\ call = [p \in Processes |-> NoCall]
    /\ imports = [k \in Keys |-> None]
    /\ rows = [k \in Keys |-> {}]

-----------------------------------------------------------------------------
(* Accounts, numbers and the proofs that they belong together *)

FileOf(k) == k[1]
AccountOf(k) == k[2]
NumberIn(k) == NumberOf[FileOf(k)]
Binding(p, k) == <<cached[p], NumberIn(k)>>

Imported == {k \in Keys : imports[k] # None}
Active == {k \in Imported : ~ imports[k].undone}

ConfirmedBy(k, account, binding) ==
    /\ AccountOf(k) = account
    /\ imports[k].binding = binding
    /\ imports[k].proof # None
Confirmed(account, binding) == \E k \in Imported : ConfirmedBy(k, account, binding)

\* Only the trades of the account itself repeat in the statement.
MayOverlap(k) == OwnerOf[NumberIn(k)] = AccountOf(k)

\* Variant: the original proof is not copied to the new import.
KeptProof == None
Previous == "previous"

\* The proofs a check can come to, by what the API shows it; none: refused.
ProofsFor(p, k) ==
    IF NumberIn(k) \in SuffixOf[AccountOf(k)] THEN {"suffix"}
    ELSE (IF MayOverlap(k) THEN {"overlap"} ELSE {})
         \union (IF Confirmed(AccountOf(k), Binding(p, k)) THEN {Previous} ELSE {})

-----------------------------------------------------------------------------
(* Comparing a file with the stored trades *)

ActiveTrades(account) ==
    UNION {TradesOf[FileOf(j)] : j \in {i \in Active : AccountOf(i) = account}}

\* A trade with an equal among the stored ones matches it, whatever the others.
InConflict(k) ==
    LET stored == ActiveTrades(AccountOf(k)) IN
    ((TradesOf[FileOf(k)] \ stored) \X stored) \intersect Clashes # {}

-----------------------------------------------------------------------------
(* Previews *)

KnownSalt == salt

\* The salt of a process: the stored one, or one it keeps to itself for now.
Hash(p) ==
    /\ cached[p] = None
    /\ \/ /\ KnownSalt # None
          /\ cached' = [cached EXCEPT ![p] = KnownSalt]
          /\ UNCHANGED drawn
       \/ /\ KnownSalt = None
          /\ \E s \in Salts \ drawn :
                /\ cached' = [cached EXCEPT ![p] = s]
                /\ drawn' = drawn \union {s}
    /\ UNCHANGED <<store, previews, call>>

Fits(kept) == Cardinality(kept) < MaxPreviews

\* The expired go, and the oldest one when there are too many.
Preview(p, k) ==
    /\ cached[p] # None
    /\ ProofsFor(p, k) # {}
    /\ ~ InConflict(k)
    /\ \E kept \in SUBSET (previews[p] \ {k}) :
          /\ Fits(kept)
          /\ previews' = [previews EXCEPT ![p] = kept \union {k}]
    /\ UNCHANGED <<store, cached, drawn, call>>

-----------------------------------------------------------------------------
(* Applying *)

Goto(p, c) == call' = [call EXCEPT ![p] = c]

Begin(p, k) ==
    /\ call[p] = NoCall
    /\ k \in previews[p]
    /\ Goto(p, [pc |-> "check", key |-> k])
    /\ UNCHANGED <<store, cached, drawn, previews>>

\* The API is read again and the account proved again.
Check(p) ==
    /\ call[p].pc = "check"
    /\ ~ InConflict(call[p].key)
    /\ \E proof \in ProofsFor(p, call[p].key) :
          Goto(p, [pc |-> "store", key |-> call[p].key, proof |-> proof])
    /\ UNCHANGED <<store, cached, drawn, previews>>

\* Refused by a check, or the transaction failed and was rolled back.
Refuse(p) ==
    /\ call[p] # NoCall
    /\ Goto(p, NoCall)
    /\ UNCHANGED <<store, cached, drawn, previews>>

\* Variant: undone imports bind nothing.
DisagreesWithActive(p, k) ==
    \E j \in Active :
        (AccountOf(j) = AccountOf(k)) # (imports[j].binding = Binding(p, k))
\* Variant: an account may be bound to a second number.
DisagreesByBinding(p, k) ==
    \E j \in Imported :
        AccountOf(j) # AccountOf(k) /\ imports[j].binding = Binding(p, k)
Disagrees(p, k) ==
    \E j \in Imported :
        (AccountOf(j) = AccountOf(k)) # (imports[j].binding = Binding(p, k))

Verified(p, k) == call[p].proof # None \/ Confirmed(AccountOf(k), Binding(p, k))

\* Variant: the stored trades are compared only by the check.
OnlyChecked(k) == TRUE
Revalidated(k) == ~ InConflict(k)

StoredSalt(p) == IF salt = None THEN cached[p] ELSE salt

Stored(p, k) == [binding |-> Binding(p, k), proof |-> call[p].proof, undone |-> FALSE]

Store(p) ==
    /\ call[p].pc = "store"
    /\ LET k == call[p].key IN
        /\ ~ Disagrees(p, k)
        /\ Verified(p, k)
        /\ \/ /\ k \in Active               \* imported already
              /\ UNCHANGED <<imports, rows>>
           \/ /\ k \notin Active
              /\ Revalidated(k)
              /\ imports' = [imports EXCEPT ![k] = Stored(p, k)]
              /\ rows' = [rows EXCEPT ![k] = @ \union {Binding(p, k)}]
    /\ salt' = StoredSalt(p)
    /\ Goto(p, NoCall)
    /\ UNCHANGED <<cached, drawn, previews>>

-----------------------------------------------------------------------------
(* Undoing, and the end of a process *)

Undo(k) ==
    /\ k \in Imported
    /\ imports' = [imports EXCEPT ![k].undone = TRUE]
    /\ UNCHANGED <<salt, rows, cached, drawn, previews, call>>

Restart(p) ==
    /\ cached' = [cached EXCEPT ![p] = None]
    /\ previews' = [previews EXCEPT ![p] = {}]
    /\ Goto(p, NoCall)
    /\ UNCHANGED <<store, drawn>>

Next ==
    \/ \E p \in Processes :
        \/ Hash(p) \/ Check(p) \/ Refuse(p) \/ Store(p) \/ Restart(p)
        \/ \E k \in Keys : Preview(p, k) \/ Begin(p, k)
    \/ \E k \in Keys : Undo(k)

Spec == Init /\ [][Next]_vars

-----------------------------------------------------------------------------
(* Properties *)

\* Accounts and stored account ids are paired one to one, in undone imports
\* too, whichever processes stored them (STATEMENT_ACCOUNT_BINDING_CONFLICT).
BindingOneToOne ==
    \A j, k \in Imported :
        AccountOf(j) = AccountOf(k) <=> imports[j].binding = imports[k].binding

\* However often a file is undone and applied again, by whatever process, its
\* rows are stored once: the second time they hash to what is there.
RowsOnce == \A k \in Keys : Cardinality(rows[k]) <= 1

\* Trades that clash are active together only if one statement of the account
\* shows both, undone since or not: no interleaving of checks, stores and
\* undos lets the second of two disagreeing files in (STATEMENT_CONFLICT).
ClashesShownTogether ==
    \A a \in Accounts :
        \A c \in (ActiveTrades(a) \X ActiveTrades(a)) \intersect Clashes :
            \E k \in Imported : AccountOf(k) = a /\ {c[1], c[2]} \subseteq TradesOf[FileOf(k)]

\* What once proved an account stays proved: neither undoing nor applying
\* again, when the API no longer shows the overlap, loses the evidence
\* (previous_confirmation).
ConfirmationLasts ==
    [][\A a \in Accounts, b \in Bindings : Confirmed(a, b) => Confirmed(a, b)']_vars

\* Accounts and printed numbers are paired one to one.
NumberOneToOne ==
    \A j, k \in Imported : AccountOf(j) = AccountOf(k) <=> NumberIn(j) = NumberIn(k)

\* Applying an active file to its account again is not refused as a
\* disagreement with the ledger (apply_statement_import).
ReapplyIsNoOp ==
    \A p \in Processes :
        call[p].pc = "store" /\ call[p].key \in Active => ~ Disagrees(p, call[p].key)
=============================================================================
