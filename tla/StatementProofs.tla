--------------------------- MODULE StatementProofs ---------------------------
(***************************************************************************)
(* Proofs about what is known from outside the books.                      *)
(*                                                                         *)
(* Statements: what a transaction checks under the database's lock carries *)
(* the store's properties; the pairing of accounts with printed numbers    *)
(* needs one salt as well, which only a single process at a time           *)
(* guarantees.  Flow records: a whole window and a file leave no move of   *)
(* theirs unknown, so a day without doubt has all of its moves.  Evidence: *)
(* a page without orders, read after the positions, says that orders which *)
(* held cash had closed.  Captures: money that both venues counted was     *)
(* read at least a flight apart, which no span of one boundary is.         *)
(***************************************************************************)
EXTENDS MCStatement, FiniteSetTheorems, TLAPS

Typed ==
    /\ salt \in Salts \union {None}
    /\ cached \in [Processes -> Salts \union {None}]
    /\ drawn \subseteq Salts
    /\ previews \in [Processes -> SUBSET Keys]
    /\ call \in [Processes -> Call]
    /\ \A p \in Processes : previews[p] # {} \/ call[p] # NoCall => cached[p] # None
    /\ imports \in [Keys -> Import \union {None}]
    /\ rows \in [Keys -> SUBSET Bindings]

FewPreviews ==
    \A p \in Processes :
        IsFiniteSet(previews[p]) /\ Cardinality(previews[p]) <= MaxPreviews

\* Whatever is stored or about to be stored carries a proof.
Proved ==
    /\ \A p \in Processes : call[p].pc = "store" => call[p].proof # None
    /\ \A k \in Imported : imports[k].proof # None

RowsInv ==
    \A k \in Keys :
        IF k \in Imported THEN rows[k] \subseteq {imports[k].binding} ELSE rows[k] = {}

\* The stored salt is everyone's, and every import is hashed with it.
OneSalt ==
    /\ salt # None => \A p \in Processes : cached[p] \in {None, salt}
    /\ \A k \in Imported : salt # None /\ imports[k].binding = <<salt, NumberIn(k)>>

-----------------------------------------------------------------------------
(* Types *)

LEMMA CallTypes ==
    ASSUME NEW c \in Call
    PROVE  /\ c = NoCall \/ c.key \in Keys
           /\ c.pc = "idle" <=> c = NoCall
           /\ c.pc = "store" => c.proof \in Proofs \union {None}
  BY DEF Call, NoCall

LEMMA ProofTypes ==
    ASSUME NEW p \in Processes, NEW k \in Keys
    PROVE  ProofsFor(p, k) \subseteq Proofs
  BY DEF ProofsFor, Proofs, Previous

LEMMA KeyTypes ==
    ASSUME NEW k \in Keys
    PROVE  FileOf(k) \in Files /\ AccountOf(k) \in Accounts /\ NumberIn(k) \in Numbers
  BY FileAssumption DEF Keys, FileOf, AccountOf, NumberIn

LEMMA TypedStep ==
    ASSUME Typed, [Next]_vars PROVE Typed'
<1> USE NoneAssumption DEF Typed, store
<1>1. ASSUME NEW p \in Processes, Hash(p) PROVE Typed'
  BY <1>1 DEF Hash, KnownSalt
<1>2. ASSUME NEW p \in Processes, NEW k \in Keys, Preview(p, k) PROVE Typed'
  BY <1>2 DEF Preview
<1>3. ASSUME NEW p \in Processes, NEW k \in Keys, Begin(p, k) PROVE Typed'
  <2>1. [pc |-> "check", key |-> k] \in Call
    BY DEF Call
  <2> QED
    BY <1>3, <2>1 DEF Begin, Goto
<1>4. ASSUME NEW p \in Processes, Check(p) PROVE Typed'
  <2>1. call[p].key \in Keys /\ call[p] # NoCall
    BY <1>4, CallTypes DEF Check, NoCall
  <2>2. PICK proof \in Proofs : call' = [call EXCEPT ![p] =
            [pc |-> "store", key |-> call[p].key, proof |-> proof]]
    BY <1>4, <2>1, ProofTypes DEF Check, Goto
  <2>3. [pc |-> "store", key |-> call[p].key, proof |-> proof] \in Call
    BY <2>1 DEF Call
  <2> QED
    BY <1>4, <2>1, <2>2, <2>3 DEF Check
<1>5. ASSUME NEW p \in Processes, Refuse(p) PROVE Typed'
  BY <1>5 DEF Refuse, Goto, Call
<1>6. ASSUME NEW p \in Processes, Store(p) PROVE Typed'
  <2> DEFINE k == call[p].key
  <2>1. k \in Keys /\ call[p] # NoCall /\ call[p].proof \in Proofs \union {None}
    BY <1>6, CallTypes DEF Store, NoCall
  <2>2. cached[p] \in Salts
    BY <2>1
  <2>3. Binding(p, k) \in Bindings
    BY <2>1, <2>2, KeyTypes DEF Binding, Bindings
  <2>4. Stored(p, k) \in Import
    BY <2>1, <2>3 DEF Stored, Import
  <2>5. imports' \in [Keys -> Import \union {None}] /\ rows' \in [Keys -> SUBSET Bindings]
    BY <1>6, <2>3, <2>4 DEF Store
  <2>6. salt' \in Salts \union {None}
    BY <1>6, <2>2 DEF Store, StoredSalt
  <2> QED
    BY <1>6, <2>5, <2>6 DEF Store, Goto, Call
<1>7. ASSUME NEW k \in Keys, Undo(k) PROVE Typed'
  <2>1. imports[k] \in Import
    BY <1>7 DEF Undo, Imported
  <2>2. [imports[k] EXCEPT !.undone = TRUE] \in Import
    BY <2>1 DEF Import
  <2> QED
    BY <1>7, <2>2 DEF Undo
<1>8. ASSUME NEW p \in Processes, Restart(p) PROVE Typed'
  BY <1>8 DEF Restart, Goto, Call
<1>9. CASE UNCHANGED vars
  BY <1>9 DEF vars
<1> QED
  BY <1>1, <1>2, <1>3, <1>4, <1>5, <1>6, <1>7, <1>8, <1>9 DEF Next

LEMMA FewPreviewsStep ==
    ASSUME Typed, FewPreviews, [Next]_vars PROVE FewPreviews'
<1> USE DEF Typed
<1>1. ASSUME NEW p \in Processes, NEW k \in Keys, Preview(p, k) PROVE FewPreviews'
  <2>1. PICK kept \in SUBSET (previews[p] \ {k}) :
            Cardinality(kept) < MaxPreviews
            /\ previews' = [previews EXCEPT ![p] = kept \union {k}]
    BY <1>1 DEF Preview, Fits
  <2>2. IsFiniteSet(kept)
    BY <2>1, FS_Subset DEF FewPreviews
  <2>3. IsFiniteSet(kept \union {k}) /\ Cardinality(kept \union {k}) <= MaxPreviews
    <3>1. k \notin kept /\ Cardinality(kept) \in Nat
      BY <2>2, FS_CardinalityType
    <3>2. /\ IsFiniteSet(kept \union {k})
          /\ Cardinality(kept \union {k}) = Cardinality(kept) + 1
      BY <2>2, <3>1, FS_AddElement
    <3> HIDE DEF Typed
    <3> QED
      BY <2>1, <3>1, <3>2, PreviewAssumption
  <2> QED
    BY <2>1, <2>3 DEF FewPreviews
<1>2. ASSUME NEW p \in Processes, Restart(p) PROVE FewPreviews'
  BY <1>2, FS_EmptySet, PreviewAssumption DEF Restart, FewPreviews
<1>3. CASE UNCHANGED previews
  BY <1>3 DEF FewPreviews
<1> QED
  BY <1>1, <1>2, <1>3 DEF Next, vars, Hash, Begin, Check, Refuse, Store, Undo

-----------------------------------------------------------------------------
(* What a transaction changes *)

\* A store transaction either adds or revives the import k, as p hashes it,
\* or leaves the tables alone.
Stores(p, k) ==
    /\ k \in Keys
    /\ call[p].pc = "store"
    /\ k = call[p].key
    /\ ~ Disagrees(p, k)
    /\ k \notin Active
    /\ Revalidated(k)
    /\ imports' = [imports EXCEPT ![k] = Stored(p, k)]
    /\ rows' = [rows EXCEPT ![k] = @ \union {Binding(p, k)}]

Undoes(k) ==
    /\ k \in Imported
    /\ imports' = [imports EXCEPT ![k].undone = TRUE]
    /\ rows' = rows

LEMMA TableSteps ==
    ASSUME Typed, [Next]_vars
    PROVE  \/ \E p \in Processes, k \in Keys : Stores(p, k)
           \/ \E k \in Keys : Undoes(k)
           \/ UNCHANGED <<imports, rows>>
<1>1. ASSUME NEW p \in Processes, Store(p)
      PROVE  (\E k \in Keys : Stores(p, k)) \/ UNCHANGED <<imports, rows>>
  <2>1. call[p].key \in Keys
    BY <1>1, CallTypes DEF Store, Typed, NoCall
  <2> QED
    BY <1>1, <2>1 DEF Store, Stores
<1>2. ASSUME NEW k \in Keys, Undo(k) PROVE Undoes(k)
  BY <1>2 DEF Undo, Undoes
<1> QED
  BY <1>1, <1>2 DEF Next, vars, store, Hash, Preview, Begin, Check, Refuse, Restart

\* What the tables say after each of them.
LEMMA AfterStores ==
    ASSUME Typed, NEW p \in Processes, NEW k \in Keys, Stores(p, k)
    PROVE  /\ Imported' = Imported \union {k}
           /\ Active' = Active \union {k}
           /\ imports'[k].binding = Binding(p, k)
           /\ imports'[k].proof = call[p].proof
           /\ \A j \in Keys : j # k => imports'[j] = imports[j] /\ rows'[j] = rows[j]
           /\ rows'[k] = rows[k] \union {Binding(p, k)}
           /\ k \in Imported => imports[k].binding = Binding(p, k)
<1>1. Stored(p, k) # None
  <2>1. cached[p] \in Salts
    BY NoneAssumption DEF Stores, Typed, NoCall
  <2>2. call[p].proof \in Proofs \union {None}
    BY CallTypes DEF Stores, Typed
  <2>3. Stored(p, k) \in Import
    BY <2>1, <2>2, KeyTypes DEF Stored, Import, Binding, Bindings
  <2> QED
    BY <2>3, ImportAssumption
<1>2. /\ ~ Stored(p, k).undone
      /\ Stored(p, k).binding = Binding(p, k)
      /\ Stored(p, k).proof = call[p].proof
  BY DEF Stored
<1> QED
  BY <1>1, <1>2 DEF Stores, Imported, Active, Typed, Disagrees

LEMMA AfterUndoes ==
    ASSUME Typed, NEW k \in Keys, Undoes(k)
    PROVE  /\ Imported' = Imported
           /\ Active' = Active \ {k}
           /\ \A j \in Keys : j # k => imports'[j] = imports[j]
           /\ imports'[k].binding = imports[k].binding
           /\ imports'[k].proof = imports[k].proof
           /\ rows' = rows
<1>1. imports[k] \in Import
  BY DEF Undoes, Imported, Typed
<1>2. [imports[k] EXCEPT !.undone = TRUE] \in Import
  BY <1>1 DEF Import
<1>3. imports' = [imports EXCEPT ![k] = [imports[k] EXCEPT !.undone = TRUE]]
  BY DEF Undoes
<1>4. /\ imports'[k] = [imports[k] EXCEPT !.undone = TRUE]
      /\ \A j \in Keys : j # k => imports'[j] = imports[j]
  BY <1>3 DEF Typed
<1>5. /\ imports'[k].binding = imports[k].binding
      /\ imports'[k].proof = imports[k].proof
      /\ imports'[k].undone
  BY <1>1, <1>4 DEF Import
<1>6. imports[k] # None /\ imports'[k] # None
  BY <1>1, <1>2, <1>4, ImportAssumption
<1>7. Imported' = Imported
  BY <1>4, <1>6 DEF Imported
<1>8. Active' = Active \ {k}
  BY <1>4, <1>5, <1>7 DEF Active, Imported
<1> QED
  BY <1>4, <1>5, <1>7, <1>8 DEF Undoes

-----------------------------------------------------------------------------
(* The store's properties *)

LEMMA PairsStep ==
    ASSUME Typed, BindingOneToOne, [Next]_vars PROVE BindingOneToOne'
<1> USE DEF BindingOneToOne
<1>1. ASSUME NEW p \in Processes, NEW k \in Keys, Stores(p, k) PROVE BindingOneToOne'
  <2>1. imports'[k].binding = Binding(p, k)
    BY <1>1, AfterStores
  <2>2. \A j \in Imported :
            (AccountOf(j) = AccountOf(k)) <=> (imports[j].binding = Binding(p, k))
    BY <1>1 DEF Stores, Disagrees
  <2> QED
    BY <1>1, <2>1, <2>2, AfterStores DEF Imported
<1>2. ASSUME NEW k \in Keys, Undoes(k) PROVE BindingOneToOne'
  BY <1>2, AfterUndoes DEF Imported
<1>3. CASE UNCHANGED <<imports, rows>>
  BY <1>3 DEF Imported
<1> QED
  BY <1>1, <1>2, <1>3, TableSteps

LEMMA RowsStep ==
    ASSUME Typed, RowsInv, [Next]_vars PROVE RowsInv'
<1> USE DEF RowsInv
<1>1. ASSUME NEW p \in Processes, NEW k \in Keys, Stores(p, k) PROVE RowsInv'
  <2>1. imports'[k].binding = Binding(p, k)
    BY <1>1, AfterStores
  <2>2. rows'[k] \subseteq {Binding(p, k)}
    BY <1>1, AfterStores
  <2> QED
    BY <1>1, <2>1, <2>2, AfterStores
<1>2. ASSUME NEW k \in Keys, Undoes(k) PROVE RowsInv'
  BY <1>2, AfterUndoes
<1>3. CASE UNCHANGED <<imports, rows>>
  BY <1>3 DEF Imported
<1> QED
  BY <1>1, <1>2, <1>3, TableSteps

LEMMA TradeActive ==
    ASSUME NEW a \in Accounts, NEW t
    PROVE  t \in ActiveTrades(a) <=>
               \E j \in Active : AccountOf(j) = a /\ t \in TradesOf[FileOf(j)]
  BY DEF ActiveTrades

LEMMA ClashStep ==
    ASSUME Typed, ClashesShownTogether, [Next]_vars PROVE ClashesShownTogether'
<1>1. ASSUME NEW p \in Processes, NEW k \in Keys, Stores(p, k) PROVE ClashesShownTogether'
  <2>1. Imported' = Imported \union {k} /\ Active' = Active \union {k}
    BY <1>1, AfterStores
  <2>2. SUFFICES ASSUME NEW a \in Accounts, NEW t, NEW u, <<t, u>> \in Clashes,
                        NEW i \in Active', AccountOf(i) = a, t \in TradesOf[FileOf(i)],
                        NEW j \in Active', AccountOf(j) = a, u \in TradesOf[FileOf(j)]
                 PROVE  \E m \in Imported' : AccountOf(m) = a /\ {t, u} \subseteq TradesOf[FileOf(m)]
    <3>1. ASSUME NEW a \in Accounts,
                 NEW c \in (ActiveTrades(a)' \X ActiveTrades(a)') \intersect Clashes
          PROVE  \E m \in Imported' : AccountOf(m) = a /\ {c[1], c[2]} \subseteq TradesOf[FileOf(m)]
      <4>1. c = <<c[1], c[2]>> /\ c[1] \in ActiveTrades(a)' /\ c[2] \in ActiveTrades(a)'
        OBVIOUS
      <4>2. PICK i \in Active' : AccountOf(i) = a /\ c[1] \in TradesOf[FileOf(i)]
        BY <4>1 DEF ActiveTrades, AccountOf, FileOf
      <4>3. PICK j \in Active' : AccountOf(j) = a /\ c[2] \in TradesOf[FileOf(j)]
        BY <4>1 DEF ActiveTrades, AccountOf, FileOf
      <4> QED
        BY <2>2, <4>1, <4>2, <4>3
    <3> QED
      BY <3>1 DEF ClashesShownTogether, AccountOf, FileOf
  <2>3. t \in ActiveTrades(a) \/ (i = k /\ t \notin ActiveTrades(a))
    BY <2>1, <2>2, TradeActive
  <2>4. u \in ActiveTrades(a) \/ (j = k /\ u \notin ActiveTrades(a))
    BY <2>1, <2>2, TradeActive
  <2>5. CASE t \in ActiveTrades(a) /\ u \in ActiveTrades(a)
    <3>1. <<t, u>> \in (ActiveTrades(a) \X ActiveTrades(a)) \intersect Clashes
      BY <2>2, <2>5
    <3>2. \E m \in Imported : AccountOf(m) = a /\ {t, u} \subseteq TradesOf[FileOf(m)]
      BY <3>1 DEF ClashesShownTogether
    <3> QED
      BY <2>1, <3>2
  <2>6. \A r, e : r \in TradesOf[FileOf(k)] /\ r \notin ActiveTrades(AccountOf(k))
                    /\ e \in ActiveTrades(AccountOf(k)) => <<r, e>> \notin Clashes
    BY <1>1 DEF Stores, Revalidated, InConflict
  <2>7. <<u, t>> \in Clashes
    BY <2>2, FileAssumption
  <2>8. CASE t \notin ActiveTrades(a) /\ u \in ActiveTrades(a)
    BY <2>2, <2>3, <2>6, <2>8
  <2>9. CASE t \in ActiveTrades(a) /\ u \notin ActiveTrades(a)
    BY <2>2, <2>4, <2>6, <2>7, <2>9
  <2>10. CASE t \notin ActiveTrades(a) /\ u \notin ActiveTrades(a)
    BY <2>1, <2>2, <2>3, <2>4, <2>10
  <2> QED
    BY <2>5, <2>8, <2>9, <2>10
<1>2. ASSUME NEW k \in Keys, Undoes(k) PROVE ClashesShownTogether'
  <2>1. Imported' = Imported /\ Active' \subseteq Active
    BY <1>2, AfterUndoes
  <2>2. \A a \in Accounts : ActiveTrades(a)' \subseteq ActiveTrades(a)
    BY <2>1 DEF ActiveTrades, AccountOf, FileOf
  <2> QED
    BY <2>1, <2>2 DEF ClashesShownTogether, AccountOf, FileOf
<1>3. CASE UNCHANGED <<imports, rows>>
  BY <1>3 DEF ClashesShownTogether, ActiveTrades, Active, Imported, AccountOf, FileOf
<1> QED
  BY <1>1, <1>2, <1>3, TableSteps

LEMMA ProvedStep ==
    ASSUME Typed, Proved, [Next]_vars PROVE Proved'
<1>1. (\A p \in Processes : call[p].pc = "store" => call[p].proof # None)'
  <2>1. ASSUME NEW p \in Processes, Check(p)
        PROVE  \A q \in Processes : call'[q].pc = "store" => call'[q].proof # None
    <3>1. call[p].key \in Keys
      BY <2>1, CallTypes DEF Check, Typed, NoCall
    <3>2. PICK proof \in Proofs : call' = [call EXCEPT ![p] =
              [pc |-> "store", key |-> call[p].key, proof |-> proof]]
      BY <2>1, <3>1, ProofTypes DEF Check, Goto
    <3> QED
      BY <3>2, NoneAssumption DEF Proved, Typed
  <2>2. ASSUME NEW p \in Processes, NEW k \in Keys, Begin(p, k)
        PROVE  \A q \in Processes : call'[q].pc = "store" => call'[q].proof # None
    BY <2>2 DEF Begin, Goto, Proved, Typed
  <2>3. ASSUME NEW p \in Processes, Refuse(p) \/ Store(p) \/ Restart(p)
        PROVE  \A q \in Processes : call'[q].pc = "store" => call'[q].proof # None
    BY <2>3 DEF Refuse, Store, Restart, Goto, NoCall, Proved, Typed
  <2>4. CASE UNCHANGED call
    BY <2>4 DEF Proved
  <2> QED
    BY <2>1, <2>2, <2>3, <2>4 DEF Next, vars, Hash, Preview, Undo
<1>2. (\A k \in Imported : imports[k].proof # None)'
  <2>1. ASSUME NEW p \in Processes, NEW k \in Keys, Stores(p, k)
        PROVE  \A j \in Imported' : imports'[j].proof # None
    <3>1. call[p].proof # None
      BY <2>1 DEF Stores, Proved
    <3>2. imports'[k].proof # None
      BY <2>1, <3>1, AfterStores
    <3>3. \A j \in Imported : j # k => imports'[j] = imports[j]
      BY <2>1, AfterStores DEF Imported
    <3>4. Imported' = Imported \union {k}
      BY <2>1, AfterStores
    <3> QED
      BY <3>2, <3>3, <3>4 DEF Proved
  <2>2. ASSUME NEW k \in Keys, Undoes(k) PROVE \A j \in Imported' : imports'[j].proof # None
    BY <2>2, AfterUndoes DEF Proved, Imported
  <2>3. CASE UNCHANGED <<imports, rows>>
    BY <2>3 DEF Proved, Imported
  <2> QED
    BY <2>1, <2>2, <2>3, TableSteps
<1> QED
  BY <1>1, <1>2 DEF Proved

LEMMA Checked ==
    Spec => [](/\ Typed /\ FewPreviews /\ Proved
               /\ BindingOneToOne /\ RowsInv /\ ClashesShownTogether)
<1>1. Init => /\ Typed /\ FewPreviews /\ Proved
              /\ BindingOneToOne /\ RowsInv /\ ClashesShownTogether
  BY FS_EmptySet, PreviewAssumption
  DEF Init, Typed, FewPreviews, Proved, BindingOneToOne, RowsInv, ClashesShownTogether,
      ActiveTrades, Imported, Active, Call, NoCall
<1> QED
  BY <1>1, TypedStep, FewPreviewsStep, ProvedStep, PairsStep, RowsStep, ClashStep, PTL
  DEF Spec

(* The tables, previews and calls are well typed. *)
THEOREM StatementTypes == Spec => []TypeOK
<1>1. Typed /\ FewPreviews => TypeOK
  BY DEF Typed, FewPreviews, TypeOK
<1> QED
  BY <1>1, Checked, PTL

(* Accounts and stored account ids stay paired, whatever salts the         *)
(* processes hash with (StatementStore.apply).                             *)
THEOREM StatementBindings == Spec => []BindingOneToOne
  BY Checked, PTL

(* Undoing and applying again stores no row a second time (the row hash).  *)
THEOREM StatementRowsOnce == Spec => []RowsOnce
<1>1. RowsInv => RowsOnce
  <2> SUFFICES ASSUME RowsInv, NEW k \in Keys PROVE Cardinality(rows[k]) <= 1
    BY DEF RowsOnce
  <2>1. rows[k] = {} \/ rows[k] = {imports[k].binding}
    BY DEF RowsInv
  <2>2. CASE rows[k] = {}
    BY <2>2, FS_EmptySet
  <2>3. CASE rows[k] = {imports[k].binding}
    <3>1. Cardinality({imports[k].binding}) = 1
      BY FS_Singleton
    <3> QED
      BY <2>3, <3>1
  <2> QED
    BY <2>1, <2>2, <2>3
<1> QED
  BY <1>1, Checked, PTL

(* The comparison under the database's lock lets no clash between two       *)
(* statements in (StatementStore.apply).                                    *)
THEOREM StatementClashes == Spec => []ClashesShownTogether
  BY Checked, PTL

(* The evidence that binds an account survives every later import and undo *)
(* (previous_confirmation).                                                *)
THEOREM StatementConfirmationLasts == Spec => ConfirmationLasts
<1> DEFINE Lasts == \A a \in Accounts, b \in Bindings : Confirmed(a, b) => Confirmed(a, b)'
<1>1. ASSUME Typed, Proved, [Next]_vars PROVE Lasts
  <2> SUFFICES ASSUME NEW a \in Accounts, NEW b \in Bindings, Confirmed(a, b)
               PROVE  Confirmed(a, b)'
    OBVIOUS
  <2>1. PICK j \in Imported : ConfirmedBy(j, a, b)
    BY DEF Confirmed
  <2>2. j \in Keys
    BY <2>1 DEF Imported
  <2>3. j \in Imported' /\ imports'[j].binding = b /\ imports'[j].proof # None
    <3>1. ASSUME NEW p \in Processes, NEW k \in Keys, Stores(p, k)
          PROVE  j \in Imported' /\ imports'[j].binding = b /\ imports'[j].proof # None
      <4>1. call[p].proof # None
        BY <1>1, <3>1 DEF Stores, Proved
      <4>2. CASE j = k
        BY <1>1, <2>1, <3>1, <4>1, <4>2, AfterStores DEF ConfirmedBy
      <4>3. CASE j # k
        BY <1>1, <2>1, <2>2, <3>1, <4>3, AfterStores DEF ConfirmedBy
      <4> QED
        BY <4>2, <4>3
    <3>2. ASSUME NEW k \in Keys, Undoes(k)
          PROVE  j \in Imported' /\ imports'[j].binding = b /\ imports'[j].proof # None
      BY <1>1, <2>1, <2>2, <3>2, AfterUndoes DEF ConfirmedBy
    <3>3. CASE UNCHANGED <<imports, rows>>
      BY <2>1, <3>3 DEF ConfirmedBy, Imported
    <3> QED
      BY <1>1, <3>1, <3>2, <3>3, TableSteps
  <2> QED
    BY <2>1, <2>3 DEF Confirmed, ConfirmedBy
<1> QED
  BY <1>1, Checked, PTL DEF Spec, ConfirmationLasts

-----------------------------------------------------------------------------
(* One process at a time *)

OneProcess == \A p, q \in Processes : p = q

LEMMA OneSaltStep ==
    ASSUME OneProcess, Typed, OneSalt, [Next]_vars PROVE OneSalt'
<1> USE NoneAssumption DEF Typed, OneSalt
<1>1. ASSUME NEW p \in Processes, Hash(p) PROVE OneSalt'
  BY <1>1 DEF Hash, KnownSalt, store, Imported
<1>2. ASSUME NEW p \in Processes, Store(p) PROVE OneSalt'
  <2> DEFINE k == call[p].key
  <2>1. k \in Keys /\ cached[p] \in Salts
    BY <1>2, CallTypes DEF Store, NoCall
  <2>2. salt' = cached[p]
    BY <1>2, <2>1 DEF Store, StoredSalt
  <2>3. \A q \in Processes : cached'[q] \in {None, salt'}
    BY <1>2, <2>2 DEF Store, OneProcess
  <2>4. \A j \in Imported : salt' # None /\ imports[j].binding = <<salt', NumberIn(j)>>
    BY <2>1, <2>2
  <2>5. CASE UNCHANGED <<imports, rows>>
    BY <2>3, <2>4, <2>5 DEF Imported
  <2>6. CASE Stores(p, k)
    <3>1. imports'[k].binding = <<salt', NumberIn(k)>> /\ salt' # None
      BY <2>1, <2>2, <2>6, AfterStores DEF Binding
    <3> QED
      BY <2>1, <2>3, <2>4, <2>6, <3>1, AfterStores DEF Imported
  <2> QED
    BY <1>2, <2>1, <2>5, <2>6 DEF Store, Stores
<1>3. ASSUME NEW k \in Keys, Undo(k) PROVE OneSalt'
  <2>1. Undoes(k)
    BY <1>3 DEF Undo, Undoes
  <2> QED
    BY <1>3, <2>1, AfterUndoes DEF Undo, Imported
<1>4. ASSUME NEW p \in Processes, Restart(p) PROVE OneSalt'
  BY <1>4 DEF Restart, store, Imported
<1>5. CASE UNCHANGED <<store, cached>>
  BY <1>5 DEF store, Imported
<1> QED
  BY <1>1, <1>2, <1>3, <1>4, <1>5 DEF Next, vars, Preview, Begin, Check, Refuse

LEMMA OneSaltKept ==
    ASSUME OneProcess PROVE Spec => []OneSalt
<1>1. Init => OneSalt
  BY DEF Init, OneSalt, Imported
<1>2. Typed /\ OneSalt /\ [Next]_vars => OneSalt'
  BY OneSaltStep
<1> QED
  BY <1>1, <1>2, Checked, PTL DEF Spec

(* With one process at a time no account gets a second number and no number *)
(* a second account, over any number of restarts.                           *)
THEOREM StatementNumbers ==
    ASSUME OneProcess PROVE Spec => []NumberOneToOne
<1>1. OneSalt /\ BindingOneToOne => NumberOneToOne
  BY DEF OneSalt, BindingOneToOne, NumberOneToOne
<1> QED
  BY <1>1, OneSaltKept, Checked, PTL

(* With one process at a time an active file is never refused as a          *)
(* disagreement when it is applied again.                                   *)
THEOREM StatementReapply ==
    ASSUME OneProcess PROVE Spec => []ReapplyIsNoOp
<1>1. ASSUME Typed, OneSalt, BindingOneToOne PROVE ReapplyIsNoOp
  <2> SUFFICES ASSUME NEW p \in Processes, call[p].pc = "store", call[p].key \in Active
               PROVE  ~ Disagrees(p, call[p].key)
    BY DEF ReapplyIsNoOp
  <2> DEFINE k == call[p].key
  <2>1. cached[p] # None /\ k \in Imported
    BY <1>1 DEF Typed, NoCall, Active
  <2>2. imports[k].binding = Binding(p, k)
    BY <1>1, <2>1 DEF OneSalt, Binding
  <2> QED
    BY <1>1, <2>1, <2>2 DEF BindingOneToOne, Disagrees
<1> QED
  BY <1>1, OneSaltKept, Checked, PTL

(***************************************************************************)
(* Flow records.                                                           *)
(***************************************************************************)
Windows == [stream : {"in", "out", "deposit", "none"}, from : Int, to : Int, whole : BOOLEAN]

FlowTyped ==
    /\ clock \in Nat /\ when \in [Moves -> Nat]
    /\ told \subseteq Moves /\ settled \subseteq told /\ filed \subseteq Moves
    /\ doubts \in [Moves -> SUBSET Nat]
    /\ windows \subseteq Windows /\ fetch \in [now : Windows, count : Nat]
    /\ files \subseteq [from : Int, to : Int]
    /\ declared \in [floor : Int, before : Int]

(* A move is told of, or kept, after it happened, at its instant or another  *)
(* that is told; nobody else says otherwise.                                *)
AtTheirInstant ==
    /\ \A m \in told \cup filed : when[m] < clock
    /\ \A m \in Moves : when[m] \in Told(m)
    /\ \A m \in Moves \ told : doubts[m] = {}

(* A window that is whole, or will be noted as whole, is told of. *)
WindowsTold ==
    \A w \in windows \cup {fetch.now} : w.whole =>
        \A m \in Moves : KindOf[m] = w.stream /\ w.from <= when[m] /\ when[m] <= w.to => m \in told

(* The days of a file are kept, unless the venue told of them. *)
FilesKept ==
    \A f \in files : \A m \in Moves : DayOfInstant(when[m]) \in f.from..f.to => m \in told \cup filed

FiledPaired == {"filed"} \X filed \subseteq paired

FlowInv == FlowTyped /\ AtTheirInstant /\ WindowsTold /\ FilesKept /\ FiledPaired

LEMMA DayIsOver ==
    ASSUME NEW x \in Nat, NEW n \in Int, NEW c \in Nat, DayOfInstant(x) <= n, (n + 1) * DaySpan <= c
    PROVE  x < c
<1>1. DaySpan \in Nat \ {0}
  BY FlowRecordsAssumption
<1> DEFINE q == x \div DaySpan
<1>2. q \in Nat /\ x < (q + 1) * DaySpan
  BY <1>1, SMT
<1>3. q <= n
  BY DEF DayOfInstant
<1>4. PICK k \in Nat : n = q + k
  BY <1>2, <1>3, n - q \in Nat
<1> HIDE DEF q
<1>5. (q + 1) * DaySpan <= (n + 1) * DaySpan
  <2>1. (n + 1) * DaySpan = (q + 1) * DaySpan + k * DaySpan
    BY <1>1, <1>2, <1>4, SMT
  <2>2. k * DaySpan \in Nat /\ (q + 1) * DaySpan \in Nat
    BY <1>1, <1>2, <1>4, SMT
  <2> QED
    BY <2>1, <2>2
<1>6. (q + 1) * DaySpan \in Nat /\ (n + 1) * DaySpan \in Int
  BY <1>1, <1>2, SMT
<1> QED
  BY <1>2, <1>5, <1>6

LEMMA FlowInitially == FlowInit => FlowInv
<1> SUFFICES ASSUME FlowInit PROVE FlowInv
  OBVIOUS
<1>1. FlowTyped
  BY FlowRecordsAssumption DEF FlowInit, FlowTyped, Windows, NoFetch, NotDeclared
<1>2. AtTheirInstant
  BY DEF FlowInit, AtTheirInstant, Told
<1>3. WindowsTold
  BY DEF FlowInit, WindowsTold, NoFetch
<1>4. FilesKept /\ FiledPaired
  BY DEF FlowInit, FilesKept, FiledPaired
<1> QED
  BY <1>1, <1>2, <1>3, <1>4 DEF FlowInv

(* A step that moves no move, and forgets none. *)
LEMMA NothingForgotten ==
    ASSUME FlowInv, FlowTyped', UNCHANGED <<when, doubts>>, clock' >= clock,
           told \subseteq told', filed \subseteq filed', paired \subseteq paired',
           \A m \in (told' \ told) \cup (filed' \ filed) : when[m] < clock,
           {"filed"} \X (filed' \ filed) \subseteq paired',
           \A w \in windows' \cup {fetch'.now} :
               \/ w \in windows \cup {fetch.now}
               \/ w.whole => \A m \in Moves :
                     KindOf[m] = w.stream /\ w.from <= when[m] /\ when[m] <= w.to => m \in told',
           \A f \in files' :
               \/ f \in files
               \/ \A m \in Moves : DayOfInstant(when[m]) \in f.from..f.to => m \in told' \cup filed'
    PROVE  FlowInv'
<1>1. AtTheirInstant'
  <2>1. \A m \in Moves : when[m] \in Nat
    BY DEF FlowInv, FlowTyped
  <2>2. told' \subseteq Moves /\ filed' \subseteq Moves /\ clock \in Nat /\ clock' \in Nat
    BY DEF FlowInv, FlowTyped
  <2>3. \A m \in told' \cup filed' : when'[m] < clock'
    BY <2>1, <2>2 DEF FlowInv, AtTheirInstant
  <2> QED
    BY <2>3 DEF FlowInv, AtTheirInstant, Told
<1>2. WindowsTold'
  BY DEF FlowInv, WindowsTold
<1>3. FilesKept'
  BY DEF FlowInv, FilesKept, DayOfInstant
<1>4. FiledPaired'
  BY DEF FlowInv, FiledPaired
<1> QED
  BY <1>1, <1>2, <1>3, <1>4 DEF FlowInv

LEMMA FetchKept ==
    ASSUME FlowInv, NEW stream \in {"in", "out", "deposit"}, NEW from \in Int, NEW to \in Int,
           Fetch(stream, from, to)
    PROVE  FlowInv'
<1> DEFINE all == InStream(stream, from, to) \ {m \in told : doubts[m] # {}}
<1>1. PICK got \in SUBSET all, done \in SUBSET all :
          /\ done \subseteq got
          /\ told' = told \cup got /\ settled' = settled \cup done
          /\ fetch' = [now |-> [stream |-> stream, from |-> from, to |-> to, whole |-> ReadWhole(all \ got)],
                       count |-> fetch.count + 1]
  BY DEF Fetch
<1>2. to < clock /\ UNCHANGED <<clock, when, doubts, filed, paired, windows, files, declared>>
  BY DEF Fetch
<1>3. all \subseteq Moves /\ \A m \in all : when[m] < clock
  BY DEF InStream, Known
<1>4. fetch'.now \in Windows /\ fetch.count \in Nat
  BY <1>1 DEF Windows, ReadWhole, FlowInv, FlowTyped
<1>5. FlowTyped'
  BY <1>1, <1>2, <1>3, <1>4 DEF FlowInv, FlowTyped
<1>6. fetch'.now.whole => \A m \in Moves :
          KindOf[m] = stream /\ from <= when[m] /\ when[m] <= to => m \in told'
  <2> SUFFICES ASSUME fetch'.now.whole, NEW m \in Moves,
                      KindOf[m] = stream, from <= when[m], when[m] <= to
               PROVE  m \in told'
    OBVIOUS
  <2>1. all \ got = {}
    BY <1>1 DEF ReadWhole
  <2>2. when[m] < clock
    BY <1>2 DEF FlowInv, FlowTyped
  <2>3. m \in InStream(stream, from, to)
    BY <2>2 DEF InStream, Known
  <2> QED
    BY <1>1, <2>1, <2>3
<1>7. fetch'.now.stream = stream /\ fetch'.now.from = from /\ fetch'.now.to = to
  BY <1>1
<1> HIDE DEF all
<1>8. \A w \in windows' \cup {fetch'.now} :
          \/ w \in windows \cup {fetch.now}
          \/ w.whole => \A m \in Moves :
                KindOf[m] = w.stream /\ w.from <= when[m] /\ when[m] <= w.to => m \in told'
  BY <1>2, <1>6, <1>7
<1>9. clock' >= clock
  BY <1>2 DEF FlowInv, FlowTyped
<1>10. told \subseteq told' /\ \A m \in told' \ told : when[m] < clock
  BY <1>1, <1>3
<1> QED
  BY <1>2, <1>5, <1>8, <1>9, <1>10, NothingForgotten

LEMMA ContradictionKept ==
    ASSUME FlowInv, NEW m \in Moves, NEW t \in Nat, Contradicted(m, t)
    PROVE  FlowInv'
<1>1. /\ m \in told /\ m \notin filed /\ doubts[m] = {} /\ t < clock
      /\ doubts' = [doubts EXCEPT ![m] = {t}]
      /\ when' = when \/ when' = [when EXCEPT ![m] = t]
      /\ UNCHANGED <<clock, told, settled, filed, paired, windows, files, declared, fetch>>
  BY DEF Contradicted
<1>2. /\ when' \in [Moves -> Nat] /\ doubts' \in [Moves -> SUBSET Nat]
      /\ \A n \in Moves \ {m} : when'[n] = when[n] /\ doubts'[n] = doubts[n]
      /\ when'[m] \in {when[m], t} /\ doubts'[m] = {t}
  BY <1>1 DEF FlowInv, FlowTyped
<1>3. FlowTyped'
  BY <1>1, <1>2 DEF FlowInv, FlowTyped
<1>4. AtTheirInstant'
  <2>1. \A n \in told \cup filed : when'[n] < clock
    BY <1>1, <1>2 DEF FlowInv, FlowTyped, AtTheirInstant
  <2>2. when[m] = HappensAt[m]
    BY <1>1 DEF FlowInv, AtTheirInstant, Told
  <2>3. \A n \in Moves : when'[n] \in Told(n)'
    BY <1>2, <2>2 DEF FlowInv, AtTheirInstant, Told
  <2>4. \A n \in Moves \ told' : doubts'[n] = {}
    BY <1>1, <1>2 DEF FlowInv, AtTheirInstant
  <2> QED
    BY <1>1, <2>1, <2>3, <2>4 DEF AtTheirInstant
<1>5. WindowsTold'
  BY <1>1, <1>2 DEF FlowInv, WindowsTold
<1>6. FilesKept'
  BY <1>1, <1>2 DEF FlowInv, FilesKept, DayOfInstant
<1> QED
  BY <1>1, <1>3, <1>4, <1>5, <1>6 DEF FlowInv, FiledPaired

LEMMA FileKept ==
    ASSUME FlowInv, NEW from \in Int, NEW to \in Int, ImportFile(from, to)
    PROVE  FlowInv'
<1> DEFINE new == {m \in Known :
                      /\ DayOfInstant(when[m]) \in from..to /\ ~Superseded(m)
                      /\ ~(KindOf[m] = "deposit" /\ m \in told \cap WholeSecond)}
<1>1. /\ (to + 1) * DaySpan <= clock
      /\ files' = files \cup {[from |-> from, to |-> to]}
      /\ filed' = filed \cup new
      /\ paired' = paired \cup Matchable \cup ({"filed"} \X new)
      /\ UNCHANGED <<clock, when, told, settled, doubts, windows, declared, fetch>>
  BY DEF ImportFile
<1>2. new \subseteq Moves /\ \A m \in new : when[m] < clock
  BY DEF Known
<1>3. FlowTyped'
  BY <1>1, <1>2 DEF FlowInv, FlowTyped
<1>4. ASSUME NEW m \in Moves, DayOfInstant(when[m]) \in from..to
      PROVE  m \in told' \cup filed'
  <2>1. m \in Known
    <3>1. when[m] \in Nat /\ clock \in Nat /\ DayOfInstant(when[m]) <= to
      BY <1>4 DEF FlowInv, FlowTyped
    <3> QED
      BY <1>1, <3>1, DayIsOver DEF Known
  <2>2. Superseded(m) => m \in told
    BY DEF Superseded, FlowInv, WindowsTold
  <2> QED
    BY <1>1, <1>4, <2>1, <2>2
<1>5. \A f \in files' :
          \/ f \in files
          \/ \A m \in Moves : DayOfInstant(when[m]) \in f.from..f.to => m \in told' \cup filed'
  BY <1>1, <1>4
<1> HIDE DEF new
<1> QED
  BY <1>1, <1>2, <1>3, <1>5, NothingForgotten, clock \in Nat DEF FlowInv, FlowTyped

LEMMA FlowStep ==
    ASSUME FlowInv, [FlowNext]_flowVars PROVE FlowInv'
<1>0. clock \in Nat /\ LastDay \in Nat /\ DaySpan \in Nat \ {0} /\ FlowTyped
  BY FlowRecordsAssumption DEF FlowInv, FlowTyped
<1>1. CASE FlowTick
  <2>1. FlowTyped'
    BY <1>0, <1>1 DEF FlowTick, FlowTyped
  <2> QED
    BY <1>0, <1>1, <2>1, NothingForgotten DEF FlowTick
<1>2. CASE NoteWindow
  <2>1. fetch' = [now |-> NoFetch, count |-> fetch.count] /\ fetch.now \in Windows /\ fetch.count \in Nat
    BY <1>0, <1>2 DEF NoteWindow, FlowTyped
  <2>2. FlowTyped'
    <3>1. NoFetch \in Windows
      BY DEF NoFetch, Windows
    <3>2. fetch' \in [now : Windows, count : Nat]
      BY <2>1, <3>1
    <3> QED
      BY <1>0, <1>2, <2>1, <3>2 DEF NoteWindow, FlowTyped
  <2>3. fetch'.now.whole = FALSE
    BY <2>1 DEF NoFetch
  <2> QED
    BY <1>0, <1>2, <2>2, <2>3, NothingForgotten DEF NoteWindow
<1>3. CASE FetchDies
  <2>1. fetch' = [now |-> NoFetch, count |-> fetch.count] /\ fetch.count \in Nat
    BY <1>0, <1>3 DEF FetchDies, FlowTyped
  <2>2. FlowTyped'
    <3>1. NoFetch \in Windows
      BY DEF NoFetch, Windows
    <3>2. fetch' \in [now : Windows, count : Nat]
      BY <2>1, <3>1
    <3> QED
      BY <1>0, <1>3, <3>2 DEF FetchDies, FlowTyped
  <2>3. fetch'.now.whole = FALSE
    BY <2>1 DEF NoFetch
  <2> QED
    BY <1>0, <1>3, <2>2, <2>3, NothingForgotten DEF FetchDies
<1>4. CASE Pair
  <2>1. FlowTyped'
    BY <1>0, <1>4 DEF Pair, FlowTyped
  <2> QED
    BY <1>0, <1>4, <2>1, NothingForgotten DEF Pair
<1>5. ASSUME NEW stream \in {"in", "out", "deposit"},
             NEW from \in {d * DaySpan : d \in FlowDays} \cup {clock - 1},
             NEW to \in {d * DaySpan : d \in FlowDays} \cup {clock - 1},
             Fetch(stream, from, to)
      PROVE  FlowInv'
  <2>1. \A d \in FlowDays : d * DaySpan \in Int
    BY <1>0 DEF FlowDays
  <2>2. from \in Int /\ to \in Int
    BY <1>0, <2>1
  <2> QED
    BY <1>5, <2>2, FetchKept
<1>6. ASSUME NEW m \in Moves, NEW t \in {HappensAt[n] : n \in Moves}, Contradicted(m, t)
      PROVE  FlowInv'
  BY <1>6, ContradictionKept, FlowRecordsAssumption
<1>7. ASSUME NEW from \in FlowDays, NEW to \in FlowDays, ImportFile(from, to) PROVE FlowInv'
  BY <1>0, <1>7, FileKept DEF FlowDays
<1>8. ASSUME NEW floor \in FlowDays, NEW before \in 1..LastDay, Declare(floor, before) PROVE FlowInv'
  <2>1. FlowTyped'
    BY <1>0, <1>8 DEF Declare, FlowTyped, FlowDays
  <2> QED
    BY <1>0, <1>8, <2>1, NothingForgotten DEF Declare
<1>9. CASE UNCHANGED flowVars
  <2>1. FlowTyped'
    BY <1>0, <1>9 DEF flowVars, FlowTyped
  <2> QED
    BY <1>0, <1>9, <2>1, NothingForgotten DEF flowVars
<1> QED
  BY <1>1, <1>2, <1>3, <1>4, <1>5, <1>6, <1>7, <1>8, <1>9 DEF FlowNext

LEMMA FlowsMean ==
    ASSUME FlowInv PROVE FlowsWhole
<1> SUFFICES ASSUME NEW start \in FlowDays, NEW end \in FlowDays, ~Unsure(start, end)
             PROVE  LET true == {m \in Known : Futures(m) /\ DayOfInstant(when[m]) \in start..end}
                        denied == {m \in true : DayOfInstant(when[m]) \in declared.floor..(declared.before - 1)
                                                    /\ m \notin told \cup filed}
                    IN  /\ {row[2] : row \in Counted(start, end)} = true \ denied
                        /\ \A m \in true \ Indistinct : Cardinality({row \in Counted(start, end) : row[2] = m}) <= 1
  BY DEF FlowsWhole
<1> DEFINE true == {m \in Known : Futures(m) /\ DayOfInstant(when[m]) \in start..end}
           denied == {m \in true : DayOfInstant(when[m]) \in declared.floor..(declared.before - 1)
                                       /\ m \notin told \cup filed}
(* What is undoubted is at its instant. *)
<1>1. \A m \in Moves : doubts[m] = {} => when[m] = HappensAt[m]
  BY DEF FlowInv, AtTheirInstant, Told
(* A redundant row's move is one the venue told of. *)
<1>2. \A m \in Moves : Redundant(m, start, end) => m \in told
  <2>1. \A m \in Moves : Superseded(m) => m \in told
    BY DEF Superseded, FlowInv, WindowsTold
  <2> QED
    BY <2>1 DEF Redundant
<1>3. told \subseteq Moves /\ filed \subseteq Moves /\ Known \subseteq Moves
  BY DEF FlowInv, FlowTyped, Known
<1>4. \A row \in Rows : row \in {<<"told", row[2]>>, <<"filed", row[2]>>} /\ row[2] \in told \cup filed
  BY DEF Rows
<1>5. \A row \in Counted(start, end) : row[2] \in true \ denied
  <2> SUFFICES ASSUME NEW row \in Counted(start, end) PROVE row[2] \in true \ denied
    OBVIOUS
  <2>1. row \in Rows /\ Futures(row[2]) /\ row[2] \in told \cup filed
    BY <1>4 DEF Counted
  <2>2. row[2] \in Known
    BY <1>3, <2>1 DEF Known, FlowInv, AtTheirInstant
  <2>3. DayOfInstant(when[row[2]]) \in start..end
    <3>1. CASE row[1] = "told"
      BY <1>1, <1>3, <2>1, <3>1 DEF Counted
    <3>2. CASE row[1] = "filed"
      BY <3>2 DEF Counted
    <3> QED
      BY <1>4, <2>1, <3>1, <3>2 DEF Rows
  <2> QED
    BY <2>1, <2>2, <2>3
<1>6. \A m \in true \ denied : \E row \in Counted(start, end) : row[2] = m
  <2> SUFFICES ASSUME NEW m \in true \ denied PROVE \E row \in Counted(start, end) : row[2] = m
    OBVIOUS
  <2>1. m \in Moves /\ Futures(m) /\ DayOfInstant(when[m]) \in start..end
    BY <1>3
  <2>2. m \in told \cup filed
    <3>1. DayOfInstant(when[m]) \in CoveredDays
      BY <2>1 DEF Unsure
    <3>2. CASE \E f \in files : DayOfInstant(when[m]) \in f.from..f.to
      BY <2>1, <3>2 DEF FlowInv, FilesKept
    <3>3. CASE DayOfInstant(when[m]) \in declared.floor..(declared.before - 1)
      BY <3>3
    <3>4. \/ \E f \in files : DayOfInstant(when[m]) \in f.from..f.to
          \/ DayOfInstant(when[m]) \in declared.floor..(declared.before - 1)
      <4> DEFINE X == UNION {f.from..f.to : f \in files}
                 Y == declared.floor..(declared.before - 1)
      <4>3. CoveredDays = X \cup (IF Contradiction THEN {} ELSE Y)
        BY DEF CoveredDays
      <4> HIDE DEF X, Y
      <4>4. DayOfInstant(when[m]) \in X \/ DayOfInstant(when[m]) \in Y
        BY <3>1, <4>3
      <4> QED
        BY <4>4 DEF X, Y
    <3> QED
      BY <3>2, <3>3, <3>4
  <2>3. CASE m \in told
    <3>1. doubts[m] = {}
      BY <2>1, <2>3 DEF Unsure, Touches, FlowInv, AtTheirInstant
    <3>2. when[m] = HappensAt[m]
      BY <1>1, <2>1, <3>1
    <3> DEFINE row == <<"told", m>>
    <3>3. row \in Rows /\ row[1] = "told" /\ row[2] = m
      BY <2>3 DEF Rows
    <3>4. m \in settled /\ row \in paired
      BY <2>1, <3>1, <3>2, <3>3 DEF Unsure
    <3>5. row \in Counted(start, end)
      BY <2>1, <3>1, <3>2, <3>3, <3>4 DEF Counted
    <3> QED
      BY <3>3, <3>5
  <2>4. CASE m \in filed \ told
    <3> DEFINE row == <<"filed", m>>
    <3>1. row \in Rows /\ row[1] = "filed" /\ row[2] = m
      BY <2>4 DEF Rows
    <3>2. row \in paired
      BY <2>4 DEF FlowInv, FiledPaired
    <3>3. ~Redundant(m, start, end)
      BY <1>2, <2>1, <2>4
    <3>4. row \in Counted(start, end)
      BY <2>1, <3>1, <3>2, <3>3 DEF Counted
    <3> QED
      BY <3>1, <3>4
  <2> QED
    BY <2>2, <2>3, <2>4
<1>7. ASSUME NEW m \in true \ Indistinct PROVE Cardinality({row \in Counted(start, end) : row[2] = m}) <= 1
  <2> DEFINE of == {row \in Counted(start, end) : row[2] = m}
  <2>1. of \subseteq {<<"told", m>>, <<"filed", m>>}
    BY <1>4 DEF Counted
  <2>2. ~(<<"told", m>> \in of /\ <<"filed", m>> \in of)
    <3> SUFFICES ASSUME <<"told", m>> \in Counted(start, end), <<"filed", m>> \in Counted(start, end) PROVE FALSE
      OBVIOUS
    <3>1. m \in Moves /\ m \in told \cap filed
      BY <1>3 DEF Counted, Rows
    <3>2. doubts[m] = {} /\ DayOfInstant(HappensAt[m]) \in start..end
      BY DEF Counted
    <3>3. ~Redundant(m, start, end)
      BY DEF Counted
    <3>4. m \in WholeSecond \/ Superseded(m)
      BY <3>1 DEF Indistinct
    <3>5. when[m] = HappensAt[m] /\ Touches(m, start, end)
      BY <1>1, <3>1, <3>2 DEF Touches, Told
    <3> QED
      BY <3>1, <3>3, <3>4, <3>5 DEF Redundant
  <2>3. PICK S : S = of
    OBVIOUS
  <2>4. S = {} \/ S = {<<"told", m>>} \/ S = {<<"filed", m>>}
    BY <2>1, <2>2, <2>3
  <2>5. Cardinality({}) = 0 /\ Cardinality({<<"told", m>>}) = 1 /\ Cardinality({<<"filed", m>>}) = 1
    BY FS_EmptySet, FS_Singleton
  <2>6. Cardinality(S) = 0 \/ Cardinality(S) = 1
    BY <2>4, <2>5, Zenon
  <2>7. Cardinality(of) = 0 \/ Cardinality(of) = 1
    BY <2>3, <2>6
  <2> QED
    BY <2>7
<1>8. {row[2] : row \in Counted(start, end)} = true \ denied
  BY <1>5, <1>6
<1> QED
  BY <1>7, <1>8

(***************************************************************************)
(* The evidence of a stock account.                                        *)
(***************************************************************************)
Evidence ==
    [orders : {"unverified", "present", "none"}, closed : Nat, quote : Int, calendar : {0, 1, NoRead}]
Workers ==
    [pc : {"idle", "orders", "quotes", "calendar", "finished", "late"}, got : Evidence, until : Nat]
Points ==
    [pc : {"begin", "collect", "refused", "fx", "waits", "stored"}, date : {0, 1}, valued : Int,
     held : BOOLEAN, closed : Nat, fx : {"missing", "clean", "flagged", "none"},
     evidence : Evidence, completed : Int]

EvidenceTyped ==
    /\ instant \in Nat /\ traded \in Int
    /\ orders \in [open : BOOLEAN, closed : Nat]
    /\ worker \in Workers /\ nav \in Points

(* An order that held cash is open, or one more has closed since. *)
HeldThen ==
    nav.held => orders.closed > nav.closed \/ (orders.open /\ orders.closed = nav.closed)

(* A page that showed no order was read when those held before had closed. *)
NoneLeft(e) == e.orders = "none" /\ nav.held => e.closed > nav.closed

EvidenceInv ==
    /\ EvidenceTyped /\ HeldThen
    /\ NoneLeft(worker.got) /\ NoneLeft(nav.evidence)
    /\ nav.pc \in {"begin", "collect"} => worker.got = NoEvidence /\ worker.pc = "idle" /\ nav.evidence = NoEvidence

LEMMA EvidenceTypes ==
    /\ NoEvidence \in Evidence /\ NoEvidence.orders = "unverified"
    /\ ReadBudget \in Nat
    /\ \A t : Date(t) \in {0, 1}
  BY NavEvidenceAssumption DEF Evidence, NoEvidence, NoRead, Date

(* What a step leaves of the snapshot, and of the pass. *)
NavMoves(n, held, closed, e) ==
    /\ n \in Points /\ n.pc \notin {"begin", "collect"}
    /\ n.held = held /\ n.closed = closed /\ n.evidence = e

LEMMA EvidenceFacts ==
    ASSUME EvidenceInv
    PROVE  /\ instant \in Nat /\ traded \in Int
           /\ orders \in [open : BOOLEAN, closed : Nat]
           /\ orders.open \in BOOLEAN /\ orders.closed \in Nat
           /\ worker \in Workers /\ worker.got \in Evidence
           /\ nav \in Points /\ nav.held \in BOOLEAN /\ nav.closed \in Nat
  <1>1. orders \in [open : BOOLEAN, closed : Nat] /\ worker \in Workers /\ nav \in Points
    BY DEF EvidenceInv, EvidenceTyped
  <1>2. instant \in Nat /\ traded \in Int
    BY DEF EvidenceInv, EvidenceTyped
  <1>3. worker.got \in Evidence
    BY <1>1 DEF Workers
  <1>4. nav.held \in BOOLEAN /\ nav.closed \in Nat
    BY <1>1 DEF Points
  <1> QED
    BY <1>1, <1>2, <1>3, <1>4

LEMMA EvidenceInitially == EvidenceInit => EvidenceInv
<1> SUFFICES ASSUME EvidenceInit PROVE EvidenceInv
  OBVIOUS
<1>1. instant \in Nat /\ traded \in Int /\ orders \in [open : BOOLEAN, closed : Nat]
  BY DEF EvidenceInit
<1>2. worker \in Workers /\ worker.got = NoEvidence /\ worker.pc = "idle"
  BY EvidenceTypes DEF EvidenceInit, Workers
<1>3. nav \in Points /\ nav.evidence = NoEvidence /\ nav.held = FALSE
  BY EvidenceTypes, NoRead \in Int DEF EvidenceInit, Points, NoRead
<1> QED
  BY <1>1, <1>2, <1>3, EvidenceTypes DEF EvidenceInv, EvidenceTyped, HeldThen, NoneLeft

LEMMA ReadKept ==
    ASSUME EvidenceInv, NEW from \in {"orders", "quotes", "calendar"},
           NEW to \in {"quotes", "calendar", "finished"},
           NEW got \in Evidence, NoneLeft(got), ReadStep(from, to, got)
    PROVE  EvidenceInv'
<1>1. UNCHANGED <<instant, orders, traded, nav>> /\ worker.pc = from
  BY DEF ReadStep
<1>2. nav.pc \notin {"begin", "collect"}
  BY <1>1 DEF EvidenceInv
<1>3. worker' \in Workers /\ (worker'.got = got \/ worker'.got = worker.got)
  BY EvidenceFacts DEF ReadStep, Workers
<1>4. NoneLeft(worker'.got)
  BY <1>3 DEF EvidenceInv, NoneLeft
<1> QED
  BY <1>1, <1>2, <1>3, <1>4 DEF EvidenceInv, EvidenceTyped, HeldThen, NoneLeft

LEMMA EvidenceStep ==
    ASSUME EvidenceInv, [EvidenceNext]_evidenceVars PROVE EvidenceInv'
<1>0. /\ instant \in Nat /\ traded \in Int
      /\ orders \in [open : BOOLEAN, closed : Nat]
      /\ orders.open \in BOOLEAN /\ orders.closed \in Nat
      /\ worker \in Workers /\ worker.got \in Evidence
      /\ nav \in Points /\ nav.held \in BOOLEAN /\ nav.closed \in Nat
  BY EvidenceFacts
<1>1. CASE InstantPasses \/ StockTrades
  BY <1>1, <1>0 DEF InstantPasses, StockTrades, EvidenceInv, EvidenceTyped, HeldThen, NoneLeft
<1>2. CASE OrderPlaced \/ OrderCloses
  <2>1. \/ orders' = [open |-> TRUE, closed |-> orders.closed]
        \/ orders' = [open |-> FALSE, closed |-> orders.closed + 1]
    BY <1>2, <1>0 DEF OrderPlaced, OrderCloses
  <2>2. /\ orders' \in [open : BOOLEAN, closed : Nat]
        /\ (orders'.open /\ orders'.closed = orders.closed) \/ orders'.closed = orders.closed + 1
    <3>1. orders.closed + 1 \in Nat
      BY <1>0
    <3>2. CASE orders' = [open |-> TRUE, closed |-> orders.closed]
      BY <1>0, <3>2
    <3>3. CASE orders' = [open |-> FALSE, closed |-> orders.closed + 1]
      BY <3>1, <3>3
    <3> QED
      BY <2>1, <3>2, <3>3
  <2>3. nav.held => orders'.closed > nav.closed \/ (orders'.open /\ orders'.closed = nav.closed)
    BY <1>0, <2>2 DEF EvidenceInv, HeldThen
  <2> QED
    BY <1>2, <2>2, <2>3 DEF OrderPlaced, OrderCloses, EvidenceInv, EvidenceTyped, HeldThen, NoneLeft
<1>3. CASE ReadOrders
  <2>1. PICK answer \in {"unverified", IF orders.open THEN "present" ELSE "none"} :
            ReadStep("orders", "quotes", [worker.got EXCEPT !.orders = answer, !.closed = orders.closed])
    BY <1>3 DEF ReadOrders
  <2>2. PICK got : got = [worker.got EXCEPT !.orders = answer, !.closed = orders.closed]
    OBVIOUS
  <2>3. answer \in {"unverified", "present", "none"} /\ (answer = "none" => ~orders.open)
    OBVIOUS
  <2>4. got \in Evidence /\ got.orders = answer /\ got.closed = orders.closed
    BY <1>0, <2>2, <2>3 DEF Evidence
  <2>5. NoneLeft(got)
    BY <2>3, <2>4 DEF NoneLeft, HeldThen, EvidenceInv
  <2> QED
    BY <2>1, <2>2, <2>4, <2>5, ReadKept
<1>4. CASE ReadQuotes
  <2>1. PICK answer \in {NoRead, traded} :
            ReadStep("quotes", "calendar", [worker.got EXCEPT !.quote = answer])
    BY <1>4 DEF ReadQuotes
  <2>2. PICK got : got = [worker.got EXCEPT !.quote = answer]
    OBVIOUS
  <2>3. answer \in Int
    BY <1>0 DEF NoRead
  <2>4. got \in Evidence /\ got.orders = worker.got.orders /\ got.closed = worker.got.closed
    BY <1>0, <2>2, <2>3 DEF Evidence
  <2>5. NoneLeft(got)
    BY <2>4 DEF NoneLeft, EvidenceInv
  <2> QED
    BY <2>1, <2>2, <2>4, <2>5, ReadKept
<1>5. CASE ReadCalendar
  <2>1. PICK answer \in {NoRead, Date(instant)} :
            ReadStep("calendar", "finished", [worker.got EXCEPT !.calendar = answer])
    BY <1>5 DEF ReadCalendar
  <2>2. PICK got : got = [worker.got EXCEPT !.calendar = answer]
    OBVIOUS
  <2>3. answer \in {0, 1, NoRead}
    BY EvidenceTypes
  <2>4. got \in Evidence /\ got.orders = worker.got.orders /\ got.closed = worker.got.closed
    BY <1>0, <2>2, <2>3 DEF Evidence
  <2>5. NoneLeft(got)
    BY <2>4 DEF NoneLeft, EvidenceInv
  <2> QED
    BY <2>1, <2>2, <2>4, <2>5, ReadKept
<1>6. CASE BeginRead
  <2>1. nav' = [nav EXCEPT !.pc = "collect", !.date = Date(instant)] /\ Date(instant) \in {0, 1}
    BY <1>6, EvidenceTypes DEF BeginRead
  <2>2. nav' \in Points /\ nav'.held = nav.held /\ nav'.closed = nav.closed /\ nav'.evidence = nav.evidence
    BY <1>0, <2>1 DEF Points
  <2> QED
    BY <1>6, <2>2 DEF BeginRead, EvidenceInv, EvidenceTyped, HeldThen, NoneLeft
<1>7. CASE CollectPositions
  <2>1. CASE nav' = [nav EXCEPT !.pc = "refused"]
    <3>1. NavMoves(nav', nav.held, nav.closed, nav.evidence)
      BY <1>0, <2>1 DEF Points, NavMoves
    <3> QED
      BY <1>7, <3>1 DEF NavMoves, CollectPositions, EvidenceInv, EvidenceTyped, HeldThen, NoneLeft
  <2>2. CASE nav' = [nav EXCEPT !.pc = "fx", !.valued = instant, !.held = orders.open, !.closed = orders.closed]
    <3>0. nav' = [pc |-> "fx", date |-> nav.date, valued |-> instant, held |-> orders.open,
                  closed |-> orders.closed, fx |-> nav.fx, evidence |-> nav.evidence, completed |-> nav.completed]
      BY <1>0, <2>2 DEF Points
    <3>1. NavMoves(nav', orders.open, orders.closed, nav.evidence)
      BY <1>0, <3>0 DEF Points, NavMoves
    <3>2. worker.got.orders = "unverified" /\ nav.evidence.orders = "unverified"
      BY <1>7, EvidenceTypes DEF CollectPositions, EvidenceInv
    <3> QED
      BY <1>7, <3>1, <3>2 DEF NavMoves, CollectPositions, EvidenceInv, EvidenceTyped, HeldThen, NoneLeft
  <2> QED
    BY <1>7, <2>1, <2>2 DEF CollectPositions
<1>8. CASE BuildFx
  <2>1. PICK fx \in {"missing", "clean", "flagged", "none"} : nav' = [nav EXCEPT !.pc = "waits", !.fx = fx]
    BY <1>8 DEF BuildFx, RateUsed
  <2>2. PICK until \in Nat : worker' = [worker EXCEPT !.pc = "orders", !.until = until]
    BY <1>0, <1>8, EvidenceTypes, instant + ReadBudget \in Nat DEF BuildFx
  <2>3. worker' \in Workers /\ worker'.got = worker.got
    BY <1>0, <2>2 DEF Workers
  <2>4. NavMoves(nav', nav.held, nav.closed, nav.evidence)
    BY <1>0, <2>1 DEF Points, NavMoves
  <2> QED
    BY <1>8, <2>3, <2>4 DEF NavMoves, BuildFx, EvidenceInv, EvidenceTyped, HeldThen, NoneLeft
<1>9. CASE PublishEvidence
  <2>1. PICK e \in Evidence : e = Published(worker) /\ NoneLeft(e)
    BY <1>0, EvidenceTypes DEF Published, NoneLeft, EvidenceInv
  <2>2. nav' = [nav EXCEPT !.pc = "stored", !.evidence = e, !.completed = instant]
    BY <1>9, <2>1 DEF PublishEvidence
  <2>4. nav' = [pc |-> "stored", date |-> nav.date, valued |-> nav.valued, held |-> nav.held,
                closed |-> nav.closed, fx |-> nav.fx, evidence |-> e, completed |-> instant]
    BY <1>0, <2>2 DEF Points
  <2>3. NavMoves(nav', nav.held, nav.closed, e)
    BY <1>0, <2>4 DEF Points, NavMoves
  <2> QED
    BY <1>9, <2>1, <2>3 DEF NavMoves, PublishEvidence, EvidenceInv, EvidenceTyped, HeldThen, NoneLeft
<1>10. CASE UNCHANGED evidenceVars
  BY <1>10 DEF evidenceVars, EvidenceInv, EvidenceTyped, HeldThen, NoneLeft
<1> QED
  BY <1>1, <1>2, <1>3, <1>4, <1>5, <1>6, <1>7, <1>8, <1>9, <1>10 DEF EvidenceNext

(* The greatest and the least of a set that has them. *)
LEMMA MaxIs ==
    ASSUME NEW S \in SUBSET Int, NEW x \in S, \A y \in S : y <= x PROVE Max(S) = x
<1>1. \E z \in S : \A y \in S : z >= y
  BY \A y \in S : y \in Int
<1>2. Max(S) \in S /\ \A y \in S : Max(S) >= y
  BY <1>1, Zenon DEF Max
<1> QED
  BY <1>2, Max(S) \in Int /\ x \in Int

LEMMA MinIs ==
    ASSUME NEW S \in SUBSET Int, NEW x \in S, \A y \in S : x <= y PROVE Min(S) = x
<1>1. \E z \in S : \A y \in S : z <= y
  OBVIOUS
<1>2. Min(S) \in S /\ \A y \in S : Min(S) <= y
  BY <1>1, Zenon DEF Min
<1> QED
  BY <1>2, Min(S) \in Int /\ x \in Int

(* A moment before the next close, with none since a quote among the       *)
(* sessions around its day, has none since among all.                      *)
LEMMA NoCloseBetween ==
    ASSUME NEW day \in {0, 1}, NEW quote \in Int, NEW moment0 \in Int,
           Min(Sessions(day)) <= moment0, moment0 < Max(Sessions(day)),
           \A c \in Sessions(day) : ~(quote < c /\ c <= moment0),
           NEW d \in TradingDays
    PROVE  ~(quote < CloseOn[d] /\ CloseOn[d] <= moment0)
<1> DEFINE before == {e \in TradingDays : e < day}
           after == {e \in TradingDays : e > day}
<1>1. PICK a \in before : \A e \in before : e <= a
  BY NavEvidenceAssumption
<1>2. PICK b \in after : \A e \in after : e >= b
  BY NavEvidenceAssumption
<1>3. before \in SUBSET Int /\ after \in SUBSET Int
  BY NavEvidenceAssumption
<1>4. Max(before) = a
  BY <1>1, <1>3, MaxIs
<1>5. Min(after) = b
  BY <1>2, <1>3, MinIs
<1> DEFINE around == {a, b} \cup ({day} \cap TradingDays)
<1>6. Sessions(day) = {CloseOn[e] : e \in around}
  BY <1>4, <1>5 DEF Sessions
<1>7. around \subseteq TradingDays /\ \A e \in around : a <= e /\ e <= b
  BY <1>1, <1>2, <1>3, NavEvidenceAssumption
<1>8. \A e \in around : CloseOn[a] <= CloseOn[e] /\ CloseOn[e] <= CloseOn[b]
  <2> SUFFICES ASSUME NEW e \in around PROVE CloseOn[a] <= CloseOn[e] /\ CloseOn[e] <= CloseOn[b]
    OBVIOUS
  <2> QED
    BY <1>7, NavEvidenceAssumption
<1>9. Sessions(day) \in SUBSET Int
  BY <1>6, <1>7, NavEvidenceAssumption
<1>10. Min(Sessions(day)) = CloseOn[a]
  BY <1>6, <1>8, <1>9, MinIs
<1>11. Max(Sessions(day)) = CloseOn[b]
  BY <1>6, <1>8, <1>9, MaxIs
<1>12. CASE d \in around
  BY <1>6, <1>12
<1>13. CASE d < a
  BY <1>1, <1>6, <1>10, <1>13, NavEvidenceAssumption
<1>14. CASE d > b
  BY <1>2, <1>6, <1>11, <1>14, NavEvidenceAssumption
<1>15. d \in before \/ d \in after \/ d = day
  BY NavEvidenceAssumption
<1> QED
  BY <1>1, <1>2, <1>3, <1>12, <1>13, <1>14, <1>15

LEMMA WorthMeans ==
    ASSUME EvidenceInv PROVE WorthOfItsDay
<1> SUFFICES ASSUME TossTold
             PROVE  /\ nav.held => nav.evidence.closed > nav.closed
                    /\ \A d \in TradingDays :
                           ~(nav.evidence.quote < CloseOn[d] /\ CloseOn[d] <= nav.valued)
  BY DEF WorthOfItsDay
<1>1. nav.held => nav.evidence.closed > nav.closed
  BY DEF EvidenceInv, NoneLeft, TossTold, NativeValue
<1>2. nav.valued \in Int /\ nav.evidence.quote \in Int
  BY DEF EvidenceInv, EvidenceTyped, Points, Evidence
<1>3. QuoteCurrent(nav.evidence) /\ nav.evidence.calendar \in {0, 1}
  BY DEF TossTold, QuoteCurrent, Date
<1>4. /\ Min(Sessions(nav.evidence.calendar)) <= nav.valued
      /\ nav.valued < Max(Sessions(nav.evidence.calendar))
      /\ \A c \in Sessions(nav.evidence.calendar) : ~(nav.evidence.quote < c /\ c <= nav.valued)
  BY <1>3 DEF QuoteCurrent
<1>5. ASSUME NEW d \in TradingDays
      PROVE  ~(nav.evidence.quote < CloseOn[d] /\ CloseOn[d] <= nav.valued)
  BY <1>2, <1>3, <1>4, NoCloseBetween
<1> QED
  BY <1>1, <1>5

(***************************************************************************)
(* The captures of the futures venues.                                     *)
(***************************************************************************)
Captures ==
    [by : {"none", "timer", "job"}, at : Int, binance : Int, hyperliquid : Int,
     counted : SUBSET {"binance", "hyperliquid"}]
CapturePoints ==
    [pc : {"collect", "marks", "capture", "waits", "kis", "write", "written"}, date : Int, valued : Int,
     mark : Int, capture : Captures, kis : Int, written : Int]

CaptureTyped ==
    /\ moment \in Nat
    /\ coins \in [at : {"binance", "hyperliquid", "flight"}, to : {"binance", "hyperliquid"}, since : Nat]
    /\ capture \in Captures /\ latest \in Captures /\ point \in CapturePoints

(* Money that Hyperliquid was seen with is there, or has left it since, and  *)
(* is with the other venue at least a flight later.                         *)
Since(t) ==
    \/ coins.at = "hyperliquid"
    \/ coins.at = "flight" /\ coins.since >= t
    \/ coins.at = "binance" /\ moment >= t + Flight

(* What is being read counts only Hyperliquid as yet. *)
ReadThen(c) ==
    /\ "binance" \notin c.counted
    /\ "hyperliquid" \in c.counted => c.hyperliquid <= moment /\ Since(c.hyperliquid)

(* What is stored counts money with both venues only a flight apart.        *)
Apart(c) == {"binance", "hyperliquid"} \subseteq c.counted => c.binance >= c.hyperliquid + Flight

CaptureInv ==
    /\ CaptureTyped /\ ReadThen(capture)
    /\ Apart(latest) /\ Apart(point.capture)

LEMMA CaptureTypes ==
    /\ NoCapture \in Captures /\ ReadThen(NoCapture) /\ Apart(NoCapture)
    /\ Flight \in Nat /\ Tolerance \in Nat /\ Flight > Tolerance
    /\ \A t : DateAt(t) \in Int
    /\ NotRead \in Int
  BY CryptoCaptureAssumption DEF NoCapture, Captures, NotRead, ReadThen, Apart, DateAt

LEMMA CaptureFacts ==
    ASSUME CaptureInv
    PROVE  /\ moment \in Nat
           /\ coins \in [at : {"binance", "hyperliquid", "flight"}, to : {"binance", "hyperliquid"}, since : Nat]
           /\ coins.since \in Nat /\ coins.to \in {"binance", "hyperliquid"}
           /\ coins.at \in {"binance", "hyperliquid", "flight"}
           /\ capture \in Captures /\ latest \in Captures /\ point \in CapturePoints
           /\ capture.hyperliquid \in Int /\ capture.counted \in SUBSET {"binance", "hyperliquid"}
  BY DEF CaptureInv, CaptureTyped, Captures

LEMMA CaptureInitially == CaptureInit => CaptureInv
<1> SUFFICES ASSUME CaptureInit PROVE CaptureInv
  OBVIOUS
<1>1. moment \in Nat /\ capture = NoCapture /\ latest = NoCapture
  BY DEF CaptureInit
<1>2. coins \in [at : {"binance", "hyperliquid", "flight"}, to : {"binance", "hyperliquid"}, since : Nat]
  BY DEF CaptureInit
<1>3. point \in CapturePoints /\ point.capture = NoCapture
  BY CaptureTypes DEF CaptureInit, CapturePoints
<1> QED
  BY <1>1, <1>2, <1>3, CaptureTypes DEF CaptureInv, CaptureTyped

(* A step that leaves the reads alone, and only moves the money forward. *)
LEMMA MoneyGoesOn ==
    ASSUME CaptureInv, moment' \in Nat, moment' >= moment,
           coins' \in [at : {"binance", "hyperliquid", "flight"}, to : {"binance", "hyperliquid"}, since : Nat],
           UNCHANGED <<capture, latest, point>>,
           capture.hyperliquid <= moment /\ Since(capture.hyperliquid) => Since(capture.hyperliquid)'
    PROVE  CaptureInv'
<1>1. ReadThen(capture)'
  <2>1. SUFFICES ASSUME "hyperliquid" \in capture.counted
                 PROVE  capture.hyperliquid <= moment' /\ Since(capture.hyperliquid)'
    BY DEF ReadThen, CaptureInv
  <2>2. capture.hyperliquid <= moment /\ Since(capture.hyperliquid)
    BY <2>1 DEF CaptureInv, ReadThen
  <2> QED
    BY <2>2, CaptureFacts
<1> QED
  BY <1>1, CaptureFacts DEF CaptureInv, CaptureTyped, Apart

(* A step of the snapshot's alone, which may take the latest capture. *)
LEMMA PointGoesOn ==
    ASSUME CaptureInv, UNCHANGED <<moment, coins, capture, latest>>,
           point' \in CapturePoints, point'.capture \in {point.capture, latest}
    PROVE  CaptureInv'
  BY CaptureFacts DEF CaptureInv, CaptureTyped, Apart, ReadThen, Since

(* A capture begins with the venue that is read first. *)
LEMMA CaptureBegun ==
    ASSUME CaptureInv, capture = NoCapture, NEW by \in {"timer", "job"}, NEW read \in Answers,
           capture' = Begun(by, read), UNCHANGED <<moment, coins, latest>>,
           point' \in CapturePoints, point'.capture = point.capture
    PROVE  CaptureInv'
<1>1. PICK counted : counted = IF read # NotRead THEN {"hyperliquid"} \cap {coins.at} ELSE {}
  OBVIOUS
<1>2. CountedWith("hyperliquid", read) = counted
  BY <1>1 DEF CountedWith, NoCapture
<1>3. capture' = [by |-> by, at |-> NotRead, binance |-> NotRead, hyperliquid |-> read, counted |-> counted]
  BY <1>2 DEF Begun
<1>4. counted \subseteq {"hyperliquid"} /\ ("hyperliquid" \in counted => read = moment /\ coins.at = "hyperliquid")
  BY <1>1 DEF Answers
<1>5. read \in Int
  BY CaptureFacts, CaptureTypes DEF Answers
<1>6. capture' \in Captures /\ ReadThen(capture)'
  BY <1>3, <1>4, <1>5, CaptureFacts, CaptureTypes DEF Captures, ReadThen, Since
<1> QED
  BY <1>6, CaptureFacts DEF CaptureInv, CaptureTyped, Apart

LEMMA CaptureStep ==
    ASSUME CaptureInv, [CaptureNext]_captureVars PROVE CaptureInv'
<1>0. /\ moment \in Nat
      /\ coins \in [at : {"binance", "hyperliquid", "flight"}, to : {"binance", "hyperliquid"}, since : Nat]
      /\ coins.since \in Nat /\ coins.to \in {"binance", "hyperliquid"}
      /\ coins.at \in {"binance", "hyperliquid", "flight"}
      /\ capture \in Captures /\ latest \in Captures /\ point \in CapturePoints
      /\ capture.hyperliquid \in Int /\ capture.counted \in SUBSET {"binance", "hyperliquid"}
  BY CaptureFacts
<1>1. CASE InstantGoes
  <2>1. moment' = moment + 1 /\ UNCHANGED <<coins, capture, latest, point>>
    BY <1>1 DEF InstantGoes
  <2>2. Since(capture.hyperliquid) => Since(capture.hyperliquid)'
    BY <1>0, <2>1, CaptureTypes DEF Since
  <2> QED
    BY <1>0, <2>1, <2>2, MoneyGoesOn
<1>2. CASE CoinsLeave
  <2>1. UNCHANGED <<moment, capture, latest, point>> /\ coins' = [at |-> "flight", to |-> coins.to, since |-> moment]
    BY <1>0, <1>2 DEF CoinsLeave
  <2>2. capture.hyperliquid <= moment /\ Since(capture.hyperliquid) => Since(capture.hyperliquid)'
    BY <1>0, <2>1 DEF Since
  <2> QED
    BY <1>0, <2>1, <2>2, MoneyGoesOn
<1>3. CASE CoinsArrive
  <2>1. UNCHANGED <<moment, capture, latest, point>> /\ coins' = [at |-> coins.to, to |-> coins.to, since |-> 0]
    BY <1>0, <1>3 DEF CoinsArrive
  <2>2. coins.at = "flight" /\ moment >= coins.since + Flight
    BY <1>3 DEF CoinsArrive
  <2>3. Since(capture.hyperliquid) => Since(capture.hyperliquid)'
    BY <1>0, <2>1, <2>2, CaptureTypes DEF Since
  <2> QED
    BY <1>0, <2>1, <2>3, MoneyGoesOn
<1>4. CASE CaptureBegins
  <2>1. PICK read \in Answers : capture' = Begun("timer", read)
    BY <1>4 DEF CaptureBegins
  <2> QED
    BY <1>0, <1>4, <2>1, CaptureBegun DEF CaptureBegins
<1>5. CASE CaptureCompletes
  <2>1. capture' = [capture EXCEPT !.at = moment]
    BY <1>5 DEF CaptureCompletes
  <2>2. capture' \in Captures /\ capture'.counted = capture.counted /\ capture'.hyperliquid = capture.hyperliquid
    BY <1>0, <2>1 DEF Captures
  <2> QED
    BY <1>0, <1>5, <2>2 DEF CaptureCompletes, CaptureInv, CaptureTyped, ReadThen, Since, Apart
<1>6. CASE CaptureStored
  <2>1. PICK read \in Answers : latest' = [capture EXCEPT !.binance = read, !.counted = CountedWith("binance", read)]
    BY <1>6 DEF CaptureStored
  <2>2. PICK counted : counted = CountedWith("binance", read)
    OBVIOUS
  <2>3. /\ counted \in SUBSET {"binance", "hyperliquid"}
        /\ "hyperliquid" \in counted => "hyperliquid" \in capture.counted
        /\ "binance" \in counted => read = moment /\ coins.at = "binance"
    BY <1>0, <2>2 DEF CountedWith, Answers, CaptureInv, ReadThen
  <2>4. read \in Int
    BY <1>0, CaptureTypes DEF Answers
  <2>5. latest' = [by |-> capture.by, at |-> capture.at, binance |-> read,
                   hyperliquid |-> capture.hyperliquid, counted |-> counted]
    BY <1>0, <2>1, <2>2 DEF Captures
  <2>6. latest' \in Captures
    BY <1>0, <2>3, <2>4, <2>5 DEF Captures
  <2>7. Apart(latest)'
    BY <1>0, <2>3, <2>4, <2>5 DEF Apart, CaptureInv, ReadThen, Since
  <2>8. point' \in CapturePoints /\ point'.capture \in {point.capture, latest'}
    <3>1. CASE capture.by = "job"
      <4>1. point' = [point EXCEPT !.pc = "kis", !.capture = latest']
        BY <1>6, <3>1 DEF CaptureStored
      <4> QED
        BY <1>0, <2>6, <4>1 DEF CapturePoints
    <3>2. CASE capture.by # "job"
      BY <1>0, <1>6, <3>2 DEF CaptureStored
    <3> QED
      BY <3>1, <3>2
  <2>9. capture' = NoCapture /\ UNCHANGED <<moment, coins>>
    BY <1>6 DEF CaptureStored
  <2>10. ReadThen(capture)'
    BY <2>9, CaptureTypes DEF ReadThen, NoCapture
  <2>11. Apart(point.capture)'
    BY <2>7, <2>8 DEF Apart, CaptureInv
  <2> QED
    BY <1>0, <2>6, <2>7, <2>8, <2>9, <2>10, <2>11, CaptureTypes DEF CaptureInv, CaptureTyped
<1>7. CASE PointBegins
  <2>1. PICK date \in {0, DateAt(moment)} : point' = [point EXCEPT !.pc = "marks", !.date = date, !.valued = moment]
    BY <1>7 DEF PointBegins
  <2>2. date \in Int
    BY CaptureTypes
  <2>3. point' = [pc |-> "marks", date |-> date, valued |-> moment, mark |-> point.mark, capture |-> point.capture,
                  kis |-> point.kis, written |-> point.written]
    BY <1>0, <2>1 DEF CapturePoints
  <2>4. point' \in CapturePoints /\ point'.capture = point.capture
    BY <1>0, <2>2, <2>3 DEF CapturePoints
  <2> QED
    BY <1>7, <2>4, PointGoesOn DEF PointBegins
<1>8. CASE ReadMarks
  <2>1. PICK read \in Answers : point' = [point EXCEPT !.pc = "capture", !.mark = read]
    BY <1>8 DEF ReadMarks
  <2>2. read \in Int
    BY <1>0, CaptureTypes DEF Answers
  <2>3. point' \in CapturePoints /\ point'.capture = point.capture
    BY <1>0, <2>1, <2>2 DEF CapturePoints
  <2> QED
    BY <1>8, <2>3, PointGoesOn DEF ReadMarks
<1>9. CASE BindCapture
  <2>1. CASE point' = [point EXCEPT !.pc = "kis", !.capture = latest] /\ UNCHANGED capture
    <3>1. point' \in CapturePoints /\ point'.capture = latest
      BY <1>0, <2>1 DEF CapturePoints
    <3> QED
      BY <1>9, <2>1, <3>1, PointGoesOn DEF BindCapture
  <2>2. CASE point' = [point EXCEPT !.pc = "kis"] /\ UNCHANGED capture
    <3>1. point' \in CapturePoints /\ point'.capture = point.capture
      BY <1>0, <2>2 DEF CapturePoints
    <3> QED
      BY <1>9, <2>2, <3>1, PointGoesOn DEF BindCapture
  <2>3. CASE /\ capture = NoCapture /\ point' = [point EXCEPT !.pc = "waits"]
             /\ \E read \in Answers : capture' = Begun("job", read)
    <3>1. point' \in CapturePoints /\ point'.capture = point.capture
      BY <1>0, <2>3 DEF CapturePoints
    <3> QED
      BY <1>9, <2>3, <3>1, CaptureBegun DEF BindCapture
  <2> QED
    BY <1>9, <2>1, <2>2, <2>3 DEF BindCapture
<1>10. CASE CaptureKis \/ WritePoint
  <2>1. \/ point' = [point EXCEPT !.pc = "write", !.kis = moment]
        \/ point' = [point EXCEPT !.pc = "written", !.written = moment]
    BY <1>10 DEF CaptureKis, WritePoint
  <2>2. point' \in CapturePoints /\ point'.capture = point.capture
    <3>1. PICK t \in Int : \/ point' = [point EXCEPT !.pc = "write", !.kis = t]
                           \/ point' = [point EXCEPT !.pc = "written", !.written = t]
      <4>1. moment \in Int
        BY <1>0
      <4> QED
        BY <2>1, <4>1, Zenon
    <3> QED
      BY <1>0, <3>1 DEF CapturePoints
  <2> QED
    BY <1>10, <2>2, PointGoesOn DEF CaptureKis, WritePoint
<1>11. CASE UNCHANGED captureVars
  BY <1>11 DEF captureVars, CaptureInv, CaptureTyped, ReadThen, Since, Apart
<1> QED
  BY <1>1, <1>2, <1>3, <1>4, <1>5, <1>6, <1>7, <1>8, <1>9, <1>10, <1>11 DEF CaptureNext

(* What is valued is read in one span, so not a flight apart. *)
LEMMA OneSpan ==
    ASSUME NEW a \in Int, NEW b \in Int, NEW c \in Int, NEW d \in Int, Coherent({a, b, c, d})
    PROVE  c - d <= Tolerance
<1> DEFINE S == {a, b, c, d}
<1>1. \E x \in S : \A y \in S : x >= y
  OBVIOUS
<1>2. \E x \in S : \A y \in S : x <= y
  OBVIOUS
<1>3. Max(S) \in S /\ \A y \in S : Max(S) >= y
  BY <1>1, Zenon DEF Max
<1>4. Min(S) \in S /\ \A y \in S : Min(S) <= y
  BY <1>2, Zenon DEF Min
<1>5. Max(S) \in Int /\ Min(S) \in Int /\ Max(S) >= c /\ Min(S) <= d
  BY <1>3, <1>4
<1>6. Max(S) - Min(S) <= Tolerance
  BY DEF Coherent
<1> HIDE DEF S
<1> QED
  BY <1>5, <1>6, CaptureTypes

LEMMA CountedOnceMeans ==
    ASSUME CaptureInv PROVE MoneyCountedOnce
<1> DEFINE c == point.capture
<1>1. /\ c.at \in Int /\ c.binance \in Int /\ c.hyperliquid \in Int /\ point.mark \in Int
      /\ c.counted \in SUBSET {"binance", "hyperliquid"}
  BY DEF CaptureInv, CaptureTyped, CapturePoints, Captures
<1>2. ASSUME CryptoTold \/ ConsolidatedTold PROVE Cardinality(c.counted) <= 1
  <2>1. Valued(c)
    BY <1>2 DEF CryptoTold, ConsolidatedTold
  <2>2. ~({"binance", "hyperliquid"} \subseteq c.counted)
    <3>1. SUFFICES ASSUME {"binance", "hyperliquid"} \subseteq c.counted PROVE FALSE
      OBVIOUS
    <3>2. Coherent({point.mark} \cup Instants(c))
      BY <2>1, <3>1 DEF Valued
    <3>3. {point.mark} \cup Instants(c) = {point.mark, c.at, c.binance, c.hyperliquid}
      BY DEF Instants
    <3>4. c.binance - c.hyperliquid <= Tolerance
      BY <1>1, <3>2, <3>3, OneSpan
    <3>5. c.binance >= c.hyperliquid + Flight
      BY <3>1 DEF CaptureInv, Apart
    <3> QED
      BY <1>1, <3>4, <3>5, CaptureTypes
  <2>3. PICK S \in SUBSET {"binance", "hyperliquid"} : S = c.counted
    BY <1>1
  <2>4. S = {} \/ S = {"binance"} \/ S = {"hyperliquid"}
    BY <2>2, <2>3
  <2>5. Cardinality({}) = 0 /\ Cardinality({"binance"}) = 1 /\ Cardinality({"hyperliquid"}) = 1
    BY FS_EmptySet, FS_Singleton
  <2>6. Cardinality(S) = 0 \/ Cardinality(S) = 1
    BY <2>4, <2>5, Zenon
  <2>7. Cardinality(c.counted) = 0 \/ Cardinality(c.counted) = 1
    BY <2>3, <2>6
  <2> QED
    BY <2>7
<1>3. CryptoTold /\ KisTold => DateAt(c.at) = DateAt(point.kis) /\ DateAt(point.kis) = DateAt(point.valued)
  BY DEF CryptoTold, KisTold
<1> QED
  BY <1>2, <1>3 DEF MoneyCountedOnce

(***************************************************************************)
(* The run's specification.                                                *)
(***************************************************************************)
LEMMA PartsKept ==
    ASSUME FlowInv, EvidenceInv, CaptureInv, [MCNext]_<<part, vars, flowVars, evidenceVars, captureVars>>
    PROVE  FlowInv' /\ EvidenceInv' /\ CaptureInv'
<1>1. [FlowNext]_flowVars /\ [EvidenceNext]_evidenceVars /\ [CaptureNext]_captureVars
  BY DEF MCNext
<1> QED
  BY <1>1, FlowStep, EvidenceStep, CaptureStep

(* Flows that are told of days are the transfers of the wallet on them, each *)
(* counted once, whatever was read, failed, contradicted, exported and       *)
(* declared (ledger_returns.py, owner_flows.py).                             *)
THEOREM FlowsAreWhole == MCSpec => []FlowsWhole
<1>1. MCInit => FlowInv /\ EvidenceInv /\ CaptureInv
  BY FlowInitially, EvidenceInitially, CaptureInitially DEF MCInit
<1>2. FlowInv /\ EvidenceInv /\ CaptureInv /\ [MCNext]_<<part, vars, flowVars, evidenceVars, captureVars>>
        => (FlowInv /\ EvidenceInv /\ CaptureInv)'
  BY PartsKept
<1>3. FlowInv => FlowsWhole
  BY FlowsMean
<1> QED
  BY <1>1, <1>2, <1>3, PTL DEF MCSpec

(* A stock account's worth that is told is that of a moment of its day, and  *)
(* money on its way between two venues is counted in one of them             *)
(* (daily_nav.py, crypto_nav_capture.py).                                    *)
THEOREM EvidenceIsTrue == MCSpec => []EvidenceTrue
<1>1. MCInit => FlowInv /\ EvidenceInv /\ CaptureInv
  BY FlowInitially, EvidenceInitially, CaptureInitially DEF MCInit
<1>2. FlowInv /\ EvidenceInv /\ CaptureInv /\ [MCNext]_<<part, vars, flowVars, evidenceVars, captureVars>>
        => (FlowInv /\ EvidenceInv /\ CaptureInv)'
  BY PartsKept
<1>3. EvidenceInv /\ CaptureInv => EvidenceTrue
  BY WorthMeans, CountedOnceMeans DEF EvidenceTrue
<1> QED
  BY <1>1, <1>2, <1>3, PTL DEF MCSpec

=============================================================================
