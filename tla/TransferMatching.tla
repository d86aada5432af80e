--------------------------- MODULE TransferMatching ---------------------------
(***************************************************************************)
(* match_transfers of ledger_flows.py: two flows of the ledger that are    *)
(* the legs of one transfer between accounts of the owner are paired and   *)
(* classified internal.  A matcher plans outside the write lock; between   *)
(* its plan and each of its transactions collectors append events,         *)
(* conflicts and enrichments, other matchers pair, an owner import does    *)
(* both in one transaction, and a matcher may die.                         *)
(*                                                                         *)
(* What makes two legs match (amount, fee, precision, time, route) is the  *)
(* relation Close; references, which an enrichment may bring later, decide *)
(* once both legs have one.  Facts only grow and the snapshot holds the    *)
(* last row of each table, so two are equal if nothing was appended: fresh *)
(* says so of a plan.  The plan's own reads are confirmed by a second      *)
(* snapshot, so the plan is one step.                                      *)
(***************************************************************************)
EXTENDS Integers, FiniteSets

CONSTANTS
    Outs, Ins,          \* the flows, outgoing and incoming
    Owner,              \* those of owner statements
    Close,              \* pairs that agree as far as amounts and times go
    Shared,             \* pairs that carry one transaction reference
    Matchers, Rule,     \* matcher processes and the rule version of each
    ImportRule,         \* the rule version of the matching inside an import
    MaxConflicts        \* bound on the contradicted flows

Flows == Outs \cup Ins

ASSUME MatchingAssumption ==
    /\ Outs \cap Ins = {} /\ Owner \subseteq Flows
    /\ Close \subseteq Outs \X Ins /\ Shared \subseteq Outs \X Ins
    /\ \A pair \in Close : pair[1] \in Owner <=> pair[2] \in Owner
    /\ \A pair \in Shared : pair[1] \notin Owner /\ pair[2] \notin Owner

VARIABLES
    known, conflicted, enriched,    \* the ledger's flows, those in conflict, those with a reference
    class,                          \* latest classification of each flow
    matches,                        \* rows of ledger_transfer_matches
    plan                            \* per matcher its plan, or NoPlan

matchVars == <<known, conflicted, enriched, class, matches, plan>>
facts == <<known, conflicted, enriched>>

NoPlan == [busy |-> FALSE, fresh |-> FALSE, sure |-> {}, ambiguous |-> {}]

(***************************************************************************)
(* The plan: a function of the facts f and the pairs stored.               *)
(***************************************************************************)
\* Variant: only the outgoing leg is looked at.
OutgoingLeg(pair) == {pair[1]}
Legs(pair) == {pair[1], pair[2]}
PairOf(match) == <<match.out, match.in>>
Paired(rows) == UNION {Legs(PairOf(m)) : m \in rows}

Evidence(f, pair) == IF Legs(pair) \subseteq f[3] THEN pair \in Shared ELSE pair \in Close
Rank(f, pair) == IF Legs(pair) \subseteq f[3] THEN 0 ELSE 1

(* Pairs of readable flows, not yet processed by the rule, whose legs no    *)
(* other pair holds.  Variant: only the rule's own pairs are looked at.     *)
CandidatesOfRule(f, rows, rule) ==
    {pair \in Close \cup Shared :
        Legs(pair) \subseteq (f[1] \ f[2]) \ Paired({m \in rows : m.rule = rule}) /\ Evidence(f, pair)}
Candidates(f, rows, rule) ==
    {pair \in Close \cup Shared :
        /\ Legs(pair) \subseteq (f[1] \ f[2]) \ Paired({m \in rows : m.rule = rule})
        /\ \A m \in rows : Legs(PairOf(m)) \cap Legs(pair) # {} => PairOf(m) = pair
        /\ Evidence(f, pair)}

(* A reference takes precedence on both legs. *)
Preferred(f, pairs) ==
    {pair \in pairs : \A other \in pairs : Legs(other) \cap Legs(pair) # {} => Rank(f, pair) <= Rank(f, other)}

Alone(pair, pairs) == \A other \in pairs : Legs(other) \cap Legs(pair) # {} => other = pair

PlanOf(f, rows, rule) ==
    LET pairs == Preferred(f, Candidates(f, rows, rule))
    IN  [busy |-> TRUE, fresh |-> TRUE,
         sure |-> {pair \in pairs : Alone(pair, pairs)},
         ambiguous |-> {e \in Owner : \E pair \in pairs : e \in Legs(pair) /\ ~Alone(pair, pairs)}]

(***************************************************************************)
(* Storing a pair, in a transaction.                                       *)
(***************************************************************************)
Allowed(e) == {"unknown", "internal"} \cup IF e \in Owner THEN {"external"} ELSE {}

Storable(pair, rule, rows, cls, f) ==
    /\ [out |-> pair[1], in |-> pair[2], rule |-> rule] \notin rows
    /\ \A m \in rows : Legs(PairOf(m)) \cap Legs(pair) # {} => PairOf(m) = pair
    /\ Legs(pair) \cap f[2] = {}
    /\ \A e \in Legs(pair) : cls[e] \in Allowed(e)

MatchRows(pairs, rule) == {[out |-> p[1], in |-> p[2], rule |-> rule] : p \in pairs}

Classified(cls, events, value) == [e \in Flows |-> IF e \in events THEN value ELSE cls[e]]

(***************************************************************************)
(* Actions.                                                                *)
(***************************************************************************)
(* A fact is appended: no plan's snapshot is current any more.  Variant:    *)
(* nobody compares.                                                         *)
AppendedUnseen == UNCHANGED plan
Appended == plan' = [m \in Matchers |-> [plan[m] EXCEPT !.fresh = FALSE]]

MatchInit ==
    /\ known = {} /\ conflicted = {} /\ enriched = {}
    /\ class = [e \in Flows |-> "unseen"]
    /\ matches = {}
    /\ plan = [m \in Matchers |-> NoPlan]

CollectFlow(e) ==
    /\ e \notin known \cup Owner
    /\ known' = known \cup {e}
    /\ class' = [class EXCEPT ![e] = "unknown"]
    /\ Appended
    /\ UNCHANGED <<conflicted, enriched, matches>>

ContradictFlow(e) ==
    /\ e \in known \ conflicted /\ Cardinality(conflicted) < MaxConflicts
    /\ conflicted' = conflicted \cup {e}
    /\ Appended
    /\ UNCHANGED <<known, enriched, class, matches>>

EnrichFlow(e) ==
    /\ e \in known \ (enriched \cup Owner)
    /\ enriched' = enriched \cup {e}
    /\ Appended
    /\ UNCHANGED <<known, conflicted, class, matches>>

(* An owner's statement is imported, its flow classified as the statement   *)
(* says, and the whole matching runs in the same transaction.               *)
ImportFlow(e) ==
    /\ e \in Owner \ known
    /\ known' = known \cup {e}
    /\ LET f == <<known', conflicted, enriched>>
           p == PlanOf(f, matches, ImportRule)
           seen == [class EXCEPT ![e] = "external"]
           doubted == Classified(seen, p.ambiguous, "unknown")
           stored == {pair \in p.sure : Storable(pair, ImportRule, matches, doubted, f)}
       IN  /\ matches' = matches \cup MatchRows(stored, ImportRule)
           /\ class' = Classified(doubted, UNION {Legs(pair) : pair \in stored}, "internal")
    /\ Appended
    /\ UNCHANGED <<conflicted, enriched>>

ReadPlan(m) ==
    /\ ~plan[m].busy
    /\ plan' = [plan EXCEPT ![m] = PlanOf(facts, matches, Rule[m])]
    /\ UNCHANGED <<facts, class, matches>>

(* The plan is given up: the facts changed, or the process died. *)
GiveUpPlan(m) ==
    /\ plan[m].busy
    /\ plan' = [plan EXCEPT ![m] = NoPlan]
    /\ UNCHANGED <<facts, class, matches>>

StoreDoubts(m) ==
    /\ plan[m].busy /\ plan[m].ambiguous # {}
    /\ plan[m].fresh
    /\ class' = Classified(class, plan[m].ambiguous, "unknown")
    /\ plan' = [plan EXCEPT ![m].ambiguous = {}]
    /\ UNCHANGED <<facts, matches>>

(* One pair, in a transaction of its own; a pair that may not be stored any *)
(* more is passed over.                                                     *)
StorePair(m, pair) ==
    /\ plan[m].busy /\ plan[m].ambiguous = {}
    /\ pair \in plan[m].sure
    /\ plan[m].fresh
    /\ plan' = [plan EXCEPT ![m].sure = @ \ {pair}]
    /\ IF Storable(pair, Rule[m], matches, class, facts)
       THEN /\ matches' = matches \cup MatchRows({pair}, Rule[m])
            /\ class' = Classified(class, Legs(pair), "internal")
       ELSE UNCHANGED <<matches, class>>
    /\ UNCHANGED facts

MatchNext ==
    \/ \E e \in Flows : CollectFlow(e) \/ ContradictFlow(e) \/ EnrichFlow(e) \/ ImportFlow(e)
    \/ \E m \in Matchers : ReadPlan(m) \/ GiveUpPlan(m) \/ StoreDoubts(m) \/ \E pair \in Outs \X Ins : StorePair(m, pair)

MatchSpec == MatchInit /\ [][MatchNext]_matchVars

(***************************************************************************)
(* Properties.                                                             *)
(***************************************************************************)
MatchTypeOK ==
    /\ known \subseteq Flows /\ conflicted \subseteq known /\ enriched \subseteq known
    /\ class \in [Flows -> {"unseen", "unknown", "external", "internal"}]
    /\ \A r \in matches : r.out \in Outs /\ r.in \in Ins
    /\ plan \in [Matchers -> [busy : BOOLEAN, fresh : BOOLEAN,
                              sure : SUBSET (Outs \X Ins), ambiguous : SUBSET Flows]]

(* A flow is a leg of one transfer for good, under every rule version and   *)
(* whichever matchers and imports ran together.                             *)
LegsPairOnce ==
    \A a, b \in matches : a.out = b.out <=> a.in = b.in

(* A stored pair's legs stay classified internal: no matcher that planned   *)
(* before the pair was stored makes one of them unknown again.              *)
MatchedStayInternal ==
    \A r \in matches : class[r.out] = "internal" /\ class[r.in] = "internal"

(* So a stored match is final: what it says of its two flows lasts. *)
MatchesAreFinal == LegsPairOnce /\ MatchedStayInternal

(* The new pairs leave no choice among the facts. *)
NewRows == {n \in matches' : \A o \in matches : PairOf(o) # PairOf(n)}

NoChoiceLeft ==
    \A r \in NewRows : \A rival \in Outs \X Ins :
        LET leg == Legs(rival) \ Legs(PairOf(r))
        IN  ( /\ rival # PairOf(r) /\ Legs(rival) \cap Legs(PairOf(r)) # {}
              /\ leg \subseteq (known' \ conflicted') \ Paired(matches')
              /\ Evidence(facts', rival) /\ Rank(facts', rival) <= Rank(facts', PairOf(r)) )
            => \E better \in Outs \X Ins :
                  leg \subseteq Legs(better) /\ Evidence(facts', better) /\ Rank(facts', better) < Rank(facts', rival)

(* A new pair is stored only while the facts leave no choice: a known,      *)
(* readable and unpaired flow that fits one of its legs as well as the      *)
(* other leg does must itself have a better counterpart.                    *)
PairedWithoutChoice == [][NoChoiceLeft]_matchVars

================================================================================
