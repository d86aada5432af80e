------------------------------ MODULE CryptoFlows ------------------------------
(***************************************************************************)
(* What came in and out of a futures venue between two snapshots.  Money   *)
(* moves at any time and is told in one stream per direction.  A daily     *)
(* pass reads the streams up to the moment it began, page by page, and     *)
(* stores each window in one row with its facts; the ledger it has written *)
(* before may only veto.  A capture reads the venue's worth at one moment  *)
(* and is dated at another.  A reader (crypto_flow_intervals.py) tells the *)
(* flow between two captures, or that it cannot.                           *)
(* Amounts, fees and coins are data; accounts and wallets do not change.   *)
(***************************************************************************)
EXTENDS Integers, FiniteSets, FiniteSetsExt, Functions, Sequences

CONSTANTS
    Scenes,                 \* what is looked at: see below
    Brings,                 \* what may move in each stream
    Trail,                  \* what a pass reaches back
    MaxPages,               \* pages of a window
    CutTolerance            \* CRYPTO_BOUNDARY_TOLERANCE_SECONDS

(* A venue's required streams in order, whether its worth is read before the *)
(* completion captures are dated at, the precision of its times, how long    *)
(* it keeps them (flow_cutoff), what the reader widens its span by           *)
(* (EVIDENCE_PAD), and bounds: instants, movements, captures, passes, and    *)
(* how much may go wrong.                                                    *)
SceneType == [streams : Seq(DOMAIN Brings), readFirst : BOOLEAN, tick : Nat, keeps : Nat, pad : Nat,
              last : Nat, moves : Nat, cuts : Nat, passes : Nat, odd : Nat]

ASSUME CryptoFlowsAssumption ==
    /\ {Trail, MaxPages, CutTolerance} \subseteq Nat
    /\ Scenes \subseteq SceneType /\ \A s \in Scenes : s.pad > s.tick

VARIABLES
    scene,
    beat,
    coinMoves,      \* the movements so far, in order
    ledgerTells,    \* what the ledger has of each
    pass,           \* the pass that runs
    windows,        \* what the passes have stored
    cuts,           \* the captures
    odd             \* how much went wrong

flowVars == <<scene, beat, coinMoves, ledgerTells, pass, windows, cuts, odd>>

Unset == -99
Moved == 1..Len(coinMoves)
Streams == Range(scene.streams)
Idle(n, runs) == [pc |-> "idle", n |-> n, runs |-> runs, observed |-> Unset, plan |-> 0, got |-> {}, total |-> Unset]
MayGoWrong(yes) == odd' = odd + (IF yes THEN 1 ELSE 0) /\ odd' <= scene.odd

(* The run begins with a capture. *)
NewCut == [read |-> Unset, cut |-> Unset, counted |-> {}, whole |-> FALSE]
ReadNow(c) == [c EXCEPT !.read = beat, !.counted = Moved]

CryptoFlowsInit ==
    /\ scene \in Scenes /\ beat = 0 /\ coinMoves = <<>> /\ windows = {} /\ pass = Idle(0, 0) /\ odd = 0
    /\ cuts = <<IF scene.readFirst THEN [NewCut EXCEPT !.read = 0] ELSE [NewCut EXCEPT !.cut = 0]>>
    /\ ledgerTells = [m \in 1..scene.moves |-> [n |-> 0, status |-> "pending", alike |-> TRUE]]

BeatPasses ==
    /\ beat < scene.last /\ beat' = beat + 1
    /\ UNCHANGED <<scene, coinMoves, ledgerTells, pass, windows, cuts, odd>>

(* The time a movement is told with may be cut to its precision, and its     *)
(* status may stay open; one that fails has moved nothing.                   *)
CoinsMove ==
    /\ Len(coinMoves) < scene.moves
    /\ \E stream \in Streams, stamp \in {beat, beat - scene.tick}, status \in {"pending", "done"} :
           \E brings \in Brings[stream] :
               /\ MayGoWrong(status = "pending")
               /\ coinMoves' = Append(coinMoves, [stream |-> stream, brings |-> brings, stamp |-> stamp, status |-> status])
    /\ UNCHANGED <<scene, beat, ledgerTells, pass, windows, cuts>>

MoveSettles ==
    /\ \E m \in Moved, status \in {"done", "failed"} :
           coinMoves[m].status = "pending" /\ coinMoves' = [coinMoves EXCEPT ![m].status = status]
    /\ UNCHANGED <<scene, beat, ledgerTells, pass, windows, cuts, odd>>

Taken(c) == Unset \notin {c.read, c.cut}

CutBegins ==
    /\ Len(cuts) < scene.cuts /\ Taken(cuts[Len(cuts)])
    /\ cuts' = Append(cuts, IF scene.readFirst THEN ReadNow(NewCut) ELSE [NewCut EXCEPT !.cut = beat])
    /\ UNCHANGED <<scene, beat, coinMoves, ledgerTells, pass, windows, odd>>

CutEnds ==
    /\ ~Taken(cuts[Len(cuts)])
    /\ LET c == cuts[Len(cuts)]
           taken == IF c.read = Unset THEN ReadNow(c) ELSE [c EXCEPT !.cut = beat]
       IN  \E whole \in BOOLEAN :
               MayGoWrong(~whole) /\ cuts' = [cuts EXCEPT ![Len(cuts)] = [taken EXCEPT !.whole = whole]]
    /\ UNCHANGED <<scene, beat, coinMoves, ledgerTells, pass, windows>>

(***************************************************************************)
(* The daily pass.                                                         *)
(***************************************************************************)
(* It reads up to the moment it begins.  First come the ledger's own rows,   *)
(* of which any may be missed, or be unlike what is stored already.          *)
PassBegins ==
    /\ pass.pc = "idle" /\ pass.runs < scene.passes
    /\ pass' = [Idle(pass.n + 1, pass.runs + 1) EXCEPT !.pc = "read", !.plan = 1, !.observed = beat]
    /\ LET listed == {m \in Moved : coinMoves[m].stamp \in beat - Trail..beat}
       IN  \E noted, unlike \in SUBSET listed :
               /\ unlike \subseteq noted /\ MayGoWrong(noted # listed \/ unlike # {})
               /\ ledgerTells' = [m \in DOMAIN ledgerTells |->
                      IF m \in noted THEN [n |-> pass.n + 1, status |-> coinMoves[m].status,
                                           alike |-> ledgerTells[m].alike /\ m \notin unlike]
                      ELSE ledgerTells[m]]
    /\ UNCHANGED <<scene, beat, coinMoves, windows, cuts>>

(* What the venue no longer keeps for sure has a window of its own, which is *)
(* never complete; the other one begins where it keeps everything.           *)
Cutoff(observed) == observed - scene.keeps
WindowOf(p) == [stream |-> scene.streams[p.plan], lo |-> Max({Cutoff(p.observed), p.observed - Trail}), hi |-> p.observed]
TellsNow(plan) ==
    {m \in Moved : /\ coinMoves[m].stream = plan.stream /\ coinMoves[m].stamp \in plan.lo..plan.hi
                   /\ coinMoves[m].stamp >= Cutoff(pass.observed)}

(* One row has the window, its facts and how it was read.  It may not be     *)
(* storable as it is, or at all.                                             *)
WindowRow(verdict, got) ==
    LET plan == WindowOf(pass)
    IN  [stream |-> plan.stream, lo |-> plan.lo, hi |-> plan.hi, n |-> pass.n + 1, status |-> verdict, got |-> got]
SaveWindow(verdict, got, wrong) ==
    /\ \/ windows' = windows \cup {WindowRow(verdict, got)} /\ MayGoWrong(wrong)
       \/ /\ windows' \in {windows, windows \cup {WindowRow("wrong", {})}, windows \cup {WindowRow("gap", {})}}
          /\ MayGoWrong(TRUE)
    /\ pass' = IF pass.plan = Len(scene.streams) THEN Idle(pass.n + 1, pass.runs)
               ELSE [Idle(pass.n + 1, pass.runs) EXCEPT !.pc = "read", !.observed = pass.observed, !.plan = pass.plan + 1]

(* A read that fails leaves a gap; an answer that cannot be right speaks     *)
(* against what was read before as well.  Pages are counted from the latest  *)
(* row, which may be a new one.  A venue may answer without a row.           *)
ReadPage ==
    /\ pass.pc = "read"
    /\ LET all == TellsNow(WindowOf(pass))
           offset == Cardinality(pass.got)
           seen == {g.id : g \in pass.got}
       IN  \/ \E verdict \in {"gap", "wrong"} : SaveWindow(verdict, pass.got, TRUE)
           \/ offset = MaxPages /\ SaveWindow("gap", pass.got, FALSE)
           \/ \E listed \in {all} \cup {all \ {m} : m \in all} :
               LET total == Cardinality(listed)
                   lacking == listed # all
               IN  /\ offset < MaxPages
                   /\ \/ pass.total \notin {Unset, total} /\ SaveWindow("wrong", pass.got, lacking)
                      \/ total = 0 /\ offset = 0 /\ SaveWindow("complete", {}, lacking)
                      \/ /\ pass.total \in {Unset, total}
                         /\ \E m \in listed \ seen :
                                LET got == pass.got \cup {[id |-> m, status |-> coinMoves[m].status]}
                                IN  /\ Cardinality({l \in listed : l > m}) = offset
                                    /\ IF offset + 1 = total THEN SaveWindow("complete", got, lacking)
                                       ELSE /\ pass' = [pass EXCEPT !.got = got, !.total = total]
                                            /\ UNCHANGED windows /\ MayGoWrong(lacking)
    /\ UNCHANGED <<scene, beat, coinMoves, ledgerTells, cuts>>

PassDies ==
    /\ pass.pc # "idle" /\ pass' = Idle(pass.n, pass.runs) /\ MayGoWrong(TRUE)
    /\ UNCHANGED <<scene, beat, coinMoves, ledgerTells, windows, cuts>>

CryptoFlowsNext ==
    \/ BeatPasses \/ CoinsMove \/ MoveSettles \/ CutBegins \/ CutEnds
    \/ PassBegins \/ ReadPage \/ PassDies

CryptoFlowsSpec == CryptoFlowsInit /\ [][CryptoFlowsNext]_flowVars

(***************************************************************************)
(* The reader.  An interval lies between two captures of which the venue's *)
(* worth is whole and of one moment; those between are bridged.            *)
(***************************************************************************)
Usable(c) == Taken(c) /\ c.whole /\ c.read - c.cut \in -CutTolerance..CutTolerance
Intervals ==
    {ij \in (DOMAIN cuts) \X (DOMAIN cuts) :
        /\ ij[1] < ij[2] /\ Usable(cuts[ij[1]]) /\ Usable(cuts[ij[2]])
        /\ \A b \in ij[1] + 1..ij[2] - 1 : ~Usable(cuts[b])}

Guards(i, j) == {{cuts[i].read, cuts[i].cut}, {cuts[j].read, cuts[j].cut}}
Padded(i, j) == <<Min(UNION Guards(i, j)) - scene.pad, Max(UNION Guards(i, j)) + scene.pad>>

Ids(w) == {g.id : g \in w.got}
Overlaps(w, span) == w.hi > span[1] /\ w.lo <= span[2]
(* Windows of the span, and all others that tell of a movement of theirs. *)
Selected(span) ==
    LET near == {w \in windows : Overlaps(w, span)}
    IN  {w \in windows : w \in near \/ \E v \in near : Ids(v) \cap Ids(w) # {}}

Covers(ws, lo, hi) == \A t \in lo + 1..hi : \E w \in ws : w.lo <= t /\ t <= w.hi

(* Complete windows cover the span, and later ones what a wrong answer was   *)
(* given for.                                                                *)
Covered(view, span) ==
    \A stream \in Streams :
        LET good == {w \in view : w.stream = stream /\ w.status = "complete"}
        IN  /\ Covers(good, span[1], span[2])
            /\ \A w \in {v \in view : v.stream = stream /\ v.status = "wrong" /\ Overlaps(v, span)} :
                   Covers({g \in good : g.n > w.n}, Max({w.lo - 1, span[1]}), Min({w.hi, span[2]}))

(* A strict fact has the status that was seen last, also by the ledger. *)
StatusOf(m, view) ==
    LET strict == {w \in view : m \in Ids(w)}
        latest == CHOOSE w \in strict : \A v \in strict : v.n <= w.n
    IN  IF ledgerTells[m].n > latest.n THEN ledgerTells[m].status
        ELSE (CHOOSE g \in latest.got : g.id = m).status

(* Instants the time of a movement may stand for. *)
ReadingExact(stamp) == {stamp}
Readings(stamp) == stamp - scene.tick..stamp + scene.tick

Between(i, j, m) == cuts[i].cut < coinMoves[m].stamp /\ coinMoves[m].stamp <= cuts[j].cut

(* What the ledger alone knows of may veto, and counts for nothing. *)
LedgerKnows(span) ==
    {m \in Moved : ledgerTells[m].n > 0 /\ span[1] < coinMoves[m].stamp /\ coinMoves[m].stamp <= span[2]}

Told(i, j) ==
    LET span == Padded(i, j)
        view == Selected(span)
        strict == UNION {Ids(w) : w \in view}
        known == strict \cup LedgerKnows(span)
    IN  /\ cuts[i].cut < cuts[j].cut
        /\ Covered(view, span)
        /\ \A m \in known, guard \in Guards(i, j) :
               Readings(coinMoves[m].stamp) \cap Min(guard)..Max(guard) = {}
        /\ \A m \in known : Between(i, j, m) =>
               m \in strict /\ ledgerTells[m].alike /\ StatusOf(m, view) # "pending"

SumOf(moves) == MapThenSumSet(LAMBDA m : coinMoves[m].brings, moves)
ToldFlow(i, j) ==
    LET view == Selected(Padded(i, j))
        counted == {m \in UNION {Ids(w) : w \in view} : Between(i, j, m) /\ StatusOf(m, view) = "done"}
    IN  SumOf(counted)

(***************************************************************************)
(* Properties.                                                             *)
(***************************************************************************)
(* The flow told of an interval is what moved between the two moments the    *)
(* venue's worth was read at, unless no pass was told of a movement: though  *)
(* captures are dated at another moment, times are cut, movements settle or  *)
(* fail later, passes fail, die, run out of pages and begin while money      *)
(* moves, and venues forget and leave rows out.                              *)
TellsOf(m) == ledgerTells[m].n > 0 \/ \E w \in windows : m \in Ids(w)
FlowBetweenReads ==
    \A ij \in Intervals :
        LET moved == {m \in cuts[ij[2]].counted \ cuts[ij[1]].counted : coinMoves[m].status # "failed"}
        IN  Told(ij[1], ij[2]) /\ (\A m \in moved : TellsOf(m)) => ToldFlow(ij[1], ij[2]) = SumOf(moved)

================================================================================
