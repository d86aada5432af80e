----------------------------- MODULE DatasetExport -----------------------------
(***************************************************************************)
(* Frozen exports and their pages (portfolio_export.py): a dataset is      *)
(* stored under the hash of its contents, the oldest are deleted for it,   *)
(* and a client pages through it with signed cursors.                      *)
(*                                                                         *)
(* Each operation is one immediate transaction, whatever process runs it.  *)
(* What is exported changes between two freezes; a page ends at its size   *)
(* or at its byte budget, wherever that is.                                *)
(***************************************************************************)
EXTENDS Integers, Sequences, SequencesExt

CONSTANTS
    Exporters,      \* clients
    Contents,       \* what the rows of an export may be
    MaxDatasets,
    MaxFreezes      \* bound on the datasets frozen

ASSUME ExportAssumption ==
    /\ \A c \in Contents : c \in Seq(Range(c)) /\ c # <<>>
    /\ MaxDatasets \in Nat \ {0} /\ MaxFreezes \in Nat

VARIABLES
    datasets,       \* the stored datasets, in the order of their sequence
    frozen,         \* how many were inserted
    exporter        \* each client: the dataset it reads, its cursor, the rows it has and
                    \* whether it was told that there are no more

exportVars == <<datasets, frozen, exporter>>

NoExport == [id |-> <<>>, cursor |-> <<>>, rows |-> <<>>, whole |-> FALSE]

ExportInit ==
    /\ datasets = <<>> /\ frozen = 0
    /\ exporter = [x \in Exporters |-> NoExport]

(* The hash of the manifest, which holds the hash of the rows: as good as   *)
(* the rows themselves.  Variant: the hash of the row count alone.          *)
CountOf(contents) == <<Len(contents)>>
DatasetId(contents) == contents

Ids == {datasets[i].id : i \in DOMAIN datasets}

Newest(all) == SubSeq(all, IF Len(all) > MaxDatasets THEN Len(all) - MaxDatasets + 1 ELSE 1, Len(all))

(* freeze: rows are inserted unless the dataset is there already. *)
Freeze(x, contents) ==
    LET id == DatasetId(contents)
    IN  /\ id \notin Ids => frozen < MaxFreezes
        /\ datasets' = IF id \in Ids THEN datasets ELSE Newest(Append(datasets, [id |-> id, rows |-> contents]))
        /\ frozen' = IF id \in Ids THEN frozen ELSE frozen + 1
        /\ exporter' = [exporter EXCEPT ![x] = [id |-> id, cursor |-> <<>>, rows |-> <<>>, whole |-> FALSE]]

(* A cursor names its dataset and the row it goes on from. *)
Cursor(id, offset) == <<id, offset>>
Offset(x) == IF exporter[x].cursor = <<>> THEN 0 ELSE exporter[x].cursor[2]

(* page: count rows from the cursor on, and a cursor if more remain. *)
Page(x, count) ==
    /\ exporter[x].id # <<>> /\ ~exporter[x].whole
    /\ \E i \in DOMAIN datasets :
          LET rows == datasets[i].rows
              end == Offset(x) + count
          IN  /\ datasets[i].id = exporter[x].id
              /\ Offset(x) <= Len(rows) /\ end <= Len(rows)
              /\ exporter' = [exporter EXCEPT ![x] =
                    [id |-> @.id,
                     cursor |-> IF end < Len(rows) THEN Cursor(@.id, end) ELSE @.cursor,
                     rows |-> @.rows \o SubSeq(rows, Offset(x) + 1, end),
                     whole |-> end >= Len(rows)]]
    /\ UNCHANGED <<datasets, frozen>>

(* The dataset expired between two pages: the client starts again with an *)
(* export of its own, or waits for the same contents to be frozen again.  *)
Expired(x) == exporter[x].id # <<>> /\ exporter[x].id \notin Ids

StartAgain(x) ==
    /\ Expired(x)
    /\ exporter' = [exporter EXCEPT ![x] = NoExport]
    /\ UNCHANGED <<datasets, frozen>>

ExportNext ==
    \E x \in Exporters :
        \/ \E contents \in Contents : Freeze(x, contents)
        \/ \E count \in 1..2 : Page(x, count)
        \/ StartAgain(x)

ExportSpec == ExportInit /\ [][ExportNext]_exportVars

(***************************************************************************)
(* Properties.                                                             *)
(***************************************************************************)
(* The pages a client puts together are the beginning of one of the exports *)
(* ever frozen, row for row, and all of it once it is told so: also when    *)
(* its dataset was deleted between two pages and frozen again.              *)
ExportPages ==
    \A x \in Exporters : exporter[x].rows # <<>> =>
        \E contents \in Contents :
            /\ DatasetId(contents) = exporter[x].id
            /\ IsPrefix(exporter[x].rows, contents)
            /\ exporter[x].whole => exporter[x].rows = contents
================================================================================
