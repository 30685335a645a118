----------------------------- MODULE MCBulkImport -----------------------------
(***************************************************************************)
(* Small instances of BulkImport.                                          *)
(***************************************************************************)
EXTENDS BulkImport, TLC

CONSTANT Pair   \* the request that differs from the others, if any does

\* A batch of two files with the same bytes and a retry of its submission.
RetryKey      == [r \in Requests |-> "k"]
OneSupplier   == [r \in Requests |-> "s"]
TwoCopies     == [r \in Requests |-> <<"x", "x">>]

\* Batches of one file each, under keys of their own.
OwnKey        == [r \in Requests |-> r]
SameFile      == [r \in Requests |-> <<"x">>]

NoEntries == {}
FirstEntries == {e \in Entries : e[2] = 1}
PairEntries == {e \in Entries : e[1] = Pair}
PairFirst == {e \in PairEntries : e[2] = 1}

Reading(s, l, f, n, v) == [series |-> s, lot |-> l, form |-> f, rows |-> n, values |-> v]
OneReading == {Reading("A", "L1", "F", 1, 1)}

\* A LOT, a revision of it, and a LOT of the same series with other rows.
LotReadings == {Reading("A", "L1", "F", 1, 1), Reading("A", "L1", "F", 1, 2),
                Reading("A", "L2", "F", 2, 1)}

\* One batch of two different files, the others a copy of the first.
PairAndCopies == [r \in Requests |-> IF r = Pair THEN <<"x", "y">> ELSE <<"x">>]

\* The submissions are interchangeable where their key, supplier and files agree.
Interchangeable == Permutations(Requests)
=============================================================================
