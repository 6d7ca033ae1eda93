----------------------------- MODULE MCImports -----------------------------
(* Small instances of Imports for TLC. *)
EXTENDS Imports, TLC

CONSTANTS t1, t2, i1, i2, i3, f1, f2

\* two workbooks, the first uploaded a second time after its deletion
TwoFiles == [i \in Imports |-> IF i = i2 THEN f2 ELSE f1]

Interchangeable == Permutations(Tx)
=============================================================================
