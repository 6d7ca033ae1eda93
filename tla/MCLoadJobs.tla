------------------------------ MODULE MCLoadJobs ------------------------------
\* Small instances of LoadJobs for TLC.
EXTENDS LoadJobs, TLC

CONSTANTS t1, t2, j1, j2, p1, p2, p3, d1, d2, c1

\* two pallets for d1, and p3, where there is one, for d2; all of container c1
TwoPallets  == [p \in {p1, p2} |-> d1]
TwoDests    == [p \in {p1, p2} |-> IF p = p1 THEN d1 ELSE d2]
ThreePallets == [p \in {p1, p2, p3} |-> d1]
OnePallet   == [p \in {p1} |-> d1]
OneContainer == [d \in {d1} |-> c1]
SameContainer == [d \in {d1, d2} |-> c1]

Line(scope, n) == [scope |-> scope, planned |-> n]

PlanOne  == {<<Line(d1, 1)>>}
PlanMixed == {<<Line(d1, 1), Line(c1, 1)>>, <<Line(c1, 2)>>, <<Line(d2, 1)>>, <<Line(c1, 1)>>}

TxSymmetry == Permutations(Tx)
=============================================================================
