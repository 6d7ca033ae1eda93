------------------------ MODULE MCContainerInventory ------------------------
EXTENDS ContainerInventory, PalletCalculation, TLC

D2         == {1, 2}
D1         == {1}
SameCode   == [d \in Dests |-> "X"]
OneOrTwo   == {1, 2}
NoneOrOne  == {0, 1}
Recounts   == [calc : Counts, manual : {Keep}]
EitherWay  == Recounts \cup [calc : {Keep}, manual : Manual]
TwoEach    == [d \in Dests |-> 2]
TwoAndOne  == [d \in Dests |-> IF d = 1 THEN 2 ELSE 1]
AllOps     == Endpoints
DeleteRace == {"labels", "scan", "reverse", "delete"}
EditRace   == {"edit"}
Interchangeable == Permutations(Tx)
ByHand     == {"LABELS_GENERATED", "LOADING_IN_PROGRESS"}

\* lines at the limits of one, two and three pallets of either height
Boundaries == [pieces : {NoCount, 0, 1, 2, 3}, package : Packages,
               volume : {0, 1, 10, 2039, 2040, 2041, 2640, 2641, 4080, 4081, 5280, 6121}]

ASSUME BothCalculations == CalculationsAgree /\ RecalculationKeeps /\ PalletsHold
=============================================================================
