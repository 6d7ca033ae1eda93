---------------------------- MODULE MCSettlement ----------------------------
(* Small instances of Settlement for TLC. *)
EXTENDS Settlement, UnloadingShares, TLC

\* requests, containers, teams, rates and months are interchangeable
Interchangeable ==
    Permutations(Tx) \cup Permutations(Containers) \cup Permutations(Teams)
    \cup Permutations(Rates) \cup Permutations(Months)

\* pay containers of up to three unloaders, at rates that do not divide, and
\* percentages that add up to 100 in three ways
Given(method, n) ==
    CASE method = "MANUAL_AMOUNT"  -> [1..n -> {0, 1, 50, 1000}]
      [] method = "MANUAL_PERCENT" ->
             [1..n -> {0, 5 * Percent, 333333, 333334, 50 * Percent, 100 * Percent}]
      [] OTHER                     -> {<<>>}
SharedPays ==
    UNION {[rate : {1, 50, 101, 1001, 2000}, method : {m}, given : Given(m, n),
            team : {SubSeq(<<"A", "B", "C">>, 1, n)}] :
        m \in {"EQUAL_SPLIT", "MANUAL_AMOUNT", "MANUAL_PERCENT"}, n \in 1..3}
PaysOfMonth == {{p \in SharedPays : p.rate = r} : r \in {1, 50, 101, 1001, 2000}}

\* work items of two containers: one trailer or none, one pay container or none
ByAmounts == <<[worker |-> "A", amount |-> 20000], [worker |-> "B", amount |-> 16000]>>
WorkItems(id) ==
    [id : {id}, pay : {Missing, "p"}, trailer : {Missing, "t"}, container : {"c", "d"},
     class : {"OCEAN_CONTAINER", "US_TO_CANADA_TRANSFER"}, completed : {1},
     team : {<<"A", "B">>, <<"B", "A">>}, manual : {<<>>, ByAmounts}]
TwoItems == {<<i, j>> : i \in WorkItems("i"), j \in WorkItems("j")}
ScriptRates == [OCEAN_CONTAINER |-> 30001, US_TO_CANADA_TRANSFER |-> 36000]

ASSUME SharesArePaidOut ==
    /\ SharesAddUp(SharedPays) /\ PercentagesMet(SharedPays) /\ ScriptAgrees(SharedPays)
    /\ \A pays \in PaysOfMonth : MonthIsPaidOut(pays, {"A", "B", "C"})
    /\ \A items \in TwoItems : ScriptPaysRates(items, ScriptRates, {"A", "B"})
=============================================================================
