---------------------------- MODULE UnloadingShares ----------------------------
(***************************************************************************)
(* How the rate of a pay container is shared by its unloaders and what     *)
(* each gets in a month: by the API (apps/api/src/unloading-wage), and by  *)
(* the settlement script of the Python worker from a list of work items    *)
(* (worker_python/unloading_wage).                                         *)
(*                                                                         *)
(* Money is in cents and a percentage in ten-thousandths of a percent, as  *)
(* the database keeps them; products are exact, where the API's are of     *)
(* floating point.  Shares are a sequence in the order of the unloaders.   *)
(* The empty sequence is a refusal.  Left out: names, which follow the     *)
(* codes of the workers, and the parsing of the input.                     *)
(***************************************************************************)
EXTENDS Integers, Sequences, FiniteSets, Functions

Percent == 10000  \* 1 percent

SharesTotal(shares) == SumFunction(shares)

\* equalAllocations: the cents that are left go to the first unloaders
EqualShares(rate, n) ==
    [i \in 1..n |-> (rate \div n) + (IF i <= rate % n THEN 1 ELSE 0)]

\* MANUAL_AMOUNT: what was entered, if it is the rate
AmountShares(rate, amounts) ==
    IF SharesTotal(amounts) = rate THEN amounts ELSE <<>>

\* Math.round(rate * percent / 100)
PercentOf(rate, percent) == (rate * percent + 50 * Percent) \div (100 * Percent)

\* percentAllocations: each share is rounded, and the last is what remains
PercentShares(rate, percents) ==
    LET n       == Len(percents)
        rounded == [i \in 1..(n - 1) |-> PercentOf(rate, percents[i])]
    IN  IF SharesTotal(percents) = 100 * Percent
        THEN Append(rounded, rate - SharesTotal(rounded))
        ELSE <<>>

\* allocations: by the method of the pay container
Shares(pay) ==
    CASE pay.method = "MANUAL_AMOUNT"  -> AmountShares(pay.rate, pay.given)
      [] pay.method = "MANUAL_PERCENT" -> PercentShares(pay.rate, pay.given)
      [] OTHER                         -> EqualShares(pay.rate, Len(pay.team))

\* settlementInputs: of the completed pay containers with unloaders, those whose shares
\* are refused are left out
Accepted(pays) == {p \in pays : Shares(p) # <<>>}

\* workerTotals: what every worker has in the pay containers
Parts(pays) == UNION {{p} \X DOMAIN p.team : p \in Accepted(pays)}

WorkerTotal(worker, pays) ==
    SumFunction([q \in {q \in Parts(pays) : q[1].team[q[2]] = worker}
                     |-> Shares(q[1])[q[2]]])

\* the total of the settlement
MonthTotal(pays) == SumFunction([p \in Accepted(pays) |-> p.rate])
-----------------------------------------------------------------------------
(* The script: work items that were read without an error, in their order. *)
(* manual is a sequence of a worker and an amount each, without repeats.   *)

Missing == ""

FirstGiven(values) == values[CHOOSE i \in DOMAIN values :
                         /\ values[i] # Missing
                         /\ \A j \in 1..(i - 1) : values[j] = Missing]

\* what is paid once: an ocean container, or a transfer with all of its containers
GroupKey(item) ==
    <<item.class,
      IF item.class = "US_TO_CANADA_TRANSFER"
      THEN FirstGiven(<<item.pay, item.trailer, item.id>>)
      ELSE item.container>>

Group(items, key) == {i \in DOMAIN items : GroupKey(items[i]) = key}

FirstItem(items, key) ==
    items[CHOOSE i \in Group(items, key) : \A j \in Group(items, key) : i <= j]

\* The teams and amounts are compared in the order in which they were given.
ConsistentGroup(items, key) ==
    \A i \in Group(items, key) :
        LET first == FirstItem(items, key)
        IN  /\ items[i].completed = first.completed
            /\ items[i].team = first.team
            /\ items[i].manual = first.manual

\* the amount of each unloader; the manual amounts, if there are any, are of the team
ScriptShares(item, rate) ==
    LET workers == {item.manual[i].worker : i \in DOMAIN item.manual}
        amounts == [i \in DOMAIN item.manual |-> item.manual[i].amount]
    IN  IF item.manual = <<>>
        THEN {[worker |-> item.team[i], amount |-> EqualShares(rate, Len(item.team))[i]] :
                 i \in DOMAIN item.team}
        ELSE IF workers = {item.team[i] : i \in DOMAIN item.team}
                /\ AmountShares(rate, amounts) # <<>>
        THEN {item.manual[i] : i \in DOMAIN item.manual}
        ELSE {}

\* the pay containers of the result, with their shares
ScriptPays(items, rates) ==
    {[key |-> key, rate |-> rates[key[1]],
      shares |-> ScriptShares(FirstItem(items, key), rates[key[1]])] :
        key \in {k \in {GroupKey(items[i]) : i \in DOMAIN items} :
                    /\ k[1] \in DOMAIN rates
                    /\ ConsistentGroup(items, k)
                    /\ ScriptShares(FirstItem(items, k), rates[k[1]]) # {}}}

ScriptWorker(worker, pays) ==
    SumFunction([q \in {q \in UNION {{p} \X p.shares : p \in pays} :
                            q[2].worker = worker} |-> q[2].amount])
-----------------------------------------------------------------------------
(* What is true of the shares.  These formulas have no state: TLC          *)
(* evaluates them as assumptions of MCSettlement, SettlementProofs proves  *)
(* them.                                                                   *)

\* Whatever the method, the shares add up to the rate, to the cent; of equal shares no
\* two differ by more than a cent.
SharesAddUp(pays) ==
    \A p \in Accepted(pays) :
        /\ Len(Shares(p)) = Len(p.team)
        /\ SharesTotal(Shares(p)) = p.rate
        /\ p.method = "EQUAL_SPLIT" =>
              \A i, j \in DOMAIN p.team : Shares(p)[i] - Shares(p)[j] \in -1..1

\* A percentage is met within half a cent; the last unloader bears what was rounded for
\* the others, half a cent for each at most.
PercentagesMet(pays) ==
    \A p \in Accepted(pays) : p.method = "MANUAL_PERCENT" =>
        \A i \in DOMAIN p.team :
            LET off   == 100 * Percent * Shares(p)[i] - p.rate * p.given[i]
                bears == 50 * Percent * (IF i = Len(p.team) THEN i - 1 ELSE 1)
            IN  -bears <= off /\ off <= bears

\* What the workers get in a month is what the settlement says it costs.
MonthIsPaidOut(pays, workers) ==
    SumFunction([w \in workers |-> WorkerTotal(w, pays)]) = MonthTotal(pays)

\* The script pays out the rates of its pay containers, and the order of the work items
\* does not matter.
ScriptPaysRates(items, rates, workers) ==
    LET pays      == ScriptPays(items, rates)
        backwards == [i \in DOMAIN items |-> items[Len(items) + 1 - i]]
    IN  /\ SumFunction([w \in workers |-> ScriptWorker(w, pays)])
              = SumFunction([p \in pays |-> p.rate])
        /\ ScriptPays(backwards, rates) = pays

\* The script and the API give every worker the same share of a pay container that is
\* shared equally or by amounts.
ScriptAgrees(pays) ==
    \A p \in pays : p.method # "MANUAL_PERCENT" =>
        LET manual == IF p.method = "EQUAL_SPLIT" THEN <<>>
                      ELSE [i \in DOMAIN p.team |-> [worker |-> p.team[i],
                                                     amount |-> p.given[i]]]
            shares == Shares(p)
        IN  ScriptShares([team |-> p.team, manual |-> manual], p.rate)
              = {[worker |-> p.team[i], amount |-> shares[i]] : i \in DOMAIN shares}

(* A statement the code does not keep (README). *)

\* Nobody's share is below zero.
SharesNotNegative(pays) ==
    \A p \in Accepted(pays) : \A i \in DOMAIN p.team : Shares(p)[i] >= 0
=============================================================================
